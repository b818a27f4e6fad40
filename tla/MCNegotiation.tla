---------------------------- MODULE MCNegotiation ----------------------------
(* A finite instance of Negotiation. *)
EXTENDS Negotiation

CONSTANTS alice, bob

MCPeers == {alice, bob}
=============================================================================
