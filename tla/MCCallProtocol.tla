--------------------------- MODULE MCCallProtocol ---------------------------
(* A finite instance of CallProtocol. *)
EXTENDS CallProtocol

CONSTANTS a, b

MCUsers == {a, b}
MCFlaky == {b}
=============================================================================
