---------------------------- MODULE MCClientLists ----------------------------
(***************************************************************************)
(* A finite instance of ClientLists: alice logs in twice, bob once.        *)
(*                                                                         *)
(* States with the same view have the same future as far as views show it: *)
(* no action looks at a generation, an offline job or doomed before it     *)
(* changes what is in the view, since WriteFails may do what CloseReplaced *)
(* does, and nothing is sent to a closed connection.  ListIsCurrent looks  *)
(* only at connections in the map, which are read (ServerProofs, MapInv),  *)
(* and only when none of those that are read is closed.                    *)
(***************************************************************************)
EXTENDS ClientLists, TLC

CONSTANTS alice, bob, a1, a2, b1

MCUsers == {alice, bob}
MCConns == {a1, a2, b1}
MCUid == [c \in MCConns |-> IF c = b1 THEN bob ELSE alice]
Symmetry == Permutations({a1, a2})

ListView == <<clients, st, closed, reader, errand, welcome, list, spoiled,
              [c \in Conns \ closed |-> shown[c]]>>
=============================================================================
