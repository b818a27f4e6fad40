------------------------- MODULE MCSignalingServer -------------------------
(* A finite instance of SignalingServer: a user who logs in three times.   *)
(* Nothing relates the states of two users.                                *)
EXTENDS SignalingServer

CONSTANTS alice, a1, a2, a3

MCUsers == {alice}
MCConns == {a1, a2, a3}
MCUid == [c \in MCConns |-> alice]
============================================================================
