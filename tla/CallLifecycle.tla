---------------------------- MODULE CallLifecycle ----------------------------
(***************************************************************************)
(* What a call manager promises its user interface: one session at a time, *)
(* which is dialled or rings, connects, and ends.  While it lasts, the     *)
(* session belongs to one peer, carries one call identifier and keeps its  *)
(* direction.  CallManager is shown to implement this specification except *)
(* in behaviours in which the request timer races an API thread.           *)
(***************************************************************************)
CONSTANTS
    Peers,      \* the other clients
    CallIds,    \* identifiers of calls
    NoPeer,     \* the empty peer name
    NoCall      \* the empty call identifier

VARIABLES
    phase,      \* where the session is in its life
    peer,       \* who the session is with
    call,       \* the identifier both ends use for it
    caller      \* TRUE on the side that dialled

vars == <<phase, peer, call, caller>>
who == <<peer, call, caller>>

Init ==
    /\ phase = "Idle"
    /\ peer = NoPeer
    /\ call = NoCall
    /\ caller = FALSE

Begin(how) ==
    /\ phase = "Idle"
    /\ phase' = how
    /\ peer' \in Peers
    /\ call' \in CallIds
    /\ caller' = (how = "Calling")

Advance(from, to) ==
    /\ phase = from
    /\ phase' = to
    /\ UNCHANGED who

Finish ==
    /\ phase # "Idle"
    /\ phase' = "Idle"
    /\ peer' = NoPeer
    /\ call' = NoCall
    /\ caller' = FALSE

Next ==
    \/ Begin("Calling")
    \/ Begin("Receiving")
    \/ Advance("Calling", "Connecting")
    \/ Advance("Receiving", "Connecting")
    \/ Advance("Connecting", "Connected")
    \/ \E from \in {"Calling", "Receiving", "Connecting", "Connected"} :
          Advance(from, "Ending")
    \/ Finish

Spec == Init /\ [][Next]_vars
=============================================================================
