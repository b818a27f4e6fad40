----------------------------- MODULE CallManager -----------------------------
(***************************************************************************)
(* The call state machine of src/callmanager.cc at the granularity of its  *)
(* mutex.  Every method takes mutex_ to test and change the call state,    *)
(* releases it, and only then sends, notifies the observer and cleans up:  *)
(* each of those stretches is one action, and at[t] is the                 *)
(* point an API thread has reached.  The timer thread of an outgoing call  *)
(* runs beside the API threads.                                            *)
(*                                                                         *)
(* In the application the only API thread is the signaling I/O thread:     *)
(* the user interface, the WebRTC callbacks and the ICE watchdog all post  *)
(* to it.  The unit tests also call the manager from two threads.          *)
(*                                                                         *)
(* The observer is the coordinator.  Of what its callbacks do, this module *)
(* keeps the two things that belong to a session: the engine's peer        *)
(* connection (pc: the call it was created for) and the coordinator's      *)
(* current_peer_id_ (coord_peer).  Its ICE watchdog is in IceWatchdog.     *)
(* Sending a message touches none of this state and has no action.         *)
(***************************************************************************)
EXTENDS Naturals

CONSTANTS
    Threads,     \* threads that call the public methods
    Initiators,  \* those that call InitiateCall
    Peers,       \* the other clients
    NoPeer,      \* the empty peer name
    RemoteIds,   \* call identifiers made by the other clients
    NoCall,      \* the empty call identifier
    MaxCalls     \* bound on the calls made by this client

OwnIds == 1..MaxCalls
CallIds == OwnIds \cup RemoteIds
Ids == CallIds \cup {NoCall}

(***************************************************************************)
(* InitiateCall replaces call_request_timer_thread_ without a lock, so two *)
(* threads may not run it at once.                                         *)
(***************************************************************************)
ASSUME ConstantsAssumption ==
    /\ Threads # {}
    /\ Initiators \subseteq Threads
    /\ \A s, t \in Initiators : s = t
    /\ NoPeer \notin Peers
    /\ NoCall \notin CallIds
    /\ OwnIds \cap RemoteIds = {}
    /\ MaxCalls \in Nat

VARIABLES
    call_state,       \* call_state_
    current_peer,     \* current_peer_
    current_call_id,  \* current_call_id_
    is_caller,        \* is_caller_
    observer,         \* observer_ is registered
    at,               \* what each API thread does next
    loc,              \* the copies a method takes under the mutex
    timer_at,         \* what the timer thread does next
    timer_armed,      \* its generation equals timer_generation_
    timer_stop,       \* its stop token has been triggered
    timer_obs,        \* the observer OnCallRequestTimeout or CleanupCall copied
    calls,            \* call identifiers generated so far
    pc,               \* the call the engine's peer connection was created for
    coord_peer,       \* the coordinator's current_peer_id_
    raced             \* history: an API thread interfered with a timeout

session == <<call_state, current_peer, current_call_id, is_caller>>
timer == <<timer_at, timer_armed, timer_stop, timer_obs>>
media == <<pc, coord_peer>>
vars == <<session, observer, at, loc, timer, calls, media, raced>>

States == {"Idle", "Calling", "Receiving", "Connecting", "Connected", "Ending"}
Labels == {"ret", "initiate_state", "initiate_stop", "initiate_join",
           "accept_state", "create", "rejected", "cancelled", "ended",
           "cleanup", "notify"}
TimerLabels == {"none", "wait", "checked", "report", "cleanup", "notify"}
Locals == [peer : Peers \cup {NoPeer}, call : Ids, obs : BOOLEAN]
NoLocals == [peer |-> NoPeer, call |-> NoCall, obs |-> FALSE]

Init ==
    /\ call_state = "Idle"
    /\ current_peer = NoPeer
    /\ current_call_id = NoCall
    /\ is_caller = FALSE
    /\ observer = TRUE
    /\ at = [t \in Threads |-> "ret"]
    /\ loc = [t \in Threads |-> NoLocals]
    /\ timer_at = "none"
    /\ timer_armed = FALSE
    /\ timer_stop = FALSE
    /\ timer_obs = FALSE
    /\ calls = 0
    /\ pc = NoCall
    /\ coord_peer = NoPeer
    /\ raced = FALSE

-----------------------------------------------------------------------------
(* Control of the API threads. *)

\* OnCallRequestTimeout has found Calling and has not finished cleaning up.
TimingOut == timer_at \in {"report", "cleanup", "notify"}

\* Every API step records whether it falls into a timeout in progress.
Interfere == raced' = (raced \/ TimingOut)

Goto(t, label) == at' = [at EXCEPT ![t] = label]

\* A method that passed its test copies what it needs while it holds the mutex.
Enter(t, label, p, c) ==
    /\ at[t] = "ret"
    /\ Goto(t, label)
    /\ loc' = [loc EXCEPT ![t] = [peer |-> p, call |-> c, obs |-> observer]]
    /\ Interfere

\* The copies die with the method.
Return(t) ==
    /\ Goto(t, "ret")
    /\ loc' = [loc EXCEPT ![t] = NoLocals]

\* current_peer_ != from || current_call_id_ != call_id || call_id.empty()
Matches(p, c) == current_peer = p /\ current_call_id = c /\ c # NoCall

\* The observer's reaction to OnNeedClosePeerConnection, OnCallRejected,
\* OnCallCancelled and OnCallTimeout.
ClosePeerConnection(obs) == pc' = IF obs THEN NoCall ELSE pc

-----------------------------------------------------------------------------
(* Outgoing calls. *)

InitiateCall(t, p) ==
    /\ t \in Initiators
    /\ call_state = "Idle"
    /\ calls < MaxCalls
    /\ calls' = calls + 1
    /\ current_peer' = p
    /\ current_call_id' = calls + 1
    /\ is_caller' = TRUE
    /\ Enter(t, "initiate_state", p, calls + 1)
    /\ UNCHANGED <<call_state, observer, timer, media>>

\* SetCallState(Calling).  A timer that already passed its generation check
\* would take the new call for its own.
InitiateSetState(t) ==
    /\ at[t] = "initiate_state"
    /\ call_state' = "Calling"
    /\ Goto(t, "initiate_stop")
    /\ raced' = (raced \/ TimingOut \/ timer_at = "checked")
    /\ UNCHANGED <<current_peer, current_call_id, is_caller, observer, loc,
                   timer, calls, media>>

\* StartCallRequestTimer: request_stop on the previous thread ...
StartTimerStop(t) ==
    /\ at[t] = "initiate_stop"
    /\ timer_stop' = TRUE
    /\ Goto(t, "initiate_join")
    /\ Interfere
    /\ UNCHANGED <<session, observer, loc, timer_at, timer_armed, timer_obs,
                   calls, media>>

\* ... join it, take the next generation and start a new one.
StartTimerJoin(t) ==
    /\ at[t] = "initiate_join"
    /\ timer_at = "none"
    /\ timer_at' = "wait"
    /\ timer_armed' = TRUE
    /\ timer_stop' = FALSE
    /\ Return(t)
    /\ Interfere
    /\ UNCHANGED <<session, observer, timer_obs, calls, media>>

CancelCall(t) ==
    /\ call_state = "Calling"
    /\ Enter(t, "cleanup", current_peer, current_call_id)
    /\ UNCHANGED <<session, observer, timer, calls, media>>

\* Mutant: the timer is stopped before the answer is matched with the call.
HandleCallResponse_StopsTimerFirst(t, p, c, accepted) ==
    /\ at[t] = "ret"
    /\ call_state = "Calling"
    /\ timer_armed' = FALSE
    /\ IF Matches(p, c)
       THEN /\ call_state' = IF accepted THEN "Connecting" ELSE call_state
            /\ Enter(t, IF accepted THEN "create" ELSE "rejected", p, c)
       ELSE /\ Interfere
            /\ UNCHANGED <<call_state, at, loc>>
    /\ UNCHANGED <<current_peer, current_call_id, is_caller, observer,
                   timer_at, timer_stop, timer_obs, calls, media>>

HandleCallResponse(t, p, c, accepted) ==
    /\ call_state = "Calling"
    /\ Matches(p, c)
    /\ timer_armed' = FALSE
    /\ call_state' = IF accepted THEN "Connecting" ELSE call_state
    /\ IF observer
       THEN Enter(t, IF accepted THEN "create" ELSE "rejected", p, c)
       ELSE at[t] = "ret" /\ Interfere /\ UNCHANGED <<at, loc>>
    /\ UNCHANGED <<current_peer, current_call_id, is_caller, observer,
                   timer_at, timer_stop, timer_obs, calls, media>>

\* OnCallStateChanged(Idle) and OnCallRejected, before any cleanup.
ReportRejected(t) ==
    /\ at[t] = "rejected"
    /\ coord_peer' = NoPeer
    /\ ClosePeerConnection(TRUE)
    /\ Goto(t, "cleanup")
    /\ Interfere
    /\ UNCHANGED <<session, observer, loc, timer, calls>>

-----------------------------------------------------------------------------
(* Incoming calls. *)

\* Mutant: the two string parameters are swapped.
HandleCallRequest_Swapped(t, p, c) ==
    /\ at[t] = "ret"
    /\ c # NoCall
    /\ call_state = "Idle"
    /\ call_state' = "Receiving"
    /\ current_peer' = c
    /\ current_call_id' = p
    /\ is_caller' = FALSE
    /\ Interfere
    /\ UNCHANGED <<observer, at, loc, timer, calls, media>>

\* Mutant: only a connected session counts as busy.
HandleCallRequest_NotBusy(t, p, c) ==
    /\ at[t] = "ret"
    /\ c # NoCall
    /\ call_state # "Connected"
    /\ call_state' = "Receiving"
    /\ current_peer' = p
    /\ current_call_id' = c
    /\ is_caller' = FALSE
    /\ Interfere
    /\ UNCHANGED <<observer, at, loc, timer, calls, media>>

\* A busy manager only answers; an idle one starts to ring.
HandleCallRequest(t, p, c) ==
    /\ at[t] = "ret"
    /\ c # NoCall
    /\ call_state = "Idle"
    /\ call_state' = "Receiving"
    /\ current_peer' = p
    /\ current_call_id' = c
    /\ is_caller' = FALSE
    /\ Interfere
    /\ UNCHANGED <<observer, at, loc, timer, calls, media>>

AcceptCall(t) ==
    /\ call_state = "Receiving"
    /\ Enter(t, "accept_state", current_peer, current_call_id)
    /\ UNCHANGED <<session, observer, timer, calls, media>>

\* SetCallState(Connecting), whatever the state is by now.
AcceptSetState(t) ==
    /\ at[t] = "accept_state"
    /\ call_state' = "Connecting"
    /\ IF loc[t].obs
       THEN Goto(t, "create") /\ UNCHANGED loc
       ELSE Return(t)
    /\ Interfere
    /\ UNCHANGED <<current_peer, current_call_id, is_caller, observer, timer,
                   calls, media>>

RejectCall(t) ==
    /\ call_state = "Receiving"
    /\ Enter(t, "cleanup", current_peer, current_call_id)
    /\ UNCHANGED <<session, observer, timer, calls, media>>

HandleCallCancel(t, p, c) ==
    /\ call_state = "Receiving"
    /\ Matches(p, c)
    /\ Enter(t, IF observer THEN "cancelled" ELSE "cleanup", p, c)
    /\ UNCHANGED <<session, observer, timer, calls, media>>

ReportCancelled(t) ==
    /\ at[t] = "cancelled"
    /\ ClosePeerConnection(TRUE)
    /\ Goto(t, "cleanup")
    /\ Interfere
    /\ UNCHANGED <<session, observer, loc, timer, calls, coord_peer>>

-----------------------------------------------------------------------------
(* The session itself. *)

\* OnNeedCreatePeerConnection: a connection that is already there is kept, and
\* creating one or attaching the tracks to it may fail.
CreatePeerConnection(t) ==
    /\ at[t] = "create"
    /\ coord_peer' = loc[t].peer
    /\ IF pc # NoCall THEN UNCHANGED pc ELSE pc' \in {loc[t].call, NoCall}
    /\ Return(t)
    /\ Interfere
    /\ UNCHANGED <<session, observer, timer, calls>>

NotifyPeerConnectionEstablished(t) ==
    /\ at[t] = "ret"
    /\ call_state = "Connecting"
    /\ call_state' = "Connected"
    /\ Interfere
    /\ UNCHANGED <<current_peer, current_call_id, is_caller, observer, at, loc,
                   timer, calls, media>>

EndCall(t) ==
    /\ call_state \notin {"Idle", "Ending"}
    /\ call_state' = "Ending"
    /\ Enter(t, "ended", current_peer, current_call_id)
    /\ UNCHANGED <<current_peer, current_call_id, is_caller, observer, timer,
                   calls, media>>

\* Unlike EndCall, the remote end leaves the state alone until CleanupCall.
HandleCallEnd(t, p, c) ==
    /\ call_state \notin {"Idle", "Ending"}
    /\ Matches(p, c)
    /\ Enter(t, "ended", p, c)
    /\ UNCHANGED <<session, observer, timer, calls, media>>

\* Mutant: the end of a call is reported but the connection is not closed.
ReportEnded_NoClose(t) ==
    /\ at[t] = "ended"
    /\ Goto(t, "cleanup")
    /\ Interfere
    /\ UNCHANGED <<session, observer, loc, timer, calls, media>>

\* Mutant: without an observer the method returns before CleanupCall.
ReportEnded_EarlyReturn(t) ==
    /\ at[t] = "ended"
    /\ ClosePeerConnection(loc[t].obs)
    /\ IF loc[t].obs THEN Goto(t, "cleanup") /\ UNCHANGED loc ELSE Return(t)
    /\ Interfere
    /\ UNCHANGED <<session, observer, timer, calls, coord_peer>>

\* OnNeedClosePeerConnection and OnCallEnded, in either order.
ReportEnded(t) ==
    /\ at[t] = "ended"
    /\ ClosePeerConnection(loc[t].obs)
    /\ Goto(t, "cleanup")
    /\ Interfere
    /\ UNCHANGED <<session, observer, loc, timer, calls, coord_peer>>

\* Mutant: the call identifier survives the cleanup.
ResetSession_KeepsCallId ==
    /\ call_state' = "Idle"
    /\ current_peer' = NoPeer
    /\ current_call_id' = current_call_id
    /\ is_caller' = FALSE
    /\ timer_armed' = FALSE

\* The part of CleanupCall that holds the mutex.
ResetSession ==
    /\ call_state' = "Idle"
    /\ current_peer' = NoPeer
    /\ current_call_id' = NoCall
    /\ is_caller' = FALSE
    /\ timer_armed' = FALSE

CleanupCall(t) ==
    /\ at[t] = "cleanup"
    /\ ResetSession
    /\ IF call_state # "Idle" /\ observer
       THEN Goto(t, "notify") /\ UNCHANGED loc
       ELSE Return(t)
    /\ Interfere
    /\ UNCHANGED <<observer, timer_at, timer_stop, timer_obs, calls, media>>

\* OnCallStateChanged(Idle, "") after the mutex is released.
NotifyIdle(t) ==
    /\ at[t] = "notify"
    /\ coord_peer' = NoPeer
    /\ Return(t)
    /\ Interfere
    /\ UNCHANGED <<session, observer, timer, calls, pc>>

-----------------------------------------------------------------------------
(* The request timer. *)

\* Past the deadline, or stopped: the stop token, then the generation.
TimerExpire ==
    /\ timer_at = "wait"
    /\ timer_at' = IF timer_armed /\ ~timer_stop THEN "checked" ELSE "none"
    /\ UNCHANGED <<session, observer, at, loc, timer_armed, timer_stop,
                   timer_obs, calls, media, raced>>

\* Mutant: StartCallRequestTimer holds the mutex while it joins, and the timer
\* thread spins on it.
OnCallRequestTimeout_LockedJoin ==
    /\ timer_at = "checked"
    /\ IF \E t \in Threads : at[t] = "initiate_join"
       THEN UNCHANGED <<timer_at, timer_obs>>
       ELSE /\ timer_at' = IF call_state = "Calling" THEN "report" ELSE "none"
            /\ timer_obs' = (call_state = "Calling" /\ observer)
    /\ UNCHANGED <<session, observer, at, loc, timer_armed, timer_stop, calls,
                   media, raced>>

\* The part of OnCallRequestTimeout that holds the mutex.
OnCallRequestTimeout ==
    /\ timer_at = "checked"
    /\ timer_at' = IF call_state = "Calling" THEN "report" ELSE "none"
    /\ timer_obs' = (call_state = "Calling" /\ observer)
    /\ UNCHANGED <<session, observer, at, loc, timer_armed, timer_stop, calls,
                   media, raced>>

ReportTimeout ==
    /\ timer_at = "report"
    /\ ClosePeerConnection(timer_obs)
    /\ timer_at' = "cleanup"
    /\ UNCHANGED <<session, observer, at, loc, timer_armed, timer_stop,
                   timer_obs, calls, coord_peer, raced>>

TimerCleanup ==
    /\ timer_at = "cleanup"
    /\ ResetSession
    /\ timer_obs' = FALSE
    /\ timer_at' = IF call_state # "Idle" /\ observer THEN "notify" ELSE "none"
    /\ UNCHANGED <<observer, at, loc, timer_stop, calls, media, raced>>

TimerNotify ==
    /\ timer_at = "notify"
    /\ coord_peer' = NoPeer
    /\ timer_at' = "none"
    /\ UNCHANGED <<session, observer, at, loc, timer_armed, timer_stop,
                   timer_obs, calls, pc, raced>>

TimerStep ==
    \/ TimerExpire
    \/ OnCallRequestTimeout
    \/ ReportTimeout
    \/ TimerCleanup
    \/ TimerNotify

\* RegisterObserver(nullptr), from CallCoordinator::Shutdown.
DetachObserver ==
    /\ observer
    /\ observer' = FALSE
    /\ UNCHANGED <<session, at, loc, timer, calls, media, raced>>

-----------------------------------------------------------------------------
\* The rest of a method that has been entered.
Continue(t) ==
    \/ InitiateSetState(t)
    \/ StartTimerStop(t)
    \/ StartTimerJoin(t)
    \/ AcceptSetState(t)
    \/ CreatePeerConnection(t)
    \/ ReportRejected(t)
    \/ ReportCancelled(t)
    \/ ReportEnded(t)
    \/ CleanupCall(t)
    \/ NotifyIdle(t)

Local(t) ==
    \/ \E p \in Peers : InitiateCall(t, p)
    \/ CancelCall(t)
    \/ AcceptCall(t)
    \/ RejectCall(t)
    \/ EndCall(t)
    \/ NotifyPeerConnectionEstablished(t)

\* Any identifier may arrive: late, repeated or empty.
Remote(t) ==
    \E p \in Peers :
        \/ \E c \in RemoteIds \cup {NoCall} : HandleCallRequest(t, p, c)
        \/ \E c \in Ids :
              \/ \E accepted \in BOOLEAN : HandleCallResponse(t, p, c, accepted)
              \/ HandleCallCancel(t, p, c)
              \/ HandleCallEnd(t, p, c)

Next ==
    \/ \E t \in Threads : Continue(t) \/ Local(t) \/ Remote(t)
    \/ TimerStep
    \/ DetachObserver

Spec == Init /\ [][Next]_vars

(***************************************************************************)
(* A thread inside a method goes on, and the timer thread is scheduled and *)
(* its clock advances.  Nothing obliges a user or a peer to act.           *)
(***************************************************************************)
Fairness ==
    /\ \A t \in Threads : WF_vars(Continue(t))
    /\ WF_vars(TimerStep)

FairSpec == Spec /\ Fairness

-----------------------------------------------------------------------------
(* Properties. *)

TypeOK ==
    /\ call_state \in States
    /\ current_peer \in Peers \cup {NoPeer}
    /\ current_call_id \in Ids
    /\ is_caller \in BOOLEAN
    /\ observer \in BOOLEAN
    /\ at \in [Threads -> Labels]
    /\ loc \in [Threads -> Locals]
    /\ timer_at \in TimerLabels
    /\ timer_armed \in BOOLEAN
    /\ timer_stop \in BOOLEAN
    /\ timer_obs \in BOOLEAN
    /\ calls \in 0..MaxCalls
    /\ pc \in Ids
    /\ coord_peer \in Peers \cup {NoPeer}
    /\ raced \in BOOLEAN

AllReturned == \A t \in Threads : at[t] = "ret"

(* Between two methods, and as long as no API thread has interfered with a *)
(* timeout, the engine holds a peer connection only for the session that   *)
(* is connecting or connected, created for that very call, and the         *)
(* coordinator addresses that session's peer and nobody otherwise.         *)
SessionOwnsPeerConnection ==
    (AllReturned /\ ~TimingOut /\ ~raced /\ observer) =>
        IF call_state \in {"Connecting", "Connected"}
        THEN /\ pc \in {current_call_id, NoCall}
             /\ coord_peer = current_peer
             /\ current_peer # NoPeer /\ current_call_id # NoCall
        ELSE pc = NoCall /\ coord_peer = NoPeer

(* An idle manager names neither a peer nor a call, unless InitiateCall is *)
(* between storing them and SetCallState(Calling).                         *)
IdleIsClear ==
    (call_state = "Idle" /\ \A t \in Threads : at[t] # "initiate_state") =>
        current_peer = NoPeer /\ current_call_id = NoCall /\ ~is_caller

(* Ending, in which EndCall and HandleCallEnd refuse to act, is never left *)
(* behind: some thread is on its way to CleanupCall.                       *)
EndingHasOwner ==
    call_state = "Ending" => \E t \in Threads : at[t] \in {"ended", "cleanup"}

(* An outgoing call that no method is working on is guarded by a timer     *)
(* that will still act on it, also after a race with an earlier timeout.   *)
CallingHasTimer ==
    (call_state = "Calling" /\ AllReturned /\ observer) =>
        \/ timer_at = "wait" /\ timer_armed /\ ~timer_stop
        \/ timer_at \in {"checked", "report", "cleanup"}

Lifecycle ==
    INSTANCE CallLifecycle WITH
        phase <- call_state,
        peer <- IF call_state = "Idle" THEN NoPeer ELSE current_peer,
        call <- IF call_state = "Idle" THEN NoCall ELSE current_call_id,
        caller <- call_state # "Idle" /\ is_caller

(* Every step of the manager is a step of the abstract call life cycle, up *)
(* to the first time an API thread interferes with a timeout: a session is *)
(* never handed to another peer or call identifier while it lasts.         *)
ImplementsLifecycle ==
    /\ Lifecycle!Init
    /\ [][raced' \/ Lifecycle!Next]_(Lifecycle!vars)

(* Dialling ends: answered, rejected, hung up or timed out.                *)
CallingEnds == call_state = "Calling" ~> (call_state # "Calling" \/ ~observer)

(* No method waits for ever, although StartCallRequestTimer joins a thread *)
(* that may itself be inside the manager.                                  *)
MethodsReturn == \A t \in Threads : at[t] # "ret" ~> at[t] = "ret"

(* callmanager_race_test.cc, AcceptedResponseAfterTimeoutIsIgnored: once   *)
(* OnCallTimeout has been reported, an accepting answer changes nothing.   *)
TimedOutCallStaysDead ==
    [][timer_at = "cleanup" => call_state' # "Connecting"]_call_state
=============================================================================
