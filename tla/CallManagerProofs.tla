-------------------------- MODULE CallManagerProofs --------------------------
(***************************************************************************)
(* Proofs about CallManager, for any peers, identifiers and number of      *)
(* calls.  TypeOK holds for any threads, and so do IdleIsClear,            *)
(* EndingHasOwner and CallingHasTimer; the session properties hold for the *)
(* single API thread of the application, and only up to the first time it  *)
(* interferes with a timeout.                                              *)
(***************************************************************************)
EXTENDS CallManager, TLAPS

\* The application: one thread runs every public method.
SingleThreaded == \A s, t \in Threads : s = t

InTimeout == {"report", "cleanup", "notify"}
Dialling == {"initiate_state", "initiate_stop", "initiate_join"}

\* Which call state a thread can find itself in at each label.
StateAt(t) ==
    /\ at[t] = "ret" => call_state # "Ending"
    /\ at[t] \in {"initiate_state", "notify"} => call_state = "Idle"
    /\ at[t] \in {"initiate_stop", "initiate_join"} => call_state = "Calling"
    /\ at[t] \in {"accept_state", "cancelled"} => call_state = "Receiving"
    /\ at[t] = "rejected" => call_state \in {"Calling", "Idle"}
    /\ at[t] = "create" => call_state = "Connecting"

\* A session has a peer and an identifier, from InitiateCall's first step on.
Named(t) ==
    /\ (call_state # "Idle" \/ at[t] = "initiate_state") =>
          current_peer \in Peers /\ current_call_id \in CallIds
    /\ at[t] = "initiate_state" => is_caller
    /\ at[t] \in {"accept_state", "create"} =>
          loc[t].peer = current_peer /\ loc[t].call = current_call_id

\* What the timer may be doing at each label and in each state.
TimerAt(t) ==
    /\ timer_at \in {"report", "cleanup"} => call_state = "Calling"
    /\ timer_at = "notify" => call_state = "Idle"
    /\ timer_at \in InTimeout => at[t] \in {"ret", "rejected", "ended", "cleanup"}
    /\ timer_at = "checked" => at[t] \notin {"initiate_stop", "initiate_join"}
    /\ timer_armed => /\ call_state \in {"Calling", "Ending"}
                      /\ at[t] \notin Dialling \cup {"notify"}

ControlInv == ~raced => \A t \in Threads : StateAt(t) /\ Named(t) /\ TimerAt(t)

\* Whose peer connection and peer the coordinator holds.
MediaAt(t) ==
    /\ (call_state \in {"Idle", "Calling", "Receiving"} /\ at[t] # "notify") =>
          pc = NoCall /\ coord_peer = NoPeer
    /\ at[t] \in {"create", "cleanup", "notify"} => pc = NoCall
    /\ (call_state \in {"Connecting", "Connected"} /\ at[t] = "ret") =>
          pc \in {current_call_id, NoCall} /\ coord_peer = current_peer
    /\ at[t] # "ret" => loc[t].obs

MediaInv == (~raced /\ observer) => \A t \in Threads : MediaAt(t)

-----------------------------------------------------------------------------
(* Types. *)

LEMMA NoLocalsType == NoLocals \in Locals
BY DEF NoLocals, Locals, Ids

LEMMA InitType == Init => TypeOK
<1> SUFFICES ASSUME Init PROVE TypeOK
  OBVIOUS
<1>1. at \in [Threads -> Labels] /\ loc \in [Threads -> Locals]
  BY NoLocalsType DEF Init, Labels
<1>2. /\ call_state \in States /\ timer_at \in TimerLabels
      /\ current_call_id \in Ids /\ pc \in Ids /\ calls \in 0..MaxCalls
  BY ConstantsAssumption DEF Init, States, TimerLabels, Ids
<1>3. QED
  BY <1>1, <1>2 DEF Init, TypeOK

LEMMA NextType == TypeOK /\ [Next]_vars => TypeOK'
<1> SUFFICES ASSUME TypeOK, [Next]_vars PROVE TypeOK'
  OBVIOUS
<1>1. ASSUME NEW t \in Threads, Continue(t)
      PROVE  TypeOK'
  <2>1. CASE InitiateSetState(t)
    BY <2>1
    DEF InitiateSetState, Goto, session, timer, media, TypeOK, Labels, States
  <2>2. CASE StartTimerStop(t)
    BY <2>2
    DEF StartTimerStop, Goto, Interfere, session, timer, media, TypeOK, Labels
  <2>3. CASE StartTimerJoin(t)
    BY <2>3, NoLocalsType
    DEF StartTimerJoin, Return, Goto, Interfere, session, timer, media,
        TypeOK, Labels, TimerLabels
  <2>4. CASE AcceptSetState(t)
    BY <2>4, NoLocalsType
    DEF AcceptSetState, Return, Goto, Interfere, session, timer, media,
        TypeOK, Labels, States
  <2>5. CASE CreatePeerConnection(t)
    BY <2>5, NoLocalsType
    DEF CreatePeerConnection, Return, Goto, Interfere, session, timer, media,
        TypeOK, Labels, Locals, Ids
  <2>6. CASE ReportRejected(t)
    BY <2>6
    DEF ReportRejected, ClosePeerConnection, Goto, Interfere, session, timer,
        media, TypeOK, Labels, Ids
  <2>7. CASE ReportCancelled(t)
    BY <2>7
    DEF ReportCancelled, ClosePeerConnection, Goto, Interfere, session, timer,
        media, TypeOK, Labels, Ids
  <2>8. CASE ReportEnded(t)
    BY <2>8
    DEF ReportEnded, ClosePeerConnection, Goto, Interfere, session, timer,
        media, TypeOK, Labels, Ids
  <2>9. CASE CleanupCall(t)
    BY <2>9, NoLocalsType
    DEF CleanupCall, ResetSession, Return, Goto, Interfere, session, timer,
        media, TypeOK, Labels, States, Ids
  <2>10. CASE NotifyIdle(t)
    BY <2>10, NoLocalsType
    DEF NotifyIdle, Return, Goto, Interfere, session, timer, media, TypeOK,
        Labels
  <2>11. QED
    BY <1>1, <2>1, <2>2, <2>3, <2>4, <2>5, <2>6, <2>7, <2>8, <2>9, <2>10
    DEF Continue
<1>2. ASSUME NEW t \in Threads, Local(t)
      PROVE  TypeOK'
  <2>1. ASSUME NEW p \in Peers, InitiateCall(t, p)
       PROVE  TypeOK'
    BY <2>1, ConstantsAssumption
    DEF InitiateCall, Enter, Goto, Interfere, session, timer, media, TypeOK,
        Labels, Locals, Ids, CallIds, OwnIds
  <2>2. CASE CancelCall(t)
    BY <2>2
    DEF CancelCall, Enter, Goto, Interfere, session, timer, media, TypeOK,
        Labels, Locals
  <2>3. CASE AcceptCall(t)
    BY <2>3
    DEF AcceptCall, Enter, Goto, Interfere, session, timer, media, TypeOK,
        Labels, Locals
  <2>4. CASE RejectCall(t)
    BY <2>4
    DEF RejectCall, Enter, Goto, Interfere, session, timer, media, TypeOK,
        Labels, Locals
  <2>5. CASE EndCall(t)
    BY <2>5
    DEF EndCall, Enter, Goto, Interfere, session, timer, media, TypeOK,
        Labels, States, Locals
  <2>6. CASE NotifyPeerConnectionEstablished(t)
    BY <2>6
    DEF NotifyPeerConnectionEstablished, Interfere, session, timer, media,
        TypeOK, States
  <2>7. QED
    BY <1>2, <2>1, <2>2, <2>3, <2>4, <2>5, <2>6
    DEF Local
<1>3. ASSUME NEW t \in Threads, Remote(t)
      PROVE  TypeOK'
  <2>1. ASSUME NEW p \in Peers, NEW c \in RemoteIds \cup {NoCall},
              HandleCallRequest(t, p, c)
       PROVE  TypeOK'
    BY <2>1
    DEF HandleCallRequest, Interfere, session, timer, media, TypeOK, States,
        Ids, CallIds
  <2>2. ASSUME NEW p \in Peers, NEW c \in Ids, NEW a \in BOOLEAN,
              HandleCallResponse(t, p, c, a)
       PROVE  TypeOK'
    <3>1. CASE observer
      <4>1. Enter(t, IF a THEN "create" ELSE "rejected", p, c)
        BY <2>2, <3>1 DEF HandleCallResponse
      <4>2. at' \in [Threads -> Labels] /\ raced' \in BOOLEAN
        BY <4>1 DEF Enter, Goto, Interfere, TypeOK, Labels
      <4>3. loc' \in [Threads -> Locals]
        BY <4>1 DEF Enter, TypeOK, Locals
      <4>4. QED
        BY <2>2, <4>2, <4>3 DEF HandleCallResponse, timer, media, TypeOK, States
    <3>2. CASE ~observer
      <4>1. UNCHANGED <<at, loc>> /\ raced' \in BOOLEAN
        BY <2>2, <3>2 DEF HandleCallResponse, Interfere, TypeOK
      <4>2. QED
        BY <2>2, <4>1 DEF HandleCallResponse, timer, media, TypeOK, States
    <3>3. QED
      BY <3>1, <3>2
  <2>3. ASSUME NEW p \in Peers, NEW c \in Ids,
              HandleCallCancel(t, p, c)
       PROVE  TypeOK'
    BY <2>3
    DEF HandleCallCancel, Matches, Enter, Goto, Interfere, session, timer,
        media, TypeOK, Labels, Locals
  <2>4. ASSUME NEW p \in Peers, NEW c \in Ids,
              HandleCallEnd(t, p, c)
       PROVE  TypeOK'
    BY <2>4
    DEF HandleCallEnd, Matches, Enter, Goto, Interfere, session, timer, media,
        TypeOK, Labels, Locals
  <2>5. QED
    BY <1>3, <2>1, <2>2, <2>3, <2>4
    DEF Remote
<1>4. CASE TimerStep
  <2>1. CASE TimerExpire
    BY <2>1
    DEF TimerExpire, session, timer, media, TypeOK, TimerLabels
  <2>2. CASE OnCallRequestTimeout
    BY <2>2
    DEF OnCallRequestTimeout, session, timer, media, TypeOK, TimerLabels
  <2>3. CASE ReportTimeout
    BY <2>3
    DEF ReportTimeout, ClosePeerConnection, session, timer, media, TypeOK,
        TimerLabels, Ids
  <2>4. CASE TimerCleanup
    BY <2>4
    DEF TimerCleanup, ResetSession, session, timer, media, TypeOK,
        TimerLabels, States, Ids
  <2>5. CASE TimerNotify
    BY <2>5
    DEF TimerNotify, session, timer, media, TypeOK, TimerLabels
  <2>6. QED
    BY <1>4, <2>1, <2>2, <2>3, <2>4, <2>5
    DEF TimerStep
<1>5. CASE DetachObserver
  BY <1>5
  DEF DetachObserver, session, timer, media, TypeOK
<1>6. CASE UNCHANGED vars
  BY <1>6
  DEF vars, session, timer, media, TypeOK
<1>7. QED
  BY <1>1, <1>2, <1>3, <1>4, <1>5, <1>6 DEF Next

(* Every variable of the manager keeps its type, for any number of API     *)
(* threads and calls.                                                      *)
THEOREM TypeCorrect == Spec => []TypeOK
<1>1. QED
  BY InitType, NextType, PTL DEF Spec

-----------------------------------------------------------------------------
(* Control. *)

LEMMA InitControl == Init => ControlInv
BY DEF Init, ControlInv, StateAt, Named, TimerAt, InTimeout, Dialling

LEMMA NextControl ==
    SingleThreaded /\ TypeOK /\ ControlInv /\ [Next]_vars => ControlInv'
<1> SUFFICES ASSUME SingleThreaded, TypeOK, ControlInv, [Next]_vars
             PROVE  ControlInv'
  OBVIOUS
<1> USE DEF SingleThreaded, TypeOK, ControlInv, StateAt, Named, TimerAt,
            InTimeout, Dialling
<1>1. ASSUME NEW t \in Threads, Continue(t)
      PROVE  ControlInv'
  <2>1. CASE InitiateSetState(t)
    BY <2>1
    DEF InitiateSetState, Goto, session, timer, media, TimingOut
  <2>2. CASE StartTimerStop(t)
    BY <2>2
    DEF StartTimerStop, Goto, Interfere, session, timer, media, TimingOut
  <2>3. CASE StartTimerJoin(t)
    BY <2>3
    DEF StartTimerJoin, Return, Goto, Interfere, session, timer, media,
        TimingOut
  <2>4. CASE AcceptSetState(t)
    BY <2>4
    DEF AcceptSetState, Return, Goto, Interfere, session, timer, media,
        TimingOut
  <2>5. CASE CreatePeerConnection(t)
    BY <2>5
    DEF CreatePeerConnection, Return, Goto, Interfere, session, timer, media,
        TimingOut
  <2>6. CASE ReportRejected(t)
    BY <2>6
    DEF ReportRejected, ClosePeerConnection, Goto, Interfere, session, timer,
        media, TimingOut
  <2>7. CASE ReportCancelled(t)
    BY <2>7
    DEF ReportCancelled, ClosePeerConnection, Goto, Interfere, session, timer,
        media, TimingOut
  <2>8. CASE ReportEnded(t)
    BY <2>8
    DEF ReportEnded, ClosePeerConnection, Goto, Interfere, session, timer,
        media, TimingOut
  <2>9. CASE CleanupCall(t)
    BY <2>9
    DEF CleanupCall, ResetSession, Return, Goto, Interfere, session, timer,
        media, TimingOut
  <2>10. CASE NotifyIdle(t)
    BY <2>10
    DEF NotifyIdle, Return, Goto, Interfere, session, timer, media, TimingOut
  <2>11. QED
    BY <1>1, <2>1, <2>2, <2>3, <2>4, <2>5, <2>6, <2>7, <2>8, <2>9, <2>10
    DEF Continue
<1>2. ASSUME NEW t \in Threads, Local(t)
      PROVE  ControlInv'
  <2>1. ASSUME NEW p \in Peers, InitiateCall(t, p)
       PROVE  ControlInv'
    <3>1. calls + 1 \in CallIds
      BY <2>1, ConstantsAssumption DEF InitiateCall, CallIds, OwnIds
    <3>2. QED
      BY <2>1, <3>1
      DEF InitiateCall, Enter, Goto, Interfere, TimingOut, timer, media
  <2>2. CASE CancelCall(t)
    BY <2>2
    DEF CancelCall, Enter, Goto, Interfere, session, timer, media, TimingOut
  <2>3. CASE AcceptCall(t)
    BY <2>3
    DEF AcceptCall, Enter, Goto, Interfere, session, timer, media, TimingOut
  <2>4. CASE RejectCall(t)
    BY <2>4
    DEF RejectCall, Enter, Goto, Interfere, session, timer, media, TimingOut
  <2>5. CASE EndCall(t)
    BY <2>5
    DEF EndCall, Enter, Goto, Interfere, session, timer, media, TimingOut
  <2>6. CASE NotifyPeerConnectionEstablished(t)
    BY <2>6
    DEF NotifyPeerConnectionEstablished, Interfere, session, timer, media,
        TimingOut
  <2>7. QED
    BY <1>2, <2>1, <2>2, <2>3, <2>4, <2>5, <2>6
    DEF Local
<1>3. ASSUME NEW t \in Threads, Remote(t)
      PROVE  ControlInv'
  <2>1. ASSUME NEW p \in Peers, NEW c \in RemoteIds \cup {NoCall},
              HandleCallRequest(t, p, c)
       PROVE  ControlInv'
    <3>1. p \in Peers /\ c \in CallIds
      BY <2>1 DEF HandleCallRequest, CallIds
    <3>2. QED
      BY <2>1, <3>1 DEF HandleCallRequest, Interfere, TimingOut, timer, media
  <2>2. ASSUME NEW p \in Peers, NEW c \in Ids, NEW a \in BOOLEAN,
              HandleCallResponse(t, p, c, a)
       PROVE  ControlInv'
    BY <2>2
    DEF HandleCallResponse, Matches, Enter, Goto, Interfere, session, timer,
        media, TimingOut
  <2>3. ASSUME NEW p \in Peers, NEW c \in Ids,
              HandleCallCancel(t, p, c)
       PROVE  ControlInv'
    BY <2>3
    DEF HandleCallCancel, Matches, Enter, Goto, Interfere, session, timer,
        media, TimingOut
  <2>4. ASSUME NEW p \in Peers, NEW c \in Ids,
              HandleCallEnd(t, p, c)
       PROVE  ControlInv'
    BY <2>4
    DEF HandleCallEnd, Matches, Enter, Goto, Interfere, session, timer, media,
        TimingOut
  <2>5. QED
    BY <1>3, <2>1, <2>2, <2>3, <2>4
    DEF Remote
<1>4. CASE TimerStep
  <2>1. CASE TimerExpire
    BY <2>1
    DEF TimerExpire, session, timer, media
  <2>2. CASE OnCallRequestTimeout
    <3>1. ASSUME NEW t \in Threads, call_state = "Calling", ~raced
          PROVE  at[t] \in {"ret", "rejected", "ended", "cleanup"}
      BY <2>2, <3>1 DEF OnCallRequestTimeout, Labels
    <3>2. UNCHANGED <<session, at, loc, timer_armed, raced>>
      BY <2>2 DEF OnCallRequestTimeout
    <3>3. /\ timer_at' = "report" => call_state = "Calling"
          /\ timer_at' \in {"report", "none"}
      BY <2>2 DEF OnCallRequestTimeout
    <3>4. QED
      BY <3>1, <3>2, <3>3 DEF session
  <2>3. CASE ReportTimeout
    BY <2>3
    DEF ReportTimeout, ClosePeerConnection, session, timer, media
  <2>4. CASE TimerCleanup
    BY <2>4
    DEF TimerCleanup, ResetSession, session, timer, media
  <2>5. CASE TimerNotify
    BY <2>5
    DEF TimerNotify, session, timer, media
  <2>6. QED
    BY <1>4, <2>1, <2>2, <2>3, <2>4, <2>5
    DEF TimerStep
<1>5. CASE DetachObserver
  BY <1>5
  DEF DetachObserver, session, timer, media
<1>6. CASE UNCHANGED vars
  BY <1>6
  DEF vars, session, timer, media
<1>7. QED
  BY <1>1, <1>2, <1>3, <1>4, <1>5, <1>6 DEF Next

-----------------------------------------------------------------------------
(* The peer connection. *)

LEMMA InitMedia == Init => MediaInv
BY DEF Init, MediaInv, MediaAt

LEMMA NextMedia ==
    SingleThreaded /\ TypeOK /\ ControlInv /\ MediaInv /\ [Next]_vars => MediaInv'
<1> SUFFICES ASSUME SingleThreaded, TypeOK, ControlInv, MediaInv, [Next]_vars
             PROVE  MediaInv'
  OBVIOUS
<1> USE DEF SingleThreaded, TypeOK, MediaInv, MediaAt
<1>1. ASSUME NEW t \in Threads, Continue(t)
      PROVE  MediaInv'
  <2>1. CASE InitiateSetState(t)
    BY <2>1
    DEF InitiateSetState, Goto, session, timer, media, TimingOut, ControlInv,
        StateAt, Named
  <2>2. CASE StartTimerStop(t)
    BY <2>2
    DEF StartTimerStop, Goto, Interfere, session, timer, media, TimingOut,
        ControlInv, StateAt, Named
  <2>3. CASE StartTimerJoin(t)
    BY <2>3
    DEF StartTimerJoin, Return, Goto, Interfere, session, timer, media,
        TimingOut, ControlInv, StateAt, Named
  <2>4. CASE AcceptSetState(t)
    BY <2>4
    DEF AcceptSetState, Return, Goto, Interfere, session, timer, media,
        TimingOut, ControlInv, StateAt, Named
  <2>5. CASE CreatePeerConnection(t)
    BY <2>5
    DEF CreatePeerConnection, Return, Goto, Interfere, session, timer, media,
        TimingOut, ControlInv, StateAt, Named
  <2>6. CASE ReportRejected(t)
    BY <2>6
    DEF ReportRejected, ClosePeerConnection, Goto, Interfere, session, timer,
        media, TimingOut, ControlInv, StateAt, Named
  <2>7. CASE ReportCancelled(t)
    BY <2>7
    DEF ReportCancelled, ClosePeerConnection, Goto, Interfere, session, timer,
        media, TimingOut, ControlInv, StateAt, Named
  <2>8. CASE ReportEnded(t)
    BY <2>8
    DEF ReportEnded, ClosePeerConnection, Goto, Interfere, session, timer,
        media, TimingOut, ControlInv, StateAt, Named
  <2>9. CASE CleanupCall(t)
    BY <2>9
    DEF CleanupCall, ResetSession, Return, Goto, Interfere, session, timer,
        media, TimingOut, ControlInv, StateAt, Named
  <2>10. CASE NotifyIdle(t)
    BY <2>10
    DEF NotifyIdle, Return, Goto, Interfere, session, timer, media, TimingOut,
        ControlInv, StateAt, Named
  <2>11. QED
    BY <1>1, <2>1, <2>2, <2>3, <2>4, <2>5, <2>6, <2>7, <2>8, <2>9, <2>10
    DEF Continue
<1>2. ASSUME NEW t \in Threads, Local(t)
      PROVE  MediaInv'
  <2>1. ASSUME NEW p \in Peers, InitiateCall(t, p)
       PROVE  MediaInv'
    BY <2>1
    DEF InitiateCall, Enter, Goto, Interfere, session, timer, media,
        TimingOut, ControlInv, StateAt, Named
  <2>2. CASE CancelCall(t)
    BY <2>2
    DEF CancelCall, Enter, Goto, Interfere, session, timer, media, TimingOut,
        ControlInv, StateAt, Named
  <2>3. CASE AcceptCall(t)
    BY <2>3
    DEF AcceptCall, Enter, Goto, Interfere, session, timer, media, TimingOut,
        ControlInv, StateAt, Named
  <2>4. CASE RejectCall(t)
    BY <2>4
    DEF RejectCall, Enter, Goto, Interfere, session, timer, media, TimingOut,
        ControlInv, StateAt, Named
  <2>5. CASE EndCall(t)
    BY <2>5
    DEF EndCall, Enter, Goto, Interfere, session, timer, media, TimingOut,
        ControlInv, StateAt, Named
  <2>6. CASE NotifyPeerConnectionEstablished(t)
    BY <2>6
    DEF NotifyPeerConnectionEstablished, Interfere, session, timer, media,
        TimingOut, ControlInv, StateAt, Named
  <2>7. QED
    BY <1>2, <2>1, <2>2, <2>3, <2>4, <2>5, <2>6
    DEF Local
<1>3. ASSUME NEW t \in Threads, Remote(t)
      PROVE  MediaInv'
  <2>1. ASSUME NEW p \in Peers, NEW c \in RemoteIds \cup {NoCall},
              HandleCallRequest(t, p, c)
       PROVE  MediaInv'
    BY <2>1
    DEF HandleCallRequest, Interfere, session, timer, media, TimingOut,
        ControlInv, StateAt, Named
  <2>2. ASSUME NEW p \in Peers, NEW c \in Ids, NEW a \in BOOLEAN,
              HandleCallResponse(t, p, c, a)
       PROVE  MediaInv'
    BY <2>2
    DEF HandleCallResponse, Matches, Enter, Goto, Interfere, session, timer,
        media, TimingOut, ControlInv, StateAt, Named
  <2>3. ASSUME NEW p \in Peers, NEW c \in Ids,
              HandleCallCancel(t, p, c)
       PROVE  MediaInv'
    BY <2>3
    DEF HandleCallCancel, Matches, Enter, Goto, Interfere, session, timer,
        media, TimingOut, ControlInv, StateAt, Named
  <2>4. ASSUME NEW p \in Peers, NEW c \in Ids,
              HandleCallEnd(t, p, c)
       PROVE  MediaInv'
    BY <2>4
    DEF HandleCallEnd, Matches, Enter, Goto, Interfere, session, timer, media,
        TimingOut, ControlInv, StateAt, Named
  <2>5. QED
    BY <1>3, <2>1, <2>2, <2>3, <2>4
    DEF Remote
<1>4. CASE TimerStep
  <2>1. CASE TimerExpire
    BY <2>1
    DEF TimerExpire, session, timer, media
  <2>2. CASE OnCallRequestTimeout
    BY <2>2
    DEF OnCallRequestTimeout, session, timer, media
  <2>3. CASE ReportTimeout
    BY <2>3
    DEF ReportTimeout, ClosePeerConnection, session, timer, media, ControlInv,
        TimerAt, InTimeout
  <2>4. CASE TimerCleanup
    BY <2>4
    DEF TimerCleanup, ResetSession, session, timer, media, ControlInv,
        TimerAt, InTimeout
  <2>5. CASE TimerNotify
    BY <2>5
    DEF TimerNotify, session, timer, media, ControlInv, TimerAt, InTimeout
  <2>6. QED
    BY <1>4, <2>1, <2>2, <2>3, <2>4, <2>5
    DEF TimerStep
<1>5. CASE DetachObserver
  BY <1>5
  DEF DetachObserver, session, timer, media
<1>6. CASE UNCHANGED vars
  BY <1>6
  DEF vars, session, timer, media
<1>7. QED
  BY <1>1, <1>2, <1>3, <1>4, <1>5, <1>6 DEF Next

(* On the application's single I/O thread, a peer connection exists only   *)
(* for the session that is connecting or connected, and the coordinator's  *)
(* peer is that session's peer, up to an interference with a timeout.      *)
THEOREM SessionOwnership ==
    SingleThreaded => (Spec => []SessionOwnsPeerConnection)
<1> SUFFICES ASSUME SingleThreaded PROVE Spec => []SessionOwnsPeerConnection
  OBVIOUS
<1> DEFINE Inv == TypeOK /\ ControlInv /\ MediaInv
<1>1. Init => Inv
  BY InitType, InitControl, InitMedia
<1>2. Inv /\ [Next]_vars => Inv'
  BY NextType, NextControl, NextMedia
<1>3. Inv => SessionOwnsPeerConnection
  <2> SUFFICES ASSUME Inv, AllReturned, ~raced, observer
               PROVE  IF call_state \in {"Connecting", "Connected"}
                      THEN /\ pc \in {current_call_id, NoCall}
                           /\ coord_peer = current_peer
                           /\ current_peer # NoPeer /\ current_call_id # NoCall
                      ELSE pc = NoCall /\ coord_peer = NoPeer
    BY DEF SessionOwnsPeerConnection
  <2>1. PICK t \in Threads : TRUE
    BY ConstantsAssumption
  <2>2. at[t] = "ret" /\ StateAt(t) /\ Named(t) /\ MediaAt(t)
    BY DEF AllReturned, ControlInv, MediaInv
  <2>3. QED
    BY <2>2, ConstantsAssumption DEF StateAt, Named, MediaAt, TypeOK, States
<1>4. QED
  BY <1>1, <1>2, <1>3, PTL DEF Spec

-----------------------------------------------------------------------------
(* Refinement. *)

\* One step of the abstract life cycle, or a stutter, or a race.
LifecycleStep == [raced' \/ Lifecycle!Next]_(Lifecycle!vars)

LEMMA NextLifecycle ==
    SingleThreaded /\ TypeOK /\ ControlInv /\ [Next]_vars => LifecycleStep
<1> SUFFICES ASSUME SingleThreaded, TypeOK, ControlInv, [Next]_vars
             PROVE  LifecycleStep
  OBVIOUS
<1> USE DEF LifecycleStep, Lifecycle!vars
<1>1. ASSUME NEW t \in Threads, Continue(t)
      PROVE  LifecycleStep
  <2>1. CASE InitiateSetState(t)
    BY <2>1
    DEF InitiateSetState, Goto, session, timer, media, Lifecycle!Next,
        Lifecycle!Begin, ControlInv, StateAt, Named, TimingOut, TypeOK
  <2>2. CASE StartTimerStop(t)
    BY <2>2
    DEF StartTimerStop, Goto, Interfere, session, timer, media
  <2>3. CASE StartTimerJoin(t)
    BY <2>3
    DEF StartTimerJoin, Return, Goto, Interfere, session, timer, media
  <2>4. CASE AcceptSetState(t)
    BY <2>4
    DEF AcceptSetState, Return, Goto, Interfere, session, timer, media,
        Lifecycle!Next, Lifecycle!Advance, Lifecycle!who, ControlInv, StateAt,
        Named, TimingOut, TypeOK
  <2>5. CASE CreatePeerConnection(t)
    BY <2>5
    DEF CreatePeerConnection, Return, Goto, Interfere, session, timer, media
  <2>6. CASE ReportRejected(t)
    BY <2>6
    DEF ReportRejected, ClosePeerConnection, Goto, Interfere, session, timer,
        media
  <2>7. CASE ReportCancelled(t)
    BY <2>7
    DEF ReportCancelled, ClosePeerConnection, Goto, Interfere, session, timer,
        media
  <2>8. CASE ReportEnded(t)
    BY <2>8
    DEF ReportEnded, ClosePeerConnection, Goto, Interfere, session, timer,
        media
  <2>9. CASE CleanupCall(t)
    BY <2>9
    DEF CleanupCall, ResetSession, Return, Goto, Interfere, session, timer,
        media, Lifecycle!Next, Lifecycle!Finish, ControlInv, StateAt, Named,
        TimingOut, TypeOK
  <2>10. CASE NotifyIdle(t)
    BY <2>10
    DEF NotifyIdle, Return, Goto, Interfere, session, timer, media
  <2>11. QED
    BY <1>1, <2>1, <2>2, <2>3, <2>4, <2>5, <2>6, <2>7, <2>8, <2>9, <2>10
    DEF Continue
<1>2. ASSUME NEW t \in Threads, Local(t)
      PROVE  LifecycleStep
  <2>1. ASSUME NEW p \in Peers, InitiateCall(t, p)
       PROVE  LifecycleStep
    BY <2>1
    DEF InitiateCall, Enter, Goto, Interfere, session, timer, media,
        Lifecycle!Next, ControlInv, StateAt, Named, TimingOut, TypeOK
  <2>2. CASE CancelCall(t)
    BY <2>2
    DEF CancelCall, Enter, Goto, Interfere, session, timer, media
  <2>3. CASE AcceptCall(t)
    BY <2>3
    DEF AcceptCall, Enter, Goto, Interfere, session, timer, media
  <2>4. CASE RejectCall(t)
    BY <2>4
    DEF RejectCall, Enter, Goto, Interfere, session, timer, media
  <2>5. CASE EndCall(t)
    <3>1. call_state \in {"Calling", "Receiving", "Connecting", "Connected"}
      BY <2>5 DEF EndCall, TypeOK, States
    <3>2. call_state' = "Ending" /\ UNCHANGED <<current_peer, current_call_id, is_caller>>
      BY <2>5 DEF EndCall
    <3>3. Lifecycle!Advance(call_state, "Ending")
      BY <3>1, <3>2 DEF Lifecycle!Advance, Lifecycle!who
    <3>4. QED
      BY <3>1, <3>3 DEF Lifecycle!Next
  <2>6. CASE NotifyPeerConnectionEstablished(t)
    BY <2>6
    DEF NotifyPeerConnectionEstablished, Interfere, session, timer, media,
        Lifecycle!Next, Lifecycle!Advance, Lifecycle!who, ControlInv, StateAt,
        Named, TimingOut, TypeOK
  <2>7. QED
    BY <1>2, <2>1, <2>2, <2>3, <2>4, <2>5, <2>6
    DEF Local
<1>3. ASSUME NEW t \in Threads, Remote(t)
      PROVE  LifecycleStep
  <2>1. ASSUME NEW p \in Peers, NEW c \in RemoteIds \cup {NoCall},
              HandleCallRequest(t, p, c)
       PROVE  LifecycleStep
    <3>1. c \in CallIds
      BY <2>1 DEF HandleCallRequest, CallIds
    <3>2. Lifecycle!Begin("Receiving")
      BY <2>1, <3>1 DEF HandleCallRequest, Lifecycle!Begin
    <3>3. QED
      BY <3>2 DEF Lifecycle!Next
  <2>2. ASSUME NEW p \in Peers, NEW c \in Ids, NEW a \in BOOLEAN,
              HandleCallResponse(t, p, c, a)
       PROVE  LifecycleStep
    BY <2>2
    DEF HandleCallResponse, Matches, Enter, Goto, Interfere, session, timer,
        media, Lifecycle!Next, Lifecycle!Advance, Lifecycle!who, ControlInv,
        StateAt, Named, TimingOut, TypeOK
  <2>3. ASSUME NEW p \in Peers, NEW c \in Ids,
              HandleCallCancel(t, p, c)
       PROVE  LifecycleStep
    BY <2>3
    DEF HandleCallCancel, Matches, Enter, Goto, Interfere, session, timer,
        media
  <2>4. ASSUME NEW p \in Peers, NEW c \in Ids,
              HandleCallEnd(t, p, c)
       PROVE  LifecycleStep
    BY <2>4
    DEF HandleCallEnd, Matches, Enter, Goto, Interfere, session, timer, media
  <2>5. QED
    BY <1>3, <2>1, <2>2, <2>3, <2>4
    DEF Remote
<1>4. CASE TimerStep
  <2>1. CASE TimerExpire
    BY <2>1
    DEF TimerExpire, session, timer, media
  <2>2. CASE OnCallRequestTimeout
    BY <2>2
    DEF OnCallRequestTimeout, session, timer, media
  <2>3. CASE ReportTimeout
    BY <2>3
    DEF ReportTimeout, ClosePeerConnection, session, timer, media
  <2>4. CASE TimerCleanup
    BY <2>4
    DEF TimerCleanup, ResetSession, session, timer, media, Lifecycle!Next,
        Lifecycle!Finish, ControlInv, StateAt, Named, TimingOut, TypeOK
  <2>5. CASE TimerNotify
    BY <2>5
    DEF TimerNotify, session, timer, media
  <2>6. QED
    BY <1>4, <2>1, <2>2, <2>3, <2>4, <2>5
    DEF TimerStep
<1>5. CASE DetachObserver
  BY <1>5
  DEF DetachObserver, session, timer, media
<1>6. CASE UNCHANGED vars
  BY <1>6
  DEF vars, session, timer, media
<1>7. QED
  BY <1>1, <1>2, <1>3, <1>4, <1>5, <1>6 DEF Next

(* On the application's single I/O thread the manager implements the       *)
(* abstract call life cycle, up to an interference with a timeout.         *)
THEOREM Refinement == SingleThreaded => (Spec => ImplementsLifecycle)
<1> SUFFICES ASSUME SingleThreaded PROVE Spec => ImplementsLifecycle
  OBVIOUS
<1> DEFINE Inv == TypeOK /\ ControlInv
<1>1. Init => Inv /\ Lifecycle!Init
  BY InitType, InitControl DEF Init, Lifecycle!Init
<1>2. Inv /\ [Next]_vars => Inv'
  BY NextType, NextControl
<1>3. Inv /\ [Next]_vars => [raced' \/ Lifecycle!Next]_(Lifecycle!vars)
  BY NextLifecycle DEF LifecycleStep
<1>4. QED
  BY <1>1, <1>2, <1>3, PTL DEF Spec, ImplementsLifecycle

-----------------------------------------------------------------------------
(* What no method leaves behind, for any number of API threads and also    *)
(* after a race with a timeout.                                            *)

\* An outgoing call is guarded by its timer, unless the thread that places it
\* has not started one or a thread that ends it is on its way to CleanupCall.
GuardedInv ==
    call_state = "Calling" /\ observer =>
        \/ timer_at = "wait" /\ timer_armed /\ ~timer_stop
        \/ timer_at \in {"checked", "report", "cleanup"}
        \/ \E t \in Threads :
               at[t] \in {"initiate_stop", "initiate_join", "rejected", "cleanup"}

LeftBehindInv == IdleIsClear /\ EndingHasOwner /\ GuardedInv

\* Every step of every thread preserves the three parts.
LEMMA NextLeftBehind ==
  ASSUME TypeOK, LeftBehindInv, [Next]_vars
  PROVE  LeftBehindInv'
<1>. USE DEF LeftBehindInv, IdleIsClear, EndingHasOwner, GuardedInv, TypeOK, session, timer
<1>1. ASSUME NEW t \in Threads, Continue(t)
      PROVE  LeftBehindInv'
  <2>1. CASE InitiateSetState(t)
    BY <2>1 DEF InitiateSetState, Goto
  <2>2. CASE StartTimerStop(t)
    BY <2>2 DEF StartTimerStop, Goto
  <2>3. CASE StartTimerJoin(t)
    BY <2>3 DEF StartTimerJoin, Return, Goto
  <2>4. CASE AcceptSetState(t)
    BY <2>4 DEF AcceptSetState, Return, Goto
  <2>5. CASE CreatePeerConnection(t)
    BY <2>5 DEF CreatePeerConnection, Return, Goto
  <2>6. CASE ReportRejected(t)
    BY <2>6 DEF ReportRejected, Goto
  <2>7. CASE ReportCancelled(t)
    BY <2>7 DEF ReportCancelled, Goto
  <2>8. CASE ReportEnded(t)
    BY <2>8 DEF ReportEnded, Goto
  <2>9. CASE CleanupCall(t)
    BY <2>9 DEF CleanupCall, ResetSession, Return, Goto
  <2>10. CASE NotifyIdle(t)
    BY <2>10 DEF NotifyIdle, Return, Goto
  <2>. QED
    BY <1>1, <2>1, <2>2, <2>3, <2>4, <2>5, <2>6, <2>7, <2>8, <2>9, <2>10 DEF Continue
<1>2. ASSUME NEW t \in Threads, Local(t)
      PROVE  LeftBehindInv'
  <2>1. ASSUME NEW p \in Peers, InitiateCall(t, p)
       PROVE  LeftBehindInv'
    BY <2>1 DEF InitiateCall, Enter, Goto
  <2>2. CASE CancelCall(t)
    BY <2>2 DEF CancelCall, Enter, Goto
  <2>3. CASE AcceptCall(t)
    BY <2>3 DEF AcceptCall, Enter, Goto
  <2>4. CASE RejectCall(t)
    BY <2>4 DEF RejectCall, Enter, Goto
  <2>5. CASE EndCall(t)
    BY <2>5 DEF EndCall, Enter, Goto
  <2>6. CASE NotifyPeerConnectionEstablished(t)
    BY <2>6 DEF NotifyPeerConnectionEstablished
  <2>. QED
    BY <1>2, <2>1, <2>2, <2>3, <2>4, <2>5, <2>6 DEF Local
<1>3. ASSUME NEW t \in Threads, Remote(t)
      PROVE  LeftBehindInv'
  <2>1. ASSUME NEW p \in Peers, NEW c \in RemoteIds \cup {NoCall}, HandleCallRequest(t, p, c)
       PROVE  LeftBehindInv'
    BY <2>1 DEF HandleCallRequest
  <2>2. ASSUME NEW p \in Peers, NEW c \in Ids, NEW a \in BOOLEAN, HandleCallResponse(t, p, c, a)
       PROVE  LeftBehindInv'
    BY <2>2 DEF HandleCallResponse, Enter, Goto
  <2>3. ASSUME NEW p \in Peers, NEW c \in Ids, HandleCallCancel(t, p, c)
       PROVE  LeftBehindInv'
    BY <2>3 DEF HandleCallCancel, Enter, Goto
  <2>4. ASSUME NEW p \in Peers, NEW c \in Ids, HandleCallEnd(t, p, c)
       PROVE  LeftBehindInv'
    BY <2>4 DEF HandleCallEnd, Enter, Goto
  <2>. QED
    BY <1>3, <2>1, <2>2, <2>3, <2>4 DEF Remote
<1>4. CASE TimerStep
  <2>1. CASE TimerExpire
    BY <2>1 DEF TimerExpire
  <2>2. CASE OnCallRequestTimeout
    BY <2>2 DEF OnCallRequestTimeout
  <2>3. CASE ReportTimeout
    BY <2>3 DEF ReportTimeout
  <2>4. CASE TimerCleanup
    BY <2>4 DEF TimerCleanup, ResetSession
  <2>5. CASE TimerNotify
    BY <2>5 DEF TimerNotify
  <2>. QED
    BY <1>4, <2>1, <2>2, <2>3, <2>4, <2>5 DEF TimerStep
<1>5. CASE DetachObserver
  BY <1>5 DEF DetachObserver
<1>6. CASE UNCHANGED vars
  BY <1>6 DEF vars
<1>. QED
  BY <1>1, <1>2, <1>3, <1>4, <1>5, <1>6 DEF Next

\* The invariant that the three theorems below are read off.
THEOREM NothingLeftBehind == Spec => [](TypeOK /\ LeftBehindInv)
<1>1. Init => TypeOK /\ LeftBehindInv
  BY InitType DEF Init, LeftBehindInv, IdleIsClear, EndingHasOwner, GuardedInv
<1>2. TypeOK /\ LeftBehindInv /\ [Next]_vars => (TypeOK /\ LeftBehindInv)'
  BY NextType, NextLeftBehind
<1>. QED
  BY <1>1, <1>2, PTL DEF Spec

(* However the methods of several threads and the timer interleave, a      *)
(* manager that is idle has forgotten the peer and the identifier of the   *)
(* last session.                                                           *)
THEOREM IdleCleared == Spec => []IdleIsClear
<1>1. TypeOK /\ LeftBehindInv => IdleIsClear
  BY DEF LeftBehindInv
<1>. QED
  BY <1>1, NothingLeftBehind, PTL

(* Ending, in which EndCall and HandleCallEnd refuse to act, always has a  *)
(* thread that will run CleanupCall.                                       *)
THEOREM EndingOwned == Spec => []EndingHasOwner
<1>1. TypeOK /\ LeftBehindInv => EndingHasOwner
  BY DEF LeftBehindInv
<1>. QED
  BY <1>1, NothingLeftBehind, PTL

(* A call that no method works on any more is guarded by a timer that will *)
(* still act on it, although HandleCallResponse, CleanupCall and the next  *)
(* InitiateCall all disarm or replace the timer.                           *)
THEOREM CallingGuarded == Spec => []CallingHasTimer
<1>1. TypeOK /\ LeftBehindInv => CallingHasTimer
  BY DEF LeftBehindInv, GuardedInv, CallingHasTimer, AllReturned
<1>. QED
  BY <1>1, NothingLeftBehind, PTL
=============================================================================
