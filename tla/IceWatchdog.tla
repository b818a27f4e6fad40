----------------------------- MODULE IceWatchdog -----------------------------
(***************************************************************************)
(* The ICE disconnect watchdog (src/ice_disconnect_watchdog.cc) and        *)
(* the way call_coordinator.cc drives it.  WebRTC reports ICE states on    *)
(* its own thread; the coordinator posts them to the signaling I/O thread, *)
(* which runs its tasks one by one in the order they were posted.  Arm and *)
(* Disarm hold the watchdog's mutex while they join the old thread; the    *)
(* thread, when its time is up, posts a hangup to the same I/O thread.     *)
(* Shutdown disarms the watchdog from the user interface thread.           *)
(*                                                                         *)
(* A task is a sequence of steps, todo being the ones still to run.  The   *)
(* call manager is seen through its call state only, every change of which *)
(* happens on the I/O thread here; the request timer that shares it is in  *)
(* CallManager.  Tasks, ICE reports and the watchdog carry the number of   *)
(* the call they were made for, which the code does not know.              *)
(***************************************************************************)
EXTENDS Naturals, Sequences

CONSTANTS
    MaxCalls,   \* bound on the calls of a behaviour
    MaxQueue    \* bound on the tasks posted from outside at any time

ASSUME BoundsAssumption == MaxCalls \in Nat /\ MaxQueue \in Nat

VARIABLES
    queue,      \* tasks posted to the I/O thread
    cur,        \* the task it is running
    todo,       \* the rest of that task
    call,       \* the call manager's state
    n,          \* number of the latest call
    pc,         \* the call whose peer connection the engine holds, or 0
    ice,        \* ICE state of that connection
    seen,       \* last ICE state the I/O thread acted on in this call
    mutex,      \* holder of the watchdog's mutex_
    wd_at,      \* what the watchdog thread does next
    wd_armed,   \* its generation equals generation_
    wd_stop,    \* its stop token has been triggered
    wd_call,    \* the call it was armed for
    ui,         \* progress of CallCoordinator::Shutdown
    down,       \* shutdown_started_
    misled      \* history: an acceptance of one call has connected another

wd == <<wd_at, wd_armed, wd_stop, wd_call>>
manager == <<call, n>>
engine == <<pc, ice>>
vars == <<queue, cur, todo, manager, engine, seen, mutex, wd, ui, down, misled>>

Bad == {"disconnected", "failed"}
IceStates == {"new", "checking", "connected"} \cup Bad
CallStates == {"Idle", "Pending", "Connecting", "Connected", "Ending"}
Kinds == {"start", "connect", "end", "remote_end", "hangup"} \cup IceStates
Steps == {"start", "connecting", "create", "established", "ending", "close",
          "idle", "lock", "join", "join_arm"}
Tasks == [kind : Kinds, call : 0..MaxCalls]

Task(kind, c) == [kind |-> kind, call |-> c]

Init ==
    /\ queue = <<>>
    /\ cur = Task("start", 0)
    /\ todo = <<>>
    /\ call = "Idle"
    /\ n = 0
    /\ pc = 0
    /\ ice = "new"
    /\ seen = "new"
    /\ mutex = "free"
    /\ wd_at = "none"
    /\ wd_armed = FALSE
    /\ wd_stop = FALSE
    /\ wd_call = 0
    /\ ui = "running"
    /\ down = FALSE
    /\ misled = FALSE

-----------------------------------------------------------------------------
(* Tasks. *)

\* PostToCallControl drops the task once shutdown has started.
Post(task) == queue' = IF down THEN queue ELSE Append(queue, task)

\* IceDisconnectWatchdog::Disarm and Arm, which join inside the mutex.
Disarm == <<"lock", "join">>
Arm == <<"lock", "join_arm">>

\* Mutant: the watchdog is armed in any state of the call.
OnIceConnectionStateChanged_AlwaysWatch(state) ==
    CASE state = "connected" -> Disarm \o <<"established">>
      [] state \in Bad -> Arm
      [] OTHER -> Disarm

\* Mutant: Failed is not treated as unstable.
OnIceConnectionStateChanged_FailedIgnored(state) ==
    CASE state = "connected" -> Disarm \o <<"established">>
      [] state = "disconnected" -> IF call = "Connected" THEN Arm ELSE Disarm
      [] OTHER -> Disarm

\* OnIceConnectionStateChanged, the part posted to the I/O thread.
OnIceConnectionStateChanged(state) ==
    CASE state = "connected" -> Disarm \o <<"established">>
      [] state \in Bad -> IF call = "Connected" THEN Arm ELSE Disarm
      [] OTHER -> Disarm

\* CleanupCall, whose OnCallStateChanged(Idle) disarms the watchdog.
Cleanup == <<"idle">> \o Disarm

\* EndCall: Ending, OnNeedClosePeerConnection, CleanupCall.
EndCall == <<"ending">> \o Disarm \o <<"close">> \o Cleanup

(* What the I/O thread does for a task.  A call is started by StartCall or *)
(* an incoming request, and connects when it is answered or accepted;      *)
(* either change of state disarms the watchdog, and so does               *)
(* OnNeedCreatePeerConnection.                                             *)
Body(task) ==
    CASE task.kind = "start" ->
            IF call = "Idle" /\ n < MaxCalls THEN <<"start">> \o Disarm ELSE <<>>
      [] task.kind = "connect" ->
            IF call = "Pending"
            THEN <<"connecting">> \o Disarm \o Disarm \o <<"create">>
            ELSE <<>>
      [] task.kind = "end" -> EndCall
      [] task.kind = "remote_end" ->
            IF call \notin {"Idle", "Ending"} /\ task.call = n
            THEN Disarm \o <<"close">> \o Cleanup
            ELSE <<>>
      [] task.kind = "hangup" -> IF call = "Connected" THEN EndCall ELSE <<>>
      [] OTHER -> OnIceConnectionStateChanged(task.kind)

\* Messages are handled directly, everything else was posted.
Posted(task) == task.kind \notin {"connect", "remote_end"}

\* The I/O thread takes the next task; PostToCallControl's wrapper returns at
\* once after shutdown, and so do messages once the observer is gone.
TakeTask ==
    /\ todo = <<>>
    /\ queue # <<>>
    /\ cur' = Head(queue)
    /\ queue' = Tail(queue)
    /\ todo' = IF ui = "done" \/ (down /\ Posted(Head(queue)))
               THEN <<>> ELSE Body(Head(queue))
    /\ seen' = IF cur'.kind \in IceStates /\ cur'.call = n THEN cur'.kind ELSE seen
    /\ UNCHANGED <<manager, engine, mutex, wd, ui, down, misled>>

-----------------------------------------------------------------------------
(* Steps of the I/O thread. *)

Step(name) ==
    /\ todo # <<>>
    /\ Head(todo) = name
    /\ todo' = Tail(todo)

StartCall ==
    /\ Step("start")
    /\ n' = n + 1
    /\ call' = "Pending"
    /\ seen' = "new"
    /\ UNCHANGED <<queue, cur, engine, mutex, wd, ui, down, misled>>

(* HandleCallResponse compares the call, AcceptCall does not: the click on *)
(* one call may be carried out in the next.                                *)
Connecting ==
    /\ Step("connecting")
    /\ call' = "Connecting"
    /\ misled' = (misled \/ cur.call # n)
    /\ UNCHANGED <<queue, cur, n, engine, seen, mutex, wd, ui, down>>

\* CreatePeerConnection and AddTracks; a connection that exists is kept.
CreatePeerConnection ==
    /\ Step("create")
    /\ IF pc # 0
       THEN UNCHANGED engine
       ELSE pc' \in {0, n} /\ ice' = "new"
    /\ UNCHANGED <<queue, cur, manager, seen, mutex, wd, ui, down, misled>>

\* NotifyPeerConnectionEstablished.
Established ==
    /\ Step("established")
    /\ call' = IF call = "Connecting" THEN "Connected" ELSE call
    /\ UNCHANGED <<queue, cur, n, engine, seen, mutex, wd, ui, down, misled>>

Ending ==
    /\ todo # <<>>
    /\ Head(todo) = "ending"
    /\ IF call \in {"Idle", "Ending"}
       THEN todo' = <<>> /\ UNCHANGED call
       ELSE todo' = Tail(todo) /\ call' = "Ending"
    /\ UNCHANGED <<queue, cur, n, engine, seen, mutex, wd, ui, down, misled>>

\* Closing the connection also cuts off its callbacks.
ClosePeerConnection ==
    /\ Step("close")
    /\ pc' = 0
    /\ ice' = "new"
    /\ UNCHANGED <<queue, cur, manager, seen, mutex, wd, ui, down, misled>>

Idle ==
    /\ Step("idle")
    /\ call' = "Idle"
    /\ UNCHANGED <<queue, cur, n, engine, seen, mutex, wd, ui, down, misled>>

\* Mutant: DisarmLocked stops the thread in the generation it was armed with.
LockAndStop_KeepsGeneration(thread) ==
    /\ mutex = "free"
    /\ mutex' = thread
    /\ wd_stop' = TRUE
    /\ UNCHANGED <<wd_at, wd_armed, wd_call>>

\* DisarmLocked up to the join, by the thread that takes the mutex.
LockAndStop(thread) ==
    /\ mutex = "free"
    /\ mutex' = thread
    /\ wd_armed' = FALSE
    /\ wd_stop' = TRUE
    /\ UNCHANGED <<wd_at, wd_call>>

\* Mutant: the mutex is released without waiting for the thread.
Join_NoWait ==
    /\ mutex' = "free"

Join ==
    /\ wd_at = "none"
    /\ mutex' = "free"

IoLock ==
    /\ Step("lock")
    /\ LockAndStop("io")
    /\ UNCHANGED <<queue, cur, manager, engine, seen, ui, down, misled>>

IoJoin ==
    /\ Step("join")
    /\ Join
    /\ UNCHANGED <<queue, cur, manager, engine, seen, wd, ui, down, misled>>

\* Arm starts the new thread before it releases the mutex.
IoArm ==
    /\ Step("join_arm")
    /\ Join
    /\ wd_at' = "wait"
    /\ wd_armed' = TRUE
    /\ wd_stop' = FALSE
    /\ wd_call' = n
    /\ UNCHANGED <<queue, cur, manager, engine, seen, ui, down, misled>>

Io ==
    \/ TakeTask
    \/ StartCall
    \/ Connecting
    \/ CreatePeerConnection
    \/ Established
    \/ Ending
    \/ ClosePeerConnection
    \/ Idle
    \/ IoLock
    \/ IoJoin
    \/ IoArm

-----------------------------------------------------------------------------
(* The watchdog thread. *)

\* Past the deadline, or stopped: the stop token, then the generation.
WatchdogExpire ==
    /\ wd_at = "wait"
    /\ wd_at' = IF wd_armed /\ ~wd_stop THEN "checked" ELSE "none"
    /\ UNCHANGED <<queue, cur, todo, manager, engine, seen, mutex, wd_armed,
                   wd_stop, wd_call, ui, down, misled>>

\* Mutant: the generation is checked again under the mutex, which the thread
\* that joins this one holds.
WatchdogFire_Locks ==
    /\ wd_at = "checked"
    /\ IF mutex = "free"
       THEN wd_at' = "none" /\ Post(Task("hangup", wd_call))
       ELSE UNCHANGED <<wd_at, queue>>
    /\ UNCHANGED <<cur, todo, manager, engine, seen, mutex, wd_armed, wd_stop,
                   wd_call, ui, down, misled>>

\* on_timeout posts the hangup; nothing rechecks the generation.
WatchdogFire ==
    /\ wd_at = "checked"
    /\ wd_at' = "none"
    /\ Post(Task("hangup", wd_call))
    /\ UNCHANGED <<cur, todo, manager, engine, seen, mutex, wd_armed, wd_stop,
                   wd_call, ui, down, misled>>

Watchdog == WatchdogExpire \/ WatchdogFire

-----------------------------------------------------------------------------
(* The user interface thread: Shutdown. *)

ShutdownStart ==
    /\ ui = "running"
    /\ ~down
    /\ down' = TRUE
    /\ ui' = "lock"
    /\ UNCHANGED <<queue, cur, todo, manager, engine, seen, mutex, wd, misled>>

ShutdownLock ==
    /\ ui = "lock"
    /\ LockAndStop("ui")
    /\ ui' = "join"
    /\ UNCHANGED <<queue, cur, todo, manager, engine, seen, down, misled>>

\* The rest of Shutdown: the observers are cleared and the engine is closed.
ShutdownJoin ==
    /\ ui = "join"
    /\ Join
    /\ ui' = "done"
    /\ pc' = 0
    /\ ice' = "new"
    /\ UNCHANGED <<queue, cur, todo, manager, seen, wd, down, misled>>

Shutdown == ShutdownLock \/ ShutdownJoin

-----------------------------------------------------------------------------
(* The environment. *)

\* Users and peers.  A call is answered only after it has been announced.
Request ==
    /\ Len(queue) < MaxQueue
    /\ \E kind \in {"start", "connect", "end", "remote_end"} :
          /\ kind = "start" => n < MaxCalls
          /\ kind = "connect" => call = "Pending"
          /\ queue' = IF down /\ kind \in {"start", "end"}
                      THEN queue ELSE Append(queue, Task(kind, n))
    /\ UNCHANGED <<cur, todo, manager, engine, seen, mutex, wd, ui, down, misled>>

\* ICE states the engine reports, one after the other.
IceNext ==
    [new |-> {"checking"},
     checking |-> {"connected", "disconnected", "failed"},
     connected |-> {"disconnected", "failed"},
     disconnected |-> {"checking", "connected", "failed"},
     failed |-> {"checking", "connected"}]

\* The callback on WebRTC's signaling thread.
IceChange ==
    /\ pc # 0
    /\ Len(queue) < MaxQueue
    /\ ice' \in IceNext[ice]
    /\ Post(Task(ice', pc))
    /\ UNCHANGED <<cur, todo, manager, pc, seen, mutex, wd, ui, down, misled>>

Next ==
    \/ Io
    \/ Watchdog
    \/ ShutdownStart
    \/ Shutdown
    \/ Request
    \/ IceChange

Spec == Init /\ [][Next]_vars

(***************************************************************************)
(* The I/O thread runs its tasks, the watchdog's clock advances, and a     *)
(* shutdown that has begun goes on.  Users, peers and the network owe      *)
(* nothing.                                                                *)
(***************************************************************************)
Fairness == WF_vars(Io) /\ WF_vars(Watchdog) /\ WF_vars(Shutdown)

FairSpec == Spec /\ Fairness

-----------------------------------------------------------------------------
(* Properties. *)

(* The types, and of the two ways to cancel a watchdog neither is used     *)
(* without the other: one that was told to stop is not of the current      *)
(* generation.                                                             *)
TypeOK ==
    /\ queue \in Seq(Tasks)
    /\ cur \in Tasks
    /\ todo \in Seq(Steps)
    /\ call \in CallStates
    /\ n \in 0..MaxCalls
    /\ pc \in 0..MaxCalls
    /\ ice \in IceStates
    /\ seen \in IceStates
    /\ mutex \in {"free", "io", "ui"}
    /\ wd_at \in {"none", "wait", "checked"}
    /\ wd_armed \in BOOLEAN
    /\ wd_stop \in BOOLEAN
    /\ wd_call \in 0..MaxCalls
    /\ ui \in {"running", "lock", "join", "done"}
    /\ down \in BOOLEAN
    /\ misled \in BOOLEAN
    /\ wd_armed => ~wd_stop

(* Disarm leaves no thread behind: whenever the mutex is free, a watchdog  *)
(* thread that is still alive is the one armed last.                       *)
NoOrphanWatchdog == (mutex = "free" /\ ~wd_armed) => wd_at = "none"

(* Between two tasks a watchdog runs only for the call that is connected;  *)
(* neither a hangup nor a new call leaves one running.                     *)
WatchdogWatchesCall ==
    (todo = <<>> /\ wd_at # "none") => (call = "Connected" /\ wd_call = n)

(* Although neither carries an identifier, an ICE report establishes only  *)
(* the call of its own peer connection, and a hangup posted by a watchdog  *)
(* ends only the call it watched.  An acceptance that came too late for    *)
(* its own call and connected the next one is the exception.               *)
EventsActOnOwnCall ==
    [][~misled =>
          /\ (call = "Connecting" /\ call' = "Connected") => cur.call = n
          /\ (cur.kind = "hangup" /\ call' = "Ending") => cur.call = n]_call

(* A connected call whose ICE connection stays disconnected or failed is   *)
(* hung up.                                                                *)
UnstableCallEnds ==
    (call = "Connected" /\ ice \in Bad) ~> (call # "Connected" \/ ice \notin Bad \/ down)

(* Joining inside the mutex blocks neither the I/O thread nor Shutdown for *)
(* ever.                                                                   *)
NobodyWaitsForever ==
    /\ todo # <<>> ~> todo = <<>>
    /\ down ~> ui = "done"

(* call_coordinator_test.cc, IceReconnectDisarmsWatchdogBeforeTimeout:     *)
(* after ICE has reconnected, that is, when Connected is the last state    *)
(* the I/O thread has acted on, the watchdog does not end the call.        *)
RecoveredCallSurvives ==
    [][(cur.kind = "hangup" /\ call' = "Ending") => seen # "connected"]_call
=============================================================================
