-------------------------- MODULE IceWatchdogProofs --------------------------
(***************************************************************************)
(* Proofs about IceWatchdog, for any number of calls and any length of the *)
(* I/O thread's queue: no watchdog outlives Disarm or its call, and        *)
(* reports and hangups, which carry no identifier, act on their own call.  *)
(***************************************************************************)
EXTENDS IceWatchdog, SequenceTheorems, TLAPS

-----------------------------------------------------------------------------
(* What is left of a task, by the task it belongs to. *)

Disarming == {<<"lock", "join">>, <<"join">>}
Starting == <<"start", "lock", "join">>
ToConnect == <<"connecting", "lock", "join", "lock", "join", "create">>
Creating ==
    {<<"lock", "join", "lock", "join", "create">>, <<"join", "lock", "join", "create">>,
     <<"lock", "join", "create">>, <<"join", "create">>, <<"create">>}
ToEnd == <<"ending", "lock", "join", "close", "idle", "lock", "join">>
ToClose ==
    {<<"lock", "join", "close", "idle", "lock", "join">>,
     <<"join", "close", "idle", "lock", "join">>, <<"close", "idle", "lock", "join">>}
ToIdle == <<"idle", "lock", "join">>
Establishing ==
    {<<"lock", "join", "established">>, <<"join", "established">>, <<"established">>}
Arming == {<<"lock", "join_arm">>, <<"join_arm">>}

Rests ==
    {<<>>, Starting, ToConnect, ToEnd, ToIdle} \cup Disarming \cup Creating
        \cup ToClose \cup Establishing \cup Arming

\* The steps in front of which a disarmed watchdog may still be alive.
Joining == {"lock", "join", "join_arm", "close", "idle"}

-----------------------------------------------------------------------------
(* The inductive invariant. *)

\* What the I/O thread knows of the call in the middle of a task.
StepInv ==
    /\ todo \in Rests
    /\ todo = Starting => call = "Idle" /\ n < MaxCalls
    /\ todo = ToConnect => call = "Pending"
    /\ todo \in Creating => call = "Connecting"
    /\ todo \in Arming => call = "Connected"

\* The peer connection is that of the latest call, once it is connecting.
ConnectionInv ==
    /\ pc # 0 => pc = n /\ call \notin {"Idle", "Pending"}
    /\ todo = ToIdle => pc = 0

\* A watchdog was armed for the latest call, which is connected unless the
\* I/O thread is about to join the watchdog.
WatchInv ==
    /\ wd_at # "none" => wd_call = n
    /\ wd_at # "none" => call = "Connected" \/ (todo # <<>> /\ Head(todo) \in Joining)

Events == IceStates \cup {"hangup"}
OwnEvents == \A j \in 1..Len(queue) : queue[j].kind \in Events => queue[j].call = n

(* The queue is served in order: behind an acceptance of the latest call   *)
(* there are no reports of earlier ones, and so there are none once it is  *)
(* connecting, unless another acceptance has connected it.                 *)
QueueInv ==
    /\ \A i \in 1..Len(queue) : queue[i].call <= n
    /\ \A i, j \in 1..Len(queue) :
          (i < j /\ queue[i] = Task("connect", n) /\ queue[j].kind \in Events)
              => queue[j].call = n
    /\ todo = ToConnect /\ cur.call = n => OwnEvents
    /\ ~misled /\ call \in {"Connecting", "Connected"} => OwnEvents
    /\ ~misled /\ call = "Connecting" /\ todo \in Establishing => cur.call = n
    /\ ~misled /\ todo = ToEnd /\ cur.kind = "hangup" => cur.call = n

IInv ==
    TypeOK /\ StepInv /\ ConnectionInv /\ NoOrphanWatchdog /\ WatchInv /\ QueueInv

-----------------------------------------------------------------------------
(* The rests of a task. *)

RestSets == Disarming \cup Creating \cup ToClose \cup Establishing \cup Arming

\* Every rest is a sequence of steps.
LEMMA RestsAreSteps == Rests \subseteq Seq(Steps)
BY DEF Rests, Starting, ToConnect, ToEnd, ToIdle, Disarming, Creating, ToClose,
       Establishing, Arming, Steps

\* A rest tells the task it belongs to.
LEMMA RestsDiffer ==
    /\ Starting \notin {<<>>, ToConnect, ToEnd, ToIdle} \cup RestSets
    /\ ToConnect \notin {<<>>, ToEnd, ToIdle} \cup RestSets
    /\ ToEnd \notin {<<>>, ToIdle} \cup RestSets
    /\ ToIdle \notin {<<>>} \cup RestSets
    /\ <<>> \notin RestSets
    /\ Disarming \cap (Creating \cup ToClose \cup Establishing \cup Arming) = {}
    /\ Creating \cap (ToClose \cup Establishing \cup Arming) = {}
    /\ ToClose \cap (Establishing \cup Arming) = {}
    /\ Establishing \cap Arming = {}
BY DEF RestSets, Starting, ToConnect, ToEnd, ToIdle, Disarming, Creating, ToClose,
       Establishing, Arming

-----------------------------------------------------------------------------
(* Steps and tasks. *)

\* Which step comes first in which rest, and what it leaves.
LEMMA RestStep ==
  ASSUME NEW t \in Rests, t # <<>>
  PROVE  /\ Tail(t) \in Rests
         /\ Head(t) = "start" => t = Starting /\ Tail(t) \in Disarming
         /\ Head(t) = "connecting" => t = ToConnect /\ Tail(t) \in Creating
         /\ Head(t) = "create" => t \in Creating /\ Tail(t) = <<>>
         /\ Head(t) = "established" => t \in Establishing /\ Tail(t) = <<>>
         /\ Head(t) = "ending" => t = ToEnd /\ Tail(t) \in ToClose
         /\ Head(t) = "close" => t \in ToClose /\ Tail(t) = ToIdle
         /\ Head(t) = "idle" => t = ToIdle /\ Tail(t) \in Disarming
         /\ Head(t) = "join_arm" => t \in Arming /\ Tail(t) = <<>>
         /\ Head(t) \in {"lock", "join"} =>
               \/ t \in Disarming /\ Tail(t) \in Disarming \cup {<<>>}
               \/ t \in Creating /\ Tail(t) \in Creating
               \/ t \in ToClose /\ Tail(t) \in ToClose
               \/ t \in Establishing /\ Tail(t) \in Establishing
               \/ t \in Arming /\ Tail(t) \in Arming
         /\ Head(t) \in {"start", "connecting", "ending", "close", "idle", "lock"} =>
               Tail(t) # <<>> /\ Head(Tail(t)) \in Joining
<1>1. CASE t = Starting
  <2>1. Head(<<"start", "lock", "join">>) = "start" /\ Tail(<<"start", "lock", "join">>) = <<"lock", "join">>
    OBVIOUS
  <2>2. Head(<<"lock", "join">>) = "lock" /\ <<"lock", "join">> # <<>>
    OBVIOUS
  <2>. QED
    BY <1>1, <2>1, <2>2 DEF Rests, Starting, ToConnect, ToEnd, ToIdle, Disarming, Creating, ToClose, Establishing,
       Arming, Joining
<1>2. CASE t = ToConnect
  <2>1. Head(<<"connecting", "lock", "join", "lock", "join", "create">>) = "connecting" /\ Tail(<<"connecting", "lock", "join", "lock", "join", "create">>) = <<"lock", "join", "lock", "join", "create">>
    OBVIOUS
  <2>2. Head(<<"lock", "join", "lock", "join", "create">>) = "lock" /\ <<"lock", "join", "lock", "join", "create">> # <<>>
    OBVIOUS
  <2>. QED
    BY <1>2, <2>1, <2>2 DEF Rests, Starting, ToConnect, ToEnd, ToIdle, Disarming, Creating, ToClose, Establishing,
       Arming, Joining
<1>3. CASE t = ToEnd
  <2>1. Head(<<"ending", "lock", "join", "close", "idle", "lock", "join">>) = "ending" /\ Tail(<<"ending", "lock", "join", "close", "idle", "lock", "join">>) = <<"lock", "join", "close", "idle", "lock", "join">>
    OBVIOUS
  <2>2. Head(<<"lock", "join", "close", "idle", "lock", "join">>) = "lock" /\ <<"lock", "join", "close", "idle", "lock", "join">> # <<>>
    OBVIOUS
  <2>. QED
    BY <1>3, <2>1, <2>2 DEF Rests, Starting, ToConnect, ToEnd, ToIdle, Disarming, Creating, ToClose, Establishing,
       Arming, Joining
<1>4. CASE t = ToIdle
  <2>1. Head(<<"idle", "lock", "join">>) = "idle" /\ Tail(<<"idle", "lock", "join">>) = <<"lock", "join">>
    OBVIOUS
  <2>2. Head(<<"lock", "join">>) = "lock" /\ <<"lock", "join">> # <<>>
    OBVIOUS
  <2>. QED
    BY <1>4, <2>1, <2>2 DEF Rests, Starting, ToConnect, ToEnd, ToIdle, Disarming, Creating, ToClose, Establishing,
       Arming, Joining
<1>5. CASE t \in Disarming
  <2>1. Head(<<"lock", "join">>) = "lock" /\ Tail(<<"lock", "join">>) = <<"join">>
    OBVIOUS
  <2>1a. Head(<<"join">>) = "join" /\ <<"join">> # <<>>
    OBVIOUS
  <2>2. Head(<<"join">>) = "join" /\ Tail(<<"join">>) = <<>>
    OBVIOUS
  <2>. QED
    BY <1>5, <2>1, <2>2, <2>1a
    DEF Rests, Starting, ToConnect, ToEnd, ToIdle, Disarming, Creating, ToClose, Establishing,
       Arming, Joining
<1>6. CASE t \in Creating
  <2>1. Head(<<"lock", "join", "lock", "join", "create">>) = "lock" /\ Tail(<<"lock", "join", "lock", "join", "create">>) = <<"join", "lock", "join", "create">>
    OBVIOUS
  <2>1a. Head(<<"join", "lock", "join", "create">>) = "join" /\ <<"join", "lock", "join", "create">> # <<>>
    OBVIOUS
  <2>2. Head(<<"join", "lock", "join", "create">>) = "join" /\ Tail(<<"join", "lock", "join", "create">>) = <<"lock", "join", "create">>
    OBVIOUS
  <2>2a. Head(<<"lock", "join", "create">>) = "lock" /\ <<"lock", "join", "create">> # <<>>
    OBVIOUS
  <2>3. Head(<<"lock", "join", "create">>) = "lock" /\ Tail(<<"lock", "join", "create">>) = <<"join", "create">>
    OBVIOUS
  <2>3a. Head(<<"join", "create">>) = "join" /\ <<"join", "create">> # <<>>
    OBVIOUS
  <2>4. Head(<<"join", "create">>) = "join" /\ Tail(<<"join", "create">>) = <<"create">>
    OBVIOUS
  <2>4a. Head(<<"create">>) = "create" /\ <<"create">> # <<>>
    OBVIOUS
  <2>5. Head(<<"create">>) = "create" /\ Tail(<<"create">>) = <<>>
    OBVIOUS
  <2>. QED
    BY <1>6, <2>1, <2>2, <2>3, <2>4, <2>5, <2>1a, <2>2a, <2>3a, <2>4a
    DEF Rests, Starting, ToConnect, ToEnd, ToIdle, Disarming, Creating, ToClose, Establishing,
       Arming, Joining
<1>7. CASE t \in ToClose
  <2>1. Head(<<"lock", "join", "close", "idle", "lock", "join">>) = "lock" /\ Tail(<<"lock", "join", "close", "idle", "lock", "join">>) = <<"join", "close", "idle", "lock", "join">>
    OBVIOUS
  <2>1a. Head(<<"join", "close", "idle", "lock", "join">>) = "join" /\ <<"join", "close", "idle", "lock", "join">> # <<>>
    OBVIOUS
  <2>2. Head(<<"join", "close", "idle", "lock", "join">>) = "join" /\ Tail(<<"join", "close", "idle", "lock", "join">>) = <<"close", "idle", "lock", "join">>
    OBVIOUS
  <2>2a. Head(<<"close", "idle", "lock", "join">>) = "close" /\ <<"close", "idle", "lock", "join">> # <<>>
    OBVIOUS
  <2>3. Head(<<"close", "idle", "lock", "join">>) = "close" /\ Tail(<<"close", "idle", "lock", "join">>) = <<"idle", "lock", "join">>
    OBVIOUS
  <2>3a. Head(<<"idle", "lock", "join">>) = "idle" /\ <<"idle", "lock", "join">> # <<>>
    OBVIOUS
  <2>. QED
    BY <1>7, <2>1, <2>2, <2>3, <2>1a, <2>2a, <2>3a
    DEF Rests, Starting, ToConnect, ToEnd, ToIdle, Disarming, Creating, ToClose, Establishing,
       Arming, Joining
<1>8. CASE t \in Establishing
  <2>1. Head(<<"lock", "join", "established">>) = "lock" /\ Tail(<<"lock", "join", "established">>) = <<"join", "established">>
    OBVIOUS
  <2>1a. Head(<<"join", "established">>) = "join" /\ <<"join", "established">> # <<>>
    OBVIOUS
  <2>2. Head(<<"join", "established">>) = "join" /\ Tail(<<"join", "established">>) = <<"established">>
    OBVIOUS
  <2>2a. Head(<<"established">>) = "established" /\ <<"established">> # <<>>
    OBVIOUS
  <2>3. Head(<<"established">>) = "established" /\ Tail(<<"established">>) = <<>>
    OBVIOUS
  <2>. QED
    BY <1>8, <2>1, <2>2, <2>3, <2>1a, <2>2a
    DEF Rests, Starting, ToConnect, ToEnd, ToIdle, Disarming, Creating, ToClose, Establishing,
       Arming, Joining
<1>9. CASE t \in Arming
  <2>1. Head(<<"lock", "join_arm">>) = "lock" /\ Tail(<<"lock", "join_arm">>) = <<"join_arm">>
    OBVIOUS
  <2>1a. Head(<<"join_arm">>) = "join_arm" /\ <<"join_arm">> # <<>>
    OBVIOUS
  <2>2. Head(<<"join_arm">>) = "join_arm" /\ Tail(<<"join_arm">>) = <<>>
    OBVIOUS
  <2>. QED
    BY <1>9, <2>1, <2>2, <2>1a
    DEF Rests, Starting, ToConnect, ToEnd, ToIdle, Disarming, Creating, ToClose, Establishing,
       Arming, Joining
<1>. QED
  BY <1>1, <1>2, <1>3, <1>4, <1>5, <1>6, <1>7, <1>8, <1>9 DEF Rests

\* The concatenations of steps are sequences of steps.
LEMMA Cat ==
  ASSUME NEW s \in Seq(Steps), NEW t \in Seq(Steps)
  PROVE  /\ s \o t \in Seq(Steps)
         /\ Len(s \o t) = Len(s) + Len(t)
BY ConcatProperties

\* The tasks, step by step.
LEMMA TaskSteps ==
    /\ <<"start">> \o Disarm = Starting
    /\ <<"connecting">> \o Disarm \o Disarm \o <<"create">> = ToConnect
    /\ EndCall = ToEnd
    /\ Disarm \o <<"close">> \o Cleanup \in ToClose
    /\ Disarm \o <<"established">> \in Establishing
<1>1. /\ <<"lock", "join">> \in Seq(Steps) /\ <<"start">> \in Seq(Steps)
      /\ <<"connecting">> \in Seq(Steps) /\ <<"create">> \in Seq(Steps)
      /\ <<"ending">> \in Seq(Steps) /\ <<"close">> \in Seq(Steps)
      /\ <<"idle">> \in Seq(Steps) /\ <<"established">> \in Seq(Steps)
  BY DEF Steps
<1>2. <<"start">> \o Disarm = <<"start", "lock", "join">>
  <2>. DEFINE s == <<"start">> \o Disarm
  <2>1. s \in Seq(Steps) /\ Len(s) = 3
    BY Cat, <1>1 DEF Disarm
  <2>2. s[1] = "start" /\ s[2] = "lock" /\ s[3] = "join"
    BY DEF Disarm
  <2>. HIDE DEF s
  <2>3. s = <<"start", "lock", "join">>
    BY <2>1, <2>2
  <2>. QED
    BY <2>3 DEF s
<1>3. <<"connecting">> \o Disarm \o Disarm \o <<"create">> = <<"connecting", "lock", "join", "lock", "join", "create">>
  <2>. DEFINE s == <<"connecting">> \o Disarm \o Disarm \o <<"create">>
  <2>1. s \in Seq(Steps) /\ Len(s) = 6
    BY Cat, <1>1 DEF Disarm
  <2>2. /\ s[1] = "connecting" /\ s[2] = "lock" /\ s[3] = "join" /\ s[4] = "lock"
        /\ s[5] = "join" /\ s[6] = "create"
    BY DEF Disarm
  <2>. HIDE DEF s
  <2>3. s = <<"connecting", "lock", "join", "lock", "join", "create">>
    BY <2>1, <2>2
  <2>. QED
    BY <2>3 DEF s
<1>4. <<"ending">> \o Disarm \o <<"close">> \o Cleanup = <<"ending", "lock", "join", "close", "idle", "lock", "join">>
  <2>. DEFINE s == <<"ending">> \o Disarm \o <<"close">> \o Cleanup
  <2>1. s \in Seq(Steps) /\ Len(s) = 7
    BY Cat, <1>1 DEF Disarm, Cleanup
  <2>2. /\ s[1] = "ending" /\ s[2] = "lock" /\ s[3] = "join" /\ s[4] = "close"
        /\ s[5] = "idle" /\ s[6] = "lock" /\ s[7] = "join"
    BY DEF Disarm, Cleanup
  <2>. HIDE DEF s
  <2>3. s = <<"ending", "lock", "join", "close", "idle", "lock", "join">>
    BY <2>1, <2>2
  <2>. QED
    BY <2>3 DEF s
<1>5. Disarm \o <<"close">> \o Cleanup = <<"lock", "join", "close", "idle", "lock", "join">>
  <2>. DEFINE s == Disarm \o <<"close">> \o Cleanup
  <2>1. s \in Seq(Steps) /\ Len(s) = 6
    BY Cat, <1>1 DEF Disarm, Cleanup
  <2>2. /\ s[1] = "lock" /\ s[2] = "join" /\ s[3] = "close" /\ s[4] = "idle"
        /\ s[5] = "lock" /\ s[6] = "join"
    BY DEF Disarm, Cleanup
  <2>. HIDE DEF s
  <2>3. s = <<"lock", "join", "close", "idle", "lock", "join">>
    BY <2>1, <2>2
  <2>. QED
    BY <2>3 DEF s
<1>6. Disarm \o <<"established">> = <<"lock", "join", "established">>
  <2>. DEFINE s == Disarm \o <<"established">>
  <2>1. s \in Seq(Steps) /\ Len(s) = 3
    BY Cat, <1>1 DEF Disarm
  <2>2. s[1] = "lock" /\ s[2] = "join" /\ s[3] = "established"
    BY DEF Disarm
  <2>. HIDE DEF s
  <2>3. s = <<"lock", "join", "established">>
    BY <2>1, <2>2
  <2>. QED
    BY <2>3 DEF s
<1>. QED
  BY <1>2, <1>3, <1>4, <1>5, <1>6 DEF EndCall, Starting, ToConnect, ToEnd, ToClose, Establishing

\* What a task starts with.
LEMMA BodyRest ==
  ASSUME NEW task \in Tasks
  PROVE  /\ task.kind = "start" =>
               Body(task) = IF call = "Idle" /\ n < MaxCalls THEN Starting ELSE <<>>
         /\ task.kind = "connect" =>
               Body(task) = IF call = "Pending" THEN ToConnect ELSE <<>>
         /\ task.kind = "end" => Body(task) = ToEnd
         /\ task.kind = "remote_end" => Body(task) \in {<<>>} \cup ToClose
         /\ task.kind = "hangup" => Body(task) = IF call = "Connected" THEN ToEnd ELSE <<>>
         /\ task.kind = "connected" => Body(task) \in Establishing
         /\ task.kind \in IceStates \ {"connected"} =>
               \/ Body(task) \in Disarming
               \/ Body(task) \in Arming /\ call = "Connected"
<1>1. CASE task.kind = "start"
  BY <1>1, TaskSteps DEF Body, IceStates, Bad
<1>2. CASE task.kind = "connect"
  BY <1>2, TaskSteps DEF Body, IceStates, Bad
<1>3. CASE task.kind \in {"end", "hangup"}
  BY <1>3, TaskSteps DEF Body, IceStates, Bad
<1>4. CASE task.kind = "remote_end"
  BY <1>4, TaskSteps DEF Body, IceStates, Bad
<1>5. CASE task.kind = "connected"
  BY <1>5, TaskSteps DEF Body, OnIceConnectionStateChanged, IceStates, Bad
<1>6. CASE task.kind \in IceStates \ {"connected"}
  <2>1. Body(task) = OnIceConnectionStateChanged(task.kind)
    BY <1>6 DEF Body, IceStates, Bad
  <2>2. Disarm \in Disarming /\ Arm \in Arming
    BY DEF Disarm, Arm, Disarming, Arming
  <2>. QED
    BY <1>6, <2>1, <2>2 DEF OnIceConnectionStateChanged, IceStates, Bad
<1>. QED
  BY <1>1, <1>2, <1>3, <1>4, <1>5, <1>6 DEF Tasks, Kinds

-----------------------------------------------------------------------------
(* Preservation. *)

\* Every step preserves the types; RestStep gives the rest of the task its type.
LEMMA NextType ==
  ASSUME TypeOK, StepInv, [Next]_vars
  PROVE  TypeOK'
<1>. USE BoundsAssumption
<1>1. todo # <<>> => Tail(todo) \in Seq(Steps)
  BY RestStep, RestsAreSteps DEF StepInv
<1>2. \A kind \in Kinds, c \in 0..MaxCalls : Task(kind, c) \in Tasks
  BY DEF Task, Tasks
<1>3. CASE TakeTask
  <2>1. Head(queue) \in Tasks /\ Tail(queue) \in Seq(Tasks)
    BY <1>3, HeadTailProperties DEF TakeTask, TypeOK
  <2>2. Body(Head(queue)) \in Rests
    BY <2>1, BodyRest DEF Rests, Tasks, Kinds
  <2>3. todo' \in Seq(Steps)
    BY <1>3, <2>2, RestsAreSteps DEF TakeTask
  <2>4. seen' \in IceStates
    BY <1>3 DEF TakeTask, TypeOK
  <2>. QED
    BY <1>3, <2>1, <2>3, <2>4 DEF TakeTask, manager, engine, wd, TypeOK
<1>4. CASE StartCall
  <2>1. n < MaxCalls
    BY <1>4, RestStep DEF StartCall, Step, StepInv
  <2>. QED
    BY <1>1, <1>4, <2>1 DEF StartCall, Step, engine, wd, TypeOK, CallStates, IceStates
<1>5. CASE Connecting
  BY <1>1, <1>5 DEF Connecting, Step, engine, wd, TypeOK, CallStates
<1>6. CASE CreatePeerConnection
  BY <1>1, <1>6 DEF CreatePeerConnection, Step, engine, manager, wd, TypeOK, IceStates
<1>7. CASE Established
  BY <1>1, <1>7 DEF Established, Step, engine, wd, TypeOK, CallStates
<1>8. CASE Ending
  <2>1. todo' \in Seq(Steps)
    BY <1>1, <1>8, EmptySeq DEF Ending
  <2>2. call' \in CallStates
    BY <1>8 DEF Ending, TypeOK, CallStates
  <2>. QED
    BY <1>8, <2>1, <2>2 DEF Ending, engine, wd, TypeOK
<1>9. CASE ClosePeerConnection
  BY <1>1, <1>9 DEF ClosePeerConnection, Step, manager, wd, TypeOK, IceStates
<1>10. CASE Idle
  BY <1>1, <1>10 DEF Idle, Step, engine, wd, TypeOK, CallStates
<1>11. CASE IoLock
  BY <1>1, <1>11 DEF IoLock, Step, LockAndStop, manager, engine, TypeOK
<1>12. CASE IoJoin
  BY <1>1, <1>12 DEF IoJoin, Step, Join, manager, engine, wd, TypeOK
<1>13. CASE IoArm
  BY <1>1, <1>13 DEF IoArm, Step, Join, manager, engine, TypeOK
<1>14. CASE WatchdogExpire
  BY <1>14 DEF WatchdogExpire, manager, engine, TypeOK
<1>15. CASE WatchdogFire
  <2>1. queue' \in Seq(Tasks)
    BY <1>2, <1>15 DEF WatchdogFire, Post, TypeOK, Kinds
  <2>. QED
    BY <1>15, <2>1 DEF WatchdogFire, manager, engine, TypeOK
<1>16. CASE ShutdownStart
  BY <1>16 DEF ShutdownStart, manager, engine, wd, TypeOK
<1>17. CASE ShutdownLock
  BY <1>17 DEF ShutdownLock, LockAndStop, manager, engine, TypeOK
<1>18. CASE ShutdownJoin
  BY <1>18 DEF ShutdownJoin, Join, manager, wd, TypeOK, IceStates
<1>19. CASE Request
  <2>1. queue' \in Seq(Tasks)
    BY <1>2, <1>19 DEF Request, TypeOK, Kinds
  <2>. QED
    BY <1>19, <2>1 DEF Request, manager, engine, wd, TypeOK
<1>20. CASE IceChange
  <2>1. ice' \in IceStates
    BY <1>20 DEF IceChange, IceNext, TypeOK, IceStates, Bad
  <2>2. queue' \in Seq(Tasks)
    <3>1. Task(ice', pc) \in Tasks
      BY <1>2, <2>1 DEF TypeOK, Kinds
    <3>. QED
      BY <1>20, <3>1 DEF IceChange, Post, TypeOK
  <2>. QED
    BY <1>20, <2>1, <2>2 DEF IceChange, manager, wd, TypeOK
<1>21. CASE UNCHANGED vars
  BY <1>21 DEF vars, manager, engine, wd, TypeOK
<1>. QED
  BY <1>3, <1>4, <1>5, <1>6, <1>7, <1>8, <1>9, <1>10, <1>11, <1>12, <1>13, <1>14, <1>15,
     <1>16, <1>17, <1>18, <1>19, <1>20, <1>21 DEF Next, Io, Watchdog, Shutdown

\* What other threads do while the I/O thread is in the middle of a task.
Outside ==
    WatchdogExpire \/ WatchdogFire \/ ShutdownStart \/ Shutdown \/ Request \/ IceChange
        \/ UNCHANGED vars

\* Nobody else changes the task under way, the call or what is known of it.
LEMMA OutsideChangesNothing ==
  ASSUME Outside
  PROVE  UNCHANGED <<todo, cur, call, n, misled>>
BY DEF Outside, WatchdogExpire, WatchdogFire, ShutdownStart, Shutdown, ShutdownLock,
       ShutdownJoin, Request, IceChange, vars, manager

\* Every step leaves a rest of a task, in the state of the call it is made for.
LEMMA NextStep ==
  ASSUME TypeOK, StepInv, [Next]_vars
  PROVE  StepInv'
<1>. USE RestStep, RestsDiffer DEF StepInv, RestSets
<1>1. CASE TakeTask
  <2>1. Head(queue) \in Tasks
    BY <1>1, HeadTailProperties DEF TakeTask, TypeOK
  <2>2. Head(queue).kind \in Kinds
    BY <2>1 DEF Tasks
  <2>3. todo' = <<>> \/ todo' = Body(Head(queue))
    BY <1>1 DEF TakeTask
  <2>4. UNCHANGED <<call, n>>
    BY <1>1 DEF TakeTask, manager
  <2>5. CASE todo' = <<>>
    BY <2>5 DEF Rests
  <2>6. CASE todo' = Body(Head(queue))
    <3>1. \/ todo' \in {<<>>, ToEnd} \cup ToClose \cup Establishing \cup Disarming
          \/ todo' = Starting /\ call = "Idle" /\ n < MaxCalls
          \/ todo' = ToConnect /\ call = "Pending"
          \/ todo' \in Arming /\ call = "Connected"
      BY <2>1, <2>2, <2>6, BodyRest DEF Kinds
    <3>. QED
      BY <2>4, <3>1 DEF Rests
  <2>. QED
    BY <2>3, <2>5, <2>6
<1>2. CASE StartCall
  BY <1>2 DEF StartCall, Step
<1>3. CASE Connecting
  BY <1>3 DEF Connecting, Step
<1>4. CASE CreatePeerConnection
  BY <1>4 DEF CreatePeerConnection, Step
<1>5. CASE Established
  BY <1>5 DEF Established, Step
<1>6. CASE Ending
  <2>1. todo \in Rests /\ todo # <<>> /\ Head(todo) = "ending" /\ todo' \in {<<>>, Tail(todo)}
    BY <1>6 DEF Ending
  <2>2. todo' \in {<<>>} \cup ToClose
    BY <2>1
  <2>3. todo' \in Rests
    BY <2>2 DEF Rests
  <2>. QED
    BY <2>2, <2>3
<1>7. CASE ClosePeerConnection
  BY <1>7 DEF ClosePeerConnection, Step
<1>8. CASE Idle
  BY <1>8 DEF Idle, Step
<1>9. CASE IoLock \/ IoJoin
  BY <1>9 DEF IoLock, IoJoin, Step, manager
<1>10. CASE IoArm
  BY <1>10 DEF IoArm, Step
<1>11. CASE Outside
  BY <1>11, OutsideChangesNothing
<1>. QED
  BY <1>1, <1>2, <1>3, <1>4, <1>5, <1>6, <1>7, <1>8, <1>9, <1>10, <1>11
  DEF Next, Io, Watchdog, Outside

\* The connection is made in a connecting call and closed before the call is idle.
LEMMA NextConnection ==
  ASSUME TypeOK, StepInv, ConnectionInv, [Next]_vars
  PROVE  ConnectionInv'
<1>. USE RestStep, RestsDiffer DEF StepInv, ConnectionInv, RestSets
<1>1. CASE TakeTask
  <2>1. Head(queue) \in Tasks
    BY <1>1, HeadTailProperties DEF TakeTask, TypeOK
  <2>2. todo' # ToIdle
    BY <1>1, <2>1, BodyRest DEF TakeTask, Tasks, Kinds
  <2>. QED
    BY <1>1, <2>2 DEF TakeTask, manager, engine
<1>2. CASE StartCall
  BY <1>2 DEF StartCall, Step, engine
<1>3. CASE Connecting
  BY <1>3 DEF Connecting, Step, engine
<1>4. CASE CreatePeerConnection
  BY <1>4 DEF CreatePeerConnection, Step, engine, manager
<1>5. CASE Established
  BY <1>5 DEF Established, Step, engine
<1>6. CASE Ending
  BY <1>6 DEF Ending, engine
<1>7. CASE ClosePeerConnection
  BY <1>7 DEF ClosePeerConnection, Step, manager
<1>8. CASE Idle
  BY <1>8 DEF Idle, Step, engine
<1>9. CASE IoLock \/ IoJoin \/ IoArm
  BY <1>9 DEF IoLock, IoJoin, IoArm, Step, manager, engine
<1>10. CASE Outside
  <2>1. pc' \in {pc, 0}
    BY <1>10 DEF Outside, WatchdogExpire, WatchdogFire, ShutdownStart, Shutdown,
                 ShutdownLock, ShutdownJoin, Request, IceChange, vars, engine
  <2>. QED
    BY <1>10, <2>1, OutsideChangesNothing
<1>. QED
  BY <1>1, <1>2, <1>3, <1>4, <1>5, <1>6, <1>7, <1>8, <1>9, <1>10
  DEF Next, Io, Watchdog, Outside

\* A thread is joined before the mutex that stopped it is released.
LEMMA NextNoOrphan ==
  ASSUME TypeOK, NoOrphanWatchdog, [Next]_vars
  PROVE  NoOrphanWatchdog'
<1>1. CASE IoLock \/ ShutdownLock
  BY <1>1 DEF IoLock, ShutdownLock, LockAndStop, NoOrphanWatchdog
<1>2. CASE IoJoin \/ ShutdownJoin
  BY <1>2 DEF IoJoin, ShutdownJoin, Join, wd, NoOrphanWatchdog
<1>3. CASE IoArm
  BY <1>3 DEF IoArm, NoOrphanWatchdog
<1>4. CASE Watchdog
  BY <1>4 DEF Watchdog, WatchdogExpire, WatchdogFire, NoOrphanWatchdog
<1>5. CASE UNCHANGED <<mutex, wd>>
  BY <1>5 DEF wd, NoOrphanWatchdog
<1>. QED
  BY <1>1, <1>2, <1>3, <1>4, <1>5
  DEF Next, Io, TakeTask, StartCall, Connecting, CreatePeerConnection, Established, Ending,
      ClosePeerConnection, Idle, ShutdownStart, Shutdown, Request, IceChange, vars

\* A watchdog is armed in a connected call, and joined before that changes.
LEMMA NextWatch ==
  ASSUME TypeOK, StepInv, WatchInv, [Next]_vars
  PROVE  WatchInv'
<1>. USE RestStep, RestsDiffer DEF StepInv, WatchInv, RestSets, Joining
<1>1. CASE TakeTask
  BY <1>1 DEF TakeTask, manager, wd
<1>2. CASE StartCall
  BY <1>2 DEF StartCall, Step, wd
<1>3. CASE Connecting
  BY <1>3 DEF Connecting, Step, wd
<1>4. CASE CreatePeerConnection
  BY <1>4 DEF CreatePeerConnection, Step, manager, wd
<1>5. CASE Established
  BY <1>5 DEF Established, Step, wd
<1>6. CASE Ending
  BY <1>6 DEF Ending, wd
<1>7. CASE ClosePeerConnection
  BY <1>7 DEF ClosePeerConnection, Step, manager, wd
<1>8. CASE Idle
  BY <1>8 DEF Idle, Step, wd
<1>9. CASE IoLock
  BY <1>9 DEF IoLock, Step, LockAndStop, manager
<1>10. CASE IoJoin
  BY <1>10 DEF IoJoin, Step, Join, manager, wd
<1>11. CASE IoArm
  BY <1>11 DEF IoArm, Step, manager
<1>12. CASE Outside
  <2>1. wd_call' = wd_call /\ (wd_at' # "none" => wd_at # "none")
    BY <1>12 DEF Outside, WatchdogExpire, WatchdogFire, ShutdownStart, Shutdown,
                 ShutdownLock, LockAndStop, ShutdownJoin, Request, IceChange, vars, wd
  <2>. QED
    BY <1>12, <2>1, OutsideChangesNothing
<1>. QED
  BY <1>1, <1>2, <1>3, <1>4, <1>5, <1>6, <1>7, <1>8, <1>9, <1>10, <1>11, <1>12
  DEF Next, Io, Watchdog, Outside

\* A task that is posted is made for the latest call.
LEMMA PostedForLatest ==
  ASSUME TypeOK, ConnectionInv, WatchInv, Outside
  PROVE  queue' = queue \/ \E x : x.call = n /\ queue' = Append(queue, x)
<1>1. \A kind : Task(kind, n).call = n
  BY DEF Task
<1>2. CASE WatchdogFire
  BY <1>1, <1>2 DEF WatchdogFire, Post, WatchInv
<1>3. CASE Request
  BY <1>1, <1>3 DEF Request
<1>4. CASE IceChange
  BY <1>1, <1>4 DEF IceChange, Post, ConnectionInv
<1>5. CASE WatchdogExpire \/ ShutdownStart \/ Shutdown \/ UNCHANGED vars
  BY <1>5 DEF WatchdogExpire, ShutdownStart, Shutdown, ShutdownLock, ShutdownJoin, vars
<1>. QED
  BY <1>2, <1>3, <1>4, <1>5 DEF Outside

\* The parts of QueueInv that speak of the queue alone.
NotAhead == \A i \in 1..Len(queue) : queue[i].call <= n
InOrder ==
    \A i, j \in 1..Len(queue) :
        (i < j /\ queue[i] = Task("connect", n) /\ queue[j].kind \in Events)
            => queue[j].call = n

\* Posting keeps the order.
LEMMA PostKeepsOrder ==
  ASSUME TypeOK, NEW x, x.call = n, queue' = Append(queue, x), n' = n
  PROVE  /\ NotAhead => NotAhead'
         /\ InOrder => InOrder'
         /\ OwnEvents => OwnEvents'
<1>1. /\ Len(queue') = Len(queue) + 1 /\ Len(queue) \in Nat
      /\ \A i \in 1..Len(queue) : queue'[i] = queue[i]
      /\ queue'[Len(queue) + 1] = x
  BY DEF TypeOK
<1>2. \A i \in 1..Len(queue') : i \in 1..Len(queue) \/ queue'[i] = x
  BY <1>1
<1>3. n \in Nat
  BY BoundsAssumption DEF TypeOK
<1>4. NotAhead => NotAhead'
  BY <1>1, <1>2, <1>3 DEF NotAhead
<1>5. OwnEvents => OwnEvents'
  BY <1>1, <1>2 DEF OwnEvents
<1>6. ASSUME InOrder, NEW i \in 1..Len(queue'), NEW j \in 1..Len(queue'),
             i < j, queue'[i] = Task("connect", n), queue'[j].kind \in Events
      PROVE  queue'[j].call = n
  <2>1. CASE j = Len(queue) + 1
    BY <1>1, <2>1
  <2>2. CASE j \in 1..Len(queue)
    <3>1. i \in 1..Len(queue)
      BY <1>1, <1>6, <2>2
    <3>. QED
      BY <1>1, <1>6, <2>2, <3>1 DEF InOrder
  <2>. QED
    BY <1>1, <2>1, <2>2
<1>. QED
  BY <1>4, <1>5, <1>6 DEF InOrder, Events

\* So does taking the first task, which leaves only what came behind it.
LEMMA TakeKeepsOrder ==
  ASSUME TypeOK, queue # <<>>, queue' = Tail(queue), n' = n
  PROVE  /\ NotAhead => NotAhead'
         /\ InOrder => InOrder'
         /\ OwnEvents => OwnEvents' /\ (Head(queue).kind \in Events => Head(queue).call = n)
         /\ InOrder /\ Head(queue) = Task("connect", n) => OwnEvents'
<1>1. /\ Len(queue) \in Nat /\ Len(queue) > 0
      /\ Len(queue') = Len(queue) - 1
      /\ Head(queue) = queue[1]
      /\ \A i \in 1..Len(queue') : queue'[i] = queue[i + 1]
  BY DEF TypeOK
<1>2. \A i \in 1..Len(queue') : i + 1 \in 1..Len(queue) /\ 1 < i + 1
  BY <1>1
<1>3. 1 \in 1..Len(queue)
  BY <1>1
<1>4. NotAhead => NotAhead'
  BY <1>1, <1>2 DEF NotAhead
<1>5. OwnEvents => OwnEvents' /\ (Head(queue).kind \in Events => Head(queue).call = n)
  BY <1>1, <1>2, <1>3 DEF OwnEvents
<1>6. InOrder => InOrder'
  <2>. SUFFICES ASSUME InOrder, NEW i \in 1..Len(queue'), NEW j \in 1..Len(queue'),
                       i < j, queue'[i] = Task("connect", n), queue'[j].kind \in Events
                PROVE  queue'[j].call = n
    BY DEF InOrder, Task, Events
  <2>1. i + 1 < j + 1
    OBVIOUS
  <2>. QED
    BY <1>1, <1>2, <2>1 DEF InOrder
<1>7. InOrder /\ Head(queue) = Task("connect", n) => OwnEvents'
  BY <1>1, <1>2, <1>3 DEF InOrder, OwnEvents
<1>. QED
  BY <1>4, <1>5, <1>6, <1>7

\* The queue and the task that is under way.
LEMMA NextQueue ==
  ASSUME TypeOK, StepInv, ConnectionInv, WatchInv, QueueInv, [Next]_vars
  PROVE  QueueInv'
<1>. DEFINE UnderWay ==
        /\ todo = ToConnect /\ cur.call = n => OwnEvents
        /\ ~misled /\ call \in {"Connecting", "Connected"} => OwnEvents
        /\ ~misled /\ call = "Connecting" /\ todo \in Establishing => cur.call = n
        /\ ~misled /\ todo = ToEnd /\ cur.kind = "hangup" => cur.call = n
<1>1. QueueInv <=> NotAhead /\ InOrder /\ UnderWay
  BY DEF QueueInv, NotAhead, InOrder
<1>2. QueueInv' <=> (NotAhead /\ InOrder /\ UnderWay)'
  BY DEF QueueInv, NotAhead, InOrder
<1>3. CASE TakeTask
  <2>1. /\ Head(queue) \in Tasks /\ queue # <<>> /\ queue' = Tail(queue)
        /\ cur' = Head(queue) /\ UNCHANGED <<call, n, misled>>
        /\ todo' = <<>> \/ todo' = Body(Head(queue))
    BY <1>3, HeadTailProperties DEF TakeTask, TypeOK, manager
  <2>2. (NotAhead /\ InOrder)'
    BY <1>1, <2>1, TakeKeepsOrder
  <2>3. todo' = ToConnect /\ cur'.call = n => OwnEvents'
    <3>1. todo' = ToConnect => Head(queue).kind = "connect"
      BY <2>1, BodyRest, RestsDiffer DEF RestSets, Tasks, Kinds
    <3>2. Head(queue).kind = "connect" /\ Head(queue).call = n => Head(queue) = Task("connect", n)
      BY <2>1 DEF Task, Tasks
    <3>. QED
      BY <1>1, <2>1, <3>1, <3>2, TakeKeepsOrder
  <2>4. ~misled /\ call \in {"Connecting", "Connected"} =>
           OwnEvents' /\ (Head(queue).kind \in Events => Head(queue).call = n)
    BY <1>1, <2>1, TakeKeepsOrder
  <2>5. todo' \in Establishing => Head(queue).kind \in Events
    BY <2>1, BodyRest, RestsDiffer DEF RestSets, Tasks, Kinds, Events
  <2>6. todo' = ToEnd /\ Head(queue).kind = "hangup" => call = "Connected"
    BY <2>1, BodyRest, RestsDiffer
  <2>. QED
    BY <1>2, <2>1, <2>2, <2>3, <2>4, <2>5, <2>6 DEF Events
<1>4. CASE Outside
  <2>1. UNCHANGED <<todo, cur, call, n, misled>>
    BY <1>4, OutsideChangesNothing
  <2>2. /\ NotAhead => NotAhead'
        /\ InOrder => InOrder'
        /\ OwnEvents => OwnEvents'
    <3>1. CASE queue' = queue
      BY <2>1, <3>1 DEF NotAhead, InOrder, OwnEvents
    <3>2. CASE queue' # queue
      <4>1. PICK x : x.call = n /\ queue' = Append(queue, x)
        BY <1>4, <3>2, PostedForLatest
      <4>. QED
        BY <2>1, <4>1, PostKeepsOrder
    <3>. QED
      BY <3>1, <3>2
  <2>. QED
    BY <1>1, <1>2, <2>1, <2>2
<1>5. ASSUME UNCHANGED <<queue, n>>
      PROVE  (NotAhead' <=> NotAhead) /\ (InOrder' <=> InOrder) /\ (OwnEvents' <=> OwnEvents)
  BY <1>5 DEF NotAhead, InOrder, OwnEvents
<1>6. CASE StartCall
  <2>1. /\ UNCHANGED <<queue, cur>> /\ n' = n + 1 /\ call' = "Pending"
        /\ todo' \in Disarming
    BY <1>6, RestStep DEF StartCall, Step, StepInv
  <2>2. n \in Nat /\ \A i \in 1..Len(queue) : queue[i].call \in Nat
    <3>1. \A i \in 1..Len(queue) : queue[i] \in Tasks
      BY DEF TypeOK
    <3>2. \A x \in Tasks : x.call \in Nat
      BY BoundsAssumption DEF Tasks
    <3>. QED
      BY <3>1, <3>2, BoundsAssumption DEF TypeOK
  <2>3. \A i \in 1..Len(queue) : queue[i].call <= n
    BY <1>1 DEF NotAhead
  <2>4. NotAhead' /\ \A i \in 1..Len(queue) : queue[i] # Task("connect", n + 1)
    BY <2>1, <2>2, <2>3 DEF NotAhead, Task
  <2>5. InOrder'
    BY <2>1, <2>4 DEF InOrder
  <2>. QED
    BY <1>2, <2>1, <2>4, <2>5, RestsDiffer DEF RestSets
<1>7. CASE Connecting
  <2>1. /\ UNCHANGED <<queue, cur, n>> /\ todo = ToConnect /\ todo' \in Creating
        /\ ~misled' => cur.call = n
    BY <1>7, RestStep DEF Connecting, Step, StepInv
  <2>. QED
    BY <1>1, <1>2, <1>5, <2>1, RestsDiffer DEF RestSets
<1>8. CASE Established
  <2>1. /\ UNCHANGED <<queue, cur, n, misled>> /\ todo' = <<>>
        /\ call' = call \/ call = "Connecting"
    BY <1>8, RestStep DEF Established, Step, StepInv
  <2>. QED
    BY <1>1, <1>2, <1>5, <2>1, RestsDiffer DEF RestSets
<1>9. CASE Ending \/ Idle
  <2>1. /\ UNCHANGED <<queue, cur, n, misled>> /\ todo' \in {<<>>} \cup ToClose \cup Disarming
        /\ call' = call \/ call' \in {"Ending", "Idle"}
    BY <1>9, RestStep DEF Ending, Idle, Step, StepInv
  <2>. QED
    BY <1>1, <1>2, <1>5, <2>1, RestsDiffer DEF RestSets
<1>10. CASE CreatePeerConnection \/ ClosePeerConnection \/ IoLock \/ IoJoin \/ IoArm
  <2>1. UNCHANGED <<queue, cur, n, call, misled>>
    BY <1>10 DEF CreatePeerConnection, ClosePeerConnection, IoLock, IoJoin, IoArm, manager
  <2>2. /\ todo' # ToConnect /\ todo' # ToEnd
        /\ todo' \in Establishing => todo \in Establishing
    BY <1>10, RestStep, RestsDiffer
    DEF CreatePeerConnection, ClosePeerConnection, IoLock, IoJoin, IoArm, Step, StepInv,
        RestSets
  <2>. QED
    BY <1>1, <1>2, <1>5, <2>1, <2>2
<1>. QED
  BY <1>3, <1>4, <1>6, <1>7, <1>8, <1>9, <1>10 DEF Next, Io, Watchdog, Outside

-----------------------------------------------------------------------------
\* The inductive invariant: no watchdog is left behind by a call, and the
\* queue holds no events of earlier calls once a call is connecting.
THEOREM Invariance == Spec => []IInv
<1>1. Init => IInv
  <2>. SUFFICES ASSUME Init PROVE IInv
    OBVIOUS
  <2>1. TypeOK
    <3>1. queue \in Seq(Tasks)
      BY EmptySeq DEF Init
    <3>2. todo \in Seq(Steps)
      BY EmptySeq DEF Init
    <3>3. "start" \in Kinds /\ 0 \in 0..MaxCalls
      BY BoundsAssumption DEF Kinds
    <3>4. cur \in Tasks
      BY <3>3 DEF Init, Task, Tasks
    <3>5. /\ call \in CallStates /\ ice \in IceStates /\ seen \in IceStates
          /\ n \in 0..MaxCalls /\ pc \in 0..MaxCalls /\ wd_call \in 0..MaxCalls
      BY <3>3 DEF Init, CallStates, IceStates
    <3>6. /\ mutex = "free" /\ wd_at = "none" /\ ui = "running"
          /\ wd_armed = FALSE /\ wd_stop = FALSE /\ down = FALSE /\ misled = FALSE
      BY DEF Init
    <3>. QED
      BY <3>1, <3>2, <3>4, <3>5, <3>6 DEF TypeOK
  <2>2. StepInv /\ ConnectionInv /\ WatchInv /\ NoOrphanWatchdog
    BY RestsDiffer DEF Init, StepInv, ConnectionInv, WatchInv, NoOrphanWatchdog, Rests, RestSets
  <2>3. QueueInv
    BY RestsDiffer DEF Init, QueueInv, OwnEvents, RestSets
  <2>. QED
    BY <2>1, <2>2, <2>3 DEF IInv
<1>2. IInv /\ [Next]_vars => IInv'
  BY NextType, NextStep, NextConnection, NextNoOrphan, NextWatch, NextQueue DEF IInv
<1>. QED
  BY <1>1, <1>2, PTL DEF Spec

\* Every variable keeps its type, for any number of calls and queued tasks.
THEOREM TypeCorrect == Spec => []TypeOK
<1>1. IInv => TypeOK
  BY DEF IInv
<1>. QED
  BY <1>1, Invariance, PTL

(* Arm, Disarm and Shutdown join inside the mutex, so whenever the mutex   *)
(* is free a watchdog thread that is alive is the one armed last.          *)
THEOREM NoOrphan == Spec => []NoOrphanWatchdog
<1>1. IInv => NoOrphanWatchdog
  BY DEF IInv
<1>. QED
  BY <1>1, Invariance, PTL

(* Between two tasks of the I/O thread a watchdog is alive only for the    *)
(* call that is connected: every way out of that state disarms it.         *)
THEOREM WatchesCall == Spec => []WatchdogWatchesCall
<1>1. IInv => WatchdogWatchesCall
  BY DEF IInv, WatchInv, WatchdogWatchesCall
<1>. QED
  BY <1>1, Invariance, PTL

(* The tasks of OnIceConnectionStateChanged and of the watchdog's timeout  *)
(* carry no identifier, and still act on their own call only: the order of *)
(* the queue keeps them in it, unless an acceptance came too late for its  *)
(* own call and connected the next one.                                    *)
THEOREM OwnCall == Spec => EventsActOnOwnCall
<1>1. IInv /\ [Next]_vars =>
        [~misled =>
           /\ (call = "Connecting" /\ call' = "Connected") => cur.call = n
           /\ (cur.kind = "hangup" /\ call' = "Ending") => cur.call = n]_call
  <2>. SUFFICES ASSUME IInv, [Next]_vars, call' # call, ~misled
                PROVE  /\ (call = "Connecting" /\ call' = "Connected") => cur.call = n
                       /\ (cur.kind = "hangup" /\ call' = "Ending") => cur.call = n
    OBVIOUS
  <2>1. CASE Established
    BY <2>1, RestStep DEF Established, Step, IInv, StepInv, QueueInv
  <2>2. CASE Ending
    BY <2>2, RestStep DEF Ending, IInv, StepInv, QueueInv
  <2>3. CASE StartCall \/ Connecting \/ Idle
    BY <2>3 DEF StartCall, Connecting, Idle
  <2>4. CASE Outside
    BY <2>4, OutsideChangesNothing
  <2>5. CASE TakeTask \/ CreatePeerConnection \/ ClosePeerConnection \/ IoLock \/ IoJoin \/ IoArm
    BY <2>5 DEF TakeTask, CreatePeerConnection, ClosePeerConnection, IoLock, IoJoin, IoArm, manager
  <2>. QED
    BY <2>1, <2>2, <2>3, <2>4, <2>5 DEF Next, Io, Watchdog, Outside
<1>. QED
  BY <1>1, Invariance, PTL DEF Spec, EventsActOnOwnCall
=============================================================================
