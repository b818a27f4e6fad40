---------------------------- MODULE SignalClient ----------------------------
(***************************************************************************)
(* The websocket client of src/signalclient.cc: connecting, reading,       *)
(* writing and reconnecting on the signaling I/O thread, as driven by the  *)
(* commands that other threads post to it.                                 *)
(*                                                                         *)
(* CloseTransport and RecreateTransport replace resolver, websocket and    *)
(* reconnect timer together: the transport.  An asynchronous operation is  *)
(* pending until it completes; its handler then waits in the queue of the  *)
(* io_context behind whatever was posted before.  Closing the transport    *)
(* aborts what is pending, but a success or a timer expiry that is already *)
(* in the queue stays there: overtaken records it.  A handler does not     *)
(* know the transport of its operation (old: it is gone) and acts on the   *)
(* current one.                                                            *)
(***************************************************************************)
EXTENDS Naturals, Sequences, FiniteSets

CONSTANTS
    MaxAttempts,  \* kMaxReconnectAttempts
    MaxTasks,     \* bound on the tasks in the queue when another is posted
    MaxQueue      \* bound on write_queue when another message is posted

ASSUME BoundsAssumption ==
    MaxAttempts \in Nat /\ MaxTasks \in Nat /\ MaxQueue \in Nat

VARIABLES
    manual,      \* manual_disconnect_
    attempts,    \* reconnect_attempts_
    connected,   \* is_connected_
    url_ok,      \* the configured URL parses
    queue,       \* tasks and handlers waiting for the I/O thread
    present,     \* there is a transport
    open,        \* its websocket handshake is done
    pending,     \* the operations in progress on it
    armed,       \* its reconnect timer is running
    wq,          \* length of write_queue
    failed,      \* history: an operation on the transport failed by itself
    spent,       \* history: one failed when all attempts were used up
    ub,          \* a null websocket was used, or an operation started twice
    overtaken,   \* history: a success was overtaken by CloseTransport
    stray        \* history: a reconnect was armed for a transport that works

state == <<manual, attempts, connected>>
transport == <<present, open, pending, armed, wq, failed, spent>>
history == <<ub, overtaken, stray>>
notes == <<failed, spent, overtaken, stray>>
vars == <<state, url_ok, queue, transport, history>>

Commands == {"connect", "disconnect", "send"}
Kinds == {"resolve", "tcp", "handshake", "read", "write"}
Item(what, ok) == [what |-> what, ok |-> ok, old |-> FALSE]
Items == [what : Commands \cup Kinds \cup {"timer"}, ok : BOOLEAN, old : BOOLEAN]
Waiting(what) == \E i \in DOMAIN queue : queue[i].what = what

\* main.cc connects as soon as the client exists.
Init ==
    /\ manual = FALSE
    /\ attempts = 0
    /\ connected = FALSE
    /\ url_ok \in BOOLEAN
    /\ queue = <<Item("connect", TRUE)>>
    /\ present = FALSE
    /\ open = FALSE
    /\ pending = {}
    /\ armed = FALSE
    /\ wq = 0
    /\ failed = FALSE
    /\ spent = FALSE
    /\ ub = FALSE
    /\ overtaken = FALSE
    /\ stray = FALSE

-----------------------------------------------------------------------------
(* Other threads. *)

Tasks == {i \in DOMAIN queue : queue[i].what \in Commands}

Post(command) ==
    /\ Cardinality(Tasks) < MaxTasks
    /\ queue' = Append(queue, Item(command, TRUE))

Connect ==
    /\ Post("connect")
    /\ manual' = FALSE
    /\ attempts' = 0
    /\ UNCHANGED <<connected, url_ok, transport, history>>

Disconnect ==
    /\ Post("disconnect")
    /\ manual' = TRUE
    /\ attempts' = 0
    /\ UNCHANGED <<connected, url_ok, transport, history>>

\* The Send methods and RequestClientList, all of which end in
\* QueueJsonMessage; most of their callers do not look at IsConnected.
Send ==
    /\ Post("send")
    /\ wq < MaxQueue
    /\ UNCHANGED <<state, url_ok, transport, history>>

-----------------------------------------------------------------------------
(* What handlers do.  They have taken themselves off the queue and left    *)
(* rest.                                                                   *)

\* The next item is of this kind and outcome.
Take(what, ok) ==
    /\ queue # <<>>
    /\ Head(queue).what = what
    /\ Head(queue).ok = ok

\* Mutant: a resolution in progress is not cancelled.
AfterClose_ResolverKept(rest) ==
    LET mark == [i \in DOMAIN rest |->
                    [rest[i] EXCEPT !.old = rest[i].what \in Kinds]]
    IN
    IF "resolve" \in pending
    THEN Append(mark, [Item("resolve", TRUE) EXCEPT !.old = TRUE])
    ELSE mark

\* The queue once the transport is closed: what was pending completes with an
\* error.  The order of those errors does not matter, their handlers agree.
AfterClose(rest) ==
    LET mark == [i \in DOMAIN rest |->
                    [rest[i] EXCEPT !.old = rest[i].what \in Kinds]]
        aborted(kind) == IF kind \in pending
                         THEN <<[Item(kind, FALSE) EXCEPT !.old = TRUE]>> ELSE <<>>
    IN  mark \o aborted("resolve") \o aborted("tcp") \o aborted("handshake")
             \o aborted("read") \o aborted("write")

Overtakes(rest) ==
    \E i \in DOMAIN rest : rest[i].ok /\ rest[i].what \in Kinds \cup {"timer"}

\* Mutant: the reconnect timer outlives its transport.
CloseTransport_KeepsTimer(rest) ==
    /\ overtaken' = (overtaken \/ Overtakes(rest))
    /\ open' = FALSE
    /\ wq' = 0
    /\ failed' = FALSE
    /\ spent' = FALSE
    /\ UNCHANGED armed

CloseTransport(rest) ==
    /\ overtaken' = (overtaken \/ Overtakes(rest))
    /\ open' = FALSE
    /\ wq' = 0
    /\ failed' = FALSE
    /\ spent' = FALSE
    /\ armed' = FALSE

\* A new resolver, websocket and timer; CloseTransport has emptied the rest.
RecreateTransport == present' = TRUE

\* CloseTransport, RecreateTransport, ParseUrl, async_resolve.
ConnectOnIoThread(rest) ==
    /\ CloseTransport(rest)
    /\ queue' = AfterClose(rest)
    /\ RecreateTransport
    /\ pending' = IF url_ok THEN {"resolve"} ELSE {}
    /\ UNCHANGED <<state, url_ok, ub, stray>>

\* Starting an operation on impl_->websocket.
Start(rest, kind) ==
    /\ queue' = rest
    /\ IF present /\ kind \notin pending
       THEN pending' = pending \cup {kind} /\ UNCHANGED ub
       ELSE ub' = TRUE /\ UNCHANGED pending

Nothing(rest) == queue' = rest /\ UNCHANGED <<pending, ub>>

\* StartRead does nothing without a websocket.
StartRead(rest) == IF present THEN Start(rest, "read") ELSE Nothing(rest)

\* A write on a websocket that is not open fails at once.
WriteNextMessage(rest) ==
    IF open
    THEN Start(rest, "write")
    ELSE Nothing(Append(rest, Item("write", FALSE)))

\* Arming the timer again replaces the wait that is under way.
AttemptReconnect ==
    IF manual \/ attempts >= MaxAttempts
    THEN /\ spent' = (spent \/ attempts >= MaxAttempts)
         /\ UNCHANGED <<attempts, armed, stray>>
    ELSE /\ attempts' = attempts + 1
         /\ armed' = present
         /\ UNCHANGED spent
         /\ stray' = (stray \/ (present /\ (Head(queue).old \/ ~failed)))

-----------------------------------------------------------------------------
(* Tasks and handlers on the I/O thread. *)

RunConnect ==
    /\ Take("connect", TRUE)
    /\ ConnectOnIoThread(Tail(queue))

\* CloseTransport and ReportDisconnected.
RunDisconnect ==
    /\ Take("disconnect", TRUE)
    /\ CloseTransport(Tail(queue))
    /\ queue' = AfterClose(Tail(queue))
    /\ present' = FALSE
    /\ pending' = {}
    /\ connected' = FALSE
    /\ UNCHANGED <<manual, attempts, url_ok, ub, stray>>

\* The task of QueueJsonMessage: the first message of the queue starts writing.
RunSend ==
    /\ Take("send", TRUE)
    /\ IF present /\ wq = 0
       THEN WriteNextMessage(Tail(queue)) ELSE Nothing(Tail(queue))
    /\ wq' = IF present THEN wq + 1 ELSE wq
    /\ UNCHANGED <<state, url_ok, present, open, armed, notes>>

\* Resolve, connect and handshake report an error and try again later.
OnConnectFailed ==
    /\ \E kind \in {"resolve", "tcp", "handshake"} : Take(kind, FALSE)
    /\ queue' = Tail(queue)
    /\ AttemptReconnect
    /\ UNCHANGED <<manual, connected, url_ok, present, open, pending, wq, failed,
                   ub, overtaken>>

OnResolved ==
    /\ Take("resolve", TRUE)
    /\ Start(Tail(queue), "tcp")
    /\ UNCHANGED <<state, url_ok, present, open, armed, wq, notes>>

OnTcpConnected ==
    /\ Take("tcp", TRUE)
    /\ Start(Tail(queue), "handshake")
    /\ UNCHANGED <<state, url_ok, present, open, armed, wq, notes>>

\* OnConnected, the register message, the first read.
OnHandshake ==
    /\ Take("handshake", TRUE)
    /\ connected' = TRUE
    /\ attempts' = 0
    /\ StartRead(Append(Tail(queue), Item("send", TRUE)))
    /\ UNCHANGED <<manual, url_ok, present, open, armed, wq, notes>>

\* Mutant: a message that does not parse ends the reading.
OnRead_StopsOnError ==
    /\ Take("read", TRUE)
    /\ StartRead(Tail(queue)) \/ Nothing(Tail(queue))
    /\ UNCHANGED <<state, url_ok, present, open, armed, wq, notes>>

\* The queue afterwards: a message may ask for an answer, within the bounds.
HandleIncomingMessage(rest) ==
    {rest} \cup IF Cardinality(Tasks) < MaxTasks /\ wq < MaxQueue
                THEN {Append(rest, Item("send", TRUE))} ELSE {}

\* Whatever the message was, the next one is read.
OnRead ==
    /\ Take("read", TRUE)
    /\ \E after \in HandleIncomingMessage(Tail(queue)) : StartRead(after)
    /\ UNCHANGED <<state, url_ok, present, open, armed, wq, notes>>

\* Mutant: the queue is not continued.
OnWritten_Stops ==
    /\ Take("write", TRUE)
    /\ wq' = IF wq > 0 THEN wq - 1 ELSE 0
    /\ Nothing(Tail(queue))
    /\ UNCHANGED <<state, url_ok, present, open, armed, notes>>

OnWritten ==
    /\ Take("write", TRUE)
    /\ wq' = IF wq > 0 THEN wq - 1 ELSE 0
    /\ IF present /\ wq > 1
       THEN WriteNextMessage(Tail(queue)) ELSE Nothing(Tail(queue))
    /\ UNCHANGED <<state, url_ok, present, open, armed, notes>>

\* Mutant: a failed read is not followed by a reconnect.
OnStreamFailed_NoRetry ==
    /\ \E kind \in {"read", "write"} : Take(kind, FALSE)
    /\ queue' = Tail(queue)
    /\ connected' = FALSE
    /\ UNCHANGED <<manual, attempts, url_ok, transport, history>>

\* A failed write stays at the front of write_queue.
OnStreamFailed ==
    /\ \E kind \in {"read", "write"} : Take(kind, FALSE)
    /\ queue' = Tail(queue)
    /\ connected' = FALSE
    /\ AttemptReconnect
    /\ UNCHANGED <<manual, url_ok, present, open, pending, wq, failed, ub, overtaken>>

\* Nothing asks whether the user has disconnected meanwhile.
OnReconnectTimer ==
    /\ Take("timer", TRUE)
    /\ ConnectOnIoThread(Tail(queue))

IoThread ==
    \/ RunConnect
    \/ RunDisconnect
    \/ RunSend
    \/ OnConnectFailed
    \/ OnResolved
    \/ OnTcpConnected
    \/ OnHandshake
    \/ OnRead
    \/ OnWritten
    \/ OnStreamFailed
    \/ OnReconnectTimer

-----------------------------------------------------------------------------
(* The network and the clock. *)

Complete(kind, ok) ==
    /\ kind \in pending
    /\ pending' = pending \ {kind}
    /\ queue' = Append(queue, Item(kind, ok))
    /\ open' = (open \/ (kind = "handshake" /\ ok))
    /\ failed' = (failed \/ ~ok)
    /\ UNCHANGED <<state, url_ok, present, armed, wq, spent, history>>

TimerExpires ==
    /\ armed
    /\ armed' = FALSE
    /\ queue' = Append(queue, Item("timer", TRUE))
    /\ UNCHANGED <<state, url_ok, present, open, pending, wq, failed, spent, history>>

Establishing == {"resolve", "tcp", "handshake"}

\* Undefined behaviour ends the process.
Next ==
    /\ ~ub
    /\ \/ Connect
       \/ Disconnect
       \/ Send
       \/ IoThread
       \/ \E kind \in Kinds, ok \in BOOLEAN : Complete(kind, ok)
       \/ TimerExpires

Spec == Init /\ [][Next]_vars

\* The properties claim nothing of what follows an overtaken success.
Calm == ~ub /\ ~overtaken

(***************************************************************************)
(* The I/O thread runs what is in its queue, and timers expire.  The time  *)
(* limits on establishing a connection end each of its steps; nothing else *)
(* is owed by the network, the user or the server.                         *)
(***************************************************************************)
Fairness ==
    /\ WF_vars(Calm /\ IoThread)
    /\ WF_vars(Calm /\ \E kind \in Establishing, ok \in BOOLEAN : Complete(kind, ok))
    /\ WF_vars(Calm /\ TimerExpires)

\* Up to and including the step in which CloseTransport overtakes a success.
CalmSpec == Init /\ [][Calm /\ Next]_vars /\ Fairness

-----------------------------------------------------------------------------
(* Properties. *)

TypeOK ==
    /\ manual \in BOOLEAN
    /\ attempts \in 0..MaxAttempts
    /\ connected \in BOOLEAN
    /\ url_ok \in BOOLEAN
    /\ queue \in Seq(Items)
    /\ present \in BOOLEAN
    /\ open \in BOOLEAN
    /\ pending \subseteq Kinds
    /\ armed \in BOOLEAN
    /\ wq \in Nat
    /\ failed \in BOOLEAN
    /\ spent \in BOOLEAN
    /\ ub \in BOOLEAN
    /\ overtaken \in BOOLEAN
    /\ stray \in BOOLEAN

(* No handler uses a websocket that is gone or starts a second read, write *)
(* or connect on one, unless a success was overtaken by CloseTransport.    *)
HandlersFindTheirTransport == ub => overtaken

(* While is_connected_ holds, a read is outstanding whose handler will     *)
(* notice when the connection is lost, also when the websocket has been    *)
(* replaced without ReportDisconnected.                                    *)
ConnectedIsWatched ==
    (connected /\ ~overtaken) => "read" \in pending \/ Waiting("read")

(* The client never stops trying by accident: unless the user disconnected *)
(* it, the URL is bad or the attempts are used up, it is connected or has  *)
(* something outstanding that leads to another attempt.                    *)
KeepsTrying ==
    (~manual /\ url_ok /\ attempts < MaxAttempts /\ ~overtaken) =>
        \/ connected
        \/ armed
        \/ pending # {}
        \/ \E what \in Kinds \cup {"connect", "timer"} : Waiting(what)

(* The first message of write_queue is always being written, or its        *)
(* failure leads to a new transport, unless a message sent before the      *)
(* handshake failed when the attempts were used up: from then on nothing   *)
(* is sent on that connection.                                             *)
SendingGoesOn ==
    (connected /\ wq > 0 /\ ~overtaken) =>
        \/ spent
        \/ failed
        \/ armed
        \/ "write" \in pending
        \/ \E what \in {"write", "timer", "connect", "disconnect"} : Waiting(what)

(* A connection that works is given up only at the user's command, unless  *)
(* the handler of an older transport, or a message sent before the         *)
(* handshake, has armed the reconnect timer.                               *)
WorkingConnectionIsKept ==
    [][(open /\ ~failed /\ ~open') =>
          overtaken \/ stray \/ Head(queue).what \in {"connect", "disconnect"}]_vars

(* After Disconnect the client comes to rest, unless Connect follows.      *)
DisconnectIsFinal ==
    manual ~> \/ ~manual \/ overtaken
              \/ ~present /\ ~connected /\ ~armed /\ ~Waiting("timer")
=============================================================================
