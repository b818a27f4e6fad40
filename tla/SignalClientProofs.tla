------------------------- MODULE SignalClientProofs -------------------------
(***************************************************************************)
(* Proofs about SignalClient, for any number of attempts, posted tasks and *)
(* queued messages.  Up to the first time that CloseTransport overtakes a  *)
(* success, every handler finds the transport its operation was started    *)
(* on, a connection is watched, the client keeps trying, and what is sent  *)
(* is written or leads to a new transport.                                 *)
(***************************************************************************)
EXTENDS SignalClient, SequenceTheorems, TLAPS

Chain == {"resolve", "tcp", "handshake", "read"}
Indices == 1..Len(queue)

\* The successes of operations of these kinds that wait in the queue.
Succeeded(kinds) == {i \in Indices : queue[i].ok /\ queue[i].what \in kinds}

\* Nothing goes on on a transport that does not exist.
PresentInv == pending # {} \/ open \/ armed \/ wq > 0 => present

\* A success that waits belongs to the transport of now.
FreshInv == Succeeded(Kinds \cup {"timer"}) # {} => present

\* One operation at a time leads from the resolver to the next read.
ChainInv ==
    /\ \A k, l \in pending \cap Chain : k = l
    /\ pending \cap Chain # {} => Succeeded(Chain) = {}
    /\ \A i, j \in Succeeded(Chain) : i = j

\* One message is being written, and it is still in write_queue.
WriteInv ==
    /\ "write" \in pending => wq > 0 /\ Succeeded({"write"}) = {}
    /\ Succeeded({"write"}) # {} => wq > 0
    /\ \A i, j \in Succeeded({"write"}) : i = j

\* A command waits, with none of the other kind behind it.
Last(command, other) ==
    \E i \in Indices : /\ queue[i].what = command
                       /\ \A j \in Indices : j > i => queue[j].what # other

\* The latest of Connect and Disconnect agrees with manual_disconnect_: its
\* task waits, or it has run and left a transport or none.
CommandInv ==
    /\ manual => \/ Last("disconnect", "connect")
                 \/ ~present /\ ~Waiting("connect")
    /\ ~manual => \/ Last("connect", "disconnect")
                  \/ present /\ ~Waiting("disconnect")

\* KeepsTrying without the help of a write.
TryingInv ==
    (~manual /\ url_ok /\ attempts < MaxAttempts) =>
        \/ connected
        \/ armed
        \/ pending \cap Chain # {}
        \/ \E what \in Chain \cup {"connect", "timer"} : Waiting(what)

\* SendingGoesOn before the handshake as well.
SendingInv ==
    wq > 0 =>
        \/ spent
        \/ failed
        \/ armed
        \/ "write" \in pending
        \/ \E what \in {"write", "timer", "connect", "disconnect"} : Waiting(what)

\* A reconnect that nothing has called for was recorded when it was armed.
StrayInv == (armed \/ Succeeded({"timer"}) # {}) /\ ~failed => stray

\* Once a success was overtaken, nothing more is claimed.
CalmInv ==
    ~overtaken => /\ ~ub
                  /\ FreshInv /\ ChainInv /\ WriteInv
                  /\ CommandInv /\ ConnectedIsWatched
                  /\ TryingInv /\ SendingInv /\ StrayInv

IInv == TypeOK /\ PresentInv /\ CalmInv

-----------------------------------------------------------------------------
(* The queue. *)

\* The handler of an operation that closing the transport aborts.
Aborted(kind) ==
    IF kind \in pending THEN <<[Item(kind, FALSE) EXCEPT !.old = TRUE]>> ELSE <<>>

\* Behind what was in the queue, t has nothing but aborted operations.
Closed(s, t) ==
    /\ t \in Seq(Items)
    /\ Len(t) >= Len(s)
    /\ \A i \in 1..Len(s) : t[i].what = s[i].what /\ t[i].ok = s[i].ok
    /\ \A i \in (Len(s) + 1)..Len(t) : t[i].what \in Kinds /\ ~t[i].ok

LEMMA ClosedLonger ==
  ASSUME NEW s \in Seq(Items), NEW t \in Seq(Items), Closed(s, t), NEW u \in Seq(Items),
         Len(u) = Len(t) + 1, \A i \in 1..Len(t) : u[i] = t[i],
         u[Len(t) + 1].what \in Kinds, ~u[Len(t) + 1].ok
  PROVE  Closed(s, u)
<1>1. Len(s) \in Nat /\ Len(t) \in Nat /\ Len(t) >= Len(s)
  BY LenProperties DEF Closed
<1>2. ASSUME NEW i \in 1..Len(s)
      PROVE  u[i].what = s[i].what /\ u[i].ok = s[i].ok
  <2>1. i \in 1..Len(t)
    BY <1>1
  <2>. QED
    BY <2>1 DEF Closed
<1>3. ASSUME NEW i \in (Len(s) + 1)..Len(u)
      PROVE  u[i].what \in Kinds /\ ~u[i].ok
  <2>1. i = Len(t) + 1 \/ (i \in 1..Len(t) /\ i \in (Len(s) + 1)..Len(t))
    BY <1>1
  <2>. QED
    BY <2>1 DEF Closed
<1>. QED
  BY <1>1, <1>2, <1>3 DEF Closed

LEMMA AbortOne ==
  ASSUME NEW s \in Seq(Items), NEW t \in Seq(Items), Closed(s, t), NEW kind \in Kinds
  PROVE  /\ t \o Aborted(kind) \in Seq(Items)
         /\ Closed(s, t \o Aborted(kind))
         /\ kind \in pending =>
              \E i \in 1..Len(t \o Aborted(kind)) : (t \o Aborted(kind))[i].what = kind
         /\ \A i \in 1..Len(t) :
              i \in 1..Len(t \o Aborted(kind)) /\ (t \o Aborted(kind))[i] = t[i]
<1>. DEFINE x == [Item(kind, FALSE) EXCEPT !.old = TRUE]
<1>1. x \in Items /\ x.what = kind /\ x.ok = FALSE
  BY DEF Item, Items
<1>. HIDE DEF x
<1>2. CASE kind \in pending
  <2>1. Aborted(kind) = <<x>>
    BY <1>2 DEF Aborted, x
  <2>2. t \o Aborted(kind) = Append(t, x)
    BY <1>1, <2>1, AppendIsConcat
  <2>3. /\ Append(t, x) \in Seq(Items) /\ Len(Append(t, x)) = Len(t) + 1
        /\ \A i \in 1..Len(t) : Append(t, x)[i] = t[i]
        /\ Append(t, x)[Len(t) + 1] = x
    BY <1>1, AppendProperties
  <2>4. Len(t) \in Nat /\ Len(s) \in Nat
    OBVIOUS
  <2>5. Closed(s, Append(t, x))
    BY <1>1, <2>3, ClosedLonger
  <2>. QED
    BY <1>1, <1>2, <2>2, <2>3, <2>4, <2>5
<1>3. CASE kind \notin pending
  <2>1. t \o Aborted(kind) = t
    BY <1>3, ConcatEmptySeq DEF Aborted
  <2>. QED
    BY <1>3, <2>1
<1>. QED
  BY <1>2, <1>3

\* Marking an item as old leaves it an item of the same handler.
LEMMA Marked ==
  ASSUME NEW x \in Items, NEW o \in BOOLEAN, NEW y, y = [x EXCEPT !.old = o]
  PROVE  y \in Items /\ y.what = x.what /\ y.ok = x.ok
<1>1. x.what \in Commands \cup Kinds \cup {"timer"} /\ x.ok \in BOOLEAN
  BY DEF Items
<1>2. y = [what |-> x.what, ok |-> x.ok, old |-> o]
  BY DEF Items
<1>. QED
  BY <1>1, <1>2 DEF Items

(* Closing the transport leaves what was in the queue where it was and puts *)
(* the aborted operations behind it; an aborted read is among them.        *)
LEMMA AfterCloseIs ==
  ASSUME NEW s \in Seq(Items), pending \subseteq Kinds
  PROVE  /\ Closed(s, AfterClose(s))
         /\ "read" \in pending =>
              \E i \in 1..Len(AfterClose(s)) : AfterClose(s)[i].what = "read"
<1>. DEFINE m == [i \in DOMAIN s |-> [s[i] EXCEPT !.old = s[i].what \in Kinds]]
            a == m \o Aborted("resolve")
            b == a \o Aborted("tcp")
            c == b \o Aborted("handshake")
            d == c \o Aborted("read")
            e == d \o Aborted("write")
<1>1. AfterClose(s) = e
  BY DEF AfterClose, Aborted
<1>2. /\ {"resolve", "tcp", "handshake", "read", "write"} \subseteq Kinds
      /\ DOMAIN s = 1..Len(s) /\ Len(s) \in Nat
  BY DEF Kinds
<1>3. \A i \in 1..Len(s) : s[i] \in Items
  OBVIOUS
<1>4. m \in Seq(Items) /\ Closed(s, m)
  <2>1. ASSUME NEW i \in 1..Len(s)
        PROVE  m[i] \in Items /\ m[i].what = s[i].what /\ m[i].ok = s[i].ok
    <3>1. m[i] = [s[i] EXCEPT !.old = s[i].what \in Kinds]
      BY <1>2
    <3>2. (s[i].what \in Kinds) \in BOOLEAN
      OBVIOUS
    <3>3. s[i] \in Items
      BY <1>3
    <3>. HIDE DEF m
    <3>. QED
      BY <3>1, <3>2, <3>3, Marked
  <2>2. m \in [1..Len(s) -> Items]
    BY <1>2, <2>1
  <2>3. m \in Seq(Items) /\ Len(m) = Len(s)
    BY <1>2, <2>2, SeqDef, LenProperties
  <2>. QED
    BY <1>2, <2>1, <2>3 DEF Closed
<1>. HIDE DEF m
<1>5. a \in Seq(Items) /\ Closed(s, a)
  BY <1>2, <1>4, AbortOne
<1>. HIDE DEF a
<1>6. b \in Seq(Items) /\ Closed(s, b)
  BY <1>2, <1>5, AbortOne
<1>. HIDE DEF b
<1>7. c \in Seq(Items) /\ Closed(s, c)
  BY <1>2, <1>6, AbortOne
<1>. HIDE DEF c
<1>8. /\ d \in Seq(Items) /\ Closed(s, d)
      /\ "read" \in pending => \E i \in 1..Len(d) : d[i].what = "read"
  BY <1>2, <1>7, AbortOne
<1>. HIDE DEF d
<1>9. /\ e \in Seq(Items) /\ Closed(s, e)
      /\ \A i \in 1..Len(d) : i \in 1..Len(e) /\ e[i] = d[i]
  BY <1>2, <1>8, AbortOne
<1>. HIDE DEF e
<1>. QED
  BY <1>1, <1>8, <1>9

\* The I/O thread takes the first item; what is new behind the others is a send
\* or an error.
Took ==
    /\ queue' \in Seq(Items)
    /\ Len(queue) >= 1 /\ Len(queue') >= Len(queue) - 1
    /\ \A i \in 1..(Len(queue) - 1) :
          queue'[i].what = queue[i + 1].what /\ queue'[i].ok = queue[i + 1].ok
    /\ \A i \in Len(queue)..Len(queue') :
          queue'[i].what = "send" \/ (queue'[i].what \in Kinds /\ ~queue'[i].ok)

Posted(x) ==
    /\ queue' \in Seq(Items)
    /\ Len(queue') = Len(queue) + 1
    /\ \A i \in Indices : queue'[i] = queue[i]
    /\ queue'[Len(queue) + 1] = x

LEMMA PostedByAppend ==
  ASSUME TypeOK, NEW x \in Items, queue' = Append(queue, x)
  PROVE  Posted(x)
BY AppendProperties DEF TypeOK, Posted, Indices

LEMMA TookTail ==
  ASSUME TypeOK, queue # <<>>
  PROVE  /\ Tail(queue) \in Seq(Items)
         /\ Len(queue) \in Nat /\ Len(queue) >= 1 /\ Len(Tail(queue)) = Len(queue) - 1
         /\ \A i \in 1..(Len(queue) - 1) : Tail(queue)[i] = queue[i + 1]
         /\ Head(queue) = queue[1] /\ queue[1] \in Items
BY HeadTailProperties, EmptySeq, LenProperties DEF TypeOK

LEMMA ItemIs ==
  ASSUME NEW what \in Commands \cup Kinds \cup {"timer"}, NEW ok \in BOOLEAN
  PROVE  /\ Item(what, ok) \in Items
         /\ Item(what, ok).what = what /\ Item(what, ok).ok = ok
BY DEF Item, Items

LEMMA TookOneForOne ==
  ASSUME TypeOK, Len(queue) >= 1, queue' \in Seq(Items), Len(queue') = Len(queue),
         \A i \in 1..(Len(queue) - 1) : queue'[i] = queue[i + 1],
         LET x == queue'[Len(queue)]
         IN  x.what = "send" \/ (x.what \in Kinds /\ ~x.ok)
  PROVE  Took
<1>1. Len(queue) \in Nat
  BY LenProperties DEF TypeOK
<1>2. \A i \in Len(queue)..Len(queue') : i = Len(queue)
  BY <1>1
<1>. QED
  BY <1>1, <1>2 DEF Took

LEMMA TookAppend ==
  ASSUME TypeOK, queue # <<>>, NEW x \in Items, queue' = Append(Tail(queue), x),
         x.what = "send" \/ (x.what \in Kinds /\ ~x.ok)
  PROVE  Took
<1>1. /\ queue' \in Seq(Items) /\ Len(queue') = Len(Tail(queue)) + 1
      /\ \A i \in 1..Len(Tail(queue)) : queue'[i] = Tail(queue)[i]
      /\ queue'[Len(Tail(queue)) + 1] = x
  <2>1. Tail(queue) \in Seq(Items)
    BY TookTail
  <2>. QED
    BY <2>1, AppendProperties
<1>2. /\ Len(queue) \in Nat /\ Len(queue) >= 1 /\ Len(Tail(queue)) = Len(queue) - 1
      /\ \A i \in 1..(Len(queue) - 1) : Tail(queue)[i] = queue[i + 1]
  BY TookTail
<1>3. Len(queue') = Len(queue) /\ queue'[Len(queue)] = x
  BY <1>1, <1>2
<1>4. \A i \in 1..(Len(queue) - 1) : queue'[i] = queue[i + 1]
  BY <1>1, <1>2
<1>. QED
  BY <1>1, <1>2, <1>3, <1>4, TookOneForOne

LEMMA TookPlain ==
  ASSUME TypeOK, queue # <<>>,
         \/ queue' = Tail(queue)
         \/ queue' = Append(Tail(queue), Item("send", TRUE))
         \/ queue' = Append(Tail(queue), Item("write", FALSE))
  PROVE  Took
<1>1. CASE queue' = Tail(queue)
  BY <1>1, TookTail DEF Took
<1>2. CASE queue' = Append(Tail(queue), Item("send", TRUE))
  <2>1. Item("send", TRUE) \in Items /\ Item("send", TRUE).what = "send"
    BY ItemIs DEF Commands
  <2>. QED
    BY <1>2, <2>1, TookAppend
<1>3. CASE queue' = Append(Tail(queue), Item("write", FALSE))
  <2>1. /\ Item("write", FALSE) \in Items /\ Item("write", FALSE).what \in Kinds
        /\ ~Item("write", FALSE).ok
    BY ItemIs DEF Kinds
  <2>. QED
    BY <1>3, <2>1, TookAppend
<1>. QED
  BY <1>1, <1>2, <1>3

LEMMA TookClosing ==
  ASSUME TypeOK, queue # <<>>, queue' = AfterClose(Tail(queue))
  PROVE  /\ Took
         /\ "read" \in pending => Waiting("read")'
<1>1. /\ Closed(Tail(queue), queue')
      /\ "read" \in pending => \E i \in 1..Len(queue') : queue'[i].what = "read"
  BY TookTail, AfterCloseIs DEF TypeOK
<1>2. queue' \in Seq(Items) /\ DOMAIN queue' = 1..Len(queue') /\ Len(queue') \in Nat
  BY <1>1, LenProperties DEF Closed
<1>3. Took
  BY <1>1, <1>2, TookTail DEF Closed, Took
<1>. QED
  BY <1>1, <1>2, <1>3 DEF Waiting

(* Whatever the I/O thread does, the queue moves up by one item. *)
LEMMA TookQueue ==
  ASSUME TypeOK, IoThread
  PROVE  Took /\ queue # <<>>
<1>1. CASE RunConnect \/ RunDisconnect \/ OnReconnectTimer
  BY <1>1, TookClosing
     DEF RunConnect, RunDisconnect, OnReconnectTimer, ConnectOnIoThread, Take
<1>2. CASE RunSend
  BY <1>2, TookPlain DEF RunSend, Take, WriteNextMessage, Start, Nothing
<1>3. CASE OnConnectFailed \/ OnStreamFailed
  BY <1>3, TookPlain DEF OnConnectFailed, OnStreamFailed, Take
<1>4. CASE OnResolved \/ OnTcpConnected
  BY <1>4, TookPlain DEF OnResolved, OnTcpConnected, Take, Start
<1>5. CASE OnHandshake
  BY <1>5, TookPlain DEF OnHandshake, Take, StartRead, Start, Nothing
<1>6. CASE OnRead
  BY <1>6, TookPlain DEF OnRead, HandleIncomingMessage, Take, StartRead, Start, Nothing
<1>7. CASE OnWritten
  BY <1>7, TookPlain DEF OnWritten, Take, WriteNextMessage, Start, Nothing
<1>. QED
  BY <1>1, <1>2, <1>3, <1>4, <1>5, <1>6, <1>7 DEF IoThread

(* The successes and tasks that wait, and the order of commands, after the *)
(* I/O thread has taken an item and after one was posted.                  *)
LEMMA TookSucceeded ==
  ASSUME TypeOK, Took, NEW kinds \in SUBSET (Kinds \cup {"timer"})
  PROVE  /\ \A i \in Succeeded(kinds)' : i \in Nat /\ i + 1 \in Succeeded(kinds)
         /\ Succeeded(kinds) = {} => Succeeded(kinds)' = {}
         /\ (\A i, j \in Succeeded(kinds) : i = j) =>
               \A i, j \in Succeeded(kinds)' : i = j
<1>1. Len(queue) \in Nat /\ Len(queue') \in Nat
  BY LenProperties DEF TypeOK, Took
<1>2. "send" \notin kinds
  BY DEF Kinds
<1>3. \A i \in Succeeded(kinds)' : i \in Nat /\ i + 1 \in Succeeded(kinds)
  BY <1>1, <1>2 DEF Took, Succeeded, Indices
<1>. QED
  BY <1>3

LEMMA TookWaiting ==
  ASSUME TypeOK, Took, NEW what
  PROVE  /\ Waiting(what) => queue[1].what = what \/ Waiting(what)'
         /\ Waiting(what)' => Waiting(what) \/ what \in Kinds \cup {"send"}
<1>1. /\ Len(queue) \in Nat /\ Len(queue') \in Nat
      /\ DOMAIN queue = 1..Len(queue) /\ DOMAIN queue' = 1..Len(queue')
  BY LenProperties DEF TypeOK, Took
<1>2. ASSUME Waiting(what), queue[1].what # what
      PROVE  Waiting(what)'
  <2>1. PICK i \in 1..Len(queue) : queue[i].what = what
    BY <1>1, <1>2 DEF Waiting
  <2>2. i - 1 \in 1..(Len(queue) - 1) /\ i = (i - 1) + 1
    BY <1>1, <1>2, <2>1
  <2>3. i - 1 \in 1..Len(queue') /\ queue'[i - 1].what = what
    BY <1>1, <2>1, <2>2 DEF Took
  <2>. QED
    BY <1>1, <2>3 DEF Waiting
<1>3. ASSUME Waiting(what)'
      PROVE  Waiting(what) \/ what \in Kinds \cup {"send"}
  <2>1. PICK i \in 1..Len(queue') : queue'[i].what = what
    BY <1>1, <1>3 DEF Waiting
  <2>2. CASE i <= Len(queue) - 1
    <3>1. i + 1 \in 1..Len(queue) /\ queue[i + 1].what = what
      BY <1>1, <2>1, <2>2 DEF Took
    <3>. QED
      BY <1>1, <3>1 DEF Waiting
  <2>3. CASE i >= Len(queue)
    BY <1>1, <2>1, <2>3 DEF Took
  <2>. QED
    BY <1>1, <2>2, <2>3
<1>. QED
  BY <1>2, <1>3

LEMMA TookLast ==
  ASSUME TypeOK, Took, NEW command, NEW other \in Commands, other # "send",
         Last(command, other)
  PROVE  Last(command, other)' \/ (queue[1].what = command /\ ~Waiting(other)')
<1>1. /\ Len(queue) \in Nat /\ Len(queue') \in Nat
      /\ DOMAIN queue' = 1..Len(queue')
  BY LenProperties DEF TypeOK, Took
<1>2. PICK i \in 1..Len(queue) :
        /\ queue[i].what = command
        /\ \A j \in 1..Len(queue) : j > i => queue[j].what # other
  BY DEF Last, Indices
<1>3. ASSUME NEW j \in 1..Len(queue'), j >= i
      PROVE  queue'[j].what # other
  <2>1. CASE j <= Len(queue) - 1
    BY <1>1, <1>2, <1>3, <2>1 DEF Took
  <2>2. CASE j >= Len(queue)
    BY <1>1, <2>2 DEF Took, Kinds, Commands
  <2>. QED
    BY <1>1, <2>1, <2>2
<1>4. CASE i = 1
  BY <1>1, <1>2, <1>3, <1>4 DEF Waiting
<1>5. CASE i # 1
  <2>1. i - 1 \in 1..Len(queue') /\ queue'[i - 1].what = command
    BY <1>1, <1>2, <1>5 DEF Took
  <2>2. \A j \in 1..Len(queue') : j > i - 1 => queue'[j].what # other
    BY <1>1, <1>3
  <2>. QED
    BY <2>1, <2>2 DEF Last, Indices
<1>. QED
  BY <1>4, <1>5

LEMMA PostedItem ==
  ASSUME TypeOK, NEW x \in Items, Posted(x)
  PROVE  /\ \A kinds : Succeeded(kinds)' =
                IF x.ok /\ x.what \in kinds
                THEN Succeeded(kinds) \cup {Len(queue) + 1} ELSE Succeeded(kinds)
         /\ \A what : Waiting(what)' <=> Waiting(what) \/ x.what = what
         /\ \A command, other :
              /\ Last(command, other) /\ x.what # other => Last(command, other)'
              /\ x.what = command => Last(command, other)'
<1>1. /\ Len(queue) \in Nat /\ Len(queue') = Len(queue) + 1
      /\ DOMAIN queue = 1..Len(queue) /\ DOMAIN queue' = 1..Len(queue')
  BY LenProperties DEF TypeOK, Posted
<1>2. ASSUME NEW kinds
      PROVE  Succeeded(kinds)' =
                IF x.ok /\ x.what \in kinds
                THEN Succeeded(kinds) \cup {Len(queue) + 1} ELSE Succeeded(kinds)
  BY <1>1 DEF Posted, Succeeded, Indices
<1>3. ASSUME NEW what
      PROVE  Waiting(what)' <=> Waiting(what) \/ x.what = what
  BY <1>1 DEF Posted, Waiting, Indices
<1>4. ASSUME NEW command, NEW other, Last(command, other), x.what # other
      PROVE  Last(command, other)'
  BY <1>1, <1>4 DEF Posted, Last, Indices
<1>5. ASSUME NEW command, NEW other, x.what = command
      PROVE  Last(command, other)'
  BY <1>1, <1>5 DEF Posted, Last, Indices
<1>. QED
  BY <1>2, <1>3, <1>4, <1>5

-----------------------------------------------------------------------------
(* What each step does to the queue. *)

LEMMA TakenItem ==
  ASSUME TypeOK, NEW what, NEW ok, Take(what, ok)
  PROVE  queue[1].what = what /\ queue[1].ok = ok /\ 1 \in Indices /\ Head(queue) = queue[1]
BY TookTail DEF Take, Indices

LEMMA PostedCommands ==
  ASSUME TypeOK
  PROVE  /\ Connect => Posted(Item("connect", TRUE))
         /\ Disconnect => Posted(Item("disconnect", TRUE))
         /\ Send => Posted(Item("send", TRUE))
         /\ TimerExpires => Posted(Item("timer", TRUE))
         /\ \A kind \in Kinds, ok \in BOOLEAN : Complete(kind, ok) => Posted(Item(kind, ok))
<1>1. /\ Item("connect", TRUE) \in Items /\ Item("disconnect", TRUE) \in Items
      /\ Item("send", TRUE) \in Items /\ Item("timer", TRUE) \in Items
      /\ \A kind \in Kinds, ok \in BOOLEAN : Item(kind, ok) \in Items
  BY ItemIs DEF Commands
<1>. QED
  BY <1>1, PostedByAppend DEF Connect, Disconnect, Send, TimerExpires, Complete, Post

LEMMA NextItems ==
  ASSUME TypeOK, [Next]_vars
  PROVE  queue' \in Seq(Items)
<1>1. CASE IoThread
  BY <1>1, TookQueue DEF Took
<1>2. CASE Connect \/ Disconnect \/ Send \/ TimerExpires
  BY <1>2, PostedCommands DEF Posted
<1>3. ASSUME NEW kind \in Kinds, NEW ok \in BOOLEAN, Complete(kind, ok)
      PROVE  queue' \in Seq(Items)
  BY <1>3, PostedCommands DEF Posted
<1>4. CASE UNCHANGED vars
  BY <1>4 DEF vars, TypeOK
<1>. QED
  BY <1>1, <1>2, <1>3, <1>4 DEF Next

(* Types. *)
LEMMA NextType ==
  ASSUME TypeOK, [Next]_vars
  PROVE  TypeOK'
<1>1. CASE Connect
  <2>1. attempts' \in 0..MaxAttempts
    BY <1>1, BoundsAssumption DEF Connect
  <2>. QED
    BY <1>1, <2>1, NextItems DEF Connect, transport, history, TypeOK
<1>2. CASE Disconnect
  <2>1. attempts' \in 0..MaxAttempts
    BY <1>2, BoundsAssumption DEF Disconnect
  <2>. QED
    BY <1>2, <2>1, NextItems DEF Disconnect, transport, history, TypeOK
<1>3. CASE Send
  BY <1>3, NextItems DEF Send, state, transport, history, TypeOK
<1>4. CASE RunConnect
  BY <1>4, NextItems DEF RunConnect, ConnectOnIoThread, CloseTransport,
            RecreateTransport, state, Kinds, TypeOK
<1>5. CASE RunDisconnect
  BY <1>5, NextItems DEF RunDisconnect, CloseTransport, TypeOK
<1>6. CASE RunSend
  <2>1. wq' \in Nat
    BY <1>6 DEF RunSend, TypeOK
  <2>2. ub' \in BOOLEAN /\ pending' \subseteq Kinds
    BY <1>6 DEF RunSend, WriteNextMessage, Start, Nothing, Kinds, TypeOK
  <2>. QED
    BY <1>6, <2>1, <2>2, NextItems DEF RunSend, state, notes, TypeOK
<1>7. CASE OnConnectFailed
  <2>1. attempts' \in 0..MaxAttempts
    BY <1>7, BoundsAssumption DEF OnConnectFailed, AttemptReconnect, TypeOK
  <2>2. spent' \in BOOLEAN /\ armed' \in BOOLEAN /\ stray' \in BOOLEAN
    BY <1>7 DEF OnConnectFailed, AttemptReconnect, TypeOK
  <2>. QED
    BY <1>7, <2>1, <2>2, NextItems DEF OnConnectFailed, TypeOK
<1>8. CASE OnResolved
  BY <1>8, NextItems DEF OnResolved, Start, state, notes, Kinds, TypeOK
<1>9. CASE OnTcpConnected
  BY <1>9, NextItems DEF OnTcpConnected, Start, state, notes, Kinds, TypeOK
<1>10. CASE OnHandshake
  <2>1. attempts' \in 0..MaxAttempts
    BY <1>10, BoundsAssumption DEF OnHandshake
  <2>2. ub' \in BOOLEAN /\ pending' \subseteq Kinds
    BY <1>10 DEF OnHandshake, StartRead, Start, Nothing, Kinds, TypeOK
  <2>. QED
    BY <1>10, <2>1, <2>2, NextItems DEF OnHandshake, notes, TypeOK
<1>11. CASE OnRead
  BY <1>11, NextItems DEF OnRead, StartRead, Start, Nothing, state, notes,
            Kinds, TypeOK
<1>12. CASE OnWritten
  <2>1. wq' \in Nat
    BY <1>12 DEF OnWritten, TypeOK
  <2>2. ub' \in BOOLEAN /\ pending' \subseteq Kinds
    BY <1>12 DEF OnWritten, WriteNextMessage, Start, Nothing, Kinds, TypeOK
  <2>. QED
    BY <1>12, <2>1, <2>2, NextItems DEF OnWritten, state, notes, TypeOK
<1>13. CASE OnStreamFailed
  <2>1. attempts' \in 0..MaxAttempts
    BY <1>13, BoundsAssumption DEF OnStreamFailed, AttemptReconnect, TypeOK
  <2>2. spent' \in BOOLEAN /\ armed' \in BOOLEAN /\ stray' \in BOOLEAN
    BY <1>13 DEF OnStreamFailed, AttemptReconnect, TypeOK
  <2>. QED
    BY <1>13, <2>1, <2>2, NextItems DEF OnStreamFailed, TypeOK
<1>14. CASE OnReconnectTimer
  BY <1>14, NextItems DEF OnReconnectTimer, ConnectOnIoThread,
            CloseTransport, RecreateTransport, state, Kinds, TypeOK
<1>15. ASSUME NEW kind \in Kinds, NEW ok \in BOOLEAN, Complete(kind, ok)
      PROVE  TypeOK'
  BY <1>15, NextItems DEF Complete, state, history, TypeOK
<1>16. CASE TimerExpires
  BY <1>16, NextItems DEF TimerExpires, state, history, TypeOK
<1>17. CASE UNCHANGED vars
  BY <1>17, NextItems DEF vars, state, transport, history, TypeOK
<1>. QED
  BY <1>1, <1>2, <1>3, <1>4, <1>5, <1>6, <1>7, <1>8, <1>9, <1>10, <1>11,
            <1>12, <1>13, <1>14, <1>15, <1>16, <1>17 DEF Next, IoThread

(* What goes on needs a transport. *)
LEMMA NextPresent ==
  ASSUME TypeOK, PresentInv, [Next]_vars
  PROVE  PresentInv'
<1>1. CASE Connect
  BY <1>1 DEF Connect, transport, PresentInv
<1>2. CASE Disconnect
  BY <1>2 DEF Disconnect, transport, PresentInv
<1>3. CASE Send
  BY <1>3 DEF Send, transport, PresentInv
<1>4. CASE RunConnect
  BY <1>4 DEF RunConnect, ConnectOnIoThread, CloseTransport,
            RecreateTransport, PresentInv
<1>5. CASE RunDisconnect
  BY <1>5 DEF RunDisconnect, CloseTransport, PresentInv
<1>6. CASE RunSend
  BY <1>6 DEF RunSend, WriteNextMessage, Start, Nothing, PresentInv
<1>7. CASE OnConnectFailed
  BY <1>7 DEF OnConnectFailed, AttemptReconnect, PresentInv
<1>8. CASE OnResolved
  BY <1>8 DEF OnResolved, Start, PresentInv
<1>9. CASE OnTcpConnected
  BY <1>9 DEF OnTcpConnected, Start, PresentInv
<1>10. CASE OnHandshake
  BY <1>10 DEF OnHandshake, StartRead, Start, Nothing, PresentInv
<1>11. CASE OnRead
  BY <1>11 DEF OnRead, StartRead, Start, Nothing, PresentInv
<1>12. CASE OnWritten
  <2>1. wq' > 0 => wq > 0
    BY <1>12 DEF OnWritten, TypeOK
  <2>2. pending' # {} => pending # {} \/ present
    BY <1>12 DEF OnWritten, WriteNextMessage, Start, Nothing
  <2>. QED
    BY <1>12, <2>1, <2>2 DEF OnWritten, PresentInv
<1>13. CASE OnStreamFailed
  BY <1>13 DEF OnStreamFailed, AttemptReconnect, PresentInv
<1>14. CASE OnReconnectTimer
  BY <1>14 DEF OnReconnectTimer, ConnectOnIoThread, CloseTransport,
            RecreateTransport, PresentInv
<1>15. ASSUME NEW kind \in Kinds, NEW ok \in BOOLEAN, Complete(kind, ok)
      PROVE  PresentInv'
  BY <1>15 DEF Complete, PresentInv
<1>16. CASE TimerExpires
  BY <1>16 DEF TimerExpires, PresentInv
<1>17. CASE UNCHANGED vars
  BY <1>17 DEF vars, transport, PresentInv
<1>. QED
  BY <1>1, <1>2, <1>3, <1>4, <1>5, <1>6, <1>7, <1>8, <1>9, <1>10, <1>11,
            <1>12, <1>13, <1>14, <1>15, <1>16, <1>17 DEF Next, IoThread

-----------------------------------------------------------------------------
(* Steps on the I/O thread that close the transport, and the others. *)

Closes == RunConnect \/ RunDisconnect \/ OnReconnectTimer
Plain == \/ RunSend \/ OnConnectFailed \/ OnResolved \/ OnTcpConnected
         \/ OnHandshake \/ OnRead \/ OnWritten \/ OnStreamFailed

LEMMA StaysOvertaken ==
  ASSUME [Next]_vars, overtaken
  PROVE  overtaken'
BY DEF Next, IoThread, Connect, Disconnect, Send, RunConnect, RunDisconnect, RunSend,
       OnConnectFailed, OnResolved, OnTcpConnected, OnHandshake, OnRead, OnWritten,
       OnStreamFailed, OnReconnectTimer, ConnectOnIoThread, CloseTransport, Complete,
       TimerExpires, vars, notes, history

(* A close that overtakes no success leaves none in the queue. *)
LEMMA ClosesAll ==
  ASSUME TypeOK, Closes, ~overtaken'
  PROVE  /\ Took /\ queue # <<>>
         /\ "read" \in pending => Waiting("read")'
         /\ pending' \subseteq {"resolve"} /\ ~armed' /\ wq' = 0
         /\ UNCHANGED ub
         /\ \A kinds \in SUBSET (Kinds \cup {"timer"}) : Succeeded(kinds)' = {}
<1>1. /\ queue # <<>> /\ queue' = AfterClose(Tail(queue))
      /\ ~Overtakes(Tail(queue)) /\ ~armed' /\ wq' = 0
      /\ pending' \subseteq {"resolve"} /\ UNCHANGED ub
  BY DEF Closes, RunConnect, RunDisconnect, OnReconnectTimer, ConnectOnIoThread,
         CloseTransport, Take
<1>2. Took /\ ("read" \in pending => Waiting("read")')
  BY <1>1, TookClosing
<1>3. ASSUME NEW kinds \in SUBSET (Kinds \cup {"timer"}), NEW i \in Succeeded(kinds)'
      PROVE  FALSE
  <2>1. i \in Nat /\ i + 1 \in Succeeded(kinds)
    BY <1>2, <1>3, TookSucceeded
  <2>2. i \in Nat \ {0}
    <3>1. i \in 1..Len(queue')
      BY <1>3 DEF Succeeded, Indices
    <3>2. Len(queue') \in Nat
      BY <1>2, LenProperties DEF Took
    <3>. QED
      BY <2>1, <3>1, <3>2
  <2>3. i \in 1..(Len(queue) - 1) /\ Tail(queue)[i] = queue[i + 1]
    BY <1>1, <2>1, <2>2, TookTail DEF Succeeded, Indices
  <2>4. i \in DOMAIN Tail(queue)
    BY <1>1, <2>3, TookTail, LenProperties
  <2>. QED
    BY <1>1, <2>1, <2>3, <2>4 DEF Overtakes, Succeeded
<1>. QED
  BY <1>1, <1>2, <1>3

LEMMA TookPlainly ==
  ASSUME TypeOK, Plain
  PROVE  /\ Took /\ UNCHANGED <<manual, url_ok, present, open, overtaken>>
         /\ queue[1].what \notin {"connect", "disconnect", "timer"}
<1>1. Took
  BY TookQueue DEF Plain, IoThread
<1>2. UNCHANGED <<manual, url_ok, present, open, overtaken>>
  BY DEF Plain, RunSend, OnConnectFailed, OnResolved, OnTcpConnected, OnHandshake,
     OnRead, OnWritten, OnStreamFailed, state, notes
<1>3. \E what \in Kinds \cup {"send"}, ok \in BOOLEAN : Take(what, ok)
  BY DEF Plain, RunSend, OnConnectFailed, OnResolved, OnTcpConnected, OnHandshake,
     OnRead, OnWritten, OnStreamFailed, Kinds
<1>. QED
  BY <1>1, <1>2, <1>3, TakenItem DEF Kinds

(* The handler of a success runs alone in its chain. *)
LEMMA ChainSuccess ==
  ASSUME TypeOK, FreshInv, ChainInv, Took, NEW kind \in Chain, Take(kind, TRUE)
  PROVE  present /\ pending \cap Chain = {} /\ Succeeded(Chain)' = {}
<1>1. 1 \in Succeeded(Chain) /\ 1 \in Succeeded(Kinds \cup {"timer"})
  BY TakenItem DEF Succeeded, Chain, Kinds
<1>2. present /\ pending \cap Chain = {}
  BY <1>1 DEF FreshInv, ChainInv
<1>3. ASSUME NEW i \in Succeeded(Chain)' PROVE FALSE
  <2>1. i \in Nat /\ i + 1 \in Succeeded(Chain)
    BY <1>3, TookSucceeded DEF Chain, Kinds
  <2>2. i + 1 = 1
    BY <1>1, <2>1 DEF ChainInv
  <2>3. i \in 1..Len(queue') /\ Len(queue') \in Nat
    BY <1>3, LenProperties DEF Succeeded, Indices, Took
  <2>. QED
    BY <2>1, <2>2, <2>3
<1>. QED
  BY <1>2, <1>3

LEMMA WriteSuccess ==
  ASSUME TypeOK, FreshInv, WriteInv, Took, Take("write", TRUE)
  PROVE  present /\ wq > 0 /\ "write" \notin pending /\ Succeeded({"write"})' = {}
<1>1. 1 \in Succeeded({"write"}) /\ 1 \in Succeeded(Kinds \cup {"timer"})
  BY TakenItem DEF Succeeded, Kinds
<1>2. present /\ wq > 0 /\ "write" \notin pending
  BY <1>1 DEF FreshInv, WriteInv
<1>3. ASSUME NEW i \in Succeeded({"write"})' PROVE FALSE
  <2>1. i \in Nat /\ i + 1 \in Succeeded({"write"})
    BY <1>3, TookSucceeded DEF Kinds
  <2>2. i + 1 = 1
    BY <1>1, <2>1 DEF WriteInv
  <2>3. i \in 1..Len(queue') /\ Len(queue') \in Nat
    BY <1>3, LenProperties DEF Succeeded, Indices, Took
  <2>. QED
    BY <2>1, <2>2, <2>3
<1>. QED
  BY <1>2, <1>3

LEMMA PostedWhat ==
  ASSUME TypeOK, NEW what \in Commands \cup Kinds \cup {"timer"}, NEW ok \in BOOLEAN,
         Posted(Item(what, ok))
  PROVE  /\ \A kinds : Succeeded(kinds)' =
                IF ok /\ what \in kinds
                THEN Succeeded(kinds) \cup {Len(queue) + 1} ELSE Succeeded(kinds)
         /\ \A w : Waiting(w)' <=> Waiting(w) \/ what = w
         /\ \A command, other :
              /\ Last(command, other) /\ what # other => Last(command, other)'
              /\ what = command => Last(command, other)'
BY ItemIs, PostedItem

(* Commands are no successes of operations. *)
LEMMA PostedTask ==
  ASSUME TypeOK, Connect \/ Disconnect \/ Send
  PROVE  \A kinds \in SUBSET (Kinds \cup {"timer"}) : Succeeded(kinds)' = Succeeded(kinds)
<1>1. \E what \in Commands : Posted(Item(what, TRUE))
  BY PostedCommands DEF Commands
<1>2. \A kinds \in SUBSET (Kinds \cup {"timer"}) : Commands \cap kinds = {}
  BY DEF Commands, Kinds
<1>. QED
  BY <1>1, <1>2, PostedWhat

(* Successes and the transport. *)
LEMMA NextFresh ==
  ASSUME TypeOK, PresentInv, FreshInv, [Next]_vars, ~overtaken'
  PROVE  FreshInv'
<1>1. CASE Connect \/ Disconnect \/ Send
  BY <1>1, PostedTask DEF Connect, Disconnect, Send, transport, FreshInv
<1>2. CASE TimerExpires
  BY <1>2 DEF TimerExpires, PresentInv, FreshInv
<1>3. ASSUME NEW kind \in Kinds, NEW ok \in BOOLEAN, Complete(kind, ok)
      PROVE  FreshInv'
  BY <1>3 DEF Complete, PresentInv, FreshInv
<1>4. CASE Closes
  BY <1>4, ClosesAll DEF FreshInv
<1>5. CASE Plain
  BY <1>5, TookPlainly, TookSucceeded DEF FreshInv
<1>6. CASE UNCHANGED vars
  BY <1>6 DEF vars, transport, Succeeded, Indices, FreshInv
<1>. QED
  BY <1>1, <1>2, <1>3, <1>4, <1>5, <1>6 DEF Next, IoThread, Closes,
            Plain

(* The chain from the resolver to the next read. *)
LEMMA NextChain ==
  ASSUME TypeOK, FreshInv, ChainInv, [Next]_vars, ~overtaken'
  PROVE  ChainInv'
<1>1. CASE Connect \/ Disconnect \/ Send
  BY <1>1, PostedTask DEF Connect, Disconnect, Send, transport, Chain,
            Kinds, ChainInv
<1>2. CASE TimerExpires
  <2>1. Succeeded(Chain)' = Succeeded(Chain)
    BY <1>2, PostedCommands, PostedWhat DEF Chain
  <2>. QED
    BY <1>2, <2>1 DEF TimerExpires, ChainInv
<1>3. ASSUME NEW kind \in Kinds, NEW ok \in BOOLEAN, Complete(kind, ok)
      PROVE  ChainInv'
  <2>1. Succeeded(Chain)' = IF ok /\ kind \in Chain
                            THEN Succeeded(Chain) \cup {Len(queue) + 1} ELSE Succeeded(Chain)
    BY <1>3, PostedCommands, PostedWhat
  <2>2. kind \in pending /\ pending' = pending \ {kind}
    BY <1>3 DEF Complete
  <2>3. CASE kind \in Chain
    BY <2>1, <2>2, <2>3 DEF ChainInv
  <2>4. CASE kind \notin Chain
    BY <2>1, <2>2, <2>4 DEF ChainInv
  <2>. QED
    BY <2>3, <2>4
<1>4. CASE Closes
  <2>1. pending' \subseteq {"resolve"} /\ Succeeded(Chain)' = {}
    BY <1>4, ClosesAll DEF Chain, Kinds
  <2>. QED
    BY <2>1 DEF ChainInv
<1>5. CASE RunSend \/ OnWritten \/ OnConnectFailed \/ OnStreamFailed
  <2>1. pending' \cap Chain = pending \cap Chain
    BY <1>5 DEF RunSend, OnWritten, OnConnectFailed, OnStreamFailed, WriteNextMessage,
       Start, Nothing, Chain
  <2>2. Took /\ Chain \subseteq Kinds \cup {"timer"}
    BY <1>5, TookPlainly DEF Plain, Chain, Kinds
  <2>. QED
    BY <2>1, <2>2, TookSucceeded DEF ChainInv
<1>6. CASE OnResolved \/ OnTcpConnected \/ OnHandshake \/ OnRead
  <2>1. Took
    BY <1>6, TookPlainly DEF Plain
  <2>2. pending \cap Chain = {} /\ Succeeded(Chain)' = {}
    BY <1>6, <2>1, ChainSuccess DEF OnResolved, OnTcpConnected, OnHandshake, OnRead,
       Chain
  <2>3. \E kind \in Chain : pending' \in {pending, pending \cup {kind}}
    BY <1>6 DEF OnResolved, OnTcpConnected, OnHandshake, OnRead, StartRead, Start,
       Nothing, Chain
  <2>. QED
    BY <2>2, <2>3 DEF ChainInv
<1>7. CASE UNCHANGED vars
  BY <1>7 DEF vars, transport, Succeeded, Indices, ChainInv
<1>. QED
  BY <1>1, <1>2, <1>3, <1>4, <1>5, <1>6, <1>7 DEF Next, IoThread,
            Closes, Plain

(* The message that is being written. *)
LEMMA NextWrite ==
  ASSUME TypeOK, FreshInv, WriteInv, [Next]_vars, ~overtaken'
  PROVE  WriteInv'
<1>1. CASE Connect \/ Disconnect \/ Send
  BY <1>1, PostedTask DEF Connect, Disconnect, Send, transport, Kinds,
            WriteInv
<1>2. CASE TimerExpires
  <2>1. Succeeded({"write"})' = Succeeded({"write"})
    BY <1>2, PostedCommands, PostedWhat
  <2>. QED
    BY <1>2, <2>1 DEF TimerExpires, WriteInv
<1>3. ASSUME NEW kind \in Kinds, NEW ok \in BOOLEAN, Complete(kind, ok)
      PROVE  WriteInv'
  <2>1. Succeeded({"write"})' =
           IF ok /\ kind = "write"
           THEN Succeeded({"write"}) \cup {Len(queue) + 1} ELSE Succeeded({"write"})
    BY <1>3, PostedCommands, PostedWhat
  <2>2. kind \in pending /\ pending' = pending \ {kind} /\ wq' = wq
    BY <1>3 DEF Complete
  <2>3. CASE kind = "write"
    BY <2>1, <2>2, <2>3 DEF WriteInv
  <2>4. CASE kind # "write"
    BY <2>1, <2>2, <2>4 DEF WriteInv
  <2>. QED
    BY <2>3, <2>4
<1>4. CASE Closes
  <2>1. pending' \subseteq {"resolve"} /\ Succeeded({"write"})' = {}
    BY <1>4, ClosesAll DEF Kinds
  <2>. QED
    BY <2>1 DEF WriteInv
<1>5. CASE RunSend
  <2>1. Took /\ {"write"} \subseteq Kinds \cup {"timer"}
    BY <1>5, TookPlainly DEF Plain, Kinds
  <2>2. CASE present /\ wq = 0
    <3>1. Succeeded({"write"})' = {} /\ wq' = 1
      BY <1>5, <2>1, <2>2, TookSucceeded DEF RunSend, WriteInv
    <3>. QED
      BY <3>1 DEF WriteInv
  <2>3. CASE ~(present /\ wq = 0)
    <3>1. pending' = pending /\ (wq > 0 => wq' > 0)
      BY <1>5, <2>3 DEF RunSend, Nothing, TypeOK
    <3>. QED
      BY <2>1, <3>1, TookSucceeded DEF WriteInv
  <2>. QED
    BY <2>2, <2>3
<1>6. CASE OnWritten
  <2>1. Took
    BY <1>6, TookPlainly DEF Plain
  <2>2. wq > 0 /\ "write" \notin pending /\ Succeeded({"write"})' = {}
    BY <1>6, <2>1, WriteSuccess DEF OnWritten
  <2>3. wq > 1 => wq' > 0
    BY <1>6, <2>2 DEF OnWritten, TypeOK
  <2>4. "write" \in pending' => wq > 1
    BY <1>6, <2>2 DEF OnWritten, WriteNextMessage, Start, Nothing
  <2>. QED
    BY <2>2, <2>3, <2>4 DEF WriteInv
<1>7. CASE \/ OnResolved \/ OnTcpConnected \/ OnHandshake \/ OnRead
           \/ OnConnectFailed \/ OnStreamFailed
  <2>1. Took /\ {"write"} \subseteq Kinds \cup {"timer"}
    BY <1>7, TookPlainly DEF Plain, Kinds
  <2>2. \E kind \in Chain : pending' \in {pending, pending \cup {kind}}
    BY <1>7 DEF OnResolved, OnTcpConnected, OnHandshake, OnRead, OnConnectFailed,
             OnStreamFailed, StartRead, Start, Nothing, Chain
  <2>3. "write" \in pending' => "write" \in pending
    BY <2>2 DEF Chain
  <2>4. wq' = wq
    BY <1>7 DEF OnResolved, OnTcpConnected, OnHandshake, OnRead, OnConnectFailed,
       OnStreamFailed
  <2>. QED
    BY <2>1, <2>3, <2>4, TookSucceeded DEF WriteInv
<1>8. CASE UNCHANGED vars
  BY <1>8 DEF vars, transport, Succeeded, Indices, WriteInv
<1>. QED
  BY <1>1, <1>2, <1>3, <1>4, <1>5, <1>6, <1>7, <1>8 DEF Next, IoThread,
            Closes, Plain

(* Handlers find a transport, and no operation is started twice. *)
LEMMA NextDefined ==
  ASSUME TypeOK, PresentInv, FreshInv, ChainInv, WriteInv, ~ub,
         [Next]_vars, ~overtaken'
  PROVE  (~ub)'
<1>1. CASE Connect \/ Disconnect \/ Send \/ TimerExpires
  BY <1>1 DEF Connect, Disconnect, Send, TimerExpires, history
<1>2. ASSUME NEW kind \in Kinds, NEW ok \in BOOLEAN, Complete(kind, ok)
      PROVE  (~ub)'
  BY <1>2 DEF Complete, history
<1>3. CASE Closes
  BY <1>3, ClosesAll
<1>4. CASE RunSend
  <2>1. wq = 0 => "write" \notin pending
    BY DEF WriteInv
  <2>2. open => present
    BY DEF PresentInv
  <2>. QED
    BY <1>4, <2>1, <2>2 DEF RunSend, WriteNextMessage, Start, Nothing
<1>5. CASE OnConnectFailed \/ OnStreamFailed
  BY <1>5 DEF OnConnectFailed, OnStreamFailed
<1>6. CASE OnResolved \/ OnTcpConnected \/ OnHandshake \/ OnRead
  <2>1. Took
    BY <1>6, TookPlainly DEF Plain
  <2>2. present /\ pending \cap Chain = {}
    BY <1>6, <2>1, ChainSuccess DEF OnResolved, OnTcpConnected, OnHandshake, OnRead,
       Chain
  <2>. QED
    BY <1>6, <2>2 DEF OnResolved, OnTcpConnected, OnHandshake, OnRead, StartRead,
       Start, Nothing, Chain
<1>7. CASE OnWritten
  <2>1. Took
    BY <1>7, TookPlainly DEF Plain
  <2>2. present /\ "write" \notin pending
    BY <1>7, <2>1, WriteSuccess DEF OnWritten
  <2>. QED
    BY <1>7, <2>2 DEF OnWritten, WriteNextMessage, Start, Nothing
<1>8. CASE UNCHANGED vars
  BY <1>8 DEF vars, history
<1>. QED
  BY <1>1, <1>2, <1>3, <1>4, <1>5, <1>6, <1>7, <1>8 DEF Next, IoThread,
            Closes, Plain

(* The latest command. *)
LEMMA NextCommand ==
  ASSUME TypeOK, FreshInv, CommandInv, [Next]_vars, ~overtaken'
  PROVE  CommandInv'
<1>1. CASE Connect
  <2>1. Last("connect", "disconnect")' /\ ~manual'
    BY <1>1, PostedCommands, PostedWhat DEF Connect, Commands
  <2>. QED
    BY <2>1 DEF CommandInv
<1>2. CASE Disconnect
  <2>1. Last("disconnect", "connect")' /\ manual'
    BY <1>2, PostedCommands, PostedWhat DEF Disconnect, Commands
  <2>. QED
    BY <2>1 DEF CommandInv
<1>3. CASE Send
  <2>1. /\ \A w : Waiting(w)' <=> Waiting(w) \/ "send" = w
        /\ \A command, other :
              Last(command, other) /\ "send" # other => Last(command, other)'
    BY <1>3, PostedCommands, PostedWhat DEF Commands
  <2>. QED
    BY <1>3, <2>1 DEF Send, state, transport, CommandInv
<1>4. CASE TimerExpires
  <2>1. /\ \A w : Waiting(w)' <=> Waiting(w) \/ "timer" = w
        /\ \A command, other :
              Last(command, other) /\ "timer" # other => Last(command, other)'
    BY <1>4, PostedCommands, PostedWhat
  <2>. QED
    BY <1>4, <2>1 DEF TimerExpires, state, CommandInv
<1>5. ASSUME NEW kind \in Kinds, NEW ok \in BOOLEAN, Complete(kind, ok)
      PROVE  CommandInv'
  <2>1. /\ \A w : Waiting(w)' <=> Waiting(w) \/ kind = w
        /\ \A command, other :
              Last(command, other) /\ kind # other => Last(command, other)'
    BY <1>5, PostedCommands, PostedWhat
  <2>2. kind \notin {"connect", "disconnect"}
    BY DEF Kinds
  <2>. QED
    BY <1>5, <2>1, <2>2 DEF Complete, state, CommandInv
<1>6. CASE RunConnect
  <2>1. Took /\ queue[1].what = "connect" /\ Waiting("connect")
    BY <1>6, ClosesAll, TakenItem, LenProperties DEF Closes, RunConnect, Waiting,
       Indices, TypeOK
  <2>2. present' /\ manual' = manual
    BY <1>6 DEF RunConnect, ConnectOnIoThread, RecreateTransport, state
  <2>3. manual => Last("disconnect", "connect")'
    BY <2>1, TookLast DEF CommandInv, Commands
  <2>4. ~manual => Last("connect", "disconnect")' \/ ~Waiting("disconnect")'
    BY <2>1, TookLast, TookWaiting DEF CommandInv, Commands, Kinds
  <2>. QED
    BY <2>2, <2>3, <2>4 DEF CommandInv
<1>7. CASE RunDisconnect
  <2>1. Took /\ queue[1].what = "disconnect" /\ Waiting("disconnect")
    BY <1>7, ClosesAll, TakenItem, LenProperties DEF Closes, RunDisconnect, Waiting,
       Indices, TypeOK
  <2>2. ~present' /\ manual' = manual
    BY <1>7 DEF RunDisconnect
  <2>3. ~manual => Last("connect", "disconnect")'
    BY <2>1, TookLast DEF CommandInv, Commands
  <2>4. manual => Last("disconnect", "connect")' \/ ~Waiting("connect")'
    BY <2>1, TookLast, TookWaiting DEF CommandInv, Commands, Kinds
  <2>. QED
    BY <2>2, <2>3, <2>4 DEF CommandInv
<1>8. CASE OnReconnectTimer
  <2>1. Took /\ queue[1].what = "timer" /\ 1 \in Succeeded(Kinds \cup {"timer"})
    BY <1>8, ClosesAll, TakenItem DEF Closes, OnReconnectTimer, Succeeded
  <2>2. present /\ present' /\ manual' = manual
    BY <1>8, <2>1 DEF OnReconnectTimer, ConnectOnIoThread, RecreateTransport, state,
       FreshInv
  <2>3. manual => Last("disconnect", "connect")'
    BY <2>1, <2>2, TookLast DEF CommandInv, Commands
  <2>4. ~manual => Last("connect", "disconnect")' \/ ~Waiting("disconnect")'
    BY <2>1, TookLast, TookWaiting DEF CommandInv, Commands, Kinds
  <2>. QED
    BY <2>2, <2>3, <2>4 DEF CommandInv
<1>9. CASE Plain
  <2>1. /\ Took /\ queue[1].what \notin {"connect", "disconnect"}
        /\ UNCHANGED <<manual, present>>
    BY <1>9, TookPlainly
  <2>2. /\ Last("disconnect", "connect") => Last("disconnect", "connect")'
        /\ Last("connect", "disconnect") => Last("connect", "disconnect")'
    BY <2>1, TookLast DEF Commands
  <2>3. /\ Waiting("connect")' => Waiting("connect")
        /\ Waiting("disconnect")' => Waiting("disconnect")
    BY <2>1, TookWaiting DEF Kinds
  <2>. QED
    BY <2>1, <2>2, <2>3 DEF CommandInv
<1>10. CASE UNCHANGED vars
  BY <1>10 DEF vars, state, transport, Waiting, Last, Indices, CommandInv
<1>. QED
  BY <1>1, <1>2, <1>3, <1>4, <1>5, <1>6, <1>7, <1>8, <1>9, <1>10 DEF
            Next, IoThread, Closes, Plain

(* The read that watches the connection. *)
LEMMA NextWatched ==
  ASSUME TypeOK, ~overtaken, ~ub, FreshInv, ChainInv, ConnectedIsWatched,
         [Next]_vars, ~overtaken'
  PROVE  ConnectedIsWatched'
<1>1. CASE Connect \/ Disconnect \/ Send
  <2>1. Waiting("read") => Waiting("read")'
    BY <1>1, PostedCommands, PostedWhat DEF Commands
  <2>. QED
    BY <1>1, <2>1 DEF Connect, Disconnect, Send, state, transport, ConnectedIsWatched
<1>2. CASE TimerExpires
  <2>1. Waiting("read") => Waiting("read")'
    BY <1>2, PostedCommands, PostedWhat
  <2>. QED
    BY <1>2, <2>1 DEF TimerExpires, state, ConnectedIsWatched
<1>3. ASSUME NEW kind \in Kinds, NEW ok \in BOOLEAN, Complete(kind, ok)
      PROVE  ConnectedIsWatched'
  <2>1. Waiting("read")' <=> Waiting("read") \/ kind = "read"
    BY <1>3, PostedCommands, PostedWhat
  <2>. QED
    BY <1>3, <2>1 DEF Complete, state, ConnectedIsWatched
<1>4. CASE RunConnect \/ OnReconnectTimer
  <2>1. Took /\ ("read" \in pending => Waiting("read")')
    BY <1>4, ClosesAll DEF Closes
  <2>2. queue[1].what \in {"connect", "timer"}
    BY <1>4, TakenItem DEF RunConnect, OnReconnectTimer
  <2>3. Waiting("read") => Waiting("read")'
    BY <2>1, <2>2, TookWaiting
  <2>. QED
    BY <1>4, <2>1, <2>3 DEF RunConnect, OnReconnectTimer, ConnectOnIoThread, state,
                         ConnectedIsWatched
<1>5. CASE RunDisconnect \/ OnStreamFailed
  BY <1>5 DEF RunDisconnect, OnStreamFailed, ConnectedIsWatched
<1>6. CASE \/ RunSend \/ OnConnectFailed \/ OnResolved \/ OnTcpConnected
           \/ OnWritten
  <2>1. Took
    BY <1>6, TookPlainly DEF Plain
  <2>2. queue[1].what \in {"send", "resolve", "tcp", "handshake", "write"}
    BY <1>6, TakenItem DEF RunSend, OnConnectFailed, OnResolved, OnTcpConnected,
       OnWritten
  <2>3. Waiting("read") => Waiting("read")'
    BY <2>1, <2>2, TookWaiting
  <2>4. pending \subseteq pending' /\ connected' = connected
    BY <1>6 DEF RunSend, OnConnectFailed, OnResolved, OnTcpConnected, OnWritten,
             WriteNextMessage, Start, Nothing, state
  <2>. QED
    BY <2>3, <2>4 DEF ConnectedIsWatched
<1>7. CASE OnHandshake \/ OnRead
  <2>1. Took
    BY <1>7, TookPlainly DEF Plain
  <2>2. present /\ pending \cap Chain = {}
    BY <1>7, <2>1, ChainSuccess DEF OnHandshake, OnRead, Chain
  <2>3. "read" \in pending'
    BY <1>7, <2>2 DEF OnHandshake, OnRead, StartRead, Start, Chain
  <2>. QED
    BY <2>3 DEF ConnectedIsWatched
<1>8. CASE UNCHANGED vars
  BY <1>8 DEF vars, state, transport, history, Waiting, ConnectedIsWatched
<1>. QED
  BY <1>1, <1>2, <1>3, <1>4, <1>5, <1>6, <1>7, <1>8 DEF Next, IoThread,
            Closes, Plain

(* What leads to another attempt. *)
LEMMA NextTrying ==
  ASSUME TypeOK, FreshInv, ChainInv, CommandInv, TryingInv, [Next]_vars,
         ~overtaken'
  PROVE  TryingInv'
<1>1. CASE Connect
  <2>1. Waiting("connect")'
    BY <1>1, PostedCommands, PostedWhat DEF Commands
  <2>. QED
    BY <2>1 DEF TryingInv
<1>2. CASE Disconnect
  BY <1>2 DEF Disconnect, TryingInv
<1>3. CASE Send
  <2>1. \A w : Waiting(w) => Waiting(w)'
    BY <1>3, PostedCommands, PostedWhat DEF Commands
  <2>. QED
    BY <1>3, <2>1 DEF Send, state, transport, TryingInv
<1>4. CASE TimerExpires
  <2>1. Waiting("timer")'
    BY <1>4, PostedCommands, PostedWhat
  <2>. QED
    BY <2>1 DEF TryingInv
<1>5. ASSUME NEW kind \in Kinds, NEW ok \in BOOLEAN, Complete(kind, ok)
      PROVE  TryingInv'
  <2>1. \A w : Waiting(w)' <=> Waiting(w) \/ kind = w
    BY <1>5, PostedCommands, PostedWhat
  <2>2. pending' = pending \ {kind}
    BY <1>5 DEF Complete
  <2>3. CASE kind \in Chain
    BY <2>1, <2>3 DEF TryingInv
  <2>4. CASE kind \notin Chain
    <3>1. pending' \cap Chain = pending \cap Chain
      BY <2>2, <2>4
    <3>. QED
      BY <1>5, <2>1, <3>1 DEF Complete, state, TryingInv
  <2>. QED
    BY <2>3, <2>4
<1>6. CASE RunConnect \/ OnReconnectTimer
  <2>1. url_ok' => "resolve" \in pending' \cap Chain
    BY <1>6 DEF RunConnect, OnReconnectTimer, ConnectOnIoThread, Chain
  <2>. QED
    BY <2>1 DEF TryingInv
<1>7. CASE RunDisconnect
  <2>1. Took /\ queue[1].what = "disconnect" /\ Waiting("disconnect")
    BY <1>7, ClosesAll, TakenItem, LenProperties DEF Closes, RunDisconnect, Waiting,
       Indices, TypeOK
  <2>2. ~manual => Waiting("connect")
    BY <2>1, LenProperties DEF CommandInv, Last, Waiting, Indices, TypeOK
  <2>3. ~manual => Waiting("connect")'
    BY <2>1, <2>2, TookWaiting
  <2>. QED
    BY <1>7, <2>3 DEF RunDisconnect, TryingInv
<1>8. CASE RunSend \/ OnWritten
  <2>1. Took
    BY <1>8, TookPlainly DEF Plain
  <2>2. queue[1].what \in {"send", "write"}
    BY <1>8, TakenItem DEF RunSend, OnWritten
  <2>3. \A w \in Chain \cup {"connect", "timer"} : Waiting(w) => Waiting(w)'
    BY <2>1, <2>2, TookWaiting DEF Chain
  <2>4. pending \subseteq pending' /\ UNCHANGED <<manual, attempts, connected, url_ok, armed>>
    BY <1>8 DEF RunSend, OnWritten, WriteNextMessage, Start, Nothing, state
  <2>. QED
    BY <2>3, <2>4 DEF TryingInv
<1>9. CASE OnConnectFailed \/ OnStreamFailed
  <2>1. Took /\ queue[1].what # "connect"
    BY <1>9, TookPlainly DEF Plain
  <2>2. ~manual => present \/ Waiting("connect")
    BY LenProperties DEF CommandInv, Last, Waiting, Indices, TypeOK
  <2>3. ~manual => present \/ Waiting("connect")'
    BY <2>1, <2>2, TookWaiting
  <2>4. ~manual /\ ~(attempts >= MaxAttempts) => armed' = present
    BY <1>9 DEF OnConnectFailed, OnStreamFailed, AttemptReconnect
  <2>5. attempts >= MaxAttempts => attempts' = attempts
    BY <1>9 DEF OnConnectFailed, OnStreamFailed, AttemptReconnect
  <2>6. attempts >= MaxAttempts \/ attempts < MaxAttempts
    BY BoundsAssumption DEF TypeOK
  <2>7. attempts >= MaxAttempts => ~(attempts < MaxAttempts)
    BY BoundsAssumption DEF TypeOK
  <2>8. manual' = manual
    BY <1>9 DEF OnConnectFailed, OnStreamFailed
  <2>. QED
    BY <2>3, <2>4, <2>5, <2>6, <2>7, <2>8 DEF TryingInv
<1>10. CASE OnResolved \/ OnTcpConnected \/ OnHandshake \/ OnRead
  <2>1. Took
    BY <1>10, TookPlainly DEF Plain
  <2>2. present /\ pending \cap Chain = {}
    BY <1>10, <2>1, ChainSuccess DEF OnResolved, OnTcpConnected, OnHandshake, OnRead,
       Chain
  <2>3. \E kind \in Chain : kind \in pending'
    BY <1>10, <2>2 DEF OnResolved, OnTcpConnected, OnHandshake, OnRead, StartRead,
       Start, Chain
  <2>. QED
    BY <2>3 DEF TryingInv
<1>11. CASE UNCHANGED vars
  BY <1>11 DEF vars, state, transport, Waiting, TryingInv
<1>. QED
  BY <1>1, <1>2, <1>3, <1>4, <1>5, <1>6, <1>7, <1>8, <1>9, <1>10, <1>11
            DEF Next, IoThread, Closes, Plain

LEMMA TookWriteError ==
  ASSUME TypeOK, queue # <<>>, queue' = Append(Tail(queue), Item("write", FALSE))
  PROVE  Waiting("write")'
<1>1. Tail(queue) \in Seq(Items)
  BY TookTail
<1>2. Item("write", FALSE) \in Items /\ Item("write", FALSE).what = "write"
  BY ItemIs DEF Kinds
<1>3. /\ queue' \in Seq(Items) /\ Len(queue') = Len(Tail(queue)) + 1
      /\ queue'[Len(Tail(queue)) + 1] = Item("write", FALSE)
  BY <1>1, <1>2, AppendProperties
<1>4. Len(Tail(queue)) \in Nat /\ DOMAIN queue' = 1..Len(queue')
  BY <1>1, <1>3, LenProperties
<1>5. Len(Tail(queue)) + 1 \in DOMAIN queue'
  BY <1>3, <1>4
<1>. QED
  BY <1>2, <1>3, <1>5 DEF Waiting

(* A write that is begun is under way, or has failed already. *)
LEMMA WriteBegun ==
  ASSUME TypeOK, present, queue # <<>>, WriteNextMessage(Tail(queue))
  PROVE  "write" \in pending' \/ Waiting("write")'
BY TookWriteError DEF WriteNextMessage, Start, Nothing

(* What becomes of the first message of write_queue. *)
LEMMA NextSending ==
  ASSUME TypeOK, PresentInv, FreshInv, WriteInv, CommandInv, SendingInv,
         [Next]_vars, ~overtaken'
  PROVE  SendingInv'
<1>1. CASE Connect \/ Disconnect \/ Send
  <2>1. \A w : Waiting(w) => Waiting(w)'
    BY <1>1, PostedCommands, PostedWhat DEF Commands
  <2>. QED
    BY <1>1, <2>1 DEF Connect, Disconnect, Send, transport, SendingInv
<1>2. CASE TimerExpires
  <2>1. Waiting("timer")'
    BY <1>2, PostedCommands, PostedWhat
  <2>. QED
    BY <2>1 DEF SendingInv
<1>3. ASSUME NEW kind \in Kinds, NEW ok \in BOOLEAN, Complete(kind, ok)
      PROVE  SendingInv'
  <2>1. \A w : Waiting(w)' <=> Waiting(w) \/ kind = w
    BY <1>3, PostedCommands, PostedWhat
  <2>2. pending' = pending \ {kind} /\ UNCHANGED <<wq, spent, armed>> /\ (failed => failed')
    BY <1>3 DEF Complete
  <2>. QED
    BY <2>1, <2>2 DEF SendingInv
<1>4. CASE Closes
  <2>1. wq' = 0
    BY <1>4, ClosesAll
  <2>. QED
    BY <2>1 DEF SendingInv
<1>5. CASE RunSend
  <2>1. Took /\ queue # <<>>
    BY <1>5, TookQueue DEF IoThread
  <2>2. CASE present /\ wq = 0
    BY <1>5, <2>1, <2>2, WriteBegun DEF RunSend, SendingInv
  <2>3. CASE ~(present /\ wq = 0)
    <3>1. wq' > 0 => wq > 0
      BY <1>5, <2>3 DEF RunSend, TypeOK
    <3>2. queue[1].what = "send"
      BY <1>5, TakenItem DEF RunSend
    <3>3. \A w \in {"write", "timer", "connect", "disconnect"} : Waiting(w) => Waiting(w)'
      BY <2>1, <3>2, TookWaiting
    <3>4. UNCHANGED <<pending, spent, failed, armed>>
      BY <1>5, <2>3 DEF RunSend, Nothing, notes
    <3>. QED
      BY <3>1, <3>3, <3>4 DEF SendingInv
  <2>. QED
    BY <2>2, <2>3
<1>6. CASE OnWritten
  <2>1. Took /\ queue # <<>>
    BY <1>6, TookQueue DEF IoThread
  <2>2. present /\ wq > 0
    BY <1>6, <2>1, WriteSuccess DEF OnWritten
  <2>3. wq' > 0 => wq > 1
    BY <1>6, <2>2 DEF OnWritten, TypeOK
  <2>4. wq > 1 => WriteNextMessage(Tail(queue))
    BY <1>6, <2>2 DEF OnWritten
  <2>. QED
    BY <2>1, <2>2, <2>3, <2>4, WriteBegun DEF SendingInv
<1>7. CASE OnConnectFailed \/ OnStreamFailed
  <2>1. Took /\ queue[1].what # "disconnect"
    BY <1>7, TookPlainly DEF Plain
  <2>2. wq' = wq /\ (wq > 0 => present)
    BY <1>7 DEF OnConnectFailed, OnStreamFailed, PresentInv
  <2>3. present /\ manual => Waiting("disconnect")
    BY LenProperties DEF CommandInv, Last, Waiting, Indices, TypeOK
  <2>4. present /\ manual => Waiting("disconnect")'
    BY <2>1, <2>3, TookWaiting
  <2>5. ~manual => spent' \/ armed' = present
    BY <1>7 DEF OnConnectFailed, OnStreamFailed, AttemptReconnect
  <2>. QED
    BY <2>2, <2>4, <2>5 DEF SendingInv
<1>8. CASE OnResolved \/ OnTcpConnected \/ OnHandshake \/ OnRead
  <2>1. Took
    BY <1>8, TookPlainly DEF Plain
  <2>2. queue[1].what \in Chain
    BY <1>8, TakenItem DEF OnResolved, OnTcpConnected, OnHandshake, OnRead, Chain
  <2>3. \A w \in {"write", "timer", "connect", "disconnect"} : Waiting(w) => Waiting(w)'
    BY <2>1, <2>2, TookWaiting DEF Chain
  <2>4. pending \subseteq pending'
    BY <1>8 DEF OnResolved, OnTcpConnected, OnHandshake, OnRead, StartRead, Start,
       Nothing
  <2>5. UNCHANGED <<wq, spent, failed, armed>>
    BY <1>8 DEF OnResolved, OnTcpConnected, OnHandshake, OnRead, notes
  <2>. QED
    BY <2>3, <2>4, <2>5 DEF SendingInv
<1>9. CASE UNCHANGED vars
  BY <1>9 DEF vars, transport, Waiting, SendingInv
<1>. QED
  BY <1>1, <1>2, <1>3, <1>4, <1>5, <1>6, <1>7, <1>8, <1>9 DEF Next,
            IoThread, Closes, Plain

(* Reconnects that nothing has called for. *)
LEMMA NextStray ==
  ASSUME TypeOK, StrayInv, [Next]_vars, ~overtaken'
  PROVE  StrayInv'
<1>1. CASE Connect \/ Disconnect \/ Send
  BY <1>1, PostedTask DEF Connect, Disconnect, Send, transport, history,
            StrayInv
<1>2. CASE TimerExpires
  BY <1>2 DEF TimerExpires, history, StrayInv
<1>3. ASSUME NEW kind \in Kinds, NEW ok \in BOOLEAN, Complete(kind, ok)
      PROVE  StrayInv'
  <2>1. Succeeded({"timer"})' = Succeeded({"timer"})
    BY <1>3, PostedCommands, PostedWhat DEF Kinds
  <2>. QED
    BY <1>3, <2>1 DEF Complete, history, StrayInv
<1>4. CASE Closes
  <2>1. ~armed' /\ Succeeded({"timer"})' = {}
    BY <1>4, ClosesAll
  <2>. QED
    BY <2>1 DEF StrayInv
<1>5. CASE \/ RunSend \/ OnResolved \/ OnTcpConnected \/ OnHandshake
           \/ OnRead \/ OnWritten
  <2>1. Succeeded({"timer"}) = {} => Succeeded({"timer"})' = {}
    BY <1>5, TookPlainly, TookSucceeded DEF Plain
  <2>2. UNCHANGED <<armed, failed, stray>>
    BY <1>5 DEF RunSend, OnResolved, OnTcpConnected, OnHandshake, OnRead, OnWritten,
       notes
  <2>. QED
    BY <2>1, <2>2 DEF StrayInv
<1>6. CASE OnConnectFailed \/ OnStreamFailed
  <2>1. Succeeded({"timer"}) = {} => Succeeded({"timer"})' = {}
    BY <1>6, TookPlainly, TookSucceeded DEF Plain
  <2>2. /\ failed' = failed /\ (stray => stray')
        /\ armed' => armed \/ failed \/ stray'
    BY <1>6 DEF OnConnectFailed, OnStreamFailed, AttemptReconnect
  <2>. QED
    BY <2>1, <2>2 DEF StrayInv
<1>7. CASE UNCHANGED vars
  BY <1>7 DEF vars, transport, history, Succeeded, Indices, StrayInv
<1>. QED
  BY <1>1, <1>2, <1>3, <1>4, <1>5, <1>6, <1>7 DEF Next, IoThread,
            Closes, Plain

-----------------------------------------------------------------------------
LEMMA InitIInv == Init => IInv
<1>. SUFFICES ASSUME Init PROVE IInv
  OBVIOUS
<1>. DEFINE x == Item("connect", TRUE)
<1>1. x \in Items /\ x.what = "connect" /\ queue = <<x>>
  BY ItemIs DEF Init, Commands
<1>. HIDE DEF x
<1>2. queue \in Seq(Items) /\ Len(queue) = 1 /\ queue[1] = x /\ DOMAIN queue = 1..1
  BY <1>1
<1>3. TypeOK
  <2>1. attempts \in 0..MaxAttempts /\ wq \in Nat
    BY BoundsAssumption DEF Init
  <2>. QED
    BY <1>2, <2>1 DEF Init, TypeOK
<1>4. \A kinds \in SUBSET (Kinds \cup {"timer"}) : Succeeded(kinds) = {}
  BY <1>1, <1>2 DEF Succeeded, Indices, Kinds
<1>5. Waiting("connect") /\ Last("connect", "disconnect")
  BY <1>1, <1>2 DEF Waiting, Last, Indices
<1>6. PresentInv /\ FreshInv /\ ChainInv /\ WriteInv /\ StrayInv
  BY <1>4 DEF Init, PresentInv, FreshInv, ChainInv, WriteInv, StrayInv, Chain, Kinds
<1>7. CommandInv /\ ConnectedIsWatched /\ TryingInv /\ SendingInv /\ ~ub
  BY <1>5 DEF Init, CommandInv, ConnectedIsWatched, TryingInv, SendingInv
<1>. QED
  BY <1>3, <1>6, <1>7 DEF IInv, CalmInv

LEMMA NextIInv == IInv /\ [Next]_vars => IInv'
<1>. SUFFICES ASSUME IInv, [Next]_vars PROVE IInv'
  OBVIOUS
<1>1. TypeOK' /\ PresentInv'
  BY NextType, NextPresent DEF IInv
<1>2. ASSUME ~overtaken'
      PROVE  /\ ~ub'
             /\ FreshInv' /\ ChainInv' /\ WriteInv'
             /\ CommandInv' /\ ConnectedIsWatched'
             /\ TryingInv' /\ SendingInv' /\ StrayInv'
  <2>1. ~overtaken
    BY <1>2, StaysOvertaken
  <2>. QED
    BY <1>2, <2>1, NextFresh, NextChain, NextWrite, NextDefined, NextCommand,
       NextWatched, NextTrying, NextSending, NextStray DEF IInv, CalmInv
<1>. QED
  BY <1>1, <1>2 DEF IInv, CalmInv

LEMMA Invariance == Spec => []IInv
BY InitIInv, NextIInv, PTL DEF Spec

\* The specification of the run, whose behaviours go on only while they are
\* calm, and fairly, has no others.
LEMMA CalmIsSpec == CalmSpec => Spec
<1>1. [Calm /\ Next]_vars => [Next]_vars
  OBVIOUS
<1>. QED
  BY <1>1, PTL DEF CalmSpec, Spec

(* Unless a success was overtaken by CloseTransport, no handler uses a     *)
(* websocket that is gone and none starts an operation twice.              *)
THEOREM HandlersAreSafe == Spec => []HandlersFindTheirTransport
<1>1. IInv => HandlersFindTheirTransport
  BY DEF IInv, CalmInv, HandlersFindTheirTransport
<1>. QED
  BY <1>1, Invariance, PTL

(* While is_connected_ holds, a read is under way that notices the loss.   *)
THEOREM ConnectionWatched == Spec => []ConnectedIsWatched
<1>1. IInv => ConnectedIsWatched
  BY DEF IInv, CalmInv, ConnectedIsWatched
<1>. QED
  BY <1>1, Invariance, PTL

(* The client stops trying only when it is told to, cannot parse its URL   *)
(* or has used up its attempts.                                            *)
THEOREM ClientKeepsTrying == Spec => []KeepsTrying
<1>1. IInv => KeepsTrying
  BY DEF IInv, CalmInv, TryingInv, KeepsTrying, Chain, Kinds
<1>. QED
  BY <1>1, Invariance, PTL

(* A message at the front of write_queue is being written or leads to a    *)
(* new transport, with the exceptions SendingGoesOn names.                 *)
THEOREM MessagesGoOn == Spec => []SendingGoesOn
<1>1. IInv => SendingGoesOn
  BY DEF IInv, CalmInv, SendingInv, SendingGoesOn
<1>. QED
  BY <1>1, Invariance, PTL

(* No step gives up a connection that works but at the user's command or   *)
(* after a stray reconnect.                                                *)
THEOREM WorkingKept == Spec => WorkingConnectionIsKept
<1>. DEFINE Kept == (open /\ ~failed /\ ~open') =>
               overtaken \/ stray \/ Head(queue).what \in {"connect", "disconnect"}
<1>1. ASSUME IInv, [Next]_vars PROVE [Kept]_vars
  <2>1. CASE Connect \/ Disconnect \/ Send \/ TimerExpires
    BY <2>1 DEF Connect, Disconnect, Send, TimerExpires, transport
  <2>2. ASSUME NEW kind \in Kinds, NEW ok \in BOOLEAN, Complete(kind, ok)
        PROVE  Kept
    BY <2>2 DEF Complete
  <2>3. CASE Plain
    BY <1>1, <2>3, TookPlainly DEF IInv
  <2>4. CASE RunConnect \/ RunDisconnect
    BY <2>4 DEF RunConnect, RunDisconnect, Take
  <2>5. CASE OnReconnectTimer
    <3>1. 1 \in Succeeded({"timer"})
      BY <1>1, <2>5, TakenItem DEF IInv, OnReconnectTimer, Succeeded
    <3>. QED
      BY <1>1, <3>1 DEF IInv, CalmInv, StrayInv
  <2>6. CASE UNCHANGED vars
    BY <2>6
  <2>. QED
    BY <1>1, <2>1, <2>2, <2>3, <2>4, <2>5, <2>6 DEF Next, IoThread, Plain
<1>. QED
  BY <1>1, Invariance, PTL DEF Spec, WorkingConnectionIsKept
=============================================================================
