------------------------- MODULE CallProtocolProofs -------------------------
(***************************************************************************)
(* Proofs about CallProtocol, for any users, any capacity of the channels  *)
(* and any number of calls: a call joins two users who name each other,    *)
(* and neither of them is left in it without a message that will end it,   *)
(* unless a message was lost or the caller gave up.                        *)
(***************************************************************************)
EXTENDS CallProtocol, SequenceTheorems, TLAPS

-----------------------------------------------------------------------------
(* Messages. *)

Ids == Nat \ {NoCall}

Calls ==
    [type : {"call-request"}, from : Users, to : Users, payload : [callId : Ids]]
    \cup [type : {"call-response"}, from : Users, to : Users,
          payload : [callId : Ids, accepted : BOOLEAN]]
    \cup [type : {"call-end"}, from : Users, to : Users, payload : [callId : Ids]]

Notices == {OfflineMessage(u) : u \in Users}

Traffic == Calls \cup Notices

\* The call a message is about, and what it says of it.
Call(m) == ParseSignalingMessage(m).call

Kind(m) ==
    LET p == ParseSignalingMessage(m) IN
    IF p.type # "call-response" THEN p.type
    ELSE IF p.accepted THEN "accept" ELSE "reject"

About(m, k, c) == Kind(m) = k /\ Call(m) = c

Has(q, k, c) == \E m \in ToSet(q) : About(m, k, c)

-----------------------------------------------------------------------------
(* A line: what one user has sent, q, and what another will receive, r. *)

On(q, r, k, c) == Has(q, k, c) \/ Has(r, k, c)

\* The request of a call is sent once.
One(q, c) ==
    \A i, j \in 1..Len(q) :
        About(q[i], "call-request", c) /\ About(q[j], "call-request", c) => i = j

Single(q, r, c) ==
    /\ One(q, c) /\ One(r, c)
    /\ ~(Has(q, "call-request", c) /\ Has(r, "call-request", c))

\* Behind the request there is the end of the call.
Followed(q, c) ==
    \A i \in 1..Len(q) : About(q[i], "call-request", c) =>
        \E j \in 1..Len(q) : i < j /\ About(q[j], "call-end", c)

Behind(q, r, c) ==
    Followed(q, c) /\ (Has(q, "call-end", c) \/ Followed(r, c))

-----------------------------------------------------------------------------
(* The inductive invariant. *)

Sessions ==
    {Idle} \cup [state : {"Calling", "Receiving", "Connecting", "Connected"},
                 peer : Users, call : Ids]

Types ==
    /\ user \in [Users -> Sessions]
    /\ next \in Ids
    /\ up \in [Users -> Seq(Calls)]
    /\ down \in [Users -> Seq(Traffic)]
    /\ online \subseteq Users /\ grace \subseteq Users
    /\ \A u \in Users : user[u].call < next
    /\ \A u \in Users : \A m \in ToSet(up[u]) : m.from = u /\ Call(m) < next
    /\ \A u \in Users : \A m \in ToSet(down[u]) : Call(m) < next

\* Call c of the caller x is with the callee y and nobody else.
Parties(x, y, c) ==
    \A u \in Users : InCall(u, c) =>
        \/ /\ u = x /\ user[u].peer = y
           /\ user[u].state \in {"Calling", "Connecting", "Connected"}
        \/ /\ u = y /\ user[u].peer = x
           /\ user[u].state \in {"Receiving", "Connecting", "Connected"}

\* A message of the call from f to t: the caller requests, the callee answers.
Fits(f, t, k, x, y) ==
    \/ f = x /\ t = y /\ k \in {"call-request", "call-end"}
    \/ f = y /\ t = x /\ k \in {"accept", "reject", "call-end"}

Envelopes(x, y, c) ==
    \A u \in Users :
        /\ \A m \in ToSet(up[u]) : Call(m) = c => Fits(u, m.to, Kind(m), x, y)
        /\ \A m \in ToSet(down[u]) : Call(m) = c => Fits(m.from, u, Kind(m), x, y)

\* Where a user is in the call.
Phase(u, c) == IF InCall(u, c) THEN user[u].state ELSE "out"

(* What is on its way in a call that lost no message and did not time out: *)
(* a request that nobody has answered, an answer that is still to come, or *)
(* the end that the other side has not heard of.                           *)
Flow(x, y, c) ==
    LET sx == Phase(x, c)
        sy == Phase(y, c)
        toY(k) == On(up[x], down[y], k, c)
        toX(k) == On(up[y], down[x], k, c)
    IN  /\ toY("call-request") =>
              /\ sy = "out"
              /\ ~toX("accept") /\ ~toX("reject") /\ ~toX("call-end")
              /\ sx = "out" => Behind(up[x], down[y], c)
        /\ toY("call-request") \/ toX("reject") \/ sy = "Receiving" =>
              sx \in {"out", "Calling"}
        /\ sy = "Receiving" => ~toX("accept")
        /\ toX("reject") => sy = "out" /\ ~toX("accept")
        /\ toY("call-end") => sx = "out"
        /\ toX("call-end") => sy = "out"
        /\ sy # "out" /\ sx = "out" => toY("call-end")
        /\ sx # "out" /\ sy = "out" =>
              toY("call-request") \/ toX("reject") \/ toX("call-end")

Orderly(x, y, c) ==
    /\ x # y
    /\ Parties(x, y, c)
    /\ Envelopes(x, y, c)
    /\ Single(up[x], down[y], c)
    /\ c \notin lost \cup timedout => Flow(x, y, c)

CallInv == \A c \in Ids : c < next => \E x, y \in Users : Orderly(x, y, c)

IInv == Types /\ CallInv

-----------------------------------------------------------------------------
(* Parsing. *)

\* What the codec makes of a message of a client.
LEMMA ParsedCall ==
  ASSUME NEW m \in Calls
  PROVE  LET p == ParseSignalingMessage(m) IN
         /\ p.from = m.from /\ m.from \in Users /\ m.to \in Users
         /\ p.call \in Ids
         /\ p.accepted \in BOOLEAN
         /\ p.type \in {"call-request", "call-response", "call-end"}
         /\ m.type = p.type
<1>1. CASE m \in [type : {"call-request"}, from : Users, to : Users,
                  payload : [callId : Ids]]
  BY <1>1 DEF ParseSignalingMessage, Value
<1>2. CASE m \in [type : {"call-response"}, from : Users, to : Users,
                  payload : [callId : Ids, accepted : BOOLEAN]]
  BY <1>2 DEF ParseSignalingMessage, Value
<1>3. CASE m \in [type : {"call-end"}, from : Users, to : Users,
                  payload : [callId : Ids]]
  BY <1>3 DEF ParseSignalingMessage, Value
<1>. QED
  BY <1>1, <1>2, <1>3 DEF Calls

\* The kinds of messages of a client.
LEMMA CallKinds ==
  ASSUME NEW m \in Calls
  PROVE  LET p == ParseSignalingMessage(m) IN
         /\ Call(m) \in Ids /\ Call(m) = p.call
         /\ Kind(m) \in {"call-request", "accept", "reject", "call-end"}
         /\ p.type = "call-request" <=> Kind(m) = "call-request"
         /\ p.type = "call-end" <=> Kind(m) = "call-end"
         /\ p.type = "call-response" /\ p.accepted <=> Kind(m) = "accept"
         /\ p.type = "call-response" /\ ~p.accepted <=> Kind(m) = "reject"
         /\ p.type # "user-offline"
BY ParsedCall DEF Call, Kind

\* The server says of itself that it is the sender, and names nobody's call.
LEMMA ParsedNotice ==
  ASSUME NEW m \in Notices
  PROVE  LET p == ParseSignalingMessage(m) IN
         /\ p.call = NoCall /\ Call(m) = NoCall
         /\ p.type = "user-offline" /\ p.offline \in Users
BY DEF Notices, OfflineMessage, ParseSignalingMessage, Value, Call

\* What the managers send: a request,
LEMMA BuiltRequest ==
  ASSUME NEW f \in Users, NEW t \in Users, NEW c \in Ids
  PROVE  LET m == BuildCallRequestMessage(f, t, c) IN
         /\ m \in Calls /\ m.from = f /\ m.to = t
         /\ Call(m) = c /\ Kind(m) = "call-request"
BY DEF BuildCallRequestMessage, Calls, Call, Kind, ParseSignalingMessage, Value

\* an answer,
LEMMA BuiltResponse ==
  ASSUME NEW f \in Users, NEW t \in Users, NEW c \in Ids, NEW z \in BOOLEAN
  PROVE  LET m == BuildCallResponseMessage(f, t, c, z) IN
         /\ m \in Calls /\ m.from = f /\ m.to = t
         /\ Call(m) = c /\ Kind(m) = IF z THEN "accept" ELSE "reject"
BY DEF BuildCallResponseMessage, Calls, Call, Kind, ParseSignalingMessage, Value

\* which a busy callee gives at once,
LEMMA BuiltRejection ==
  ASSUME NEW f \in Users, NEW t \in Users, NEW c \in Ids
  PROVE  LET m == BuildCallResponseMessage(f, t, c, FALSE) IN
         /\ m \in Calls /\ m.from = f /\ m.to = t
         /\ Call(m) = c /\ Kind(m) = "reject"
BY DEF BuildCallResponseMessage, Calls, Call, Kind, ParseSignalingMessage, Value

\* and the end of a call.
LEMMA BuiltEnd ==
  ASSUME NEW f \in Users, NEW t \in Users, NEW c \in Ids
  PROVE  LET m == BuildCallEndMessage(f, t, c) IN
         /\ m \in Calls /\ m.from = f /\ m.to = t
         /\ Call(m) = c /\ Kind(m) = "call-end"
BY DEF BuildCallEndMessage, Calls, Call, Kind, ParseSignalingMessage, Value

\* The server writes the sender into a message; a client has written it already.
LEMMA Addressed ==
  ASSUME NEW m \in Calls, NEW u, m.from = u
  PROVE  [m EXCEPT !.from = u] = m
<1>1. CASE m \in [type : {"call-request"}, from : Users, to : Users,
                  payload : [callId : Ids]]
  BY <1>1
<1>2. CASE m \in [type : {"call-response"}, from : Users, to : Users,
                  payload : [callId : Ids, accepted : BOOLEAN]]
  BY <1>2
<1>3. CASE m \in [type : {"call-end"}, from : Users, to : Users,
                  payload : [callId : Ids]]
  BY <1>3
<1>. QED
  BY <1>1, <1>2, <1>3 DEF Calls

\* A lost message is about its call.
LEMMA LostCalls ==
  ASSUME NEW m \in Calls
  PROVE  CallsOf(<<m>>) = {Call(m)}
BY CallKinds DEF CallsOf, ToSet, Call, Ids

-----------------------------------------------------------------------------
(* Queues. *)

\* The messages of a queue that grows at its end.
LEMMA Grows ==
  ASSUME NEW S, NEW q \in Seq(S), NEW m \in S
  PROVE  /\ ToSet(Append(q, m)) = ToSet(q) \cup {m}
         /\ \A k, c : Has(Append(q, m), k, c) <=> Has(q, k, c) \/ About(m, k, c)
<1>1. /\ Len(Append(q, m)) = Len(q) + 1 /\ Len(q) \in Nat
      /\ \A i \in 1..Len(q) : Append(q, m)[i] = q[i]
      /\ Append(q, m)[Len(q) + 1] = m
      /\ Append(q, m) \in Seq(S)
  BY AppendProperties, LenProperties
<1>2. DOMAIN q = 1..Len(q) /\ DOMAIN Append(q, m) = 1..(Len(q) + 1)
  BY <1>1, LenProperties
<1>3. ToSet(Append(q, m)) = ToSet(q) \cup {m}
  BY <1>1, <1>2 DEF ToSet
<1>. QED
  BY <1>3 DEF Has

\* The messages of a queue whose first one is taken.
LEMMA Shrinks ==
  ASSUME NEW S, NEW q \in Seq(S), q # <<>>
  PROVE  /\ Head(q) \in S /\ Tail(q) \in Seq(S)
         /\ ToSet(q) = ToSet(Tail(q)) \cup {Head(q)}
         /\ \A k, c : Has(q, k, c) <=> Has(Tail(q), k, c) \/ About(Head(q), k, c)
<1>1. /\ Head(q) \in S /\ Tail(q) \in Seq(S) /\ Len(Tail(q)) = Len(q) - 1
      /\ \A i \in 1..Len(Tail(q)) : Tail(q)[i] = q[i + 1]
      /\ Head(q) = q[1] /\ Len(q) \in Nat /\ Len(q) >= 1
  BY HeadTailProperties, LenProperties, EmptySeq
<1>2. DOMAIN q = 1..Len(q) /\ DOMAIN Tail(q) = 1..(Len(q) - 1)
  BY <1>1, LenProperties
<1>3. ASSUME NEW i \in 1..Len(q), i # 1
      PROVE  i - 1 \in 1..(Len(q) - 1) /\ q[i] = Tail(q)[i - 1]
  <2>1. i - 1 \in 1..(Len(q) - 1) /\ (i - 1) + 1 = i
    BY <1>1, <1>3
  <2>. QED
    BY <1>1, <2>1
<1>4. \A i \in 1..(Len(q) - 1) : i + 1 \in 1..Len(q) /\ Tail(q)[i] = q[i + 1]
  BY <1>1
<1>5. 1 \in 1..Len(q)
  BY <1>1
<1>6. ToSet(q) \subseteq ToSet(Tail(q)) \cup {Head(q)}
  <2>. SUFFICES ASSUME NEW i \in 1..Len(q) PROVE q[i] \in ToSet(Tail(q)) \cup {Head(q)}
    BY <1>2 DEF ToSet
  <2>1. CASE i = 1
    BY <1>1, <2>1
  <2>2. CASE i # 1
    BY <1>2, <1>3, <2>2 DEF ToSet
  <2>. QED
    BY <2>1, <2>2
<1>7. ToSet(Tail(q)) \cup {Head(q)} \subseteq ToSet(q)
  BY <1>1, <1>2, <1>4, <1>5 DEF ToSet
<1>8. ToSet(q) = ToSet(Tail(q)) \cup {Head(q)}
  BY <1>6, <1>7
<1>. QED
  BY <1>1, <1>8 DEF Has

\* A message of a queue is at some place.
LEMMA Placed ==
  ASSUME NEW S, NEW q \in Seq(S), NEW k, NEW c
  PROVE  /\ Len(q) \in Nat
         /\ Has(q, k, c) <=> \E i \in 1..Len(q) : About(q[i], k, c)
         /\ ~Has(q, "call-request", c) => One(q, c) /\ Followed(q, c)
<1>1. Len(q) \in Nat /\ DOMAIN q = 1..Len(q)
  BY LenProperties
<1>2. \A n : Has(q, n, c) <=> \E i \in 1..Len(q) : About(q[i], n, c)
  BY <1>1 DEF Has, ToSet
<1>. QED
  BY <1>1, <1>2 DEF One, Followed

\* One more message: still one request, and what follows it.
LEMMA GrowsInOrder ==
  ASSUME NEW S, NEW q \in Seq(S), NEW m \in S, NEW c
  PROVE  LET r == Append(q, m) IN
         /\ One(q, c) /\ ~(About(m, "call-request", c) /\ Has(q, "call-request", c))
               => One(r, c)
         /\ ~About(m, "call-request", c) /\ Followed(q, c) => Followed(r, c)
         /\ About(m, "call-end", c) => Followed(r, c)
<1>. DEFINE r == Append(q, m)
            n == Len(q)
<1>1. /\ Len(r) = n + 1 /\ n \in Nat
      /\ \A i \in 1..n : r[i] = q[i]
      /\ r[n + 1] = m
  BY AppendProperties, LenProperties
<1>2. \A i \in 1..(n + 1) : i \in 1..n \/ i = n + 1
  BY <1>1
<1>3. \A i \in 1..n : i \in 1..(n + 1) /\ i < n + 1
  BY <1>1
<1>4. n + 1 \in 1..(n + 1)
  BY <1>1
<1>5. \A k : Has(q, k, c) <=> \E i \in 1..n : About(q[i], k, c)
  BY Placed
<1>. HIDE DEF r, n
<1>6. ASSUME One(q, c), ~(About(m, "call-request", c) /\ Has(q, "call-request", c))
      PROVE  One(r, c)
  <2>. SUFFICES ASSUME NEW i \in 1..(n + 1), NEW j \in 1..(n + 1),
                       About(r[i], "call-request", c), About(r[j], "call-request", c)
                PROVE  i = j
    BY <1>1 DEF One
  <2>1. CASE i \in 1..n /\ j \in 1..n
    BY <1>1, <1>6, <2>1 DEF One, n
  <2>2. CASE i = n + 1 /\ j \in 1..n
    BY <1>1, <1>5, <1>6, <2>2
  <2>3. CASE i \in 1..n /\ j = n + 1
    BY <1>1, <1>5, <1>6, <2>3
  <2>. QED
    BY <1>2, <2>1, <2>2, <2>3
<1>7. ASSUME ~About(m, "call-request", c), Followed(q, c)
      PROVE  Followed(r, c)
  <2>. SUFFICES ASSUME NEW i \in 1..(n + 1), About(r[i], "call-request", c)
                PROVE  \E j \in 1..(n + 1) : i < j /\ About(r[j], "call-end", c)
    BY <1>1 DEF Followed
  <2>1. i \in 1..n /\ About(q[i], "call-request", c)
    BY <1>1, <1>2, <1>7
  <2>2. PICK j \in 1..n : i < j /\ About(q[j], "call-end", c)
    BY <1>7, <2>1 DEF Followed, n
  <2>. QED
    BY <1>1, <1>3, <2>2
<1>8. ASSUME About(m, "call-end", c)
      PROVE  Followed(r, c)
  <2>. SUFFICES ASSUME NEW i \in 1..(n + 1), About(r[i], "call-request", c)
                PROVE  \E j \in 1..(n + 1) : i < j /\ About(r[j], "call-end", c)
    BY <1>1 DEF Followed
  <2>1. i # n + 1
    BY <1>1, <1>8 DEF About
  <2>. QED
    BY <1>1, <1>2, <1>3, <1>4, <1>8, <2>1
<1>. QED
  BY <1>6, <1>7, <1>8 DEF r

\* One message less, likewise.
LEMMA ShrinksInOrder ==
  ASSUME NEW S, NEW q \in Seq(S), q # <<>>, NEW c
  PROVE  LET r == Tail(q)
             m == Head(q)
         IN  /\ One(q, c) => One(r, c)
             /\ One(q, c) /\ About(m, "call-request", c) => ~Has(r, "call-request", c)
             /\ Followed(q, c) => Followed(r, c)
             /\ Followed(q, c) /\ About(m, "call-request", c) => Has(r, "call-end", c)
<1>. DEFINE r == Tail(q)
            m == Head(q)
            n == Len(q)
<1>1. /\ r \in Seq(S) /\ Len(r) = n - 1
      /\ \A i \in 1..(n - 1) : r[i] = q[i + 1]
      /\ m = q[1] /\ n \in Nat /\ n >= 1
  BY HeadTailProperties, LenProperties, EmptySeq
<1>2. \A k : Has(r, k, c) <=> \E i \in 1..(n - 1) : About(q[i + 1], k, c)
  BY <1>1, Placed
<1>3. \A i \in 1..(n - 1) : i + 1 \in 1..n /\ i + 1 # 1
  BY <1>1
<1>4. 1 \in 1..n
  BY <1>1
<1>5. \A i \in 1..n : i > 1 => i - 1 \in 1..(n - 1) /\ (i - 1) + 1 = i
  BY <1>1
<1>. HIDE DEF r, m, n
<1>6. ASSUME One(q, c) PROVE One(r, c)
  <2>. SUFFICES ASSUME NEW i \in 1..(n - 1), NEW j \in 1..(n - 1),
                       About(q[i + 1], "call-request", c), About(q[j + 1], "call-request", c)
                PROVE  i = j
    BY <1>1 DEF One
  <2>1. i + 1 = j + 1
    BY <1>3, <1>6 DEF One, n
  <2>. QED
    BY <2>1
<1>7. ASSUME One(q, c), About(m, "call-request", c) PROVE ~Has(r, "call-request", c)
  <2>. SUFFICES ASSUME NEW i \in 1..(n - 1), About(q[i + 1], "call-request", c)
                PROVE  FALSE
    BY <1>2
  <2>1. i + 1 = 1
    BY <1>1, <1>3, <1>4, <1>7 DEF One, n
  <2>. QED
    BY <1>3, <2>1
<1>8. ASSUME Followed(q, c) PROVE Followed(r, c)
  <2>. SUFFICES ASSUME NEW i \in 1..(n - 1), About(q[i + 1], "call-request", c)
                PROVE  \E j \in 1..(n - 1) : i < j /\ About(q[j + 1], "call-end", c)
    BY <1>1 DEF Followed
  <2>1. PICK j \in 1..n : i + 1 < j /\ About(q[j], "call-end", c)
    BY <1>3, <1>8 DEF Followed, n
  <2>2. j - 1 \in 1..(n - 1) /\ (j - 1) + 1 = j /\ i < j - 1
    BY <1>5, <2>1
  <2>. QED
    BY <2>1, <2>2
<1>9. ASSUME Followed(q, c), About(m, "call-request", c) PROVE Has(r, "call-end", c)
  <2>1. PICK j \in 1..n : 1 < j /\ About(q[j], "call-end", c)
    BY <1>1, <1>4, <1>9 DEF Followed, n
  <2>2. j - 1 \in 1..(n - 1) /\ (j - 1) + 1 = j
    BY <1>5, <2>1
  <2>. QED
    BY <1>2, <2>1, <2>2
<1>. QED
  BY <1>6, <1>7, <1>8, <1>9 DEF r, m

-----------------------------------------------------------------------------
(* Lines. *)

\* The line carries the same of call c as before.
Alike(q, r, q2, r2, c) ==
    /\ \A k : On(q2, r2, k, c) <=> On(q, r, k, c)
    /\ Single(q, r, c) => Single(q2, r2, c)
    /\ Behind(q, r, c) => Behind(q2, r2, c)

\* A message is sent.
LEMMA SentOn ==
  ASSUME NEW S, NEW T, NEW q \in Seq(S), NEW r \in Seq(T), NEW m \in S, NEW c
  PROVE  LET q2 == Append(q, m) IN
         /\ \A k : On(q2, r, k, c) <=> On(q, r, k, c) \/ About(m, k, c)
         /\ Single(q, r, c) /\ ~(About(m, "call-request", c) /\ On(q, r, "call-request", c))
               => Single(q2, r, c)
         /\ ~About(m, "call-request", c) /\ Behind(q, r, c) => Behind(q2, r, c)
         /\ About(m, "call-end", c) => Behind(q2, r, c)
         /\ Call(m) # c => Alike(q, r, q2, r, c)
<1>. DEFINE q2 == Append(q, m)
<1>1. \A k : Has(q2, k, c) <=> Has(q, k, c) \/ About(m, k, c)
  BY Grows
<1>2. /\ One(q, c) /\ ~(About(m, "call-request", c) /\ Has(q, "call-request", c))
            => One(q2, c)
      /\ ~About(m, "call-request", c) /\ Followed(q, c) => Followed(q2, c)
      /\ About(m, "call-end", c) => Followed(q2, c)
  BY GrowsInOrder
<1>. HIDE DEF q2
<1>3. \A k : On(q2, r, k, c) <=> On(q, r, k, c) \/ About(m, k, c)
  BY <1>1 DEF On
<1>4. Single(q, r, c) /\ ~(About(m, "call-request", c) /\ On(q, r, "call-request", c))
         => Single(q2, r, c)
  BY <1>1, <1>2 DEF Single, On
<1>5. ~About(m, "call-request", c) /\ Behind(q, r, c) => Behind(q2, r, c)
  BY <1>1, <1>2 DEF Behind
<1>6. About(m, "call-end", c) => Behind(q2, r, c)
  BY <1>1, <1>2 DEF Behind
<1>7. Call(m) # c => \A k : ~About(m, k, c)
  BY DEF About
<1>8. Call(m) # c => Alike(q, r, q2, r, c)
  BY <1>3, <1>4, <1>5, <1>7 DEF Alike
<1>. QED
  BY <1>3, <1>4, <1>5, <1>6, <1>8 DEF q2

\* A message is taken off the line by its receiver.
LEMMA TakenOff ==
  ASSUME NEW S, NEW T, NEW q \in Seq(S), NEW r \in Seq(T), r # <<>>, NEW c
  PROVE  LET r2 == Tail(r)
             m == Head(r)
         IN  /\ \A k : On(q, r, k, c) <=> On(q, r2, k, c) \/ About(m, k, c)
             /\ Single(q, r, c) => Single(q, r2, c)
             /\ Single(q, r, c) /\ About(m, "call-request", c)
                   => ~On(q, r2, "call-request", c)
             /\ Behind(q, r, c) => Behind(q, r2, c)
             /\ Behind(q, r, c) /\ About(m, "call-request", c)
                   => On(q, r2, "call-end", c)
             /\ Call(m) # c => Alike(q, r, q, r2, c)
<1>. DEFINE r2 == Tail(r)
            m == Head(r)
<1>1. \A k : Has(r, k, c) <=> Has(r2, k, c) \/ About(m, k, c)
  BY Shrinks
<1>2. /\ One(r, c) => One(r2, c)
      /\ One(r, c) /\ About(m, "call-request", c) => ~Has(r2, "call-request", c)
      /\ Followed(r, c) => Followed(r2, c)
      /\ Followed(r, c) /\ About(m, "call-request", c) => Has(r2, "call-end", c)
  BY ShrinksInOrder
<1>. HIDE DEF r2, m
<1>3. \A k : On(q, r, k, c) <=> On(q, r2, k, c) \/ About(m, k, c)
  BY <1>1 DEF On
<1>4. Single(q, r, c) => Single(q, r2, c)
  BY <1>1, <1>2 DEF Single
<1>5. Single(q, r, c) /\ About(m, "call-request", c) => ~On(q, r2, "call-request", c)
  BY <1>1, <1>2 DEF Single, On
<1>6. Behind(q, r, c) => Behind(q, r2, c)
  BY <1>2 DEF Behind
<1>7. Behind(q, r, c) /\ About(m, "call-request", c) => On(q, r2, "call-end", c)
  BY <1>2 DEF Behind, On
<1>8. Call(m) # c => \A k : ~About(m, k, c)
  BY DEF About
<1>9. Call(m) # c => Alike(q, r, q, r2, c)
  BY <1>3, <1>4, <1>6, <1>8 DEF Alike
<1>. QED
  BY <1>3, <1>4, <1>5, <1>6, <1>7, <1>9 DEF r2, m

\* The server passes a message on.
LEMMA PassedOn ==
  ASSUME NEW S, NEW T, NEW q \in Seq(S), NEW r \in Seq(T), q # <<>>, S \subseteq T, NEW c
  PROVE  Alike(q, r, Tail(q), Append(r, Head(q)), c)
<1>. DEFINE q2 == Tail(q)
            m == Head(q)
            r2 == Append(r, m)
<1>1. m \in T /\ \A k : Has(q, k, c) <=> Has(q2, k, c) \/ About(m, k, c)
  BY Shrinks
<1>2. \A k : Has(r2, k, c) <=> Has(r, k, c) \/ About(m, k, c)
  BY <1>1, Grows
<1>3. /\ One(q, c) => One(q2, c)
      /\ One(q, c) /\ About(m, "call-request", c) => ~Has(q2, "call-request", c)
      /\ Followed(q, c) => Followed(q2, c)
      /\ Followed(q, c) /\ About(m, "call-request", c) => Has(q2, "call-end", c)
  BY ShrinksInOrder
<1>4. /\ One(r, c) /\ ~(About(m, "call-request", c) /\ Has(r, "call-request", c))
            => One(r2, c)
      /\ ~About(m, "call-request", c) /\ Followed(r, c) => Followed(r2, c)
      /\ About(m, "call-end", c) => Followed(r2, c)
  BY <1>1, GrowsInOrder
<1>. HIDE DEF q2, m, r2
<1>5. \A k : On(q2, r2, k, c) <=> On(q, r, k, c)
  BY <1>1, <1>2 DEF On
<1>6. Single(q, r, c) => Single(q2, r2, c)
  BY <1>1, <1>2, <1>3, <1>4 DEF Single
<1>7. Behind(q, r, c) => Behind(q2, r2, c)
  BY <1>1, <1>2, <1>3, <1>4 DEF Behind
<1>. QED
  BY <1>5, <1>6, <1>7 DEF Alike, q2, m, r2

\* A message of another call leaves the line, or comes to it.
LEMMA Elsewhere ==
  ASSUME NEW S, NEW T, NEW q \in Seq(S), NEW r \in Seq(T), NEW c
  PROVE  /\ q # <<>> /\ Call(Head(q)) # c => Alike(q, r, Tail(q), r, c)
         /\ \A m \in T : Call(m) # c => Alike(q, r, q, Append(r, m), c)
<1>1. ASSUME q # <<>>, Call(Head(q)) # c PROVE Alike(q, r, Tail(q), r, c)
  <2>1. \A k : ~About(Head(q), k, c)
    BY <1>1 DEF About
  <2>2. \A k : Has(q, k, c) <=> Has(Tail(q), k, c)
    BY <1>1, <2>1, Shrinks
  <2>3. (One(q, c) => One(Tail(q), c)) /\ (Followed(q, c) => Followed(Tail(q), c))
    BY <1>1, ShrinksInOrder
  <2>. QED
    BY <2>2, <2>3 DEF Alike, On, Single, Behind
<1>2. ASSUME NEW m \in T, Call(m) # c PROVE Alike(q, r, q, Append(r, m), c)
  <2>1. \A k : ~About(m, k, c)
    BY <1>2 DEF About
  <2>2. \A k : Has(Append(r, m), k, c) <=> Has(r, k, c)
    BY <2>1, Grows
  <2>3. /\ One(r, c) => One(Append(r, m), c)
        /\ Followed(r, c) => Followed(Append(r, m), c)
    BY <2>1, GrowsInOrder
  <2>. QED
    BY <2>2, <2>3 DEF Alike, On, Single, Behind
<1>. QED
  BY <1>1, <1>2

\* A queue that is cleared, or a message that is dropped, repeats no request.
LEMMA Dropped ==
  ASSUME NEW S, NEW T, NEW q \in Seq(S), NEW r \in Seq(T), NEW c, Single(q, r, c)
  PROVE  /\ Single(<<>>, r, c) /\ Single(q, <<>>, c)
         /\ q # <<>> => Single(Tail(q), r, c)
<1>1. One(<<>>, c) /\ \A k : ~Has(<<>>, k, c)
  <2>1. Len(<<>>) = 0 /\ DOMAIN <<>> = {}
    OBVIOUS
  <2>. QED
    BY <2>1 DEF One, Has, ToSet
<1>2. q # <<>> => One(Tail(q), c)
  BY ShrinksInOrder DEF Single
<1>3. q # <<>> => (Has(Tail(q), "call-request", c) => Has(q, "call-request", c))
  BY Shrinks
<1>. QED
  BY <1>1, <1>2, <1>3 DEF Single

\* A queue without messages of the call can be cleared.
LEMMA Cleared ==
  ASSUME NEW S, NEW T, NEW q \in Seq(S), NEW r \in Seq(T), NEW c
  PROVE  /\ (\A m \in ToSet(q) : Call(m) # c) => Alike(q, r, <<>>, r, c)
         /\ (\A m \in ToSet(r) : Call(m) # c) => Alike(q, r, q, <<>>, c)
<1>1. One(<<>>, c) /\ Followed(<<>>, c) /\ \A k : ~Has(<<>>, k, c)
  <2>1. Len(<<>>) = 0 /\ DOMAIN <<>> = {}
    OBVIOUS
  <2>. QED
    BY <2>1 DEF One, Followed, Has, ToSet
<1>2. (\A m \in ToSet(q) : Call(m) # c) => \A k : ~Has(q, k, c)
  BY DEF Has, About
<1>3. (\A m \in ToSet(r) : Call(m) # c) => \A k : ~Has(r, k, c)
  BY DEF Has, About
<1>. QED
  BY <1>1, <1>2, <1>3 DEF Alike, On, Single, Behind

\* Nothing changes.
LEMMA Unmoved ==
  ASSUME NEW q, NEW r, NEW c
  PROVE  Alike(q, r, q, r, c)
BY DEF Alike

-----------------------------------------------------------------------------
(* Sessions and sending. *)

\* A client is idle, or in a call with a user.
LEMMA SessionIs ==
  ASSUME Types, NEW u \in Users
  PROVE  /\ user[u].state = "Idle" => user[u] = Idle
         /\ user[u].call = NoCall <=> user[u].state = "Idle"
         /\ user[u].state # "Idle" =>
               /\ user[u].peer \in Users /\ user[u].call \in Ids
               /\ user[u].state \in {"Calling", "Receiving", "Connecting", "Connected"}
               /\ user[u] \in [state : {"Calling", "Receiving", "Connecting", "Connected"},
                               peer : Users, call : Ids]
BY DEF Types, Sessions, Idle, Ids, NoCall

\* A session goes on.
LEMMA Entered ==
  ASSUME Types, NEW u \in Users, user[u].state # "Idle",
         NEW s \in {"Connecting", "Connected"}, Enter(u, s)
  PROVE  /\ user' \in [Users -> Sessions]
         /\ user'[u].state = s /\ user'[u].peer = user[u].peer
         /\ user'[u].call = user[u].call
         /\ \A w \in Users : w # u => user'[w] = user[w]
<1>1. user[u] \in [state : {"Calling", "Receiving", "Connecting", "Connected"},
                   peer : Users, call : Ids]
  BY SessionIs
<1>2. user \in [Users -> Sessions]
  BY DEF Types
<1>3. user' = [user EXCEPT ![u] = [user[u] EXCEPT !.state = s]]
  BY DEF Enter
<1>4. [user[u] EXCEPT !.state = s] \in
         [state : {"Calling", "Receiving", "Connecting", "Connected"},
          peer : Users, call : Ids]
  BY <1>1
<1>. QED
  BY <1>1, <1>2, <1>3, <1>4 DEF Sessions

\* A session ends.
LEMMA CleanedUp ==
  ASSUME Types, NEW u \in Users, CleanupCall(u)
  PROVE  /\ user' \in [Users -> Sessions]
         /\ user'[u] = Idle /\ user'[u].call = NoCall
         /\ \A w \in Users : w # u => user'[w] = user[w]
<1>1. Idle \in Sessions /\ Idle.call = NoCall
  BY DEF Sessions, Idle
<1>. QED
  BY <1>1 DEF Types, CleanupCall

\* A message is queued, or is lost.
LEMMA Sending ==
  ASSUME Types, NEW u \in Users, NEW m \in Calls, m.from = u, Send(u, m)
  PROVE  /\ up' \in [Users -> Seq(Calls)]
         /\ \A w \in Users : w # u => up'[w] = up[w]
         /\ \/ up'[u] = Append(up[u], m) /\ lost' = lost
            \/ up'[u] = up[u] /\ lost' = lost \cup {Call(m)}
         /\ \A w \in Users : \A n \in ToSet(up'[w]) : n \in ToSet(up[w]) \/ (w = u /\ n = m)
<1>1. up \in [Users -> Seq(Calls)] /\ up[u] \in Seq(Calls)
  BY DEF Types
<1>2. Append(up[u], m) \in Seq(Calls)
  BY <1>1, AppendProperties
<1>3. ToSet(Append(up[u], m)) = ToSet(up[u]) \cup {m}
  BY <1>1, Grows
<1>4. CallsOf(<<m>>) = {Call(m)}
  BY LostCalls
<1>5. CASE up' = [up EXCEPT ![u] = Append(up[u], m)] /\ lost' = lost
  BY <1>1, <1>2, <1>3, <1>5
<1>6. CASE lost' = lost \cup CallsOf(<<m>>) /\ up' = up
  BY <1>1, <1>4, <1>6
<1>. QED
  BY <1>5, <1>6 DEF Send

\* The state keeps its types when sessions and queues do.
LEMMA TypesKept ==
  ASSUME Types, user' \in [Users -> Sessions], next' \in Ids, next' >= next,
         up' \in [Users -> Seq(Calls)], down' \in [Users -> Seq(Traffic)],
         online' \subseteq Users, grace' \subseteq Users,
         \A u \in Users : user'[u].call = user[u].call \/ user'[u].call < next',
         \A u \in Users : \A m \in ToSet(up'[u]) :
            m \in ToSet(up[u]) \/ (m.from = u /\ Call(m) < next'),
         \A u \in Users : \A m \in ToSet(down'[u]) : m \in ToSet(down[u]) \/ Call(m) < next'
  PROVE  Types'
<1>1. next \in Nat /\ next' \in Nat
  BY DEF Types, Ids
<1>2. ASSUME NEW u \in Users PROVE user'[u].call < next'
  <2>1. user[u].call < next /\ user[u].call \in Nat
    BY DEF Types, Sessions, Idle, Ids, NoCall
  <2>. QED
    BY <1>1, <2>1
<1>3. ASSUME NEW u \in Users, NEW m \in ToSet(up'[u])
      PROVE  m.from = u /\ Call(m) < next'
  <2>1. CASE m \in ToSet(up[u])
    <3>1. m \in Calls
      BY <2>1, ElementOfSeq, LenProperties DEF Types, ToSet
    <3>2. Call(m) \in Nat
      BY <3>1, CallKinds DEF Ids
    <3>. QED
      BY <1>1, <2>1, <3>2 DEF Types
  <2>2. CASE m.from = u /\ Call(m) < next'
    BY <2>2
  <2>. QED
    BY <2>1, <2>2
<1>4. ASSUME NEW u \in Users, NEW m \in ToSet(down'[u])
      PROVE  Call(m) < next'
  <2>1. CASE m \in ToSet(down[u])
    <3>1. m \in Traffic
      BY <2>1, ElementOfSeq, LenProperties DEF Types, ToSet
    <3>2. Call(m) \in Nat
      BY <3>1, CallKinds, ParsedNotice DEF Traffic, Ids, NoCall
    <3>. QED
      BY <1>1, <2>1, <3>2 DEF Types
  <2>2. CASE Call(m) < next'
    BY <2>2
  <2>. QED
    BY <2>1, <2>2
<1>. QED
  BY <1>2, <1>3, <1>4 DEF Types

\* What the queues hold.
LEMMA Queued ==
  ASSUME Types, NEW u \in Users
  PROVE  /\ up[u] \in Seq(Calls) /\ down[u] \in Seq(Traffic)
         /\ \A m \in ToSet(up[u]) : m \in Calls /\ m.from = u
         /\ \A m \in ToSet(down[u]) : m \in Traffic
         /\ up[u] # <<>> => Head(up[u]) \in ToSet(up[u]) /\ Tail(up[u]) \in Seq(Calls)
         /\ down[u] # <<>> =>
               Head(down[u]) \in ToSet(down[u]) /\ Tail(down[u]) \in Seq(Traffic)
<1>1. up[u] \in Seq(Calls) /\ down[u] \in Seq(Traffic)
  BY DEF Types
<1>2. \A m \in ToSet(up[u]) : m \in Calls /\ m.from = u
  BY <1>1, ElementOfSeq, LenProperties DEF Types, ToSet
<1>3. \A m \in ToSet(down[u]) : m \in Traffic
  BY <1>1, ElementOfSeq, LenProperties DEF ToSet
<1>4. up[u] # <<>> => Head(up[u]) \in ToSet(up[u]) /\ Tail(up[u]) \in Seq(Calls)
  BY <1>1, Shrinks
<1>5. down[u] # <<>> =>
         Head(down[u]) \in ToSet(down[u]) /\ Tail(down[u]) \in Seq(Traffic)
  BY <1>1, Shrinks
<1>. QED
  BY <1>1, <1>2, <1>3, <1>4, <1>5

-----------------------------------------------------------------------------
(* Steps that leave a call alone. *)

\* The messages of the call are addressed as before.
LEMMA EnvelopesKept ==
  ASSUME NEW x \in Users, NEW y \in Users, NEW c \in Ids, Envelopes(x, y, c),
         \A u \in Users : \A m \in ToSet(up'[u]) :
            m \in ToSet(up[u]) \/ Call(m) # c \/ Fits(u, m.to, Kind(m), x, y),
         \A u \in Users : \A m \in ToSet(down'[u]) :
            m \in ToSet(down[u]) \/ Call(m) # c \/ Fits(m.from, u, Kind(m), x, y)
  PROVE  Envelopes(x, y, c)'
BY DEF Envelopes

\* Sessions and lines are alike.
LEMMA Undisturbed ==
  ASSUME NEW x \in Users, NEW y \in Users, NEW c \in Ids, Orderly(x, y, c),
         \A u \in Users : /\ user'[u].call = c <=> user[u].call = c
                          /\ user[u].call = c => user'[u] = user[u],
         Envelopes(x, y, c)',
         Alike(up[x], down[y], up'[x], down'[y], c),
         Alike(up[y], down[x], up'[y], down'[x], c),
         lost \cup timedout \subseteq lost' \cup timedout'
  PROVE  Orderly(x, y, c)'
<1>1. Parties(x, y, c)'
  BY DEF Orderly, Parties, InCall
<1>2. Single(up[x], down[y], c)'
  BY DEF Orderly, Alike
<1>3. ASSUME c \notin lost' \cup timedout' PROVE Flow(x, y, c)'
  <2>1. Flow(x, y, c)
    BY <1>3 DEF Orderly
  <2>2. Phase(x, c)' = Phase(x, c) /\ Phase(y, c)' = Phase(y, c)
    BY DEF Phase, InCall
  <2>3. /\ \A k : On(up'[x], down'[y], k, c) <=> On(up[x], down[y], k, c)
        /\ \A k : On(up'[y], down'[x], k, c) <=> On(up[y], down[x], k, c)
        /\ Behind(up[x], down[y], c) => Behind(up'[x], down'[y], c)
    BY DEF Alike
  <2>. QED
    BY <2>1, <2>2, <2>3 DEF Flow
<1>. QED
  BY <1>1, <1>2, <1>3 DEF Orderly

\* Only messages of other calls come to a queue or leave it.
Aside(q, q2, S, c) ==
    \/ q2 = q
    \/ \E m \in S : Call(m) # c /\ q2 = Append(q, m)
    \/ q # <<>> /\ Call(Head(q)) # c /\ q2 = Tail(q)

\* Such a queue has the messages of the call it had.
LEMMA AsideIs ==
  ASSUME NEW S, NEW q \in Seq(S), NEW q2, NEW c, Aside(q, q2, S, c)
  PROVE  /\ q2 \in Seq(S)
         /\ \A m \in ToSet(q2) : m \in ToSet(q) \/ Call(m) # c
<1>1. CASE q2 = q
  BY <1>1
<1>2. ASSUME NEW m \in S, Call(m) # c, q2 = Append(q, m)
      PROVE  q2 \in Seq(S) /\ \A n \in ToSet(q2) : n \in ToSet(q) \/ Call(n) # c
  BY <1>2, Grows, AppendProperties
<1>3. CASE q # <<>> /\ Call(Head(q)) # c /\ q2 = Tail(q)
  BY <1>3, Shrinks
<1>. QED
  BY <1>1, <1>2, <1>3 DEF Aside

\* Lines of such queues are alike.
LEMMA AsideAlike ==
  ASSUME NEW S, NEW T, NEW q \in Seq(S), NEW r \in Seq(T), NEW q2, NEW r2, NEW c,
         Aside(q, q2, S, c), Aside(r, r2, T, c)
  PROVE  Alike(q, r, q2, r2, c)
<1>1. q2 \in Seq(S)
  BY AsideIs
<1>2. Alike(q, r, q2, r, c)
  <2>1. CASE q2 = q
    BY <2>1, Unmoved
  <2>2. ASSUME NEW m \in S, Call(m) # c, q2 = Append(q, m)
        PROVE  Alike(q, r, q2, r, c)
    BY <2>2, SentOn
  <2>3. CASE q # <<>> /\ Call(Head(q)) # c /\ q2 = Tail(q)
    BY <2>3, Elsewhere
  <2>. QED
    BY <2>1, <2>2, <2>3 DEF Aside
<1>3. Alike(q2, r, q2, r2, c)
  <2>1. CASE r2 = r
    BY <2>1, Unmoved
  <2>2. ASSUME NEW m \in T, Call(m) # c, r2 = Append(r, m)
        PROVE  Alike(q2, r, q2, r2, c)
    BY <1>1, <2>2, Elsewhere
  <2>3. CASE r # <<>> /\ Call(Head(r)) # c /\ r2 = Tail(r)
    BY <1>1, <2>3, TakenOff
  <2>. QED
    BY <2>1, <2>2, <2>3 DEF Aside
<1>. QED
  BY <1>2, <1>3 DEF Alike

\* A message that is no request is sent on a line, while others pass.
LEMMA SentAside ==
  ASSUME NEW S, NEW T, NEW q \in Seq(S), NEW r \in Seq(T), NEW m \in S, NEW r2, NEW c,
         ~About(m, "call-request", c), Aside(r, r2, T, c)
  PROVE  LET q2 == Append(q, m) IN
         /\ \A k : On(q2, r2, k, c) <=> On(q, r, k, c) \/ About(m, k, c)
         /\ Single(q, r, c) => Single(q2, r2, c)
         /\ Behind(q, r, c) => Behind(q2, r2, c)
         /\ About(m, "call-end", c) => Behind(q2, r2, c)
<1>. DEFINE q2 == Append(q, m)
<1>1. q2 \in Seq(S)
  BY AppendProperties
<1>2. Alike(q2, r, q2, r2, c)
  BY <1>1, AsideAlike DEF Aside
<1>3. /\ \A k : On(q2, r, k, c) <=> On(q, r, k, c) \/ About(m, k, c)
      /\ Single(q, r, c) => Single(q2, r, c)
      /\ Behind(q, r, c) => Behind(q2, r, c)
      /\ About(m, "call-end", c) => Behind(q2, r, c)
  BY SentOn
<1>. HIDE DEF q2
<1>4. /\ \A k : On(q2, r2, k, c) <=> On(q, r, k, c) \/ About(m, k, c)
      /\ Single(q, r, c) => Single(q2, r2, c)
      /\ Behind(q, r, c) => Behind(q2, r2, c)
      /\ About(m, "call-end", c) => Behind(q2, r2, c)
  BY <1>2, <1>3 DEF Alike
<1>. QED
  BY <1>4 DEF q2

\* A step that is about other calls.
LEMMA Aloof ==
  ASSUME Types, NEW x \in Users, NEW y \in Users, NEW c \in Ids, Orderly(x, y, c),
         \A u \in Users : /\ user'[u].call = c <=> user[u].call = c
                          /\ user[u].call = c => user'[u] = user[u],
         \A u \in Users : /\ Aside(up[u], up'[u], Calls, c)
                          /\ Aside(down[u], down'[u], Traffic, c),
         lost \cup timedout \subseteq lost' \cup timedout'
  PROVE  Orderly(x, y, c)'
<1>1. \A u \in Users : up[u] \in Seq(Calls) /\ down[u] \in Seq(Traffic)
  BY Queued
<1>2. Alike(up[x], down[y], up'[x], down'[y], c)
  BY <1>1, AsideAlike
<1>3. Alike(up[y], down[x], up'[y], down'[x], c)
  BY <1>1, AsideAlike
<1>4. \A u \in Users : \A m \in ToSet(up'[u]) : m \in ToSet(up[u]) \/ Call(m) # c
  BY <1>1, AsideIs
<1>5. \A u \in Users : \A m \in ToSet(down'[u]) : m \in ToSet(down[u]) \/ Call(m) # c
  BY <1>1, AsideIs
<1>6. Envelopes(x, y, c)
  BY DEF Orderly
<1>7. Envelopes(x, y, c)'
  BY <1>4, <1>5, <1>6, EnvelopesKept
<1>. QED
  BY <1>2, <1>3, <1>7, Undisturbed

-----------------------------------------------------------------------------
(* What a manager does of its own accord. *)

\* A message about the session of u, to its peer, is sent; other calls do not
\* notice, and in this one the message fits.
LEMMA Speaks ==
  ASSUME Types, NEW x \in Users, NEW y \in Users, NEW c \in Ids, Orderly(x, y, c),
         NEW u \in Users, NEW m \in Calls, m.from = u, Send(u, m),
         Call(m) = c => Fits(u, m.to, Kind(m), x, y),
         \A w \in Users : Aside(down[w], down'[w], Traffic, c)
  PROVE  /\ Envelopes(x, y, c)'
         /\ \A w \in Users : w # u => up'[w] = up[w]
         /\ Call(m) # c => \A w \in Users : Aside(up[w], up'[w], Calls, c)
         /\ lost \subseteq lost'
         /\ \/ up'[u] = Append(up[u], m) /\ lost' = lost
            \/ up'[u] = up[u] /\ Call(m) \in lost'
<1>1. /\ \A w \in Users : w # u => up'[w] = up[w]
      /\ \/ up'[u] = Append(up[u], m) /\ lost' = lost
         \/ up'[u] = up[u] /\ lost' = lost \cup {Call(m)}
      /\ \A w \in Users : \A n \in ToSet(up'[w]) : n \in ToSet(up[w]) \/ (w = u /\ n = m)
  BY Sending
<1>2. \A w \in Users : \A n \in ToSet(down'[w]) : n \in ToSet(down[w]) \/ Call(n) # c
  BY Queued, AsideIs
<1>3. Envelopes(x, y, c)
  BY DEF Orderly
<1>4. Envelopes(x, y, c)'
  <2>1. \A w \in Users : \A n \in ToSet(up'[w]) :
           n \in ToSet(up[w]) \/ Call(n) # c \/ Fits(w, n.to, Kind(n), x, y)
    BY <1>1
  <2>. QED
    BY <1>2, <1>3, <2>1, EnvelopesKept
<1>5. ASSUME Call(m) # c, NEW w \in Users PROVE Aside(up[w], up'[w], Calls, c)
  BY <1>1, <1>5 DEF Aside
<1>. QED
  BY <1>1, <1>4, <1>5

\* EndCall, the watchdog and OnUserOffline: u leaves its call and says so.
LEMMA HungUp ==
  ASSUME Types, NEW u \in Users, user[u].state # "Idle",
         Send(u, BuildCallEndMessage(u, user[u].peer, user[u].call)),
         CleanupCall(u), timedout' = timedout,
         NEW x \in Users, NEW y \in Users, NEW c \in Ids, Orderly(x, y, c),
         \A w \in Users : Aside(down[w], down'[w], Traffic, c)
  PROVE  Orderly(x, y, c)'
<1>. DEFINE m == BuildCallEndMessage(u, user[u].peer, user[u].call)
<1>1. user[u].peer \in Users /\ user[u].call \in Ids
  BY SessionIs
<1>2. /\ m \in Calls /\ m.from = u /\ m.to = user[u].peer
      /\ Call(m) = user[u].call /\ Kind(m) = "call-end"
  BY <1>1, BuiltEnd
<1>3. /\ user'[u].call = NoCall
      /\ \A w \in Users : w # u => user'[w] = user[w]
  BY CleanedUp
<1>4. Send(u, m)
  OBVIOUS
<1>. HIDE DEF m
<1>5. user[u].call = c => (u = x /\ user[u].peer = y) \/ (u = y /\ user[u].peer = x)
  BY DEF Orderly, Parties, InCall
<1>6. Call(m) = c => Fits(u, m.to, Kind(m), x, y)
  BY <1>2, <1>5 DEF Fits
<1>7. /\ Envelopes(x, y, c)'
      /\ \A w \in Users : w # u => up'[w] = up[w]
      /\ Call(m) # c => \A w \in Users : Aside(up[w], up'[w], Calls, c)
      /\ lost \subseteq lost'
      /\ \/ up'[u] = Append(up[u], m) /\ lost' = lost
         \/ up'[u] = up[u] /\ Call(m) \in lost'
  BY <1>2, <1>4, <1>6, Speaks
<1>8. CASE user[u].call # c
  <2>1. \A w \in Users : /\ user'[w].call = c <=> user[w].call = c
                         /\ user[w].call = c => user'[w] = user[w]
    BY <1>3, <1>8 DEF Ids
  <2>. QED
    BY <1>2, <1>7, <1>8, <2>1, Aloof
<1>9. CASE user[u].call = c
  <2>1. x # y /\ Parties(x, y, c) /\ Single(up[x], down[y], c)
    BY DEF Orderly
  <2>2. Parties(x, y, c)'
    BY <1>3, <2>1 DEF Parties, InCall, Ids
  <2>3. \A w \in Users : up[w] \in Seq(Calls) /\ down[w] \in Seq(Traffic)
    BY Queued
  <2>4. About(m, "call-end", c) /\ \A k : About(m, k, c) <=> k = "call-end"
    BY <1>2, <1>9 DEF About
  <2>5. ASSUME up'[u] = Append(up[u], m), NEW t \in Users
        PROVE  /\ \A k : On(up'[u], down'[t], k, c) <=>
                            On(up[u], down[t], k, c) \/ k = "call-end"
               /\ Single(up[u], down[t], c) => Single(up'[u], down'[t], c)
               /\ Behind(up'[u], down'[t], c)
    BY <1>2, <2>3, <2>4, <2>5, SentAside
  <2>6. ASSUME NEW f \in Users, NEW t \in Users, up'[f] = up[f]
        PROVE  Alike(up[f], down[t], up'[f], down'[t], c)
    BY <2>3, <2>6, AsideAlike DEF Aside
  <2>7. Single(up'[x], down'[y], c)
    <3>1. CASE up'[x] = up[x]
      BY <2>1, <2>6, <3>1 DEF Alike
    <3>2. CASE up'[x] # up[x]
      BY <1>7, <2>1, <2>5, <3>2
    <3>. QED
      BY <3>1, <3>2
  <2>8. ASSUME c \notin lost' \cup timedout' PROVE Flow(x, y, c)'
    <3>1. up'[u] = Append(up[u], m) /\ Flow(x, y, c)
      BY <1>2, <1>7, <1>9, <2>8 DEF Orderly
    <3>2. Phase(u, c) # "out" /\ Phase(u, c)' = "out"
      BY <1>1, <1>3, <1>9, SessionIs DEF Phase, InCall, Ids
    <3>3. \A w \in Users : w # u => Phase(w, c)' = Phase(w, c)
      BY <1>3 DEF Phase, InCall
    <3>4. CASE u = x
      <4>1. /\ \A k : On(up'[x], down'[y], k, c) <=>
                         On(up[x], down[y], k, c) \/ k = "call-end"
            /\ Behind(up'[x], down'[y], c)
        BY <2>5, <3>1, <3>4
      <4>2. \A k : On(up'[y], down'[x], k, c) <=> On(up[y], down[x], k, c)
        BY <1>7, <2>1, <2>6, <3>4 DEF Alike
      <4>3. Phase(x, c) # "out" /\ Phase(x, c)' = "out" /\ Phase(y, c)' = Phase(y, c)
        BY <2>1, <3>2, <3>3, <3>4
      <4>. QED
        BY <3>1, <4>1, <4>2, <4>3 DEF Flow
    <3>5. CASE u = y
      <4>1. \A k : On(up'[y], down'[x], k, c) <=> On(up[y], down[x], k, c) \/ k = "call-end"
        BY <2>5, <3>1, <3>5
      <4>2. \A k : On(up'[x], down'[y], k, c) <=> On(up[x], down[y], k, c)
        BY <1>7, <2>1, <2>6, <3>5 DEF Alike
      <4>3. Phase(y, c) # "out" /\ Phase(y, c)' = "out" /\ Phase(x, c)' = Phase(x, c)
        BY <2>1, <3>2, <3>3, <3>5
      <4>. QED
        BY <3>1, <4>1, <4>2, <4>3 DEF Flow
    <3>. QED
      BY <1>5, <1>9, <3>4, <3>5
  <2>. QED
    BY <1>7, <2>1, <2>2, <2>7, <2>8 DEF Orderly
<1>. QED
  BY <1>8, <1>9

\* AcceptCall and RejectCall: the callee answers, and stays or leaves.
LEMMA Replied ==
  ASSUME Types, NEW u \in Users, user[u].state = "Receiving", NEW z \in BOOLEAN,
         Send(u, BuildCallResponseMessage(u, user[u].peer, user[u].call, z)),
         z => Enter(u, "Connecting"), ~z => CleanupCall(u),
         UNCHANGED <<down, timedout>>,
         NEW x \in Users, NEW y \in Users, NEW c \in Ids, Orderly(x, y, c)
  PROVE  Orderly(x, y, c)'
<1>. DEFINE m == BuildCallResponseMessage(u, user[u].peer, user[u].call, z)
            k0 == IF z THEN "accept" ELSE "reject"
<1>1. user[u].peer \in Users /\ user[u].call \in Ids
  BY SessionIs
<1>2. /\ m \in Calls /\ m.from = u /\ m.to = user[u].peer
      /\ Call(m) = user[u].call /\ Kind(m) = k0
  BY <1>1, BuiltResponse
<1>3. \A w \in Users : w # u => user'[w] = user[w]
  BY CleanedUp, Entered
<1>4. /\ z => /\ user'[u].call = user[u].call /\ user'[u].peer = user[u].peer
              /\ user'[u].state = "Connecting"
      /\ ~z => user'[u].call = NoCall
  BY CleanedUp, Entered
<1>5. Send(u, m)
  OBVIOUS
<1>. HIDE DEF m
<1>6. user[u].call = c => u = y /\ user[u].peer = x /\ x # y
  BY DEF Orderly, Parties, InCall
<1>7. Call(m) = c => Fits(u, m.to, Kind(m), x, y)
  BY <1>2, <1>6 DEF Fits
<1>8. \A w \in Users : Aside(down[w], down'[w], Traffic, c)
  BY DEF Aside
<1>9. /\ Envelopes(x, y, c)'
      /\ \A w \in Users : w # u => up'[w] = up[w]
      /\ Call(m) # c => \A w \in Users : Aside(up[w], up'[w], Calls, c)
      /\ lost \subseteq lost'
      /\ \/ up'[u] = Append(up[u], m) /\ lost' = lost
         \/ up'[u] = up[u] /\ Call(m) \in lost'
  BY <1>2, <1>5, <1>7, <1>8, Speaks
<1>10. CASE user[u].call # c
  <2>1. \A w \in Users : /\ user'[w].call = c <=> user[w].call = c
                         /\ user[w].call = c => user'[w] = user[w]
    BY <1>3, <1>4, <1>10 DEF Ids
  <2>. QED
    BY <1>2, <1>8, <1>9, <1>10, <2>1, Aloof
<1>11. CASE user[u].call = c
  <2>1. u = y /\ user[u].peer = x /\ x # y
    BY <1>6, <1>11
  <2>2. Parties(x, y, c) /\ Single(up[x], down[y], c)
    BY DEF Orderly
  <2>3. up'[x] = up[x] /\ down'[y] = down[y] /\ down'[x] = down[x]
    BY <1>9, <2>1
  <2>4. Parties(x, y, c)'
    BY <1>3, <1>4, <2>1, <2>2 DEF Parties, InCall, Ids
  <2>5. Single(up'[x], down'[y], c)
    BY <2>2, <2>3
  <2>6. ASSUME c \notin lost' \cup timedout' PROVE Flow(x, y, c)'
    <3>1. up'[u] = Append(up[u], m) /\ Flow(x, y, c)
      BY <1>2, <1>9, <1>11, <2>6 DEF Orderly
    <3>2. up[y] \in Seq(Calls) /\ down[x] \in Seq(Traffic)
      BY Queued
    <3>3. \A k : On(up'[y], down'[x], k, c) <=> On(up[y], down[x], k, c) \/ k = k0
      <4>1. \A k : On(up'[y], down'[x], k, c) <=> On(up[y], down[x], k, c) \/ About(m, k, c)
        BY <1>2, <2>1, <2>3, <3>1, <3>2, SentOn
      <4>. QED
        BY <1>2, <1>11, <4>1 DEF About
    <3>4. /\ \A k : On(up'[x], down'[y], k, c) <=> On(up[x], down[y], k, c)
          /\ Behind(up'[x], down'[y], c) <=> Behind(up[x], down[y], c)
      BY <2>3
    <3>5. /\ Phase(y, c) = "Receiving" /\ Phase(x, c)' = Phase(x, c)
          /\ Phase(y, c)' = IF z THEN "Connecting" ELSE "out"
      BY <1>1, <1>3, <1>4, <1>11, <2>1 DEF Phase, InCall, Ids
    <3>6. CASE z
      BY <3>1, <3>3, <3>4, <3>5, <3>6 DEF Flow
    <3>7. CASE ~z
      BY <3>1, <3>3, <3>4, <3>5, <3>7 DEF Flow
    <3>. QED
      BY <3>6, <3>7
  <2>. QED
    BY <1>9, <2>1, <2>4, <2>5, <2>6 DEF Orderly
<1>. QED
  BY <1>10, <1>11

\* OnCallRequestTimeout: the caller leaves, and the call is one that timed out.
LEMMA TimedOut ==
  ASSUME Types, NEW u \in Users, OnCallRequestTimeout(u),
         NEW x \in Users, NEW y \in Users, NEW c \in Ids, Orderly(x, y, c)
  PROVE  Orderly(x, y, c)'
<1>1. /\ CleanupCall(u) /\ up' = up /\ down' = down /\ lost' = lost
      /\ timedout' = timedout \cup {user[u].call}
  BY DEF OnCallRequestTimeout
<1>2. /\ user'[u].call = NoCall
      /\ \A w \in Users : w # u => user'[w] = user[w]
  BY <1>1, CleanedUp
<1>3. \A w \in Users : Aside(up[w], up'[w], Calls, c) /\ Aside(down[w], down'[w], Traffic, c)
  BY <1>1 DEF Aside
<1>4. CASE user[u].call # c
  <2>1. \A w \in Users : /\ user'[w].call = c <=> user[w].call = c
                         /\ user[w].call = c => user'[w] = user[w]
    BY <1>2, <1>4 DEF Ids
  <2>. QED
    BY <1>1, <1>3, <2>1, Aloof
<1>5. CASE user[u].call = c
  <2>1. Parties(x, y, c)'
    BY <1>2 DEF Orderly, Parties, InCall, Ids
  <2>2. Envelopes(x, y, c)' /\ Single(up[x], down[y], c)'
    BY <1>1 DEF Orderly, Envelopes
  <2>3. c \in timedout'
    BY <1>1, <1>5
  <2>. QED
    BY <2>1, <2>2, <2>3 DEF Orderly
<1>. QED
  BY <1>4, <1>5

\* NotifyPeerConnectionEstablished: one side hears of the media connection.
LEMMA Established ==
  ASSUME Types, NEW u \in Users, NotifyPeerConnectionEstablished(u),
         NEW x \in Users, NEW y \in Users, NEW c \in Ids, Orderly(x, y, c)
  PROVE  Orderly(x, y, c)'
<1>1. /\ Enter(u, "Connected") /\ user[u].state = "Connecting"
      /\ up' = up /\ down' = down /\ lost' = lost /\ timedout' = timedout
  BY DEF NotifyPeerConnectionEstablished
<1>2. /\ user'[u].state = "Connected" /\ user'[u].peer = user[u].peer
      /\ user'[u].call = user[u].call
      /\ \A w \in Users : w # u => user'[w] = user[w]
  BY <1>1, Entered
<1>3. Parties(x, y, c)'
  BY <1>1, <1>2 DEF Orderly, Parties, InCall
<1>4. Envelopes(x, y, c)' /\ Single(up[x], down[y], c)'
  BY <1>1 DEF Orderly, Envelopes
<1>5. ASSUME c \notin lost' \cup timedout' PROVE Flow(x, y, c)'
  <2>1. Flow(x, y, c)
    BY <1>1, <1>5 DEF Orderly
  <2>2. \A w \in Users : \/ Phase(w, c)' = Phase(w, c)
                         \/ Phase(w, c) = "Connecting" /\ Phase(w, c)' = "Connected"
    BY <1>1, <1>2 DEF Phase, InCall
  <2>3. /\ \A k : On(up'[x], down'[y], k, c) <=> On(up[x], down[y], k, c)
        /\ \A k : On(up'[y], down'[x], k, c) <=> On(up[y], down[x], k, c)
        /\ Behind(up'[x], down'[y], c) <=> Behind(up[x], down[y], c)
    BY <1>1
  <2>4. /\ \/ Phase(x, c)' = Phase(x, c)
           \/ Phase(x, c) = "Connecting" /\ Phase(x, c)' = "Connected"
        /\ \/ Phase(y, c)' = Phase(y, c)
           \/ Phase(y, c) = "Connecting" /\ Phase(y, c)' = "Connected"
    BY <2>2
  <2>. QED
    BY <2>1, <2>3, <2>4 DEF Flow
<1>. QED
  BY <1>3, <1>4, <1>5 DEF Orderly

\* InitiateCall: the earlier calls do not notice, and the new one is orderly.
LEMMA Initiated ==
  ASSUME Types, NEW u \in Users, NEW v \in Users, InitiateCall(u, v), NEW c \in Ids
  PROVE  /\ c = next => Orderly(u, v, c)'
         /\ \A x, y \in Users : c < next /\ Orderly(x, y, c) => Orderly(x, y, c)'
<1>. DEFINE m == BuildCallRequestMessage(u, v, next)
            s == [state |-> "Calling", peer |-> v, call |-> next]
<1>1. next \in Ids /\ user \in [Users -> Sessions]
  BY DEF Types
<1>2. /\ m \in Calls /\ m.from = u /\ m.to = v /\ Call(m) = next
      /\ Kind(m) = "call-request"
  BY <1>1, BuiltRequest
<1>3. /\ u # v /\ user' = [user EXCEPT ![u] = s]
      /\ Send(u, m) /\ u \in online /\ user[u].state = "Idle"
      /\ down' = down /\ timedout' = timedout
  BY DEF InitiateCall
<1>4. s.state = "Calling" /\ s.peer = v /\ s.call = next
  OBVIOUS
<1>. HIDE DEF m, s
<1>5. user'[u] = s /\ (\A w \in Users : w # u => user'[w] = user[w])
  BY <1>1, <1>3
<1>6. /\ \A w \in Users : w # u => up'[w] = up[w]
      /\ up'[u] = Append(up[u], m) /\ lost' = lost
  BY <1>3 DEF Send, Types
<1>7. user[u].call = NoCall
  BY <1>3, SessionIs
<1>8. ASSUME NEW x \in Users, NEW y \in Users, c < next, Orderly(x, y, c)
      PROVE  Orderly(x, y, c)'
  <2>1. Call(m) # c
    BY <1>1, <1>2, <1>8 DEF Ids
  <2>2. \A w \in Users : Aside(up[w], up'[w], Calls, c) /\ Aside(down[w], down'[w], Traffic, c)
    BY <1>2, <1>3, <1>6, <2>1 DEF Aside
  <2>3. \A w \in Users : /\ user'[w].call = c <=> user[w].call = c
                         /\ user[w].call = c => user'[w] = user[w]
    BY <1>2, <1>4, <1>5, <1>7, <2>1 DEF Ids
  <2>. QED
    BY <1>3, <1>6, <1>8, <2>2, <2>3, Aloof
<1>9. ASSUME c = next PROVE Orderly(u, v, c)'
  <2>1. /\ \A w \in Users : \A n \in ToSet(up[w]) : Call(n) # c
        /\ \A w \in Users : \A n \in ToSet(down[w]) : Call(n) # c
        /\ \A w \in Users : user[w].call # c
    <3>1. ASSUME NEW w \in Users, NEW n \in ToSet(up[w]) PROVE Call(n) # c
      BY <1>1, <1>9 DEF Types, Ids
    <3>2. ASSUME NEW w \in Users, NEW n \in ToSet(down[w]) PROVE Call(n) # c
      BY <1>1, <1>9 DEF Types, Ids
    <3>3. ASSUME NEW w \in Users PROVE user[w].call # c
      BY <1>1, <1>9 DEF Types, Ids
    <3>. QED
      BY <3>1, <3>2, <3>3
  <2>2. Parties(u, v, c)'
    BY <1>4, <1>5, <2>1 DEF Parties, InCall
  <2>3. \A w \in Users : \A n \in ToSet(up'[w]) : n \in ToSet(up[w]) \/ (w = u /\ n = m)
    BY <1>2, <1>3, Sending
  <2>4. Envelopes(u, v, c)'
    BY <1>2, <1>3, <2>1, <2>3 DEF Envelopes, Fits
  <2>5. \A k : ~On(up[u], down[v], k, c) /\ ~On(up[v], down[u], k, c)
    BY <2>1 DEF On, Has, About
  <2>6. /\ up[u] \in Seq(Calls) /\ down[v] \in Seq(Traffic) /\ up[v] \in Seq(Calls)
        /\ down[u] \in Seq(Traffic)
    BY Queued
  <2>7. Single(up[u], down[v], c)
    <3>1. ~Has(up[u], "call-request", c) /\ ~Has(down[v], "call-request", c)
      BY <2>5 DEF On
    <3>. QED
      BY <2>6, <3>1, Placed DEF Single
  <2>8. /\ \A k : On(up'[u], down'[v], k, c) <=> On(up[u], down[v], k, c) \/ About(m, k, c)
        /\ Single(up'[u], down'[v], c)
    BY <1>2, <1>3, <1>6, <2>5, <2>6, <2>7, SentOn
  <2>9. Flow(u, v, c)'
    <3>1. \A k : ~On(up'[v], down'[u], k, c)
      BY <1>3, <1>6, <2>5
    <3>2. \A k : On(up'[u], down'[v], k, c) <=> k = "call-request"
      BY <1>2, <1>9, <2>5, <2>8 DEF About
    <3>3. Phase(u, c)' = "Calling" /\ Phase(v, c)' = "out"
      BY <1>3, <1>4, <1>5, <1>9, <2>1 DEF Phase, InCall
    <3>. QED
      BY <3>1, <3>2, <3>3 DEF Flow
  <2>. QED
    BY <1>3, <2>2, <2>4, <2>8, <2>9 DEF Orderly
<1>. QED
  BY <1>8, <1>9

-----------------------------------------------------------------------------
(* What a manager makes of a message. *)

\* The message at the head of the channel is taken.
LEMMA Taken ==
  ASSUME Types, NEW u \in Users, Receive(u)
  PROVE  /\ down[u] # <<>> /\ Head(down[u]) \in Traffic /\ Head(down[u]) \in ToSet(down[u])
         /\ down'[u] = Tail(down[u]) /\ down' \in [Users -> Seq(Traffic)]
         /\ \A w \in Users : w # u => down'[w] = down[w]
         /\ \A w \in Users : \A n \in ToSet(down'[w]) : n \in ToSet(down[w])
         /\ DispatchSignalingMessage(u, ParseSignalingMessage(Head(down[u])))
         /\ UNCHANGED <<next, online, grace, timedout>>
<1>1. /\ down[u] # <<>> /\ down' = [down EXCEPT ![u] = Tail(down[u])]
      /\ DispatchSignalingMessage(u, ParseSignalingMessage(Head(down[u])))
      /\ UNCHANGED <<next, online, grace, timedout>>
  BY DEF Receive
<1>2. down \in [Users -> Seq(Traffic)] /\ down[u] \in Seq(Traffic)
  BY DEF Types
<1>3. /\ Head(down[u]) \in Traffic /\ Tail(down[u]) \in Seq(Traffic)
      /\ ToSet(down[u]) = ToSet(Tail(down[u])) \cup {Head(down[u])}
  BY <1>1, <1>2, Shrinks
<1>. QED
  BY <1>1, <1>2, <1>3

\* What a handler can do with message h: nothing, decline it, ring, go on to
\* connect, leave the call, or hang up because the peer is offline.
Ignores(u, h) ==
    /\ ~(Kind(h) = "call-request" /\ h \in Calls)
    /\ IsCurrent(u, ParseSignalingMessage(h)) =>
          /\ ~(user[u].state = "Calling" /\ Kind(h) = "reject")
          /\ ~(user[u].state # "Idle" /\ Kind(h) = "call-end")
    /\ UNCHANGED <<user, up, lost>>

Declines(u, h) ==
    /\ h \in Calls /\ Kind(h) = "call-request" /\ user[u].state # "Idle"
    /\ Send(u, BuildCallResponseMessage(u, h.from, Call(h), FALSE))
    /\ UNCHANGED user

Rings(u, h) ==
    /\ h \in Calls /\ Kind(h) = "call-request" /\ user[u].state = "Idle"
    /\ user' = [user EXCEPT ![u] =
                   [state |-> "Receiving", peer |-> h.from, call |-> Call(h)]]
    /\ UNCHANGED <<up, lost>>

Connects(u, h) ==
    /\ h \in Calls /\ Kind(h) = "accept"
    /\ IsCurrent(u, ParseSignalingMessage(h)) /\ user[u].state = "Calling"
    /\ Enter(u, "Connecting")
    /\ UNCHANGED <<up, lost>>

Leaves(u, h) ==
    /\ h \in Calls /\ Kind(h) \in {"reject", "call-end"}
    /\ IsCurrent(u, ParseSignalingMessage(h)) /\ user[u].state # "Idle"
    /\ CleanupCall(u)
    /\ UNCHANGED <<up, lost>>

HangsUp(u, h) ==
    /\ h \in Notices /\ user[u].state # "Idle"
    /\ Send(u, BuildCallEndMessage(u, user[u].peer, user[u].call))
    /\ CleanupCall(u)

\* The handlers do nothing else.
LEMMA Handled ==
  ASSUME Types, NEW u \in Users, Receive(u), NEW h, h = Head(down[u])
  PROVE  \/ Ignores(u, h) \/ Declines(u, h) \/ Rings(u, h)
         \/ Connects(u, h) \/ Leaves(u, h) \/ HangsUp(u, h)
<1>. DEFINE p == ParseSignalingMessage(h)
<1>1. h \in Traffic /\ DispatchSignalingMessage(u, p)
  BY Taken
<1>2. CASE h \in Calls
  <2>1. /\ p.from = h.from /\ p.call = Call(h) /\ Call(h) # NoCall
        /\ p.type = "call-request" <=> Kind(h) = "call-request"
        /\ p.type = "call-end" <=> Kind(h) = "call-end"
        /\ p.type = "call-response" /\ p.accepted <=> Kind(h) = "accept"
        /\ p.type = "call-response" /\ ~p.accepted <=> Kind(h) = "reject"
        /\ p.type # "user-offline"
        /\ Kind(h) \in {"call-request", "accept", "reject", "call-end"}
    BY <1>2, ParsedCall, CallKinds DEF Ids
  <2>2. CASE p.type = "call-request" /\ HandleCallRequest(u, p)
    BY <1>2, <2>1, <2>2 DEF HandleCallRequest, Silent, Declines, Rings
  <2>3. CASE p.type = "call-response" /\ HandleCallResponse(u, p)
    BY <1>2, <2>1, <2>3 DEF HandleCallResponse, Silent, Ignores, Connects, Leaves
  <2>4. CASE p.type = "call-end" /\ HandleCallEnd(u, p)
    BY <1>2, <2>1, <2>4 DEF HandleCallEnd, Silent, Ignores, Leaves
  <2>. QED
    BY <1>1, <2>1, <2>2, <2>3, <2>4 DEF DispatchSignalingMessage
<1>3. CASE h \in Notices
  <2>1. p.type = "user-offline" /\ p.call = NoCall /\ Kind(h) = "user-offline"
    BY <1>3, ParsedNotice DEF Kind
  <2>2. OnUserOffline(u, p)
    BY <1>1, <2>1 DEF DispatchSignalingMessage
  <2>. QED
    BY <1>3, <2>1, <2>2 DEF OnUserOffline, Silent, Ignores, HangsUp
<1>. QED
  BY <1>1, <1>2, <1>3 DEF Traffic

\* A message that is about another call, or about none.
LEMMA HeardAside ==
  ASSUME Types, NEW u \in Users, Receive(u), NEW h, h = Head(down[u]),
         NEW x \in Users, NEW y \in Users, NEW c \in Ids, Orderly(x, y, c), Call(h) # c
  PROVE  Orderly(x, y, c)'
<1>1. /\ down[u] # <<>> /\ down'[u] = Tail(down[u]) /\ timedout' = timedout
      /\ \A w \in Users : w # u => down'[w] = down[w]
  BY Taken
<1>2. \A w \in Users : Aside(down[w], down'[w], Traffic, c)
  BY <1>1 DEF Aside
<1>3. user \in [Users -> Sessions]
  BY DEF Types
<1>4. ASSUME UNCHANGED <<up, lost>>,
             \A w \in Users : /\ user'[w].call = c <=> user[w].call = c
                              /\ user[w].call = c => user'[w] = user[w]
      PROVE  Orderly(x, y, c)'
  <2>1. \A w \in Users : Aside(up[w], up'[w], Calls, c) /\ Aside(down[w], down'[w], Traffic, c)
    BY <1>2, <1>4 DEF Aside
  <2>. QED
    BY <1>1, <1>4, <2>1, Aloof
<1>5. CASE Ignores(u, h)
  BY <1>4, <1>5 DEF Ignores
<1>6. CASE Declines(u, h)
  <2>. DEFINE m == BuildCallResponseMessage(u, h.from, Call(h), FALSE)
  <2>1. h.from \in Users /\ Call(h) \in Ids
    BY <1>6, ParsedCall, CallKinds DEF Declines
  <2>2. m \in Calls /\ m.from = u /\ Call(m) = Call(h)
    BY <2>1, BuiltRejection
  <2>3. Send(u, m) /\ user' = user
    BY <1>6 DEF Declines
  <2>. HIDE DEF m
  <2>4. /\ \A w \in Users : Aside(up[w], up'[w], Calls, c)
        /\ lost \subseteq lost'
    BY <1>2, <2>2, <2>3, Speaks
  <2>5. \A w \in Users : Aside(up[w], up'[w], Calls, c) /\ Aside(down[w], down'[w], Traffic, c)
    BY <1>2, <2>4
  <2>6. \A w \in Users : /\ user'[w].call = c <=> user[w].call = c
                         /\ user[w].call = c => user'[w] = user[w]
    BY <2>3
  <2>. QED
    BY <1>1, <2>4, <2>5, <2>6, Aloof
<1>7. CASE Rings(u, h)
  <2>1. user[u].call = NoCall
    BY <1>7, SessionIs DEF Rings
  <2>2. user'[u].call = Call(h) /\ \A w \in Users : w # u => user'[w] = user[w]
    BY <1>3, <1>7 DEF Rings
  <2>. QED
    BY <1>4, <1>7, <2>1, <2>2 DEF Rings, Ids
<1>8. CASE Connects(u, h)
  <2>1. user[u].call = Call(h)
    BY <1>8, CallKinds DEF Connects, IsCurrent
  <2>2. user'[u].call = user[u].call /\ \A w \in Users : w # u => user'[w] = user[w]
    BY <1>8, Entered DEF Connects
  <2>. QED
    BY <1>4, <1>8, <2>1, <2>2 DEF Connects
<1>9. CASE Leaves(u, h)
  <2>1. user[u].call = Call(h)
    BY <1>9, CallKinds DEF Leaves, IsCurrent
  <2>2. user'[u].call = NoCall /\ \A w \in Users : w # u => user'[w] = user[w]
    BY <1>9, CleanedUp DEF Leaves
  <2>. QED
    BY <1>4, <1>9, <2>1, <2>2 DEF Leaves, Ids
<1>10. CASE HangsUp(u, h)
  BY <1>1, <1>2, <1>10, HungUp DEF HangsUp
<1>. QED
  BY <1>5, <1>6, <1>7, <1>8, <1>9, <1>10, Handled

\* A message about the call is one of the client that has the other part in it.
LEMMA Heard ==
  ASSUME Types, NEW u \in Users, Receive(u), NEW h, h = Head(down[u]),
         NEW x \in Users, NEW y \in Users, NEW c \in Ids, Orderly(x, y, c), Call(h) = c
  PROVE  /\ h \in Calls /\ Fits(h.from, u, Kind(h), x, y)
         /\ ParseSignalingMessage(h).from = h.from
         /\ ParseSignalingMessage(h).call = c
<1>1. h \in Traffic /\ h \in ToSet(down[u])
  BY Taken
<1>2. h \in Calls
  BY <1>1, ParsedNotice DEF Traffic, Ids
<1>3. Fits(h.from, u, Kind(h), x, y)
  BY <1>1 DEF Orderly, Envelopes
<1>. QED
  BY <1>2, <1>3, ParsedCall, CallKinds

\* The callee hears a request, or that the caller has hung up.
LEMMA CalleeHears ==
  ASSUME Types, NEW x \in Users, NEW y \in Users, NEW c \in Ids, Orderly(x, y, c),
         Receive(y), NEW h, h = Head(down[y]), Call(h) = c
  PROVE  Orderly(x, y, c)'
<1>1. /\ h \in Calls /\ h.from = x /\ Kind(h) \in {"call-request", "call-end"}
      /\ ParseSignalingMessage(h).from = x /\ ParseSignalingMessage(h).call = c
      /\ \A k : About(h, k, c) <=> k = Kind(h)
  <2>1. x # y
    BY DEF Orderly
  <2>2. /\ h \in Calls /\ Fits(h.from, y, Kind(h), x, y)
        /\ ParseSignalingMessage(h).from = h.from
        /\ ParseSignalingMessage(h).call = c
    BY Heard
  <2>3. h.from = x /\ Kind(h) \in {"call-request", "call-end"}
    BY <2>1, <2>2 DEF Fits
  <2>. QED
    BY <2>2, <2>3 DEF About
<1>2. /\ down[y] # <<>> /\ down'[y] = Tail(down[y]) /\ down'[x] = down[x]
      /\ timedout' = timedout
      /\ \A w \in Users : \A n \in ToSet(down'[w]) : n \in ToSet(down[w])
  BY Taken DEF Orderly
<1>3. x # y /\ Parties(x, y, c) /\ Envelopes(x, y, c) /\ Single(up[x], down[y], c)
  BY DEF Orderly
<1>4. /\ up[x] \in Seq(Calls) /\ down[y] \in Seq(Traffic)
      /\ up[y] \in Seq(Calls) /\ down[x] \in Seq(Traffic)
  BY Queued
<1>5. ASSUME up'[x] = up[x]
      PROVE  /\ \A k : On(up[x], down[y], k, c) <=>
                          On(up'[x], down'[y], k, c) \/ k = Kind(h)
             /\ Single(up'[x], down'[y], c)
             /\ Kind(h) = "call-request" => ~On(up'[x], down'[y], "call-request", c)
             /\ Behind(up[x], down[y], c) =>
                   /\ Behind(up'[x], down'[y], c)
                   /\ Kind(h) = "call-request" => On(up'[x], down'[y], "call-end", c)
  <2>1. LET r2 == Tail(down[y])
            m == Head(down[y])
        IN  /\ \A k : On(up[x], down[y], k, c) <=> On(up[x], r2, k, c) \/ About(m, k, c)
            /\ Single(up[x], down[y], c) => Single(up[x], r2, c)
            /\ Single(up[x], down[y], c) /\ About(m, "call-request", c)
                  => ~On(up[x], r2, "call-request", c)
            /\ Behind(up[x], down[y], c) => Behind(up[x], r2, c)
            /\ Behind(up[x], down[y], c) /\ About(m, "call-request", c)
                  => On(up[x], r2, "call-end", c)
    BY <1>2, <1>4, TakenOff
  <2>. QED
    BY <1>1, <1>2, <1>3, <1>5, <2>1
<1>6. ASSUME up' = up PROVE Envelopes(x, y, c)'
  BY <1>2, <1>3, <1>6, EnvelopesKept
<1>7. CASE Ignores(y, h)
  <2>1. Kind(h) = "call-end" /\ user' = user /\ up' = up /\ lost' = lost
    BY <1>1, <1>7 DEF Ignores
  <2>2. ~InCall(y, c)
    <3>1. InCall(y, c) => user[y].peer = x
      BY <1>3 DEF Parties
    <3>2. InCall(y, c) => user[y].state # "Idle" /\ c # NoCall
      BY SessionIs DEF InCall, Ids
    <3>. QED
      BY <1>1, <1>7, <2>1, <3>1, <3>2 DEF Ignores, IsCurrent, InCall
  <2>3. ASSUME c \notin lost' \cup timedout' PROVE Flow(x, y, c)'
    <3>1. Flow(x, y, c)
      BY <1>2, <2>1, <2>3 DEF Orderly
    <3>2. Phase(y, c) = "out" /\ Phase(y, c)' = "out" /\ Phase(x, c)' = Phase(x, c)
      BY <2>1, <2>2 DEF Phase, InCall
    <3>3. \A k : On(up'[y], down'[x], k, c) <=> On(up[y], down[x], k, c)
      BY <1>2, <2>1
    <3>4. Phase(x, c) = "out"
      BY <1>5, <2>1, <3>1 DEF Flow
    <3>. QED
      BY <1>5, <2>1, <3>1, <3>2, <3>3, <3>4 DEF Flow
  <2>4. Parties(x, y, c)'
    BY <1>3, <2>1 DEF Parties, InCall
  <2>. QED
    BY <1>3, <1>5, <1>6, <2>1, <2>3, <2>4 DEF Orderly
<1>8. CASE Declines(y, h)
  <2>. DEFINE m == BuildCallResponseMessage(y, x, c, FALSE)
  <2>1. /\ Kind(h) = "call-request" /\ user' = user /\ Send(y, m)
    BY <1>1, <1>8 DEF Declines
  <2>2. m \in Calls /\ m.from = y /\ m.to = x /\ Call(m) = c /\ Kind(m) = "reject"
    BY BuiltRejection
  <2>. HIDE DEF m
  <2>3. /\ \A w \in Users : w # y => up'[w] = up[w]
        /\ \/ up'[y] = Append(up[y], m) /\ lost' = lost
           \/ up'[y] = up[y] /\ lost' = lost \cup {Call(m)}
        /\ \A w \in Users : \A n \in ToSet(up'[w]) : n \in ToSet(up[w]) \/ (w = y /\ n = m)
    BY <2>1, <2>2, Sending
  <2>4. Envelopes(x, y, c)'
    <3>1. Fits(y, m.to, Kind(m), x, y)
      BY <2>2 DEF Fits
    <3>. QED
      BY <1>2, <1>3, <2>3, <3>1, EnvelopesKept
  <2>5. Parties(x, y, c)'
    BY <1>3, <2>1 DEF Parties, InCall
  <2>6. up'[x] = up[x]
    BY <1>3, <2>3
  <2>7. ASSUME c \notin lost' \cup timedout' PROVE Flow(x, y, c)'
    <3>1. Flow(x, y, c) /\ up'[y] = Append(up[y], m)
      BY <1>2, <2>2, <2>3, <2>7 DEF Orderly
    <3>2. \A k : On(up'[y], down'[x], k, c) <=> On(up[y], down[x], k, c) \/ k = "reject"
      <4>1. \A k : On(up'[y], down'[x], k, c) <=> On(up[y], down[x], k, c) \/ About(m, k, c)
        BY <1>2, <1>4, <2>2, <3>1, SentOn
      <4>. QED
        BY <2>2, <4>1 DEF About
    <3>3. Phase(y, c)' = Phase(y, c) /\ Phase(x, c)' = Phase(x, c)
      BY <2>1 DEF Phase, InCall
    <3>4. Phase(y, c) = "out" /\ Phase(x, c) \in {"out", "Calling"}
      BY <1>5, <2>1, <2>6, <3>1 DEF Flow
    <3>. QED
      BY <1>5, <2>1, <2>6, <3>1, <3>2, <3>3, <3>4 DEF Flow
  <2>. QED
    BY <1>3, <1>5, <2>4, <2>5, <2>6, <2>7 DEF Orderly
<1>9. CASE Rings(y, h)
  <2>. DEFINE s == [state |-> "Receiving", peer |-> x, call |-> c]
  <2>1. /\ Kind(h) = "call-request" /\ up' = up /\ lost' = lost
        /\ user' = [user EXCEPT ![y] = s]
    BY <1>1, <1>9 DEF Rings
  <2>2. s.state = "Receiving" /\ s.peer = x /\ s.call = c
    OBVIOUS
  <2>. HIDE DEF s
  <2>3. user'[y] = s /\ \A w \in Users : w # y => user'[w] = user[w]
    BY <2>1 DEF Types
  <2>4. Parties(x, y, c)'
    BY <1>3, <2>2, <2>3 DEF Parties, InCall
  <2>5. ASSUME c \notin lost' \cup timedout' PROVE Flow(x, y, c)'
    <3>1. Flow(x, y, c)
      BY <1>2, <2>1, <2>5 DEF Orderly
    <3>2. Phase(y, c)' = "Receiving" /\ Phase(x, c)' = Phase(x, c)
      BY <1>3, <2>2, <2>3 DEF Phase, InCall
    <3>3. \A k : On(up'[y], down'[x], k, c) <=> On(up[y], down[x], k, c)
      BY <1>2, <2>1
    <3>4. On(up[x], down[y], "call-request", c)
      BY <1>5, <2>1
    <3>. QED
      BY <1>5, <2>1, <3>1, <3>2, <3>3, <3>4 DEF Flow
  <2>. QED
    BY <1>3, <1>5, <1>6, <2>1, <2>4, <2>5 DEF Orderly
<1>10. CASE Leaves(y, h)
  <2>1. Kind(h) = "call-end" /\ up' = up /\ lost' = lost /\ CleanupCall(y)
    BY <1>1, <1>10 DEF Leaves
  <2>2. user'[y].call = NoCall /\ \A w \in Users : w # y => user'[w] = user[w]
    BY <2>1, CleanedUp
  <2>3. Parties(x, y, c)'
    BY <1>3, <2>2 DEF Parties, InCall, Ids
  <2>4. ASSUME c \notin lost' \cup timedout' PROVE Flow(x, y, c)'
    <3>1. Flow(x, y, c)
      BY <1>2, <2>1, <2>4 DEF Orderly
    <3>2. Phase(y, c)' = "out" /\ Phase(x, c)' = Phase(x, c)
      BY <1>3, <2>2 DEF Phase, InCall, Ids
    <3>3. Phase(y, c) # "out"
      BY <1>1, <1>10, SessionIs DEF Leaves, IsCurrent, Phase, InCall
    <3>4. \A k : On(up'[y], down'[x], k, c) <=> On(up[y], down[x], k, c)
      BY <1>2, <2>1
    <3>5. Phase(x, c) = "out"
      BY <1>5, <2>1, <3>1 DEF Flow
    <3>. QED
      BY <1>5, <2>1, <3>1, <3>2, <3>3, <3>4, <3>5 DEF Flow
  <2>. QED
    BY <1>3, <1>5, <1>6, <2>1, <2>3, <2>4 DEF Orderly
<1>11. ~Connects(y, h) /\ ~HangsUp(y, h)
  <2>1. h \notin Notices
    BY <1>1, ParsedNotice DEF Ids
  <2>. QED
    BY <1>1, <2>1 DEF Connects, HangsUp
<1>. QED
  BY <1>7, <1>8, <1>9, <1>10, <1>11, Handled

\* The caller hears the answer, or that the callee has hung up.
LEMMA CallerHears ==
  ASSUME Types, NEW x \in Users, NEW y \in Users, NEW c \in Ids, Orderly(x, y, c),
         Receive(x), NEW h, h = Head(down[x]), Call(h) = c
  PROVE  Orderly(x, y, c)'
<1>1. /\ h \in Calls /\ h.from = y /\ Kind(h) \in {"accept", "reject", "call-end"}
      /\ ParseSignalingMessage(h).from = y /\ ParseSignalingMessage(h).call = c
      /\ \A k : About(h, k, c) <=> k = Kind(h)
  <2>1. x # y
    BY DEF Orderly
  <2>2. /\ h \in Calls /\ Fits(h.from, x, Kind(h), x, y)
        /\ ParseSignalingMessage(h).from = h.from
        /\ ParseSignalingMessage(h).call = c
    BY Heard
  <2>3. h.from = y /\ Kind(h) \in {"accept", "reject", "call-end"}
    BY <2>1, <2>2 DEF Fits
  <2>. QED
    BY <2>2, <2>3 DEF About
<1>2. /\ down[x] # <<>> /\ down'[x] = Tail(down[x]) /\ down'[y] = down[y]
      /\ timedout' = timedout
      /\ \A w \in Users : \A n \in ToSet(down'[w]) : n \in ToSet(down[w])
  BY Taken DEF Orderly
<1>3. x # y /\ Parties(x, y, c) /\ Envelopes(x, y, c) /\ Single(up[x], down[y], c)
  BY DEF Orderly
<1>4. up[y] \in Seq(Calls) /\ down[x] \in Seq(Traffic)
  BY Queued
<1>5. \A k : On(up[y], down[x], k, c) <=> On(up[y], down'[x], k, c) \/ k = Kind(h)
  <2>1. \A k : On(up[y], down[x], k, c) <=>
                  On(up[y], Tail(down[x]), k, c) \/ About(Head(down[x]), k, c)
    BY <1>2, <1>4, TakenOff
  <2>. QED
    BY <1>1, <1>2, <2>1
<1>6. up' = up /\ lost' = lost
  <2>1. h \notin Notices
    BY <1>1, ParsedNotice DEF Ids
  <2>. QED
    BY <1>1, <2>1, Handled DEF Ignores, Declines, Rings, Connects, Leaves, HangsUp
<1>7. Envelopes(x, y, c)'
  BY <1>2, <1>3, <1>6, EnvelopesKept
<1>8. Single(up'[x], down'[y], c)
  BY <1>2, <1>3, <1>6
<1>9. /\ \A k : On(up'[x], down'[y], k, c) <=> On(up[x], down[y], k, c)
      /\ \A k : On(up[y], down[x], k, c) <=> On(up'[y], down'[x], k, c) \/ k = Kind(h)
      /\ Behind(up'[x], down'[y], c) <=> Behind(up[x], down[y], c)
  BY <1>2, <1>5, <1>6
<1>10. InCall(x, c) => user[x].peer = y /\ user[x].state # "Idle"
  BY <1>3 DEF Parties
<1>11. CASE Ignores(x, h)
  <2>1. user' = user
    BY <1>11 DEF Ignores
  <2>2. Parties(x, y, c)'
    BY <1>3, <2>1 DEF Parties, InCall
  <2>3. ASSUME c \notin lost' \cup timedout' PROVE Flow(x, y, c)'
    <3>1. Flow(x, y, c)
      BY <1>2, <1>6, <2>3 DEF Orderly
    <3>2. Phase(y, c)' = Phase(y, c) /\ Phase(x, c)' = Phase(x, c)
      BY <2>1 DEF Phase, InCall
    <3>3. Kind(h) = "call-end" => Phase(x, c) = "out"
      BY <1>1, <1>10, <1>11 DEF Ignores, IsCurrent, Phase, InCall, Ids
    <3>4. Kind(h) = "reject" => Phase(x, c) # "Calling"
      BY <1>1, <1>10, <1>11 DEF Ignores, IsCurrent, Phase, InCall, Ids
    <3>5. Kind(h) = "reject" => Phase(x, c) = "out"
      BY <1>9, <3>1, <3>4 DEF Flow
    <3>6. CASE Kind(h) = "accept"
      BY <1>9, <3>1, <3>2, <3>6 DEF Flow
    <3>7. CASE Phase(x, c) = "out"
      BY <1>9, <3>1, <3>2, <3>7 DEF Flow
    <3>. QED
      BY <1>1, <3>3, <3>5, <3>6, <3>7
  <2>. QED
    BY <1>3, <1>7, <1>8, <2>2, <2>3 DEF Orderly
<1>12. CASE Connects(x, h)
  <2>1. /\ Kind(h) = "accept" /\ user[x].state = "Calling" /\ user[x].call = c
        /\ Enter(x, "Connecting")
    BY <1>1, <1>12 DEF Connects, IsCurrent
  <2>2. /\ user'[x].state = "Connecting" /\ user'[x].peer = user[x].peer
        /\ user'[x].call = c
        /\ \A w \in Users : w # x => user'[w] = user[w]
    BY <2>1, Entered
  <2>3. Parties(x, y, c)'
    BY <1>3, <1>10, <2>1, <2>2 DEF Parties, InCall
  <2>4. ASSUME c \notin lost' \cup timedout' PROVE Flow(x, y, c)'
    <3>1. Flow(x, y, c)
      BY <1>2, <1>6, <2>4 DEF Orderly
    <3>2. /\ Phase(x, c) = "Calling" /\ Phase(x, c)' = "Connecting"
          /\ Phase(y, c)' = Phase(y, c)
      BY <1>3, <2>1, <2>2 DEF Phase, InCall
    <3>. QED
      BY <1>9, <2>1, <3>1, <3>2 DEF Flow
  <2>. QED
    BY <1>3, <1>7, <1>8, <2>3, <2>4 DEF Orderly
<1>13. CASE Leaves(x, h)
  <2>1. CleanupCall(x) /\ Kind(h) \in {"reject", "call-end"}
    BY <1>13 DEF Leaves
  <2>2. user'[x].call = NoCall /\ \A w \in Users : w # x => user'[w] = user[w]
    BY <2>1, CleanedUp
  <2>3. Parties(x, y, c)'
    BY <1>3, <2>2 DEF Parties, InCall, Ids
  <2>4. ASSUME c \notin lost' \cup timedout' PROVE Flow(x, y, c)'
    <3>1. Flow(x, y, c)
      BY <1>2, <1>6, <2>4 DEF Orderly
    <3>2. Phase(x, c)' = "out" /\ Phase(y, c)' = Phase(y, c)
      BY <1>3, <2>2 DEF Phase, InCall, Ids
    <3>3. Phase(y, c) = "out" /\ ~On(up[x], down[y], "call-request", c)
      BY <1>9, <2>1, <3>1 DEF Flow
    <3>. QED
      BY <1>9, <3>1, <3>2, <3>3 DEF Flow
  <2>. QED
    BY <1>3, <1>7, <1>8, <2>3, <2>4 DEF Orderly
<1>14. ~Declines(x, h) /\ ~Rings(x, h) /\ ~HangsUp(x, h)
  <2>1. h \notin Notices
    BY <1>1, ParsedNotice DEF Ids
  <2>. QED
    BY <1>1, <2>1 DEF Declines, Rings, HangsUp
<1>. QED
  BY <1>11, <1>12, <1>13, <1>14, Handled

\* Receive: whoever takes whatever message.
LEMMA Received ==
  ASSUME Types, NEW u \in Users, Receive(u),
         NEW x \in Users, NEW y \in Users, NEW c \in Ids, Orderly(x, y, c)
  PROVE  Orderly(x, y, c)'
<1>. DEFINE h == Head(down[u])
<1>1. CASE Call(h) # c
  BY <1>1, HeardAside
<1>2. CASE Call(h) = c
  <2>1. u = x \/ u = y
    BY <1>2, Heard DEF Fits
  <2>. QED
    BY <1>2, <2>1, CalleeHears, CallerHears
<1>. QED
  BY <1>1, <1>2

-----------------------------------------------------------------------------
(* What the server does, and the network. *)

\* The messages of two queues.
LEMMA Joined ==
  ASSUME NEW S, NEW q \in Seq(S), NEW r \in Seq(S)
  PROVE  q \o r \in Seq(S) /\ ToSet(q \o r) = ToSet(q) \cup ToSet(r)
<1>. DEFINE a == Len(q)
            b == Len(r)
            z == q \o r
<1>1. /\ z \in Seq(S) /\ Len(z) = a + b /\ a \in Nat /\ b \in Nat
      /\ \A i \in 1..(a + b) : z[i] = IF i <= a THEN q[i] ELSE r[i - a]
      /\ DOMAIN q = 1..a /\ DOMAIN r = 1..b
  BY ConcatProperties, LenProperties
<1>2. DOMAIN z = 1..(a + b)
  BY <1>1, LenProperties
<1>. HIDE DEF a, b, z
<1>3. ASSUME NEW i \in 1..(a + b) PROVE z[i] \in ToSet(q) \cup ToSet(r)
  <2>1. CASE i <= a
    <3>1. i \in 1..a
      BY <1>1, <2>1
    <3>2. z[i] = q[i]
      BY <1>1, <2>1
    <3>. QED
      BY <1>1, <3>1, <3>2 DEF ToSet
  <2>2. CASE ~(i <= a)
    <3>1. i - a \in 1..b
      BY <1>1, <2>2
    <3>. QED
      BY <1>1, <2>2, <3>1 DEF ToSet
  <2>. QED
    BY <2>1, <2>2
<1>4. ASSUME NEW i \in 1..a PROVE q[i] \in ToSet(z)
  <2>1. i \in 1..(a + b) /\ i <= a
    BY <1>1
  <2>. QED
    BY <1>1, <1>2, <2>1 DEF ToSet
<1>5. ASSUME NEW i \in 1..b PROVE r[i] \in ToSet(z)
  <2>1. i + a \in 1..(a + b) /\ ~(i + a <= a) /\ (i + a) - a = i
    BY <1>1
  <2>2. z[i + a] = r[i]
    BY <1>1, <2>1
  <2>. QED
    BY <1>2, <2>1, <2>2 DEF ToSet
<1>6. ToSet(z) \subseteq ToSet(q) \cup ToSet(r)
  BY <1>2, <1>3 DEF ToSet
<1>7. ToSet(q) \subseteq ToSet(z) /\ ToSet(r) \subseteq ToSet(z)
  BY <1>1, <1>4, <1>5 DEF ToSet
<1>. QED
  BY <1>1, <1>6, <1>7 DEF z

\* The messages of four queues.
LEMMA JoinedTwice ==
  ASSUME NEW S, NEW q \in Seq(S), NEW r \in Seq(S), NEW s \in Seq(S), NEW t \in Seq(S)
  PROVE  ToSet(q \o r \o s \o t) = ToSet(q) \cup ToSet(r) \cup ToSet(s) \cup ToSet(t)
<1>. DEFINE a == q \o r
            b == a \o s
<1>1. a \in Seq(S) /\ ToSet(a) = ToSet(q) \cup ToSet(r)
  BY Joined
<1>. HIDE DEF a
<1>2. b \in Seq(S) /\ ToSet(b) = ToSet(a) \cup ToSet(s)
  BY <1>1, Joined
<1>. HIDE DEF b
<1>3. ToSet(b \o t) = ToSet(b) \cup ToSet(t)
  BY <1>2, Joined
<1>. QED
  BY <1>1, <1>2, <1>3 DEF a, b

\* The queues of a client are queues of messages.
LEMMA Mixed ==
  ASSUME Types, NEW u \in Users
  PROVE  up[u] \in Seq(Traffic) /\ down[u] \in Seq(Traffic)
BY SeqMonotonic, Queued DEF Traffic

\* RelayMessage: a message of u is passed on, or lost.
Passes(u, m) ==
    /\ up[u] # <<>> /\ m \in Calls /\ m.from = u /\ m \in ToSet(up[u])
    /\ up' \in [Users -> Seq(Calls)] /\ up'[u] = Tail(up[u])
    /\ \A w \in Users : w # u => up'[w] = up[w]
    /\ \A w \in Users : \A n \in ToSet(up'[w]) : n \in ToSet(up[w])
    /\ down' \in [Users -> Seq(Traffic)]
    /\ \A w \in Users : w # m.to => down'[w] = down[w]
    /\ \A w \in Users : \A n \in ToSet(down'[w]) :
          n \in ToSet(down[w]) \/ (w = m.to /\ n = m)
    /\ \/ down'[m.to] = Append(down[m.to], m) /\ lost' = lost
       \/ down' = down /\ lost' = lost \cup {Call(m)}
    /\ UNCHANGED <<user, next, online, grace, timedout>>

\* What the relay does is described by Passes.
LEMMA PassesOn ==
  ASSUME Types, NEW u \in Users, RelayMessage(u), NEW m, m = Head(up[u])
  PROVE  Passes(u, m)
<1>1. /\ up[u] # <<>> /\ up' = [up EXCEPT ![u] = Tail(up[u])]
      /\ UNCHANGED <<user, next, online, grace, timedout>>
  BY DEF RelayMessage
<1>2. m \in Calls /\ m.from = u /\ m \in ToSet(up[u]) /\ m.to \in Users
  BY <1>1, Queued, ParsedCall
<1>3. [m EXCEPT !.from = u] = m
  BY <1>2, Addressed
<1>4. \/ TrySend({m.to}, m) /\ m.to \in online /\ Len(down[m.to]) < Cap /\ lost' = lost
      \/ lost' = lost \cup CallsOf(<<m>>) /\ down' = down
  BY <1>3 DEF RelayMessage
<1>5. up \in [Users -> Seq(Calls)] /\ down \in [Users -> Seq(Traffic)]
  BY DEF Types
<1>6. /\ Tail(up[u]) \in Seq(Calls)
      /\ \A n \in ToSet(Tail(up[u])) : n \in ToSet(up[u])
  BY <1>1, <1>5, Shrinks
<1>7. /\ up' \in [Users -> Seq(Calls)] /\ up'[u] = Tail(up[u])
      /\ \A w \in Users : w # u => up'[w] = up[w]
      /\ \A w \in Users : \A n \in ToSet(up'[w]) : n \in ToSet(up[w])
  BY <1>1, <1>5, <1>6
<1>8. CASE TrySend({m.to}, m) /\ Len(down[m.to]) < Cap /\ lost' = lost
  <2>1. m \in Traffic
    BY <1>2 DEF Traffic
  <2>2. /\ Append(down[m.to], m) \in Seq(Traffic)
        /\ ToSet(Append(down[m.to], m)) = ToSet(down[m.to]) \cup {m}
    BY <1>2, <1>5, <2>1, Grows, AppendProperties
  <2>3. /\ down' = [w \in Users |-> IF w \in {m.to} /\ Len(down[w]) < Cap
                                    THEN Append(down[w], m) ELSE down[w]]
    BY <1>8 DEF TrySend
  <2>4. /\ down'[m.to] = Append(down[m.to], m)
        /\ \A w \in Users : w # m.to => down'[w] = down[w]
    BY <1>2, <1>8, <2>3
  <2>5. down' \in [Users -> Seq(Traffic)]
    BY <1>2, <1>5, <2>2, <2>3
  <2>. QED
    BY <1>1, <1>2, <1>7, <1>8, <2>2, <2>4, <2>5 DEF Passes
<1>9. CASE lost' = lost \cup CallsOf(<<m>>) /\ down' = down
  BY <1>1, <1>2, <1>5, <1>7, <1>9, LostCalls DEF Passes
<1>. QED
  BY <1>4, <1>8, <1>9

\* Its call stays orderly, and the other calls do not notice.
LEMMA Relayed ==
  ASSUME Types, NEW u \in Users, RelayMessage(u),
         NEW x \in Users, NEW y \in Users, NEW c \in Ids, Orderly(x, y, c),
         NEW m, m = Head(up[u])
  PROVE  Orderly(x, y, c)'
<1>1. /\ up[u] # <<>> /\ m \in Calls /\ m.from = u /\ m \in ToSet(up[u])
      /\ up' \in [Users -> Seq(Calls)] /\ up'[u] = Tail(up[u])
      /\ \A w \in Users : w # u => up'[w] = up[w]
      /\ \A w \in Users : \A n \in ToSet(up'[w]) : n \in ToSet(up[w])
      /\ down' \in [Users -> Seq(Traffic)]
      /\ \A w \in Users : w # m.to => down'[w] = down[w]
      /\ \A w \in Users : \A n \in ToSet(down'[w]) :
            n \in ToSet(down[w]) \/ (w = m.to /\ n = m)
      /\ \/ down'[m.to] = Append(down[m.to], m) /\ lost' = lost
         \/ down' = down /\ lost' = lost \cup {Call(m)}
      /\ UNCHANGED <<user, next, online, grace, timedout>>
  <2>. Passes(u, m)
    BY PassesOn
  <2>. QED
    BY DEF Passes
<1>2. \A w \in Users : up[w] \in Seq(Calls) /\ down[w] \in Seq(Traffic)
  BY Queued
<1>3. x # y /\ Parties(x, y, c) /\ Envelopes(x, y, c) /\ Single(up[x], down[y], c)
  BY DEF Orderly
<1>4. m \in Traffic
  BY <1>1 DEF Traffic
<1>5. CASE Call(m) # c
  <2>1. \A w \in Users : Aside(up[w], up'[w], Calls, c)
    BY <1>1, <1>4, <1>5 DEF Aside
  <2>2. \A w \in Users : Aside(down[w], down'[w], Traffic, c)
    BY <1>1, <1>4, <1>5 DEF Aside
  <2>. QED
    BY <1>1, <2>1, <2>2, Aloof
<1>6. CASE Call(m) = c
  <2>1. Fits(u, m.to, Kind(m), x, y)
    BY <1>1, <1>3, <1>6 DEF Envelopes
  <2>2. (u = x /\ m.to = y) \/ (u = y /\ m.to = x)
    BY <2>1 DEF Fits
  <2>3. Envelopes(x, y, c)'
    <3>1. \A w \in Users : \A n \in ToSet(down'[w]) :
             n \in ToSet(down[w]) \/ Call(n) # c \/ Fits(n.from, w, Kind(n), x, y)
      BY <1>1, <2>1
    <3>. QED
      BY <1>1, <1>3, <3>1, EnvelopesKept
  <2>4. CASE down'[m.to] = Append(down[m.to], m) /\ lost' = lost
    <3>1. Calls \subseteq Traffic
      BY DEF Traffic
    <3>2. Alike(up[u], down[m.to], up'[u], down'[m.to], c)
      <4>1. m.to \in Users
        BY <2>2
      <4>2. Alike(up[u], down[m.to], Tail(up[u]), Append(down[m.to], Head(up[u])), c)
        BY <1>1, <1>2, <3>1, <4>1, PassedOn
      <4>. QED
        BY <1>1, <2>4, <4>2
    <3>3. Alike(up[m.to], down[u], up'[m.to], down'[u], c)
      BY <1>1, <1>3, <2>2, Unmoved
    <3>. QED
      BY <1>1, <2>2, <2>3, <2>4, <3>2, <3>3, Undisturbed
  <2>5. CASE down' = down /\ lost' = lost \cup {Call(m)}
    <3>1. Parties(x, y, c)'
      BY <1>1, <1>3 DEF Parties, InCall
    <3>2. Single(up'[x], down'[y], c)
      <4>1. up[x] # <<>> => Single(Tail(up[x]), down[y], c)
        BY <1>2, <1>3, Dropped
      <4>. QED
        BY <1>1, <1>3, <2>5, <4>1
    <3>. QED
      BY <1>3, <1>6, <2>3, <2>5, <3>1, <3>2 DEF Orderly
  <2>. QED
    BY <1>1, <2>4, <2>5
<1>. QED
  BY <1>5, <1>6

\* Disconnect: the calls about which a message was on the connection lose it.
LEMMA Broken ==
  ASSUME Types, NEW u \in Users, Disconnect(u)
  PROVE  /\ up' \in [Users -> Seq(Calls)] /\ down' \in [Users -> Seq(Traffic)]
         /\ up'[u] = <<>> /\ down'[u] = <<>>
         /\ \A w \in Users : w # u => up'[w] = up[w] /\ down'[w] = down[w]
         /\ \A w \in Users : \A n \in ToSet(up'[w]) : n \in ToSet(up[w])
         /\ \A w \in Users : \A n \in ToSet(down'[w]) : n \in ToSet(down[w])
         /\ lost \subseteq lost'
         /\ \A c \in Ids : \A n \in ToSet(up[u]) \cup ToSet(down[u]) :
               Call(n) = c => c \in lost'
         /\ UNCHANGED <<user, next, timedout>>
<1>1. /\ up' = [up EXCEPT ![u] = <<>>] /\ down' = [down EXCEPT ![u] = <<>>]
      /\ lost' = lost \cup CallsOf(up[u] \o down[u])
      /\ UNCHANGED <<user, next, timedout>>
  BY DEF Disconnect
<1>2. up \in [Users -> Seq(Calls)] /\ down \in [Users -> Seq(Traffic)]
  BY DEF Types
<1>3. ToSet(<<>>) = {} /\ <<>> \in Seq(Calls) /\ <<>> \in Seq(Traffic)
  BY EmptySeq DEF ToSet
<1>4. ToSet(up[u] \o down[u]) = ToSet(up[u]) \cup ToSet(down[u])
  BY Mixed, Joined
<1>5. \A c \in Ids : \A n \in ToSet(up[u]) \cup ToSet(down[u]) : Call(n) = c => c \in lost'
  BY <1>1, <1>4 DEF CallsOf, Call, Ids
<1>6. /\ up' \in [Users -> Seq(Calls)] /\ down' \in [Users -> Seq(Traffic)]
      /\ up'[u] = <<>> /\ down'[u] = <<>>
      /\ \A w \in Users : w # u => up'[w] = up[w] /\ down'[w] = down[w]
  BY <1>1, <1>2, <1>3
<1>7. /\ \A w \in Users : \A n \in ToSet(up'[w]) : n \in ToSet(up[w])
      /\ \A w \in Users : \A n \in ToSet(down'[w]) : n \in ToSet(down[w])
  BY <1>3, <1>6
<1>. QED
  BY <1>1, <1>5, <1>6, <1>7

\* Those calls have lost a message; the others do not notice.
LEMMA Disconnected ==
  ASSUME Types, NEW u \in Users, Disconnect(u),
         NEW x \in Users, NEW y \in Users, NEW c \in Ids, Orderly(x, y, c)
  PROVE  Orderly(x, y, c)'
<1>1. /\ up'[u] = <<>> /\ down'[u] = <<>>
      /\ \A w \in Users : w # u => up'[w] = up[w] /\ down'[w] = down[w]
      /\ \A w \in Users : \A n \in ToSet(up'[w]) : n \in ToSet(up[w])
      /\ \A w \in Users : \A n \in ToSet(down'[w]) : n \in ToSet(down[w])
      /\ lost \subseteq lost'
      /\ \A n \in ToSet(up[u]) \cup ToSet(down[u]) : Call(n) = c => c \in lost'
      /\ user' = user /\ timedout' = timedout
  BY Broken
<1>2. \A w \in Users : up[w] \in Seq(Calls) /\ down[w] \in Seq(Traffic)
  BY Queued
<1>3. x # y /\ Parties(x, y, c) /\ Envelopes(x, y, c) /\ Single(up[x], down[y], c)
  BY DEF Orderly
<1>4. Envelopes(x, y, c)'
  BY <1>1, <1>3, EnvelopesKept
<1>5. CASE c \in lost'
  <2>1. Parties(x, y, c)'
    BY <1>1, <1>3 DEF Parties, InCall
  <2>2. Single(<<>>, down[y], c) /\ Single(up[x], <<>>, c)
    BY <1>2, <1>3, Dropped
  <2>3. Single(up'[x], down'[y], c)
    <3>1. CASE u = x
      BY <1>1, <1>3, <2>2, <3>1
    <3>2. CASE u = y
      BY <1>1, <1>3, <2>2, <3>2
    <3>3. CASE u # x /\ u # y
      BY <1>1, <1>3, <3>3
    <3>. QED
      BY <3>1, <3>2, <3>3
  <2>. QED
    BY <1>3, <1>4, <1>5, <2>1, <2>3 DEF Orderly
<1>6. CASE c \notin lost'
  <2>1. /\ \A n \in ToSet(up[u]) : Call(n) # c
        /\ \A n \in ToSet(down[u]) : Call(n) # c
    BY <1>1, <1>6
  <2>2. ASSUME NEW f \in Users, NEW t \in Users, f # t
        PROVE  Alike(up[f], down[t], up'[f], down'[t], c)
    <3>1. CASE u = f
      <4>1. Alike(up[f], down[t], <<>>, down[t], c)
        BY <1>2, <2>1, <3>1, Cleared
      <4>. QED
        BY <1>1, <2>2, <3>1, <4>1
    <3>2. CASE u = t
      <4>1. Alike(up[f], down[t], up[f], <<>>, c)
        BY <1>2, <2>1, <3>2, Cleared
      <4>. QED
        BY <1>1, <2>2, <3>2, <4>1
    <3>3. CASE u # f /\ u # t
      BY <1>1, <3>3, Unmoved
    <3>. QED
      BY <3>1, <3>2, <3>3
  <2>3. /\ Alike(up[x], down[y], up'[x], down'[y], c)
        /\ Alike(up[y], down[x], up'[y], down'[x], c)
    BY <1>3, <2>2
  <2>. QED
    BY <1>1, <1>4, <2>3, Undisturbed
<1>. QED
  BY <1>5, <1>6

\* NotifyUserOffline: a notice is about no call.
LEMMA Noticed ==
  ASSUME Types, NEW u \in Users, NotifyUserOffline(u)
  PROVE  /\ down' \in [Users -> Seq(Traffic)]
         /\ \A w \in Users : \A n \in ToSet(down'[w]) : n \in ToSet(down[w]) \/ Call(n) = NoCall
         /\ \A c \in Ids : \A w \in Users : Aside(down[w], down'[w], Traffic, c)
         /\ UNCHANGED <<user, next, up, lost, timedout>>
<1>. DEFINE m == OfflineMessage(u)
<1>1. m \in Notices /\ m \in Traffic /\ Call(m) = NoCall
  BY ParsedNotice DEF Notices, Traffic
<1>2. /\ down' = [w \in Users |-> IF w \in online \ {u} /\ Len(down[w]) < Cap
                                  THEN Append(down[w], m) ELSE down[w]]
      /\ UNCHANGED <<user, next, up, lost, timedout>>
  BY DEF NotifyUserOffline, TrySend
<1>. HIDE DEF m
<1>3. down \in [Users -> Seq(Traffic)]
  BY DEF Types
<1>4. \A w \in Users : down'[w] = Append(down[w], m) \/ down'[w] = down[w]
  BY <1>2
<1>5. \A w \in Users : /\ Append(down[w], m) \in Seq(Traffic)
                       /\ ToSet(Append(down[w], m)) = ToSet(down[w]) \cup {m}
  BY <1>1, <1>3, Grows, AppendProperties
<1>6. down' \in [Users -> Seq(Traffic)]
  BY <1>2, <1>3, <1>5
<1>7. \A w \in Users : \A n \in ToSet(down'[w]) : n \in ToSet(down[w]) \/ Call(n) = NoCall
  <2>. SUFFICES ASSUME NEW w \in Users, NEW n \in ToSet(down'[w])
                PROVE  n \in ToSet(down[w]) \/ Call(n) = NoCall
    OBVIOUS
  <2>1. CASE down'[w] = down[w]
    BY <2>1
  <2>2. CASE down'[w] = Append(down[w], m)
    <3>1. n = m \/ n \in ToSet(down[w])
      BY <1>5, <2>2
    <3>. QED
      BY <1>1, <3>1
  <2>. QED
    BY <1>4, <2>1, <2>2
<1>8. \A c \in Ids : \A w \in Users : Aside(down[w], down'[w], Traffic, c)
  BY <1>1, <1>4 DEF Aside, Ids
<1>. QED
  BY <1>2, <1>6, <1>7, <1>8

-----------------------------------------------------------------------------
(* The types. *)

\* A manager speaks, and changes its session or leaves it as it is.
LEMMA TypesSpoken ==
  ASSUME Types, NEW u \in Users, NEW m \in Calls, m.from = u, Send(u, m),
         user' \in [Users -> Sessions], next' \in Ids, next' >= next, Call(m) < next',
         \A w \in Users : user'[w].call = user[w].call \/ user'[w].call < next',
         down' \in [Users -> Seq(Traffic)],
         \A w \in Users : \A n \in ToSet(down'[w]) : n \in ToSet(down[w]),
         UNCHANGED <<online, grace>>
  PROVE  Types'
<1>1. /\ up' \in [Users -> Seq(Calls)]
      /\ \A w \in Users : \A n \in ToSet(up'[w]) : n \in ToSet(up[w]) \/ (w = u /\ n = m)
  BY Sending
<1>2. \A w \in Users : \A n \in ToSet(up'[w]) :
         n \in ToSet(up[w]) \/ (n.from = w /\ Call(n) < next')
  BY <1>1
<1>3. online' \subseteq Users /\ grace' \subseteq Users
  BY DEF Types
<1>. QED
  BY <1>1, <1>2, <1>3, TypesKept

\* A session goes on or ends, and nothing is sent.
LEMMA TypesSilent ==
  ASSUME Types, UNCHANGED <<next, up, online, grace>>,
         user' \in [Users -> Sessions],
         \A w \in Users : user'[w].call = user[w].call \/ user'[w].call < next,
         down' \in [Users -> Seq(Traffic)],
         \A w \in Users : \A n \in ToSet(down'[w]) : n \in ToSet(down[w])
  PROVE  Types'
<1>1. next \in Ids /\ next' = next /\ next' >= next
  BY DEF Types, Ids
<1>2. up' \in [Users -> Seq(Calls)] /\ online' \subseteq Users /\ grace' \subseteq Users
  BY DEF Types
<1>. QED
  BY <1>1, <1>2, TypesKept

\* What can be said of the sessions of users after a session has changed.
LEMMA Counted ==
  ASSUME Types
  PROVE  /\ next \in Ids /\ next >= next /\ NoCall < next
         /\ \A w \in Users : user[w].call < next
         /\ user \in [Users -> Sessions] /\ down \in [Users -> Seq(Traffic)]
BY DEF Types, Ids, NoCall

\* EndCall, the watchdog and OnUserOffline.
LEMMA TypesLeaving ==
  ASSUME Types, NEW u \in Users, user[u].state # "Idle",
         Send(u, BuildCallEndMessage(u, user[u].peer, user[u].call)), CleanupCall(u),
         down' \in [Users -> Seq(Traffic)],
         \A w \in Users : \A n \in ToSet(down'[w]) : n \in ToSet(down[w]),
         UNCHANGED <<next, online, grace>>
  PROVE  Types'
<1>. DEFINE m == BuildCallEndMessage(u, user[u].peer, user[u].call)
<1>1. m \in Calls /\ m.from = u /\ Call(m) = user[u].call
  BY SessionIs, BuiltEnd
<1>2. Send(u, m)
  OBVIOUS
<1>. HIDE DEF m
<1>3. /\ user' \in [Users -> Sessions]
      /\ \A w \in Users : user'[w].call = user[w].call \/ user'[w].call < next'
  BY CleanedUp, Counted
<1>4. next' \in Ids /\ next' >= next /\ Call(m) < next'
  BY <1>1, Counted
<1>. QED
  BY <1>1, <1>2, <1>3, <1>4, TypesSpoken

\* Receive, whatever the handler does.
LEMMA TypesReceived ==
  ASSUME Types, NEW u \in Users, Receive(u)
  PROVE  Types'
<1>. DEFINE h == Head(down[u])
<1>1. /\ h \in Traffic /\ h \in ToSet(down[u]) /\ down' \in [Users -> Seq(Traffic)]
      /\ \A w \in Users : \A n \in ToSet(down'[w]) : n \in ToSet(down[w])
      /\ next' = next /\ online' = online /\ grace' = grace
  <2>1. /\ h \in Traffic /\ h \in ToSet(down[u]) /\ down' \in [Users -> Seq(Traffic)]
        /\ \A w \in Users : \A n \in ToSet(down'[w]) : n \in ToSet(down[w])
    BY Taken
  <2>2. next' = next /\ online' = online /\ grace' = grace
    BY Taken
  <2>. QED
    BY <2>1, <2>2
<1>2. Call(h) < next
  BY <1>1 DEF Types
<1>3. \/ Ignores(u, h) \/ Declines(u, h) \/ Rings(u, h)
      \/ Connects(u, h) \/ Leaves(u, h) \/ HangsUp(u, h)
  BY Handled
<1>. HIDE DEF h
<1>4. CASE Ignores(u, h)
  <2>1. user' = user /\ up' = up
    BY <1>4 DEF Ignores
  <2>. QED
    BY <1>1, <2>1, Counted, TypesSilent
<1>5. CASE Declines(u, h)
  <2>. DEFINE m == BuildCallResponseMessage(u, h.from, Call(h), FALSE)
  <2>1. h \in Calls /\ user' = user /\ Send(u, m)
    BY <1>5 DEF Declines
  <2>2. m \in Calls /\ m.from = u /\ Call(m) = Call(h)
    BY <2>1, ParsedCall, CallKinds, BuiltRejection
  <2>. HIDE DEF m
  <2>3. /\ user' \in [Users -> Sessions] /\ next' \in Ids /\ next' >= next
        /\ Call(m) < next'
        /\ \A w \in Users : user'[w].call = user[w].call \/ user'[w].call < next'
    BY <1>1, <1>2, <2>1, <2>2, Counted
  <2>. QED
    BY <1>1, <2>1, <2>2, <2>3, TypesSpoken
<1>6. CASE Rings(u, h)
  <2>. DEFINE s == [state |-> "Receiving", peer |-> h.from, call |-> Call(h)]
  <2>1. h \in Calls /\ up' = up /\ user' = [user EXCEPT ![u] = s]
    BY <1>6 DEF Rings
  <2>2. h.from \in Users /\ Call(h) \in Ids
    BY <2>1, ParsedCall, CallKinds
  <2>3. s \in Sessions /\ s.call = Call(h)
    BY <2>2 DEF Sessions
  <2>. HIDE DEF s
  <2>4. /\ user' \in [Users -> Sessions]
        /\ \A w \in Users : user'[w].call = user[w].call \/ user'[w].call < next
    BY <1>2, <2>1, <2>3, Counted
  <2>. QED
    BY <1>1, <2>1, <2>4, TypesSilent
<1>7. CASE Connects(u, h)
  <2>1. up' = up /\ Enter(u, "Connecting") /\ user[u].state # "Idle"
    BY <1>7 DEF Connects
  <2>2. /\ user' \in [Users -> Sessions]
        /\ \A w \in Users : user'[w].call = user[w].call \/ user'[w].call < next
    BY <2>1, Entered
  <2>. QED
    BY <1>1, <2>1, <2>2, TypesSilent
<1>8. CASE Leaves(u, h)
  <2>1. up' = up /\ CleanupCall(u)
    BY <1>8 DEF Leaves
  <2>2. /\ user' \in [Users -> Sessions]
        /\ \A w \in Users : user'[w].call = user[w].call \/ user'[w].call < next
    BY <2>1, CleanedUp, Counted
  <2>. QED
    BY <1>1, <2>1, <2>2, TypesSilent
<1>9. CASE HangsUp(u, h)
  BY <1>1, <1>9, TypesLeaving DEF HangsUp
<1>. QED
  BY <1>3, <1>4, <1>5, <1>6, <1>7, <1>8, <1>9

\* AcceptCall and RejectCall.
LEMMA TypesReplied ==
  ASSUME Types, NEW u \in Users, user[u].state = "Receiving", NEW z \in BOOLEAN,
         Send(u, BuildCallResponseMessage(u, user[u].peer, user[u].call, z)),
         z => Enter(u, "Connecting"), ~z => CleanupCall(u),
         UNCHANGED <<next, down, online, grace>>
  PROVE  Types'
<1>. DEFINE m == BuildCallResponseMessage(u, user[u].peer, user[u].call, z)
<1>1. user[u].peer \in Users /\ user[u].call \in Ids
  BY SessionIs
<1>2. m \in Calls /\ m.from = u /\ Call(m) = user[u].call
  BY <1>1, BuiltResponse
<1>3. Send(u, m)
  OBVIOUS
<1>. HIDE DEF m
<1>4. /\ user' \in [Users -> Sessions]
      /\ \A w \in Users : user'[w].call = user[w].call \/ user'[w].call < next'
  <2>1. CASE z
    BY <2>1, Entered
  <2>2. CASE ~z
    BY <2>2, CleanedUp, Counted
  <2>. QED
    BY <2>1, <2>2
<1>5. next' \in Ids /\ next' >= next /\ Call(m) < next' /\ down' \in [Users -> Seq(Traffic)]
  BY <1>2, Counted
<1>6. \A w \in Users : \A n \in ToSet(down'[w]) : n \in ToSet(down[w])
  OBVIOUS
<1>. QED
  BY <1>2, <1>3, <1>4, <1>5, <1>6, TypesSpoken

\* InitiateCall.
LEMMA TypesInitiated ==
  ASSUME Types, NEW u \in Users, NEW v \in Users, InitiateCall(u, v)
  PROVE  Types'
<1>. DEFINE m == BuildCallRequestMessage(u, v, next)
            s == [state |-> "Calling", peer |-> v, call |-> next]
<1>1. next \in Ids /\ user \in [Users -> Sessions]
  BY DEF Types
<1>2. m \in Calls /\ m.from = u /\ Call(m) = next
  BY <1>1, BuiltRequest
<1>3. s \in Sessions /\ s.call = next
  BY <1>1 DEF Sessions
<1>4. /\ user' = [user EXCEPT ![u] = s] /\ next' = next + 1 /\ Send(u, m)
      /\ UNCHANGED <<down, online, grace>>
  BY DEF InitiateCall
<1>. HIDE DEF m, s
<1>5. next' \in Ids /\ next' >= next /\ next < next'
  BY <1>1, <1>4 DEF Ids, NoCall
<1>6. /\ user' \in [Users -> Sessions]
      /\ \A w \in Users : user'[w].call = user[w].call \/ user'[w].call < next'
  BY <1>1, <1>3, <1>4, <1>5
<1>7. /\ down' \in [Users -> Seq(Traffic)]
      /\ \A w \in Users : \A n \in ToSet(down'[w]) : n \in ToSet(down[w])
  BY <1>4, Counted
<1>. QED
  BY <1>2, <1>4, <1>5, <1>6, <1>7, TypesSpoken

\* The server and the network.
LEMMA TypesServed ==
  ASSUME Types, NEW u \in Users,
         RelayMessage(u) \/ Disconnect(u) \/ Reconnect(u) \/ NotifyUserOffline(u)
  PROVE  Types'
<1>1. /\ next \in Ids /\ next >= next /\ NoCall < next /\ user \in [Users -> Sessions]
      /\ up \in [Users -> Seq(Calls)] /\ down \in [Users -> Seq(Traffic)]
      /\ online \subseteq Users /\ grace \subseteq Users
  BY Counted DEF Types
<1>2. CASE RelayMessage(u)
  <2>. DEFINE m == Head(up[u])
  <2>1. Passes(u, m)
    BY <1>2, PassesOn
  <2>. HIDE DEF m
  <2>2. m \in ToSet(up[u]) /\ Call(m) < next
    BY <2>1 DEF Passes, Types
  <2>3. /\ up' \in [Users -> Seq(Calls)] /\ down' \in [Users -> Seq(Traffic)]
        /\ \A w \in Users : \A n \in ToSet(up'[w]) : n \in ToSet(up[w])
        /\ UNCHANGED <<user, next, online, grace>>
    BY <2>1 DEF Passes
  <2>4. \A w \in Users : \A n \in ToSet(down'[w]) : n \in ToSet(down[w]) \/ Call(n) < next
    BY <2>1, <2>2 DEF Passes
  <2>. QED
    BY <1>1, <2>3, <2>4, TypesKept
<1>3. CASE Disconnect(u)
  <2>1. /\ up' \in [Users -> Seq(Calls)] /\ down' \in [Users -> Seq(Traffic)]
        /\ \A w \in Users : \A n \in ToSet(up'[w]) : n \in ToSet(up[w])
        /\ \A w \in Users : \A n \in ToSet(down'[w]) : n \in ToSet(down[w])
        /\ UNCHANGED <<user, next>>
    BY <1>3, Broken
  <2>2. online' \subseteq Users /\ grace' \subseteq Users
    BY <1>1, <1>3 DEF Disconnect
  <2>. QED
    BY <1>1, <2>1, <2>2, TypesKept
<1>4. CASE Reconnect(u)
  <2>1. online' \subseteq Users /\ grace' \subseteq Users
    BY <1>1, <1>4 DEF Reconnect
  <2>2. UNCHANGED <<user, next, up, down>>
    BY <1>4 DEF Reconnect
  <2>. QED
    BY <1>1, <2>1, <2>2, TypesKept
<1>5. CASE NotifyUserOffline(u)
  <2>1. /\ down' \in [Users -> Seq(Traffic)]
        /\ \A w \in Users : \A n \in ToSet(down'[w]) : n \in ToSet(down[w]) \/ Call(n) = NoCall
        /\ UNCHANGED <<user, next, up>>
    BY <1>5, Noticed
  <2>2. online' \subseteq Users /\ grace' \subseteq Users
    BY <1>1, <1>5 DEF NotifyUserOffline
  <2>3. \A w \in Users : \A n \in ToSet(down'[w]) : n \in ToSet(down[w]) \/ Call(n) < next
    BY <1>1, <2>1
  <2>. QED
    BY <1>1, <2>1, <2>2, <2>3, TypesKept
<1>. QED
  BY <1>2, <1>3, <1>4, <1>5

-----------------------------------------------------------------------------
(* The invariant. *)

\* Nobody is in a call and nothing is on its way.
LEMMA Started ==
  ASSUME Init
  PROVE  IInv
<1>1. ToSet(<<>>) = {} /\ <<>> \in Seq(Calls) /\ <<>> \in Seq(Traffic)
  BY EmptySeq DEF ToSet
<1>2. Idle \in Sessions /\ Idle.call = NoCall
  BY DEF Sessions, Idle
<1>3. user \in [Users -> Sessions] /\ \A u \in Users : user[u].call = NoCall
  BY <1>2 DEF Init
<1>4. /\ up \in [Users -> Seq(Calls)] /\ down \in [Users -> Seq(Traffic)]
      /\ \A u \in Users : ToSet(up[u]) = {} /\ ToSet(down[u]) = {}
  BY <1>1 DEF Init
<1>5. next = 1 /\ next \in Ids /\ NoCall < next
  BY DEF Init, Ids, NoCall
<1>6. online \subseteq Users /\ grace \subseteq Users
  BY DEF Init
<1>7. Types
  BY <1>3, <1>4, <1>5, <1>6 DEF Types
<1>8. CallInv
  BY <1>5 DEF CallInv, Ids, NoCall
<1>. QED
  BY <1>7, <1>8 DEF IInv

\* A step that starts no call keeps the calls orderly.
LEMMA CallsKept ==
  ASSUME CallInv, next' = next,
         \A x, y \in Users : \A c \in Ids : Orderly(x, y, c) => Orderly(x, y, c)'
  PROVE  CallInv'
BY DEF CallInv

\* The parts of EndCall that matter here; IceWatchdog is an EndCall.
LEMMA EndedCall ==
  ASSUME Types, NEW u \in Users, EndCall(u)
  PROVE  /\ Types' /\ next' = next
         /\ \A x, y \in Users : \A c \in Ids : Orderly(x, y, c) => Orderly(x, y, c)'
<1>1. /\ user[u].state # "Idle" /\ CleanupCall(u)
      /\ Send(u, BuildCallEndMessage(u, user[u].peer, user[u].call))
      /\ UNCHANGED <<next, down, online, grace, timedout>>
  BY DEF EndCall
<1>2. Types'
  <2>1. /\ down' \in [Users -> Seq(Traffic)]
        /\ \A w \in Users : \A n \in ToSet(down'[w]) : n \in ToSet(down[w])
    BY <1>1, Counted
  <2>. QED
    BY <1>1, <2>1, TypesLeaving
<1>3. ASSUME NEW x \in Users, NEW y \in Users, NEW c \in Ids, Orderly(x, y, c)
      PROVE  Orderly(x, y, c)'
  <2>1. \A w \in Users : Aside(down[w], down'[w], Traffic, c)
    BY <1>1 DEF Aside
  <2>. QED
    BY <1>1, <1>3, <2>1, HungUp
<1>. QED
  BY <1>1, <1>2, <1>3

\* Every step keeps the invariant.
LEMMA Preserved ==
  ASSUME IInv, [Next]_vars
  PROVE  IInv'
<1>1. Types /\ CallInv
  BY DEF IInv
<1>2. ASSUME NEW u \in Users, NEW v \in Users, InitiateCall(u, v) PROVE IInv'
  <2>1. Types'
    BY <1>1, <1>2, TypesInitiated
  <2>2. next' = next + 1 /\ next \in Nat
    BY <1>1, <1>2 DEF InitiateCall, Types, Ids
  <2>3. CallInv'
    <3>. SUFFICES ASSUME NEW c \in Ids, c < next'
                  PROVE  \E x, y \in Users : Orderly(x, y, c)'
      BY DEF CallInv
    <3>1. c < next \/ c = next
      BY <2>2 DEF Ids
    <3>2. CASE c = next
      BY <1>1, <1>2, <3>2, Initiated
    <3>3. CASE c < next
      <4>1. PICK x \in Users, y \in Users : Orderly(x, y, c)
        BY <1>1, <3>3 DEF CallInv
      <4>2. Orderly(x, y, c)'
        BY <1>1, <1>2, <3>3, <4>1, Initiated
      <4>. QED
        BY <4>2
    <3>. QED
      BY <3>1, <3>2, <3>3
  <2>. QED
    BY <2>1, <2>3 DEF IInv
<1>3. ASSUME NEW u \in Users, AcceptCall(u) PROVE IInv'
  <2>1. /\ user[u].state = "Receiving" /\ Enter(u, "Connecting")
        /\ Send(u, BuildCallResponseMessage(u, user[u].peer, user[u].call, TRUE))
        /\ UNCHANGED <<next, down, online, grace, timedout>>
    BY <1>3 DEF AcceptCall
  <2>2. PICK z \in BOOLEAN : z = TRUE
    OBVIOUS
  <2>3. /\ Send(u, BuildCallResponseMessage(u, user[u].peer, user[u].call, z))
        /\ z => Enter(u, "Connecting")
        /\ ~z => CleanupCall(u)
    BY <2>1, <2>2
  <2>4. Types'
    BY <1>1, <2>1, <2>3, TypesReplied
  <2>5. \A x, y \in Users : \A c \in Ids : Orderly(x, y, c) => Orderly(x, y, c)'
    BY <1>1, <2>1, <2>3, Replied
  <2>. QED
    BY <1>1, <2>1, <2>4, <2>5, CallsKept DEF IInv
<1>4. ASSUME NEW u \in Users, RejectCall(u) PROVE IInv'
  <2>1. /\ user[u].state = "Receiving" /\ CleanupCall(u)
        /\ Send(u, BuildCallResponseMessage(u, user[u].peer, user[u].call, FALSE))
        /\ UNCHANGED <<next, down, online, grace, timedout>>
    BY <1>4 DEF RejectCall
  <2>2. PICK z \in BOOLEAN : z = FALSE
    OBVIOUS
  <2>3. /\ Send(u, BuildCallResponseMessage(u, user[u].peer, user[u].call, z))
        /\ z => Enter(u, "Connecting")
        /\ ~z => CleanupCall(u)
    BY <2>1, <2>2
  <2>4. Types'
    BY <1>1, <2>1, <2>3, TypesReplied
  <2>5. \A x, y \in Users : \A c \in Ids : Orderly(x, y, c) => Orderly(x, y, c)'
    BY <1>1, <2>1, <2>3, Replied
  <2>. QED
    BY <1>1, <2>1, <2>4, <2>5, CallsKept DEF IInv
<1>5. ASSUME NEW u \in Users, EndCall(u) PROVE IInv'
  BY <1>1, <1>5, EndedCall, CallsKept DEF IInv
<1>6. ASSUME NEW u \in Users, OnCallRequestTimeout(u) PROVE IInv'
  <2>1. CleanupCall(u) /\ UNCHANGED <<next, up, down, online, grace>>
    BY <1>6 DEF OnCallRequestTimeout
  <2>2. /\ user' \in [Users -> Sessions]
        /\ \A w \in Users : user'[w].call = user[w].call \/ user'[w].call < next
    BY <1>1, <2>1, CleanedUp, Counted
  <2>3. Types'
    BY <1>1, <2>1, <2>2, Counted, TypesSilent
  <2>4. \A x, y \in Users : \A c \in Ids : Orderly(x, y, c) => Orderly(x, y, c)'
    BY <1>1, <1>6, TimedOut
  <2>. QED
    BY <1>1, <2>1, <2>3, <2>4, CallsKept DEF IInv
<1>7. ASSUME NEW u \in Users, NotifyPeerConnectionEstablished(u) PROVE IInv'
  <2>1. /\ Enter(u, "Connected") /\ user[u].state # "Idle"
        /\ UNCHANGED <<next, up, down, online, grace>>
    BY <1>7 DEF NotifyPeerConnectionEstablished
  <2>2. /\ user' \in [Users -> Sessions]
        /\ \A w \in Users : user'[w].call = user[w].call \/ user'[w].call < next
    BY <1>1, <2>1, Entered
  <2>3. Types'
    BY <1>1, <2>1, <2>2, Counted, TypesSilent
  <2>4. \A x, y \in Users : \A c \in Ids : Orderly(x, y, c) => Orderly(x, y, c)'
    BY <1>1, <1>7, Established
  <2>. QED
    BY <1>1, <2>1, <2>3, <2>4, CallsKept DEF IInv
<1>8. ASSUME NEW u \in Users, IceWatchdog(u) PROVE IInv'
  BY <1>5, <1>8 DEF IceWatchdog
<1>9. ASSUME NEW u \in Users, Receive(u) PROVE IInv'
  <2>1. Types' /\ next' = next
    BY <1>1, <1>9, TypesReceived DEF Receive
  <2>2. \A x, y \in Users : \A c \in Ids : Orderly(x, y, c) => Orderly(x, y, c)'
    BY <1>1, <1>9, Received
  <2>. QED
    BY <1>1, <2>1, <2>2, CallsKept DEF IInv
<1>10. ASSUME NEW u \in Users, RelayMessage(u) PROVE IInv'
  <2>1. Types' /\ next' = next
    BY <1>1, <1>10, TypesServed DEF RelayMessage
  <2>2. \A x, y \in Users : \A c \in Ids : Orderly(x, y, c) => Orderly(x, y, c)'
    BY <1>1, <1>10, Relayed
  <2>. QED
    BY <1>1, <2>1, <2>2, CallsKept DEF IInv
<1>11. ASSUME NEW u \in Users, Disconnect(u) PROVE IInv'
  <2>1. Types' /\ next' = next
    BY <1>1, <1>11, TypesServed DEF Disconnect
  <2>2. \A x, y \in Users : \A c \in Ids : Orderly(x, y, c) => Orderly(x, y, c)'
    BY <1>1, <1>11, Disconnected
  <2>. QED
    BY <1>1, <2>1, <2>2, CallsKept DEF IInv
<1>12. ASSUME NEW u \in Users, Reconnect(u) PROVE IInv'
  <2>1. Types'
    BY <1>1, <1>12, TypesServed
  <2>2. UNCHANGED <<user, next, up, down, lost, timedout>>
    BY <1>12 DEF Reconnect
  <2>3. \A x, y \in Users : \A c \in Ids : Orderly(x, y, c) => Orderly(x, y, c)'
    <3>. SUFFICES ASSUME NEW x \in Users, NEW y \in Users, NEW c \in Ids, Orderly(x, y, c)
                  PROVE  Orderly(x, y, c)'
      OBVIOUS
    <3>1. \A w \in Users : Aside(up[w], up'[w], Calls, c) /\ Aside(down[w], down'[w], Traffic, c)
      BY <2>2 DEF Aside
    <3>. QED
      BY <1>1, <2>2, <3>1, Aloof
  <2>. QED
    BY <1>1, <2>1, <2>2, <2>3, CallsKept DEF IInv
<1>13. ASSUME NEW u \in Users, NotifyUserOffline(u) PROVE IInv'
  <2>1. Types'
    BY <1>1, <1>13, TypesServed
  <2>2. /\ UNCHANGED <<user, next, up, lost, timedout>>
        /\ \A c \in Ids : \A w \in Users : Aside(down[w], down'[w], Traffic, c)
    BY <1>1, <1>13, Noticed
  <2>3. \A x, y \in Users : \A c \in Ids : Orderly(x, y, c) => Orderly(x, y, c)'
    <3>. SUFFICES ASSUME NEW x \in Users, NEW y \in Users, NEW c \in Ids, Orderly(x, y, c)
                  PROVE  Orderly(x, y, c)'
      OBVIOUS
    <3>1. \A w \in Users : Aside(up[w], up'[w], Calls, c) /\ Aside(down[w], down'[w], Traffic, c)
      BY <2>2 DEF Aside
    <3>. QED
      BY <1>1, <2>2, <3>1, Aloof
  <2>. QED
    BY <1>1, <2>1, <2>2, <2>3, CallsKept DEF IInv
<1>14. CASE UNCHANGED vars
  <2>1. UNCHANGED <<user, next, up, down, online, grace, lost, timedout>>
    BY <1>14 DEF vars
  <2>2. Types'
    BY <1>1, <2>1 DEF Types
  <2>3. CallInv'
    BY <1>1, <2>1 DEF CallInv, Orderly, Parties, Envelopes, Flow, Phase, InCall
  <2>. QED
    BY <2>2, <2>3 DEF IInv
<1>. QED
  BY <1>2, <1>3, <1>4, <1>5, <1>6, <1>7, <1>8, <1>9, <1>10, <1>11, <1>12, <1>13, <1>14
     DEF Next

\* The inductive invariant, from which the theorems below follow.
LEMMA Invariance == Spec => []IInv
<1>1. Init => IInv
  BY Started
<1>2. IInv /\ [Next]_vars => IInv'
  BY Preserved
<1>. QED
  BY <1>1, <1>2, PTL DEF Spec

-----------------------------------------------------------------------------
(* The theorems. *)

(* CallManager::InitiateCall and HandleCallRequest: two users in the same  *)
(* call have each other as peers, so no third user is ever in it, whatever *)
(* is lost and whoever gives up.                                           *)
Private ==
    \A u, v \in Users :
        user[u].call # NoCall /\ user[v].call = user[u].call /\ u # v =>
            user[u].peer = v /\ user[v].peer = u

(* A call joins two users who name each other as their peer: the callee    *)
(* takes the peer from the request that the server has passed on, and no   *)
(* other message makes a client enter a call.                              *)
THEOREM CallsArePrivate == Spec => []Private
<1>1. ASSUME IInv PROVE Private
  <2>. SUFFICES ASSUME NEW u \in Users, NEW v \in Users, user[u].call # NoCall,
                       user[v].call = user[u].call, u # v
                PROVE  user[u].peer = v /\ user[v].peer = u
    BY DEF Private
  <2>. DEFINE c == user[u].call
  <2>1. Types /\ CallInv
    BY <1>1 DEF IInv
  <2>2. c \in Ids /\ c < next
    BY <2>1, SessionIs DEF Types
  <2>3. PICK x \in Users, y \in Users : Orderly(x, y, c)
    BY <2>1, <2>2 DEF CallInv
  <2>. QED
    BY <2>3 DEF Orderly, Parties, InCall
<1>. QED
  BY <1>1, Invariance, PTL

(* What the managers, the dispatcher and the relay promise together: a     *)
(* user whose peer is not in the call has a message about the call on its  *)
(* way to one of the two, unless relayMessage or a broken connection lost  *)
(* one of its messages or OnCallRequestTimeout gave the call up.           *)
THEOREM NobodyStranded == Spec => []NobodyIsStranded
<1>1. ASSUME IInv PROVE NobodyIsStranded
  <2>. SUFFICES ASSUME NEW u \in Users, NEW p, NEW c, p = user[u].peer, c = user[u].call,
                       c # NoCall, ~InCall(p, c), c \notin lost \cup timedout
                PROVE  c \in CallsOf(up[u] \o down[u] \o up[p] \o down[p])
    BY DEF NobodyIsStranded
  <2>1. Types /\ CallInv
    BY <1>1 DEF IInv
  <2>2. c \in Ids /\ c < next /\ p \in Users /\ user[u].state # "out"
    BY <2>1, SessionIs DEF Types
  <2>3. PICK x \in Users, y \in Users : Orderly(x, y, c)
    BY <2>1, <2>2 DEF CallInv
  <2>4. (u = x /\ p = y) \/ (u = y /\ p = x)
    BY <2>3 DEF Orderly, Parties, InCall
  <2>5. Flow(x, y, c)
    BY <2>3 DEF Orderly
  <2>6. Phase(u, c) # "out" /\ Phase(p, c) = "out"
    BY <2>2 DEF Phase, InCall
  <2>7. \E k : On(up[x], down[y], k, c) \/ On(up[y], down[x], k, c)
    BY <2>4, <2>5, <2>6 DEF Flow
  <2>8. PICK n : /\ n \in ToSet(up[u]) \cup ToSet(down[u]) \cup ToSet(up[p]) \cup ToSet(down[p])
                 /\ Call(n) = c
    BY <2>4, <2>7 DEF On, Has, About
  <2>9. ToSet(up[u] \o down[u] \o up[p] \o down[p]) =
           ToSet(up[u]) \cup ToSet(down[u]) \cup ToSet(up[p]) \cup ToSet(down[p])
    <3>1. /\ up[u] \in Seq(Traffic) /\ down[u] \in Seq(Traffic)
          /\ up[p] \in Seq(Traffic) /\ down[p] \in Seq(Traffic)
      BY <2>1, <2>2, Mixed
    <3>. QED
      BY <3>1, JoinedTwice
  <2>. QED
    BY <2>2, <2>8, <2>9 DEF CallsOf, Call, Ids
<1>. QED
  BY <1>1, Invariance, PTL
=============================================================================
