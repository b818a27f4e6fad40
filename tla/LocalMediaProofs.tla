-------------------------- MODULE LocalMediaProofs --------------------------
(***************************************************************************)
(* Proofs about LocalMedia, for any number of file sources and any limits  *)
(* of the audio buffer: a call that is over leaves nothing recording, the  *)
(* sound follows the picture, thread handles are misused only where two of *)
(* the threads that control a call meet in the engine, and the buffer      *)
(* never drops sound.                                                      *)
(***************************************************************************)
EXTENDS LocalMedia, SequenceTheorems, FiniteSetTheorems, TLAPS

-----------------------------------------------------------------------------
(* The steps of a thread, and what stands behind what. *)

Sources == Files \cup {"camera"}

FileNames ==
    {"use synthetic", "stop microphone", "start thread", "clear", "read", "push", "wait"}
InputNames ==
    {"use microphone", "use synthetic", "stop microphone", "start microphone",
     "start thread", "stop thread", "join thread", "thread stopped", "clear"}
UiNames ==
    InputNames \cup {"create", "set track", "swap", "stop source", "join decoder", "return"}
IoNames ==
    InputNames \cup {"create", "attach", "stop source", "join decoder", "stop current",
                     "stop recording", "remove senders", "close", "release"}
TimerNames ==
    {"stop microphone", "stop thread", "join thread", "thread stopped", "clear",
     "stop source", "join decoder", "stop current", "stop recording", "remove senders",
     "close", "release"}

NamesOf(t) ==
    IF t = "ui" THEN UiNames
    ELSE IF t = "io" THEN IoNames
    ELSE IF t = "timer" THEN TimerNames
    ELSE FileNames

\* The steps that speak of a source.
ArgsOf(name) ==
    IF name = "create" THEN Kinds
    ELSE IF name \in {"set track", "swap", "attach", "return"} THEN Sources
    ELSE IF name = "stop source" THEN Sources \cup {"none"}
    ELSE IF name = "join decoder" THEN Files
    ELSE {"none"}

Steps == {s \in (FileNames \cup UiNames \cup IoNames) \X (Sources \cup Kinds \cup {"none"}) :
             s[2] \in ArgsOf(s[1])}

\* Steps that are taken as soon as they are due.
FrontNames ==
    {"use microphone", "use synthetic", "stop microphone", "stop thread", "join thread",
     "join decoder", "set track", "stop source", "push"}

\* Steps that end what a thread does.
LastNames == {"create", "set track", "swap", "attach", "return", "release"}

Shape(q) ==
    /\ \A i \in 2..Len(q) :
          /\ q[i][1] \notin FrontNames
          /\ q[i][1] = "start thread" => i = 2 /\ q[1][1] = "stop microphone"
          /\ q[i][1] = "thread stopped" => i = 2 /\ q[1][1] = "join thread"
          /\ q[i][1] = "start microphone" =>
                \/ i = 2 /\ q[1][1] \in {"stop thread", "thread stopped"}
                \/ i = 3 /\ q[1][1] = "join thread"
          /\ q[i][1] = "stop current" =>
                \/ i = 2 /\ q[1][1] \in {"stop source", "clear"}
                \/ i = 3 /\ q[1][1] = "join decoder" /\ q[2][1] = "clear"
          /\ q[i][1] = "read" => q[i - 1][1] \in {"clear", "wait"}
    /\ \A i \in 1..Len(q) :
          /\ q[i][1] \in LastNames => i = Len(q)
          /\ q[i][1] = "join thread" => i < Len(q) /\ q[i + 1][1] = "thread stopped"

\* A step is in a sequence, or comes later in it.
In(q, name, arg) == \E i \in 1..Len(q) : q[i][1] = name /\ q[i][2] = arg
Later(q, name, arg) == \E i \in 2..Len(q) : q[i][1] = name /\ q[i][2] = arg
First(q, name) == q # <<>> /\ q[1][1] = name

-----------------------------------------------------------------------------
(* The inductive invariant. *)

Types ==
    /\ mode \in {"microphone", "synthetic"}
    /\ samples \in Nat
    /\ requested \in BOOLEAN /\ live \in BOOLEAN
    /\ running \in BOOLEAN /\ stop \in BOOLEAN /\ joinable \in BOOLEAN /\ alive \in BOOLEAN
    /\ playing \in [Files -> BOOLEAN]
    /\ pc \in BOOLEAN /\ sender \in BOOLEAN /\ sending \in BOOLEAN /\ active \in BOOLEAN
    /\ source \in Sources \cup {"none"}
    /\ kind \in Kinds
    /\ overlap \in BOOLEAN /\ stray \in BOOLEAN /\ broken \in BOOLEAN
    /\ todo \in [Threads -> Seq(Steps)]

ShapeInv ==
    \A t \in Threads :
        /\ Shape(todo[t])
        /\ \A i \in 1..Len(todo[t]) : todo[t][i][1] \in NamesOf(t)

\* Decoders that may push once more before they look at the buffer.
Unpaced == {f \in Files : First(todo[f], "push") \/ (First(todo[f], "read") /\ playing[f])}

PacedInv ==
    samples <= High \/ samples + Cardinality(Unpaced) <= High + Cardinality(Files)

Has(t, name) == In(todo[t], name, "none")

\* A step of a thread that closes the connection.
InSome(name, arg) == \E t \in Closers : In(todo[t], name, arg)
Some(name) == InSome(name, "none")

\* At most one of the threads that control a call is in the engine.
Single == \A t, u \in Control : Busy(t) /\ Busy(u) => t = u

\* The handle of the synthetic thread, while one thread at most controls it.
HandleInv ==
    /\ Single
    /\ joinable => running
    /\ alive => joinable
    /\ \A t \in Control : Has(t, "join thread") \/ Has(t, "thread stopped") => running
    /\ \A t \in Control : Has(t, "thread stopped") /\ joinable => Has(t, "join thread")
    /\ Busy("ui") => pc /\ sender
    /\ ~broken

Closing == {"stop current", "stop recording", "remove senders", "close"}

\* A connection and its senders, as the control threads make and close them.
ConnectionInv ==
    /\ \A name \in Closing : Some(name) => Some("release")
    /\ (source # "none" \/ active \/ sender) => pc \/ Some("release")
    /\ sender => source # "none"
    /\ \A k \in Kinds : In(todo["io"], "create", k) => pc /\ ~sender /\ source = "none"
    /\ \A s \in Sources : In(todo["io"], "attach", s) => pc /\ source = s
    /\ Has("io", "use microphone") => In(todo["io"], "create", "camera")
    /\ Has("io", "use synthetic") => In(todo["io"], "create", "file")
    /\ Has("ui", "use microphone") => In(todo["ui"], "swap", "camera")
    /\ Has("ui", "use synthetic") => \E f \in Files : In(todo["ui"], "swap", f)
    /\ sending => pc \/ Some("release")
    /\ sending /\ Some("release") => Some("remove senders")
    /\ requested => sending \/ Some("stop recording")

\* Who will stop and join a decoder.
DecoderInv ==
    \A f \in Files :
        /\ Busy(f) => playing[f] \/ \E t \in Control : In(todo[t], "join decoder", f)
        /\ playing[f] =>
              /\ \/ source = f
                 \/ \E t \in Control : \/ In(todo[t], "stop source", f)
                                       \/ In(todo[t], "set track", f)
                                       \/ In(todo[t], "swap", f)
              /\ \A t \in Control : ~In(todo[t], "join decoder", f)
        /\ (Busy(f) \/ playing[f]) /\ Some("release") =>
              \/ Some("stop current")
              \/ InSome("stop source", f)
              \/ InSome("join decoder", f)

\* Microphone and synthetic thread run only for a recording in their mode,
\* or are about to be stopped.
SoundInv ==
    /\ live => \/ requested /\ mode = "microphone"
               \/ \E t \in Threads : Has(t, "stop microphone")
    /\ running => \/ requested /\ mode = "synthetic"
                  \/ \E t \in Control : \/ Has(t, "stop thread")
                                        \/ Has(t, "join thread")
                                        \/ Has(t, "thread stopped")
    /\ \A t \in Control : Has(t, "start microphone") =>
          requested /\ mode = "microphone" /\ Taking = {}
    /\ \A t \in Threads : Has(t, "start thread") => requested /\ mode = "synthetic"

Natural == mode = "microphone" /\ Taking = {}

\* The mode is that of the source, or a switch is under way.
ModeInv ==
    /\ source \in Files =>
          \/ mode = "synthetic"
          \/ Has(source, "use synthetic")
          \/ In(todo["ui"], "swap", "camera")
    /\ source = "camera" =>
          \/ Natural
          \/ \E f \in Files : In(todo["ui"], "set track", f) \/ In(todo["ui"], "swap", f)
    /\ \A f \in Files : In(todo["ui"], "swap", f) =>
          mode = "synthetic" \/ Has("ui", "use synthetic")
    /\ In(todo["ui"], "swap", "camera") => Natural \/ Has("ui", "use microphone")
    /\ In(todo["io"], "create", "camera") => Natural \/ Has("io", "use microphone")

IInv ==
    /\ Types /\ ShapeInv /\ PacedInv
    /\ ~overlap => HandleInv /\ ConnectionInv /\ DecoderInv
    /\ ~overlap /\ ~stray => SoundInv /\ ModeInv

-----------------------------------------------------------------------------
(* Sequences of steps. *)

\* The step at the front, and what comes later.
LEMMA Split ==
  ASSUME NEW q \in Seq(Steps), q # <<>>
  PROVE  /\ Len(q) \in Nat /\ Len(q) >= 1
         /\ Head(q) = q[1]
         /\ q[1][1] = Head(q)[1] /\ q[1][2] = Head(q)[2]
         /\ \A name, arg : In(q, name, arg) <=>
               (q[1][1] = name /\ q[1][2] = arg) \/ Later(q, name, arg)
<1>1. Len(q) \in Nat /\ Len(q) >= 1
  BY EmptySeq, LenProperties
<1>2. Head(q) = q[1]
  BY HeadTailProperties
<1>3. ASSUME NEW name, NEW arg
      PROVE  In(q, name, arg) <=> (q[1][1] = name /\ q[1][2] = arg) \/ Later(q, name, arg)
  BY <1>1 DEF In, Later
<1>. QED
  BY <1>1, <1>2, <1>3

\* r goes on with called steps, and then with what comes later in q.
Continues(r, called, q) ==
    /\ r \in Seq(Steps)
    /\ Len(r) = Len(called) + Len(q) - 1
    /\ \A i \in 1..Len(called) : r[i] = called[i]
    /\ \A i \in (Len(called) + 1)..(Len(called) + Len(q) - 1) : r[i] = q[i - Len(called) + 1]

\* The elements of a sequence that was continued behind called steps.
LEMMA Continued ==
  ASSUME NEW q \in Seq(Steps), q # <<>>, NEW called \in Seq(Steps), NEW r,
         r = called \o Tail(q)
  PROVE  Continues(r, called, q)
<1>1. Tail(q) \in Seq(Steps) /\ Len(Tail(q)) = Len(q) - 1
  BY HeadTailProperties
<1>2. \A i \in 1..Len(Tail(q)) : Tail(q)[i] = q[i + 1]
  BY HeadTailProperties
<1>3. Len(q) \in Nat /\ Len(q) >= 1 /\ Len(called) \in Nat
  BY EmptySeq, LenProperties
<1>4. r \in Seq(Steps) /\ Len(r) = Len(called) + Len(q) - 1
  BY <1>1, <1>3, ConcatProperties
<1>5. \A i \in 1..Len(r) :
         r[i] = IF i <= Len(called) THEN called[i] ELSE Tail(q)[i - Len(called)]
  BY <1>1, ConcatProperties
<1>6. ASSUME NEW i \in (Len(called) + 1)..(Len(called) + Len(q) - 1)
      PROVE  r[i] = q[i - Len(called) + 1]
  <2>1. i - Len(called) \in 1..Len(Tail(q)) /\ i \in 1..Len(r) /\ ~(i <= Len(called))
    BY <1>1, <1>3, <1>4
  <2>. QED
    BY <2>1, <1>2, <1>5
<1>. QED
  BY <1>3, <1>4, <1>5, <1>6 DEF Continues

\* The steps in a sequence that was continued.
LEMMA ContinuedIn ==
  ASSUME NEW q \in Seq(Steps), q # <<>>, NEW called \in Seq(Steps), NEW r,
         Continues(r, called, q), NEW name, NEW arg
  PROVE  In(r, name, arg) <=> In(called, name, arg) \/ Later(q, name, arg)
<1>. DEFINE m == Len(called)
            n == Len(q)
<1>1. m \in Nat /\ n \in Nat /\ n >= 1
  BY EmptySeq, LenProperties
<1>2. /\ Len(r) = m + n - 1
      /\ \A i \in 1..m : r[i] = called[i]
      /\ \A i \in (m + 1)..(m + n - 1) : r[i] = q[i - m + 1]
  BY DEF Continues
<1>3. \A i \in 2..n : r[i + m - 1] = q[i] /\ i + m - 1 \in 1..(m + n - 1)
  <2>. TAKE i \in 2..n
  <2>1. i + m - 1 \in (m + 1)..(m + n - 1) /\ (i + m - 1) - m + 1 = i
    BY <1>1
  <2>. QED
    BY <1>1, <1>2, <2>1
<1>4. \A i \in (m + 1)..(m + n - 1) : i - m + 1 \in 2..n
  BY <1>1
<1>5. In(called, name, arg) => In(r, name, arg)
  BY <1>1, <1>2 DEF In
<1>6. Later(q, name, arg) => In(r, name, arg)
  <2>. SUFFICES ASSUME NEW i \in 2..n, q[i][1] = name, q[i][2] = arg
                PROVE  In(r, name, arg)
    BY DEF Later
  <2>1. r[i + m - 1] = q[i] /\ i + m - 1 \in 1..Len(r)
    BY <1>2, <1>3
  <2>. QED
    BY <2>1 DEF In
<1>7. In(r, name, arg) => In(called, name, arg) \/ Later(q, name, arg)
  <2>. SUFFICES ASSUME NEW i \in 1..(m + n - 1), r[i][1] = name, r[i][2] = arg
                PROVE  In(called, name, arg) \/ Later(q, name, arg)
    BY <1>2 DEF In
  <2>1. CASE i \in 1..m
    BY <1>2, <2>1 DEF In
  <2>2. CASE i \in (m + 1)..(m + n - 1)
    BY <1>2, <1>4, <2>2 DEF Later
  <2>. QED
    BY <1>1, <2>1, <2>2
<1>. QED
  BY <1>5, <1>6, <1>7

\* What may come later.
LEMMA LaterIs ==
  ASSUME NEW q \in Seq(Steps), q # <<>>, Shape(q)
  PROVE  /\ \A name \in FrontNames : \A arg : ~Later(q, name, arg)
         /\ q[1][1] \in LastNames => \A name, arg : ~Later(q, name, arg)
         /\ \A arg : Later(q, "start thread", arg) => q[1][1] = "stop microphone"
         /\ \A arg : Later(q, "thread stopped", arg) => q[1][1] = "join thread"
         /\ \A arg : Later(q, "start microphone", arg) =>
               q[1][1] \in {"stop thread", "thread stopped", "join thread"}
         /\ \A arg : Later(q, "stop current", arg) =>
               q[1][1] \in {"stop source", "clear", "join decoder"}
<1>1. Len(q) \in Nat /\ Len(q) >= 1
  BY Split
<1>2. \A name \in FrontNames : \A arg : ~Later(q, name, arg)
  BY DEF Shape, Later
<1>3. ASSUME q[1][1] \in LastNames
      PROVE  \A name, arg : ~Later(q, name, arg)
  <2>1. 1 \in 1..Len(q)
    BY <1>1
  <2>2. Len(q) = 1
    BY <1>3, <2>1 DEF Shape
  <2>. QED
    BY <2>2 DEF Later
<1>4. \A i \in 2..Len(q) :
          /\ q[i][1] = "start thread" => q[1][1] = "stop microphone"
          /\ q[i][1] = "thread stopped" => q[1][1] = "join thread"
          /\ q[i][1] = "start microphone" =>
                q[1][1] \in {"stop thread", "thread stopped", "join thread"}
          /\ q[i][1] = "stop current" =>
                q[1][1] \in {"stop source", "clear", "join decoder"}
  BY DEF Shape
<1>. QED
  BY <1>2, <1>3, <1>4 DEF Later

\* A thread that joins the synthetic thread notes that it has stopped.
LEMMA JoinIs ==
  ASSUME NEW q \in Seq(Steps), q # <<>>, Shape(q)
  PROVE  q[1][1] = "join thread" => Later(q, "thread stopped", "none")
<1>1. Len(q) \in Nat /\ 1 \in 1..Len(q)
  BY Split
<1>2. 1 < Len(q) => 2 \in 2..Len(q) /\ 2 \in 1..Len(q)
  BY <1>1
<1>3. q[1][1] = "join thread" => 1 < Len(q) /\ q[2][1] = "thread stopped"
  <2>1. 1 + 1 = 2
    OBVIOUS
  <2>. QED
    BY <1>1, <2>1 DEF Shape
<1>4. ASSUME 2 \in 1..Len(q) PROVE q[2][2] \in ArgsOf(q[2][1])
  BY <1>4, ElementOfSeq DEF Steps
<1>5. ArgsOf("thread stopped") = {"none"}
  BY DEF ArgsOf
<1>. QED
  BY <1>2, <1>3, <1>4, <1>5 DEF Later

\* A thread does one thing at a time.
LEMMA LastIs ==
  ASSUME NEW q \in Seq(Steps), Shape(q),
         NEW m \in LastNames, NEW a, In(q, m, a),
         NEW n \in LastNames, NEW b, In(q, n, b)
  PROVE  m = n /\ a = b
<1>1. PICK i \in 1..Len(q) : q[i][1] = m /\ q[i][2] = a
  BY DEF In
<1>2. PICK j \in 1..Len(q) : q[j][1] = n /\ q[j][2] = b
  BY DEF In
<1>3. i = Len(q) /\ j = Len(q)
  BY <1>1, <1>2 DEF Shape
<1>. QED
  BY <1>1, <1>2, <1>3

\* Steps that call nothing leave the shape to the rest.
LEMMA ShapePopped ==
  ASSUME NEW q \in Seq(Steps), q # <<>>, Shape(q), NEW r, Continues(r, <<>>, q)
  PROVE  /\ Shape(r)
         /\ First(r, "read") => q[1][1] \in {"clear", "wait"}
         /\ ~First(r, "push")
<1>. DEFINE n == Len(q)
<1>1. n \in Nat /\ n >= 1
  BY Split
<1>2. r \in Seq(Steps) /\ Len(r) = n - 1 /\ \A i \in 1..(n - 1) : r[i] = q[i + 1]
  <2>1. Len(<<>>) = 0
    OBVIOUS
  <2>2. /\ r \in Seq(Steps) /\ Len(r) = 0 + n - 1
        /\ \A i \in (0 + 1)..(0 + n - 1) : r[i] = q[i - 0 + 1]
    BY <2>1 DEF Continues
  <2>3. \A i \in 1..(n - 1) : i \in (0 + 1)..(0 + n - 1) /\ i - 0 + 1 = i + 1
    BY <1>1
  <2>4. 0 + n - 1 = n - 1
    BY <1>1
  <2>. QED
    BY <2>2, <2>3, <2>4
<1>3. \A i \in 2..n :
          /\ q[i][1] \notin FrontNames
          /\ q[i][1] = "start thread" => i = 2 /\ q[1][1] = "stop microphone"
          /\ q[i][1] = "thread stopped" => i = 2 /\ q[1][1] = "join thread"
          /\ q[i][1] = "start microphone" =>
                \/ i = 2 /\ q[1][1] \in {"stop thread", "thread stopped"}
                \/ i = 3 /\ q[1][1] = "join thread"
          /\ q[i][1] = "stop current" =>
                \/ i = 2 /\ q[1][1] \in {"stop source", "clear"}
                \/ i = 3 /\ q[1][1] = "join decoder" /\ q[2][1] = "clear"
          /\ q[i][1] = "read" => q[i - 1][1] \in {"clear", "wait"}
  BY DEF Shape
<1>4. \A i \in 1..n :
          /\ q[i][1] \in LastNames => i = n
          /\ q[i][1] = "join thread" => i < n /\ q[i + 1][1] = "thread stopped"
  BY DEF Shape
<1>. HIDE DEF n
<1>5. ASSUME NEW i \in 2..(n - 1)
      PROVE  /\ r[i][1] \notin FrontNames
             /\ r[i][1] = "start thread" => i = 2 /\ r[1][1] = "stop microphone"
             /\ r[i][1] = "thread stopped" => i = 2 /\ r[1][1] = "join thread"
             /\ r[i][1] = "start microphone" =>
                   \/ i = 2 /\ r[1][1] \in {"stop thread", "thread stopped"}
                   \/ i = 3 /\ r[1][1] = "join thread"
             /\ r[i][1] = "stop current" =>
                   \/ i = 2 /\ r[1][1] \in {"stop source", "clear"}
                   \/ i = 3 /\ r[1][1] = "join decoder" /\ r[2][1] = "clear"
             /\ r[i][1] = "read" => r[i - 1][1] \in {"clear", "wait"}
  <2>1. i + 1 \in 2..n /\ i + 1 # 2 /\ (i + 1 = 3 => i = 2) /\ (i + 1) - 1 = i
    BY <1>1
  <2>2. r[i] = q[i + 1] /\ r[1] = q[2] /\ r[i - 1] = q[i]
    BY <1>1, <1>2
  <2>3. q[1][1] = "join thread" => q[2][1] = "thread stopped"
    <3>1. 1 \in 1..n /\ 1 + 1 = 2
      BY <1>1
    <3>. QED
      BY <3>1, <1>4
  <2>. QED
    BY <1>3, <2>1, <2>2, <2>3
<1>6. ASSUME NEW i \in 1..(n - 1)
      PROVE  /\ r[i][1] \in LastNames => i = n - 1
             /\ r[i][1] = "join thread" => i < n - 1 /\ r[i + 1][1] = "thread stopped"
  <2>1. i + 1 \in 2..n /\ i + 1 \in 1..n /\ (i + 1 = n => i = n - 1) /\ r[i] = q[i + 1]
    BY <1>1, <1>2
  <2>. QED
    BY <1>3, <1>4, <2>1 DEF FrontNames
<1>7. Shape(r)
  BY <1>2, <1>5, <1>6 DEF Shape
<1>8. ASSUME r # <<>>
      PROVE  (r[1][1] = "read" => q[1][1] \in {"clear", "wait"}) /\ r[1][1] # "push"
  <2>1. Len(r) >= 1
    BY <1>2, <1>8, EmptySeq, LenProperties
  <2>2. 2 \in 2..n /\ r[1] = q[2] /\ 2 - 1 = 1
    BY <1>1, <1>2, <2>1
  <2>. QED
    BY <1>3, <2>2 DEF FrontNames
<1>. QED
  BY <1>7, <1>8 DEF First

\* The step at the front of q may call these steps.
MayCall(q, called) ==
    /\ called # <<>> /\ Shape(called)
    /\ q[1][1] \notin {"stop microphone", "join thread", "thread stopped", "join decoder",
                       "clear", "wait"}
    /\ q[1][1] = "stop thread" => Len(called) = 2 /\ called[1][1] = "join thread"
    /\ q[1][1] = "stop source" =>
          Len(called) = 2 /\ called[1][1] = "join decoder" /\ called[2][1] = "clear"
    /\ Len(q) = 1 \/ \A i \in 1..Len(called) : called[i][1] \notin LastNames

\* The steps that a step calls keep the shape of what the thread has to do.
LEMMA ShapePushed ==
  ASSUME NEW q \in Seq(Steps), q # <<>>, Shape(q), NEW called \in Seq(Steps), NEW r,
         Continues(r, called, q), MayCall(q, called)
  PROVE  /\ Shape(r)
         /\ \A name : First(r, name) <=> First(called, name)
<1>. DEFINE m == Len(called)
            n == Len(q)
<1>1. n \in Nat /\ n >= 1 /\ m \in Nat /\ m >= 1
  BY Split DEF MayCall
<1>2. /\ r \in Seq(Steps) /\ Len(r) = m + n - 1
      /\ \A i \in 1..m : r[i] = called[i]
      /\ \A i \in (m + 1)..(m + n - 1) : r[i] = q[i - m + 1]
  BY DEF Continues
<1>3. \A i \in 2..n :
          /\ q[i][1] \notin FrontNames
          /\ q[i][1] # "start thread" /\ q[i][1] # "thread stopped"
          /\ q[i][1] = "start microphone" =>
                i = 2 /\ m = 2 /\ called[1][1] = "join thread"
          /\ q[i][1] = "stop current" =>
                i = 2 /\ m = 2 /\ called[1][1] = "join decoder" /\ called[2][1] = "clear"
          /\ q[i][1] = "read" => i # 2 /\ q[i - 1][1] \in {"clear", "wait"}
  <2>1. \A i \in 2..n :
          /\ q[i][1] \notin FrontNames
          /\ q[i][1] = "start thread" => q[1][1] = "stop microphone"
          /\ q[i][1] = "thread stopped" => q[1][1] = "join thread"
          /\ q[i][1] = "start microphone" =>
                (i = 2 /\ q[1][1] = "stop thread") \/ q[1][1] \in {"thread stopped", "join thread"}
          /\ q[i][1] = "stop current" =>
                (i = 2 /\ q[1][1] = "stop source") \/ q[1][1] \in {"clear", "join decoder"}
          /\ q[i][1] = "read" => q[i - 1][1] \in {"clear", "wait"}
    BY DEF Shape
  <2>2. q[2 - 1] = q[1]
    OBVIOUS
  <2>. HIDE DEF m, n
  <2>. QED
    BY <2>1, <2>2 DEF MayCall, m
<1>4. \A i \in 1..n : q[i][1] \in LastNames => i = n
  BY DEF Shape
<1>5. /\ \A i \in 2..m :
          /\ called[i][1] \notin FrontNames
          /\ called[i][1] = "start thread" => i = 2 /\ called[1][1] = "stop microphone"
          /\ called[i][1] = "thread stopped" => i = 2 /\ called[1][1] = "join thread"
          /\ called[i][1] = "start microphone" =>
                \/ i = 2 /\ called[1][1] \in {"stop thread", "thread stopped"}
                \/ i = 3 /\ called[1][1] = "join thread"
          /\ called[i][1] = "stop current" =>
                \/ i = 2 /\ called[1][1] \in {"stop source", "clear"}
                \/ i = 3 /\ called[1][1] = "join decoder" /\ called[2][1] = "clear"
          /\ called[i][1] = "read" => called[i - 1][1] \in {"clear", "wait"}
      /\ \A i \in 1..m :
          /\ called[i][1] \in LastNames => i = m /\ n = 1
          /\ called[i][1] = "join thread" => i < m /\ called[i + 1][1] = "thread stopped"
  BY DEF MayCall, Shape
<1>. HIDE DEF m, n
<1>6. ASSUME NEW i \in 2..(m + n - 1)
      PROVE  /\ r[i][1] \notin FrontNames
             /\ r[i][1] = "start thread" => i = 2 /\ r[1][1] = "stop microphone"
             /\ r[i][1] = "thread stopped" => i = 2 /\ r[1][1] = "join thread"
             /\ r[i][1] = "start microphone" =>
                   \/ i = 2 /\ r[1][1] \in {"stop thread", "thread stopped"}
                   \/ i = 3 /\ r[1][1] = "join thread"
             /\ r[i][1] = "stop current" =>
                   \/ i = 2 /\ r[1][1] \in {"stop source", "clear"}
                   \/ i = 3 /\ r[1][1] = "join decoder" /\ r[2][1] = "clear"
             /\ r[i][1] = "read" => r[i - 1][1] \in {"clear", "wait"}
  <2>1. r[1] = called[1] /\ (m >= 2 => r[2] = called[2])
    BY <1>1, <1>2
  <2>2. CASE i \in 2..m
    <3>1. i \in 1..m /\ i - 1 \in 1..m
      BY <1>1, <2>2
    <3>2. r[i] = called[i] /\ r[i - 1] = called[i - 1]
      BY <1>2, <3>1
    <3>3. i = 3 => m >= 2
      BY <2>2, <1>1
    <3>. QED
      BY <1>5, <2>1, <2>2, <3>2, <3>3
  <2>3. CASE i \in (m + 1)..(m + n - 1)
    <3>. DEFINE j == i - m + 1
    <3>1. j \in 2..n /\ r[i] = q[j] /\ (j # 2 => r[i - 1] = q[j - 1])
      <4>1. j \in 2..n /\ r[i] = q[j]
        BY <1>1, <1>2, <2>3
      <4>2. j # 2 => i - 1 \in (m + 1)..(m + n - 1) /\ (i - 1) - m + 1 = j - 1
        BY <1>1, <2>3
      <4>. QED
        BY <1>2, <4>1, <4>2
    <3>2. j = 2 /\ m = 2 => i = 3
      BY <1>1, <2>3
    <3>3. m = 2 => r[2] = called[2]
      BY <2>1
    <3>. HIDE DEF j
    <3>. QED
      BY <1>3, <2>1, <3>1, <3>2, <3>3
  <2>4. i \in 2..m \/ i \in (m + 1)..(m + n - 1)
    BY <1>1
  <2>. QED
    BY <2>2, <2>3, <2>4
<1>7. ASSUME NEW i \in 1..(m + n - 1)
      PROVE  /\ r[i][1] \in LastNames => i = m + n - 1
             /\ r[i][1] = "join thread" => i < m + n - 1 /\ r[i + 1][1] = "thread stopped"
  <2>1. CASE i \in 1..m
    <3>1. i < m => i + 1 \in 1..m /\ i < m + n - 1
      BY <1>1, <2>1
    <3>2. r[i] = called[i] /\ (i < m => r[i + 1] = called[i + 1])
      BY <1>2, <2>1, <3>1
    <3>3. i = m /\ n = 1 => i = m + n - 1
      BY <1>1
    <3>. QED
      BY <1>5, <2>1, <3>1, <3>2, <3>3
  <2>2. CASE i \in (m + 1)..(m + n - 1)
    <3>1. i - m + 1 \in 2..n /\ i - m + 1 \in 1..n /\ r[i] = q[i - m + 1]
      BY <1>1, <1>2, <2>2
    <3>2. i - m + 1 = n => i = m + n - 1
      BY <1>1, <2>2
    <3>. QED
      BY <1>3, <1>4, <3>1, <3>2 DEF FrontNames
  <2>3. i \in 1..m \/ i \in (m + 1)..(m + n - 1)
    BY <1>1
  <2>. QED
    BY <2>1, <2>2, <2>3
<1>8. Shape(r)
  BY <1>2, <1>6, <1>7 DEF Shape
<1>9. 1 \in 1..m /\ m + n - 1 # 0
  BY <1>1
<1>10. r # <<>> /\ called # <<>> /\ r[1] = called[1]
  BY <1>2, <1>9, EmptySeq DEF MayCall
<1>. QED
  BY <1>8, <1>10 DEF First

-----------------------------------------------------------------------------
(* The steps that are called. *)

AllNames == FileNames \cup UiNames \cup IoNames

\* A name with an argument that fits it is a step.
LEMMA StepIs ==
  ASSUME NEW name \in AllNames, NEW arg \in ArgsOf(name)
  PROVE  /\ <<name, arg>> \in Steps
         /\ <<name, arg>>[1] = name /\ <<name, arg>>[2] = arg
<1>1. arg \in Sources \cup Kinds \cup {"none"}
  BY DEF ArgsOf, Sources
<1>. HIDE DEF ArgsOf
<1>2. <<name, arg>>[1] = name /\ <<name, arg>>[2] = arg
  OBVIOUS
<1>. QED
  BY <1>1, <1>2 DEF Steps, AllNames

\* Steps without a source.
PlainNames ==
    AllNames \ {"create", "set track", "swap", "attach", "return", "stop source", "join decoder"}

\* A name that speaks of no source makes a step by itself.
LEMMA DoIs ==
  ASSUME NEW name \in PlainNames
  PROVE  Do(name) \in Steps /\ Do(name)[1] = name /\ Do(name)[2] = "none"
<1>1. name \in AllNames /\ "none" \in ArgsOf(name)
  BY DEF PlainNames, ArgsOf
<1>. QED
  BY <1>1, StepIs DEF Do

\* Steps that go behind others and need no particular one before them, except
\* for reading.
TailNames ==
    {"clear", "wait", "read", "stop recording", "remove senders", "close",
     "create", "swap", "attach", "return", "release"}

\* One step at the front that leaves the shape to the others.
LEMMA ShapeOf ==
  ASSUME NEW q \in Seq(Steps),
         \A i \in 2..Len(q) :
            q[i][1] \in TailNames,
         \A i \in 2..Len(q) : q[i][1] = "read" => q[i - 1][1] \in {"clear", "wait"},
         \A i \in 1..Len(q) : q[i][1] \in LastNames => i = Len(q),
         \A i \in 1..Len(q) : q[i][1] # "join thread"
  PROVE  Shape(q)
<1>1. \A i \in 2..Len(q) :
          /\ q[i][1] \notin FrontNames
          /\ q[i][1] = "start thread" => i = 2 /\ q[1][1] = "stop microphone"
          /\ q[i][1] = "thread stopped" => i = 2 /\ q[1][1] = "join thread"
          /\ q[i][1] = "start microphone" =>
                \/ i = 2 /\ q[1][1] \in {"stop thread", "thread stopped"}
                \/ i = 3 /\ q[1][1] = "join thread"
          /\ q[i][1] = "stop current" =>
                \/ i = 2 /\ q[1][1] \in {"stop source", "clear"}
                \/ i = 3 /\ q[1][1] = "join decoder" /\ q[2][1] = "clear"
  BY DEF FrontNames, TailNames
<1>. QED
  BY <1>1 DEF Shape

\* A sequence of one step.
LEMMA One ==
  ASSUME NEW a \in Steps
  PROVE  /\ <<a>> \in Seq(Steps) /\ <<a>> # <<>> /\ Len(<<a>>) = 1 /\ <<a>>[1] = a
         /\ a[1] # "join thread" => Shape(<<a>>)
         /\ \A name, arg : In(<<a>>, name, arg) <=> a[1] = name /\ a[2] = arg
<1>. DEFINE q == <<a>>
<1>1. q \in Seq(Steps) /\ q # <<>> /\ Len(q) = 1 /\ q[1] = a
  OBVIOUS
<1>. HIDE DEF q
<1>2. \A i \in 1..1 : i = 1
  OBVIOUS
<1>3. a[1] # "join thread" => Shape(q)
  <2>1. \A i \in 1..Len(q) : q[i] = a /\ i = Len(q)
    BY <1>1, <1>2
  <2>2. 2..Len(q) = {}
    BY <1>1
  <2>. QED
    BY <2>1, <2>2 DEF Shape
<1>4. \A name, arg : In(q, name, arg) <=> a[1] = name /\ a[2] = arg
  BY <1>1, <1>2 DEF In
<1>. QED
  BY <1>1, <1>3, <1>4 DEF q

Pairs(x, y) ==
    \/ x = "stop thread" /\ y = "start microphone"
    \/ x = "stop microphone" /\ y = "start thread"
    \/ x = "join thread" /\ y = "thread stopped"
    \/ x = "clear" /\ y = "read"
    \/ x = "join decoder" /\ y = "clear"
    \/ x = "stop source" /\ y \in {"attach", "return"}

\* A sequence of two steps.
LEMMA Two ==
  ASSUME NEW a \in Steps, NEW b \in Steps
  PROVE  /\ <<a, b>> \in Seq(Steps) /\ <<a, b>> # <<>> /\ Len(<<a, b>>) = 2
         /\ <<a, b>>[1] = a /\ <<a, b>>[2] = b
         /\ Pairs(a[1], b[1]) => Shape(<<a, b>>)
         /\ \A name, arg : In(<<a, b>>, name, arg) <=>
               (a[1] = name /\ a[2] = arg) \/ (b[1] = name /\ b[2] = arg)
<1>. DEFINE q == <<a, b>>
<1>1. q \in Seq(Steps) /\ q # <<>> /\ Len(q) = 2 /\ q[1] = a /\ q[2] = b
  OBVIOUS
<1>. HIDE DEF q
<1>2. /\ \A i \in 1..2 : i = 1 \/ i = 2
      /\ 1 \in 1..2 /\ 2 \in 1..2 /\ 1 + 1 = 2 /\ 2 - 1 = 1 /\ 1 < 2
  OBVIOUS
<1>3. Pairs(a[1], b[1]) => Shape(q)
  <2>1. \A i \in 2..Len(q) : i = 2 /\ q[i] = b /\ q[i - 1] = a
    <3>1. \A i \in 2..2 : i = 2
      OBVIOUS
    <3>. QED
      BY <1>1, <1>2, <3>1
  <2>2. \A i \in 1..Len(q) : 
          \/ i = 1 /\ i < Len(q) /\ q[i] = a /\ q[i + 1] = b
          \/ i = Len(q) /\ q[i] = b
    BY <1>1, <1>2
  <2>. SUFFICES ASSUME Pairs(a[1], b[1]) PROVE Shape(q)
    OBVIOUS
  <2>3. /\ b[1] \notin FrontNames \cup {"stop current", "join thread"} /\ a[1] \notin LastNames
        /\ b[1] = "start thread" => a[1] = "stop microphone"
        /\ b[1] = "thread stopped" <=> a[1] = "join thread"
        /\ b[1] = "start microphone" => a[1] = "stop thread"
        /\ b[1] = "read" => a[1] = "clear"
    BY DEF Pairs, FrontNames, LastNames
  <2>. QED
    BY <1>1, <2>1, <2>2, <2>3 DEF Shape
<1>4. \A name, arg : In(q, name, arg) <=> (a[1] = name /\ a[2] = arg) \/ (b[1] = name /\ b[2] = arg)
  BY <1>1, <1>2 DEF In
<1>. QED
  BY <1>1, <1>3, <1>4 DEF q

Triples(x, y, z) ==
    \/ x = "push" /\ y = "wait" /\ z = "read"
    \/ x \in {"use microphone", "use synthetic"} /\ y = "clear" /\ z \in {"create", "swap"}

\* A sequence of three steps.
LEMMA Three ==
  ASSUME NEW a \in Steps, NEW b \in Steps, NEW c \in Steps
  PROVE  /\ <<a, b, c>> \in Seq(Steps) /\ <<a, b, c>> # <<>> /\ Len(<<a, b, c>>) = 3
         /\ <<a, b, c>>[1] = a /\ <<a, b, c>>[2] = b /\ <<a, b, c>>[3] = c
         /\ Triples(a[1], b[1], c[1]) => Shape(<<a, b, c>>)
         /\ \A name, arg : In(<<a, b, c>>, name, arg) <=>
               \/ a[1] = name /\ a[2] = arg
               \/ b[1] = name /\ b[2] = arg
               \/ c[1] = name /\ c[2] = arg
<1>. DEFINE q == <<a, b, c>>
<1>1. q \in Seq(Steps) /\ q # <<>> /\ Len(q) = 3 /\ q[1] = a /\ q[2] = b /\ q[3] = c
  OBVIOUS
<1>. HIDE DEF q
<1>2. /\ \A i \in 1..3 : i = 1 \/ i = 2 \/ i = 3
      /\ \A i \in 2..3 : i = 2 \/ i = 3
      /\ 1 \in 1..3 /\ 2 \in 1..3 /\ 3 \in 1..3 /\ 2 - 1 = 1 /\ 3 - 1 = 2
  OBVIOUS
<1>3. Triples(a[1], b[1], c[1]) => Shape(q)
  <2>a. q[2 - 1] = a /\ q[3 - 1] = b
    BY <1>1, <1>2
  <2>1. \A i \in 2..3 : (q[i] = b /\ q[i - 1] = a) \/ (q[i] = c /\ q[i - 1] = b)
    BY <1>1, <1>2, <2>a
  <2>2. \A i \in 1..3 : q[i] = a \/ q[i] = b \/ (i = 3 /\ q[i] = c)
    BY <1>1, <1>2
  <2>. SUFFICES ASSUME Triples(a[1], b[1], c[1]) PROVE Shape(q)
    OBVIOUS
  <2>3. /\ a[1] \notin LastNames /\ a[1] # "join thread"
        /\ b[1] \in {"clear", "wait"} /\ b[1] \notin LastNames
        /\ c[1] \in {"read", "create", "swap"} /\ c[1] # "join thread"
    BY DEF Triples, LastNames
  <2>4. \A i \in 2..Len(q) :
            q[i][1] \in TailNames
    BY <1>1, <2>1, <2>3 DEF TailNames
  <2>5. \A i \in 2..Len(q) : q[i][1] = "read" => q[i - 1][1] \in {"clear", "wait"}
    BY <1>1, <2>1, <2>3
  <2>6. /\ \A i \in 1..Len(q) : q[i][1] \in LastNames => i = Len(q)
        /\ \A i \in 1..Len(q) : q[i][1] # "join thread"
    BY <1>1, <2>2, <2>3
  <2>. QED
    BY <1>1, <2>4, <2>5, <2>6, ShapeOf
<1>4. \A name, arg : In(q, name, arg) <=>
         \/ a[1] = name /\ a[2] = arg
         \/ b[1] = name /\ b[2] = arg
         \/ c[1] = name /\ c[2] = arg
  BY <1>1, <1>2 DEF In
<1>. QED
  BY <1>1, <1>3, <1>4 DEF q

\* The steps of a decoder, DecodeLoop.
LEMMA FourIs ==
  /\ DecodeLoop \in Seq(Steps) /\ DecodeLoop # <<>> /\ Shape(DecodeLoop)
  /\ DecodeLoop[1][1] = "use synthetic"
  /\ \A i \in 1..Len(DecodeLoop) : DecodeLoop[i][1] \in FileNames
  /\ \A name, arg : In(DecodeLoop, name, arg) <=>
        name \in {"use synthetic", "clear", "read"} /\ arg = "none"
<1>. DEFINE a == Do("use synthetic")
            b == Do("clear")
            c == Do("read")
            q == <<a, b, c, b>>
<1>1. a \in Steps /\ b \in Steps /\ c \in Steps
  BY DoIs DEF PlainNames, AllNames, FileNames
<1>2. /\ a[1] = "use synthetic" /\ b[1] = "clear" /\ c[1] = "read"
      /\ a[2] = "none" /\ b[2] = "none" /\ c[2] = "none"
  BY DEF Do
<1>. HIDE DEF a, b, c
<1>3. /\ q \in Seq(Steps) /\ q # <<>> /\ Len(q) = 4
      /\ q[1] = a /\ q[2] = b /\ q[3] = c /\ q[4] = b
  BY <1>1
<1>. HIDE DEF q
<1>4. /\ \A i \in 1..4 : i = 1 \/ i = 2 \/ i = 3 \/ i = 4
      /\ \A i \in 2..4 : i = 2 \/ i = 3 \/ i = 4
      /\ 1 \in 1..4 /\ 2 \in 1..4 /\ 3 \in 1..4 /\ 2 - 1 = 1 /\ 3 - 1 = 2 /\ 4 - 1 = 3
  OBVIOUS
<1>5. \A i \in 1..Len(q) : q[i] = a \/ q[i] = b \/ q[i] = c
  BY <1>3, <1>4
<1>6. \A i \in 2..Len(q) : q[i] = b \/ (q[i] = c /\ q[i - 1] = b)
  BY <1>3, <1>4
<1>7. Shape(q)
  <2>1. \A i \in 2..Len(q) : q[i][1] \in TailNames
    BY <1>2, <1>6 DEF TailNames
  <2>2. \A i \in 2..Len(q) : q[i][1] = "read" => q[i - 1][1] \in {"clear", "wait"}
    BY <1>2, <1>6
  <2>3. /\ \A i \in 1..Len(q) : q[i][1] \in LastNames => i = Len(q)
        /\ \A i \in 1..Len(q) : q[i][1] # "join thread"
    BY <1>2, <1>5 DEF LastNames
  <2>. QED
    BY <1>3, <2>1, <2>2, <2>3, ShapeOf
<1>8. \A name, arg : In(q, name, arg) <=>
        \/ a[1] = name /\ a[2] = arg
        \/ b[1] = name /\ b[2] = arg
        \/ c[1] = name /\ c[2] = arg
  BY <1>3, <1>4, <1>5 DEF In
<1>9. \A i \in 1..Len(q) : q[i][1] \in FileNames
  BY <1>2, <1>5 DEF FileNames
<1>10. q = DecodeLoop
  BY DEF q, a, b, c, DecodeLoop
<1>11. q[1][1] = "use synthetic"
  BY <1>2, <1>3
<1>12. \A name, arg : In(q, name, arg) <=>
          name \in {"use synthetic", "clear", "read"} /\ arg = "none"
  BY <1>2, <1>8
<1>. HIDE DEF DecodeLoop
<1>. QED
  BY <1>3, <1>7, <1>9, <1>10, <1>11, <1>12

CloseNames ==
    {"stop current", "stop recording", "clear", "remove senders", "close", "release"}

\* The steps of ClosePeerConnection.
LEMMA SixIs ==
  /\ ClosePeerConnection \in Seq(Steps) /\ ClosePeerConnection # <<>>
  /\ Len(ClosePeerConnection) = 6 /\ Shape(ClosePeerConnection)
  /\ \A i \in 1..6 : ClosePeerConnection[i][1] \in CloseNames
  /\ \A name, arg : In(ClosePeerConnection, name, arg) <=> name \in CloseNames /\ arg = "none"
<1>. DEFINE a == Do("stop current")
            b == Do("stop recording")
            c == Do("clear")
            d == Do("remove senders")
            e == Do("close")
            f == Do("release")
            q == <<a, b, c, d, e, f>>
<1>1. a \in Steps /\ b \in Steps /\ c \in Steps /\ d \in Steps /\ e \in Steps /\ f \in Steps
  BY DoIs DEF PlainNames, AllNames, IoNames, InputNames
<1>2. /\ a[1] = "stop current" /\ b[1] = "stop recording" /\ c[1] = "clear"
      /\ d[1] = "remove senders" /\ e[1] = "close" /\ f[1] = "release"
      /\ a[2] = "none" /\ b[2] = "none" /\ c[2] = "none"
      /\ d[2] = "none" /\ e[2] = "none" /\ f[2] = "none"
  BY DEF Do
<1>. HIDE DEF a, b, c, d, e, f
<1>3. /\ q \in Seq(Steps) /\ q # <<>> /\ Len(q) = 6
      /\ q[1] = a /\ q[2] = b /\ q[3] = c /\ q[4] = d /\ q[5] = e /\ q[6] = f
  BY <1>1
<1>. HIDE DEF q
<1>4. /\ \A i \in 1..6 : i = 1 \/ i = 2 \/ i = 3 \/ i = 4 \/ i = 5 \/ i = 6
      /\ \A i \in 2..6 : i = 2 \/ i = 3 \/ i = 4 \/ i = 5 \/ i = 6
      /\ 1 \in 1..6 /\ 2 \in 1..6 /\ 3 \in 1..6 /\ 4 \in 1..6 /\ 5 \in 1..6 /\ 6 \in 1..6
  OBVIOUS
<1>5. \A i \in 1..6 : q[i] = a \/ q[i] = b \/ q[i] = c \/ q[i] = d \/ q[i] = e \/ (i = 6 /\ q[i] = f)
  BY <1>3, <1>4
<1>6. \A i \in 2..6 : q[i] = b \/ q[i] = c \/ q[i] = d \/ q[i] = e \/ q[i] = f
  BY <1>3, <1>4
<1>7. Shape(q)
  <2>1. \A i \in 2..Len(q) : q[i][1] \in TailNames /\ q[i][1] # "read"
    BY <1>2, <1>3, <1>6 DEF TailNames
  <2>2. \A i \in 2..Len(q) : q[i][1] = "read" => q[i - 1][1] \in {"clear", "wait"}
    BY <2>1
  <2>3. /\ \A i \in 1..Len(q) : q[i][1] \in LastNames => i = Len(q)
        /\ \A i \in 1..Len(q) : q[i][1] # "join thread"
    BY <1>2, <1>3, <1>5 DEF LastNames
  <2>. QED
    BY <1>3, <2>1, <2>2, <2>3, ShapeOf
<1>8. ASSUME NEW name, NEW arg
      PROVE  In(q, name, arg) <=>
        \/ a[1] = name /\ a[2] = arg
        \/ b[1] = name /\ b[2] = arg
        \/ c[1] = name /\ c[2] = arg
        \/ d[1] = name /\ d[2] = arg
        \/ e[1] = name /\ e[2] = arg
        \/ f[1] = name /\ f[2] = arg
  BY <1>3, <1>4, <1>5 DEF In
<1>9. \A i \in 1..6 : q[i][1] \in CloseNames
  BY <1>2, <1>5 DEF CloseNames
<1>10. q = ClosePeerConnection
  BY DEF q, a, b, c, d, e, f, ClosePeerConnection
<1>11. \A name, arg : In(q, name, arg) <=> name \in CloseNames /\ arg = "none"
  BY <1>2, <1>8 DEF CloseNames
<1>. QED
  BY <1>3, <1>7, <1>9, <1>10, <1>11

\* A step in front of a sequence.
LEMMA PutBefore ==
  ASSUME NEW a \in Steps, NEW r \in Seq(Steps), NEW n \in Nat, Len(r) = n
  PROVE  /\ <<a>> \o r \in Seq(Steps) /\ Len(<<a>> \o r) = n + 1
         /\ (<<a>> \o r)[1] = a
         /\ \A i \in 2..(n + 1) : i - 1 \in 1..n /\ (<<a>> \o r)[i] = r[i - 1]
<1>. DEFINE p == <<a>>
            q == p \o r
<1>1. p \in Seq(Steps) /\ Len(p) = 1 /\ p[1] = a
  OBVIOUS
<1>. HIDE DEF p
<1>2. /\ q \in Seq(Steps) /\ Len(q) = Len(p) + Len(r)
      /\ \A i \in 1..(Len(p) + Len(r)) : q[i] = IF i <= Len(p) THEN p[i] ELSE r[i - Len(p)]
  BY <1>1, ConcatProperties
<1>. HIDE DEF q
<1>3. Len(p) + Len(r) = n + 1
  BY <1>1
<1>4. Len(q) = n + 1 /\ \A i \in 1..(n + 1) : q[i] = IF i <= 1 THEN p[i] ELSE r[i - 1]
  BY <1>1, <1>2, <1>3
<1>5. 1 \in 1..(n + 1) /\ 1 <= 1
  OBVIOUS
<1>6. \A i \in 2..(n + 1) : i \in 1..(n + 1) /\ ~(i <= 1) /\ i - 1 \in 1..n
  OBVIOUS
<1>7. q[1] = a /\ \A i \in 2..(n + 1) : i - 1 \in 1..n /\ q[i] = r[i - 1]
  BY <1>1, <1>4, <1>5, <1>6
<1>. QED
  BY <1>2, <1>4, <1>7 DEF q, p

StopsSource(a) == a \in Steps /\ a[1] = "stop source"

\* Closing a connection whose source is given up.
LEMMA SevenIs ==
  ASSUME NEW a, StopsSource(a)
  PROVE  /\ <<a>> \o ClosePeerConnection \in Seq(Steps)
         /\ <<a>> \o ClosePeerConnection # <<>> /\ Shape(<<a>> \o ClosePeerConnection)
         /\ \A i \in 1..Len(<<a>> \o ClosePeerConnection) :
               (<<a>> \o ClosePeerConnection)[i][1] \in CloseNames \cup {"stop source"}
         /\ \A name, arg : In(<<a>> \o ClosePeerConnection, name, arg) <=>
               \/ name = "stop source" /\ arg = a[2]
               \/ name \in CloseNames /\ arg = "none"
<1>. DEFINE r == ClosePeerConnection
            q == <<a>> \o r
<1>1. r \in Seq(Steps) /\ Len(r) = 6
  BY SixIs
<1>. HIDE DEF r
<1>2. a \in Steps
  BY DEF StopsSource
<1>3. 6 + 1 = 7 /\ 6 \in Nat
  OBVIOUS
<1>4. /\ q \in Seq(Steps) /\ Len(q) = 7 /\ q[1] = a
      /\ \A i \in 2..7 : i - 1 \in 1..6 /\ q[i] = r[i - 1]
  <2>1. ASSUME NEW n \in Nat, Len(r) = n
        PROVE  /\ q \in Seq(Steps) /\ Len(q) = n + 1 /\ q[1] = a
               /\ \A i \in 2..(n + 1) : i - 1 \in 1..n /\ q[i] = r[i - 1]
    BY <1>1, <1>2, <2>1, PutBefore
  <2>. HIDE DEF q
  <2>. QED
    BY <1>1, <1>3, <2>1
<1>. HIDE DEF q
<1>5. /\ \A i \in 1..7 : i = 1 \/ i \in 2..7
      /\ \A i \in 1..6 : i + 1 \in 2..7 /\ i + 1 \in 1..7 /\ (i + 1) - 1 = i
      /\ \A i \in 2..7 : i \in 1..7 /\ (i # 2 => i - 1 \in 2..6) /\ (i - 1 = 6 => i = 7)
      /\ 1 \in 1..7 /\ 2 - 1 = 1
  OBVIOUS
<1>6. /\ \A i \in 1..6 : r[i][1] \in CloseNames /\ (r[i][1] \in LastNames => i = 6)
      /\ \A i \in 2..6 : r[i][1] # "stop current"
      /\ \A name, arg : In(r, name, arg) <=> name \in CloseNames /\ arg = "none"
  <2>1. \A i \in 2..6 : r[i][1] # "stop current"
    <3>1. r[1][1] = "stop current"
      BY DEF r, ClosePeerConnection, Do
    <3>2. \A i \in 2..Len(r) : r[i][1] = "stop current" => r[1][1] \in {"stop source", "clear", "join decoder"}
      BY SixIs DEF Shape, r
    <3>. QED
      BY <1>1, <3>1, <3>2
  <2>2. \A i \in 1..Len(r) : r[i][1] \in LastNames => i = Len(r)
    BY SixIs DEF Shape, r
  <2>. QED
    BY <1>1, <2>1, <2>2, SixIs DEF r
<1>7. Shape(q)
  <2>1. ASSUME NEW i \in 2..7
        PROVE  q[i][1] \in CloseNames /\ (q[i][1] = "stop current" => i = 2)
    <3>1. i - 1 \in 1..6 /\ q[i] = r[i - 1] /\ (i # 2 => i - 1 \in 2..6)
      BY <1>4, <1>5
    <3>. QED
      BY <1>6, <3>1
  <2>2. \A i \in 1..7 : (q[i][1] \in LastNames => i = 7) /\ q[i][1] # "join thread"
    <3>1. ASSUME NEW i \in 2..7
          PROVE  (q[i][1] \in LastNames => i = 7) /\ q[i][1] # "join thread"
      <4>1. i - 1 \in 1..6 /\ q[i] = r[i - 1] /\ (i - 1 = 6 => i = 7)
        BY <1>4, <1>5
      <4>. QED
        BY <1>6, <4>1 DEF CloseNames
    <3>2. a[1] \notin LastNames /\ a[1] # "join thread"
      BY DEF LastNames, StopsSource
    <3>. QED
      BY <1>4, <1>5, <3>1, <3>2
  <2>3. q[1][1] = "stop source"
    BY <1>4 DEF StopsSource
  <2>4. \A i \in 2..7 :
          /\ q[i][1] \notin FrontNames
          /\ q[i][1] # "start thread" /\ q[i][1] # "thread stopped"
          /\ q[i][1] # "start microphone" /\ q[i][1] # "read"
    BY <2>1 DEF CloseNames, FrontNames
  <2>. QED
    BY <1>4, <2>1, <2>2, <2>3, <2>4 DEF Shape
<1>8. \A i \in 1..Len(q) : q[i][1] \in CloseNames \cup {"stop source"}
  BY <1>4, <1>5, <1>6 DEF StopsSource
<1>9. ASSUME NEW name, NEW arg
      PROVE  In(q, name, arg) <=> (a[1] = name /\ a[2] = arg) \/ In(r, name, arg)
  <2>1. ASSUME NEW i \in 1..6, r[i][1] = name, r[i][2] = arg
        PROVE  In(q, name, arg)
    <3>1. i + 1 \in 1..Len(q) /\ q[i + 1] = r[i]
      BY <1>4, <1>5
    <3>. QED
      BY <2>1, <3>1 DEF In
  <2>2. a[1] = name /\ a[2] = arg => In(q, name, arg)
    BY <1>4, <1>5 DEF In
  <2>3. ASSUME NEW i \in 1..7, q[i][1] = name, q[i][2] = arg
        PROVE  (a[1] = name /\ a[2] = arg) \/ In(r, name, arg)
    BY <1>1, <1>4, <1>5, <2>3 DEF In
  <2>. QED
    BY <1>1, <1>4, <2>1, <2>2, <2>3 DEF In
<1>10. q # <<>>
  <2>1. Len(q) # 0
    BY <1>4
  <2>. QED
    BY <1>4, <2>1, EmptySeq
<1>11. \A name, arg : In(q, name, arg) <=>
               \/ name = "stop source" /\ arg = a[2]
               \/ name \in CloseNames /\ arg = "none"
  BY <1>6, <1>9 DEF StopsSource
<1>. QED
  BY <1>4, <1>7, <1>8, <1>10, <1>11 DEF q, r

\* Sequences that are put together.
LEMMA Joined ==
  ASSUME NEW a \in Steps, NEW b \in Steps, NEW c \in Steps
  PROVE  /\ <<a>> \o <<>> = <<a>>
         /\ <<a>> \o <<b>> = <<a, b>>
         /\ <<a, b>> \o <<c>> = <<a, b, c>>
<1>1. <<a>> \o <<>> = <<a>>
  <2>1. <<a>> \in Seq(Steps)
    OBVIOUS
  <2>. QED
    BY <2>1, ConcatEmptySeq
<1>2. <<a>> \o <<b>> = <<a, b>>
  <2>. DEFINE p == <<a>>
              q == <<b>>
              r == <<a, b>>
  <2>1. /\ p \in Seq(Steps) /\ q \in Seq(Steps) /\ r \in Seq(Steps)
        /\ Len(p) = 1 /\ Len(q) = 1 /\ Len(r) = 2
        /\ r[1] = p[1] /\ r[2] = q[1]
    OBVIOUS
  <2>. HIDE DEF p, q, r
  <2>2. /\ p \o q \in Seq(Steps) /\ Len(p \o q) = Len(p) + Len(q)
        /\ \A i \in 1..(Len(p) + Len(q)) :
              (p \o q)[i] = IF i <= Len(p) THEN p[i] ELSE q[i - Len(p)]
    BY <2>1, ConcatProperties
  <2>3. Len(p) + Len(q) = 2
    BY <2>1
  <2>4. /\ \A i \in 1..2 : i = 1 \/ i = 2
        /\ 2 - 1 = 1 /\ 1 <= 1 /\ ~(2 <= 1)
    OBVIOUS
  <2>5. Len(p \o q) = 2 /\ \A i \in 1..2 : (p \o q)[i] = r[i]
    BY <2>1, <2>2, <2>3, <2>4
  <2>6. p \o q = r
    BY <2>1, <2>2, <2>5, SeqEqual
  <2>. QED
    BY <2>6 DEF p, q, r
<1>3. <<a, b>> \o <<c>> = <<a, b, c>>
  <2>. DEFINE p == <<a, b>>
              q == <<c>>
              r == <<a, b, c>>
  <2>1. /\ p \in Seq(Steps) /\ q \in Seq(Steps) /\ r \in Seq(Steps)
        /\ Len(p) = 2 /\ Len(q) = 1 /\ Len(r) = 3
        /\ r[1] = p[1] /\ r[2] = p[2] /\ r[3] = q[1]
    OBVIOUS
  <2>. HIDE DEF p, q, r
  <2>2. /\ p \o q \in Seq(Steps) /\ Len(p \o q) = Len(p) + Len(q)
        /\ \A i \in 1..(Len(p) + Len(q)) :
              (p \o q)[i] = IF i <= Len(p) THEN p[i] ELSE q[i - Len(p)]
    BY <2>1, ConcatProperties
  <2>3. Len(p) + Len(q) = 3
    BY <2>1
  <2>4. /\ \A i \in 1..3 : i = 1 \/ i = 2 \/ i = 3
        /\ 3 - 2 = 1 /\ 1 <= 2 /\ 2 <= 2 /\ ~(3 <= 2)
    OBVIOUS
  <2>5. Len(p \o q) = 3 /\ \A i \in 1..3 : (p \o q)[i] = r[i]
    BY <2>1, <2>2, <2>3, <2>4
  <2>6. p \o q = r
    BY <2>1, <2>2, <2>5, SeqEqual
  <2>. QED
    BY <2>6 DEF p, q, r
<1>. QED
  BY <1>1, <1>2, <1>3

-----------------------------------------------------------------------------
(* What a step does to the sequences. *)

\* The thread t takes the step at its front and goes on with called.
Moved(t, called) ==
    /\ todo' \in [Threads -> Seq(Steps)]
    /\ \A u \in Threads : u # t => todo'[u] = todo[u]
    /\ \A name, arg : In(todo[t], name, arg) <=>
          (Head(todo[t])[1] = name /\ Head(todo[t])[2] = arg) \/ Later(todo[t], name, arg)
    /\ \A name, arg : In(todo'[t], name, arg) <=>
          In(called, name, arg) \/ Later(todo[t], name, arg)

\* What a thread may call instead of the step at its front.
Fits(t, called) ==
    /\ called \in Seq(Steps)
    /\ \A i \in 1..Len(called) : called[i][1] \in NamesOf(t)
    /\ called = <<>> \/ MayCall(todo[t], called)

\* The front of a sequence that was shortened, or continued with called steps.
Fronts(t, called) ==
    /\ called = <<>> => /\ First(todo'[t], "read") => Head(todo[t])[1] \in {"clear", "wait"}
                        /\ ~First(todo'[t], "push")
    /\ called # <<>> => \A name : First(todo'[t], name) <=> First(called, name)

\* A step that is done makes room for what it called.
LEMMA GoIs ==
  ASSUME Types, ShapeInv, NEW t \in Threads, Busy(t), NEW called, Fits(t, called),
         Go(t, called)
  PROVE  Moved(t, called) /\ ShapeInv' /\ Fronts(t, called)
<1>. DEFINE q == todo[t]
            r == todo'[t]
<1>1. q \in Seq(Steps) /\ q # <<>> /\ called \in Seq(Steps) /\ Shape(q)
  BY DEF Types, Busy, ShapeInv, Fits
<1>2. /\ r = called \o Tail(q)
      /\ \A u \in Threads : u # t => todo'[u] = todo[u]
      /\ DOMAIN todo' = Threads /\ todo' = [u \in Threads |-> todo'[u]]
  BY DEF Go, After, Types
<1>3. Continues(r, called, q)
  BY <1>1, <1>2, Continued
<1>4. todo' \in [Threads -> Seq(Steps)]
  <2>1. r \in Seq(Steps)
    BY <1>3 DEF Continues
  <2>. QED
    BY <1>2, <2>1 DEF Types
<1>5. Moved(t, called)
  BY <1>1, <1>2, <1>3, <1>4, Split, ContinuedIn DEF Moved
<1>6. Head(q) = q[1]
  BY <1>1, Split
<1>7. /\ Shape(r)
      /\ called = <<>> => /\ First(r, "read") => q[1][1] \in {"clear", "wait"}
                          /\ ~First(r, "push")
      /\ called # <<>> => \A name : First(r, name) <=> First(called, name)
  <2>1. CASE called = <<>>
    BY <1>1, <1>3, <2>1, ShapePopped
  <2>2. CASE called # <<>>
    BY <1>1, <1>3, <2>2, ShapePushed DEF Fits
  <2>. QED
    BY <2>1, <2>2
<1>8. \A i \in 1..Len(r) : r[i][1] \in NamesOf(t)
  <2>. DEFINE m == Len(called)
              n == Len(q)
  <2>1. m \in Nat /\ n \in Nat /\ n >= 1
    BY <1>1, EmptySeq, LenProperties
  <2>2. /\ Len(r) = m + n - 1
        /\ \A i \in 1..m : r[i] = called[i]
        /\ \A i \in (m + 1)..(m + n - 1) : r[i] = q[i - m + 1]
    BY <1>3 DEF Continues
  <2>3. /\ \A i \in 1..m : called[i][1] \in NamesOf(t)
        /\ \A i \in 1..n : q[i][1] \in NamesOf(t)
    BY DEF Fits, ShapeInv
  <2>. HIDE DEF q, r, m, n
  <2>. SUFFICES ASSUME NEW i \in 1..(m + n - 1)
                PROVE  r[i][1] \in NamesOf(t)
    BY <2>2
  <2>4. i \in 1..m \/ (i \in (m + 1)..(m + n - 1) /\ i - m + 1 \in 1..n)
    BY <2>1
  <2>. QED
    BY <2>2, <2>3, <2>4
<1>9. ShapeInv'
  BY <1>2, <1>7, <1>8 DEF ShapeInv
<1>. QED
  BY <1>5, <1>6, <1>7, <1>9 DEF Fronts

\* A thread that goes on with called and nothing else.
Returned(t, called) ==
    /\ todo' \in [Threads -> Seq(Steps)]
    /\ \A u \in Threads : u # t => todo'[u] = todo[u]
    /\ todo'[t] = called

\* A method that returns early leaves only what it called.
LEMMA ReturnIs ==
  ASSUME Types, ShapeInv, NEW t \in Threads, NEW called \in Seq(Steps), Shape(called),
         \A i \in 1..Len(called) : called[i][1] \in NamesOf(t),
         Return(t, called)
  PROVE  Returned(t, called) /\ ShapeInv'
<1>1. /\ todo' \in [Threads -> Seq(Steps)]
      /\ todo'[t] = called
      /\ \A u \in Threads : u # t => todo'[u] = todo[u]
  BY DEF Return, Types
<1>2. ShapeInv'
  BY <1>1 DEF ShapeInv
<1>. QED
  BY <1>1, <1>2 DEF Returned

\* The steps that a step calls.
CallsOne(x, y) ==
    \/ x \in {"use microphone", "stop recording"} /\ y = "stop thread"
    \/ x \in {"use synthetic", "stop recording"} /\ y = "stop microphone"
    \/ x = "create" /\ y = "set track"
    \/ x \in {"stop current", "release", "return"} /\ y = "stop source"
    \/ x = "remove senders" /\ y = "stop recording"

CallsTwo(x, y, z) ==
    \/ x = "use microphone" /\ y = "stop thread" /\ z = "start microphone"
    \/ x = "use synthetic" /\ y = "stop microphone" /\ z = "start thread"
    \/ x = "stop thread" /\ y = "join thread" /\ z = "thread stopped"
    \/ x = "read" /\ y = "clear" /\ z = "read"
    \/ x = "stop source" /\ y = "join decoder" /\ z = "clear"
    \/ x = "create" /\ y = "stop source" /\ z = "attach"
    \/ x = "swap" /\ y = "stop source" /\ z = "return"

CallsThree(x, y, z, w) ==
    \/ x = "read" /\ y = "push" /\ z = "wait" /\ w = "read"
    \/ /\ x = "set track" /\ y \in {"use microphone", "use synthetic"}
       /\ z = "clear" /\ w = "swap"

\* One step that may be called.
LEMMA FitsOne ==
  ASSUME Types, ShapeInv, NEW t \in Threads, Busy(t), NEW a \in Steps,
         a[1] \in NamesOf(t), CallsOne(Head(todo[t])[1], a[1])
  PROVE  Fits(t, <<a>>)
<1>. DEFINE q == todo[t]
            c == <<a>>
<1>1. q \in Seq(Steps) /\ q # <<>> /\ Shape(q) /\ Head(q) = q[1] /\ Len(q) \in Nat /\ Len(q) >= 1
  BY Split DEF Types, Busy, ShapeInv
<1>2. c \in Seq(Steps) /\ c # <<>> /\ Len(c) = 1 /\ c[1] = a
  BY One
<1>3. a[1] # "join thread" => Shape(c)
  BY One
<1>. HIDE DEF c
<1>4. CallsOne(q[1][1], a[1])
  BY <1>1
<1>. HIDE DEF q
<1>5. /\ a[1] # "join thread"
      /\ q[1][1] \notin {"stop microphone", "join thread", "thread stopped", "join decoder",
                         "clear", "wait", "stop thread", "stop source"}
      /\ a[1] \in LastNames => q[1][1] \in LastNames
  BY <1>4 DEF CallsOne, LastNames
<1>6. q[1][1] \in LastNames => Len(q) = 1
  <2>1. 1 \in 1..Len(q)
    BY <1>1
  <2>. QED
    BY <1>1, <2>1 DEF Shape
<1>7. \A i \in 1..Len(c) : c[i] = a
  <2>1. \A i \in 1..1 : i = 1
    OBVIOUS
  <2>. QED
    BY <1>2, <2>1
<1>8. MayCall(q, c)
  BY <1>2, <1>3, <1>5, <1>6, <1>7 DEF MayCall
<1>. QED
  BY <1>2, <1>7, <1>8 DEF Fits, c, q

\* Two steps that may be called.
LEMMA FitsTwo ==
  ASSUME Types, ShapeInv, NEW t \in Threads, Busy(t), NEW a \in Steps, NEW b \in Steps,
         a[1] \in NamesOf(t), b[1] \in NamesOf(t), CallsTwo(Head(todo[t])[1], a[1], b[1])
  PROVE  Fits(t, <<a, b>>)
<1>. DEFINE q == todo[t]
            c == <<a, b>>
<1>1. q \in Seq(Steps) /\ q # <<>> /\ Shape(q) /\ Head(q) = q[1] /\ Len(q) \in Nat /\ Len(q) >= 1
  BY Split DEF Types, Busy, ShapeInv
<1>2. c \in Seq(Steps) /\ c # <<>> /\ Len(c) = 2 /\ c[1] = a /\ c[2] = b
  BY Two
<1>3. Pairs(a[1], b[1]) => Shape(c)
  BY Two
<1>. HIDE DEF c
<1>4. CallsTwo(q[1][1], a[1], b[1])
  BY <1>1
<1>. HIDE DEF q
<1>5. /\ Pairs(a[1], b[1])
      /\ q[1][1] \notin {"stop microphone", "join thread", "thread stopped", "join decoder",
                         "clear", "wait"}
      /\ a[1] \in LastNames \/ b[1] \in LastNames => q[1][1] \in LastNames
      /\ q[1][1] = "stop thread" => a[1] = "join thread"
      /\ q[1][1] = "stop source" => a[1] = "join decoder" /\ b[1] = "clear"
  BY <1>4 DEF CallsTwo, LastNames, Pairs
<1>6. q[1][1] \in LastNames => Len(q) = 1
  <2>1. 1 \in 1..Len(q)
    BY <1>1
  <2>. QED
    BY <1>1, <2>1 DEF Shape
<1>7. \A i \in 1..Len(c) : c[i] = a \/ c[i] = b
  <2>1. \A i \in 1..2 : i = 1 \/ i = 2
    OBVIOUS
  <2>. QED
    BY <1>2, <2>1
<1>8. MayCall(q, c)
  BY <1>2, <1>3, <1>5, <1>6, <1>7 DEF MayCall
<1>. QED
  BY <1>2, <1>7, <1>8 DEF Fits, c, q

\* Three steps that may be called.
LEMMA FitsThree ==
  ASSUME Types, ShapeInv, NEW t \in Threads, Busy(t),
         NEW a \in Steps, NEW b \in Steps, NEW d \in Steps,
         a[1] \in NamesOf(t), b[1] \in NamesOf(t), d[1] \in NamesOf(t),
         CallsThree(Head(todo[t])[1], a[1], b[1], d[1])
  PROVE  Fits(t, <<a, b, d>>)
<1>. DEFINE q == todo[t]
            c == <<a, b, d>>
<1>1. q \in Seq(Steps) /\ q # <<>> /\ Shape(q) /\ Head(q) = q[1] /\ Len(q) \in Nat /\ Len(q) >= 1
  BY Split DEF Types, Busy, ShapeInv
<1>2. c \in Seq(Steps) /\ c # <<>> /\ Len(c) = 3 /\ c[1] = a /\ c[2] = b /\ c[3] = d
  BY Three
<1>3. Triples(a[1], b[1], d[1]) => Shape(c)
  BY Three
<1>. HIDE DEF c
<1>4. CallsThree(q[1][1], a[1], b[1], d[1])
  BY <1>1
<1>. HIDE DEF q
<1>5. /\ Triples(a[1], b[1], d[1])
      /\ q[1][1] \notin {"stop microphone", "join thread", "thread stopped", "join decoder",
                         "clear", "wait", "stop thread", "stop source"}
      /\ a[1] \in LastNames \/ b[1] \in LastNames \/ d[1] \in LastNames => q[1][1] \in LastNames
  BY <1>4 DEF CallsThree, LastNames, Triples
<1>6. q[1][1] \in LastNames => Len(q) = 1
  <2>1. 1 \in 1..Len(q)
    BY <1>1
  <2>. QED
    BY <1>1, <2>1 DEF Shape
<1>7. \A i \in 1..Len(c) : c[i] = a \/ c[i] = b \/ c[i] = d
  <2>1. \A i \in 1..3 : i = 1 \/ i = 2 \/ i = 3
    OBVIOUS
  <2>. QED
    BY <1>2, <2>1
<1>8. MayCall(q, c)
  BY <1>2, <1>3, <1>5, <1>6, <1>7 DEF MayCall
<1>. QED
  BY <1>2, <1>7, <1>8 DEF Fits, c, q

\* A thread that is idle has nothing to do, and one that is not has a step.
LEMMA IdleIs ==
  ASSUME Types, NEW t \in Threads
  PROVE  /\ ~Busy(t) => \A name, arg : ~In(todo[t], name, arg)
         /\ Busy(t) <=> \E name \in AllNames : At(t, name)
<1>1. ~Busy(t) => \A name, arg : ~In(todo[t], name, arg)
  <2>1. Len(<<>>) = 0 /\ 1..0 = {}
    OBVIOUS
  <2>. QED
    BY <2>1 DEF Busy, In
<1>2. Busy(t) => Head(todo[t]) \in Steps
  BY HeadTailProperties DEF Busy, Types
<1>3. Busy(t) => Head(todo[t])[1] \in AllNames
  BY <1>2 DEF Steps, AllNames
<1>. QED
  BY <1>1, <1>3 DEF At

\* The step at the front of t, and what may come after it.
FrontAt(t, name) ==
    /\ name \in NamesOf(t) /\ Arg(t) \in ArgsOf(name)
    /\ name \in PlainNames => Arg(t) = "none"
    /\ \A n, x : In(todo[t], n, x) <=> (n = name /\ x = Arg(t)) \/ Later(todo[t], n, x)
    /\ \A n \in FrontNames : \A x : ~Later(todo[t], n, x)
    /\ name \in LastNames => \A n, x : ~Later(todo[t], n, x)
    /\ \A x : Later(todo[t], "start thread", x) => name = "stop microphone"
    /\ \A x : Later(todo[t], "thread stopped", x) => name = "join thread"
    /\ \A x : Later(todo[t], "start microphone", x) =>
          name \in {"stop thread", "thread stopped", "join thread"}
    /\ \A x : Later(todo[t], "stop current", x) =>
          name \in {"stop source", "clear", "join decoder"}
    /\ name = "join thread" => Later(todo[t], "thread stopped", "none")

\* What is known of a thread from the step it is at.
LEMMA FrontIs ==
  ASSUME Types, ShapeInv, NEW t \in Threads, NEW name, At(t, name)
  PROVE  FrontAt(t, name) /\ Busy(t) /\ Head(todo[t])[1] = name
<1>. DEFINE q == todo[t]
<1>1. q \in Seq(Steps) /\ q # <<>> /\ Shape(q) /\ Head(q)[1] = name
  BY DEF Types, At, Busy, ShapeInv
<1>2. Head(q) = q[1] /\ q[1][1] = name /\ Len(q) \in Nat /\ Len(q) >= 1
  BY <1>1, Split
<1>3. 1 \in 1..Len(q)
  BY <1>2
<1>4. name \in NamesOf(t)
  BY <1>2, <1>3 DEF ShapeInv
<1>5. q[1] \in Steps
  BY <1>1, <1>3, ElementOfSeq
<1>6. Arg(t) \in ArgsOf(name)
  BY <1>2, <1>5 DEF Arg, Steps
<1>7. \A n, x : In(q, n, x) <=> (n = name /\ x = Arg(t)) \/ Later(q, n, x)
  BY <1>1, <1>2, Split DEF Arg
<1>8. /\ \A n \in FrontNames : \A x : ~Later(q, n, x)
      /\ name \in LastNames => \A n, x : ~Later(q, n, x)
      /\ \A x : Later(q, "start thread", x) => name = "stop microphone"
      /\ \A x : Later(q, "thread stopped", x) => name = "join thread"
      /\ \A x : Later(q, "start microphone", x) =>
            name \in {"stop thread", "thread stopped", "join thread"}
      /\ \A x : Later(q, "stop current", x) =>
            name \in {"stop source", "clear", "join decoder"}
  BY <1>1, <1>2, LaterIs
<1>9. name = "join thread" => Later(q, "thread stopped", "none")
  BY <1>1, <1>2, JoinIs
<1>. HIDE DEF q
<1>10. Busy(t)
  BY DEF At
<1>11. name \in PlainNames => Arg(t) = "none"
  BY <1>6 DEF PlainNames, ArgsOf
<1>. QED
  BY <1>1, <1>4, <1>6, <1>7, <1>8, <1>9, <1>10, <1>11 DEF FrontAt, q

\* What is left alone by a step of t.
Others(t) ==
    /\ todo' \in [Threads -> Seq(Steps)]
    /\ \A u \in Threads : u # t => todo'[u] = todo[u]

\* A step that calls nothing.
LEMMA GoNothing ==
  ASSUME Types, ShapeInv, NEW t \in Threads, Busy(t), Go(t, <<>>)
  PROVE  /\ ShapeInv' /\ Others(t)
         /\ \A n, x : In(todo'[t], n, x) <=> Later(todo[t], n, x)
         /\ First(todo'[t], "read") => Head(todo[t])[1] \in {"clear", "wait"}
         /\ ~First(todo'[t], "push")
<1>1. Fits(t, <<>>)
  <2>1. <<>> \in Seq(Steps) /\ \A i \in 1..Len(<<>>) : FALSE
    OBVIOUS
  <2>. QED
    BY <2>1 DEF Fits
<1>2. Moved(t, <<>>) /\ ShapeInv' /\ Fronts(t, <<>>)
  BY <1>1, GoIs
<1>3. \A n, x : ~In(<<>>, n, x)
  BY DEF In
<1>. QED
  BY <1>2, <1>3 DEF Moved, Others, Fronts

\* A step that calls one other.
LEMMA GoOne ==
  ASSUME Types, ShapeInv, NEW t \in Threads, Busy(t), NEW a \in Steps,
         a[1] \in NamesOf(t), CallsOne(Head(todo[t])[1], a[1]), Go(t, <<a>>)
  PROVE  /\ ShapeInv' /\ Others(t)
         /\ \A n, x : In(todo'[t], n, x) <=> (n = a[1] /\ x = a[2]) \/ Later(todo[t], n, x)
         /\ \A n : First(todo'[t], n) <=> n = a[1]
<1>1. Fits(t, <<a>>)
  BY FitsOne
<1>2. Moved(t, <<a>>) /\ ShapeInv' /\ Fronts(t, <<a>>)
  BY <1>1, GoIs
<1>3. <<a>> # <<>> /\ <<a>>[1] = a /\ \A n, x : In(<<a>>, n, x) <=> a[1] = n /\ a[2] = x
  BY One
<1>4. \A n, x : In(todo'[t], n, x) <=> (n = a[1] /\ x = a[2]) \/ Later(todo[t], n, x)
  BY <1>2, <1>3 DEF Moved
<1>5. \A n : First(todo'[t], n) <=> n = a[1]
  BY <1>2, <1>3 DEF Fronts, First
<1>. QED
  BY <1>2, <1>4, <1>5 DEF Moved, Others

\* A step that calls two others.
LEMMA GoTwo ==
  ASSUME Types, ShapeInv, NEW t \in Threads, Busy(t), NEW a \in Steps, NEW b \in Steps,
         a[1] \in NamesOf(t), b[1] \in NamesOf(t),
         CallsTwo(Head(todo[t])[1], a[1], b[1]), Go(t, <<a, b>>)
  PROVE  /\ ShapeInv' /\ Others(t)
         /\ \A n, x : In(todo'[t], n, x) <=>
               (n = a[1] /\ x = a[2]) \/ (n = b[1] /\ x = b[2]) \/ Later(todo[t], n, x)
         /\ \A n : First(todo'[t], n) <=> n = a[1]
<1>. DEFINE c == <<a, b>>
<1>1. Fits(t, c)
  BY FitsTwo
<1>2. Moved(t, c) /\ ShapeInv' /\ Fronts(t, c)
  BY <1>1, GoIs
<1>3. c # <<>> /\ c[1] = a
      /\ \A n, x : In(c, n, x) <=> (a[1] = n /\ a[2] = x) \/ (b[1] = n /\ b[2] = x)
  BY Two
<1>. HIDE DEF c
<1>4. \A n, x : In(todo'[t], n, x) <=>
         (n = a[1] /\ x = a[2]) \/ (n = b[1] /\ x = b[2]) \/ Later(todo[t], n, x)
  BY <1>2, <1>3 DEF Moved
<1>5. \A n : First(todo'[t], n) <=> n = a[1]
  BY <1>2, <1>3 DEF Fronts, First
<1>. QED
  BY <1>2, <1>4, <1>5 DEF Moved, Others

\* A step that calls three others.
LEMMA GoThree ==
  ASSUME Types, ShapeInv, NEW t \in Threads, Busy(t),
         NEW a \in Steps, NEW b \in Steps, NEW d \in Steps,
         a[1] \in NamesOf(t), b[1] \in NamesOf(t), d[1] \in NamesOf(t),
         CallsThree(Head(todo[t])[1], a[1], b[1], d[1]), Go(t, <<a, b, d>>)
  PROVE  /\ ShapeInv' /\ Others(t)
         /\ \A n, x : In(todo'[t], n, x) <=>
               \/ n = a[1] /\ x = a[2]
               \/ n = b[1] /\ x = b[2]
               \/ n = d[1] /\ x = d[2]
               \/ Later(todo[t], n, x)
         /\ \A n : First(todo'[t], n) <=> n = a[1]
<1>. DEFINE c == <<a, b, d>>
<1>1. Fits(t, c)
  BY FitsThree
<1>2. Moved(t, c) /\ ShapeInv' /\ Fronts(t, c)
  BY <1>1, GoIs
<1>3. c # <<>> /\ c[1] = a
      /\ \A n, x : In(c, n, x) <=>
            (a[1] = n /\ a[2] = x) \/ (b[1] = n /\ b[2] = x) \/ (d[1] = n /\ d[2] = x)
  BY Three
<1>. HIDE DEF c
<1>4. \A n, x : In(todo'[t], n, x) <=>
               \/ n = a[1] /\ x = a[2]
               \/ n = b[1] /\ x = b[2]
               \/ n = d[1] /\ x = d[2]
               \/ Later(todo[t], n, x)
  BY <1>2, <1>3 DEF Moved
<1>5. \A n : First(todo'[t], n) <=> n = a[1]
  BY <1>2, <1>3 DEF Fronts, First
<1>. QED
  BY <1>2, <1>4, <1>5 DEF Moved, Others

-----------------------------------------------------------------------------
(* What each action does to the sequences. *)

\* The step that t has taken leads neither to a push nor to a read.
Calmed(t) == ~First(todo'[t], "push") /\ ~First(todo'[t], "read")

\* Which threads take a step of a name.
LEMMA ControlIs ==
  ASSUME NEW t \in Threads, NEW name, name \in NamesOf(t)
  PROVE  /\ name \notin FileNames => t \in Control
         /\ name \notin IoNames => t \notin Closers
         /\ name \notin TimerNames => t # "timer"
         /\ name \notin UiNames => t # "ui"
         /\ t \in Control => t \notin Files
         /\ t \in Files => name \in FileNames
  BY NamesAssumption DEF NamesOf, TimerNames, IoNames, InputNames, Threads, Control, Closers

\* The request timer neither creates sources nor sets the mode.
LEMMA NotTimer ==
  ASSUME NEW t \in Threads, NEW name \in {"use microphone", "use synthetic", "create"},
         FrontAt(t, name)
  PROVE  t # "timer"
<1>1. name \in NamesOf(t)
  BY DEF FrontAt
<1>2. name \notin TimerNames
  BY DEF TimerNames
<1>. QED
  BY <1>1, <1>2 DEF NamesOf

\* The threads that close the connection.
LEMMA CloserIs ==
  ASSUME NEW t \in Closers
  PROVE  t \in Threads /\ t \in Control /\ t # "ui" /\ TimerNames \subseteq NamesOf(t)
  BY DEF Closers, Control, Threads, NamesOf, IoNames, InputNames, TimerNames

LeadsToNoRead(name) == name \notin {"clear", "wait"}

\* A thread is done with a step that calls nothing.
LEMMA Pop ==
  ASSUME Types, ShapeInv, NEW t \in Threads, NEW name, At(t, name),
         Go(t, <<>>)
  PROVE  /\ FrontAt(t, name) /\ ShapeInv' /\ Others(t)
         /\ \A n, x : In(todo'[t], n, x) <=> Later(todo[t], n, x)
         /\ ~First(todo'[t], "push")
         /\ LeadsToNoRead(name) => Calmed(t)
<1>1. FrontAt(t, name) /\ Busy(t) /\ Head(todo[t])[1] = name
  BY FrontIs
<1>. QED
  BY <1>1, GoNothing DEF Calmed, LeadsToNoRead

\* A step that t may call.
May(t, a) == a \in Steps /\ a[1] \in NamesOf(t)

\* A thread goes on with a step that was called.
LEMMA CallOne ==
  ASSUME Types, ShapeInv, NEW t \in Threads, NEW name, At(t, name),
         NEW a, May(t, a), CallsOne(name, a[1]), Go(t, <<a>>)
  PROVE  /\ FrontAt(t, name) /\ ShapeInv' /\ Others(t) /\ Calmed(t)
         /\ \A n, x : In(todo'[t], n, x) <=> (n = a[1] /\ x = a[2]) \/ Later(todo[t], n, x)
<1>1. FrontAt(t, name) /\ Busy(t) /\ Head(todo[t])[1] = name
  BY FrontIs
<1>2. a \in Steps /\ a[1] \in NamesOf(t)
  BY DEF May
<1>3. /\ ShapeInv' /\ Others(t)
      /\ \A n, x : In(todo'[t], n, x) <=> (n = a[1] /\ x = a[2]) \/ Later(todo[t], n, x)
      /\ \A n : First(todo'[t], n) <=> n = a[1]
  BY <1>1, <1>2, GoOne
<1>4. a[1] \notin {"push", "read"}
  BY DEF CallsOne
<1>. QED
  BY <1>1, <1>3, <1>4 DEF Calmed

\* A thread goes on with two steps that were called.
LEMMA CallTwo ==
  ASSUME Types, ShapeInv, NEW t \in Threads, NEW name, At(t, name),
         NEW a, May(t, a), NEW b, May(t, b), CallsTwo(name, a[1], b[1]), Go(t, <<a, b>>)
  PROVE  /\ FrontAt(t, name) /\ ShapeInv' /\ Others(t) /\ Calmed(t)
         /\ \A n, x : In(todo'[t], n, x) <=>
               (n = a[1] /\ x = a[2]) \/ (n = b[1] /\ x = b[2]) \/ Later(todo[t], n, x)
<1>1. FrontAt(t, name) /\ Busy(t) /\ Head(todo[t])[1] = name
  BY FrontIs
<1>2. a \in Steps /\ a[1] \in NamesOf(t) /\ b \in Steps /\ b[1] \in NamesOf(t)
  BY DEF May
<1>3. /\ ShapeInv' /\ Others(t)
      /\ \A n, x : In(todo'[t], n, x) <=>
            (n = a[1] /\ x = a[2]) \/ (n = b[1] /\ x = b[2]) \/ Later(todo[t], n, x)
      /\ \A n : First(todo'[t], n) <=> n = a[1]
  BY <1>1, <1>2, GoTwo
<1>4. a[1] \notin {"push", "read"}
  BY DEF CallsTwo
<1>. QED
  BY <1>1, <1>3, <1>4 DEF Calmed

\* A thread goes on with three steps that were called.
LEMMA CallThree ==
  ASSUME Types, ShapeInv, NEW t \in Threads, NEW name, At(t, name),
         NEW a, May(t, a), NEW b, May(t, b), NEW c, May(t, c),
         CallsThree(name, a[1], b[1], c[1]), Go(t, <<a, b, c>>)
  PROVE  /\ FrontAt(t, name) /\ ShapeInv' /\ Others(t)
         /\ \A n, x : In(todo'[t], n, x) <=>
               \/ n = a[1] /\ x = a[2]
               \/ n = b[1] /\ x = b[2]
               \/ n = c[1] /\ x = c[2]
               \/ Later(todo[t], n, x)
         /\ \A n : First(todo'[t], n) <=> n = a[1]
<1>1. FrontAt(t, name) /\ Busy(t) /\ Head(todo[t])[1] = name
  BY FrontIs
<1>2. /\ a \in Steps /\ a[1] \in NamesOf(t)
      /\ b \in Steps /\ b[1] \in NamesOf(t)
      /\ c \in Steps /\ c[1] \in NamesOf(t)
  BY DEF May
<1>. QED
  BY <1>1, <1>2, GoThree

\* A thread may take a step by itself when the name is one of its own.
LEMMA MayDo ==
  ASSUME NEW t \in Threads, NEW y \in NamesOf(t), y \in PlainNames
  PROVE  May(t, Do(y)) /\ Do(y) \in Steps /\ Do(y)[1] = y /\ Do(y)[2] = "none"
  BY DoIs DEF May

\* What UseMicrophone leaves to do.
LEMMA UseMicrophoneMoves ==
  ASSUME Types, ShapeInv, NEW t \in Threads, UseMicrophone(t)
  PROVE  /\ t \in Control /\ FrontAt(t, "use microphone")
         /\ ShapeInv' /\ Others(t) /\ Calmed(t)
         /\ \A n, x : In(todo'[t], n, x) <=>
               \/ mode = "synthetic" /\ n = "stop thread" /\ x = "none"
               \/ mode = "synthetic" /\ requested /\ n = "start microphone" /\ x = "none"
               \/ Later(todo[t], n, x)
<1>. DEFINE a == Do("stop thread")
            b == Do("start microphone")
<1>1. At(t, "use microphone") /\ FrontAt(t, "use microphone")
  BY FrontIs DEF UseMicrophone
<1>2. t \in Control /\ (t = "ui" \/ t = "io")
  <2>1. t \in Control
    BY <1>1, ControlIs DEF FrontAt, FileNames
  <2>2. t # "timer"
    BY <1>1, NotTimer
  <2>. QED
    BY <2>1, <2>2 DEF Control
<1>3. /\ May(t, a) /\ a \in Steps /\ a[1] = "stop thread" /\ a[2] = "none"
      /\ May(t, b) /\ b \in Steps /\ b[1] = "start microphone" /\ b[2] = "none"
  <2>1. /\ {"stop thread", "start microphone"} \subseteq NamesOf(t)
        /\ {"stop thread", "start microphone"} \subseteq PlainNames
    BY <1>2 DEF NamesOf, UiNames, IoNames, InputNames, PlainNames, AllNames
  <2>. QED
    BY <2>1, MayDo
<1>4. /\ CallsOne("use microphone", "stop thread")
      /\ CallsTwo("use microphone", "stop thread", "start microphone")
      /\ LeadsToNoRead("use microphone")
  BY DEF CallsOne, CallsTwo, LeadsToNoRead
<1>8. \/ mode = "microphone" /\ Go(t, <<>>)
      \/ mode = "synthetic" /\ Go(t, <<a>> \o IF requested THEN <<b>> ELSE <<>>)
  BY DEF UseMicrophone
<1>. HIDE DEF a, b
<1>5. CASE mode = "microphone" /\ Go(t, <<>>)
  <2>1. /\ ShapeInv' /\ Others(t) /\ Calmed(t)
        /\ \A n, x : In(todo'[t], n, x) <=> Later(todo[t], n, x)
    BY <1>1, <1>4, <1>5, Pop
  <2>. QED
    BY <1>1, <1>2, <1>5, <2>1
<1>6. CASE mode = "synthetic" /\ requested /\ Go(t, <<a, b>>)
  <2>1. CallsTwo("use microphone", a[1], b[1])
    BY <1>3, <1>4
  <2>2. /\ ShapeInv' /\ Others(t) /\ Calmed(t)
        /\ \A n, x : In(todo'[t], n, x) <=>
              (n = a[1] /\ x = a[2]) \/ (n = b[1] /\ x = b[2]) \/ Later(todo[t], n, x)
    BY <1>1, <1>3, <1>6, <2>1, CallTwo
  <2>. QED
    BY <1>1, <1>2, <1>3, <1>6, <2>2
<1>7. CASE mode = "synthetic" /\ ~requested /\ Go(t, <<a>>)
  <2>1. CallsOne("use microphone", a[1])
    BY <1>3, <1>4
  <2>2. /\ ShapeInv' /\ Others(t) /\ Calmed(t)
        /\ \A n, x : In(todo'[t], n, x) <=> (n = a[1] /\ x = a[2]) \/ Later(todo[t], n, x)
    BY <1>1, <1>3, <1>7, <2>1, CallOne
  <2>. QED
    BY <1>1, <1>2, <1>3, <1>7, <2>2
<1>. QED
  BY <1>3, <1>5, <1>6, <1>7, <1>8, Joined

\* What UseSyntheticPcm leaves to do.
LEMMA UseSyntheticMoves ==
  ASSUME Types, ShapeInv, NEW t \in Threads, UseSyntheticPcm(t)
  PROVE  /\ FrontAt(t, "use synthetic") /\ ShapeInv' /\ Others(t) /\ Calmed(t)
         /\ \A n, x : In(todo'[t], n, x) <=>
               \/ n = "stop microphone" /\ x = "none"
               \/ requested /\ n = "start thread" /\ x = "none"
               \/ Later(todo[t], n, x)
<1>. DEFINE a == Do("stop microphone")
            b == Do("start thread")
<1>1. At(t, "use synthetic") /\ FrontAt(t, "use synthetic")
  BY FrontIs DEF UseSyntheticPcm
<1>2. /\ May(t, a) /\ a \in Steps /\ a[1] = "stop microphone" /\ a[2] = "none"
      /\ May(t, b) /\ b \in Steps /\ b[1] = "start thread" /\ b[2] = "none"
  <2>1. /\ {"stop microphone", "start thread"} \subseteq NamesOf(t)
        /\ {"stop microphone", "start thread"} \subseteq PlainNames
    <3>1. t # "timer"
      BY <1>1, NotTimer
    <3>. QED
      BY <3>1 DEF NamesOf, UiNames, IoNames, InputNames, FileNames, PlainNames, AllNames
  <2>. QED
    BY <2>1, MayDo
<1>3. /\ CallsOne("use synthetic", "stop microphone")
      /\ CallsTwo("use synthetic", "stop microphone", "start thread")
  BY DEF CallsOne, CallsTwo
<1>4. Go(t, <<a>> \o IF requested THEN <<b>> ELSE <<>>)
  BY DEF UseSyntheticPcm
<1>. HIDE DEF a, b
<1>5. CASE requested /\ Go(t, <<a, b>>)
  <2>1. CallsTwo("use synthetic", a[1], b[1])
    BY <1>2, <1>3
  <2>2. /\ ShapeInv' /\ Others(t) /\ Calmed(t)
        /\ \A n, x : In(todo'[t], n, x) <=>
              (n = a[1] /\ x = a[2]) \/ (n = b[1] /\ x = b[2]) \/ Later(todo[t], n, x)
    BY <1>1, <1>2, <1>5, <2>1, CallTwo
  <2>. QED
    BY <1>1, <1>2, <1>5, <2>2
<1>6. CASE ~requested /\ Go(t, <<a>>)
  <2>1. CallsOne("use synthetic", a[1])
    BY <1>2, <1>3
  <2>2. /\ ShapeInv' /\ Others(t) /\ Calmed(t)
        /\ \A n, x : In(todo'[t], n, x) <=> (n = a[1] /\ x = a[2]) \/ Later(todo[t], n, x)
    BY <1>1, <1>2, <1>6, <2>1, CallOne
  <2>. QED
    BY <1>1, <1>2, <1>6, <2>2
<1>. QED
  BY <1>2, <1>4, <1>5, <1>6, Joined

\* What StopSyntheticThread leaves to do.
LEMMA StopThreadMoves ==
  ASSUME Types, ShapeInv, NEW t \in Threads, StopThread(t)
  PROVE  /\ t \in Control /\ FrontAt(t, "stop thread")
         /\ ShapeInv' /\ Others(t) /\ Calmed(t)
         /\ \A n, x : In(todo'[t], n, x) <=>
               \/ (running \/ joinable) /\ n \in {"join thread", "thread stopped"} /\ x = "none"
               \/ Later(todo[t], n, x)
<1>. DEFINE a == Do("join thread")
            b == Do("thread stopped")
<1>1. At(t, "stop thread") /\ FrontAt(t, "stop thread")
  BY FrontIs DEF StopThread
<1>2. t \in Control
  BY <1>1, ControlIs DEF FrontAt, FileNames
<1>3. /\ May(t, a) /\ a[1] = "join thread" /\ a[2] = "none"
      /\ May(t, b) /\ b[1] = "thread stopped" /\ b[2] = "none"
  <2>1. /\ {"join thread", "thread stopped"} \subseteq NamesOf(t)
        /\ {"join thread", "thread stopped"} \subseteq PlainNames
    BY <1>2 DEF NamesOf, Control, UiNames, IoNames, TimerNames, InputNames, PlainNames, AllNames
  <2>. QED
    BY <2>1, MayDo
<1>4. CallsTwo("stop thread", "join thread", "thread stopped") /\ LeadsToNoRead("stop thread")
  BY DEF CallsTwo, LeadsToNoRead
<1>5. \/ ~running /\ ~joinable /\ Go(t, <<>>)
      \/ (running \/ joinable) /\ Go(t, <<a, b>>)
  BY DEF StopThread
<1>. HIDE DEF a, b
<1>6. CASE ~running /\ ~joinable /\ Go(t, <<>>)
  <2>1. /\ ShapeInv' /\ Others(t) /\ Calmed(t)
        /\ \A n, x : In(todo'[t], n, x) <=> Later(todo[t], n, x)
    BY <1>1, <1>4, <1>6, Pop
  <2>. QED
    BY <1>1, <1>2, <1>6, <2>1
<1>7. CASE (running \/ joinable) /\ Go(t, <<a, b>>)
  <2>1. CallsTwo("stop thread", a[1], b[1])
    BY <1>3, <1>4
  <2>2. /\ ShapeInv' /\ Others(t) /\ Calmed(t)
        /\ \A n, x : In(todo'[t], n, x) <=>
              (n = a[1] /\ x = a[2]) \/ (n = b[1] /\ x = b[2]) \/ Later(todo[t], n, x)
    BY <1>1, <1>3, <1>7, <2>1, CallTwo
  <2>. QED
    BY <1>1, <1>2, <1>3, <1>7, <2>2
<1>. QED
  BY <1>5, <1>6, <1>7

\* What StopRecording leaves to do.
LEMMA StopRecordingMoves ==
  ASSUME Types, ShapeInv, NEW t \in Threads, StopRecording(t)
  PROVE  /\ t \in Closers /\ FrontAt(t, "stop recording")
         /\ ShapeInv' /\ Others(t) /\ Calmed(t)
         /\ \A n, x : In(todo'[t], n, x) <=>
               \/ mode = "synthetic" /\ n = "stop thread" /\ x = "none"
               \/ mode # "synthetic" /\ n = "stop microphone" /\ x = "none"
               \/ Later(todo[t], n, x)
<1>. DEFINE y == IF mode = "synthetic" THEN "stop thread" ELSE "stop microphone"
            a == Do(y)
<1>1. At(t, "stop recording") /\ FrontAt(t, "stop recording")
  BY FrontIs DEF StopRecording
<1>2. t \in Closers
  <2>1. "stop recording" \notin FileNames /\ "stop recording" \notin UiNames
    BY DEF FileNames, UiNames, InputNames
  <2>2. "stop recording" \in NamesOf(t)
    BY <1>1 DEF FrontAt
  <2>3. t \in Control /\ t # "ui"
    BY <2>1, <2>2, ControlIs
  <2>. QED
    BY <2>3 DEF Control, Closers
<1>3. May(t, a) /\ a[1] = y /\ a[2] = "none"
  <2>1. y \in NamesOf(t) /\ y \in PlainNames
    BY <1>2, CloserIs DEF TimerNames, PlainNames, AllNames, UiNames, InputNames
  <2>. HIDE DEF y
  <2>. QED
    BY <2>1, MayDo
<1>4. CallsOne("stop recording", y)
  BY DEF CallsOne
<1>5. Go(t, <<a>>)
  BY DEF StopRecording
<1>6. CallsOne("stop recording", a[1])
  BY <1>3, <1>4
<1>. HIDE DEF a
<1>7. /\ ShapeInv' /\ Others(t) /\ Calmed(t)
      /\ \A n, x : In(todo'[t], n, x) <=> (n = a[1] /\ x = a[2]) \/ Later(todo[t], n, x)
  BY <1>1, <1>3, <1>5, <1>6, CallOne
<1>. QED
  BY <1>1, <1>2, <1>3, <1>7

\* The steps that name a source.
LEMMA SourceSteps ==
  ASSUME NEW t \in Control, NEW s \in Sources \cup {"none"}
  PROVE  /\ May(t, <<"stop source", s>>)
         /\ <<"stop source", s>>[1] = "stop source" /\ <<"stop source", s>>[2] = s
         /\ s \in Files => May(t, <<"join decoder", s>>)
         /\ <<"join decoder", s>>[1] = "join decoder" /\ <<"join decoder", s>>[2] = s
<1>1. "stop source" \in AllNames /\ s \in ArgsOf("stop source")
  BY DEF AllNames, UiNames, ArgsOf
<1>2. "join decoder" \in AllNames /\ (s \in Files => s \in ArgsOf("join decoder"))
  BY DEF AllNames, UiNames, ArgsOf
<1>3. "stop source" \in NamesOf(t) /\ "join decoder" \in NamesOf(t)
  BY DEF NamesOf, UiNames, IoNames, TimerNames, Control
<1>. QED
  BY <1>1, <1>2, <1>3, StepIs DEF May

\* What Stop of a file source leaves to do.
LEMMA StopSourceMoves ==
  ASSUME Types, ShapeInv, NEW t \in Threads, StopSource(t)
  PROVE  /\ t \in Control /\ FrontAt(t, "stop source")
         /\ ShapeInv' /\ Others(t) /\ Calmed(t)
         /\ \/ /\ Arg(t) \in Files /\ playing[Arg(t)]
               /\ playing' = [playing EXCEPT ![Arg(t)] = FALSE]
               /\ \A n, x : In(todo'[t], n, x) <=>
                     \/ n = "join decoder" /\ x = Arg(t)
                     \/ n = "clear" /\ x = "none"
                     \/ Later(todo[t], n, x)
            \/ /\ Arg(t) \in Files => ~playing[Arg(t)]
               /\ playing' = playing
               /\ \A n, x : In(todo'[t], n, x) <=> Later(todo[t], n, x)
<1>1. At(t, "stop source") /\ FrontAt(t, "stop source")
  BY FrontIs DEF StopSource
<1>2. t \in Control
  BY <1>1, ControlIs DEF FrontAt, FileNames
<1>3. CASE /\ Arg(t) \in Files /\ playing[Arg(t)]
           /\ playing' = [playing EXCEPT ![Arg(t)] = FALSE]
           /\ Go(t, <<<<"join decoder", Arg(t)>>, Do("clear")>>)
  <2>. DEFINE a == <<"join decoder", Arg(t)>>
              b == Do("clear")
  <2>1. May(t, a) /\ a[1] = "join decoder" /\ a[2] = Arg(t)
    BY <1>2, <1>3, SourceSteps DEF Sources
  <2>2. May(t, b) /\ b[1] = "clear" /\ b[2] = "none"
    <3>1. "clear" \in NamesOf(t) /\ "clear" \in PlainNames
      BY <1>2 DEF NamesOf, UiNames, IoNames, TimerNames, InputNames, PlainNames, AllNames, Control
    <3>. QED
      BY <3>1, MayDo
  <2>3. CallsTwo("stop source", a[1], b[1])
    BY <2>1, <2>2 DEF CallsTwo
  <2>4. Go(t, <<a, b>>)
    BY <1>3
  <2>. HIDE DEF a, b
  <2>5. /\ ShapeInv' /\ Others(t) /\ Calmed(t)
        /\ \A n, x : In(todo'[t], n, x) <=>
              (n = a[1] /\ x = a[2]) \/ (n = b[1] /\ x = b[2]) \/ Later(todo[t], n, x)
    BY <1>1, <2>1, <2>2, <2>3, <2>4, CallTwo
  <2>. QED
    BY <1>1, <1>2, <1>3, <2>1, <2>2, <2>5
<1>4. CASE (Arg(t) \in Files => ~playing[Arg(t)]) /\ Go(t, <<>>) /\ UNCHANGED playing
  <2>1. LeadsToNoRead("stop source")
    BY DEF LeadsToNoRead
  <2>2. /\ ShapeInv' /\ Others(t) /\ Calmed(t)
        /\ \A n, x : In(todo'[t], n, x) <=> Later(todo[t], n, x)
    BY <1>1, <1>4, <2>1, Pop
  <2>. QED
    BY <1>1, <1>2, <1>4, <2>2
<1>. QED
  BY <1>3, <1>4 DEF StopSource

\* A source s is created in a step of t.
Makes(t, s) ==
    /\ At(t, "create") /\ Kind(s) = Arg(t)
    /\ s \in Files => Free(s)
    /\ playing' = [f \in Files |-> f = s \/ playing[f]]
    /\ \/ /\ t = "ui"
          /\ Created(t, s, <<<<"set track", s>>>>)
          /\ source' = source
       \/ /\ t = "io"
          /\ Created(t, s, <<<<"stop source", source>>, <<"attach", s>>>>)
          /\ source' = s

\* Creating a source is the last thing that a thread has to do.
LEMMA CreateIs ==
  ASSUME Types, ShapeInv, NEW t \in Threads, At(t, "create")
  PROVE  /\ t \in Control /\ FrontAt(t, "create") /\ Tail(todo[t]) = <<>>
<1>1. FrontAt(t, "create") /\ Busy(t)
  BY FrontIs
<1>2. t \in Control
  BY <1>1, ControlIs DEF FrontAt, FileNames
<1>. DEFINE q == todo[t]
<1>3. q \in Seq(Steps) /\ q # <<>> /\ Shape(q) /\ Head(q) = q[1] /\ Head(q)[1] = "create"
      /\ Len(q) \in Nat /\ Len(q) >= 1
  BY Split DEF Types, At, Busy, ShapeInv
<1>4. 1 \in 1..Len(q) /\ "create" \in LastNames
  BY <1>3 DEF LastNames
<1>5. Len(q) = 1
  BY <1>3, <1>4 DEF Shape
<1>6. Tail(q) \in Seq(Steps) /\ Len(Tail(q)) = Len(q) - 1
  BY <1>3, HeadTailProperties
<1>. HIDE DEF q
<1>7. Len(Tail(q)) = 0
  BY <1>5, <1>6
<1>8. Tail(q) = <<>>
  BY <1>6, <1>7, EmptySeq
<1>. QED
  BY <1>1, <1>2, <1>8 DEF q

\* The steps of the engine that speak of a source.
LEMMA SourceSteps2 ==
  ASSUME NEW s \in Sources
  PROVE  /\ May("ui", <<"set track", s>>) /\ May("io", <<"attach", s>>)
         /\ May("ui", <<"swap", s>>) /\ May("ui", <<"return", s>>)
         /\ <<"set track", s>>[1] = "set track" /\ <<"set track", s>>[2] = s
         /\ <<"attach", s>>[1] = "attach" /\ <<"attach", s>>[2] = s
         /\ <<"swap", s>>[1] = "swap" /\ <<"swap", s>>[2] = s
         /\ <<"return", s>>[1] = "return" /\ <<"return", s>>[2] = s
<1>1. \A name \in {"set track", "attach", "swap", "return"} :
         name \in AllNames /\ s \in ArgsOf(name)
  BY DEF AllNames, UiNames, IoNames, ArgsOf
<1>2. /\ \A name \in {"set track", "swap", "return"} : name \in NamesOf("ui")
      /\ "attach" \in NamesOf("io")
  BY DEF NamesOf, UiNames, IoNames
<1>. QED
  BY <1>1, <1>2, StepIs DEF May

\* What a source that was created leaves to do, and its decoder.
LEMMA CreateSourceMoves ==
  ASSUME Types, ShapeInv, NEW t \in Threads, NEW s \in Sources, Makes(t, s)
  PROVE  /\ t \in Control /\ t # s /\ FrontAt(t, "create") /\ ShapeInv'
         /\ todo' \in [Threads -> Seq(Steps)]
         /\ \A u \in Threads : u # t /\ u # s => todo'[u] = todo[u]
         /\ s \in Files => todo'[s] = DecodeLoop
         /\ t = "ui" => \A n, x : In(todo'[t], n, x) <=> n = "set track" /\ x = s
         /\ t = "io" => \A n, x : In(todo'[t], n, x) <=>
                           (n = "stop source" /\ x = source) \/ (n = "attach" /\ x = s)
<1>1. /\ At(t, "create") /\ t \in Control /\ FrontAt(t, "create") /\ Tail(todo[t]) = <<>>
  BY CreateIs DEF Makes
<1>2. t # s
  BY <1>1, NamesAssumption DEF Control, Sources
<1>3. s \in Threads => s \in Files
  BY NamesAssumption DEF Threads, Control, Sources
<1>4. DecodeLoop \in Seq(Steps) /\ Shape(DecodeLoop)
      /\ \A i \in 1..Len(DecodeLoop) : DecodeLoop[i][1] \in FileNames
  BY FourIs
<1>5. ASSUME NEW called \in Seq(Steps), Created(t, s, called), Shape(called),
             \A i \in 1..Len(called) : called[i][1] \in NamesOf(t)
      PROVE  /\ todo' \in [Threads -> Seq(Steps)] /\ ShapeInv'
             /\ \A u \in Threads : u # t /\ u # s => todo'[u] = todo[u]
             /\ s \in Files => todo'[s] = DecodeLoop
             /\ todo'[t] = called
  <2>1. After(t, called)[t] = called \o <<>>
    BY <1>1 DEF After, Types
  <2>2. called \o <<>> = called
    BY ConcatEmptySeq
  <2>3. \A u \in Threads : u # t => After(t, called)[u] = todo[u]
    BY DEF After, Types
  <2>4. /\ \A u \in Threads : u # t /\ u # s => todo'[u] = todo[u]
        /\ s \in Files => todo'[s] = DecodeLoop
        /\ todo'[t] = called
        /\ DOMAIN todo' = Threads /\ todo' = [u \in Threads |-> todo'[u]]
    BY <1>2, <1>5, <2>1, <2>2, <2>3 DEF Created, Threads
  <2>5. \A u \in Threads : todo'[u] \in Seq(Steps)
    BY <1>3, <1>4, <1>5, <2>4 DEF Types
  <2>6. todo' \in [Threads -> Seq(Steps)]
    BY <2>4, <2>5
  <2>7. s \in Files => NamesOf(s) = FileNames
    BY NamesAssumption DEF NamesOf
  <2>8. ShapeInv'
    BY <1>3, <1>4, <1>5, <2>4, <2>7 DEF ShapeInv
  <2>. QED
    BY <2>4, <2>6, <2>8
<1>6. CASE t = "ui" /\ Created(t, s, <<<<"set track", s>>>>)
  <2>. DEFINE a == <<"set track", s>>
              c == <<a>>
  <2>1. May(t, a) /\ a[1] = "set track" /\ a[2] = s
    BY <1>6, SourceSteps2
  <2>2. Created(t, s, c)
    BY <1>6
  <2>. HIDE DEF a
  <2>3. /\ c \in Seq(Steps) /\ Len(c) = 1 /\ c[1] = a /\ Shape(c)
        /\ \A n, x : In(c, n, x) <=> a[1] = n /\ a[2] = x
    BY <2>1, One DEF May
  <2>. HIDE DEF c
  <2>4. \A i \in 1..Len(c) : c[i][1] \in NamesOf(t)
    <3>1. \A i \in 1..1 : i = 1
      OBVIOUS
    <3>. QED
      BY <2>1, <2>3, <3>1 DEF May
  <2>5. "ui" # "io"
    OBVIOUS
  <2>6. /\ todo' \in [Threads -> Seq(Steps)] /\ ShapeInv'
        /\ \A u \in Threads : u # t /\ u # s => todo'[u] = todo[u]
        /\ s \in Files => todo'[s] = DecodeLoop
        /\ todo'[t] = c
    BY <1>5, <2>2, <2>3, <2>4
  <2>7. \A n, x : In(todo'[t], n, x) <=> n = "set track" /\ x = s
    <3>1. \A n, x : In(c, n, x) <=> n = "set track" /\ x = s
      BY <2>1, <2>3
    <3>2. todo'[t] = c
      BY <2>6
    <3>. QED
      BY <3>1, <3>2
  <2>. QED
    <3>1. t # "io"
      BY <1>6, <2>5
    <3>. QED
      BY <1>1, <1>2, <2>6, <2>7, <3>1
<1>7. CASE t = "io" /\ Created(t, s, <<<<"stop source", source>>, <<"attach", s>>>>)
  <2>. DEFINE a == <<"stop source", source>>
              b == <<"attach", s>>
              c == <<a, b>>
  <2>1. May(t, a) /\ a[1] = "stop source" /\ a[2] = source
    BY <1>1, SourceSteps DEF Types
  <2>2. May(t, b) /\ b[1] = "attach" /\ b[2] = s
    BY <1>7, SourceSteps2
  <2>3. Created(t, s, c)
    BY <1>7
  <2>4. Pairs(a[1], b[1])
    BY <2>1, <2>2 DEF Pairs
  <2>. HIDE DEF a, b
  <2>5. /\ c \in Seq(Steps) /\ Len(c) = 2 /\ c[1] = a /\ c[2] = b /\ Shape(c)
        /\ \A n, x : In(c, n, x) <=> (a[1] = n /\ a[2] = x) \/ (b[1] = n /\ b[2] = x)
    BY <2>1, <2>2, <2>4, Two DEF May
  <2>. HIDE DEF c
  <2>6. \A i \in 1..Len(c) : c[i][1] \in NamesOf(t)
    <3>1. \A i \in 1..2 : i = 1 \/ i = 2
      OBVIOUS
    <3>. QED
      BY <2>1, <2>2, <2>5, <3>1 DEF May
  <2>7. "ui" # "io"
    OBVIOUS
  <2>8. /\ todo' \in [Threads -> Seq(Steps)] /\ ShapeInv'
        /\ \A u \in Threads : u # t /\ u # s => todo'[u] = todo[u]
        /\ s \in Files => todo'[s] = DecodeLoop
        /\ todo'[t] = c
    BY <1>5, <2>3, <2>5, <2>6
  <2>9. \A n, x : In(todo'[t], n, x) <=>
           (n = "stop source" /\ x = source) \/ (n = "attach" /\ x = s)
    BY <2>1, <2>2, <2>5, <2>8
  <2>. QED
    BY <1>1, <1>2, <1>7, <2>7, <2>8, <2>9
<1>. QED
  BY <1>6, <1>7 DEF Makes

\* A thread closes the connection.
LEMMA CloseMoves ==
  ASSUME Types, ShapeInv, NEW t \in Closers, Return(t, ClosePeerConnection)
  PROVE  /\ ShapeInv' /\ Others(t) /\ Calmed(t)
         /\ \A n, x : In(todo'[t], n, x) <=> n \in CloseNames /\ x = "none"
<1>. DEFINE c == ClosePeerConnection
<1>1. /\ c \in Seq(Steps) /\ c # <<>> /\ Len(c) = 6 /\ Shape(c)
      /\ \A i \in 1..6 : c[i][1] \in CloseNames
      /\ \A n, x : In(c, n, x) <=> n \in CloseNames /\ x = "none"
  BY SixIs
<1>2. c[1][1] = "stop current"
  BY DEF ClosePeerConnection, Do
<1>. HIDE DEF c
<1>3. CloseNames \subseteq NamesOf(t) /\ t \in Threads
  BY CloserIs DEF CloseNames, TimerNames
<1>4. \A i \in 1..Len(c) : c[i][1] \in NamesOf(t)
  BY <1>1, <1>3
<1>5. Return(t, c)
  BY DEF c
<1>6. Returned(t, c) /\ ShapeInv'
  BY <1>1, <1>3, <1>4, <1>5, ReturnIs
<1>. QED
  BY <1>1, <1>2, <1>6 DEF Returned, Others, Calmed, First

\* What AddTracks leaves to do when there is no source.
LEMMA GiveUpMoves ==
  ASSUME Types, ShapeInv, Return("io", <<<<"stop source", source>>>> \o ClosePeerConnection)
  PROVE  /\ ShapeInv' /\ Others("io") /\ Calmed("io")
         /\ \A n, x : In(todo'["io"], n, x) <=>
               \/ n = "stop source" /\ x = source
               \/ n \in CloseNames /\ x = "none"
<1>. DEFINE a == <<"stop source", source>>
            c == <<a>> \o ClosePeerConnection
<1>1. a \in Steps /\ a[1] = "stop source" /\ a[2] = source /\ StopsSource(a)
  BY SourceSteps DEF Types, Control, May, StopsSource
<1>2. Return("io", c)
  OBVIOUS
<1>. HIDE DEF a
<1>3. /\ c \in Seq(Steps) /\ c # <<>> /\ Shape(c)
      /\ \A i \in 1..Len(c) : c[i][1] \in CloseNames \cup {"stop source"}
      /\ \A n, x : In(c, n, x) <=>
            \/ n = "stop source" /\ x = a[2]
            \/ n \in CloseNames /\ x = "none"
  BY <1>1, SevenIs
<1>4. c[1] = a
  <2>. DEFINE r == ClosePeerConnection
  <2>1. r \in Seq(Steps) /\ Len(r) \in Nat
    BY SixIs, LenProperties
  <2>. HIDE DEF r
  <2>2. (<<a>> \o r)[1] = a
    BY <1>1, <2>1, PutBefore
  <2>. QED
    BY <2>2 DEF r
<1>. HIDE DEF c
<1>5. CloseNames \cup {"stop source"} \subseteq NamesOf("io") /\ "io" \in Threads
  BY DEF CloseNames, NamesOf, IoNames, InputNames, Threads, Control
<1>6. \A i \in 1..Len(c) : c[i][1] \in NamesOf("io")
  BY <1>3, <1>5
<1>7. Returned("io", c) /\ ShapeInv'
  BY <1>2, <1>3, <1>5, <1>6, ReturnIs
<1>. QED
  BY <1>1, <1>3, <1>4, <1>7 DEF Returned, Others, Calmed, First

\* A method that returns and is done.
LEMMA ReturnNothing ==
  ASSUME Types, ShapeInv, NEW t \in Threads, Return(t, <<>>)
  PROVE  /\ ShapeInv' /\ Others(t) /\ Calmed(t)
         /\ \A n, x : ~In(todo'[t], n, x)
<1>1. /\ <<>> \in Seq(Steps) /\ Shape(<<>>) /\ Len(<<>>) = 0 /\ 1..0 = {}
  BY DEF Shape
<1>2. Returned(t, <<>>) /\ ShapeInv'
  BY <1>1, ReturnIs
<1>3. \A n, x : ~In(<<>>, n, x)
  BY <1>1 DEF In
<1>. QED
  BY <1>2, <1>3 DEF Returned, Others, Calmed, First

ReturnsTo(name) == name \in {"create", "stop source"}

\* A method that returns with one step left.
LEMMA ReturnOne ==
  ASSUME Types, ShapeInv, NEW t \in Threads, NEW a, May(t, a), Return(t, <<a>>),
         ReturnsTo(a[1])
  PROVE  /\ ShapeInv' /\ Others(t) /\ Calmed(t)
         /\ \A n, x : In(todo'[t], n, x) <=> n = a[1] /\ x = a[2]
<1>. DEFINE c == <<a>>
<1>1. /\ c \in Seq(Steps) /\ c # <<>> /\ Len(c) = 1 /\ c[1] = a /\ Shape(c)
      /\ \A n, x : In(c, n, x) <=> a[1] = n /\ a[2] = x
  BY One DEF May, ReturnsTo
<1>2. Return(t, c)
  OBVIOUS
<1>. HIDE DEF c
<1>3. \A i \in 1..1 : i = 1
  OBVIOUS
<1>4. \A i \in 1..Len(c) : c[i][1] \in NamesOf(t)
  BY <1>1, <1>3 DEF May
<1>5. Returned(t, c) /\ ShapeInv'
  BY <1>1, <1>2, <1>4, ReturnIs
<1>. QED
  BY <1>1, <1>5 DEF Returned, Others, Calmed, First, ReturnsTo

\* What CreateVideoSourceForConfig leaves to do when it fails.
LEMMA CreateFailsMoves ==
  ASSUME Types, ShapeInv, NEW t \in Threads, CreateFails(t)
  PROVE  /\ t \in Control /\ FrontAt(t, "create")
         /\ ShapeInv' /\ Others(t) /\ Calmed(t)
         /\ t = "ui" => source' = source /\ \A n, x : ~In(todo'[t], n, x)
         /\ t = "io" => /\ source' = "none"
                        /\ \A n, x : In(todo'[t], n, x) <=>
                              \/ n = "stop source" /\ x = source
                              \/ n \in CloseNames /\ x = "none"
<1>1. At(t, "create") /\ t \in Control /\ FrontAt(t, "create")
  BY CreateIs DEF CreateFails
<1>2. "ui" # "io"
  OBVIOUS
<1>3. CASE t = "ui" /\ Return(t, <<>>) /\ UNCHANGED source
  BY <1>1, <1>2, <1>3, ReturnNothing
<1>4. CASE /\ t = "io" /\ Return(t, <<<<"stop source", source>>>> \o ClosePeerConnection)
           /\ source' = "none"
  BY <1>1, <1>2, <1>4, GiveUpMoves
<1>. QED
  BY <1>3, <1>4 DEF CreateFails

\* What AddTrack leaves to do.
LEMMA AttachMoves ==
  ASSUME Types, ShapeInv, Attach
  PROVE  /\ FrontAt("io", "attach") /\ ShapeInv' /\ Others("io") /\ Calmed("io")
         /\ \/ sending' = TRUE /\ sender' = TRUE /\ \A n, x : ~In(todo'["io"], n, x)
            \/ /\ sending' = sending
               /\ \A n, x : In(todo'["io"], n, x) <=> n \in CloseNames /\ x = "none"
<1>1. "io" \in Threads /\ LeadsToNoRead("attach") /\ "attach" \in LastNames
  BY DEF Threads, Control, LeadsToNoRead, LastNames
<1>2. At("io", "attach") /\ FrontAt("io", "attach")
  BY <1>1, FrontIs DEF Attach
<1>3. CASE sending' = TRUE /\ sender' = TRUE /\ Go("io", <<>>)
  <2>1. /\ ShapeInv' /\ Others("io") /\ Calmed("io")
        /\ \A n, x : In(todo'["io"], n, x) <=> Later(todo["io"], n, x)
    BY <1>1, <1>2, <1>3, Pop
  <2>2. \A n, x : ~Later(todo["io"], n, x)
    BY <1>1, <1>2 DEF FrontAt
  <2>. QED
    BY <1>2, <1>3, <2>1, <2>2
<1>4. CASE Return("io", ClosePeerConnection) /\ sending' = sending
  BY <1>2, <1>4, CloseMoves DEF Closers
<1>. QED
  BY <1>3, <1>4 DEF Attach

\* ClosePeerConnection stops the source of the moment.
LEMMA StopCurrentMoves ==
  ASSUME Types, ShapeInv, NEW t \in Closers, StopCurrent(t)
  PROVE  /\ FrontAt(t, "stop current") /\ ShapeInv' /\ Others(t) /\ Calmed(t)
         /\ \A n, x : In(todo'[t], n, x) <=>
               (n = "stop source" /\ x = source) \/ Later(todo[t], n, x)
<1>. DEFINE a == <<"stop source", source>>
<1>1. t \in Threads /\ t \in Control
  BY CloserIs
<1>2. May(t, a) /\ a[1] = "stop source" /\ a[2] = source
  BY <1>1, SourceSteps DEF Types
<1>3. At(t, "stop current") /\ Go(t, <<a>>)
  BY DEF StopCurrent
<1>. HIDE DEF a
<1>4. CallsOne("stop current", a[1])
  BY <1>2 DEF CallsOne
<1>5. /\ FrontAt(t, "stop current") /\ ShapeInv' /\ Others(t) /\ Calmed(t)
      /\ \A n, x : In(todo'[t], n, x) <=> (n = a[1] /\ x = a[2]) \/ Later(todo[t], n, x)
  BY <1>1, <1>2, <1>3, <1>4, CallOne
<1>. QED
  BY <1>2, <1>5

\* What ClosePeerConnection leaves to do without senders.
LEMMA RemoveSendersMoves ==
  ASSUME Types, ShapeInv, NEW t \in Closers, RemoveSenders(t)
  PROVE  /\ FrontAt(t, "remove senders") /\ ShapeInv' /\ Others(t) /\ Calmed(t)
         /\ \A n, x : In(todo'[t], n, x) <=>
               (sending /\ n = "stop recording" /\ x = "none") \/ Later(todo[t], n, x)
<1>. DEFINE a == Do("stop recording")
<1>1. t \in Threads /\ LeadsToNoRead("remove senders")
  BY CloserIs DEF LeadsToNoRead
<1>2. May(t, a) /\ a[1] = "stop recording" /\ a[2] = "none"
  <2>1. "stop recording" \in NamesOf(t) /\ "stop recording" \in PlainNames
    BY CloserIs DEF TimerNames, IoNames, PlainNames, AllNames
  <2>. QED
    BY <1>1, <2>1, MayDo
<1>3. At(t, "remove senders") /\ Go(t, IF sending THEN <<a>> ELSE <<>>)
  BY DEF RemoveSenders
<1>. HIDE DEF a
<1>4. CASE sending /\ Go(t, <<a>>)
  <2>1. CallsOne("remove senders", a[1])
    BY <1>2 DEF CallsOne
  <2>2. /\ FrontAt(t, "remove senders") /\ ShapeInv' /\ Others(t) /\ Calmed(t)
        /\ \A n, x : In(todo'[t], n, x) <=> (n = a[1] /\ x = a[2]) \/ Later(todo[t], n, x)
    BY <1>1, <1>2, <1>3, <1>4, <2>1, CallOne
  <2>. QED
    BY <1>2, <1>4, <2>2
<1>5. CASE ~sending /\ Go(t, <<>>)
  <2>1. /\ FrontAt(t, "remove senders") /\ ShapeInv' /\ Others(t) /\ Calmed(t)
        /\ \A n, x : In(todo'[t], n, x) <=> Later(todo[t], n, x)
    BY <1>1, <1>3, <1>5, Pop
  <2>. QED
    BY <1>5, <2>1
<1>. QED
  BY <1>3, <1>4, <1>5

\* A source is stopped by whoever gives up the last reference to it.
LEMMA ReleaseMoves ==
  ASSUME Types, ShapeInv, NEW t \in Closers, Release(t)
  PROVE  /\ FrontAt(t, "release") /\ ShapeInv' /\ Others(t) /\ Calmed(t)
         /\ \/ \A n, x : In(todo'[t], n, x) <=> n = "stop source" /\ x = source
            \/ Busy("ui") /\ \A n, x : ~In(todo'[t], n, x)
<1>. DEFINE a == <<"stop source", source>>
<1>1. t \in Threads /\ t \in Control /\ LeadsToNoRead("release") /\ "release" \in LastNames
  BY CloserIs DEF LeadsToNoRead, LastNames
<1>2. May(t, a) /\ a[1] = "stop source" /\ a[2] = source
  BY <1>1, SourceSteps DEF Types
<1>3. /\ At(t, "release") /\ FrontAt(t, "release")
      /\ Go(t, IF <<"return", source>> \in Range(todo["ui"]) THEN <<>> ELSE <<a>>)
  BY <1>1, FrontIs DEF Release
<1>4. \A n, x : ~Later(todo[t], n, x)
  BY <1>1, <1>3 DEF FrontAt
<1>5. <<"return", source>> \in Range(todo["ui"]) => Busy("ui")
  <2>1. Range(<<>>) = {}
    BY DEF Range
  <2>. QED
    BY <2>1 DEF Busy
<1>. HIDE DEF a
<1>6. CASE Go(t, <<a>>)
  <2>1. CallsOne("release", a[1])
    BY <1>2 DEF CallsOne
  <2>2. /\ ShapeInv' /\ Others(t) /\ Calmed(t)
        /\ \A n, x : In(todo'[t], n, x) <=> (n = a[1] /\ x = a[2]) \/ Later(todo[t], n, x)
    BY <1>1, <1>2, <1>3, <1>6, <2>1, CallOne
  <2>. QED
    BY <1>2, <1>3, <1>4, <2>2
<1>7. CASE Busy("ui") /\ Go(t, <<>>)
  <2>1. /\ ShapeInv' /\ Others(t) /\ Calmed(t)
        /\ \A n, x : In(todo'[t], n, x) <=> Later(todo[t], n, x)
    BY <1>1, <1>3, <1>7, Pop
  <2>. QED
    BY <1>3, <1>4, <1>7, <2>1
<1>. QED
  BY <1>3, <1>5, <1>6, <1>7

\* The audio input is made ready for a source of kind k.
Readies(k, n, x) ==
    \/ k = "file" /\ n = "use synthetic" /\ x = "none"
    \/ k # "file" /\ n = "use microphone" /\ x = "none"
    \/ n = "clear" /\ x = "none"

\* The step that switches the audio input for a source of kind k, and the one
\* that clears it.
Switches(k, a) ==
    /\ a[2] = "none"
    /\ k = "file" => a[1] = "use synthetic"
    /\ k # "file" => a[1] = "use microphone"
Clears(b) == b[1] = "clear" /\ b[2] = "none"
ConfigureThen(k, c) == Configure(k) \o <<c>>

\* ConfigureAudioInputForSource, and the step behind it.
LEMMA ConfigureIs ==
  ASSUME NEW t \in {"ui", "io"}, NEW k, NEW c, May(t, c)
  PROVE  \E a, b : /\ May(t, a) /\ Switches(k, a) /\ May(t, b) /\ Clears(b)
                   /\ ConfigureThen(k, c) = <<a, b, c>>
<1>. DEFINE y == IF k = "file" THEN "use synthetic" ELSE "use microphone"
            a == Do(y)
            b == Do("clear")
<1>0. y \in {"use microphone", "use synthetic"}
  OBVIOUS
<1>1. /\ y \in NamesOf(t) /\ y \in PlainNames
      /\ "clear" \in NamesOf(t) /\ "clear" \in PlainNames
  BY <1>0 DEF NamesOf, UiNames, IoNames, InputNames, PlainNames, AllNames
<1>2. t \in Threads
  BY DEF Threads, Control
<1>3. Configure(k) = <<a, b>>
  BY DEF Configure
<1>. HIDE DEF y
<1>4. /\ May(t, a) /\ a \in Steps /\ a[1] = y /\ a[2] = "none"
      /\ May(t, b) /\ b \in Steps /\ b[1] = "clear" /\ b[2] = "none"
  BY <1>1, <1>2, MayDo
<1>. HIDE DEF a, b
<1>5. <<a, b>> \o <<c>> = <<a, b, c>>
  BY <1>4, Joined DEF May
<1>6. ConfigureThen(k, c) = <<a, b, c>>
  BY <1>3, <1>5 DEF ConfigureThen
<1>7. Switches(k, a)
  BY <1>4 DEF Switches, y
<1>8. Clears(b)
  BY <1>4 DEF Clears
<1>. QED
  BY <1>4, <1>6, <1>7, <1>8

\* What the two leave for later.
LEMMA SwitchesIs ==
  ASSUME NEW k, NEW a, Switches(k, a), NEW b, Clears(b)
  PROVE  /\ a[1] \in {"use microphone", "use synthetic"} /\ b[1] = "clear"
         /\ a[1] # "push" /\ a[1] # "read"
         /\ \A n, x : (n = a[1] /\ x = a[2]) \/ (n = b[1] /\ x = b[2]) <=> Readies(k, n, x)
<1>1. CASE k = "file"
  BY <1>1 DEF Switches, Clears, Readies
<1>2. CASE k # "file"
  BY <1>2 DEF Switches, Clears, Readies
<1>. QED
  BY <1>1, <1>2

\* What AddTracks has to do.
LEMMA AddTracksMoves ==
  ASSUME Types, ShapeInv, AddTracks
  PROVE  /\ ShapeInv' /\ Others("io") /\ Calmed("io")
         /\ \A n, x : In(todo'["io"], n, x) <=>
               Readies(kind, n, x) \/ (n = "create" /\ x = kind)
<1>. DEFINE c == <<"create", kind>>
<1>1. "io" \in Threads /\ "io" \in Control
  BY DEF Threads, Control
<1>2. May("io", c) /\ c[1] = "create" /\ c[2] = kind
  <2>1. "create" \in AllNames /\ kind \in ArgsOf("create") /\ "create" \in NamesOf("io")
    BY DEF AllNames, UiNames, IoNames, ArgsOf, NamesOf, Types
  <2>. QED
    BY <2>1, StepIs DEF May
<1>3. Return("io", ConfigureThen(kind, c))
  BY DEF AddTracks, ConfigureThen
<1>. HIDE DEF c
<1>4. PICK a, b : /\ May("io", a) /\ Switches(kind, a) /\ May("io", b) /\ Clears(b)
                  /\ ConfigureThen(kind, c) = <<a, b, c>>
  BY <1>1, <1>2, ConfigureIs
<1>40. /\ a[1] \in {"use microphone", "use synthetic"} /\ b[1] = "clear"
       /\ a[1] # "push" /\ a[1] # "read"
       /\ \A n, x : (n = a[1] /\ x = a[2]) \/ (n = b[1] /\ x = b[2]) <=> Readies(kind, n, x)
  BY <1>4, SwitchesIs
<1>5. Triples(a[1], b[1], c[1])
  BY <1>2, <1>40 DEF Triples
<1>. DEFINE q == <<a, b, c>>
<1>6. /\ q \in Seq(Steps) /\ q # <<>> /\ Len(q) = 3 /\ Shape(q)
      /\ q[1] = a /\ q[2] = b /\ q[3] = c
      /\ \A n, x : In(q, n, x) <=>
            \/ a[1] = n /\ a[2] = x
            \/ b[1] = n /\ b[2] = x
            \/ c[1] = n /\ c[2] = x
  <2>1. a \in Steps /\ b \in Steps /\ c \in Steps
    BY <1>2, <1>4 DEF May
  <2>. QED
    BY <1>5, <2>1, Three
<1>7. Return("io", q)
  BY <1>3, <1>4
<1>. HIDE DEF q
<1>8. \A i \in 1..Len(q) : q[i][1] \in NamesOf("io")
  <2>1. \A i \in 1..3 : i = 1 \/ i = 2 \/ i = 3
    OBVIOUS
  <2>2. /\ a[1] \in NamesOf("io") /\ b[1] \in NamesOf("io") /\ c[1] \in NamesOf("io")
    BY <1>2, <1>4 DEF May
  <2>. QED
    BY <1>6, <2>1, <2>2
<1>9. Returned("io", q) /\ ShapeInv'
  BY <1>1, <1>6, <1>7, <1>8, ReturnIs
<1>10. \A n, x : In(q, n, x) <=> Readies(kind, n, x) \/ (n = "create" /\ x = kind)
  <2>1. \A n, x : In(q, n, x) <=> Readies(kind, n, x) \/ (n = c[1] /\ x = c[2])
    <3>. TAKE n, x
    <3>1. (n = a[1] /\ x = a[2]) \/ (n = b[1] /\ x = b[2]) <=> Readies(kind, n, x)
      BY <1>40
    <3>2. In(q, n, x) <=>
            \/ a[1] = n /\ a[2] = x
            \/ b[1] = n /\ b[2] = x
            \/ c[1] = n /\ c[2] = x
      BY <1>6
    <3>. QED
      BY <3>1, <3>2
  <2>. QED
    BY <1>2, <2>1
<1>12. Calmed("io")
  BY <1>6, <1>9, <1>40 DEF Returned, Calmed, First
<1>. QED
  BY <1>9, <1>10, <1>12 DEF Returned, Others

\* A switch that finds a connection creates its source.
LEMMA SwitchMoves ==
  ASSUME Types, ShapeInv, NEW k \in Kinds, Return("ui", <<<<"create", k>>>>)
  PROVE  /\ ShapeInv' /\ Others("ui") /\ Calmed("ui")
         /\ \A n, x : In(todo'["ui"], n, x) <=> n = "create" /\ x = k
<1>. DEFINE a == <<"create", k>>
<1>1. "ui" \in Threads /\ Return("ui", <<a>>)
  BY DEF Threads, Control
<1>2. May("ui", a) /\ a[1] = "create" /\ a[2] = k
  <2>1. "create" \in AllNames /\ k \in ArgsOf("create") /\ "create" \in NamesOf("ui")
    BY DEF AllNames, UiNames, IoNames, ArgsOf, NamesOf
  <2>. QED
    BY <2>1, StepIs DEF May
<1>. HIDE DEF a
<1>3. ReturnsTo(a[1])
  BY <1>2 DEF ReturnsTo
<1>4. /\ ShapeInv' /\ Others("ui") /\ Calmed("ui")
      /\ \A n, x : In(todo'["ui"], n, x) <=> n = a[1] /\ x = a[2]
  BY <1>1, <1>2, <1>3, ReturnOne
<1>. QED
  BY <1>2, <1>4

\* What SetTrack leaves to do.
LEMMA SetTrackMoves ==
  ASSUME Types, ShapeInv, SetTrack
  PROVE  /\ FrontAt("ui", "set track") /\ ShapeInv' /\ Others("ui") /\ Calmed("ui")
         /\ Arg("ui") \in Sources
         /\ \/ /\ stray' = stray
               /\ \A n, x : In(todo'["ui"], n, x) <=>
                     Readies(Kind(Arg("ui")), n, x) \/ (n = "swap" /\ x = Arg("ui"))
            \/ /\ stray' = (stray \/ (Arg("ui") \in Files /\ source \notin Files))
               /\ \A n, x : In(todo'["ui"], n, x) <=> n = "stop source" /\ x = Arg("ui")
<1>. DEFINE s == Arg("ui")
            c == <<"swap", s>>
            d == <<"stop source", s>>
<1>1. "ui" \in Threads /\ "ui" \in Control /\ "set track" \in LastNames
  BY DEF Threads, Control, LastNames
<1>2. At("ui", "set track") /\ FrontAt("ui", "set track")
  BY <1>1, FrontIs DEF SetTrack
<1>3. s \in Sources
  BY <1>2 DEF FrontAt, ArgsOf
<1>4. \A n, x : ~Later(todo["ui"], n, x)
  BY <1>1, <1>2 DEF FrontAt
<1>5. \/ stray' = stray /\ Go("ui", ConfigureThen(Kind(s), c))
      \/ /\ stray' = (stray \/ (s \in Files /\ source \notin Files))
         /\ Return("ui", <<d>>)
  BY DEF SetTrack, ConfigureThen
<1>6. May("ui", c) /\ c[1] = "swap" /\ c[2] = s
  BY <1>3, SourceSteps2
<1>7. May("ui", d) /\ d[1] = "stop source" /\ d[2] = s
  BY <1>1, <1>3, SourceSteps
<1>. HIDE DEF s, c, d
<1>8. CASE stray' = stray /\ Go("ui", ConfigureThen(Kind(s), c))
  <2>. DEFINE k == Kind(s)
  <2>. HIDE DEF k
  <2>1. PICK a, b : /\ May("ui", a) /\ Switches(k, a) /\ May("ui", b) /\ Clears(b)
                    /\ ConfigureThen(k, c) = <<a, b, c>>
    BY <1>1, <1>6, ConfigureIs
  <2>2. /\ a[1] \in {"use microphone", "use synthetic"} /\ b[1] = "clear"
        /\ a[1] # "push" /\ a[1] # "read"
        /\ \A n, x : (n = a[1] /\ x = a[2]) \/ (n = b[1] /\ x = b[2]) <=> Readies(k, n, x)
    BY <2>1, SwitchesIs
  <2>3. CallsThree("set track", a[1], b[1], c[1])
    BY <1>6, <2>2 DEF CallsThree
  <2>4. Go("ui", <<a, b, c>>)
    BY <1>8, <2>1 DEF k
  <2>5. /\ ShapeInv' /\ Others("ui")
        /\ \A n, x : In(todo'["ui"], n, x) <=>
              \/ n = a[1] /\ x = a[2]
              \/ n = b[1] /\ x = b[2]
              \/ n = c[1] /\ x = c[2]
              \/ Later(todo["ui"], n, x)
        /\ \A n : First(todo'["ui"], n) <=> n = a[1]
    <3>1. May("ui", a) /\ May("ui", b) /\ May("ui", c) /\ At("ui", "set track")
      BY <1>2, <1>6, <2>1
    <3>2. "ui" \in Threads
      BY <1>1
    <3>. QED
      BY <2>3, <2>4, <3>1, <3>2, CallThree, ZenonT(60)
  <2>6. Calmed("ui")
    BY <2>2, <2>5 DEF Calmed
  <2>7. \A n, x : In(todo'["ui"], n, x) <=> Readies(k, n, x) \/ (n = c[1] /\ x = c[2])
    <3>. TAKE n, x
    <3>1. (n = a[1] /\ x = a[2]) \/ (n = b[1] /\ x = b[2]) <=> Readies(k, n, x)
      BY <2>2
    <3>2. In(todo'["ui"], n, x) <=>
              \/ n = a[1] /\ x = a[2]
              \/ n = b[1] /\ x = b[2]
              \/ n = c[1] /\ x = c[2]
              \/ Later(todo["ui"], n, x)
      BY <2>5
    <3>3. ~Later(todo["ui"], n, x)
      BY <1>4
    <3>. QED
      BY <3>1, <3>2, <3>3
  <2>8. \A n, x : In(todo'["ui"], n, x) <=> Readies(k, n, x) \/ (n = "swap" /\ x = s)
    <3>1. c[1] = "swap" /\ c[2] = s
      BY <1>6
    <3>. QED
      BY <2>7, <3>1
  <2>. QED
    BY <1>2, <1>3, <1>8, <2>5, <2>6, <2>8 DEF s, k
<1>9. CASE /\ stray' = (stray \/ (s \in Files /\ source \notin Files))
           /\ Return("ui", <<d>>)
  <2>1. ReturnsTo(d[1])
    BY <1>7 DEF ReturnsTo
  <2>2. /\ ShapeInv' /\ Others("ui") /\ Calmed("ui")
        /\ \A n, x : In(todo'["ui"], n, x) <=> n = d[1] /\ x = d[2]
    BY <1>1, <1>7, <1>9, <2>1, ReturnOne
  <2>3. \A n, x : In(todo'["ui"], n, x) <=> n = "stop source" /\ x = s
    BY <1>7, <2>2
  <2>. QED
    BY <1>2, <1>3, <1>9, <2>2, <2>3 DEF s
<1>. QED
  BY <1>5, <1>8, <1>9

\* What the exchange of the sources leaves to do.
LEMMA SwapMoves ==
  ASSUME Types, ShapeInv, Swap
  PROVE  /\ FrontAt("ui", "swap") /\ ShapeInv' /\ Others("ui") /\ Calmed("ui")
         /\ Arg("ui") \in Sources
         /\ \A n, x : In(todo'["ui"], n, x) <=>
               (n = "stop source" /\ x = source) \/ (n = "return" /\ x = Arg("ui"))
<1>. DEFINE s == Arg("ui")
            a == <<"stop source", source>>
            b == <<"return", s>>
<1>1. "ui" \in Threads /\ "ui" \in Control /\ "swap" \in LastNames
  BY DEF Threads, Control, LastNames
<1>2. At("ui", "swap") /\ FrontAt("ui", "swap") /\ Go("ui", <<a, b>>)
  BY <1>1, FrontIs DEF Swap
<1>3. s \in Sources
  BY <1>2 DEF FrontAt, ArgsOf
<1>4. \A n, x : ~Later(todo["ui"], n, x)
  BY <1>1, <1>2 DEF FrontAt
<1>5. May("ui", b) /\ b[1] = "return" /\ b[2] = s
  BY <1>3, SourceSteps2
<1>6. May("ui", a) /\ a[1] = "stop source" /\ a[2] = source
  BY <1>1, SourceSteps DEF Types
<1>. HIDE DEF s, a, b
<1>7. CallsTwo("swap", a[1], b[1])
  BY <1>5, <1>6 DEF CallsTwo
<1>8. /\ ShapeInv' /\ Others("ui") /\ Calmed("ui")
      /\ \A n, x : In(todo'["ui"], n, x) <=>
            (n = a[1] /\ x = a[2]) \/ (n = b[1] /\ x = b[2]) \/ Later(todo["ui"], n, x)
  <2>1. May("ui", a) /\ May("ui", b)
    BY <1>5, <1>6
  <2>2. At("ui", "swap") /\ Go("ui", <<a, b>>)
    BY <1>2
  <2>. QED
    BY <1>1, <1>7, <2>1, <2>2, CallTwo
<1>9. \A n, x : In(todo'["ui"], n, x) <=>
            (n = a[1] /\ x = a[2]) \/ (n = b[1] /\ x = b[2])
  BY <1>4, <1>8
<1>10. \A n, x : In(todo'["ui"], n, x) <=>
            (n = "stop source" /\ x = source) \/ (n = "return" /\ x = s)
  <2>1. a[1] = "stop source" /\ a[2] = source /\ b[1] = "return" /\ b[2] = s
    BY <1>5, <1>6
  <2>. QED
    BY <1>9, <2>1
<1>. QED
  BY <1>2, <1>3, <1>8, <1>10 DEF s

\* What the return of SetLocalVideoSource leaves to do.
LEMMA SwitchReturnsMoves ==
  ASSUME Types, ShapeInv, SwitchReturns
  PROVE  /\ FrontAt("ui", "return") /\ ShapeInv' /\ Others("ui") /\ Calmed("ui")
         /\ \A n, x : In(todo'["ui"], n, x) <=>
               source # Arg("ui") /\ n = "stop source" /\ x = Arg("ui")
<1>. DEFINE s == Arg("ui")
            a == <<"stop source", s>>
<1>1. "ui" \in Threads /\ "ui" \in Control /\ "return" \in LastNames /\ LeadsToNoRead("return")
  BY DEF Threads, Control, LastNames, LeadsToNoRead
<1>2. /\ At("ui", "return") /\ FrontAt("ui", "return")
      /\ Go("ui", IF source = s THEN <<>> ELSE <<a>>)
  BY <1>1, FrontIs DEF SwitchReturns
<1>3. s \in Sources
  BY <1>2 DEF FrontAt, ArgsOf
<1>4. \A n, x : ~Later(todo["ui"], n, x)
  BY <1>1, <1>2 DEF FrontAt
<1>5. May("ui", a) /\ a[1] = "stop source" /\ a[2] = s
  BY <1>1, <1>3, SourceSteps
<1>. HIDE DEF s, a
<1>6. CASE source # s /\ Go("ui", <<a>>)
  <2>1. CallsOne("return", a[1])
    BY <1>5 DEF CallsOne
  <2>2. /\ ShapeInv' /\ Others("ui") /\ Calmed("ui")
        /\ \A n, x : In(todo'["ui"], n, x) <=> (n = a[1] /\ x = a[2]) \/ Later(todo["ui"], n, x)
    BY <1>1, <1>2, <1>5, <1>6, <2>1, CallOne
  <2>3. \A n, x : In(todo'["ui"], n, x) <=> n = "stop source" /\ x = s
    BY <1>4, <1>5, <2>2
  <2>. QED
    BY <1>2, <1>6, <2>2, <2>3 DEF s
<1>7. CASE source = s /\ Go("ui", <<>>)
  <2>1. /\ ShapeInv' /\ Others("ui") /\ Calmed("ui")
        /\ \A n, x : In(todo'["ui"], n, x) <=> Later(todo["ui"], n, x)
    BY <1>1, <1>2, <1>7, Pop
  <2>. QED
    BY <1>2, <1>4, <1>7, <2>1 DEF s
<1>. QED
  BY <1>2, <1>6, <1>7

\* A decoder that reads may call nothing but steps of its own.
LEMMA ReadMoves ==
  ASSUME Types, ShapeInv, NEW f \in Files, Read(f)
  PROVE  /\ FrontAt(f, "read") /\ ShapeInv' /\ Others(f)
         /\ ~First(todo'[f], "read")
         /\ First(todo'[f], "push") => First(todo[f], "read") /\ playing[f]
         /\ \A n, x : Later(todo[f], n, x) => In(todo'[f], n, x)
         /\ \A n, x : In(todo'[f], n, x) =>
               (n \in {"clear", "read", "push", "wait"} /\ x = "none") \/ Later(todo[f], n, x)
<1>. DEFINE a == Do("clear")
            b == Do("read")
            c == Do("push")
            d == Do("wait")
<1>1. f \in Threads /\ LeadsToNoRead("read")
  BY DEF Threads, LeadsToNoRead
<1>2. At(f, "read") /\ FrontAt(f, "read")
  BY <1>1, FrontIs DEF Read
<1>3. First(todo[f], "read")
  BY <1>1, <1>2, Split DEF At, Busy, First, Types
<1>4. /\ May(f, a) /\ a[1] = "clear" /\ a[2] = "none"
      /\ May(f, b) /\ b[1] = "read" /\ b[2] = "none"
      /\ May(f, c) /\ c[1] = "push" /\ c[2] = "none"
      /\ May(f, d) /\ d[1] = "wait" /\ d[2] = "none"
  <2>1. /\ {"clear", "read", "push", "wait"} \subseteq NamesOf(f)
        /\ {"clear", "read", "push", "wait"} \subseteq PlainNames
    BY NamesAssumption DEF NamesOf, FileNames, PlainNames, AllNames
  <2>. QED
    BY <1>1, <2>1, MayDo
<1>5. \/ Go(f, <<>>)
      \/ Go(f, <<a, b>>)
      \/ playing[f] /\ Go(f, <<c, d, b>>)
  BY DEF Read
<1>. HIDE DEF a, b, c, d
<1>6. CASE Go(f, <<>>)
  <2>1. /\ ShapeInv' /\ Others(f) /\ Calmed(f)
        /\ \A n, x : In(todo'[f], n, x) <=> Later(todo[f], n, x)
    BY <1>1, <1>2, <1>6, Pop
  <2>. QED
    BY <1>2, <2>1 DEF Calmed
<1>7. CASE Go(f, <<a, b>>)
  <2>1. CallsTwo("read", a[1], b[1])
    BY <1>4 DEF CallsTwo
  <2>2. /\ ShapeInv' /\ Others(f) /\ Calmed(f)
        /\ \A n, x : In(todo'[f], n, x) <=>
              (n = a[1] /\ x = a[2]) \/ (n = b[1] /\ x = b[2]) \/ Later(todo[f], n, x)
    <3>1. May(f, a) /\ May(f, b) /\ At(f, "read")
      BY <1>2, <1>4
    <3>. QED
      BY <1>1, <1>7, <2>1, <3>1, CallTwo
  <2>3. \A n, x : In(todo'[f], n, x) =>
              (n \in {"clear", "read", "push", "wait"} /\ x = "none") \/ Later(todo[f], n, x)
    <3>1. a[1] = "clear" /\ a[2] = "none" /\ b[1] = "read" /\ b[2] = "none"
      BY <1>4
    <3>. QED
      BY <2>2, <3>1
  <2>. QED
    BY <1>2, <2>2, <2>3 DEF Calmed
<1>8. CASE playing[f] /\ Go(f, <<c, d, b>>)
  <2>1. CallsThree("read", c[1], d[1], b[1])
    BY <1>4 DEF CallsThree
  <2>2. /\ ShapeInv' /\ Others(f)
        /\ \A n, x : In(todo'[f], n, x) <=>
              \/ n = c[1] /\ x = c[2]
              \/ n = d[1] /\ x = d[2]
              \/ n = b[1] /\ x = b[2]
              \/ Later(todo[f], n, x)
        /\ \A n : First(todo'[f], n) <=> n = c[1]
    <3>1. May(f, c) /\ May(f, d) /\ May(f, b) /\ At(f, "read")
      BY <1>2, <1>4
    <3>. QED
      BY <1>1, <1>8, <2>1, <3>1, CallThree
  <2>3. ~First(todo'[f], "read")
    BY <1>4, <2>2
  <2>4. \A n, x : In(todo'[f], n, x) =>
              (n \in {"clear", "read", "push", "wait"} /\ x = "none") \/ Later(todo[f], n, x)
    <3>1. /\ c[1] = "push" /\ c[2] = "none" /\ d[1] = "wait" /\ d[2] = "none"
          /\ b[1] = "read" /\ b[2] = "none"
      BY <1>4
    <3>. QED
      BY <2>2, <3>1
  <2>. QED
    BY <1>2, <1>3, <1>8, <2>2, <2>3, <2>4
<1>. QED
  BY <1>5, <1>6, <1>7, <1>8

-----------------------------------------------------------------------------
(* Facts that every step needs. *)

\* A decoder that is taking the audio input over.
Takes(q) ==
    \/ In(q, "use synthetic", "none")
    \/ In(q, "stop microphone", "none")
    \/ In(q, "start thread", "none")

\* A thread that takes the audio input over is at one of the three steps.
LEMMA TakesIs ==
  ASSUME NEW q \in Seq(Steps), Shape(q)
  PROVE  Takes(q) <=>
            q # <<>> /\ Head(q)[1] \in {"use synthetic", "stop microphone", "start thread"}
<1>1. CASE q = <<>>
  <2>1. \A n, x : ~In(<<>>, n, x)
    BY DEF In
  <2>. QED
    BY <1>1, <2>1 DEF Takes
<1>2. CASE q # <<>>
  <2>1. /\ Len(q) \in Nat /\ Len(q) >= 1 /\ Head(q) = q[1]
        /\ \A n, x : In(q, n, x) <=> (q[1][1] = n /\ q[1][2] = x) \/ Later(q, n, x)
    BY <1>2, Split
  <2>2. q[1] \in Steps
    BY <2>1, ElementOfSeq
  <2>3. q[1][1] \in {"use synthetic", "stop microphone", "start thread"} => q[1][2] = "none"
    BY <2>2 DEF Steps, ArgsOf
  <2>4. /\ ~Later(q, "use synthetic", "none") /\ ~Later(q, "stop microphone", "none")
        /\ Later(q, "start thread", "none") => q[1][1] = "stop microphone"
    BY <1>2, LaterIs DEF FrontNames
  <2>. QED
    BY <1>2, <2>1, <2>3, <2>4 DEF Takes
<1>. QED
  BY <1>1, <1>2

\* Decoders that take the audio input over, by what they have to do.
LEMMA TakingIs ==
  ASSUME Types, ShapeInv
  PROVE  \A f \in Files : f \in Taking <=> Takes(todo[f])
<1>. TAKE f \in Files
<1>1. todo[f] \in Seq(Steps) /\ Shape(todo[f])
  BY DEF Types, ShapeInv, Threads
<1>. QED
  BY <1>1, TakesIs DEF Taking, At, Busy

\* The same, after a step.
LEMMA TakingNext ==
  ASSUME todo' \in [Threads -> Seq(Steps)], ShapeInv'
  PROVE  \A f \in Files : f \in Taking' <=> Takes(todo'[f])
<1>. TAKE f \in Files
<1>1. todo'[f] \in Seq(Steps) /\ Shape(todo'[f])
  BY DEF Types, ShapeInv, Threads
<1>. QED
  BY <1>1, TakesIs DEF Taking, At, Busy

\* Decoders look at the buffer often enough.
LEMMA PacedLess ==
  ASSUME Types, PacedInv, Unpaced' \subseteq Unpaced, samples' \in Nat, samples' <= samples
  PROVE  PacedInv'
<1>1. IsFiniteSet(Unpaced) /\ High \in Nat
  BY BufferAssumption, FS_Subset DEF Unpaced
<1>2. IsFiniteSet(Unpaced') /\ Cardinality(Unpaced') <= Cardinality(Unpaced)
  BY <1>1, FS_Subset
<1>3. /\ Cardinality(Unpaced) \in Nat /\ Cardinality(Unpaced') \in Nat
      /\ Cardinality(Files) \in Nat
  BY <1>1, <1>2, BufferAssumption, FS_CardinalityType
<1>4. samples \in Nat
  BY DEF Types
<1>5. \/ samples <= High
      \/ samples + Cardinality(Unpaced) <= High + Cardinality(Files)
  BY DEF PacedInv
<1>. HIDE DEF Unpaced
<1>6. \/ samples' <= High
      \/ samples' + Cardinality(Unpaced') <= High + Cardinality(Files)
  BY <1>1, <1>2, <1>3, <1>4, <1>5
<1>. QED
  BY <1>6 DEF PacedInv

\* The buffer stays paced when a thread is not about to push.
LEMMA PacedCalm ==
  ASSUME Types, PacedInv, NEW t \in Threads, Others(t), Calmed(t),
         \A f \in Files : playing'[f] => playing[f],
         samples' \in Nat, samples' <= samples
  PROVE  PacedInv'
<1>1. Unpaced' \subseteq Unpaced
  <2>1. SUFFICES ASSUME NEW f \in Files,
                        First(todo'[f], "push") \/ (First(todo'[f], "read") /\ playing'[f])
                 PROVE  First(todo[f], "push") \/ (First(todo[f], "read") /\ playing[f])
    BY DEF Unpaced
  <2>2. f # t => todo'[f] = todo[f]
    BY DEF Others, Threads
  <2>3. f # t
    BY <2>1 DEF Calmed
  <2>. QED
    BY <2>1, <2>2, <2>3
<1>. QED
  BY <1>1, PacedLess

\* The buffer stays paced when no thread moves.
LEMMA PacedSame ==
  ASSUME Types, PacedInv, UNCHANGED <<todo, playing>>, samples' \in Nat, samples' <= samples
  PROVE  PacedInv'
<1>1. Unpaced' = Unpaced
  BY DEF Unpaced
<1>. QED
  BY <1>1, PacedLess

\* Names of steps that work for the connection, and of those that switch the
\* sound.
EngineNames ==
    {"create", "attach", "set track", "swap", "return", "stop source", "join decoder",
     "stop current", "stop recording", "remove senders", "close", "release"}
SoundNames ==
    {"stop thread", "join thread", "thread stopped", "start microphone", "stop microphone",
     "start thread"}

SameIn(names) ==
    \A c \in Control : \A n \in names : \A x : In(todo'[c], n, x) <=> In(todo[c], n, x)
NoMore(n) == \A c \in Control : \A x : In(todo'[c], n, x) => In(todo[c], n, x)
NoMoreBusy == \A u \in Threads : todo'[u] # <<>> => todo[u] # <<>>

ConnectionNames ==
    {"stop recording", "remove senders", "release", "create", "attach", "swap"}

\* What the closing threads have still to do, when the control threads keep it.
LEMMA SomeSame ==
  ASSUME NEW names, SameIn(names)
  PROVE  \A n \in names : (Some(n)' <=> Some(n)) /\ \A x : InSome(n, x)' <=> InSome(n, x)
<1>1. \A c \in Closers : c \in Control
  BY DEF Control, Closers
<1>. QED
  BY <1>1 DEF SameIn, Some, InSome

\* The same, when they take it.
LEMMA SomeLess ==
  ASSUME NEW n, NoMore(n)
  PROVE  Some(n)' => Some(n)
<1>1. \A c \in Closers : c \in Control
  BY DEF Control, Closers
<1>. QED
  BY <1>1 DEF NoMore, Some, InSome

\* While a closing thread works alone, what is to be done is its own.
LEMMA SomeIs ==
  ASSUME NEW t \in Closers, \A u \in Control : u # t => \A n, x : ~In(todo[u], n, x)
  PROVE  \A n : (Some(n) <=> Has(t, n)) /\ \A x : InSome(n, x) <=> In(todo[t], n, x)
<1>1. \A c \in Closers : c \in Control
  BY DEF Control, Closers
<1>. QED
  BY <1>1 DEF Some, InSome, Has

\* The same after a step.
LEMMA SomeNext ==
  ASSUME NEW t \in Closers, \A u \in Control : u # t => \A n, x : ~In(todo'[u], n, x)
  PROVE  \A n : (Some(n)' <=> Has(t, n)') /\ \A x : InSome(n, x)' <=> In(todo'[t], n, x)
<1>1. \A c \in Closers : c \in Control
  BY DEF Control, Closers
<1>. QED
  BY <1>1 DEF Some, InSome, Has

\* While the user interface thread works alone, there is nothing to be done.
LEMMA NoneIs ==
  ASSUME \A u \in Control : u # "ui" => \A n, x : ~In(todo[u], n, x)
  PROVE  \A n : ~Some(n) /\ \A x : ~InSome(n, x)
<1>1. \A c \in Closers : c \in Control /\ c # "ui"
  BY DEF Control, Closers
<1>. QED
  BY <1>1 DEF Some, InSome

\* The same after a step.
LEMMA NoneNext ==
  ASSUME \A u \in Control : u # "ui" => \A n, x : ~In(todo'[u], n, x)
  PROVE  \A n : ~Some(n)' /\ \A x : ~InSome(n, x)'
<1>1. \A c \in Closers : c \in Control /\ c # "ui"
  BY DEF Control, Closers
<1>. QED
  BY <1>1 DEF Some, InSome

\* Steps that leave the connection to the others.
LEMMA ConnectionKept ==
  ASSUME ConnectionInv, SameIn(ConnectionNames), NoMore("stop current"), NoMore("close"),
         NoMore("use microphone"), NoMore("use synthetic"),
         UNCHANGED <<pc, sender, sending, source, active>>,
         requested' => requested \/ sending
  PROVE  ConnectionInv'
<1>1. "io" \in Control /\ "ui" \in Control
  BY DEF Control
<1>2. \A n \in ConnectionNames : \A x : /\ In(todo'["io"], n, x) <=> In(todo["io"], n, x)
                                        /\ In(todo'["ui"], n, x) <=> In(todo["ui"], n, x)
  BY <1>1 DEF SameIn
<1>3. \A name \in Closing : Some(name)' => Some(name)
  BY SomeSame, SomeLess DEF Closing, ConnectionNames
<1>30. \A name \in {"release", "remove senders", "stop recording"} : Some(name)' <=> Some(name)
  BY SomeSame DEF ConnectionNames
<1>4. \A name \in Closing : Some(name)' => Some("release")'
  BY <1>3, <1>30 DEF ConnectionInv
<1>5. (source' # "none" \/ active' \/ sender') => pc' \/ Some("release")'
  BY <1>30 DEF ConnectionInv
<1>6. sender' => source' # "none"
  BY DEF ConnectionInv
<1>7. \A k \in Kinds : In(todo'["io"], "create", k) => pc' /\ ~sender' /\ source' = "none"
  BY <1>2 DEF ConnectionInv, Has, ConnectionNames
<1>8. \A s \in Sources : In(todo'["io"], "attach", s) => pc' /\ source' = s
  BY <1>2 DEF ConnectionInv, Has, ConnectionNames
<1>9. /\ Has("io", "use microphone")' => In(todo'["io"], "create", "camera")
      /\ Has("io", "use synthetic")' => In(todo'["io"], "create", "file")
      /\ Has("ui", "use microphone")' => In(todo'["ui"], "swap", "camera")
  BY <1>1, <1>2 DEF ConnectionInv, Has, ConnectionNames, NoMore
<1>10. Has("ui", "use synthetic")' => \E f \in Files : In(todo'["ui"], "swap", f)
  BY <1>1, <1>2 DEF ConnectionInv, Has, ConnectionNames, NoMore
<1>11. /\ sending' => pc' \/ Some("release")'
       /\ sending' /\ Some("release")' => Some("remove senders")'
       /\ requested' => sending' \/ Some("stop recording")'
  BY <1>30 DEF ConnectionInv
<1>. QED
  BY <1>4, <1>5, <1>6, <1>7, <1>8, <1>9, <1>10, <1>11 DEF ConnectionInv

\* Steps that leave the decoders to the others.
DecoderNames == {"join decoder", "stop source", "set track", "swap"}

\* Decoders are stopped by whoever was to stop them.
LEMMA DecodersKept ==
  ASSUME DecoderInv, SameIn(DecoderNames), NoMoreBusy, UNCHANGED <<playing, source>>,
         Some("release")' => Some("release"),
         Some("stop current") => Some("stop current")'
  PROVE  DecoderInv'
<1>. SUFFICES ASSUME NEW f \in Files
              PROVE  /\ Busy(f)' => \/ playing'[f]
                                    \/ \E t \in Control : In(todo'[t], "join decoder", f)
                     /\ playing'[f] =>
                           /\ \/ source' = f
                              \/ \E t \in Control : \/ In(todo'[t], "stop source", f)
                                                    \/ In(todo'[t], "set track", f)
                                                    \/ In(todo'[t], "swap", f)
                           /\ \A t \in Control : ~In(todo'[t], "join decoder", f)
                     /\ (Busy(f)' \/ playing'[f]) /\ Some("release")' =>
                           \/ Some("stop current")'
                           \/ InSome("stop source", f)'
                           \/ InSome("join decoder", f)'
  BY DEF DecoderInv
<1>1. Busy(f)' => Busy(f)
  BY DEF NoMoreBusy, Busy, Threads
<1>2. \A n \in {"join decoder", "stop source", "set track", "swap"} :
         \A t \in Control : In(todo'[t], n, f) <=> In(todo[t], n, f)
  BY DEF SameIn, DecoderNames
<1>3. Busy(f)' => playing'[f] \/ \E t \in Control : In(todo'[t], "join decoder", f)
  BY <1>1, <1>2 DEF DecoderInv
<1>4. playing'[f] =>
         /\ \/ source' = f
            \/ \E t \in Control : \/ In(todo'[t], "stop source", f)
                                  \/ In(todo'[t], "set track", f)
                                  \/ In(todo'[t], "swap", f)
         /\ \A t \in Control : ~In(todo'[t], "join decoder", f)
  BY <1>2 DEF DecoderInv
<1>5. (Busy(f)' \/ playing'[f]) /\ Some("release")' =>
         \/ Some("stop current")'
         \/ InSome("stop source", f)'
         \/ InSome("join decoder", f)'
  <2>1. /\ InSome("stop source", f)' <=> InSome("stop source", f)
        /\ InSome("join decoder", f)' <=> InSome("join decoder", f)
    <3>1. \A n \in DecoderNames : \A x : InSome(n, x)' <=> InSome(n, x)
      BY SomeSame
    <3>. QED
      BY <3>1 DEF DecoderNames
  <2>. QED
    BY <1>1, <2>1 DEF DecoderInv
<1>. QED
  BY <1>3, <1>4, <1>5

\* Steps that only switch the sound.
LEMMA EngineKept ==
  ASSUME ConnectionInv, DecoderInv, SameIn(EngineNames), NoMore("use microphone"),
         NoMore("use synthetic"), NoMoreBusy,
         UNCHANGED <<playing, pc, sender, sending, source, active>>,
         requested' => requested \/ sending
  PROVE  ConnectionInv' /\ DecoderInv'
<1>1. SameIn(ConnectionNames) /\ SameIn(DecoderNames) /\ NoMore("stop current") /\ NoMore("close")
  BY DEF SameIn, NoMore, EngineNames, ConnectionNames, DecoderNames
<1>2. /\ Some("release")' => Some("release")
      /\ Some("stop current") => Some("stop current")'
  <2>1. \A n \in EngineNames : Some(n)' <=> Some(n)
    BY SomeSame
  <2>. QED
    BY <2>1 DEF EngineNames
<1>. QED
  BY <1>1, <1>2, ConnectionKept, DecodersKept

HandleNames == {"join thread", "thread stopped"}

\* Steps that work for the connection leave the synthetic thread alone.
LEMMA HandleKept ==
  ASSUME HandleInv, SameIn(HandleNames), UNCHANGED <<thread, broken>>,
         Single', Busy("ui")' => pc' /\ sender'
  PROVE  HandleInv'
<1>1. \A t \in Control : \A n \in {"join thread", "thread stopped"} : Has(t, n)' <=> Has(t, n)
  BY DEF SameIn, HandleNames, Has
<1>2. running' = running /\ joinable' = joinable /\ alive' = alive /\ broken' = broken
  BY DEF thread
<1>3. /\ joinable' => running'
      /\ alive' => joinable'
      /\ ~broken'
  <2>1. (joinable => running) /\ (alive => joinable) /\ ~broken
    BY DEF HandleInv
  <2>. QED
    BY <1>2, <2>1
<1>4. /\ \A t \in Control : Has(t, "join thread")' \/ Has(t, "thread stopped")' => running'
      /\ \A t \in Control : Has(t, "thread stopped")' /\ joinable' => Has(t, "join thread")'
  BY <1>1, <1>2 DEF HandleInv
<1>. QED
  BY <1>3, <1>4 DEF HandleInv

Same(names) ==
    \A u \in Threads : \A n \in names : \A x : In(todo'[u], n, x) <=> In(todo[u], n, x)
Kept(n) == \A u \in Threads : \A x : In(todo[u], n, x) => In(todo'[u], n, x)

\* Microphone and synthetic thread, when nothing about them changes.
LEMMA SoundKept ==
  ASSUME SoundInv, Same(SoundNames), UNCHANGED <<requested, mode, live, running>>,
         Taking' \subseteq Taking
  PROVE  SoundInv'
<1>1. \A t \in Threads : \A n \in {"stop thread", "join thread", "thread stopped",
                                   "start microphone", "stop microphone", "start thread"} :
         Has(t, n)' <=> Has(t, n)
  BY DEF Same, SoundNames, Has
<1>2. \A t \in Control : t \in Threads
  BY DEF Threads
<1>4. live' => \/ requested' /\ mode' = "microphone"
               \/ \E t \in Threads : Has(t, "stop microphone")'
  BY <1>1 DEF SoundInv
<1>5. running' => \/ requested' /\ mode' = "synthetic"
                  \/ \E t \in Control : \/ Has(t, "stop thread")'
                                        \/ Has(t, "join thread")'
                                        \/ Has(t, "thread stopped")'
  BY <1>1, <1>2 DEF SoundInv
<1>6. \A t \in Control : Has(t, "start microphone")' =>
          requested' /\ mode' = "microphone" /\ Taking' = {}
  BY <1>1, <1>2 DEF SoundInv
<1>7. \A t \in Threads : Has(t, "start thread")' => requested' /\ mode' = "synthetic"
  BY <1>1 DEF SoundInv
<1>. QED
  BY <1>4, <1>5, <1>6, <1>7 DEF SoundInv

\* Steps that leave the mode alone.
ModeNames == {"swap", "set track", "create"}

\* The mode, when nothing about it or the source changes.
LEMMA ModeKept ==
  ASSUME ModeInv, SameIn(ModeNames), Kept("use microphone"), Kept("use synthetic"),
         UNCHANGED <<mode, source>>, Taking' \subseteq Taking
  PROVE  ModeInv'
<1>1. /\ "io" \in Control /\ "ui" \in Control /\ "io" \in Threads /\ "ui" \in Threads
      /\ Files \subseteq Threads
  BY DEF Control, Threads
<1>2. \A x : /\ In(todo'["ui"], "swap", x) <=> In(todo["ui"], "swap", x)
             /\ In(todo'["ui"], "set track", x) <=> In(todo["ui"], "set track", x)
             /\ In(todo'["io"], "create", x) <=> In(todo["io"], "create", x)
  BY <1>1 DEF SameIn, ModeNames
<1>3. \A u \in Threads : /\ Has(u, "use microphone") => Has(u, "use microphone")'
                         /\ Has(u, "use synthetic") => Has(u, "use synthetic")'
  BY DEF Kept, Has
<1>4. Natural => Natural'
  BY DEF Natural
<1>5. source' \in Files =>
          \/ mode' = "synthetic"
          \/ Has(source, "use synthetic")'
          \/ In(todo'["ui"], "swap", "camera")
  BY <1>1, <1>2, <1>3 DEF ModeInv
<1>6. source' = "camera" =>
          \/ Natural'
          \/ \E f \in Files : In(todo'["ui"], "set track", f) \/ In(todo'["ui"], "swap", f)
  BY <1>2, <1>4 DEF ModeInv
<1>7. \A f \in Files : In(todo'["ui"], "swap", f) =>
          mode' = "synthetic" \/ Has("ui", "use synthetic")'
  BY <1>1, <1>2, <1>3 DEF ModeInv
<1>8. In(todo'["ui"], "swap", "camera") => Natural' \/ Has("ui", "use microphone")'
  BY <1>1, <1>2, <1>3, <1>4 DEF ModeInv
<1>9. In(todo'["io"], "create", "camera") => Natural' \/ Has("io", "use microphone")'
  BY <1>1, <1>2, <1>3, <1>4 DEF ModeInv
<1>. QED
  BY <1>5, <1>6, <1>7, <1>8, <1>9 DEF ModeInv, Has

\* The step of t at its front makes way for steps with these names.
Adds(t, names) ==
    \A n, x : /\ Later(todo[t], n, x) => In(todo'[t], n, x)
              /\ In(todo'[t], n, x) => n \in names \/ Later(todo[t], n, x)

CalledSounds == SoundNames \cup {"clear", "read", "push", "wait"}
CalledByEngine ==
    EngineNames \cup {"use microphone", "use synthetic", "clear", "read", "push", "wait"}

IsSound(name) == name \notin EngineNames
IsEngine(name) == name \notin SoundNames

\* A busy thread that moves makes no other one busy.
LEMMA OthersBusy ==
  ASSUME NEW t \in Threads, Busy(t), Others(t)
  PROVE  NoMoreBusy
  BY DEF Others, NoMoreBusy, Busy

\* A step of the audio input leaves the engine alone.
LEMMA SoundStep ==
  ASSUME NEW t \in Threads, NEW name, FrontAt(t, name), IsSound(name), Others(t),
         Adds(t, CalledSounds)
  PROVE  /\ SameIn(EngineNames) /\ SameIn(ModeNames)
         /\ NoMore("use microphone") /\ NoMore("use synthetic")
<1>1. \A n, x : In(todo[t], n, x) <=> (n = name /\ x = Arg(t)) \/ Later(todo[t], n, x)
  BY DEF FrontAt
<1>2. \A n \in EngineNames : n # name /\ n \notin CalledSounds
  BY DEF IsSound, EngineNames, CalledSounds, SoundNames
<1>3. "use microphone" \notin CalledSounds /\ "use synthetic" \notin CalledSounds
  BY DEF CalledSounds, SoundNames
<1>4. \A n \in EngineNames : \A x : In(todo'[t], n, x) <=> In(todo[t], n, x)
  BY <1>1, <1>2 DEF Adds
<1>5. \A x : /\ In(todo'[t], "use microphone", x) => In(todo[t], "use microphone", x)
             /\ In(todo'[t], "use synthetic", x) => In(todo[t], "use synthetic", x)
  BY <1>1, <1>3 DEF Adds
<1>6. \A u \in Control : u # t => todo'[u] = todo[u]
  BY DEF Others, Threads
<1>7. SameIn(EngineNames)
  BY <1>4, <1>6 DEF SameIn
<1>8. SameIn(ModeNames)
  BY <1>7 DEF SameIn, EngineNames, ModeNames
<1>. QED
  BY <1>5, <1>6, <1>7, <1>8 DEF NoMore

\* A step of the engine leaves the sound alone.
LEMMA EngineStep ==
  ASSUME NEW t \in Threads, NEW name, FrontAt(t, name), IsEngine(name), Others(t),
         Adds(t, CalledByEngine)
  PROVE  Same(SoundNames) /\ SameIn(HandleNames)
<1>1. \A n, x : In(todo[t], n, x) <=> (n = name /\ x = Arg(t)) \/ Later(todo[t], n, x)
  BY DEF FrontAt
<1>2. \A n \in SoundNames : n # name /\ n \notin CalledByEngine
  BY DEF IsEngine, EngineNames, CalledByEngine, SoundNames
<1>4. \A n \in SoundNames : \A x : In(todo'[t], n, x) <=> In(todo[t], n, x)
  BY <1>1, <1>2 DEF Adds
<1>6. \A u \in Threads : u # t => todo'[u] = todo[u]
  BY DEF Others
<1>7. Same(SoundNames)
  BY <1>4, <1>6 DEF Same
<1>. QED
  BY <1>7 DEF Same, SameIn, Threads, SoundNames, HandleNames

\* A control thread leaves the decoders alone.
LEMMA DecodersSame ==
  ASSUME Types, ShapeInv, ShapeInv', NEW t \in Control, Others(t)
  PROVE  /\ \A f \in Files : todo'[f] = todo[f]
         /\ Taking' = Taking
<1>1. \A f \in Files : f # t /\ f \in Threads
  BY NamesAssumption DEF Threads, Control
<1>2. \A f \in Files : todo'[f] = todo[f]
  BY <1>1 DEF Others
<1>3. /\ \A f \in Files : f \in Taking <=> Takes(todo[f])
      /\ \A f \in Files : f \in Taking' <=> Takes(todo'[f])
  BY TakingIs, TakingNext DEF Others
<1>4. Taking \subseteq Files /\ Taking' \subseteq Files
  BY DEF Taking
<1>. QED
  BY <1>2, <1>3, <1>4

\* While one control thread works, the others have nothing to do.
LEMMA Alone ==
  ASSUME Types, HandleInv, NEW t \in Control, Busy(t)
  PROVE  \A u \in Control : u # t => ~Busy(u) /\ \A n, x : ~In(todo[u], n, x)
<1>1. \A u \in Control : u # t => ~Busy(u)
  BY DEF HandleInv, Single
<1>2. \A u \in Control : u \in Threads
  BY DEF Threads
<1>. QED
  BY <1>1, <1>2, IdleIs

\* The step at the front of t is in its sequence.
LEMMA FrontIn ==
  ASSUME NEW t \in Threads, NEW name, FrontAt(t, name)
  PROVE  In(todo[t], name, Arg(t)) /\ (name \in PlainNames => Has(t, name))
  BY DEF FrontAt, Has

\* A control thread does one thing at a time.
LEMMA OneSwap ==
  ASSUME todo' \in [Threads -> Seq(Steps)], ShapeInv'
  PROVE  \A a, b : In(todo'["ui"], "swap", a) /\ In(todo'["ui"], "swap", b) => a = b
<1>1. "ui" \in Threads /\ "swap" \in LastNames
  BY DEF Threads, Control, LastNames
<1>2. todo'["ui"] \in Seq(Steps) /\ Shape(todo'["ui"])
  BY <1>1 DEF ShapeInv
<1>. QED
  BY <1>1, <1>2, LastIs

\* A step that is not about taking the audio input over lets nobody do so.
TakingNames == {"use synthetic", "stop microphone", "start thread"}

\* Decoders that take the audio input over only become fewer.
LEMMA TakingLess ==
  ASSUME Types, ShapeInv, ShapeInv', NEW t \in Threads, NEW name, FrontAt(t, name), Others(t),
         NEW names, Adds(t, names), names \cap TakingNames = {}
  PROVE  Taking' \subseteq Taking
<1>1. /\ \A f \in Files : f \in Taking <=> Takes(todo[f])
      /\ \A f \in Files : f \in Taking' <=> Takes(todo'[f])
  BY TakingIs, TakingNext DEF Others
<1>2. \A n \in TakingNames : \A x : In(todo'[t], n, x) => In(todo[t], n, x)
  BY DEF FrontAt, Adds
<1>3. Takes(todo'[t]) => Takes(todo[t])
  BY <1>2 DEF Takes, TakingNames
<1>4. \A f \in Files : f # t => todo'[f] = todo[f]
  BY DEF Others, Threads
<1>5. Taking' \subseteq Files
  BY DEF Taking
<1>. QED
  BY <1>1, <1>3, <1>4, <1>5

\* Only what is at the front of t goes.
LEMMA OthersKept ==
  ASSUME NEW t \in Threads, NEW name, FrontAt(t, name), Others(t), NEW names, Adds(t, names),
         NEW n, n # name
  PROVE  Kept(n)
<1>1. \A x : In(todo[t], n, x) => In(todo'[t], n, x)
  BY DEF FrontAt, Adds
<1>. QED
  BY <1>1 DEF Kept, Others

-----------------------------------------------------------------------------
(* Each step keeps the invariant. *)

\* The audio input goes back to the microphone.
LEMMA UseMicrophoneKeeps ==
  ASSUME IInv, NEW t \in Threads, UseMicrophone(t)
  PROVE  IInv'
<1>1. Types /\ ShapeInv /\ PacedInv
  BY DEF IInv
<1>2. /\ t \in Control /\ FrontAt(t, "use microphone")
      /\ ShapeInv' /\ Others(t) /\ Calmed(t)
      /\ \A n, x : In(todo'[t], n, x) <=>
            \/ mode = "synthetic" /\ n = "stop thread" /\ x = "none"
            \/ mode = "synthetic" /\ requested /\ n = "start microphone" /\ x = "none"
            \/ Later(todo[t], n, x)
  BY <1>1, UseMicrophoneMoves
<1>3. /\ Busy(t)
      /\ mode' = "microphone" /\ (samples' = samples \/ samples' = 0)
      /\ stray' = (stray \/ Taking # {})
      /\ UNCHANGED <<requested, thread, live, playing, engine, overlap, broken>>
  BY DEF UseMicrophone, At
<1>4. UNCHANGED <<running, stop, joinable, alive, pc, sender, sending, source, kind, active>>
  BY <1>3 DEF thread, engine
<1>5. Types'
  <2>1. stray' \in BOOLEAN
    BY <1>3
  <2>2. samples' \in Nat
    BY <1>1, <1>3 DEF Types
  <2>3. todo' \in [Threads -> Seq(Steps)]
    BY <1>2 DEF Others
  <2>. QED
    BY <1>1, <1>3, <1>4, <2>1, <2>2, <2>3 DEF Types
<1>6. PacedInv'
  <2>1. samples' \in Nat /\ samples' <= samples
    BY <1>1, <1>3 DEF Types
  <2>. QED
    BY <1>1, <1>2, <1>3, <2>1, PacedCalm
<1>7. SameIn(EngineNames) /\ NoMore("use microphone") /\ NoMore("use synthetic") /\ NoMoreBusy
  <2>1. IsSound("use microphone")
    BY DEF IsSound, EngineNames
  <2>2. Adds(t, CalledSounds)
    BY <1>2 DEF Adds, CalledSounds, SoundNames
  <2>. QED
    BY <1>2, <1>3, <2>1, <2>2, SoundStep, OthersBusy
<1>8. ASSUME ~overlap' PROVE HandleInv' /\ ConnectionInv' /\ DecoderInv'
  <2>1. HandleInv /\ ConnectionInv /\ DecoderInv
    BY <1>3, <1>8 DEF IInv
  <2>2. ConnectionInv' /\ DecoderInv'
    BY <1>3, <1>4, <1>7, <2>1, EngineKept
  <2>3. HandleInv'
    <3>1. \A u \in Control : \A n \in {"join thread", "thread stopped"} : Has(u, n)' <=> Has(u, n)
      BY <1>2 DEF FrontAt, Has, Others, Threads
    <3>. QED
      BY <1>4, <1>3, <1>7, <2>1, <3>1 DEF HandleInv, Single, NoMoreBusy, Busy, Threads, Control
  <2>. QED
    BY <2>2, <2>3
<1>9. ASSUME ~overlap', ~stray' PROVE SoundInv' /\ ModeInv'
  <2>1. HandleInv /\ ConnectionInv /\ DecoderInv /\ SoundInv /\ ModeInv /\ Taking = {}
    BY <1>3, <1>9 DEF IInv
  <2>2. Taking' = {} /\ \A f \in Files : todo'[f] = todo[f] /\ ~Takes(todo[f])
    BY <1>1, <1>2, <2>1, DecodersSame, TakingIs
  <2>3. SoundInv'
    <3>1. live' => \/ requested' /\ mode' = "microphone"
                   \/ \E u \in Threads : Has(u, "stop microphone")'
      <4>1. \A u \in Threads : Has(u, "stop microphone") => Has(u, "stop microphone")'
        BY <1>2 DEF FrontAt, FrontNames, Has, Others
      <4>. QED
        BY <1>1, <1>3, <2>1, <4>1 DEF SoundInv, Types
    <3>2. running' => \/ requested' /\ mode' = "synthetic"
                      \/ \E u \in Control : \/ Has(u, "stop thread")'
                                            \/ Has(u, "join thread")'
                                            \/ Has(u, "thread stopped")'
      <4>1. \A u \in Control : \A n \in {"stop thread", "join thread", "thread stopped"} :
               Has(u, n) => Has(u, n)'
        BY <1>2 DEF FrontAt, FrontNames, Has, Others, Threads
      <4>2. mode = "synthetic" => Has(t, "stop thread")'
        BY <1>2 DEF Has
      <4>. QED
        BY <1>2, <1>4, <2>1, <4>1, <4>2 DEF SoundInv
    <3>3. \A u \in Control : Has(u, "start microphone")' =>
             requested' /\ mode' = "microphone" /\ Taking' = {}
      <4>1. \A u \in Control : Has(u, "start microphone")' => Has(u, "start microphone") \/ requested
        BY <1>2 DEF FrontAt, Has, Others, Threads
      <4>. QED
        BY <1>3, <2>1, <2>2, <4>1 DEF SoundInv
    <3>4. \A u \in Threads : ~Has(u, "start thread")'
      <4>1. ~Has(t, "start thread")'
        BY <1>2 DEF FrontAt, Has
      <4>2. \A u \in Control : u # t => ~Has(u, "start thread")'
        BY <1>1, <1>2, <1>3, <2>1, Alone DEF Has, Others, Threads
      <4>3. \A u \in Files : ~Has(u, "start thread")'
        BY <2>2 DEF Takes, Has
      <4>. QED
        BY <4>1, <4>2, <4>3 DEF Threads
    <3>. QED
      BY <3>1, <3>2, <3>3, <3>4 DEF SoundInv
  <2>4. ModeInv'
    <3>1. Natural'
      BY <1>3, <2>2 DEF Natural
    <3>2. Has(t, "use microphone")
      <4>1. "use microphone" \in PlainNames
        BY DEF PlainNames, AllNames, UiNames, InputNames
      <4>. QED
        BY <1>2, <4>1, FrontIn
    <3>3. CASE t = "ui"
      <4>1. In(todo["ui"], "swap", "camera")
        BY <2>1, <3>2, <3>3 DEF ConnectionInv
      <4>2. In(todo'["ui"], "swap", "camera")
        BY <1>7, <4>1 DEF SameIn, EngineNames, Control
      <4>3. \A f \in Files : ~In(todo'["ui"], "swap", f)
        BY <1>2, <4>2, OneSwap, NamesAssumption DEF Others
      <4>. QED
        BY <3>1, <4>2, <4>3 DEF ModeInv
    <3>4. CASE t = "io"
      <4>1. In(todo["io"], "create", "camera")
        BY <2>1, <3>2, <3>4 DEF ConnectionInv
      <4>2. source = "none"
        BY <2>1, <4>1 DEF ConnectionInv, Kinds
      <4>3. \A n, x : ~In(todo["ui"], n, x)
        BY <1>1, <1>2, <1>3, <2>1, <3>4, Alone DEF Control
      <4>4. \A n, x : ~In(todo'["ui"], n, x)
        BY <1>2, <3>4, <4>3 DEF Others, Threads, Control
      <4>5. source' \notin Files
        BY <1>4, <4>2, NamesAssumption
      <4>. QED
        BY <3>1, <4>4, <4>5 DEF ModeInv
    <3>. QED
      BY <1>2, <3>3, <3>4, NotTimer DEF Control
  <2>. QED
    BY <2>3, <2>4
<1>. QED
  BY <1>2, <1>5, <1>6, <1>8, <1>9 DEF IInv

\* Steps that do not touch the synthetic thread or the microphone.
QuietNames == {"clear", "read", "push", "wait"}
IsQuiet(name) == name \in QuietNames

\* Steps that only touch the buffer.
LEMMA QuietKeeps ==
  ASSUME IInv, NEW t \in Threads, NEW name, FrontAt(t, name), IsQuiet(name), Busy(t), Others(t),
         ShapeInv', Adds(t, QuietNames),
         UNCHANGED <<mode, requested, thread, live, playing, engine, history>>
  PROVE  /\ ~overlap' => HandleInv' /\ ConnectionInv' /\ DecoderInv'
         /\ ~overlap' /\ ~stray' => SoundInv' /\ ModeInv'
<1>1. Types /\ ShapeInv
  BY DEF IInv
<1>2. UNCHANGED <<running, stop, joinable, alive, pc, sender, sending, source, kind, active,
                  overlap, stray, broken>>
  BY DEF thread, engine, history
<1>3. /\ IsSound(name) /\ IsEngine(name) /\ name # "use microphone" /\ name # "use synthetic"
      /\ QuietNames \cap TakingNames = {}
      /\ Adds(t, CalledSounds) /\ Adds(t, CalledByEngine)
  <2>1. IsSound(name) /\ IsEngine(name) /\ name # "use microphone" /\ name # "use synthetic"
    BY DEF IsQuiet, QuietNames, IsSound, IsEngine, EngineNames, SoundNames
  <2>2. QuietNames \cap TakingNames = {}
    BY DEF QuietNames, TakingNames
  <2>3. QuietNames \subseteq CalledSounds /\ QuietNames \subseteq CalledByEngine
    BY DEF QuietNames, CalledSounds, CalledByEngine
  <2>4. Adds(t, CalledSounds) /\ Adds(t, CalledByEngine)
    BY <2>3 DEF Adds
  <2>. QED
    BY <2>1, <2>2, <2>4
<1>4. /\ SameIn(EngineNames) /\ SameIn(ModeNames)
      /\ NoMore("use microphone") /\ NoMore("use synthetic") /\ NoMoreBusy
  BY <1>3, SoundStep, OthersBusy
<1>5. Same(SoundNames) /\ SameIn(HandleNames)
  BY <1>3, EngineStep
<1>6. Taking' \subseteq Taking
  BY <1>1, <1>3, TakingLess
<1>7. Kept("use microphone") /\ Kept("use synthetic")
  BY <1>3, OthersKept
<1>8. ASSUME ~overlap' PROVE HandleInv' /\ ConnectionInv' /\ DecoderInv'
  <2>1. HandleInv /\ ConnectionInv /\ DecoderInv
    BY <1>2, <1>8 DEF IInv
  <2>2. ConnectionInv' /\ DecoderInv'
    BY <1>2, <1>4, <2>1, EngineKept
  <2>3. Single' /\ (Busy("ui")' => pc' /\ sender')
    BY <1>2, <1>4, <2>1 DEF HandleInv, Single, NoMoreBusy, Busy, Threads, Control
  <2>4. HandleInv'
    BY <1>2, <1>5, <2>1, <2>3, HandleKept
  <2>. QED
    BY <2>2, <2>4
<1>9. ASSUME ~overlap', ~stray' PROVE SoundInv' /\ ModeInv'
  <2>1. SoundInv /\ ModeInv
    BY <1>2, <1>9 DEF IInv
  <2>. QED
    BY <1>2, <1>4, <1>5, <1>6, <1>7, <2>1, SoundKept, ModeKept
<1>. QED
  BY <1>8, <1>9

\* The buffer is cleared.
LEMMA ClearKeeps ==
  ASSUME IInv, NEW t \in Threads, ClearSyntheticAudio(t)
  PROVE  IInv'
<1>1. Types /\ ShapeInv /\ PacedInv
  BY DEF IInv
<1>2. /\ At(t, "clear") /\ Busy(t) /\ samples' = 0 /\ Go(t, <<>>)
      /\ UNCHANGED <<mode, requested, thread, live, playing, engine, history>>
  BY DEF ClearSyntheticAudio, At
<1>3. /\ FrontAt(t, "clear") /\ ShapeInv' /\ Others(t)
      /\ \A n, x : In(todo'[t], n, x) <=> Later(todo[t], n, x)
  BY <1>1, <1>2, Pop
<1>4. Adds(t, QuietNames) /\ IsQuiet("clear")
  BY <1>3 DEF Adds, IsQuiet, QuietNames
<1>5. Types'
  <2>1. samples' \in Nat /\ todo' \in [Threads -> Seq(Steps)]
    BY <1>2, <1>3 DEF Others
  <2>. QED
    BY <1>1, <1>2, <2>1 DEF Types, thread, engine, history
<1>6. PacedInv'
  BY <1>2, BufferAssumption DEF PacedInv
<1>7. /\ ~overlap' => HandleInv' /\ ConnectionInv' /\ DecoderInv'
      /\ ~overlap' /\ ~stray' => SoundInv' /\ ModeInv'
  BY <1>2, <1>3, <1>4, QuietKeeps
<1>. QED
  BY <1>3, <1>5, <1>6, <1>7 DEF IInv

\* A decoder pushes a chunk.
LEMMA PushKeeps ==
  ASSUME IInv, NEW f \in Files, Push(f)
  PROVE  IInv'
<1>0. f \in Threads
  BY DEF Threads
<1>1. Types /\ ShapeInv /\ PacedInv
  BY DEF IInv
<1>2. /\ At(f, "push") /\ Busy(f) /\ Go(f, <<>>)
      /\ samples' = IF samples < Cap THEN samples + 1 ELSE Cap
      /\ UNCHANGED <<mode, requested, thread, live, playing, engine, history>>
  BY DEF Push, At
<1>3. /\ FrontAt(f, "push") /\ ShapeInv' /\ Others(f) /\ Calmed(f)
      /\ \A n, x : In(todo'[f], n, x) <=> Later(todo[f], n, x)
  <2>1. LeadsToNoRead("push")
    BY DEF LeadsToNoRead
  <2>. QED
    BY <1>0, <1>1, <1>2, <2>1, Pop
<1>4. Adds(f, QuietNames) /\ IsQuiet("push")
  BY <1>3 DEF Adds, IsQuiet, QuietNames
<1>40. samples \in Nat /\ Cap \in Nat /\ High \in Nat /\ samples' \in Nat /\ samples' <= samples + 1
  BY <1>1, <1>2, BufferAssumption DEF Types
<1>5. Types'
  <2>1. todo' \in [Threads -> Seq(Steps)]
    BY <1>3 DEF Others
  <2>. QED
    BY <1>1, <1>2, <1>40, <2>1 DEF Types, thread, engine, history
<1>6. PacedInv'
  <2>1. f \in Unpaced
    <3>1. todo[f] \in Seq(Steps) /\ todo[f] # <<>> /\ Head(todo[f])[1] = "push"
      BY <1>0, <1>1, <1>2 DEF Types, At, Busy
    <3>2. First(todo[f], "push")
      BY <3>1, Split DEF First
    <3>. QED
      BY <3>2 DEF Unpaced
  <2>2. Unpaced' \subseteq Unpaced \ {f}
    <3>1. \A u \in Files : u # f => todo'[u] = todo[u]
      BY <1>3 DEF Others, Threads
    <3>2. playing' = playing
      BY <1>2
    <3>. QED
      BY <1>3, <3>1, <3>2 DEF Unpaced, Calmed
  <2>3. Unpaced \subseteq Files /\ IsFiniteSet(Files)
    BY BufferAssumption DEF Unpaced
  <2>. HIDE DEF Unpaced
  <2>4. /\ IsFiniteSet(Unpaced) /\ Cardinality(Unpaced) <= Cardinality(Files)
        /\ Cardinality(Unpaced) \in Nat /\ Cardinality(Files) \in Nat
    BY <2>3, FS_Subset, FS_CardinalityType
  <2>5. /\ IsFiniteSet(Unpaced \ {f})
        /\ Cardinality(Unpaced \ {f}) = Cardinality(Unpaced) - 1
    BY <2>1, <2>4, FS_RemoveElement
  <2>6. Cardinality(Unpaced') <= Cardinality(Unpaced \ {f}) /\ Cardinality(Unpaced') \in Nat
    BY <2>2, <2>5, FS_Subset, FS_CardinalityType
  <2>7. Cardinality(Unpaced') + 1 <= Cardinality(Unpaced)
    BY <2>4, <2>5, <2>6
  <2>8. samples <= High \/ samples + Cardinality(Unpaced) <= High + Cardinality(Files)
    BY <1>1 DEF PacedInv
  <2>9. samples' + Cardinality(Unpaced') <= High + Cardinality(Files)
    BY <1>40, <2>4, <2>6, <2>7, <2>8
  <2>. QED
    BY <2>9 DEF PacedInv
<1>7. /\ ~overlap' => HandleInv' /\ ConnectionInv' /\ DecoderInv'
      /\ ~overlap' /\ ~stray' => SoundInv' /\ ModeInv'
  BY <1>0, <1>2, <1>3, <1>4, QuietKeeps
<1>. QED
  BY <1>3, <1>5, <1>6, <1>7 DEF IInv

\* A decoder has waited for room.
LEMMA WaitKeeps ==
  ASSUME IInv, NEW f \in Files, Wait(f)
  PROVE  IInv'
<1>0. f \in Threads
  BY DEF Threads
<1>1. Types /\ ShapeInv /\ PacedInv
  BY DEF IInv
<1>2. /\ At(f, "wait") /\ Busy(f) /\ Go(f, <<>>) /\ (~playing[f] \/ samples <= High)
      /\ UNCHANGED <<samples, mode, requested, thread, live, playing, engine, history>>
  BY DEF Wait, At, input
<1>3. /\ FrontAt(f, "wait") /\ ShapeInv' /\ Others(f) /\ ~First(todo'[f], "push")
      /\ \A n, x : In(todo'[f], n, x) <=> Later(todo[f], n, x)
  BY <1>0, <1>1, <1>2, Pop
<1>4. Adds(f, QuietNames) /\ IsQuiet("wait")
  BY <1>3 DEF Adds, IsQuiet, QuietNames
<1>5. Types'
  <2>1. todo' \in [Threads -> Seq(Steps)]
    BY <1>3 DEF Others
  <2>. QED
    BY <1>1, <1>2, <2>1 DEF Types, thread, engine, history
<1>6. PacedInv'
  <2>1. CASE samples <= High
    BY <1>2, <2>1 DEF PacedInv
  <2>2. CASE ~playing[f]
    <3>1. \A u \in Files : u # f => todo'[u] = todo[u]
      BY <1>3 DEF Others, Threads
    <3>2. playing' = playing
      BY <1>2
    <3>3. Unpaced' \subseteq Unpaced
      BY <1>3, <2>2, <3>1, <3>2 DEF Unpaced
    <3>4. samples' = samples /\ samples \in Nat
      BY <1>1, <1>2 DEF Types
    <3>. QED
      BY <1>1, <3>3, <3>4, PacedLess
  <2>. QED
    BY <1>2, <2>1, <2>2
<1>7. /\ ~overlap' => HandleInv' /\ ConnectionInv' /\ DecoderInv'
      /\ ~overlap' /\ ~stray' => SoundInv' /\ ModeInv'
  BY <1>0, <1>2, <1>3, <1>4, QuietKeeps
<1>. QED
  BY <1>3, <1>5, <1>6, <1>7 DEF IInv

\* A decoder reads a packet.
LEMMA ReadKeeps ==
  ASSUME IInv, NEW f \in Files, Read(f)
  PROVE  IInv'
<1>0. f \in Threads
  BY DEF Threads
<1>1. Types /\ ShapeInv /\ PacedInv
  BY DEF IInv
<1>2. /\ Busy(f)
      /\ UNCHANGED <<samples, mode, requested, thread, live, playing, engine, history>>
  BY DEF Read, At, input
<1>3. /\ FrontAt(f, "read") /\ ShapeInv' /\ Others(f)
      /\ ~First(todo'[f], "read")
      /\ First(todo'[f], "push") => First(todo[f], "read") /\ playing[f]
      /\ Adds(f, QuietNames)
  BY <1>1, ReadMoves DEF Adds, QuietNames
<1>4. IsQuiet("read")
  BY DEF IsQuiet, QuietNames
<1>5. Types'
  <2>1. todo' \in [Threads -> Seq(Steps)]
    BY <1>3 DEF Others
  <2>. QED
    BY <1>1, <1>2, <2>1 DEF Types, thread, engine, history
<1>6. PacedInv'
  <2>1. \A u \in Files : u # f => todo'[u] = todo[u]
    BY <1>3 DEF Others, Threads
  <2>2. playing' = playing
    BY <1>2
  <2>3. Unpaced' \subseteq Unpaced
    BY <1>3, <2>1, <2>2 DEF Unpaced
  <2>4. samples' = samples /\ samples \in Nat
    BY <1>1, <1>2 DEF Types
  <2>. QED
    BY <1>1, <2>3, <2>4, PacedLess
<1>7. /\ ~overlap' => HandleInv' /\ ConnectionInv' /\ DecoderInv'
      /\ ~overlap' /\ ~stray' => SoundInv' /\ ModeInv'
  BY <1>0, <1>2, <1>3, <1>4, QuietKeeps
<1>. QED
  BY <1>3, <1>5, <1>6, <1>7 DEF IInv

\* Steps that switch the microphone or the synthetic thread.
IsSwitch(name) == name \in SoundNames

\* Steps that switch the microphone or the synthetic thread.
LEMMA SwitchKeeps ==
  ASSUME IInv, NEW t \in Threads, NEW name, FrontAt(t, name), IsSwitch(name), Busy(t), Others(t),
         ShapeInv', Adds(t, HandleNames),
         UNCHANGED <<mode, requested, playing, engine, overlap, stray>>
  PROVE  /\ NoMoreBusy /\ Taking' \subseteq Taking
         /\ \A n : n # name => Kept(n)
         /\ \A u \in Threads : \A n, x : In(todo'[u], n, x) => n \in HandleNames \/ In(todo[u], n, x)
         /\ ~overlap' => HandleInv /\ ConnectionInv' /\ DecoderInv'
         /\ ~overlap' /\ ~stray' => SoundInv /\ ModeInv'
<1>1. Types /\ ShapeInv
  BY DEF IInv
<1>2. UNCHANGED <<pc, sender, sending, source, kind, active>>
  BY DEF engine
<1>3. /\ IsSound(name) /\ name # "use microphone" /\ name # "use synthetic"
      /\ HandleNames \cap TakingNames = {}
      /\ Adds(t, CalledSounds)
  <2>1. IsSound(name) /\ name # "use microphone" /\ name # "use synthetic"
    BY DEF IsSwitch, IsSound, EngineNames, SoundNames
  <2>2. HandleNames \cap TakingNames = {}
    BY DEF HandleNames, TakingNames
  <2>3. HandleNames \subseteq CalledSounds
    BY DEF HandleNames, CalledSounds, SoundNames
  <2>4. Adds(t, CalledSounds)
    BY <2>3 DEF Adds
  <2>. QED
    BY <2>1, <2>2, <2>4
<1>4. /\ SameIn(EngineNames) /\ SameIn(ModeNames)
      /\ NoMore("use microphone") /\ NoMore("use synthetic") /\ NoMoreBusy
  BY <1>3, SoundStep, OthersBusy
<1>5. Taking' \subseteq Taking
  BY <1>1, <1>3, TakingLess
<1>6. \A n : n # name => Kept(n)
  BY OthersKept
<1>7. \A u \in Threads : \A n, x : In(todo'[u], n, x) => n \in HandleNames \/ In(todo[u], n, x)
  <2>1. \A n, x : In(todo'[t], n, x) => n \in HandleNames \/ In(todo[t], n, x)
    BY DEF Adds, FrontAt
  <2>. QED
    BY <2>1 DEF Others
<1>8. ASSUME ~overlap' PROVE HandleInv /\ ConnectionInv' /\ DecoderInv'
  <2>1. HandleInv /\ ConnectionInv /\ DecoderInv
    BY <1>8 DEF IInv
  <2>. QED
    BY <1>2, <1>4, <2>1, EngineKept
<1>9. ASSUME ~overlap', ~stray' PROVE SoundInv /\ ModeInv'
  <2>1. SoundInv /\ ModeInv
    BY <1>9 DEF IInv
  <2>2. Kept("use microphone") /\ Kept("use synthetic")
    BY <1>3, <1>6
  <2>. QED
    BY <1>2, <1>4, <1>5, <2>1, <2>2, ModeKept
<1>. QED
  BY <1>4, <1>5, <1>6, <1>7, <1>8, <1>9

\* What one control thread at most may do.
LEMMA BusyKept ==
  ASSUME HandleInv, NoMoreBusy, pc' = pc, sender' = sender
  PROVE  Single' /\ (Busy("ui")' => pc' /\ sender')
<1>1. (Busy("ui")' => Busy("ui")) /\ \A t \in Control : Busy(t)' => Busy(t)
  BY DEF NoMoreBusy, Busy, Threads, Control
<1>2. Single /\ (Busy("ui") => pc /\ sender)
  BY DEF HandleInv
<1>. QED
  BY <1>1, <1>2 DEF Single

\* The microphone is switched.
LEMMA SwitchMicrophoneKeeps ==
  ASSUME IInv, NEW t \in Threads, SwitchMicrophone(t)
  PROVE  IInv'
<1>1. Types /\ ShapeInv /\ PacedInv
  BY DEF IInv
<1>2. PICK name : /\ name \in {"start microphone", "stop microphone"} /\ At(t, name)
                  /\ live' \in BOOLEAN /\ (live' => name = "start microphone")
  <2>1. CASE At(t, "start microphone") /\ live' = TRUE
    BY <2>1
  <2>2. CASE At(t, "stop microphone") /\ live' = FALSE
    BY <2>2
  <2>. QED
    BY <2>1, <2>2 DEF SwitchMicrophone
<1>3. /\ Busy(t) /\ Go(t, <<>>)
      /\ UNCHANGED <<mode, requested, samples, thread, playing, engine, history>>
  BY DEF SwitchMicrophone, At
<1>4. UNCHANGED <<running, stop, joinable, alive, pc, sender, sending, source, kind, active,
                  overlap, stray, broken>>
  BY <1>3 DEF thread, engine, history
<1>5. LeadsToNoRead(name) /\ IsSwitch(name) /\ name \in PlainNames
  BY <1>2 DEF LeadsToNoRead, IsSwitch, SoundNames, PlainNames, AllNames, UiNames, InputNames
<1>6. /\ FrontAt(t, name) /\ ShapeInv' /\ Others(t) /\ Calmed(t)
      /\ \A n, x : In(todo'[t], n, x) <=> Later(todo[t], n, x)
  BY <1>1, <1>2, <1>3, <1>5, Pop
<1>7. Adds(t, HandleNames)
  BY <1>6 DEF Adds
<1>8. /\ NoMoreBusy /\ Taking' \subseteq Taking
      /\ \A n : n # name => Kept(n)
      /\ ~overlap' => HandleInv /\ ConnectionInv' /\ DecoderInv'
      /\ ~overlap' /\ ~stray' => SoundInv /\ ModeInv'
  BY <1>3, <1>4, <1>5, <1>6, <1>7, SwitchKeeps
<1>9. \A u \in Threads : \A n, x : In(todo'[u], n, x) => In(todo[u], n, x)
  BY <1>6 DEF FrontAt, Others
<1>10. Types'
  <2>1. live' \in BOOLEAN
    BY <1>2
  <2>2. todo' \in [Threads -> Seq(Steps)]
    BY <1>6 DEF Others
  <2>. QED
    BY <1>1, <1>3, <1>4, <2>1, <2>2 DEF Types
<1>11. PacedInv'
  <2>1. samples' \in Nat /\ samples' <= samples /\ playing' = playing
    BY <1>1, <1>3 DEF Types
  <2>. QED
    BY <1>1, <1>6, <2>1, PacedCalm
<1>12. Kept("join thread") /\ Kept("thread stopped") /\ Kept("stop thread")
  BY <1>2, <1>8
<1>13. ~overlap' => HandleInv'
  <2>1. SameIn(HandleNames)
    BY <1>9, <1>12 DEF SameIn, HandleNames, Kept, Threads
  <2>. QED
    BY <1>3, <1>4, <1>8, <2>1, BusyKept, HandleKept
<1>14. ASSUME ~overlap', ~stray' PROVE SoundInv'
  <2>1. SoundInv
    BY <1>8, <1>14
  <2>2. Has(t, name)
    BY <1>5, <1>6, FrontIn
  <2>3. live' => requested' /\ mode' = "microphone"
    <3>1. live' => t \in Control /\ Has(t, "start microphone")
      <4>1. name = "start microphone" => t \in Control
        BY <1>6, ControlIs DEF FrontAt, FileNames
      <4>. QED
        BY <1>2, <2>2, <4>1
    <3>. QED
      BY <1>3, <2>1, <3>1 DEF SoundInv
  <2>4. running' => \/ requested' /\ mode' = "synthetic"
                    \/ \E u \in Control : \/ Has(u, "stop thread")'
                                          \/ Has(u, "join thread")'
                                          \/ Has(u, "thread stopped")'
    <3>1. \A u \in Control : \A n \in {"stop thread", "join thread", "thread stopped"} :
             Has(u, n) => Has(u, n)'
      BY <1>12 DEF Kept, Has, Threads
    <3>. QED
      BY <1>3, <1>4, <2>1, <3>1 DEF SoundInv
  <2>5. /\ \A u \in Control : Has(u, "start microphone")' =>
              requested' /\ mode' = "microphone" /\ Taking' = {}
        /\ \A u \in Threads : Has(u, "start thread")' => requested' /\ mode' = "synthetic"
    <3>1. \A u \in Threads : \A n : Has(u, n)' => Has(u, n)
      BY <1>9 DEF Has
    <3>. QED
      BY <1>3, <1>8, <2>1, <3>1 DEF SoundInv, Threads
  <2>. QED
    BY <2>3, <2>4, <2>5 DEF SoundInv
<1>. QED
  BY <1>6, <1>8, <1>10, <1>11, <1>13, <1>14 DEF IInv

\* The synthetic thread is started.
LEMMA StartThreadKeeps ==
  ASSUME IInv, NEW t \in Threads, StartThread(t)
  PROVE  IInv'
<1>1. Types /\ ShapeInv /\ PacedInv
  BY DEF IInv
<1>2. /\ At(t, "start thread") /\ Busy(t) /\ Go(t, <<>>) /\ StartSyntheticThreadLocked
      /\ UNCHANGED <<mode, requested, samples, live, playing, engine, overlap, stray>>
  BY DEF StartThread, At
<1>3. UNCHANGED <<pc, sender, sending, source, kind, active>>
  BY <1>2 DEF engine
<1>4. LeadsToNoRead("start thread") /\ IsSwitch("start thread") /\ "start thread" \in PlainNames
  BY DEF LeadsToNoRead, IsSwitch, SoundNames, PlainNames, AllNames, UiNames, InputNames
<1>5. /\ FrontAt(t, "start thread") /\ ShapeInv' /\ Others(t) /\ Calmed(t)
      /\ \A n, x : In(todo'[t], n, x) <=> Later(todo[t], n, x)
  BY <1>1, <1>2, <1>4, Pop
<1>6. Adds(t, HandleNames)
  BY <1>5 DEF Adds
<1>7. /\ NoMoreBusy /\ Taking' \subseteq Taking
      /\ \A n : n # "start thread" => Kept(n)
      /\ ~overlap' => HandleInv /\ ConnectionInv' /\ DecoderInv'
      /\ ~overlap' /\ ~stray' => SoundInv /\ ModeInv'
  BY <1>2, <1>4, <1>5, <1>6, SwitchKeeps
<1>8. \A u \in Threads : \A n, x : In(todo'[u], n, x) => In(todo[u], n, x)
  BY <1>5 DEF FrontAt, Others
<1>9. /\ running' \in BOOLEAN /\ stop' \in BOOLEAN /\ joinable' \in BOOLEAN
      /\ alive' \in BOOLEAN /\ broken' \in BOOLEAN
  BY <1>1, <1>2 DEF StartSyntheticThreadLocked, Types, thread
<1>10. Types'
  <2>1. todo' \in [Threads -> Seq(Steps)]
    BY <1>5 DEF Others
  <2>. QED
    BY <1>1, <1>2, <1>3, <1>9, <2>1 DEF Types
<1>11. PacedInv'
  <2>1. samples' = samples /\ playing' = playing
    BY <1>2
  <2>2. samples \in Nat
    BY <1>1 DEF Types
  <2>3. samples' \in Nat /\ samples' <= samples
    BY <2>1, <2>2
  <2>. QED
    BY <1>1, <1>5, <2>1, <2>3, PacedCalm
<1>12. \A n \in {"join thread", "thread stopped", "stop thread", "stop microphone"} : Kept(n)
  BY <1>7
<1>13. ASSUME ~overlap' PROVE HandleInv'
  <2>1. HandleInv
    BY <1>7, <1>13
  <2>2. Single' /\ (Busy("ui")' => pc' /\ sender')
    BY <1>3, <1>7, <2>1, BusyKept
  <2>3. \A u \in Control : \A n \in HandleNames : Has(u, n)' <=> Has(u, n)
    BY <1>8, <1>12 DEF Has, HandleNames, Kept, Threads
  <2>4. CASE running
    <3>1. SameIn(HandleNames)
      BY <1>8, <1>12 DEF SameIn, HandleNames, Kept, Threads
    <3>2. UNCHANGED <<thread, broken>>
      BY <1>2, <2>4 DEF StartSyntheticThreadLocked
    <3>. QED
      BY <2>1, <2>2, <3>1, <3>2, HandleKept
  <2>5. CASE ~running
    <3>1. running' = TRUE /\ joinable' = TRUE /\ alive' = TRUE /\ broken' = (broken \/ joinable)
      BY <1>2, <2>5 DEF StartSyntheticThreadLocked
    <3>2. /\ ~joinable /\ ~broken
          /\ \A u \in Control : ~Has(u, "join thread") /\ ~Has(u, "thread stopped")
      BY <2>1, <2>5 DEF HandleInv
    <3>3. ~broken'
      BY <3>1, <3>2
    <3>4. \A u \in Control : ~Has(u, "join thread")' /\ ~Has(u, "thread stopped")'
      BY <2>3, <3>2 DEF HandleNames
    <3>. QED
      BY <2>2, <3>1, <3>3, <3>4 DEF HandleInv
  <2>. QED
    BY <2>4, <2>5
<1>14. ASSUME ~overlap', ~stray' PROVE SoundInv'
  <2>1. SoundInv
    BY <1>7, <1>14
  <2>2. requested /\ mode = "synthetic"
    BY <1>4, <1>5, <2>1, FrontIn DEF SoundInv
  <2>3. live' => \/ requested' /\ mode' = "microphone"
                 \/ \E u \in Threads : Has(u, "stop microphone")'
    <3>1. \A u \in Threads : Has(u, "stop microphone") => Has(u, "stop microphone")'
      BY <1>12 DEF Kept, Has
    <3>. QED
      BY <1>2, <2>1, <3>1 DEF SoundInv
  <2>4. requested' /\ mode' = "synthetic"
    BY <1>2, <2>2
  <2>5. \A u \in Control : ~Has(u, "start microphone")'
    BY <1>8, <2>1, <2>2 DEF SoundInv, Has, Threads
  <2>. QED
    BY <2>3, <2>4, <2>5 DEF SoundInv
<1>. QED
  BY <1>5, <1>7, <1>10, <1>11, <1>13, <1>14 DEF IInv

\* The synthetic thread is told to stop.
LEMMA StopThreadKeeps ==
  ASSUME IInv, NEW t \in Threads, StopThread(t)
  PROVE  IInv'
<1>1. Types /\ ShapeInv /\ PacedInv
  BY DEF IInv
<1>2. /\ At(t, "stop thread") /\ Busy(t) /\ stop' \in {stop, TRUE}
      /\ UNCHANGED <<mode, requested, samples, running, joinable, alive, live,
                     playing, engine, history>>
  BY DEF StopThread, At
<1>3. UNCHANGED <<pc, sender, sending, source, kind, active, overlap, stray, broken>>
  BY <1>2 DEF engine, history
<1>4. IsSwitch("stop thread")
  BY DEF IsSwitch, SoundNames
<1>5. /\ t \in Control /\ FrontAt(t, "stop thread")
      /\ ShapeInv' /\ Others(t) /\ Calmed(t)
      /\ \A n, x : In(todo'[t], n, x) <=>
            \/ (running \/ joinable) /\ n \in {"join thread", "thread stopped"} /\ x = "none"
            \/ Later(todo[t], n, x)
  BY <1>1, StopThreadMoves
<1>6. Adds(t, HandleNames)
  BY <1>5 DEF Adds, HandleNames
<1>7. /\ NoMoreBusy /\ Taking' \subseteq Taking
      /\ \A n : n # "stop thread" => Kept(n)
      /\ \A u \in Threads : \A n, x : In(todo'[u], n, x) => n \in HandleNames \/ In(todo[u], n, x)
      /\ ~overlap' => HandleInv /\ ConnectionInv' /\ DecoderInv'
      /\ ~overlap' /\ ~stray' => SoundInv /\ ModeInv'
  BY <1>2, <1>3, <1>4, <1>5, <1>6, SwitchKeeps
<1>10. Types'
  <2>1. todo' \in [Threads -> Seq(Steps)]
    BY <1>5 DEF Others
  <2>2. stop' \in BOOLEAN
    BY <1>1, <1>2 DEF Types
  <2>3. UNCHANGED <<mode, requested, samples, running, joinable, alive, live, playing>>
    BY <1>2
  <2>. QED
    BY <1>1, <1>3, <2>1, <2>2, <2>3 DEF Types
<1>11. PacedInv'
  <2>1. samples' = samples /\ playing' = playing
    BY <1>2
  <2>2. samples \in Nat
    BY <1>1 DEF Types
  <2>3. samples' \in Nat /\ samples' <= samples
    BY <2>1, <2>2
  <2>. QED
    BY <1>1, <1>5, <2>1, <2>3, PacedCalm
<1>12. Kept("join thread") /\ Kept("thread stopped") /\ Kept("stop microphone")
  BY <1>7
<1>13. ASSUME ~overlap' PROVE HandleInv'
  <2>1. HandleInv
    BY <1>7, <1>13
  <2>2. Single' /\ (Busy("ui")' => pc' /\ sender')
    BY <1>3, <1>7, <2>1, BusyKept
  <2>3. \A u \in Control : u # t => \A n : ~Has(u, n)'
    BY <1>1, <1>2, <1>5, <2>1, Alone DEF Has, Others, Threads
  <2>4. Has(t, "join thread")' \/ Has(t, "thread stopped")' => running'
    <3>1. joinable => running
      BY <2>1 DEF HandleInv
    <3>2. ~Later(todo[t], "join thread", "none") /\ ~Later(todo[t], "thread stopped", "none")
      BY <1>5 DEF FrontAt, FrontNames
    <3>3. Has(t, "join thread")' \/ Has(t, "thread stopped")' => running \/ joinable
      BY <1>5, <3>2 DEF Has
    <3>. QED
      BY <1>2, <3>1, <3>3
  <2>5. Has(t, "thread stopped")' => Has(t, "join thread")'
    <3>1. ~Later(todo[t], "thread stopped", "none")
      BY <1>5 DEF FrontAt
    <3>. QED
      BY <1>5, <3>1 DEF Has
  <2>6. (joinable' => running') /\ (alive' => joinable') /\ ~broken'
    BY <1>2, <1>3, <2>1 DEF HandleInv
  <2>. QED
    BY <2>2, <2>3, <2>4, <2>5, <2>6 DEF HandleInv
<1>14. ASSUME ~overlap', ~stray' PROVE SoundInv'
  <2>1. SoundInv
    BY <1>7, <1>14
  <2>3. live' => \/ requested' /\ mode' = "microphone"
                 \/ \E u \in Threads : Has(u, "stop microphone")'
    <3>1. \A u \in Threads : Has(u, "stop microphone") => Has(u, "stop microphone")'
      BY <1>12 DEF Kept, Has
    <3>. QED
      BY <1>2, <2>1, <3>1 DEF SoundInv
  <2>4. running' => Has(t, "join thread")'
    BY <1>2, <1>5 DEF Has
  <2>5. \A u \in Threads : \A n \in {"start microphone", "start thread"} : Has(u, n)' => Has(u, n)
    BY <1>7 DEF Has, HandleNames
  <2>6. /\ \A u \in Control : Has(u, "start microphone")' =>
              requested' /\ mode' = "microphone" /\ Taking' = {}
        /\ \A u \in Threads : Has(u, "start thread")' => requested' /\ mode' = "synthetic"
    BY <1>2, <1>7, <2>1, <2>5 DEF SoundInv, Threads
  <2>. QED
    BY <1>5, <2>3, <2>4, <2>6 DEF SoundInv
<1>. QED
  BY <1>5, <1>7, <1>10, <1>11, <1>13, <1>14 DEF IInv

\* The synthetic thread is joined.
LEMMA JoinThreadKeeps ==
  ASSUME IInv, NEW t \in Threads, JoinThread(t)
  PROVE  IInv'
<1>1. Types /\ ShapeInv /\ PacedInv
  BY DEF IInv
<1>2. /\ At(t, "join thread") /\ Busy(t) /\ Go(t, <<>>)
      /\ joinable => ~alive
      /\ joinable' = FALSE
      /\ broken' = (broken \/ (joinable /\ \E u \in Threads \ {t} : At(u, "join thread")))
  BY DEF JoinThread, At
<1>20. UNCHANGED <<mode, requested, samples, running, stop, alive, live,
                   playing, engine, overlap, stray>>
  BY DEF JoinThread
<1>3. UNCHANGED <<pc, sender, sending, source, kind, active>>
  BY <1>20 DEF engine
<1>4. /\ LeadsToNoRead("join thread") /\ IsSwitch("join thread")
      /\ "join thread" \notin FileNames
  BY DEF LeadsToNoRead, IsSwitch, SoundNames, FileNames
<1>5. /\ FrontAt(t, "join thread") /\ ShapeInv' /\ Others(t) /\ Calmed(t)
      /\ \A n, x : In(todo'[t], n, x) <=> Later(todo[t], n, x)
  BY <1>1, <1>2, <1>4, Pop
<1>50. t \in Control
  BY <1>4, <1>5, ControlIs DEF FrontAt
<1>6. Adds(t, HandleNames)
  BY <1>5 DEF Adds
<1>7. /\ NoMoreBusy /\ Taking' \subseteq Taking
      /\ \A n : n # "join thread" => Kept(n)
      /\ ~overlap' => HandleInv /\ ConnectionInv' /\ DecoderInv'
      /\ ~overlap' /\ ~stray' => SoundInv /\ ModeInv'
  BY <1>2, <1>20, <1>4, <1>5, <1>6, SwitchKeeps
<1>8. \A u \in Threads : \A n, x : In(todo'[u], n, x) => In(todo[u], n, x)
  BY <1>5 DEF FrontAt, Others
<1>10. Types'
  <2>1. todo' \in [Threads -> Seq(Steps)]
    BY <1>5 DEF Others
  <2>2. broken' \in BOOLEAN /\ joinable' \in BOOLEAN
    BY <1>2
  <2>. QED
    BY <1>1, <1>20, <1>3, <2>1, <2>2 DEF Types
<1>11. PacedInv'
  <2>1. samples' = samples /\ playing' = playing
    BY <1>20
  <2>2. samples \in Nat
    BY <1>1 DEF Types
  <2>3. samples' \in Nat /\ samples' <= samples
    BY <2>1, <2>2
  <2>. QED
    BY <1>1, <1>5, <2>1, <2>3, PacedCalm
<1>12. Kept("stop thread") /\ Kept("thread stopped") /\ Kept("stop microphone")
  BY <1>7
<1>13. ASSUME ~overlap' PROVE HandleInv'
  <2>1. HandleInv
    BY <1>7, <1>13
  <2>2. Single' /\ (Busy("ui")' => pc' /\ sender')
    BY <1>3, <1>7, <2>1, BusyKept
  <2>3. \A u \in Threads : At(u, "join thread") => u = t
    <3>1. SUFFICES ASSUME NEW u \in Threads, At(u, "join thread"), u # t
                   PROVE  FALSE
      OBVIOUS
    <3>2. FrontAt(u, "join thread") /\ Busy(u)
      BY <1>1, <3>1, FrontIs
    <3>3. u \in Control
      BY <1>4, <3>2, ControlIs DEF FrontAt
    <3>. QED
      BY <1>1, <1>2, <1>50, <2>1, <3>1, <3>2, <3>3, Alone
  <2>4. ~broken'
    <3>1. ~broken
      BY <2>1 DEF HandleInv
    <3>. QED
      BY <1>2, <2>3, <3>1
  <2>5. ~alive'
    <3>1. alive => joinable
      BY <2>1 DEF HandleInv
    <3>. QED
      BY <1>2, <1>20, <3>1
  <2>6. \A u \in Control : Has(u, "join thread")' \/ Has(u, "thread stopped")' => running'
    <3>1. \A u \in Control : \A n : Has(u, n)' => Has(u, n)
      BY <1>8 DEF Has, Threads
    <3>2. \A u \in Control : Has(u, "join thread") \/ Has(u, "thread stopped") => running
      BY <2>1 DEF HandleInv
    <3>. QED
      BY <1>20, <3>1, <3>2
  <2>. QED
    BY <1>2, <2>2, <2>4, <2>5, <2>6 DEF HandleInv
<1>14. ASSUME ~overlap', ~stray' PROVE SoundInv'
  <2>1. SoundInv
    BY <1>7, <1>14
  <2>2. live' => \/ requested' /\ mode' = "microphone"
                 \/ \E u \in Threads : Has(u, "stop microphone")'
    <3>1. \A u \in Threads : Has(u, "stop microphone") => Has(u, "stop microphone")'
      BY <1>12 DEF Kept, Has
    <3>. QED
      BY <1>20, <2>1, <3>1 DEF SoundInv
  <2>3. Has(t, "thread stopped")'
    BY <1>5 DEF FrontAt, Has
  <2>4. \A u \in Threads : \A n : Has(u, n)' => Has(u, n)
    BY <1>8 DEF Has
  <2>5. /\ \A u \in Control : Has(u, "start microphone")' =>
              requested' /\ mode' = "microphone" /\ Taking' = {}
        /\ \A u \in Threads : Has(u, "start thread")' => requested' /\ mode' = "synthetic"
    BY <1>20, <1>7, <2>1, <2>4 DEF SoundInv, Threads
  <2>. QED
    BY <1>50, <2>2, <2>3, <2>5 DEF SoundInv
<1>. QED
  BY <1>5, <1>7, <1>10, <1>11, <1>13, <1>14 DEF IInv

\* The synthetic thread is noted as stopped.
LEMMA ThreadStoppedKeeps ==
  ASSUME IInv, NEW t \in Threads, ThreadStopped(t)
  PROVE  IInv'
<1>1. Types /\ ShapeInv /\ PacedInv
  BY DEF IInv
<1>2. /\ At(t, "thread stopped") /\ Busy(t) /\ Go(t, <<>>)
      /\ running' = FALSE /\ stop' = FALSE
  BY DEF ThreadStopped, At
<1>20. UNCHANGED <<mode, requested, samples, joinable, alive, live, playing, engine, history>>
  BY DEF ThreadStopped
<1>3. UNCHANGED <<pc, sender, sending, source, kind, active, overlap, stray, broken>>
  BY <1>20 DEF engine, history
<1>4. /\ LeadsToNoRead("thread stopped") /\ IsSwitch("thread stopped")
      /\ "thread stopped" \notin FileNames /\ "thread stopped" \in PlainNames
  BY DEF LeadsToNoRead, IsSwitch, SoundNames, FileNames, PlainNames, AllNames, UiNames, InputNames
<1>5. /\ FrontAt(t, "thread stopped") /\ ShapeInv' /\ Others(t) /\ Calmed(t)
      /\ \A n, x : In(todo'[t], n, x) <=> Later(todo[t], n, x)
  BY <1>1, <1>2, <1>4, Pop
<1>50. t \in Control
  BY <1>4, <1>5, ControlIs DEF FrontAt
<1>6. Adds(t, HandleNames)
  BY <1>5 DEF Adds
<1>7. /\ NoMoreBusy /\ Taking' \subseteq Taking
      /\ \A n : n # "thread stopped" => Kept(n)
      /\ ~overlap' => HandleInv /\ ConnectionInv' /\ DecoderInv'
      /\ ~overlap' /\ ~stray' => SoundInv /\ ModeInv'
  BY <1>2, <1>20, <1>3, <1>4, <1>5, <1>6, SwitchKeeps
<1>8. \A u \in Threads : \A n, x : In(todo'[u], n, x) => In(todo[u], n, x)
  BY <1>5 DEF FrontAt, Others
<1>10. Types'
  <2>1. todo' \in [Threads -> Seq(Steps)]
    BY <1>5 DEF Others
  <2>2. running' \in BOOLEAN /\ stop' \in BOOLEAN
    BY <1>2
  <2>. QED
    BY <1>1, <1>20, <1>3, <2>1, <2>2 DEF Types
<1>11. PacedInv'
  <2>1. samples' = samples /\ playing' = playing
    BY <1>20
  <2>2. samples \in Nat
    BY <1>1 DEF Types
  <2>3. samples' \in Nat /\ samples' <= samples
    BY <2>1, <2>2
  <2>. QED
    BY <1>1, <1>5, <2>1, <2>3, PacedCalm
<1>12. Kept("stop microphone")
  BY <1>7
<1>13. ASSUME ~overlap' PROVE HandleInv'
  <2>1. HandleInv
    BY <1>7, <1>13
  <2>2. Single' /\ (Busy("ui")' => pc' /\ sender')
    BY <1>3, <1>7, <2>1, BusyKept
  <2>3. \A u \in Control : u # t => \A n : ~Has(u, n)'
    BY <1>1, <1>2, <1>5, <1>50, <2>1, Alone DEF Has, Others, Threads
  <2>4. ~Has(t, "join thread")' /\ ~Has(t, "thread stopped")'
    BY <1>5 DEF FrontAt, FrontNames, Has
  <2>5. ~joinable /\ ~alive /\ ~broken
    <3>1. Has(t, "thread stopped") /\ ~Has(t, "join thread")
      <4>1. Has(t, "thread stopped")
        BY <1>4, <1>5, FrontIn
      <4>. QED
        BY <1>5, <4>1 DEF FrontAt, FrontNames, Has
    <3>. QED
      BY <1>50, <2>1, <3>1 DEF HandleInv
  <2>6. ~joinable' /\ ~alive' /\ ~broken'
    BY <1>20, <1>3, <2>5
  <2>. QED
    BY <2>2, <2>3, <2>4, <2>6 DEF HandleInv
<1>14. ASSUME ~overlap', ~stray' PROVE SoundInv'
  <2>1. SoundInv
    BY <1>7, <1>14
  <2>2. live' => \/ requested' /\ mode' = "microphone"
                 \/ \E u \in Threads : Has(u, "stop microphone")'
    <3>1. \A u \in Threads : Has(u, "stop microphone") => Has(u, "stop microphone")'
      BY <1>12 DEF Kept, Has
    <3>. QED
      BY <1>20, <2>1, <3>1 DEF SoundInv
  <2>4. \A u \in Threads : \A n : Has(u, n)' => Has(u, n)
    BY <1>8 DEF Has
  <2>5. /\ \A u \in Control : Has(u, "start microphone")' =>
              requested' /\ mode' = "microphone" /\ Taking' = {}
        /\ \A u \in Threads : Has(u, "start thread")' => requested' /\ mode' = "synthetic"
    BY <1>20, <1>7, <2>1, <2>4 DEF SoundInv, Threads
  <2>. QED
    BY <1>2, <2>2, <2>5 DEF SoundInv
<1>. QED
  BY <1>5, <1>7, <1>10, <1>11, <1>13, <1>14 DEF IInv

\* Steps of the audio input's own thread and of WebRTC's.
LEMMA SyntheticLoopKeeps ==
  ASSUME IInv, SyntheticLoop
  PROVE  IInv'
<1>1. Types /\ ShapeInv /\ PacedInv
  BY DEF IInv
<1>2. /\ alive' \in BOOLEAN /\ (alive' => alive) /\ samples' \in Nat /\ samples' <= samples
  <2>1. samples \in Nat /\ alive \in BOOLEAN
    BY <1>1 DEF Types
  <2>2. \/ alive' = FALSE /\ samples' = samples
        \/ alive' = alive /\ samples > 0 /\ samples' = samples - 1
    BY DEF SyntheticLoop
  <2>3. samples' \in Nat /\ samples' <= samples
    <3>1. samples' = samples \/ (samples > 0 /\ samples' = samples - 1)
      BY <2>2
    <3>. QED
      BY <2>1, <3>1
  <2>4. alive' = FALSE \/ alive' = alive
    BY <2>2
  <2>5. alive \in BOOLEAN
    BY <1>1 DEF Types
  <2>6. alive' \in BOOLEAN
    BY <2>4, <2>5
  <2>7. alive' => alive
    BY <2>4
  <2>. QED
    BY <2>3, <2>6, <2>7
<1>3. UNCHANGED <<mode, requested, running, stop, joinable, live, playing, engine, todo, history>>
  BY DEF SyntheticLoop
<1>4. UNCHANGED <<pc, sender, sending, source, kind, active, overlap, stray, broken>>
  BY <1>3 DEF engine, history
<1>5. Types'
  BY <1>1, <1>2, <1>3, <1>4 DEF Types
<1>6. PacedInv'
  BY <1>1, <1>2, <1>3, PacedSame
<1>7. ShapeInv'
  BY <1>1, <1>3 DEF ShapeInv
<1>8. \A u, n : Has(u, n)' <=> Has(u, n)
  BY <1>3 DEF Has
<1>9. Taking' = Taking /\ \A u : Busy(u)' <=> Busy(u)
  BY <1>3 DEF Taking, At, Busy
<1>10. ASSUME ~overlap' PROVE HandleInv' /\ ConnectionInv' /\ DecoderInv'
  <2>1. HandleInv /\ ConnectionInv /\ DecoderInv
    BY <1>4, <1>10 DEF IInv
  <2>2. HandleInv'
    BY <1>2, <1>3, <1>4, <1>8, <1>9, <2>1 DEF HandleInv, Single
  <2>3. ConnectionInv' /\ DecoderInv'
    BY <1>3, <1>4, <2>1 DEF ConnectionInv, DecoderInv, Some, InSome, Has, Busy
  <2>. QED
    BY <2>2, <2>3
<1>11. ASSUME ~overlap', ~stray' PROVE SoundInv' /\ ModeInv'
  <2>1. SoundInv /\ ModeInv
    BY <1>4, <1>11 DEF IInv
  <2>. QED
    BY <1>3, <1>4, <1>8, <1>9, <2>1 DEF SoundInv, ModeInv, Natural
<1>. QED
  BY <1>5, <1>6, <1>7, <1>10, <1>11 DEF IInv

\* WebRTC starts recording.
LEMMA StartRecordingKeeps ==
  ASSUME IInv, StartRecording
  PROVE  IInv'
<1>1. Types /\ ShapeInv /\ PacedInv
  BY DEF IInv
<1>2. /\ sending /\ requested' = TRUE
      /\ \/ mode = "synthetic" /\ StartSyntheticThreadLocked /\ live' = live
         \/ mode = "microphone" /\ live' = TRUE /\ UNCHANGED <<thread, broken>>
  BY DEF StartRecording
<1>3. UNCHANGED <<mode, samples, playing, engine, todo, overlap, stray>>
  BY DEF StartRecording
<1>4. UNCHANGED <<pc, sender, sending, source, kind, active>>
  BY <1>3 DEF engine
<1>5. /\ running' \in BOOLEAN /\ stop' \in BOOLEAN /\ joinable' \in BOOLEAN
      /\ alive' \in BOOLEAN /\ broken' \in BOOLEAN /\ live' \in BOOLEAN
  BY <1>1, <1>2 DEF StartSyntheticThreadLocked, Types, thread
<1>6. Types'
  BY <1>1, <1>2, <1>3, <1>4, <1>5 DEF Types
<1>7. PacedInv'
  <2>1. samples' = samples /\ samples \in Nat
    BY <1>1, <1>3 DEF Types
  <2>2. samples' \in Nat /\ samples' <= samples
    BY <2>1
  <2>. QED
    BY <1>1, <1>3, <2>2, PacedSame
<1>8. ShapeInv'
  BY <1>1, <1>3 DEF ShapeInv
<1>9. \A u, n : Has(u, n)' <=> Has(u, n)
  BY <1>3 DEF Has
<1>10. Taking' = Taking /\ \A u : Busy(u)' <=> Busy(u)
  BY <1>3 DEF Taking, At, Busy
<1>11. ASSUME ~overlap' PROVE HandleInv' /\ ConnectionInv' /\ DecoderInv'
  <2>1. HandleInv /\ ConnectionInv /\ DecoderInv
    BY <1>3, <1>11 DEF IInv
  <2>2. HandleInv'
    <3>1. CASE UNCHANGED <<thread, broken>>
      <4>1. SameIn(HandleNames)
        BY <1>3 DEF SameIn
      <4>2. Single' /\ (Busy("ui")' => pc' /\ sender')
        BY <1>4, <1>10, <2>1 DEF HandleInv, Single
      <4>. QED
        BY <2>1, <3>1, <4>1, <4>2, HandleKept
    <3>2. CASE ~running /\ StartSyntheticThreadLocked
      <4>1. /\ running' = TRUE /\ joinable' = TRUE /\ alive' = TRUE
            /\ broken' = (broken \/ joinable)
        BY <3>2 DEF StartSyntheticThreadLocked
      <4>2. /\ ~joinable /\ ~broken
            /\ \A u \in Control : ~Has(u, "join thread") /\ ~Has(u, "thread stopped")
        BY <2>1, <3>2 DEF HandleInv
      <4>3. ~broken'
        BY <4>1, <4>2
      <4>4. Single' /\ (Busy("ui")' => pc' /\ sender')
        BY <1>4, <1>10, <2>1 DEF HandleInv, Single
      <4>5. \A u \in Control : ~Has(u, "join thread")' /\ ~Has(u, "thread stopped")'
        BY <1>9, <4>2
      <4>. QED
        BY <4>1, <4>3, <4>4, <4>5 DEF HandleInv
    <3>. QED
      BY <1>2, <3>1, <3>2 DEF StartSyntheticThreadLocked
  <2>3. ConnectionInv' /\ DecoderInv'
    <3>1. /\ SameIn(EngineNames) /\ NoMore("use microphone") /\ NoMore("use synthetic")
          /\ NoMoreBusy
      BY <1>3 DEF SameIn, NoMore, NoMoreBusy
    <3>2. requested' => requested \/ sending
      BY <1>2
    <3>. QED
      BY <1>3, <1>4, <2>1, <3>1, <3>2, EngineKept
  <2>. QED
    BY <2>2, <2>3
<1>12. ASSUME ~overlap', ~stray' PROVE SoundInv' /\ ModeInv'
  <2>1. SoundInv /\ ModeInv
    BY <1>3, <1>12 DEF IInv
  <2>2. ModeInv'
    BY <1>3, <1>4, <1>9, <1>10, <2>1 DEF ModeInv, Natural
  <2>3. live' => \/ requested' /\ mode' = "microphone"
                 \/ \E u \in Threads : Has(u, "stop microphone")'
    BY <1>2, <1>3, <1>9, <2>1 DEF SoundInv
  <2>4. running' => \/ requested' /\ mode' = "synthetic"
                    \/ \E u \in Control : \/ Has(u, "stop thread")'
                                          \/ Has(u, "join thread")'
                                          \/ Has(u, "thread stopped")'
    <3>1. CASE mode = "synthetic"
      BY <1>2, <1>3, <3>1
    <3>2. CASE mode = "microphone" /\ UNCHANGED thread
      <4>1. running' = running /\ mode # "synthetic"
        BY <3>2 DEF thread
      <4>. QED
        BY <1>9, <2>1, <4>1 DEF SoundInv
    <3>. QED
      BY <1>2, <3>1, <3>2
  <2>5. /\ \A u \in Control : Has(u, "start microphone")' =>
              requested' /\ mode' = "microphone" /\ Taking' = {}
        /\ \A u \in Threads : Has(u, "start thread")' => requested' /\ mode' = "synthetic"
    BY <1>2, <1>3, <1>9, <1>10, <2>1 DEF SoundInv
  <2>. QED
    BY <2>2, <2>3, <2>4, <2>5 DEF SoundInv
<1>. QED
  BY <1>6, <1>7, <1>8, <1>11, <1>12 DEF IInv

\* The audio input is taken over for a file.
LEMMA UseSyntheticKeeps ==
  ASSUME IInv, NEW t \in Threads, UseSyntheticPcm(t)
  PROVE  IInv'
<1>1. Types /\ ShapeInv /\ PacedInv
  BY DEF IInv
<1>2. /\ FrontAt(t, "use synthetic") /\ ShapeInv' /\ Others(t) /\ Calmed(t)
      /\ \A n, x : In(todo'[t], n, x) <=>
            \/ n = "stop microphone" /\ x = "none"
            \/ requested /\ n = "start thread" /\ x = "none"
            \/ Later(todo[t], n, x)
  BY <1>1, UseSyntheticMoves
<1>3. Busy(t) /\ mode' = "synthetic"
  BY DEF UseSyntheticPcm, At
<1>30. UNCHANGED <<requested, samples, thread, live, playing, engine, history>>
  BY DEF UseSyntheticPcm
<1>4. UNCHANGED <<running, stop, joinable, alive, pc, sender, sending, source, kind, active,
                  overlap, stray, broken>>
  BY <1>30 DEF thread, engine, history
<1>5. Types'
  <2>1. todo' \in [Threads -> Seq(Steps)]
    BY <1>2 DEF Others
  <2>2. mode' \in {"microphone", "synthetic"}
    BY <1>3
  <2>. QED
    BY <1>1, <1>30, <1>4, <2>1, <2>2 DEF Types
<1>6. PacedInv'
  <2>1. samples' = samples /\ playing' = playing
    BY <1>30
  <2>2. samples \in Nat
    BY <1>1 DEF Types
  <2>3. samples' \in Nat /\ samples' <= samples
    BY <2>1, <2>2
  <2>. QED
    BY <1>1, <1>2, <2>1, <2>3, PacedCalm
<1>7. SameIn(EngineNames) /\ NoMore("use microphone") /\ NoMore("use synthetic") /\ NoMoreBusy
  <2>1. IsSound("use synthetic")
    BY DEF IsSound, EngineNames
  <2>2. Adds(t, CalledSounds)
    BY <1>2 DEF Adds, CalledSounds, SoundNames
  <2>. QED
    BY <1>2, <1>3, <2>1, <2>2, SoundStep, OthersBusy
<1>70. Has(t, "use synthetic")
  <2>1. "use synthetic" \in PlainNames
    BY DEF PlainNames, AllNames, UiNames, InputNames
  <2>. QED
    BY <1>2, <2>1, FrontIn
<1>71. /\ ~Later(todo[t], "stop microphone", "none") /\ ~Later(todo[t], "stop thread", "none")
       /\ ~Later(todo[t], "join thread", "none") /\ ~Later(todo[t], "thread stopped", "none")
       /\ ~Later(todo[t], "start microphone", "none")
  BY <1>2 DEF FrontAt, FrontNames
<1>72. t # "timer"
  BY <1>2, NotTimer
<1>8. ASSUME ~overlap' PROVE HandleInv' /\ ConnectionInv' /\ DecoderInv'
  <2>1. HandleInv /\ ConnectionInv /\ DecoderInv
    BY <1>4, <1>8 DEF IInv
  <2>2. ConnectionInv' /\ DecoderInv'
    BY <1>30, <1>4, <1>7, <2>1, EngineKept
  <2>3. SameIn(HandleNames)
    <3>1. \A n \in HandleNames : \A x : ~Later(todo[t], n, x)
      <4>1. \A x : ~Later(todo[t], "join thread", x) /\ ~Later(todo[t], "thread stopped", x)
        BY <1>2 DEF FrontAt, FrontNames
      <4>. QED
        BY <4>1 DEF HandleNames
    <3>2. \A n \in HandleNames : n \notin {"use synthetic", "stop microphone", "start thread"}
      BY DEF HandleNames
    <3>3. \A n \in HandleNames : \A x : ~In(todo[t], n, x) /\ ~In(todo'[t], n, x)
      BY <1>2, <3>1, <3>2 DEF FrontAt
    <3>. QED
      BY <1>2, <3>3 DEF SameIn, Others, Threads
  <2>4. HandleInv'
    BY <1>30, <1>4, <1>7, <2>1, <2>3, BusyKept, HandleKept
  <2>. QED
    BY <2>2, <2>4
<1>9. ASSUME ~overlap', ~stray' PROVE SoundInv' /\ ModeInv'
  <2>1. HandleInv /\ ConnectionInv /\ DecoderInv /\ SoundInv /\ ModeInv
    BY <1>4, <1>9 DEF IInv
  <2>2. t \in Files => t \in Taking
    BY <1>1, <1>70, TakingIs DEF Takes, Has
  <2>3. t \in Control => \A u \in Control : u # t => \A n, x : ~In(todo[u], n, x)
    BY <1>1, <1>3, <2>1, Alone
  <2>4. SoundInv'
    <3>1. Has(t, "stop microphone")'
      BY <1>2 DEF Has
    <3>2. running' => \/ requested' /\ mode' = "synthetic"
                      \/ \E u \in Control : \/ Has(u, "stop thread")'
                                            \/ Has(u, "join thread")'
                                            \/ Has(u, "thread stopped")'
      <4>1. \A u \in Control : \A n \in {"stop thread", "join thread", "thread stopped"} :
               Has(u, n) => Has(u, n)'
        BY <1>2, <1>71 DEF FrontAt, Has, Others, Threads
      <4>. QED
        BY <1>3, <1>30, <1>4, <2>1, <4>1 DEF SoundInv
    <3>3. \A u \in Control : ~Has(u, "start microphone")'
      <4>1. ASSUME NEW u \in Control, Has(u, "start microphone")' PROVE FALSE
        <5>1. u # t
          BY <1>2, <1>71, <4>1 DEF Has
        <5>2. Has(u, "start microphone")
          BY <1>2, <4>1, <5>1 DEF Has, Others, Threads
        <5>3. Taking = {}
          BY <2>1, <5>2 DEF SoundInv
        <5>4. t \in Control
          BY <2>2, <5>3 DEF Threads
        <5>. QED
          BY <2>3, <5>1, <5>2, <5>4 DEF Has
      <4>. QED
        BY <4>1
    <3>4. \A u \in Threads : Has(u, "start thread")' => requested' /\ mode' = "synthetic"
      <4>1. \A u \in Threads : Has(u, "start thread")' => requested
        <5>1. ~Later(todo[t], "start thread", "none")
          BY <1>2 DEF FrontAt
        <5>2. Has(t, "start thread")' => requested
          BY <1>2, <5>1 DEF Has
        <5>3. \A u \in Threads : u # t => (Has(u, "start thread")' => Has(u, "start thread"))
          BY <1>2 DEF Has, Others
        <5>. QED
          BY <2>1, <5>2, <5>3 DEF SoundInv
      <4>. QED
        BY <1>3, <1>30, <4>1
    <3>. QED
      BY <3>1, <3>2, <3>3, <3>4 DEF SoundInv
  <2>5. ModeInv'
    <3>1. /\ "io" \in Control /\ "ui" \in Control
      BY DEF Control
    <3>2. \A x : /\ In(todo'["ui"], "swap", x) <=> In(todo["ui"], "swap", x)
                 /\ In(todo'["ui"], "set track", x) <=> In(todo["ui"], "set track", x)
                 /\ In(todo'["io"], "create", x) <=> In(todo["io"], "create", x)
      BY <1>7, <3>1 DEF SameIn, EngineNames
    <3>3. /\ Has("ui", "use microphone") => Has("ui", "use microphone")'
          /\ Has("io", "use microphone") => Has("io", "use microphone")'
      BY <1>2 DEF FrontAt, Has, Others, Threads, Control
    <3>4. source' = "camera" =>
             \E f \in Files : In(todo'["ui"], "set track", f) \/ In(todo'["ui"], "swap", f)
      <4>1. ASSUME source = "camera"
            PROVE  \E f \in Files : In(todo["ui"], "set track", f) \/ In(todo["ui"], "swap", f)
        <5>1. CASE t \in Files
          BY <2>1, <2>2, <4>1, <5>1 DEF ModeInv, Natural
        <5>2. CASE t = "ui"
          BY <1>70, <2>1, <5>2 DEF ConnectionInv
        <5>3. CASE t = "io"
          <6>1. source = "none"
            BY <1>70, <2>1, <5>3 DEF ConnectionInv, Kinds
          <6>. QED
            BY <4>1, <6>1
        <5>. QED
          BY <1>72, <5>1, <5>2, <5>3 DEF Threads, Control
      <4>. QED
        BY <1>4, <3>2, <4>1
    <3>5. In(todo'["ui"], "swap", "camera") => Has("ui", "use microphone")'
      <4>1. ASSUME In(todo["ui"], "swap", "camera") PROVE Has("ui", "use microphone")
        <5>1. CASE t \in Files
          BY <2>1, <2>2, <4>1, <5>1 DEF ModeInv, Natural
        <5>2. CASE t = "ui"
          <6>1. PICK f \in Files : In(todo["ui"], "swap", f)
            BY <1>70, <2>1, <5>2 DEF ConnectionInv
          <6>2. In(todo'["ui"], "swap", f) /\ In(todo'["ui"], "swap", "camera")
            BY <3>2, <4>1, <6>1
          <6>. QED
            BY <1>2, <6>2, OneSwap, NamesAssumption DEF Others
        <5>3. CASE t = "io"
          BY <2>3, <3>1, <4>1, <5>3
        <5>. QED
          BY <1>72, <5>1, <5>2, <5>3 DEF Threads, Control
      <4>. QED
        BY <3>2, <3>3, <4>1
    <3>6. In(todo'["io"], "create", "camera") => Has("io", "use microphone")'
      <4>1. ASSUME In(todo["io"], "create", "camera") PROVE Has("io", "use microphone")
        <5>1. CASE t \in Files
          BY <2>1, <2>2, <4>1, <5>1 DEF ModeInv, Natural
        <5>2. CASE t = "ui"
          BY <2>3, <3>1, <4>1, <5>2
        <5>3. CASE t = "io"
          <6>1. In(todo["io"], "create", "file")
            BY <1>70, <2>1, <5>3 DEF ConnectionInv
          <6>2. "io" \in Threads /\ "create" \in LastNames
            BY DEF Threads, Control, LastNames
          <6>3. todo["io"] \in Seq(Steps) /\ Shape(todo["io"])
            BY <1>1, <6>2 DEF Types, ShapeInv
          <6>4. "camera" = "file"
            BY <4>1, <6>1, <6>2, <6>3, LastIs
          <6>. QED
            BY <6>4
        <5>. QED
          BY <1>72, <5>1, <5>2, <5>3 DEF Threads, Control
      <4>. QED
        BY <3>2, <3>3, <4>1
    <3>. QED
      BY <1>3, <3>4, <3>5, <3>6 DEF ModeInv
  <2>. QED
    BY <2>4, <2>5
<1>. QED
  BY <1>2, <1>5, <1>6, <1>8, <1>9 DEF IInv

\* The connection stops recording, which is when no decoder is left.
LEMMA StopRecordingKeeps ==
  ASSUME IInv, NEW t \in Threads, StopRecording(t)
  PROVE  IInv'
<1>1. Types /\ ShapeInv /\ PacedInv
  BY DEF IInv
<1>2. /\ t \in Closers /\ FrontAt(t, "stop recording")
      /\ ShapeInv' /\ Others(t) /\ Calmed(t)
      /\ \A n, x : In(todo'[t], n, x) <=>
            \/ mode = "synthetic" /\ n = "stop thread" /\ x = "none"
            \/ mode # "synthetic" /\ n = "stop microphone" /\ x = "none"
            \/ Later(todo[t], n, x)
  BY <1>1, StopRecordingMoves
<1>3. Busy(t) /\ requested' = FALSE
  BY DEF StopRecording, At
<1>30. UNCHANGED <<mode, samples, thread, live, playing, engine, history>>
  BY DEF StopRecording
<1>4. UNCHANGED <<running, stop, joinable, alive, pc, sender, sending, source, kind, active,
                  overlap, stray, broken>>
  BY <1>30 DEF thread, engine, history
<1>40. t \in Control /\ "ui" \in Control /\ "io" \in Control /\ "ui" # t
  BY <1>2 DEF Control, Closers
<1>5. Types'
  <2>1. todo' \in [Threads -> Seq(Steps)]
    BY <1>2 DEF Others
  <2>2. requested' \in BOOLEAN
    BY <1>3
  <2>. QED
    BY <1>1, <1>30, <1>4, <2>1, <2>2 DEF Types
<1>6. PacedInv'
  <2>1. samples' = samples /\ playing' = playing
    BY <1>30
  <2>2. samples \in Nat
    BY <1>1 DEF Types
  <2>3. samples' \in Nat /\ samples' <= samples
    BY <2>1, <2>2
  <2>. QED
    BY <1>1, <1>2, <2>1, <2>3, PacedCalm
<1>7. NoMoreBusy /\ Taking' = Taking /\ \A f \in Files : todo'[f] = todo[f]
  BY <1>1, <1>2, <1>3, <1>40, DecodersSame, OthersBusy
<1>70. \A n, x : In(todo[t], n, x) <=> (n = "stop recording" /\ x = "none") \/ Later(todo[t], n, x)
  <2>1. "stop recording" \in PlainNames
    BY DEF PlainNames, AllNames, IoNames
  <2>. QED
    BY <1>2, <2>1 DEF FrontAt
<1>71. \A n : n \notin {"stop recording", "stop thread", "stop microphone"} =>
          \A u \in Control : \A x : In(todo'[u], n, x) <=> In(todo[u], n, x)
  BY <1>2, <1>70 DEF Others, Threads
<1>72. \A u \in Threads : u # t => todo'[u] = todo[u]
  BY <1>2 DEF Others
<1>8. ASSUME ~overlap' PROVE HandleInv' /\ ConnectionInv' /\ DecoderInv'
  <2>1. HandleInv /\ ConnectionInv /\ DecoderInv
    BY <1>4, <1>8 DEF IInv
  <2>10. \A n : (Some(n) <=> Has(t, n)) /\ \A x : InSome(n, x) <=> In(todo[t], n, x)
    BY <1>1, <1>2, <1>3, <1>40, <2>1, Alone, SomeIs
  <2>11. \A n : (Some(n)' <=> Has(t, n)') /\ \A x : InSome(n, x)' <=> In(todo'[t], n, x)
    <3>1. \A u \in Control : u # t => \A n, x : ~In(todo'[u], n, x)
      BY <1>1, <1>3, <1>40, <1>72, <2>1, Alone DEF Threads
    <3>. QED
      BY <1>2, <3>1, SomeNext
  <2>2. SameIn(HandleNames)
    BY <1>71 DEF SameIn, HandleNames
  <2>3. HandleInv'
    BY <1>30, <1>4, <1>7, <2>1, <2>2, BusyKept, HandleKept
  <2>4. ConnectionInv'
    <3>0. /\ Has(t, "stop recording")
          /\ \A n : n \notin {"stop recording", "stop thread", "stop microphone"} =>
                \A x : In(todo'[t], n, x) <=> In(todo[t], n, x)
      BY <1>40, <1>70, <1>71 DEF Has
    <3>1. \A name \in Closing : Some(name)' => Some(name)
      BY <2>10, <2>11, <3>0 DEF Has, Closing
    <3>2. /\ Some("release")' <=> Some("release")
          /\ Some("remove senders")' <=> Some("remove senders")
          /\ Has("io", "use microphone")' <=> Has("io", "use microphone")
          /\ Has("io", "use synthetic")' <=> Has("io", "use synthetic")
          /\ \A x : /\ In(todo'["io"], "create", x) <=> In(todo["io"], "create", x)
                    /\ In(todo'["io"], "attach", x) <=> In(todo["io"], "attach", x)
      BY <1>40, <1>71, <2>10, <2>11, <3>0 DEF Has
    <3>3. todo'["ui"] = todo["ui"]
      BY <1>40, <1>72 DEF Threads
    <3>4. /\ \A name \in Closing : Some(name)' => Some("release")'
          /\ (source' # "none" \/ active' \/ sender') => pc' \/ Some("release")'
          /\ sender' => source' # "none"
      BY <1>4, <2>1, <3>1, <3>2 DEF ConnectionInv
    <3>5. /\ \A k \in Kinds : In(todo'["io"], "create", k) => pc' /\ ~sender' /\ source' = "none"
          /\ \A s \in Sources : In(todo'["io"], "attach", s) => pc' /\ source' = s
          /\ Has("io", "use microphone")' => In(todo'["io"], "create", "camera")
          /\ Has("io", "use synthetic")' => In(todo'["io"], "create", "file")
      BY <1>4, <2>1, <3>2 DEF ConnectionInv
    <3>6. /\ Has("ui", "use microphone")' => In(todo'["ui"], "swap", "camera")
          /\ Has("ui", "use synthetic")' => \E f \in Files : In(todo'["ui"], "swap", f)
      BY <2>1, <3>3 DEF ConnectionInv, Has
    <3>7. /\ sending' => pc' \/ Some("release")'
          /\ sending' /\ Some("release")' => Some("remove senders")'
      BY <1>4, <2>1, <3>2 DEF ConnectionInv
    <3>. QED
      BY <1>3, <3>4, <3>5, <3>6, <3>7 DEF ConnectionInv
  <2>5. DecoderInv'
    <3>1. \A u \in Control : \A n \in {"join decoder", "stop source", "set track", "swap",
                                       "release", "stop current"} : \A x :
             In(todo'[u], n, x) <=> In(todo[u], n, x)
      BY <1>71
    <3>2. \A f \in Files : Busy(f)' <=> Busy(f)
      BY <1>7 DEF Busy
    <3>. QED
      BY <1>30, <1>4, <1>40, <2>1, <2>10, <2>11, <3>1, <3>2 DEF DecoderInv, Has
  <2>. QED
    BY <2>3, <2>4, <2>5
<1>9. ASSUME ~overlap', ~stray' PROVE SoundInv' /\ ModeInv'
  <2>1. HandleInv /\ ConnectionInv /\ DecoderInv /\ SoundInv /\ ModeInv
    BY <1>4, <1>9 DEF IInv
  <2>2. \A u \in Control : u # t => \A n, x : ~In(todo[u], n, x)
    BY <1>1, <1>3, <1>40, <2>1, Alone
  <2>3. \A u \in Control : u # t => \A n, x : ~In(todo'[u], n, x)
    BY <1>72, <2>2 DEF Threads
  <2>30. \A n : (Some(n) <=> Has(t, n)) /\ \A x : InSome(n, x) <=> In(todo[t], n, x)
    BY <1>2, <2>2, SomeIs
  <2>4. \A f \in Files : ~Busy(f)
    <3>1. SUFFICES ASSUME NEW f \in Files, Busy(f) PROVE FALSE
      OBVIOUS
    <3>2. Some("release")
      <4>1. Some("stop recording")
        BY <1>70, <2>30 DEF Has
      <4>. QED
        BY <2>1, <4>1 DEF ConnectionInv, Closing
    <3>3. \/ Some("stop current")
          \/ InSome("stop source", f)
          \/ InSome("join decoder", f)
      BY <2>1, <3>1, <3>2 DEF DecoderInv
    <3>4. /\ \A x : ~Later(todo[t], "stop current", x)
          /\ \A x : ~Later(todo[t], "stop source", x)
          /\ \A x : ~Later(todo[t], "join decoder", x)
      BY <1>2 DEF FrontAt, FrontNames
    <3>. QED
      BY <1>70, <2>30, <3>3, <3>4 DEF Has
  <2>5. \A f \in Files : \A n, x : ~In(todo[f], n, x) /\ ~In(todo'[f], n, x)
    BY <1>1, <1>7, <2>4, IdleIs DEF Threads
  <2>6. /\ ~Later(todo[t], "stop microphone", "none") /\ ~Later(todo[t], "stop thread", "none")
        /\ ~Later(todo[t], "join thread", "none") /\ ~Later(todo[t], "thread stopped", "none")
        /\ ~Later(todo[t], "start microphone", "none") /\ ~Later(todo[t], "start thread", "none")
    BY <1>2 DEF FrontAt, FrontNames
  <2>7. SoundInv'
    <3>1. \A u \in Threads : /\ ~Has(u, "start microphone")' /\ ~Has(u, "start thread")'
                             /\ ~Has(u, "stop microphone") /\ ~Has(u, "stop thread")
                             /\ ~Has(u, "join thread") /\ ~Has(u, "thread stopped")
      BY <1>2, <1>70, <2>2, <2>3, <2>5, <2>6 DEF Has, Threads
    <3>2. live => mode = "microphone"
      BY <2>1, <3>1 DEF SoundInv
    <3>3. running => mode = "synthetic"
      BY <2>1, <3>1 DEF SoundInv, Threads
    <3>4. /\ mode = "synthetic" => Has(t, "stop thread")'
          /\ mode # "synthetic" => Has(t, "stop microphone")'
      BY <1>2 DEF Has
    <3>5. live' => \E u \in Threads : Has(u, "stop microphone")'
      BY <1>30, <3>2, <3>4
    <3>6. running' => \E u \in Control : Has(u, "stop thread")'
      BY <1>4, <1>40, <3>3, <3>4
    <3>. QED
      BY <3>1, <3>5, <3>6 DEF SoundInv, Threads
  <2>8. ModeInv'
    <3>1. Natural' <=> Natural
      BY <1>30, <1>7 DEF Natural
    <3>2. source \in Files => ~Has(source, "use synthetic")
      BY <2>5 DEF Has
    <3>3. In(todo'["io"], "create", "camera") => Natural' \/ Has("io", "use microphone")'
      BY <1>40, <1>71, <2>1, <3>1 DEF ModeInv, Has
    <3>30. \A n, x : ~In(todo["ui"], n, x) /\ ~In(todo'["ui"], n, x)
      BY <1>40, <2>2, <2>3
    <3>4. source' \in Files => mode' = "synthetic"
      BY <1>30, <1>4, <2>1, <3>2, <3>30 DEF ModeInv
    <3>5. source' = "camera" => Natural'
      BY <1>4, <2>1, <3>1, <3>30 DEF ModeInv
    <3>. QED
      BY <3>3, <3>30, <3>4, <3>5 DEF ModeInv
  <2>. QED
    BY <2>7, <2>8
<1>. QED
  BY <1>2, <1>5, <1>6, <1>8, <1>9 DEF IInv

\* Steps of a control thread that leave the audio input alone.
LEMMA EngineStepKeeps ==
  ASSUME IInv, NEW t \in Control, NEW name, FrontAt(t, name), IsEngine(name), Busy(t), Others(t),
         ShapeInv', Adds(t, CalledByEngine), UNCHANGED input,
         ~overlap' => ~overlap /\ broken' = broken, ~stray' => ~stray,
         t = "ui" => pc' = pc /\ sender' = sender
  PROVE  /\ NoMoreBusy /\ Taking' = Taking
         /\ \A f \in Files : todo'[f] = todo[f]
         /\ ~overlap' => HandleInv /\ HandleInv' /\ ConnectionInv /\ DecoderInv
         /\ ~overlap' /\ ~stray' => SoundInv' /\ ModeInv
         /\ ~overlap' => \A u \in Control : u # t =>
                            todo'[u] = todo[u] /\ \A n, x : ~In(todo[u], n, x)
<1>1. Types /\ ShapeInv /\ t \in Threads
  BY DEF IInv, Threads
<1>2. NoMoreBusy
  BY <1>1, OthersBusy
<1>3. Same(SoundNames) /\ SameIn(HandleNames)
  BY <1>1, EngineStep
<1>4. Taking' = Taking /\ \A f \in Files : todo'[f] = todo[f]
  BY <1>1, DecodersSame
<1>5. UNCHANGED <<mode, requested, live, running, thread>>
  BY DEF input, thread
<1>6. ASSUME ~overlap' PROVE HandleInv /\ HandleInv' /\ ConnectionInv /\ DecoderInv
  <2>1. HandleInv /\ ConnectionInv /\ DecoderInv
    BY <1>6 DEF IInv
  <2>2. Single' /\ (Busy("ui")' => pc' /\ sender')
    <3>1. CASE t = "ui"
      BY <1>2, <2>1, <3>1, BusyKept
    <3>2. CASE t # "ui"
      <4>1. ~Busy("ui")
        BY <1>1, <3>2, <2>1, Alone DEF Control
      <4>2. ~Busy("ui")'
        BY <1>2, <4>1 DEF NoMoreBusy, Busy, Threads, Control
      <4>3. \A u \in Control : Busy(u)' => Busy(u)
        BY <1>2 DEF NoMoreBusy, Busy, Threads
      <4>. QED
        BY <2>1, <4>2, <4>3 DEF HandleInv, Single
    <3>. QED
      BY <3>1, <3>2
  <2>. QED
    BY <1>3, <1>5, <1>6, <2>1, <2>2, HandleKept
<1>7. ASSUME ~overlap', ~stray' PROVE SoundInv' /\ ModeInv
  <2>1. SoundInv /\ ModeInv
    BY <1>7 DEF IInv
  <2>. QED
    BY <1>3, <1>4, <1>5, <2>1, SoundKept
<1>8. ASSUME ~overlap', NEW u \in Control, u # t
      PROVE  todo'[u] = todo[u] /\ \A n, x : ~In(todo[u], n, x)
  BY <1>1, <1>6, <1>8, Alone DEF Others, Threads
<1>. QED
  BY <1>2, <1>4, <1>6, <1>7, <1>8

\* The types, when the audio input is left alone.
LEMMA InputTypes ==
  ASSUME Types, UNCHANGED input, todo' \in [Threads -> Seq(Steps)],
         playing' \in [Files -> BOOLEAN],
         pc' \in BOOLEAN, sender' \in BOOLEAN, sending' \in BOOLEAN, active' \in BOOLEAN,
         source' \in Sources \cup {"none"}, kind' \in Kinds,
         overlap' \in BOOLEAN, stray' \in BOOLEAN, broken' \in BOOLEAN
  PROVE  Types'
<1>1. UNCHANGED <<mode, requested, samples, running, stop, joinable, alive, live>>
  BY DEF input, thread
<1>. QED
  BY <1>1 DEF Types

\* The buffer, when the audio input is left alone.
LEMMA InputPaced ==
  ASSUME Types, PacedInv, UNCHANGED input, NEW t \in Threads, Others(t), Calmed(t),
         \A f \in Files : playing'[f] => playing[f]
  PROVE  PacedInv'
<1>1. samples' = samples
  BY DEF input
<1>2. samples \in Nat
  BY DEF Types
<1>3. samples' \in Nat /\ samples' <= samples
  BY <1>1, <1>2
<1>. QED
  BY <1>3, PacedCalm

\* A source is stopped.
LEMMA StopSourceKeeps ==
  ASSUME IInv, NEW t \in Threads, StopSource(t)
  PROVE  IInv'
<1>1. Types /\ ShapeInv /\ PacedInv
  BY DEF IInv
<1>2. /\ t \in Control /\ FrontAt(t, "stop source")
      /\ ShapeInv' /\ Others(t) /\ Calmed(t)
      /\ \/ /\ Arg(t) \in Files /\ playing[Arg(t)]
            /\ playing' = [playing EXCEPT ![Arg(t)] = FALSE]
            /\ \A n, x : In(todo'[t], n, x) <=>
                  \/ n = "join decoder" /\ x = Arg(t)
                  \/ n = "clear" /\ x = "none"
                  \/ Later(todo[t], n, x)
         \/ /\ Arg(t) \in Files => ~playing[Arg(t)]
            /\ playing' = playing
            /\ \A n, x : In(todo'[t], n, x) <=> Later(todo[t], n, x)
  BY <1>1, StopSourceMoves
<1>3. Busy(t) /\ UNCHANGED <<input, engine, history>>
  BY DEF StopSource, At
<1>4. UNCHANGED <<pc, sender, sending, source, kind, active, overlap, stray, broken>>
  BY <1>3 DEF engine, history
<1>5. playing \in [Files -> BOOLEAN]
  BY <1>1 DEF Types
<1>6. playing' \in [Files -> BOOLEAN] /\ \A f \in Files : playing'[f] => playing[f]
  BY <1>2, <1>5
<1>7. Types'
  <2>1. todo' \in [Threads -> Seq(Steps)]
    BY <1>2 DEF Others
  <2>2. /\ pc' \in BOOLEAN /\ sender' \in BOOLEAN /\ sending' \in BOOLEAN /\ active' \in BOOLEAN
        /\ source' \in Sources \cup {"none"} /\ kind' \in Kinds
        /\ overlap' \in BOOLEAN /\ stray' \in BOOLEAN /\ broken' \in BOOLEAN
    BY <1>1, <1>4 DEF Types
  <2>. QED
    BY <1>1, <1>3, <1>6, <2>1, <2>2, InputTypes
<1>8. PacedInv'
  BY <1>1, <1>2, <1>3, <1>6, InputPaced
<1>9. /\ NoMoreBusy /\ Taking' = Taking
      /\ \A f \in Files : todo'[f] = todo[f]
      /\ ~overlap' => HandleInv /\ HandleInv' /\ ConnectionInv /\ DecoderInv
      /\ ~overlap' /\ ~stray' => SoundInv' /\ ModeInv
      /\ ~overlap' => \A u \in Control : u # t =>
                         todo'[u] = todo[u] /\ \A n, x : ~In(todo[u], n, x)
  <2>1. IsEngine("stop source")
    BY DEF IsEngine, SoundNames
  <2>2. Adds(t, CalledByEngine)
    BY <1>2 DEF Adds, CalledByEngine, EngineNames
  <2>. QED
    BY <1>2, <1>3, <1>4, <2>1, <2>2, EngineStepKeeps
<1>10. \A u \in Control : \A n : n \notin {"stop source", "join decoder", "clear"} =>
          \A x : In(todo'[u], n, x) <=> In(todo[u], n, x)
  <2>1. \A n : n \notin {"stop source", "join decoder", "clear"} =>
          \A x : In(todo'[t], n, x) <=> In(todo[t], n, x)
    BY <1>2 DEF FrontAt
  <2>. QED
    BY <1>2, <2>1 DEF Others, Threads
<1>11. ~overlap' => ConnectionInv'
  <2>1. SameIn(ConnectionNames)
    <3>1. \A n \in ConnectionNames : n \notin {"stop source", "join decoder", "clear"}
      BY DEF ConnectionNames
    <3>. QED
      BY <1>10, <3>1 DEF SameIn
  <2>2. /\ NoMore("stop current") /\ NoMore("close")
        /\ NoMore("use microphone") /\ NoMore("use synthetic")
    BY <1>10 DEF NoMore
  <2>3. requested' => requested
    BY <1>3 DEF input
  <2>. QED
    BY <1>4, <1>9, <2>1, <2>2, <2>3, ConnectionKept
<1>12. ~overlap' /\ ~stray' => ModeInv'
  <2>1. SameIn(ModeNames)
    <3>1. \A n \in ModeNames : n \notin {"stop source", "join decoder", "clear"}
      BY DEF ModeNames
    <3>. QED
      BY <1>10, <3>1 DEF SameIn
  <2>2. \A n : n \notin {"stop source", "join decoder", "clear"} => Kept(n)
    BY <1>9, <1>10 DEF Kept, Threads
  <2>3. mode' = mode
    BY <1>3 DEF input
  <2>. QED
    BY <1>4, <1>9, <2>1, <2>2, <2>3, ModeKept
<1>13. ASSUME ~overlap' PROVE DecoderInv'
  <2>1. HandleInv /\ ConnectionInv /\ DecoderInv
    BY <1>9, <1>13
  <2>2. \A u \in Control : u # t => \A n, x : ~In(todo[u], n, x) /\ ~In(todo'[u], n, x)
    BY <1>9, <1>13
  <2>. SUFFICES ASSUME NEW f \in Files
                PROVE  /\ Busy(f)' => \/ playing'[f]
                                      \/ \E u \in Control : In(todo'[u], "join decoder", f)
                       /\ playing'[f] =>
                             /\ \/ source' = f
                                \/ \E u \in Control : \/ In(todo'[u], "stop source", f)
                                                      \/ In(todo'[u], "set track", f)
                                                      \/ In(todo'[u], "swap", f)
                             /\ \A u \in Control : ~In(todo'[u], "join decoder", f)
                       /\ (Busy(f)' \/ playing'[f]) /\ Some("release")' =>
                             \/ Some("stop current")'
                             \/ InSome("stop source", f)'
                             \/ InSome("join decoder", f)'
    BY DEF DecoderInv
  <2>3. /\ Busy(f)' <=> Busy(f)
        /\ \A u \in Control : /\ In(todo'[u], "set track", f) <=> In(todo[u], "set track", f)
                              /\ In(todo'[u], "swap", f) <=> In(todo[u], "swap", f)
        /\ Some("release")' <=> Some("release")
        /\ Some("stop current")' <=> Some("stop current")
    <3>1. SameIn({"release", "stop current"})
      BY <1>10 DEF SameIn
    <3>2. \A n \in {"release", "stop current"} : Some(n)' <=> Some(n)
      BY <3>1, SomeSame
    <3>. QED
      BY <1>9, <1>10, <3>2 DEF Busy
  <2>4. \A x : ~Later(todo[t], "join decoder", x) /\ ~Later(todo[t], "stop source", x)
    BY <1>2 DEF FrontAt, FrontNames
  <2>5. \A x : /\ In(todo[t], "stop source", x) <=> x = Arg(t)
               /\ ~In(todo[t], "join decoder", x)
    BY <1>2, <2>4 DEF FrontAt
  <2>6. Busy(f) => playing[f]
    BY <2>1, <2>2, <2>5 DEF DecoderInv
  <2>7. playing[f] => \/ source = f
                      \/ f = Arg(t)
                      \/ \E u \in Control : In(todo[u], "set track", f) \/ In(todo[u], "swap", f)
    BY <2>1, <2>2, <2>5 DEF DecoderInv
  <2>8. playing[f] /\ Some("release") => Some("stop current") \/ (t \in Closers /\ f = Arg(t))
    BY <2>1, <2>2, <2>5 DEF DecoderInv, InSome, Control, Closers
  <2>9. CASE f = Arg(t) /\ playing[f]
    <3>1. ~playing'[f] /\ In(todo'[t], "join decoder", f)
      BY <1>2, <1>5, <2>9
    <3>. QED
      BY <1>2, <2>3, <2>6, <2>8, <3>1 DEF InSome
  <2>10. CASE ~(f = Arg(t) /\ playing[f])
    <3>1. /\ playing'[f] <=> playing[f]
          /\ \A u \in Control : ~In(todo'[u], "join decoder", f)
      BY <1>2, <1>5, <2>2, <2>4, <2>10
    <3>. QED
      BY <1>4, <2>3, <2>6, <2>7, <2>8, <2>10, <3>1
  <2>. QED
    BY <2>9, <2>10
<1>. QED
  BY <1>2, <1>7, <1>8, <1>9, <1>11, <1>12, <1>13 DEF IInv

\* What a closing thread does not do, and what excludes what.
LEMMA CloserHasNo ==
  ASSUME Types, ShapeInv, NEW t \in Closers
  PROVE  /\ \A x : ~In(todo[t], "set track", x) /\ ~In(todo[t], "swap", x)
         /\ Has(t, "release") => \A x : ~In(todo[t], "create", x) /\ ~In(todo[t], "attach", x)
         /\ ConnectionInv /\ Has(t, "release") =>
               ~Has(t, "use microphone") /\ ~Has(t, "use synthetic")
<1>1. t \in Threads /\ {"create", "attach", "release"} \subseteq LastNames
  BY CloserIs DEF LastNames
<1>2. todo[t] \in Seq(Steps) /\ Shape(todo[t])
  BY <1>1 DEF Types, ShapeInv
<1>3. \A i \in 1..Len(todo[t]) : todo[t][i][1] \in IoNames
  <2>1. NamesOf(t) \subseteq IoNames
    BY DEF NamesOf, Closers, TimerNames, IoNames, InputNames
  <2>. QED
    BY <1>1, <2>1 DEF ShapeInv
<1>4. "set track" \notin IoNames /\ "swap" \notin IoNames
  BY DEF IoNames, InputNames
<1>5. \A x : ~In(todo[t], "set track", x) /\ ~In(todo[t], "swap", x)
  BY <1>3, <1>4 DEF In
<1>6. ASSUME Has(t, "release"), NEW x, In(todo[t], "create", x) PROVE FALSE
  <2>1. "create" = "release"
    BY <1>1, <1>2, <1>6, LastIs DEF Has
  <2>. QED
    BY <2>1
<1>7. ASSUME Has(t, "release"), NEW x, In(todo[t], "attach", x) PROVE FALSE
  <2>1. "attach" = "release"
    BY <1>1, <1>2, <1>7, LastIs DEF Has
  <2>. QED
    BY <2>1
<1>8. CASE t = "io"
  BY <1>5, <1>6, <1>7, <1>8 DEF ConnectionInv
<1>9. CASE t = "timer"
  <2>1. \A i \in 1..Len(todo[t]) : todo[t][i][1] \in TimerNames
    BY <1>1, <1>9 DEF ShapeInv, NamesOf
  <2>2. "use microphone" \notin TimerNames /\ "use synthetic" \notin TimerNames
    BY DEF TimerNames
  <2>3. ~Has(t, "use microphone") /\ ~Has(t, "use synthetic")
    BY <2>1, <2>2 DEF Has, In
  <2>. QED
    BY <1>5, <1>6, <1>7, <2>3
<1>. QED
  BY <1>8, <1>9 DEF Closers

\* A closing thread that works alone and creates nothing.
LEMMA OnlyCloses ==
  ASSUME NEW t \in Closers, \A u \in Control : u # t => \A n, x : ~In(todo'[u], n, x),
         \A x : ~In(todo'[t], "create", x) /\ ~In(todo'[t], "attach", x),
         ~Has(t, "use microphone")', ~Has(t, "use synthetic")'
  PROVE  /\ \A x : ~In(todo'["io"], "create", x) /\ ~In(todo'["io"], "attach", x)
         /\ ~Has("io", "use microphone")' /\ ~Has("io", "use synthetic")'
         /\ ~Has("ui", "use microphone")' /\ ~Has("ui", "use synthetic")'
<1>1. "io" \in Control /\ "ui" \in Control /\ "ui" # t
  BY DEF Control, Closers
<1>. QED
  BY <1>1 DEF Has

\* A decoder is joined.
LEMMA JoinDecoderKeeps ==
  ASSUME IInv, NEW t \in Threads, JoinDecoder(t)
  PROVE  IInv'
<1>1. Types /\ ShapeInv /\ PacedInv
  BY DEF IInv
<1>2. /\ At(t, "join decoder") /\ Busy(t) /\ ~Busy(Arg(t)) /\ Go(t, <<>>)
      /\ UNCHANGED <<input, playing, engine, history>>
  BY DEF JoinDecoder, At
<1>3. UNCHANGED <<pc, sender, sending, source, kind, active, overlap, stray, broken>>
  BY <1>2 DEF engine, history
<1>4. /\ FrontAt(t, "join decoder") /\ ShapeInv' /\ Others(t) /\ Calmed(t)
      /\ \A n, x : In(todo'[t], n, x) <=> Later(todo[t], n, x)
  <2>1. LeadsToNoRead("join decoder")
    BY DEF LeadsToNoRead
  <2>. QED
    BY <1>1, <1>2, <2>1, Pop
<1>5. t \in Control
  BY <1>4, ControlIs DEF FrontAt, FileNames
<1>6. Types'
  <2>1. todo' \in [Threads -> Seq(Steps)]
    BY <1>4 DEF Others
  <2>2. /\ playing' \in [Files -> BOOLEAN]
        /\ pc' \in BOOLEAN /\ sender' \in BOOLEAN /\ sending' \in BOOLEAN /\ active' \in BOOLEAN
        /\ source' \in Sources \cup {"none"} /\ kind' \in Kinds
        /\ overlap' \in BOOLEAN /\ stray' \in BOOLEAN /\ broken' \in BOOLEAN
    BY <1>1, <1>2, <1>3 DEF Types
  <2>. QED
    BY <1>1, <1>2, <2>1, <2>2, InputTypes
<1>7. PacedInv'
  BY <1>1, <1>2, <1>4, InputPaced
<1>8. /\ NoMoreBusy /\ Taking' = Taking
      /\ \A f \in Files : todo'[f] = todo[f]
      /\ ~overlap' => HandleInv /\ HandleInv' /\ ConnectionInv /\ DecoderInv
      /\ ~overlap' /\ ~stray' => SoundInv' /\ ModeInv
      /\ ~overlap' => \A u \in Control : u # t =>
                         todo'[u] = todo[u] /\ \A n, x : ~In(todo[u], n, x)
  <2>1. IsEngine("join decoder")
    BY DEF IsEngine, SoundNames
  <2>2. Adds(t, CalledByEngine)
    BY <1>4 DEF Adds
  <2>. QED
    BY <1>2, <1>3, <1>4, <1>5, <2>1, <2>2, EngineStepKeeps
<1>9. \A u \in Control : \A n : n # "join decoder" =>
         \A x : In(todo'[u], n, x) <=> In(todo[u], n, x)
  <2>1. \A n : n # "join decoder" => \A x : In(todo'[t], n, x) <=> In(todo[t], n, x)
    BY <1>4 DEF FrontAt
  <2>. QED
    BY <1>4, <2>1 DEF Others, Threads
<1>10. ~overlap' => ConnectionInv'
  <2>1. SameIn(ConnectionNames)
    <3>1. \A n \in ConnectionNames : n # "join decoder"
      BY DEF ConnectionNames
    <3>. QED
      BY <1>9, <3>1 DEF SameIn
  <2>2. /\ NoMore("stop current") /\ NoMore("close")
        /\ NoMore("use microphone") /\ NoMore("use synthetic")
    BY <1>9 DEF NoMore
  <2>3. requested' => requested
    BY <1>2 DEF input
  <2>. QED
    BY <1>3, <1>8, <2>1, <2>2, <2>3, ConnectionKept
<1>11. ~overlap' /\ ~stray' => ModeInv'
  <2>1. SameIn(ModeNames)
    <3>1. \A n \in ModeNames : n # "join decoder"
      BY DEF ModeNames
    <3>. QED
      BY <1>9, <3>1 DEF SameIn
  <2>2. \A n : n # "join decoder" => Kept(n)
    BY <1>8, <1>9 DEF Kept, Threads
  <2>3. mode' = mode
    BY <1>2 DEF input
  <2>. QED
    BY <1>3, <1>8, <2>1, <2>2, <2>3, ModeKept
<1>12. ASSUME ~overlap' PROVE DecoderInv'
  <2>1. HandleInv /\ ConnectionInv /\ DecoderInv
    BY <1>8, <1>12
  <2>. SUFFICES ASSUME NEW f \in Files
                PROVE  /\ Busy(f)' => \/ playing'[f]
                                      \/ \E u \in Control : In(todo'[u], "join decoder", f)
                       /\ playing'[f] =>
                             /\ \/ source' = f
                                \/ \E u \in Control : \/ In(todo'[u], "stop source", f)
                                                      \/ In(todo'[u], "set track", f)
                                                      \/ In(todo'[u], "swap", f)
                             /\ \A u \in Control : ~In(todo'[u], "join decoder", f)
                       /\ (Busy(f)' \/ playing'[f]) /\ Some("release")' =>
                             \/ Some("stop current")'
                             \/ InSome("stop source", f)'
                             \/ InSome("join decoder", f)'
    BY DEF DecoderInv
  <2>2. (Busy(f)' <=> Busy(f)) /\ (playing'[f] <=> playing[f])
    BY <1>2, <1>8 DEF Busy
  <2>3. CASE f = Arg(t)
    <3>1. In(todo[t], "join decoder", f)
      BY <1>4, <2>3 DEF FrontAt
    <3>2. ~playing[f]
      BY <1>5, <2>1, <3>1 DEF DecoderInv
    <3>. QED
      BY <1>2, <2>2, <2>3, <3>2
  <2>4. CASE f # Arg(t)
    <3>1. \A u \in Control : In(todo'[u], "join decoder", f) <=> In(todo[u], "join decoder", f)
      <4>1. In(todo'[t], "join decoder", f) <=> In(todo[t], "join decoder", f)
        BY <1>4, <2>4 DEF FrontAt
      <4>. QED
        BY <1>4, <4>1 DEF Others, Threads
    <3>2. \A u \in Control :
             /\ In(todo'[u], "stop source", f) <=> In(todo[u], "stop source", f)
             /\ In(todo'[u], "set track", f) <=> In(todo[u], "set track", f)
             /\ In(todo'[u], "swap", f) <=> In(todo[u], "swap", f)
      BY <1>9
    <3>3. /\ Some("release")' <=> Some("release")
          /\ Some("stop current")' <=> Some("stop current")
      <4>1. SameIn({"release", "stop current"})
        BY <1>9 DEF SameIn
      <4>2. \A n \in {"release", "stop current"} : Some(n)' <=> Some(n)
        BY <4>1, SomeSame
      <4>. QED
        BY <4>2
    <3>4. Busy(f)' => playing'[f] \/ \E u \in Control : In(todo'[u], "join decoder", f)
      BY <2>1, <2>2, <3>1 DEF DecoderInv
    <3>5. playing'[f] =>
             /\ \/ source' = f
                \/ \E u \in Control : \/ In(todo'[u], "stop source", f)
                                      \/ In(todo'[u], "set track", f)
                                      \/ In(todo'[u], "swap", f)
             /\ \A u \in Control : ~In(todo'[u], "join decoder", f)
      BY <1>3, <2>1, <2>2, <3>1, <3>2 DEF DecoderInv
    <3>6. (Busy(f)' \/ playing'[f]) /\ Some("release")' =>
             \/ Some("stop current")'
             \/ InSome("stop source", f)'
             \/ InSome("join decoder", f)'
      <4>1. /\ InSome("stop source", f)' <=> InSome("stop source", f)
            /\ InSome("join decoder", f)' <=> InSome("join decoder", f)
        BY <3>1, <3>2 DEF InSome, Control, Closers
      <4>. QED
        BY <2>1, <2>2, <3>3, <4>1 DEF DecoderInv
    <3>. QED
      BY <3>4, <3>5, <3>6
  <2>. QED
    BY <2>3, <2>4
<1>. QED
  BY <1>4, <1>6, <1>7, <1>8, <1>10, <1>11, <1>12 DEF IInv

\* The current source is to be stopped.
LEMMA StopCurrentKeeps ==
  ASSUME IInv, NEW t \in Closers, StopCurrent(t)
  PROVE  IInv'
<1>1. Types /\ ShapeInv /\ PacedInv
  BY DEF IInv
<1>2. Busy(t) /\ UNCHANGED <<input, playing, engine, history>>
  BY DEF StopCurrent, At
<1>3. UNCHANGED <<pc, sender, sending, source, kind, active, overlap, stray, broken>>
  BY <1>2 DEF engine, history
<1>4. /\ FrontAt(t, "stop current") /\ ShapeInv' /\ Others(t) /\ Calmed(t)
      /\ \A n, x : In(todo'[t], n, x) <=>
            (n = "stop source" /\ x = source) \/ Later(todo[t], n, x)
  BY <1>1, StopCurrentMoves
<1>5. t \in Control /\ t \in Threads
  BY CloserIs
<1>6. Types'
  <2>1. todo' \in [Threads -> Seq(Steps)]
    BY <1>4 DEF Others
  <2>2. /\ playing' \in [Files -> BOOLEAN]
        /\ pc' \in BOOLEAN /\ sender' \in BOOLEAN /\ sending' \in BOOLEAN /\ active' \in BOOLEAN
        /\ source' \in Sources \cup {"none"} /\ kind' \in Kinds
        /\ overlap' \in BOOLEAN /\ stray' \in BOOLEAN /\ broken' \in BOOLEAN
    BY <1>1, <1>2, <1>3 DEF Types
  <2>. QED
    BY <1>1, <1>2, <2>1, <2>2, InputTypes
<1>7. PacedInv'
  BY <1>1, <1>2, <1>4, <1>5, InputPaced
<1>8. /\ NoMoreBusy /\ Taking' = Taking
      /\ \A f \in Files : todo'[f] = todo[f]
      /\ ~overlap' => HandleInv /\ HandleInv' /\ ConnectionInv /\ DecoderInv
      /\ ~overlap' /\ ~stray' => SoundInv' /\ ModeInv
      /\ ~overlap' => \A u \in Control : u # t =>
                         todo'[u] = todo[u] /\ \A n, x : ~In(todo[u], n, x)
  <2>1. IsEngine("stop current")
    BY DEF IsEngine, SoundNames
  <2>2. Adds(t, CalledByEngine)
    BY <1>4 DEF Adds, CalledByEngine, EngineNames
  <2>. QED
    BY <1>2, <1>3, <1>4, <1>5, <2>1, <2>2, EngineStepKeeps
<1>9. \A u \in Control : \A n : n \notin {"stop current", "stop source"} =>
         \A x : In(todo'[u], n, x) <=> In(todo[u], n, x)
  <2>1. \A n : n \notin {"stop current", "stop source"} =>
           \A x : In(todo'[t], n, x) <=> In(todo[t], n, x)
    BY <1>4 DEF FrontAt
  <2>. QED
    BY <1>4, <2>1 DEF Others, Threads
<1>90. NoMore("stop current")
  <2>1. \A x : In(todo'[t], "stop current", x) => In(todo[t], "stop current", x)
    BY <1>4 DEF FrontAt
  <2>. QED
    BY <1>4, <2>1 DEF NoMore, Others, Threads
<1>10. ~overlap' => ConnectionInv'
  <2>1. SameIn(ConnectionNames)
    <3>1. \A n \in ConnectionNames : n \notin {"stop current", "stop source"}
      BY DEF ConnectionNames
    <3>. QED
      BY <1>9, <3>1 DEF SameIn
  <2>2. NoMore("close") /\ NoMore("use microphone") /\ NoMore("use synthetic")
    BY <1>9 DEF NoMore
  <2>3. requested' => requested
    BY <1>2 DEF input
  <2>. QED
    BY <1>3, <1>8, <1>90, <2>1, <2>2, <2>3, ConnectionKept
<1>11. ~overlap' /\ ~stray' => ModeInv'
  <2>1. SameIn(ModeNames)
    <3>1. \A n \in ModeNames : n \notin {"stop current", "stop source"}
      BY DEF ModeNames
    <3>. QED
      BY <1>9, <3>1 DEF SameIn
  <2>2. \A n : n \notin {"stop current", "stop source"} => Kept(n)
    BY <1>8, <1>9 DEF Kept, Threads
  <2>3. mode' = mode
    BY <1>2 DEF input
  <2>. QED
    BY <1>3, <1>8, <2>1, <2>2, <2>3, ModeKept
<1>12. ASSUME ~overlap' PROVE DecoderInv'
  <2>1. HandleInv /\ ConnectionInv /\ DecoderInv
    BY <1>8, <1>12
  <2>. SUFFICES ASSUME NEW f \in Files
                PROVE  /\ Busy(f)' => \/ playing'[f]
                                      \/ \E u \in Control : In(todo'[u], "join decoder", f)
                       /\ playing'[f] =>
                             /\ \/ source' = f
                                \/ \E u \in Control : \/ In(todo'[u], "stop source", f)
                                                      \/ In(todo'[u], "set track", f)
                                                      \/ In(todo'[u], "swap", f)
                             /\ \A u \in Control : ~In(todo'[u], "join decoder", f)
                       /\ (Busy(f)' \/ playing'[f]) /\ Some("release")' =>
                             \/ Some("stop current")'
                             \/ InSome("stop source", f)'
                             \/ InSome("join decoder", f)'
    BY DEF DecoderInv
  <2>2. (Busy(f)' <=> Busy(f)) /\ (playing'[f] <=> playing[f])
    BY <1>2, <1>8 DEF Busy
  <2>3. \A u \in Control : u # t => \A n, x : ~In(todo[u], n, x) /\ ~In(todo'[u], n, x)
    BY <1>8, <1>12
  <2>30. \A n : \A x : InSome(n, x) <=> In(todo[t], n, x)
    BY <2>3, SomeIs
  <2>31. \A n : \A x : InSome(n, x)' <=> In(todo'[t], n, x)
    BY <2>3, SomeNext
  <2>4. \A u \in Control : In(todo'[u], "join decoder", f) <=> In(todo[u], "join decoder", f)
    BY <1>9
  <2>5. ~InSome("stop source", f)
    BY <1>4, <2>30 DEF FrontAt, FrontNames
  <2>6. In(todo'[t], "stop source", source)
    BY <1>4
  <2>7. Busy(f) => playing[f] \/ InSome("join decoder", f)
    BY <2>1, <2>3, <2>30 DEF DecoderInv
  <2>8. playing[f] => source = f /\ \A u \in Control : ~In(todo[u], "join decoder", f)
    BY <1>1, <2>1, <2>3, <2>30, <2>5, CloserHasNo DEF DecoderInv
  <2>. QED
    BY <1>3, <1>5, <2>2, <2>30, <2>31, <2>4, <2>6, <2>7, <2>8
<1>. QED
  BY <1>4, <1>6, <1>7, <1>8, <1>10, <1>11, <1>12 DEF IInv

EngineTypes ==
    /\ pc \in BOOLEAN /\ sender \in BOOLEAN /\ sending \in BOOLEAN /\ active \in BOOLEAN
    /\ source \in Sources \cup {"none"} /\ kind \in Kinds
    /\ overlap \in BOOLEAN /\ stray \in BOOLEAN /\ broken \in BOOLEAN

\* What such a step leaves to be shown.
LEMMA EngineDone ==
  ASSUME IInv, NEW t \in Control, NEW name, FrontAt(t, name), IsEngine(name), Busy(t), Others(t),
         ShapeInv', Calmed(t), Adds(t, CalledByEngine), UNCHANGED input, UNCHANGED playing,
         EngineTypes',
         ~overlap' => ~overlap /\ broken' = broken, ~stray' => ~stray,
         t = "ui" => pc' = pc /\ sender' = sender,
         ~overlap' => ConnectionInv' /\ DecoderInv',
         ~overlap' /\ ~stray' => ModeInv'
  PROVE  IInv'
<1>1. Types /\ ShapeInv /\ PacedInv /\ t \in Threads
  BY DEF IInv, Threads
<1>2. Types'
  <2>1. todo' \in [Threads -> Seq(Steps)]
    BY DEF Others
  <2>2. playing' \in [Files -> BOOLEAN]
    BY <1>1 DEF Types
  <2>3. /\ pc' \in BOOLEAN /\ sender' \in BOOLEAN /\ sending' \in BOOLEAN /\ active' \in BOOLEAN
        /\ source' \in Sources \cup {"none"} /\ kind' \in Kinds
        /\ overlap' \in BOOLEAN /\ stray' \in BOOLEAN /\ broken' \in BOOLEAN
    BY DEF EngineTypes
  <2>. QED
    BY <1>1, <2>1, <2>2, <2>3, InputTypes
<1>3. PacedInv'
  <2>1. \A f \in Files : playing'[f] => playing[f]
    OBVIOUS
  <2>. QED
    BY <1>1, <2>1, InputPaced
<1>4. /\ ~overlap' => HandleInv'
      /\ ~overlap' /\ ~stray' => SoundInv'
  BY EngineStepKeeps
<1>. QED
  BY <1>2, <1>3, <1>4 DEF IInv

\* What such a step may rely on.
LEMMA EngineGiven ==
  ASSUME IInv, NEW t \in Control, Busy(t), Others(t), ShapeInv', ~overlap
  PROVE  /\ HandleInv /\ ConnectionInv /\ DecoderInv
         /\ Taking' = Taking
         /\ \A f \in Files : todo'[f] = todo[f] /\ (Busy(f)' <=> Busy(f))
         /\ \A u \in Control : u # t =>
               /\ todo'[u] = todo[u]
               /\ \A n, x : ~In(todo[u], n, x) /\ ~In(todo'[u], n, x)
<1>1. Types /\ ShapeInv /\ t \in Threads
  BY DEF IInv, Threads
<1>2. HandleInv /\ ConnectionInv /\ DecoderInv
  BY DEF IInv
<1>3. Taking' = Taking /\ \A f \in Files : todo'[f] = todo[f]
  BY <1>1, DecodersSame
<1>4. \A f \in Files : Busy(f)' <=> Busy(f)
  BY <1>3 DEF Busy
<1>5. \A u \in Control : u # t => todo'[u] = todo[u]
  BY DEF Others, Threads
<1>6. \A u \in Control : u # t => \A n, x : ~In(todo[u], n, x)
  BY <1>1, <1>2, Alone
<1>. QED
  BY <1>2, <1>3, <1>4, <1>5, <1>6

\* SetLocalVideoSource returns.
LEMMA SwitchReturnsKeeps ==
  ASSUME IInv, SwitchReturns
  PROVE  IInv'
<1>1. Types /\ ShapeInv /\ "ui" \in Control
  BY DEF IInv, Control
<1>2. Busy("ui") /\ UNCHANGED <<input, playing, engine, history>>
  BY DEF SwitchReturns, At
<1>3. UNCHANGED <<pc, sender, sending, source, kind, active, overlap, stray, broken>>
  BY <1>2 DEF engine, history
<1>4. /\ FrontAt("ui", "return") /\ ShapeInv' /\ Others("ui") /\ Calmed("ui")
      /\ \A n, x : In(todo'["ui"], n, x) <=>
            source # Arg("ui") /\ n = "stop source" /\ x = Arg("ui")
  BY <1>1, SwitchReturnsMoves
<1>5. \A n, x : In(todo["ui"], n, x) <=> n = "return" /\ x = Arg("ui")
  BY <1>4 DEF FrontAt, LastNames
<1>6. IsEngine("return") /\ Adds("ui", CalledByEngine)
  <2>1. "stop source" \in CalledByEngine /\ "return" \notin SoundNames
    BY DEF CalledByEngine, EngineNames, SoundNames
  <2>2. \A n, x : ~Later(todo["ui"], n, x)
    BY <1>4 DEF FrontAt, LastNames
  <2>. QED
    BY <1>4, <2>1, <2>2 DEF IsEngine, Adds
<1>7. EngineTypes'
  BY <1>1, <1>3 DEF Types, EngineTypes
<1>8. \A u \in Control : \A n : n \notin {"return", "stop source"} =>
         \A x : In(todo'[u], n, x) <=> In(todo[u], n, x)
  <2>1. \A n : n \notin {"return", "stop source"} =>
           \A x : In(todo'["ui"], n, x) <=> In(todo["ui"], n, x)
    BY <1>4, <1>5
  <2>. QED
    BY <1>4, <2>1 DEF Others, Threads
<1>9. ASSUME ~overlap' PROVE ConnectionInv' /\ DecoderInv'
  <2>1. /\ HandleInv /\ ConnectionInv /\ DecoderInv
        /\ Taking' = Taking
        /\ \A f \in Files : todo'[f] = todo[f] /\ (Busy(f)' <=> Busy(f))
        /\ \A u \in Control : u # "ui" => \A n, x : ~In(todo[u], n, x) /\ ~In(todo'[u], n, x)
    BY <1>1, <1>2, <1>3, <1>4, <1>9, EngineGiven
  <2>2. ConnectionInv'
    <3>1. SameIn(ConnectionNames)
      <4>1. \A n \in ConnectionNames : n \notin {"return", "stop source"}
        BY DEF ConnectionNames
      <4>. QED
        BY <1>8, <4>1 DEF SameIn
    <3>2. /\ NoMore("stop current") /\ NoMore("close")
          /\ NoMore("use microphone") /\ NoMore("use synthetic")
      BY <1>8 DEF NoMore
    <3>3. requested' => requested
      BY <1>2 DEF input
    <3>. QED
      BY <1>3, <2>1, <3>1, <3>2, <3>3, ConnectionKept
  <2>30. \A u \in Control : \A x :
            /\ ~In(todo[u], "stop source", x) /\ ~In(todo[u], "set track", x)
            /\ ~In(todo[u], "swap", x) /\ ~In(todo[u], "join decoder", x)
    <3>1. \A x : /\ ~In(todo["ui"], "stop source", x) /\ ~In(todo["ui"], "set track", x)
                 /\ ~In(todo["ui"], "swap", x) /\ ~In(todo["ui"], "join decoder", x)
      BY <1>5 DEF In
    <3>. QED
      BY <2>1, <3>1
  <2>3. \A f \in Files : playing[f] => source = f
    BY <2>1, <2>30 DEF DecoderInv
  <2>4. \A f \in Files : Busy(f) => playing[f]
    BY <2>1, <2>30 DEF DecoderInv
  <2>5. \A u \in Control : \A x : ~In(todo'[u], "join decoder", x)
    <3>1. \A x : ~In(todo'["ui"], "join decoder", x)
      BY <1>4 DEF In
    <3>. QED
      BY <2>1, <3>1
  <2>6. ~Some("release")'
    BY <2>1, NoneNext
  <2>. QED
    BY <1>2, <1>3, <2>1, <2>2, <2>3, <2>4, <2>5, <2>6 DEF DecoderInv
<1>10. ASSUME ~overlap', ~stray' PROVE ModeInv'
  <2>1. ModeInv
    BY <1>3, <1>10 DEF IInv
  <2>2. Taking' = Taking /\ \A f \in Files : todo'[f] = todo[f]
    BY <1>1, <1>2, <1>3, <1>4, <1>10, EngineGiven
  <2>3. SameIn(ModeNames)
    <3>1. \A n \in ModeNames : n \notin {"return", "stop source"}
      BY DEF ModeNames
    <3>. QED
      BY <1>8, <3>1 DEF SameIn
  <2>4. \A n : n \notin {"return", "stop source"} => Kept(n)
    BY <1>8, <2>2 DEF Kept, Threads
  <2>5. mode' = mode
    BY <1>2 DEF input
  <2>. QED
    BY <1>3, <2>1, <2>2, <2>3, <2>4, <2>5, ModeKept
<1>. QED
  BY <1>1, <1>2, <1>3, <1>4, <1>6, <1>7, <1>9, <1>10, EngineDone

\* The connection is closed.
LEMMA CloseConnectionKeeps ==
  ASSUME IInv, NEW t \in Closers, CloseConnection(t)
  PROVE  IInv'
<1>1. /\ Types /\ ShapeInv /\ "ui" \in Control /\ t \in Control /\ "ui" # t
      /\ t \in Threads
  BY CloserIs DEF IInv, Control
<1>2. /\ At(t, "close") /\ Busy(t) /\ Go(t, <<>>) /\ pc' = FALSE
      /\ UNCHANGED <<input, playing, sender, sending, source, kind, active, overlap, stray>>
      /\ broken' = broken \/ (Beside(t) /\ broken' = TRUE)
  BY DEF CloseConnection, At
<1>3. UNCHANGED <<overlap, stray>> /\ broken' \in BOOLEAN /\ (~overlap => broken' = broken)
  <2>1. ~overlap => ~Beside(t)
    BY <1>1, <1>2, Alone DEF IInv, Beside
  <2>. QED
    BY <1>1, <1>2, <2>1 DEF Types
<1>4. /\ FrontAt(t, "close") /\ ShapeInv' /\ Others(t) /\ Calmed(t)
      /\ \A n, x : In(todo'[t], n, x) <=> Later(todo[t], n, x)
  <2>1. LeadsToNoRead("close")
    BY DEF LeadsToNoRead
  <2>. QED
    BY <1>1, <1>2, <2>1, Pop
<1>5. /\ \A n : n # "close" => \A x : In(todo'[t], n, x) <=> In(todo[t], n, x)
      /\ \A n, x : In(todo'[t], n, x) => In(todo[t], n, x)
      /\ Has(t, "close")
  <2>1. "close" \in PlainNames
    BY DEF PlainNames, AllNames, IoNames
  <2>. QED
    BY <1>1, <1>4, <2>1, FrontIn DEF FrontAt
<1>6. IsEngine("close") /\ Adds(t, CalledByEngine)
  <2>1. "close" \notin SoundNames
    BY DEF SoundNames
  <2>. QED
    BY <1>4, <2>1 DEF IsEngine, Adds
<1>7. EngineTypes'
  <2>1. pc' \in BOOLEAN
    BY <1>2
  <2>. QED
    BY <1>1, <1>2, <1>3, <2>1 DEF Types, EngineTypes
<1>9. ASSUME ~overlap' PROVE ConnectionInv' /\ DecoderInv'
  <2>1. /\ HandleInv /\ ConnectionInv /\ DecoderInv
        /\ Taking' = Taking
        /\ \A f \in Files : todo'[f] = todo[f] /\ (Busy(f)' <=> Busy(f))
        /\ \A u \in Control : u # t => \A n, x : ~In(todo[u], n, x) /\ ~In(todo'[u], n, x)
    BY <1>1, <1>2, <1>3, <1>4, <1>9, EngineGiven
  <2>10. \A n : (Some(n) <=> Has(t, n)) /\ \A x : InSome(n, x) <=> In(todo[t], n, x)
    BY <2>1, SomeIs
  <2>11. \A n : (Some(n)' <=> Has(t, n)') /\ \A x : InSome(n, x)' <=> In(todo'[t], n, x)
    BY <2>1, SomeNext
  <2>2. Some("release") /\ Some("release")'
    BY <1>5, <2>1, <2>10, <2>11 DEF ConnectionInv, Closing, Has
  <2>3. \A x : ~In(todo'[t], "create", x) /\ ~In(todo'[t], "attach", x)
    BY <1>1, <1>5, <2>10, <2>2, CloserHasNo
  <2>4. ~Has(t, "use microphone")' /\ ~Has(t, "use synthetic")'
    BY <1>1, <1>5, <2>1, <2>10, <2>2, CloserHasNo DEF Has
  <2>5. /\ \A x : ~In(todo'["io"], "create", x) /\ ~In(todo'["io"], "attach", x)
        /\ ~Has("io", "use microphone")' /\ ~Has("io", "use synthetic")'
        /\ ~Has("ui", "use microphone")' /\ ~Has("ui", "use synthetic")'
    BY <2>1, <2>3, <2>4, OnlyCloses
  <2>6. /\ sender' => source' # "none"
        /\ sending' => Some("remove senders")'
    BY <1>2, <1>5, <2>1, <2>10, <2>11, <2>2 DEF ConnectionInv, Has
  <2>7. requested' => sending' \/ Some("stop recording")'
    <3>1. requested' = requested
      BY <1>2 DEF input
    <3>. QED
      BY <1>2, <1>5, <2>1, <2>10, <2>11, <3>1 DEF ConnectionInv, Has
  <2>8. ConnectionInv'
    BY <2>2, <2>5, <2>6, <2>7 DEF ConnectionInv
  <2>9. DecoderInv'
    <3>1. SameIn(DecoderNames)
      <4>1. \A n \in DecoderNames : n # "close"
        BY DEF DecoderNames
      <4>. QED
        BY <1>5, <2>1, <4>1 DEF SameIn
    <3>2. NoMoreBusy
      BY <1>1, <1>2, <1>4, OthersBusy
    <3>3. Some("stop current") => Some("stop current")'
      BY <1>5, <2>10, <2>11 DEF Has
    <3>. QED
      BY <1>2, <2>1, <2>2, <3>1, <3>2, <3>3, DecodersKept
  <2>. QED
    BY <2>8, <2>9
<1>10. ASSUME ~overlap', ~stray' PROVE ModeInv'
  <2>1. ModeInv
    BY <1>3, <1>10 DEF IInv
  <2>2. /\ Taking' = Taking /\ \A f \in Files : todo'[f] = todo[f]
        /\ \A u \in Control : u # t => todo'[u] = todo[u]
    BY <1>1, <1>2, <1>3, <1>4, <1>10, EngineGiven
  <2>3. SameIn(ModeNames)
    <3>1. \A n \in ModeNames : n # "close"
      BY DEF ModeNames
    <3>. QED
      BY <1>5, <2>2, <3>1 DEF SameIn
  <2>4. \A n : n # "close" => Kept(n)
    BY <1>5, <2>2 DEF Kept, Threads
  <2>5. mode' = mode
    BY <1>2 DEF input
  <2>. QED
    BY <1>2, <2>1, <2>2, <2>3, <2>4, <2>5, ModeKept
<1>. QED
  BY <1>1, <1>2, <1>3, <1>4, <1>6, <1>7, <1>9, <1>10, EngineDone

\* The senders are removed.
LEMMA RemoveSendersKeeps ==
  ASSUME IInv, NEW t \in Closers, RemoveSenders(t)
  PROVE  IInv'
<1>1. /\ Types /\ ShapeInv /\ "ui" \in Control /\ t \in Control /\ "ui" # t
      /\ t \in Threads
  BY CloserIs DEF IInv, Control
<1>2. /\ Busy(t) /\ sending' = FALSE
      /\ UNCHANGED <<input, playing, pc, sender, source, kind, active, history>>
  BY DEF RemoveSenders, At
<1>3. UNCHANGED <<overlap, stray, broken>>
  BY <1>2 DEF history
<1>4. /\ FrontAt(t, "remove senders") /\ ShapeInv' /\ Others(t) /\ Calmed(t)
      /\ \A n, x : In(todo'[t], n, x) <=>
            (sending /\ n = "stop recording" /\ x = "none") \/ Later(todo[t], n, x)
  BY <1>1, RemoveSendersMoves
<1>50. \A n, x : In(todo[t], n, x) <=>
          (n = "remove senders" /\ x = Arg(t)) \/ Later(todo[t], n, x)
  BY <1>4 DEF FrontAt
<1>5. /\ \A n : n \notin {"remove senders", "stop recording"} =>
            \A x : In(todo'[t], n, x) <=> In(todo[t], n, x)
      /\ Has(t, "stop recording") => Has(t, "stop recording")'
      /\ sending => Has(t, "stop recording")'
      /\ \A x : In(todo'[t], "remove senders", x) => In(todo[t], "remove senders", x)
      /\ Has(t, "remove senders")
  <2>1. "remove senders" \in PlainNames
    BY DEF PlainNames, AllNames, IoNames
  <2>2. Has(t, "remove senders")
    BY <1>1, <1>4, <2>1, FrontIn
  <2>3. \A n : n \notin {"remove senders", "stop recording"} =>
            \A x : In(todo'[t], n, x) <=> In(todo[t], n, x)
    BY <1>4, <1>50
  <2>4. /\ Has(t, "stop recording") => Has(t, "stop recording")'
        /\ sending => Has(t, "stop recording")'
    BY <1>4, <1>50 DEF Has
  <2>5. \A x : In(todo'[t], "remove senders", x) => In(todo[t], "remove senders", x)
    BY <1>4, <1>50
  <2>. QED
    BY <2>2, <2>3, <2>4, <2>5
<1>6. IsEngine("remove senders") /\ Adds(t, CalledByEngine)
  <2>1. "remove senders" \notin SoundNames /\ "stop recording" \in CalledByEngine
    BY DEF SoundNames, CalledByEngine, EngineNames
  <2>. QED
    BY <1>4, <2>1 DEF IsEngine, Adds
<1>7. EngineTypes'
  <2>1. sending' \in BOOLEAN
    BY <1>2
  <2>. QED
    BY <1>1, <1>2, <1>3, <2>1 DEF Types, EngineTypes
<1>9. ASSUME ~overlap' PROVE ConnectionInv' /\ DecoderInv'
  <2>1. /\ HandleInv /\ ConnectionInv /\ DecoderInv
        /\ Taking' = Taking
        /\ \A f \in Files : todo'[f] = todo[f] /\ (Busy(f)' <=> Busy(f))
        /\ \A u \in Control : u # t => \A n, x : ~In(todo[u], n, x) /\ ~In(todo'[u], n, x)
    BY <1>1, <1>2, <1>3, <1>4, <1>9, EngineGiven
  <2>10. \A n : (Some(n) <=> Has(t, n)) /\ \A x : InSome(n, x) <=> In(todo[t], n, x)
    BY <2>1, SomeIs
  <2>11. \A n : (Some(n)' <=> Has(t, n)') /\ \A x : InSome(n, x)' <=> In(todo'[t], n, x)
    BY <2>1, SomeNext
  <2>2. Some("release") /\ Some("release")'
    BY <1>5, <2>1, <2>10, <2>11 DEF ConnectionInv, Closing, Has
  <2>3. \A x : ~In(todo'[t], "create", x) /\ ~In(todo'[t], "attach", x)
    BY <1>1, <1>5, <2>10, <2>2, CloserHasNo
  <2>4. ~Has(t, "use microphone")' /\ ~Has(t, "use synthetic")'
    BY <1>1, <1>5, <2>1, <2>10, <2>2, CloserHasNo DEF Has
  <2>5. /\ \A x : ~In(todo'["io"], "create", x) /\ ~In(todo'["io"], "attach", x)
        /\ ~Has("io", "use microphone")' /\ ~Has("io", "use synthetic")'
        /\ ~Has("ui", "use microphone")' /\ ~Has("ui", "use synthetic")'
    BY <2>1, <2>3, <2>4, OnlyCloses
  <2>6. sender' => source' # "none"
    BY <1>2, <2>1 DEF ConnectionInv
  <2>7. requested' => Some("stop recording")'
    <3>1. requested' = requested
      BY <1>2 DEF input
    <3>. QED
      BY <1>5, <2>1, <2>10, <2>11, <3>1 DEF ConnectionInv
  <2>8. ConnectionInv'
    BY <1>2, <2>2, <2>5, <2>6, <2>7 DEF ConnectionInv
  <2>9. DecoderInv'
    <3>1. SameIn(DecoderNames)
      <4>1. \A n \in DecoderNames : n \notin {"remove senders", "stop recording"}
        BY DEF DecoderNames
      <4>. QED
        BY <1>5, <2>1, <4>1 DEF SameIn
    <3>2. NoMoreBusy
      BY <1>1, <1>2, <1>4, OthersBusy
    <3>3. Some("stop current") => Some("stop current")'
      BY <1>5, <2>10, <2>11 DEF Has
    <3>. QED
      BY <1>2, <2>1, <2>2, <3>1, <3>2, <3>3, DecodersKept
  <2>. QED
    BY <2>8, <2>9
<1>10. ASSUME ~overlap', ~stray' PROVE ModeInv'
  <2>1. ModeInv
    BY <1>3, <1>10 DEF IInv
  <2>2. /\ Taking' = Taking /\ \A f \in Files : todo'[f] = todo[f]
        /\ \A u \in Control : u # t => todo'[u] = todo[u]
    BY <1>1, <1>2, <1>3, <1>4, <1>10, EngineGiven
  <2>3. SameIn(ModeNames)
    <3>1. \A n \in ModeNames : n \notin {"remove senders", "stop recording"}
      BY DEF ModeNames
    <3>. QED
      BY <1>5, <2>2, <3>1 DEF SameIn
  <2>4. \A n : n \notin {"remove senders", "stop recording"} => Kept(n)
    BY <1>5, <2>2 DEF Kept, Threads
  <2>5. mode' = mode
    BY <1>2 DEF input
  <2>. QED
    BY <1>2, <2>1, <2>2, <2>3, <2>4, <2>5, ModeKept
<1>. QED
  BY <1>1, <1>2, <1>3, <1>4, <1>6, <1>7, <1>9, <1>10, EngineDone

\* The source is released.
LEMMA ReleaseKeeps ==
  ASSUME IInv, NEW t \in Closers, Release(t)
  PROVE  IInv'
<1>1. /\ Types /\ ShapeInv /\ "ui" \in Control /\ t \in Control /\ "ui" # t
      /\ t \in Threads
  BY CloserIs DEF IInv, Control
<1>2. /\ Busy(t) /\ sender' = FALSE /\ source' = "none" /\ active' = FALSE
      /\ UNCHANGED <<input, playing, pc, sending, kind, history>>
  BY DEF Release, At
<1>3. UNCHANGED <<overlap, stray, broken>>
  BY <1>2 DEF history
<1>4. /\ FrontAt(t, "release") /\ ShapeInv' /\ Others(t) /\ Calmed(t)
      /\ \/ \A n, x : In(todo'[t], n, x) <=> n = "stop source" /\ x = source
         \/ Busy("ui") /\ \A n, x : ~In(todo'[t], n, x)
  BY <1>1, ReleaseMoves
<1>40. \A n, x : ~Later(todo[t], n, x)
  BY <1>4 DEF FrontAt, LastNames
<1>5. \A n : n # "release" => \A x : ~In(todo[t], n, x)
  BY <1>4, <1>40 DEF FrontAt
<1>50. Has(t, "release")
  <2>1. "release" \in PlainNames
    BY DEF PlainNames, AllNames, IoNames
  <2>. QED
    BY <1>1, <1>4, <2>1, FrontIn
<1>6. IsEngine("release") /\ Adds(t, CalledByEngine)
  <2>1. "release" \notin SoundNames /\ "stop source" \in CalledByEngine
    BY DEF SoundNames, CalledByEngine, EngineNames
  <2>2. \A n, x : In(todo'[t], n, x) => n = "stop source"
    BY <1>4
  <2>. QED
    BY <1>40, <2>1, <2>2 DEF IsEngine, Adds
<1>7. EngineTypes'
  <2>1. /\ sender' \in BOOLEAN /\ active' \in BOOLEAN /\ source' \in Sources \cup {"none"}
    BY <1>2
  <2>. QED
    BY <1>1, <1>2, <1>3, <2>1 DEF Types, EngineTypes
<1>8. ASSUME ~overlap'
      PROVE  /\ HandleInv /\ ConnectionInv /\ DecoderInv
             /\ \A f \in Files : Busy(f)' <=> Busy(f)
             /\ \A u \in Control : u # t => \A n, x : ~In(todo[u], n, x) /\ ~In(todo'[u], n, x)
             /\ In(todo'[t], "stop source", source)
             /\ \A n : n # "stop source" => \A x : ~In(todo'[t], n, x)
  <2>1. /\ HandleInv /\ ConnectionInv /\ DecoderInv
        /\ \A f \in Files : Busy(f)' <=> Busy(f)
        /\ \A u \in Control : u # t => \A n, x : ~In(todo[u], n, x) /\ ~In(todo'[u], n, x)
    BY <1>1, <1>2, <1>3, <1>4, <1>8, EngineGiven
  <2>2. ~Busy("ui")
    BY <1>1, <1>2, <2>1 DEF HandleInv, Single
  <2>3. \A n, x : In(todo'[t], n, x) <=> n = "stop source" /\ x = source
    BY <1>4, <2>2
  <2>. QED
    BY <2>1, <2>3 DEF In
<1>9. ASSUME ~overlap' PROVE ConnectionInv' /\ DecoderInv'
  <2>0. \A n : Some(n) <=> Has(t, n)
    BY <1>8, <1>9, SomeIs
  <2>11. \A n : Some(n)' <=> Has(t, n)'
    BY <1>8, <1>9, SomeNext
  <2>1. ~sending /\ ~requested
    BY <1>5, <1>50, <1>8, <1>9, <2>0 DEF ConnectionInv, Has
  <2>2. ~sending' /\ ~requested'
    BY <1>2, <2>1 DEF input
  <2>3. \A n : n # "stop source" => ~Has(t, n)' /\ ~Some(n)'
    BY <1>8, <1>9, <2>11 DEF Has
  <2>4. /\ \A x : ~In(todo'["io"], "create", x) /\ ~In(todo'["io"], "attach", x)
        /\ ~Has("io", "use microphone")' /\ ~Has("io", "use synthetic")'
        /\ ~Has("ui", "use microphone")' /\ ~Has("ui", "use synthetic")'
    <3>1. \A x : ~In(todo'[t], "create", x) /\ ~In(todo'[t], "attach", x)
      BY <1>8, <1>9
    <3>. QED
      BY <1>8, <1>9, <2>3, <3>1, OnlyCloses
  <2>5. ConnectionInv'
    BY <1>2, <2>2, <2>3, <2>4 DEF ConnectionInv, Closing
  <2>6. \A u \in Control : \A x :
            /\ ~In(todo[u], "stop source", x) /\ ~In(todo[u], "set track", x)
            /\ ~In(todo[u], "swap", x) /\ ~In(todo[u], "join decoder", x)
    BY <1>5, <1>8, <1>9
  <2>7. \A u \in Control : \A x : ~In(todo'[u], "join decoder", x)
    BY <1>8, <1>9
  <2>8. \A f \in Files : (playing[f] => source = f) /\ (Busy(f) => playing[f])
    BY <1>8, <1>9, <2>6 DEF DecoderInv
  <2>9. ~Some("release")'
    BY <2>3
  <2>10. UNCHANGED playing /\ t \in Control
    BY <1>1, <1>2
  <2>12. \A f \in Files : playing'[f] => In(todo'[t], "stop source", f)
    BY <1>8, <1>9, <2>8, <2>10
  <2>13. \A f \in Files : Busy(f)' => playing'[f]
    BY <1>8, <1>9, <2>8, <2>10
  <2>. QED
    BY <2>5, <2>7, <2>9, <2>10, <2>12, <2>13 DEF DecoderInv
<1>10. ASSUME ~overlap', ~stray' PROVE ModeInv'
  <2>1. \A x : ~In(todo'["ui"], "swap", x) /\ ~In(todo'["io"], "create", x)
    BY <1>1, <1>8, <1>10 DEF Control
  <2>2. source' \notin Files /\ source' # "camera"
    BY <1>2, NamesAssumption
  <2>. QED
    BY <2>1, <2>2 DEF ModeInv
<1>. QED
  BY <1>1, <1>2, <1>3, <1>4, <1>6, <1>7, <1>9, <1>10, EngineDone

\* Beside idle control threads, a connection that is being closed.
LEMMA ClosingIs ==
  ASSUME NEW t \in Closers,
         \A n, x : In(todo'[t], n, x) => (n = "stop source") \/ (n \in CloseNames /\ x = "none"),
         \A n \in CloseNames : Has(t, n)',
         \A u \in Control : u # t => \A n, x : ~In(todo'[u], n, x),
         sender' => source' # "none"
  PROVE  ConnectionInv' /\ Some("stop current")'
<1>1. \A n \in CloseNames : Some(n)'
  BY SomeNext
<1>2. /\ Some("release")' /\ Some("remove senders")' /\ Some("stop recording")'
      /\ Some("stop current")'
  BY <1>1 DEF CloseNames
<1>3. \A x : ~In(todo'[t], "create", x) /\ ~In(todo'[t], "attach", x)
  BY DEF CloseNames, In
<1>4. ~Has(t, "use microphone")' /\ ~Has(t, "use synthetic")'
  <2>1. \A x : ~In(todo'[t], "use microphone", x) /\ ~In(todo'[t], "use synthetic", x)
    BY DEF CloseNames, In
  <2>. QED
    BY <2>1 DEF Has
<1>5. /\ \A x : ~In(todo'["io"], "create", x) /\ ~In(todo'["io"], "attach", x)
      /\ ~Has("io", "use microphone")' /\ ~Has("io", "use synthetic")'
      /\ ~Has("ui", "use microphone")' /\ ~Has("ui", "use synthetic")'
  BY <1>3, <1>4, OnlyCloses
<1>. QED
  BY <1>2, <1>5 DEF ConnectionInv

\* The tracks are added to the connection.
LEMMA AttachKeeps ==
  ASSUME IInv, Attach
  PROVE  IInv'
<1>1. /\ Types /\ ShapeInv /\ "ui" \in Control /\ "io" \in Control /\ "ui" # "io"
      /\ "io" \in Threads /\ "io" \in Closers
  BY DEF IInv, Control, Closers, Threads
<1>2. /\ Busy("io") /\ broken' = (broken \/ ~pc)
      /\ UNCHANGED <<input, playing, pc, source, overlap, stray>>
  BY DEF Attach, At
<1>4. /\ FrontAt("io", "attach") /\ ShapeInv' /\ Others("io") /\ Calmed("io")
      /\ \/ sending' = TRUE /\ sender' = TRUE /\ \A n, x : ~In(todo'["io"], n, x)
         \/ /\ sending' = sending
            /\ \A n, x : In(todo'["io"], n, x) <=> n \in CloseNames /\ x = "none"
  BY <1>1, AttachMoves
<1>40. \A n, x : ~Later(todo["io"], n, x)
  BY <1>4 DEF FrontAt, LastNames
<1>5. /\ \A n : n # "attach" => \A x : ~In(todo["io"], n, x)
      /\ In(todo["io"], "attach", Arg("io")) /\ Arg("io") \in Sources
  BY <1>4, <1>40 DEF FrontAt, ArgsOf
<1>50. broken' \in BOOLEAN /\ (~overlap => broken' = broken)
  <2>1. ~overlap => pc
    BY <1>5 DEF IInv, ConnectionInv
  <2>. QED
    BY <1>1, <1>2, <2>1 DEF Types
<1>6. IsEngine("attach") /\ Adds("io", CalledByEngine)
  <2>1. "attach" \notin SoundNames /\ CloseNames \subseteq CalledByEngine
    BY DEF SoundNames, CalledByEngine, EngineNames, CloseNames
  <2>2. \A n, x : In(todo'["io"], n, x) => n \in CloseNames
    BY <1>4
  <2>. QED
    BY <1>40, <2>1, <2>2 DEF IsEngine, Adds
<1>7. EngineTypes'
  <2>1. sender' \in BOOLEAN /\ sending' \in BOOLEAN /\ active' \in BOOLEAN /\ kind' \in Kinds
    BY <1>1 DEF Attach, Types, Kind, Kinds
  <2>. QED
    BY <1>1, <1>2, <1>50, <2>1 DEF Types, EngineTypes
<1>8. ASSUME ~overlap'
      PROVE  /\ ConnectionInv /\ DecoderInv
             /\ \A f \in Files : Busy(f)' <=> Busy(f)
             /\ \A u \in Control : u # "io" => \A n, x : ~In(todo[u], n, x) /\ ~In(todo'[u], n, x)
             /\ Taking' = Taking /\ \A f \in Files : todo'[f] = todo[f]
             /\ pc /\ source \in Sources /\ source # "none"
  <2>1. /\ ConnectionInv /\ DecoderInv
        /\ \A f \in Files : Busy(f)' <=> Busy(f)
        /\ \A u \in Control : u # "io" => \A n, x : ~In(todo[u], n, x) /\ ~In(todo'[u], n, x)
        /\ Taking' = Taking /\ \A f \in Files : todo'[f] = todo[f]
    BY <1>1, <1>2, <1>4, <1>8, EngineGiven
  <2>2. pc /\ source \in Sources
    BY <1>5, <2>1 DEF ConnectionInv
  <2>3. source # "none"
    BY <2>2, NamesAssumption DEF Sources
  <2>. QED
    BY <2>1, <2>2, <2>3
<1>9. ASSUME ~overlap' PROVE ConnectionInv' /\ DecoderInv'
  <2>1. \A u \in Control : \A x :
            /\ ~In(todo[u], "stop source", x) /\ ~In(todo[u], "set track", x)
            /\ ~In(todo[u], "swap", x) /\ ~In(todo[u], "join decoder", x)
    BY <1>5, <1>8, <1>9
  <2>2. \A f \in Files : (playing[f] => source = f) /\ (Busy(f) => playing[f])
    BY <1>8, <1>9, <2>1 DEF DecoderInv
  <2>3. \A u \in Control : \A x : ~In(todo'[u], "join decoder", x)
    <3>1. \A n, x : In(todo'["io"], n, x) => n \in CloseNames
      BY <1>4
    <3>2. "join decoder" \notin CloseNames
      BY DEF CloseNames
    <3>. QED
      BY <1>8, <1>9, <3>1, <3>2
  <2>4. CASE sending' = TRUE /\ sender' = TRUE /\ \A n, x : ~In(todo'["io"], n, x)
    <3>1. \A n : ~Has("io", n)' /\ ~Has("ui", n)' /\ ~Some(n)'
      BY <1>1, <1>8, <1>9, <2>4, SomeNext DEF Has
    <3>2. pc' /\ source' # "none"
      BY <1>2, <1>8, <1>9
    <3>3. ConnectionInv'
      BY <2>4, <3>1, <3>2 DEF ConnectionInv
    <3>. QED
      BY <1>2, <1>8, <1>9, <2>2, <2>3, <3>1, <3>3 DEF DecoderInv
  <2>5. CASE \A n, x : In(todo'["io"], n, x) <=> n \in CloseNames /\ x = "none"
    <3>1. \A n \in CloseNames : Has("io", n)'
      BY <2>5 DEF Has
    <3>2. source' # "none"
      BY <1>2, <1>8, <1>9
    <3>3. \A n, x : In(todo'["io"], n, x) => n = "stop source" \/ (n \in CloseNames /\ x = "none")
      BY <2>5
    <3>4. ConnectionInv' /\ Some("stop current")'
      BY <1>1, <1>8, <1>9, <3>1, <3>2, <3>3, ClosingIs
    <3>. QED
      BY <1>2, <1>8, <1>9, <2>2, <2>3, <3>4 DEF DecoderInv
  <2>. QED
    BY <1>4, <2>4, <2>5
<1>10. ASSUME ~overlap', ~stray' PROVE ModeInv'
  <2>1. ModeInv
    BY <1>2, <1>10 DEF IInv
  <2>2. \A x : ~In(todo'["io"], "create", x)
    <3>1. \A n, x : In(todo'["io"], n, x) => n \in CloseNames
      BY <1>4
    <3>2. "create" \notin CloseNames
      BY DEF CloseNames
    <3>. QED
      BY <3>1, <3>2
  <2>20. \A n, x : ~In(todo["ui"], n, x) /\ ~In(todo'["ui"], n, x)
    BY <1>1, <1>8, <1>10
  <2>3. Natural' <=> Natural
    BY <1>2, <1>8, <1>10 DEF Natural, input
  <2>4. source' \in Files => mode' = "synthetic" \/ In(todo'[source'], "use synthetic", "none")
    <3>1. source \in Files => mode = "synthetic" \/ Has(source, "use synthetic")
      BY <2>1, <2>20 DEF ModeInv
    <3>2. source' = source /\ mode' = mode
      BY <1>2 DEF input
    <3>. QED
      BY <1>8, <1>10, <3>1, <3>2 DEF Has
  <2>5. source' = "camera" => Natural'
    BY <1>2, <2>1, <2>20, <2>3 DEF ModeInv
  <2>. QED
    BY <2>2, <2>20, <2>4, <2>5 DEF ModeInv, Has
<1>. QED
  BY <1>1, <1>2, <1>4, <1>50, <1>6, <1>7, <1>9, <1>10, EngineDone

\* No source is created.
LEMMA CreateFailsKeeps ==
  ASSUME IInv, NEW t \in Threads, CreateFails(t)
  PROVE  IInv'
<1>1. Types /\ ShapeInv /\ "ui" \in Control /\ "io" \in Control /\ "ui" # "io"
  BY DEF IInv, Control
<1>2. Busy(t) /\ UNCHANGED <<input, playing, pc, sender, sending, kind, active, history>>
  BY DEF CreateFails, At
<1>3. UNCHANGED <<overlap, stray, broken>>
  BY <1>2 DEF history
<1>4. /\ t \in Control /\ FrontAt(t, "create")
      /\ ShapeInv' /\ Others(t) /\ Calmed(t)
      /\ t = "ui" => source' = source /\ \A n, x : ~In(todo'[t], n, x)
      /\ t = "io" => /\ source' = "none"
                     /\ \A n, x : In(todo'[t], n, x) <=>
                           \/ n = "stop source" /\ x = source
                           \/ n \in CloseNames /\ x = "none"
  BY <1>1, CreateFailsMoves
<1>41. t = "ui" \/ t = "io"
  BY <1>4, NotTimer DEF Control
<1>40. \A n, x : ~Later(todo[t], n, x)
  BY <1>4 DEF FrontAt, LastNames
<1>5. /\ \A n : n # "create" => \A x : ~In(todo[t], n, x)
      /\ In(todo[t], "create", Arg(t)) /\ Arg(t) \in Kinds
  BY <1>4, <1>40 DEF FrontAt, ArgsOf
<1>6. IsEngine("create") /\ Adds(t, CalledByEngine)
  <2>1. /\ "create" \notin SoundNames /\ CloseNames \subseteq CalledByEngine
        /\ "stop source" \in CalledByEngine
    BY DEF SoundNames, CalledByEngine, EngineNames, CloseNames
  <2>2. \A n, x : In(todo'[t], n, x) => n \in CloseNames \/ n = "stop source"
    BY <1>4, <1>41
  <2>. QED
    BY <1>40, <2>1, <2>2 DEF IsEngine, Adds
<1>7. EngineTypes'
  <2>1. source' \in Sources \cup {"none"}
    BY <1>1, <1>4, <1>41 DEF Types
  <2>. QED
    BY <1>1, <1>2, <1>3, <2>1 DEF Types, EngineTypes
<1>8. ASSUME ~overlap'
      PROVE  /\ ConnectionInv /\ DecoderInv
             /\ \A f \in Files : todo'[f] = todo[f] /\ (Busy(f)' <=> Busy(f))
             /\ \A u \in Control : u # t => \A n, x : ~In(todo[u], n, x) /\ ~In(todo'[u], n, x)
             /\ Taking' = Taking
  BY <1>1, <1>2, <1>3, <1>4, <1>8, EngineGiven
<1>80. ASSUME ~overlap'
       PROVE  /\ \A u \in Control : \A n : n # "create" => \A x : ~In(todo[u], n, x)
              /\ \A f \in Files : (playing[f] => source = f) /\ (Busy(f) => playing[f])
  <2>1. \A u \in Control : \A n : n # "create" => \A x : ~In(todo[u], n, x)
    BY <1>5, <1>8, <1>80
  <2>2. \A u \in Control : \A x :
            /\ ~In(todo[u], "stop source", x) /\ ~In(todo[u], "set track", x)
            /\ ~In(todo[u], "swap", x) /\ ~In(todo[u], "join decoder", x)
    BY <2>1
  <2>3. \A f \in Files : (playing[f] => source = f) /\ (Busy(f) => playing[f])
    BY <1>8, <1>80, <2>2 DEF DecoderInv
  <2>. QED
    BY <2>1, <2>3
<1>9. ASSUME ~overlap' PROVE ConnectionInv' /\ DecoderInv'
  <2>1. CASE t = "ui"
    <3>1. \A u \in Control : \A n, x : ~In(todo'[u], n, x)
      BY <1>4, <1>8, <1>9, <2>1
    <3>2. \A n : /\ ~Has("io", n)' /\ ~Has("ui", n)' /\ ~Some(n)'
                 /\ ~Some(n)
      BY <1>1, <1>8, <1>9, <2>1, <3>1, NoneIs, NoneNext DEF Has
    <3>3. UNCHANGED <<pc, sender, sending, source, active, requested, playing>>
      BY <1>2, <1>4, <2>1 DEF input
    <3>4. ConnectionInv'
      BY <1>1, <1>8, <1>9, <3>1, <3>2, <3>3 DEF ConnectionInv
    <3>. QED
      BY <1>8, <1>80, <1>9, <3>1, <3>2, <3>3, <3>4 DEF DecoderInv
  <2>2. CASE t = "io"
    <3>1. ~sender /\ source = "none"
      BY <1>5, <1>8, <1>9, <2>2 DEF ConnectionInv
    <3>2. \A f \in Files : ~playing[f] /\ ~Busy(f)
      BY <1>80, <1>9, <3>1, NamesAssumption
    <3>3. \A n \in CloseNames : Has("io", n)'
      BY <1>4, <2>2 DEF Has
    <3>4. \A n, x : In(todo'["io"], n, x) => (n = "stop source") \/ (n \in CloseNames /\ x = "none")
      BY <1>4, <2>2
    <3>5. "io" \in Closers /\ \A u \in Control : u # "io" => \A n, x : ~In(todo'[u], n, x)
      BY <1>8, <1>9, <2>2 DEF Closers
    <3>6. ~sender'
      BY <1>2, <3>1
    <3>7. ConnectionInv'
      BY <3>3, <3>4, <3>5, <3>6, ClosingIs
    <3>. QED
      BY <1>2, <1>8, <1>9, <3>2, <3>7 DEF DecoderInv
  <2>. QED
    BY <1>41, <2>1, <2>2
<1>10. ASSUME ~overlap', ~stray' PROVE ModeInv'
  <2>1. ModeInv
    BY <1>3, <1>10 DEF IInv
  <2>2. /\ \A x : ~In(todo'["io"], "create", x) /\ ~In(todo'["ui"], "swap", x)
    <3>1. \A n, x : In(todo'[t], n, x) => n \in CloseNames \cup {"stop source"}
      BY <1>4, <1>41
    <3>2. "create" \notin CloseNames \cup {"stop source"} /\ "swap" \notin CloseNames \cup {"stop source"}
      BY DEF CloseNames
    <3>. QED
      BY <1>1, <1>8, <1>10, <3>1, <3>2
  <2>3. source' = source \/ source' = "none"
    BY <1>4, <1>41
  <2>4. \A x : ~In(todo["ui"], "set track", x) /\ ~In(todo["ui"], "swap", x)
    BY <1>1, <1>80, <1>10
  <2>5. Natural' <=> Natural
    BY <1>2, <1>8, <1>10 DEF Natural, input
  <2>6. source' \in Files => mode' = "synthetic" \/ In(todo'[source'], "use synthetic", "none")
    <3>1. source \in Files => mode = "synthetic" \/ Has(source, "use synthetic")
      BY <2>1, <2>4 DEF ModeInv
    <3>2. (source' \in Files => source' = source) /\ mode' = mode
      BY <1>2, <2>3, NamesAssumption DEF input
    <3>. QED
      BY <1>8, <1>10, <3>1, <3>2 DEF Has
  <2>7. source' = "camera" => Natural'
    BY <2>1, <2>3, <2>4, <2>5 DEF ModeInv
  <2>. QED
    BY <2>2, <2>6, <2>7 DEF ModeInv, Has
<1>. QED
  BY <1>1, <1>2, <1>3, <1>4, <1>6, <1>7, <1>9, <1>10, EngineDone

\* The connection, when only the user interface thread works.
LEMMA SwitchingIs ==
  ASSUME ConnectionInv,
         \A u \in Control : u # "ui" => \A n, x : ~In(todo[u], n, x) /\ ~In(todo'[u], n, x),
         UNCHANGED <<pc, sender, sending, requested>>,
         active' => active \/ pc,
         source' = source \/ (pc /\ source' # "none"),
         Has("ui", "use microphone")' => In(todo'["ui"], "swap", "camera"),
         Has("ui", "use synthetic")' => \E f \in Files : In(todo'["ui"], "swap", f)
  PROVE  ConnectionInv'
<1>0. "io" \in Control /\ "io" # "ui"
  BY DEF Control
<1>1. \A n : ~Some(n) /\ ~Some(n)' /\ ~Has("io", n)'
  BY <1>0, NoneIs, NoneNext DEF Has
<1>10. \A n, x : ~In(todo'["io"], n, x)
  BY <1>0
<1>2. /\ (source # "none" \/ active \/ sender) => pc
      /\ sender => source # "none"
      /\ sending => pc
      /\ requested => sending
  BY <1>1 DEF ConnectionInv
<1>3. /\ (source' # "none" \/ active' \/ sender') => pc'
      /\ sender' => source' # "none"
      /\ sending' => pc'
      /\ requested' => sending'
  BY <1>2
<1>. QED
  BY <1>1, <1>10, <1>3 DEF ConnectionInv

\* The track of the sender is replaced, or the source given up.
LEMMA SetTrackKeeps ==
  ASSUME IInv, SetTrack
  PROVE  IInv'
<1>1. /\ Types /\ ShapeInv /\ "ui" \in Control /\ "io" \in Control /\ "ui" # "io"
      /\ "ui" \in Threads
  BY DEF IInv, Control, Threads
<1>2. /\ Busy("ui") /\ broken' = (broken \/ ~sender)
      /\ UNCHANGED <<input, playing, engine, overlap>>
  BY DEF SetTrack, At
<1>3. UNCHANGED <<pc, sender, sending, source, kind, active, mode, requested>>
  BY <1>2 DEF engine, input
<1>4. /\ FrontAt("ui", "set track") /\ ShapeInv' /\ Others("ui") /\ Calmed("ui")
      /\ Arg("ui") \in Sources
      /\ \/ /\ stray' = stray
            /\ \A n, x : In(todo'["ui"], n, x) <=>
                  Readies(Kind(Arg("ui")), n, x) \/ (n = "swap" /\ x = Arg("ui"))
         \/ /\ stray' = (stray \/ (Arg("ui") \in Files /\ source \notin Files))
            /\ \A n, x : In(todo'["ui"], n, x) <=> n = "stop source" /\ x = Arg("ui")
  BY <1>1, SetTrackMoves
<1>40. \A n, x : ~Later(todo["ui"], n, x)
  BY <1>4 DEF FrontAt, LastNames
<1>5. \A n, x : In(todo["ui"], n, x) <=> n = "set track" /\ x = Arg("ui")
  BY <1>4, <1>40 DEF FrontAt
<1>50. \A n : n # "set track" => \A x : ~In(todo["ui"], n, x)
  BY <1>5
<1>51. \A x : In(todo["ui"], "set track", x) => x = Arg("ui")
  BY <1>5 DEF In
<1>6. IsEngine("set track") /\ Adds("ui", CalledByEngine)
  <2>1. /\ "set track" \notin SoundNames
        /\ {"use synthetic", "use microphone", "clear", "swap", "stop source"} \subseteq CalledByEngine
    BY DEF SoundNames, CalledByEngine, EngineNames
  <2>2. \A n, x : In(todo'["ui"], n, x) =>
           n \in {"use synthetic", "use microphone", "clear", "swap", "stop source"}
    BY <1>4 DEF Readies
  <2>. QED
    BY <1>40, <2>1, <2>2 DEF IsEngine, Adds
<1>7. EngineTypes'
  <2>1. broken' \in BOOLEAN
    BY <1>2
  <2>2. stray' \in BOOLEAN
    BY <1>1, <1>4 DEF Types
  <2>. QED
    BY <1>1, <1>2, <1>3, <2>1, <2>2 DEF Types, EngineTypes
<1>70. ~stray' => ~stray
  BY <1>4
<1>8. ASSUME ~overlap'
      PROVE  /\ HandleInv /\ ConnectionInv /\ DecoderInv
             /\ \A f \in Files : todo'[f] = todo[f] /\ (Busy(f)' <=> Busy(f))
             /\ \A u \in Control : u # "ui" => \A n, x : ~In(todo[u], n, x) /\ ~In(todo'[u], n, x)
             /\ Taking' = Taking
  BY <1>1, <1>2, <1>4, <1>8, EngineGiven
<1>80. ~overlap' => ~overlap /\ broken' = broken
  <2>1. ASSUME ~overlap' PROVE broken' = broken
    <3>1. sender
      BY <1>2, <1>8, <2>1 DEF HandleInv
    <3>2. broken \in BOOLEAN
      BY <1>1 DEF Types
    <3>. QED
      BY <1>2, <3>1, <3>2
  <2>. QED
    BY <1>2, <2>1
<1>81. Kind(Arg("ui")) = "file" <=> Arg("ui") \in Files
  BY DEF Kind
<1>82. Arg("ui") \notin Files => Arg("ui") = "camera"
  BY <1>4 DEF Sources
<1>9. ASSUME ~overlap' PROVE ConnectionInv' /\ DecoderInv'
  <2>1. /\ Has("ui", "use microphone")' => In(todo'["ui"], "swap", "camera")
        /\ Has("ui", "use synthetic")' => \E f \in Files : In(todo'["ui"], "swap", f)
    <3>1. CASE \A n, x : In(todo'["ui"], n, x) <=>
                  Readies(Kind(Arg("ui")), n, x) \/ (n = "swap" /\ x = Arg("ui"))
      <4>1. In(todo'["ui"], "swap", Arg("ui"))
        BY <3>1
      <4>2. /\ Has("ui", "use microphone")' => Arg("ui") \notin Files
            /\ Has("ui", "use synthetic")' => Arg("ui") \in Files
        <5>1. /\ In(todo'["ui"], "use microphone", "none") => Arg("ui") \notin Files
              /\ In(todo'["ui"], "use synthetic", "none") => Arg("ui") \in Files
          BY <1>81, <3>1 DEF In, Readies
        <5>. QED
          BY <5>1 DEF Has
      <4>. QED
        BY <1>82, <4>1, <4>2
    <3>2. CASE \A n, x : In(todo'["ui"], n, x) <=> n = "stop source" /\ x = Arg("ui")
      <4>1. ~Has("ui", "use microphone")' /\ ~Has("ui", "use synthetic")'
        <5>1. \A x : ~In(todo'["ui"], "use microphone", x) /\ ~In(todo'["ui"], "use synthetic", x)
          BY <3>2 DEF In
        <5>. QED
          BY <5>1 DEF Has
      <4>. QED
        BY <4>1
    <3>. QED
      BY <1>4, <3>1, <3>2
  <2>2. ConnectionInv'
    <3>1. /\ ConnectionInv
          /\ \A u \in Control : u # "ui" => \A n, x : ~In(todo[u], n, x) /\ ~In(todo'[u], n, x)
      BY <1>8, <1>9
    <3>. QED
      BY <1>3, <2>1, <3>1, SwitchingIs
  <2>3. \A f \in Files : In(todo["ui"], "set track", f) =>
           In(todo'["ui"], "swap", f) \/ In(todo'["ui"], "stop source", f)
    BY <1>4, <1>51
  <2>4. \A u \in Control : \A x :
            /\ ~In(todo[u], "stop source", x) /\ ~In(todo[u], "swap", x)
            /\ ~In(todo[u], "join decoder", x) /\ ~In(todo'[u], "join decoder", x)
    <3>1. \A x : ~In(todo'["ui"], "join decoder", x)
      BY <1>4 DEF Readies, In
    <3>. QED
      BY <1>50, <1>8, <1>9, <3>1
  <2>5. \A f \in Files : /\ playing[f] => source = f \/ In(todo["ui"], "set track", f)
                         /\ Busy(f) => playing[f]
    BY <1>50, <1>8, <1>9, <2>4 DEF DecoderInv
  <2>6. ~Some("release")'
    BY <1>8, <1>9, NoneNext
  <2>7. UNCHANGED <<playing, source>>
    BY <1>2, <1>3
  <2>. QED
    BY <1>1, <1>8, <1>9, <2>2, <2>3, <2>4, <2>5, <2>6, <2>7 DEF DecoderInv
<1>10. ASSUME ~overlap', ~stray' PROVE ModeInv'
  <2>1. ModeInv
    BY <1>2, <1>70, <1>10 DEF IInv
  <2>2. Natural' <=> Natural
    BY <1>3, <1>8, <1>10 DEF Natural
  <2>3. source' \in Files => mode' = "synthetic" \/ In(todo'[source'], "use synthetic", "none")
    <3>1. source \in Files => mode = "synthetic" \/ Has(source, "use synthetic")
      BY <1>50, <2>1 DEF ModeInv
    <3>. QED
      BY <1>3, <1>8, <1>10, <3>1 DEF Has
  <2>4. source = "camera" => Natural \/ Arg("ui") \in Files
    BY <1>50, <1>51, <2>1 DEF ModeInv
  <2>5. \A x : ~In(todo'["io"], "create", x)
    BY <1>1, <1>8, <1>10
  <2>6. CASE \A n, x : In(todo'["ui"], n, x) <=>
                  Readies(Kind(Arg("ui")), n, x) \/ (n = "swap" /\ x = Arg("ui"))
    <3>1. /\ In(todo'["ui"], "swap", Arg("ui"))
          /\ \A x : In(todo'["ui"], "swap", x) => x = Arg("ui")
      <4>1. \A x : In(todo'["ui"], "swap", x) => x = Arg("ui")
        BY <2>6 DEF Readies, In
      <4>. QED
        BY <2>6, <4>1
    <3>2. /\ Arg("ui") \in Files => Has("ui", "use synthetic")'
          /\ Arg("ui") \notin Files => Has("ui", "use microphone")'
      BY <1>81, <2>6 DEF Has, Readies
    <3>3. "camera" \notin Files
      BY NamesAssumption
    <3>. QED
      BY <1>3, <2>2, <2>3, <2>4, <2>5, <3>1, <3>2, <3>3 DEF ModeInv, Has
  <2>7. CASE /\ stray' = (stray \/ (Arg("ui") \in Files /\ source \notin Files))
             /\ \A n, x : In(todo'["ui"], n, x) <=> n = "stop source" /\ x = Arg("ui")
    <3>1. \A x : ~In(todo'["ui"], "swap", x)
      BY <2>7 DEF In
    <3>2. source = "camera" => Arg("ui") \notin Files
      BY <1>10, <2>7, NamesAssumption
    <3>. QED
      BY <1>3, <2>2, <2>3, <2>4, <2>5, <3>1, <3>2 DEF ModeInv, Has
  <2>. QED
    BY <1>4, <2>6, <2>7
<1>. QED
  BY <1>1, <1>2, <1>3, <1>4, <1>6, <1>7, <1>70, <1>80, <1>9, <1>10, EngineDone

\* The new source becomes the current one.
LEMMA SwapKeeps ==
  ASSUME IInv, Swap
  PROVE  IInv'
<1>1. /\ Types /\ ShapeInv /\ "ui" \in Control /\ "io" \in Control /\ "ui" # "io"
      /\ "ui" \in Threads
  BY DEF IInv, Control, Threads
<1>2. /\ Busy("ui") /\ source' = Arg("ui") /\ kind' = Kind(Arg("ui")) /\ active' = TRUE
      /\ UNCHANGED <<input, playing, pc, sender, sending, history>>
  BY DEF Swap, At
<1>3. UNCHANGED <<mode, requested, overlap, stray, broken>>
  BY <1>2 DEF history, input
<1>4. /\ FrontAt("ui", "swap") /\ ShapeInv' /\ Others("ui") /\ Calmed("ui")
      /\ Arg("ui") \in Sources
      /\ \A n, x : In(todo'["ui"], n, x) <=>
            (n = "stop source" /\ x = source) \/ (n = "return" /\ x = Arg("ui"))
  BY <1>1, SwapMoves
<1>40. \A n, x : ~Later(todo["ui"], n, x)
  BY <1>4 DEF FrontAt, LastNames
<1>5. \A n, x : In(todo["ui"], n, x) <=> n = "swap" /\ x = Arg("ui")
  BY <1>4, <1>40 DEF FrontAt
<1>50. \A n : n # "swap" => \A x : ~In(todo["ui"], n, x)
  BY <1>5
<1>51. /\ \A x : In(todo["ui"], "swap", x) => x = Arg("ui")
       /\ In(todo["ui"], "swap", Arg("ui"))
  BY <1>5
<1>52. /\ In(todo'["ui"], "stop source", source)
       /\ \A n : n \notin {"stop source", "return"} => \A x : ~In(todo'["ui"], n, x)
  BY <1>4
<1>6. IsEngine("swap") /\ Adds("ui", CalledByEngine)
  <2>1. /\ "swap" \notin SoundNames
        /\ {"stop source", "return"} \subseteq CalledByEngine
    BY DEF SoundNames, CalledByEngine, EngineNames
  <2>. QED
    BY <1>40, <1>52, <2>1 DEF IsEngine, Adds
<1>7. EngineTypes'
  <2>1. source' \in Sources \cup {"none"} /\ kind' \in Kinds /\ active' \in BOOLEAN
    BY <1>2, <1>4 DEF Kind, Kinds
  <2>. QED
    BY <1>1, <1>2, <1>3, <2>1 DEF Types, EngineTypes
<1>8. ASSUME ~overlap'
      PROVE  /\ HandleInv /\ ConnectionInv /\ DecoderInv
             /\ \A f \in Files : todo'[f] = todo[f] /\ (Busy(f)' <=> Busy(f))
             /\ \A u \in Control : u # "ui" => \A n, x : ~In(todo[u], n, x) /\ ~In(todo'[u], n, x)
             /\ Taking' = Taking
  BY <1>1, <1>2, <1>3, <1>4, <1>8, EngineGiven
<1>9. ASSUME ~overlap' PROVE ConnectionInv' /\ DecoderInv'
  <2>1. ~Has("ui", "use microphone")' /\ ~Has("ui", "use synthetic")'
    BY <1>52 DEF Has
  <2>2. ConnectionInv'
    <3>1. /\ ConnectionInv
          /\ \A u \in Control : u # "ui" => \A n, x : ~In(todo[u], n, x) /\ ~In(todo'[u], n, x)
      BY <1>8, <1>9
    <3>2. pc
      BY <1>2, <1>8, <1>9 DEF HandleInv
    <3>3. source' # "none"
      BY <1>2, <1>4, NamesAssumption DEF Sources
    <3>4. UNCHANGED <<pc, sender, sending, requested>>
      BY <1>2, <1>3
    <3>. QED
      BY <2>1, <3>1, <3>2, <3>3, <3>4, SwitchingIs
  <2>4. \A u \in Control : \A x :
            /\ ~In(todo[u], "stop source", x) /\ ~In(todo[u], "set track", x)
            /\ ~In(todo[u], "join decoder", x) /\ ~In(todo'[u], "join decoder", x)
    BY <1>50, <1>52, <1>8, <1>9
  <2>5. \A f \in Files : /\ playing[f] => source = f \/ f = Arg("ui")
                         /\ Busy(f) => playing[f]
    BY <1>51, <1>8, <1>9, <2>4 DEF DecoderInv
  <2>50. \A f \in Files : playing[f] => source' = f \/ In(todo'["ui"], "stop source", f)
    BY <1>2, <1>52, <2>5
  <2>6. ~Some("release")'
    BY <1>8, <1>9, NoneNext
  <2>. QED
    BY <1>1, <1>2, <1>8, <1>9, <2>2, <2>4, <2>50, <2>5, <2>6 DEF DecoderInv
<1>10. ASSUME ~overlap', ~stray' PROVE ModeInv'
  <2>1. ModeInv
    BY <1>3, <1>10 DEF IInv
  <2>2. Natural' <=> Natural
    BY <1>3, <1>8, <1>10 DEF Natural
  <2>3. source' \in Files => mode' = "synthetic"
    BY <1>2, <1>3, <1>50, <1>51, <2>1 DEF ModeInv, Has
  <2>4. source' = "camera" => Natural
    BY <1>2, <1>50, <1>51, <2>1 DEF ModeInv, Has
  <2>5. \A x : ~In(todo'["io"], "create", x) /\ ~In(todo'["ui"], "swap", x)
    BY <1>1, <1>52, <1>8, <1>10
  <2>. QED
    BY <2>2, <2>3, <2>4, <2>5 DEF ModeInv
<1>. QED
  BY <1>1, <1>2, <1>3, <1>4, <1>6, <1>7, <1>9, <1>10, EngineDone

\* A source is created: its decoder takes the audio input over.
LEMMA MakesKeeps ==
  ASSUME IInv, NEW t \in Threads, NEW s \in Sources, Makes(t, s),
         UNCHANGED <<input, pc, sender, sending, kind, active, history>>
  PROVE  IInv'
<1>1. Types /\ ShapeInv /\ PacedInv /\ "ui" \in Control /\ "io" \in Control /\ "ui" # "io"
  BY DEF IInv, Control
<1>2. UNCHANGED <<mode, requested, samples, live, running, thread, overlap, stray, broken>>
  BY DEF input, thread, history
<1>3. /\ t \in Control /\ t # s /\ FrontAt(t, "create") /\ ShapeInv'
      /\ todo' \in [Threads -> Seq(Steps)]
      /\ \A u \in Threads : u # t /\ u # s => todo'[u] = todo[u]
      /\ s \in Files => todo'[s] = DecodeLoop
      /\ t = "ui" => \A n, x : In(todo'[t], n, x) <=> n = "set track" /\ x = s
      /\ t = "io" => \A n, x : In(todo'[t], n, x) <=>
                        (n = "stop source" /\ x = source) \/ (n = "attach" /\ x = s)
  BY <1>1, CreateSourceMoves
<1>30. t = "ui" \/ t = "io"
  BY <1>3, NotTimer DEF Control
<1>4. /\ Busy(t) /\ Kind(s) = Arg(t) /\ (s \in Files => Free(s))
      /\ playing' = [f \in Files |-> f = s \/ playing[f]]
      /\ t = "ui" => source' = source
      /\ t = "io" => source' = s
  BY DEF Makes, At
<1>5. s \in Files => ~Busy(s) /\ source # s /\ \A n, x : ~In(todo[s], n, x)
  BY <1>1, <1>4, IdleIs DEF Free, Threads
<1>6. /\ \A n : n # "create" => \A x : ~In(todo[t], n, x)
      /\ In(todo[t], "create", Arg(t)) /\ Arg(t) \in Kinds
  <2>1. \A n, x : ~Later(todo[t], n, x)
    BY <1>3 DEF FrontAt, LastNames
  <2>. QED
    BY <1>3, <2>1 DEF FrontAt, ArgsOf
<1>60. \A n : n \notin {"set track", "stop source", "attach"} => \A x : ~In(todo'[t], n, x)
  <2>1. CASE t = "ui"
    BY <1>3, <2>1
  <2>2. CASE t = "io"
    BY <1>3, <2>2
  <2>. QED
    BY <1>30, <2>1, <2>2
<1>61. Control \cap Files = {} /\ Control \subseteq Threads /\ Files \subseteq Threads
  BY NamesAssumption DEF Control, Threads
<1>62. s \notin Control
  BY NamesAssumption DEF Control, Sources
<1>63. \A u \in Control : u # t => todo'[u] = todo[u]
  BY <1>3, <1>61, <1>62
<1>64. \A f \in Files : f # s => todo'[f] = todo[f] /\ (playing'[f] <=> playing[f])
  BY <1>3, <1>4, <1>61
<1>65. s \in Files => /\ playing'[s] /\ First(todo'[s], "use synthetic")
                      /\ \A n, x : In(todo'[s], n, x) <=>
                            n \in {"use synthetic", "clear", "read"} /\ x = "none"
  <2>1. s \in Files => todo'[s] = DecodeLoop
    BY <1>3
  <2>2. s \in Files => playing'[s]
    BY <1>4
  <2>3. First(DecodeLoop, "use synthetic")
    BY FourIs DEF First
  <2>4. \A n, x : In(DecodeLoop, n, x) <=> n \in {"use synthetic", "clear", "read"} /\ x = "none"
    BY FourIs
  <2>. QED
    BY <2>1, <2>2, <2>3, <2>4
<1>7. Types'
  <2>1. playing' \in [Files -> BOOLEAN]
    BY <1>4, <1>1 DEF Types
  <2>2. source' \in Sources \cup {"none"}
    BY <1>30, <1>4, <1>1 DEF Types
  <2>3. /\ pc' \in BOOLEAN /\ sender' \in BOOLEAN /\ sending' \in BOOLEAN /\ active' \in BOOLEAN
        /\ kind' \in Kinds
        /\ overlap' \in BOOLEAN /\ stray' \in BOOLEAN /\ broken' \in BOOLEAN
    BY <1>1, <1>2 DEF Types
  <2>. QED
    BY <1>1, <1>3, <2>1, <2>2, <2>3, InputTypes
<1>8. PacedInv'
  <2>1. samples' = samples
    BY <1>2
  <2>2. samples \in Nat
    BY <1>1 DEF Types
  <2>3. samples' \in Nat /\ samples' <= samples
    BY <2>1, <2>2
  <2>4. s \in Files => ~First(todo'[s], "push") /\ ~First(todo'[s], "read")
    BY <1>65 DEF First
  <2>5. Unpaced' \subseteq Unpaced
    BY <1>64, <2>4 DEF Unpaced
  <2>. QED
    BY <1>1, <2>3, <2>5, PacedLess
<1>9. ASSUME ~overlap'
      PROVE  /\ HandleInv /\ ConnectionInv /\ DecoderInv
             /\ \A u \in Control : u # t => ~Busy(u) /\ \A n, x : ~In(todo[u], n, x) /\ ~In(todo'[u], n, x)
             /\ \A u \in Control : \A n : n # "create" => \A x : ~In(todo[u], n, x)
             /\ \A u \in Control : \A n : n \notin {"set track", "stop source", "attach"} =>
                   \A x : ~In(todo'[u], n, x)
  <2>1. HandleInv /\ ConnectionInv /\ DecoderInv
    BY <1>2, <1>9 DEF IInv
  <2>2. \A u \in Control : u # t => ~Busy(u) /\ \A n, x : ~In(todo[u], n, x)
    BY <1>1, <1>3, <1>4, <2>1, Alone
  <2>3. \A u \in Control : u # t => \A n, x : ~In(todo'[u], n, x)
    BY <1>63, <2>2
  <2>. QED
    BY <1>6, <1>60, <2>1, <2>2, <2>3
<1>10. ASSUME ~overlap' PROVE HandleInv'
  <2>1. SameIn(HandleNames)
    <3>1. \A n \in HandleNames : n # "create" /\ n \notin {"set track", "stop source", "attach"}
      BY DEF HandleNames
    <3>. QED
      BY <1>9, <1>10, <3>1 DEF SameIn
  <2>2. \A u \in Control : u # t => ~Busy(u)'
    BY <1>9, <1>10, <1>63 DEF Busy
  <2>3. Single'
    BY <2>2 DEF Single
  <2>4. Busy("ui")' => pc' /\ sender'
    <3>1. ASSUME Busy("ui")' PROVE pc /\ sender
      <4>1. t = "ui"
        BY <1>1, <2>2, <3>1
      <4>. QED
        BY <1>4, <1>9, <1>10, <4>1 DEF HandleInv
    <3>. QED
      BY <3>1
  <2>5. HandleInv
    BY <1>9, <1>10
  <2>. QED
    BY <1>2, <2>1, <2>3, <2>4, <2>5, HandleKept
<1>11. ASSUME ~overlap', t = "ui" PROVE ConnectionInv'
  <2>1. /\ ConnectionInv
        /\ \A u \in Control : u # "ui" => \A n, x : ~In(todo[u], n, x) /\ ~In(todo'[u], n, x)
    BY <1>1, <1>9, <1>11
  <2>2. ~Has("ui", "use microphone")' /\ ~Has("ui", "use synthetic")'
    BY <1>1, <1>9, <1>11 DEF Has
  <2>3. UNCHANGED <<pc, sender, sending, requested, active, source>>
    BY <1>2, <1>4, <1>11
  <2>4. UNCHANGED <<pc, sender, sending, requested>>
    BY <2>3
  <2>5. active' => active \/ pc
    BY <2>3
  <2>. QED
    BY <2>1, <2>2, <2>3, <2>4, <2>5, SwitchingIs
<1>12. ASSUME ~overlap', t = "io"
       PROVE  /\ ConnectionInv' /\ pc /\ ~sender /\ source = "none"
              /\ \A x : In(todo'["io"], "attach", x) => x = s
  <2>1. pc /\ ~sender /\ source = "none" /\ ConnectionInv
    BY <1>6, <1>9, <1>12 DEF ConnectionInv
  <2>2. \A x : In(todo'["io"], "attach", x) => x = s
    <3>1. \A n, x : In(todo'["io"], n, x) <=> (n = "stop source" /\ x = source) \/ (n = "attach" /\ x = s)
      <4>1. t = "io" => \A n, x : In(todo'[t], n, x) <=>
                          (n = "stop source" /\ x = source) \/ (n = "attach" /\ x = s)
        BY <1>3
      <4>. QED
        BY <1>12, <4>1
    <3>. QED
      BY <3>1 DEF In
  <2>3. \A n : n \notin {"create", "set track", "stop source", "attach"} =>
           ~Some(n) /\ ~Some(n)' /\ ~Has("io", n)' /\ ~Has("ui", n)'
    <3>1. /\ "io" \in Closers
          /\ \A u \in Control : u # "io" => \A n, x : ~In(todo[u], n, x) /\ ~In(todo'[u], n, x)
      BY <1>9, <1>12 DEF Closers
    <3>2. \A n : (Some(n) <=> Has("io", n)) /\ (Some(n)' <=> Has("io", n)')
      BY <3>1, SomeIs, SomeNext
    <3>. QED
      BY <1>1, <1>9, <1>12, <3>2 DEF Has
  <2>4. \A x : ~In(todo'["io"], "create", x)
    BY <1>1, <1>9, <1>12
  <2>5. requested => sending
    BY <2>1, <2>3 DEF ConnectionInv
  <2>6. pc' /\ ~sender' /\ source' = s /\ (requested' => sending')
    BY <1>2, <1>4, <1>12, <2>1, <2>5
  <2>7. ConnectionInv'
    BY <2>2, <2>3, <2>4, <2>6 DEF ConnectionInv, Closing
  <2>. QED
    BY <2>1, <2>2, <2>7
<1>13. ASSUME ~overlap' PROVE DecoderInv'
  <2>1. \A u \in Control : \A x :
            /\ ~In(todo[u], "stop source", x) /\ ~In(todo[u], "set track", x)
            /\ ~In(todo[u], "swap", x) /\ ~In(todo[u], "join decoder", x)
            /\ ~In(todo'[u], "join decoder", x) /\ ~In(todo'[u], "release", x)
    BY <1>9, <1>13
  <2>2. \A f \in Files : (playing[f] => source = f) /\ (Busy(f) => playing[f])
    BY <1>9, <1>13, <2>1 DEF DecoderInv
  <2>3. \A f \in Files : f # s => (Busy(f)' => playing'[f])
    BY <1>64, <2>2 DEF Busy
  <2>4. \A f \in Files : f # s /\ playing'[f] => source' = f
    <3>1. CASE t = "ui"
      BY <1>4, <1>64, <2>2, <3>1
    <3>2. CASE t = "io"
      BY <1>12, <1>13, <1>64, <2>2, <3>2, NamesAssumption
    <3>. QED
      BY <1>30, <3>1, <3>2
  <2>5. s \in Files => playing'[s] /\ (source' = s \/ In(todo'[t], "set track", s))
    <3>1. t = "ui" => In(todo'[t], "set track", s)
      BY <1>3
    <3>. QED
      BY <1>30, <1>4, <1>65, <3>1
  <2>6. ~Some("release")'
    BY <2>1 DEF Some, InSome, Closers, Control
  <2>. QED
    BY <1>3, <2>1, <2>3, <2>4, <2>5, <2>6 DEF DecoderInv
<1>14. ASSUME ~overlap', ~stray' PROVE SoundInv'
  <2>1. SoundInv
    BY <1>2, <1>14 DEF IInv
  <2>2. \A u \in Threads : Has(u, "stop microphone") => Has(u, "stop microphone")'
    BY <1>3, <1>5, <1>6, <1>62 DEF Has, Threads, Sources
  <2>3. \A u \in Control : \A n \in {"stop thread", "join thread", "thread stopped"} :
           ~Has(u, n)
    BY <1>9, <1>14 DEF Has
  <2>4. \A u \in Control : ~Has(u, "start microphone")'
    BY <1>9, <1>14 DEF Has
  <2>5. \A u \in Threads : Has(u, "start thread")' => Has(u, "start thread")
    <3>1. ~Has(t, "start thread")'
      BY <1>60 DEF Has
    <3>2. s \in Files => ~Has(s, "start thread")'
      <4>1. s \in Files => ~In(todo'[s], "start thread", "none")
        BY <1>65 DEF In
      <4>. QED
        BY <4>1 DEF Has
    <3>. QED
      BY <1>3, <1>62, <3>1, <3>2 DEF Has, Threads
  <2>6. live' => \/ requested' /\ mode' = "microphone"
                 \/ \E u \in Threads : Has(u, "stop microphone")'
    BY <1>2, <2>1, <2>2 DEF SoundInv
  <2>7. running' => requested' /\ mode' = "synthetic"
    BY <1>2, <2>1, <2>3 DEF SoundInv
  <2>8. \A u \in Threads : Has(u, "start thread")' => requested' /\ mode' = "synthetic"
    BY <1>2, <2>1, <2>5 DEF SoundInv
  <2>. QED
    BY <2>4, <2>6, <2>7, <2>8 DEF SoundInv
<1>15. ASSUME ~overlap', ~stray' PROVE ModeInv'
  <2>1. ModeInv
    BY <1>2, <1>15 DEF IInv
  <2>2. \A x : /\ ~In(todo["ui"], "swap", x) /\ ~In(todo["ui"], "set track", x)
               /\ ~In(todo'["ui"], "swap", x) /\ ~In(todo'["io"], "create", x)
               /\ ~In(todo["io"], "use microphone", x)
    BY <1>1, <1>9, <1>15
  <2>3. s \notin Files => s = "camera" /\ Kind(s) = "camera"
    BY DEF Sources, Kind
  <2>4. s \notin Files => Taking' = Taking
    <3>1. ASSUME s \notin Files PROVE Taking' = Taking
      <4>1. \A f \in Files : f \in Taking' <=> Takes(todo'[f])
        BY <1>3, TakingNext
      <4>2. \A f \in Files : f \in Taking <=> Takes(todo[f])
        BY <1>1, TakingIs
      <4>3. \A f \in Files : todo'[f] = todo[f]
        BY <1>64, <3>1
      <4>4. \A f \in Files : f \in Taking' <=> f \in Taking
        BY <4>1, <4>2, <4>3
      <4>5. Taking' \subseteq Files /\ Taking \subseteq Files
        BY DEF Taking
      <4>. QED
        BY <4>4, <4>5
    <3>. QED
      BY <3>1
  <2>5. s \notin Files => (Natural' <=> Natural)
    BY <1>2, <2>4 DEF Natural
  <2>6. CASE t = "ui"
    <3>1. source' = source
      BY <1>4, <2>6
    <3>2. source' \in Files => mode' = "synthetic" \/ In(todo'[source'], "use synthetic", "none")
      <4>1. source \in Files => mode = "synthetic" \/ Has(source, "use synthetic")
        BY <2>1, <2>2 DEF ModeInv
      <4>2. source \in Files => todo'[source] = todo[source]
        BY <1>5, <1>64
      <4>. QED
        BY <1>2, <3>1, <4>1, <4>2 DEF Has
    <3>3. source = "camera" => Natural
      BY <2>1, <2>2 DEF ModeInv
    <3>4. s \in Files => In(todo'["ui"], "set track", s)
      BY <1>3, <2>6
    <3>. QED
      BY <2>2, <2>5, <3>1, <3>2, <3>3, <3>4 DEF ModeInv, Has
  <2>7. CASE t = "io"
    <3>1. source' = s
      BY <1>4, <2>7
    <3>2. source' \in Files => In(todo'[source'], "use synthetic", "none")
      BY <1>65, <3>1
    <3>3. source' = "camera" => Natural'
      <4>1. ASSUME s \notin Files PROVE Natural
        <5>1. In(todo["io"], "create", "camera")
          BY <1>4, <1>6, <2>3, <2>7, <4>1
        <5>. QED
          BY <2>1, <2>2, <5>1 DEF ModeInv, Has
      <4>2. s = "camera" => s \notin Files
        BY NamesAssumption
      <4>. QED
        BY <2>5, <3>1, <4>1, <4>2
    <3>. QED
      BY <2>2, <3>2, <3>3 DEF ModeInv, Has
  <2>. QED
    BY <1>30, <2>6, <2>7
<1>16. ~overlap' => ConnectionInv'
  BY <1>30, <1>11, <1>12
<1>. QED
  BY <1>3, <1>7, <1>8, <1>10, <1>13, <1>14, <1>15, <1>16 DEF IInv

\* CreateSource is the creation of some source.
LEMMA CreateSourceKeeps ==
  ASSUME IInv, NEW t \in Threads, CreateSource(t)
  PROVE  IInv'
<1>1. PICK s \in {f \in Files : Free(f)} \cup {"camera"} :
          /\ Kind(s) = Arg(t)
          /\ playing' = [f \in Files |-> f = s \/ playing[f]]
          /\ \/ /\ t = "ui"
                /\ Created(t, s, <<<<"set track", s>>>>)
                /\ UNCHANGED source
             \/ /\ t = "io"
                /\ Created(t, s, <<<<"stop source", source>>, <<"attach", s>>>>)
                /\ source' = s
  BY DEF CreateSource
<1>2. At(t, "create") /\ UNCHANGED <<input, pc, sender, sending, kind, active, history>>
  BY DEF CreateSource
<1>3. s \in Sources /\ (s \in Files => Free(s))
  BY NamesAssumption DEF Sources
<1>4. Makes(t, s)
  BY <1>1, <1>2, <1>3 DEF Makes
<1>. QED
  BY <1>2, <1>3, <1>4, MakesKeeps

\* A control thread that was idle starts something: what is given, and what is left to be shown.
LEMMA StartGiven ==
  ASSUME IInv, NEW t \in Control, ~Busy(t), Others(t), ShapeInv',
         ~overlap, \A u \in Control : u # t => ~Busy(u)
  PROVE  /\ HandleInv /\ ConnectionInv /\ DecoderInv
         /\ Taking' = Taking
         /\ \A f \in Files : todo'[f] = todo[f] /\ (Busy(f)' <=> Busy(f))
         /\ \A u \in Control : \A n, x : ~In(todo[u], n, x)
         /\ \A u \in Control : u # t => ~Busy(u)' /\ \A n, x : ~In(todo'[u], n, x)
<1>1. Types /\ ShapeInv /\ t \in Threads /\ Control \subseteq Threads
  BY DEF IInv, Threads
<1>2. HandleInv /\ ConnectionInv /\ DecoderInv
  BY DEF IInv
<1>3. Taking' = Taking /\ \A f \in Files : todo'[f] = todo[f]
  BY <1>1, DecodersSame
<1>4. \A f \in Files : Busy(f)' <=> Busy(f)
  BY <1>3 DEF Busy
<1>5. \A u \in Control : u # t => todo'[u] = todo[u]
  BY <1>1 DEF Others
<1>6. \A u \in Control : \A n, x : ~In(todo[u], n, x)
  BY <1>1, IdleIs
<1>7. \A u \in Control : u # t => ~Busy(u)'
  BY <1>5 DEF Busy
<1>. QED
  BY <1>2, <1>3, <1>4, <1>5, <1>6, <1>7

StartNames ==
    CloseNames \cup {"use microphone", "use synthetic", "create"}

\* What is left to be shown of such a start.
LEMMA StartDone ==
  ASSUME IInv, NEW t \in Control, ~Busy(t), Others(t), ShapeInv', Calmed(t),
         \A n, x : In(todo'[t], n, x) => n \in StartNames,
         UNCHANGED input, UNCHANGED playing, UNCHANGED <<stray, broken>>, EngineTypes',
         ~overlap' => ~overlap /\ \A u \in Control : u # t => ~Busy(u),
         t = "ui" => pc' /\ sender',
         ~overlap' => ConnectionInv' /\ DecoderInv',
         ~overlap' /\ ~stray' => ModeInv'
  PROVE  IInv'
<1>1. Types /\ ShapeInv /\ PacedInv /\ t \in Threads
  BY DEF IInv, Threads
<1>2. Types'
  <2>1. todo' \in [Threads -> Seq(Steps)]
    BY DEF Others
  <2>2. playing' \in [Files -> BOOLEAN]
    BY <1>1 DEF Types
  <2>3. /\ pc' \in BOOLEAN /\ sender' \in BOOLEAN /\ sending' \in BOOLEAN /\ active' \in BOOLEAN
        /\ source' \in Sources \cup {"none"} /\ kind' \in Kinds
        /\ overlap' \in BOOLEAN /\ stray' \in BOOLEAN /\ broken' \in BOOLEAN
    BY DEF EngineTypes
  <2>. QED
    BY <1>1, <2>1, <2>2, <2>3, InputTypes
<1>3. PacedInv'
  <2>1. \A f \in Files : playing'[f] => playing[f]
    OBVIOUS
  <2>. QED
    BY <1>1, <2>1, InputPaced
<1>4. ASSUME ~overlap'
      PROVE  /\ HandleInv /\ Taking' = Taking
             /\ \A u \in Control : \A n, x : ~In(todo[u], n, x)
             /\ \A u \in Control : u # t => ~Busy(u)' /\ \A n, x : ~In(todo'[u], n, x)
  BY <1>4, StartGiven
<1>5. \A n \in SoundNames : n \notin StartNames
  BY DEF SoundNames, StartNames, CloseNames
<1>6. ASSUME ~overlap' PROVE Same(SoundNames)
  <2>1. \A n \in SoundNames : \A x : ~In(todo[t], n, x) /\ ~In(todo'[t], n, x)
    BY <1>4, <1>5, <1>6
  <2>. QED
    BY <2>1 DEF Same, Others
<1>7. ASSUME ~overlap' PROVE HandleInv'
  <2>1. SameIn(HandleNames)
    <3>1. HandleNames \subseteq SoundNames /\ Control \subseteq Threads
      BY DEF HandleNames, SoundNames, Threads
    <3>. QED
      BY <1>6, <1>7, <3>1 DEF Same, SameIn
  <2>2. Single' /\ (Busy("ui")' => pc' /\ sender')
    <3>1. Single'
      BY <1>4, <1>7 DEF Single
    <3>2. "ui" \in Control
      BY DEF Control
    <3>. QED
      BY <1>4, <1>7, <3>1, <3>2
  <2>3. UNCHANGED <<thread, broken>>
    BY DEF input
  <2>4. HandleInv
    BY <1>4, <1>7
  <2>. QED
    BY <2>1, <2>2, <2>3, <2>4, HandleKept
<1>8. ASSUME ~overlap', ~stray' PROVE SoundInv'
  <2>1. SoundInv
    BY <1>8 DEF IInv
  <2>2. UNCHANGED <<requested, mode, live, running>>
    BY DEF input, thread
  <2>3. Taking' \subseteq Taking
    BY <1>4, <1>8
  <2>. QED
    BY <1>6, <1>8, <2>1, <2>2, <2>3, SoundKept
<1>. QED
  BY <1>2, <1>3, <1>7, <1>8 DEF IInv

\* The mode, while no control thread was doing anything.
LEMMA ModeIdle ==
  ASSUME ModeInv, \A n, x : ~In(todo["ui"], n, x),
         \A f \in Files : todo'[f] = todo[f], Taking' = Taking, UNCHANGED <<mode, source>>,
         \A x : ~In(todo'["ui"], "swap", x),
         In(todo'["io"], "create", "camera") => Has("io", "use microphone")'
  PROVE  ModeInv'
<1>1. Natural' <=> Natural
  BY DEF Natural
<1>2. source' \in Files => mode' = "synthetic" \/ In(todo'[source'], "use synthetic", "none")
  <2>1. source \in Files => mode = "synthetic" \/ Has(source, "use synthetic")
    BY DEF ModeInv
  <2>. QED
    BY <2>1 DEF Has
<1>3. source' = "camera" => Natural'
  BY <1>1 DEF ModeInv
<1>. QED
  BY <1>2, <1>3 DEF ModeInv, Has

\* With idle control threads, only the current source plays.
LEMMA DecodersIdle ==
  ASSUME DecoderInv, \A u \in Control : \A n, x : ~In(todo[u], n, x)
  PROVE  \A f \in Files : (playing[f] => source = f) /\ (Busy(f) => playing[f])
  BY DEF DecoderInv

\* ClosePeerConnection starts.
LEMMA StartCloseKeeps ==
  ASSUME IInv, NEW t \in Closers, StartClose(t)
  PROVE  IInv'
<1>1. /\ Types /\ ShapeInv /\ "ui" \in Control /\ "io" \in Control
      /\ t \in Control /\ t # "ui"
  BY CloserIs DEF IInv, Control
<1>2. /\ ~Busy(t) /\ overlap' = (overlap \/ Beside(t)) /\ Return(t, ClosePeerConnection)
      /\ UNCHANGED <<input, playing, engine, stray, broken>>
  BY DEF StartClose
<1>3. UNCHANGED <<pc, sender, sending, source, kind, active, mode, requested>>
  BY <1>2 DEF engine, input
<1>4. /\ ShapeInv' /\ Others(t) /\ Calmed(t)
      /\ \A n, x : In(todo'[t], n, x) <=> n \in CloseNames /\ x = "none"
  BY <1>1, <1>2, CloseMoves
<1>5. \A n, x : In(todo'[t], n, x) => n \in StartNames
  BY <1>4 DEF StartNames
<1>6. EngineTypes'
  <2>1. overlap' \in BOOLEAN
    BY <1>1, <1>2 DEF Types, Beside
  <2>. QED
    BY <1>1, <1>2, <1>3, <2>1 DEF Types, EngineTypes
<1>7. ~overlap' => ~overlap /\ \A u \in Control : u # t => ~Busy(u)
  BY <1>2 DEF Beside
<1>8. ASSUME ~overlap'
      PROVE  /\ HandleInv /\ ConnectionInv /\ DecoderInv
             /\ Taking' = Taking
             /\ \A f \in Files : todo'[f] = todo[f] /\ (Busy(f)' <=> Busy(f))
             /\ \A u \in Control : \A n, x : ~In(todo[u], n, x)
             /\ \A u \in Control : u # t => \A n, x : ~In(todo'[u], n, x)
  BY <1>1, <1>2, <1>4, <1>7, <1>8, StartGiven
<1>9. ASSUME ~overlap' PROVE ConnectionInv' /\ DecoderInv'
  <2>1. \A n \in CloseNames : Has(t, n)'
    BY <1>4 DEF Has
  <2>2. \A n, x : In(todo'[t], n, x) => n = "stop source" \/ (n \in CloseNames /\ x = "none")
    BY <1>4
  <2>3. sender' => source' # "none"
    BY <1>3, <1>8, <1>9 DEF ConnectionInv
  <2>4. ConnectionInv' /\ Some("stop current")'
    BY <1>8, <1>9, <2>1, <2>2, <2>3, ClosingIs
  <2>5. \A f \in Files : (playing[f] => source = f) /\ (Busy(f) => playing[f])
    BY <1>8, <1>9, DecodersIdle
  <2>7. \A u \in Control : \A x : ~In(todo'[u], "join decoder", x)
    <3>1. "join decoder" \notin CloseNames
      BY DEF CloseNames
    <3>. QED
      BY <1>8, <1>9, <2>2, <3>1
  <2>. QED
    BY <1>2, <1>3, <1>8, <1>9, <2>4, <2>5, <2>7 DEF DecoderInv
<1>10. ASSUME ~overlap', ~stray' PROVE ModeInv'
  <2>1. ModeInv
    BY <1>2, <1>7, <1>10 DEF IInv
  <2>2. ~In(todo'["io"], "create", "camera")
    <3>1. "create" \notin CloseNames
      BY DEF CloseNames
    <3>2. \A n, x : In(todo'[t], n, x) => n \in CloseNames
      BY <1>4
    <3>. QED
      BY <1>1, <1>8, <1>10, <3>1, <3>2
  <2>. QED
    <3>1. \A n, x : ~In(todo["ui"], n, x) /\ ~In(todo'["ui"], n, x)
      BY <1>1, <1>8, <1>10
    <3>. QED
      BY <1>3, <1>8, <1>10, <2>1, <2>2, <3>1, ModeIdle
<1>. QED
  BY <1>1, <1>2, <1>4, <1>5, <1>6, <1>7, <1>9, <1>10, StartDone

\* AddTracks starts.
LEMMA AddTracksKeeps ==
  ASSUME IInv, AddTracks
  PROVE  IInv'
<1>1. Types /\ ShapeInv /\ "ui" \in Control /\ "io" \in Control /\ "ui" # "io" /\ "io" \in Closers
  BY DEF IInv, Control, Closers
<1>2. /\ ~Busy("io") /\ ~pc /\ pc' = TRUE /\ overlap' = (overlap \/ Beside("io"))
      /\ UNCHANGED <<input, playing, sender, sending, source, kind, active, stray, broken>>
  BY DEF AddTracks
<1>3. UNCHANGED <<mode, requested>>
  BY <1>2 DEF input
<1>4. /\ ShapeInv' /\ Others("io") /\ Calmed("io")
      /\ \A n, x : In(todo'["io"], n, x) <=>
            Readies(kind, n, x) \/ (n = "create" /\ x = kind)
  BY <1>1, AddTracksMoves
<1>40. \A n, x : In(todo'["io"], n, x) => n \in {"use microphone", "use synthetic", "clear", "create"}
  BY <1>4 DEF Readies
<1>41. /\ \A x : In(todo'["io"], "create", x) => x = kind
       /\ In(todo'["io"], "use microphone", "none") => kind # "file"
       /\ In(todo'["io"], "use synthetic", "none") => kind = "file"
  BY <1>4 DEF Readies, In
<1>42. /\ In(todo'["io"], "create", kind)
       /\ kind # "file" => In(todo'["io"], "use microphone", "none")
  BY <1>4 DEF Readies
<1>5. \A n, x : In(todo'["io"], n, x) => n \in StartNames
  BY <1>40 DEF StartNames, CloseNames
<1>6. EngineTypes'
  <2>1. overlap' \in BOOLEAN /\ pc' \in BOOLEAN
    BY <1>1, <1>2 DEF Types, Beside
  <2>. QED
    BY <1>1, <1>2, <2>1 DEF Types, EngineTypes
<1>7. ~overlap' => ~overlap /\ \A u \in Control : u # "io" => ~Busy(u)
  BY <1>2 DEF Beside
<1>8. ASSUME ~overlap'
      PROVE  /\ HandleInv /\ ConnectionInv /\ DecoderInv
             /\ Taking' = Taking
             /\ \A f \in Files : todo'[f] = todo[f] /\ (Busy(f)' <=> Busy(f))
             /\ \A u \in Control : \A n, x : ~In(todo[u], n, x)
             /\ \A u \in Control : u # "io" => \A n, x : ~In(todo'[u], n, x)
  BY <1>1, <1>2, <1>4, <1>7, <1>8, StartGiven
<1>80. kind = "camera" \/ kind = "file"
  BY <1>1 DEF Types, Kinds
<1>9. ASSUME ~overlap' PROVE ConnectionInv' /\ DecoderInv'
  <2>1. \A n : ~Some(n)
    BY <1>8, <1>9 DEF Some, InSome, Closers, Control
  <2>2. source = "none" /\ ~active /\ ~sender /\ ~sending /\ ~requested
    BY <1>2, <1>8, <1>9, <2>1 DEF ConnectionInv
  <2>3. pc' /\ source' = "none" /\ ~active' /\ ~sender' /\ ~sending' /\ ~requested'
    BY <1>2, <1>3, <2>2
  <2>4. /\ \A n \in Closing \cup {"release"} : ~Some(n)'
        /\ \A x : ~In(todo'["io"], "attach", x)
    <3>1. \A n \in Closing \cup {"release", "attach"} :
             n \notin {"use microphone", "use synthetic", "clear", "create"}
      BY DEF Closing
    <3>2. \A n \in Closing \cup {"release", "attach"} : \A x : ~In(todo'["io"], n, x)
      BY <1>40, <3>1
    <3>. QED
      BY <1>1, <1>8, <1>9, <3>2, SomeNext DEF Has
  <2>5. /\ Has("io", "use microphone")' => In(todo'["io"], "create", "camera")
        /\ Has("io", "use synthetic")' => In(todo'["io"], "create", "file")
    BY <1>41, <1>42, <1>80 DEF Has
  <2>6. \A n : ~Has("ui", n)'
    BY <1>1, <1>8, <1>9 DEF Has
  <2>7. ConnectionInv'
    BY <2>3, <2>4, <2>5, <2>6 DEF ConnectionInv
  <2>8. \A f \in Files : (playing[f] => source = f) /\ (Busy(f) => playing[f])
    BY <1>8, <1>9, DecodersIdle
  <2>9. \A f \in Files : ~playing[f] /\ ~Busy(f)
    BY <2>2, <2>8, NamesAssumption
  <2>. QED
    BY <1>2, <1>8, <1>9, <2>7, <2>9 DEF DecoderInv
<1>10. ASSUME ~overlap', ~stray' PROVE ModeInv'
  <2>1. ModeInv
    BY <1>2, <1>7, <1>10 DEF IInv
  <2>2. In(todo'["io"], "create", "camera") => Has("io", "use microphone")'
    BY <1>41, <1>42 DEF Has
  <2>3. \A n, x : ~In(todo["ui"], n, x) /\ ~In(todo'["ui"], n, x)
    BY <1>1, <1>8, <1>10
  <2>. QED
    BY <1>2, <1>3, <1>8, <1>10, <2>1, <2>2, <2>3, ModeIdle
<1>. QED
  BY <1>1, <1>2, <1>4, <1>5, <1>6, <1>7, <1>9, <1>10, StartDone

\* SetLocalVideoSource starts, or only notes the kind.
LEMMA SetLocalVideoSourceKeeps ==
  ASSUME IInv, NEW k \in Kinds, SetLocalVideoSource(k)
  PROVE  IInv'
<1>1. /\ Types /\ ShapeInv /\ "ui" \in Control /\ "io" \in Control /\ "ui" # "io"
      /\ "ui" \in Threads
  BY DEF IInv, Control, Threads
<1>2. /\ ~Busy("ui") /\ overlap' = (overlap \/ Beside("ui"))
      /\ UNCHANGED <<input, playing, pc, sender, sending, source, stray, broken>>
  BY DEF SetLocalVideoSource
<1>3. UNCHANGED <<mode, requested>>
  BY <1>2 DEF input
<1>4. ~overlap' => ~overlap /\ \A u \in Control : u # "ui" => ~Busy(u)
  BY <1>2 DEF Beside
<1>5. overlap' \in BOOLEAN
  BY <1>1, <1>2 DEF Types, Beside
<1>6. CASE kind' = k /\ active' = FALSE /\ todo' = todo
  <2>1. Types'
    <3>1. kind' \in Kinds /\ active' \in BOOLEAN
      BY <1>6
    <3>2. /\ todo' \in [Threads -> Seq(Steps)] /\ playing' \in [Files -> BOOLEAN]
          /\ pc' \in BOOLEAN /\ sender' \in BOOLEAN /\ sending' \in BOOLEAN
          /\ source' \in Sources \cup {"none"} /\ stray' \in BOOLEAN /\ broken' \in BOOLEAN
      BY <1>1, <1>2, <1>6 DEF Types
    <3>. QED
      BY <1>1, <1>2, <1>5, <3>1, <3>2, InputTypes
  <2>2. ShapeInv'
    BY <1>1, <1>6 DEF ShapeInv
  <2>3. PacedInv'
    <3>1. samples' = samples
      BY <1>2 DEF input
    <3>2. samples \in Nat
      BY <1>1 DEF Types
    <3>3. samples' \in Nat /\ samples' <= samples
      BY <3>1, <3>2
    <3>4. PacedInv /\ UNCHANGED <<todo, playing>>
      BY <1>2, <1>6 DEF IInv
    <3>. QED
      BY <1>1, <3>3, <3>4, PacedSame
  <2>4. ASSUME ~overlap' PROVE HandleInv' /\ ConnectionInv' /\ DecoderInv'
    <3>1. HandleInv /\ ConnectionInv /\ DecoderInv
      BY <1>4, <2>4 DEF IInv
    <3>2. HandleInv'
      <4>1. UNCHANGED <<todo, running, joinable, alive, pc, sender, broken>>
        BY <1>2, <1>6 DEF input, thread
      <4>. QED
        BY <3>1, <4>1 DEF HandleInv, Single, Has, Busy
    <3>3. ConnectionInv'
      <4>1. UNCHANGED <<todo, pc, sender, sending, source, requested>> /\ ~active'
        BY <1>2, <1>3, <1>6
      <4>. QED
        BY <3>1, <4>1 DEF ConnectionInv, Some, InSome, Has
    <3>4. DecoderInv'
      <4>1. UNCHANGED <<todo, source, playing>>
        BY <1>2, <1>6
      <4>. QED
        BY <3>1, <4>1 DEF DecoderInv, Some, InSome, Has, Busy
    <3>. QED
      BY <3>2, <3>3, <3>4
  <2>5. ASSUME ~overlap', ~stray' PROVE SoundInv' /\ ModeInv'
    <3>1. SoundInv /\ ModeInv
      BY <1>2, <1>4, <2>5 DEF IInv
    <3>2. UNCHANGED <<todo, mode, requested, live, running, source>>
      BY <1>2, <1>3, <1>6 DEF input, thread
    <3>3. Taking' = Taking
      BY <3>2 DEF Taking, At, Busy
    <3>. QED
      BY <3>1, <3>2, <3>3 DEF SoundInv, ModeInv, Natural, Has
  <2>. QED
    BY <2>1, <2>2, <2>3, <2>4, <2>5 DEF IInv
<1>7. CASE pc /\ sender /\ Return("ui", <<<<"create", k>>>>) /\ UNCHANGED <<kind, active>>
  <2>1. /\ ShapeInv' /\ Others("ui") /\ Calmed("ui")
        /\ \A n, x : In(todo'["ui"], n, x) <=> n = "create" /\ x = k
    BY <1>1, <1>7, SwitchMoves
  <2>2. \A n, x : In(todo'["ui"], n, x) => n = "create"
    BY <2>1
  <2>3. \A n, x : In(todo'["ui"], n, x) => n \in StartNames
    BY <2>2 DEF StartNames
  <2>4. EngineTypes'
    BY <1>1, <1>2, <1>5, <1>7 DEF Types, EngineTypes
  <2>5. ASSUME ~overlap'
        PROVE  /\ HandleInv /\ ConnectionInv /\ DecoderInv
               /\ Taking' = Taking
               /\ \A f \in Files : todo'[f] = todo[f] /\ (Busy(f)' <=> Busy(f))
               /\ \A u \in Control : \A n, x : ~In(todo[u], n, x)
               /\ \A u \in Control : u # "ui" => \A n, x : ~In(todo'[u], n, x)
    BY <1>1, <1>2, <1>4, <2>1, <2>5, StartGiven
  <2>6. ASSUME ~overlap' PROVE ConnectionInv' /\ DecoderInv'
    <3>1. ~Has("ui", "use microphone")' /\ ~Has("ui", "use synthetic")'
      BY <2>2 DEF Has
    <3>2. UNCHANGED <<pc, sender, sending, requested>>
      BY <1>2, <1>3
    <3>3. (active' => active \/ pc) /\ source' = source
      BY <1>2, <1>7
    <3>4. ConnectionInv'
      BY <1>1, <2>5, <2>6, <3>1, <3>2, <3>3, SwitchingIs
    <3>5. \A f \in Files : (playing[f] => source = f) /\ (Busy(f) => playing[f])
      BY <2>5, <2>6, DecodersIdle
    <3>6. ~Some("release")'
      BY <2>5, <2>6, NoneNext
    <3>7. \A u \in Control : \A x : ~In(todo'[u], "join decoder", x)
      BY <2>2, <2>5, <2>6
    <3>. QED
      BY <1>2, <2>5, <2>6, <3>4, <3>5, <3>6, <3>7 DEF DecoderInv
  <2>7. ASSUME ~overlap', ~stray' PROVE ModeInv'
    <3>1. ModeInv
      BY <1>2, <1>4, <2>7 DEF IInv
    <3>2. \A x : ~In(todo'["ui"], "swap", x)
      BY <2>2
    <3>3. (\A n, x : ~In(todo["ui"], n, x)) /\ \A x : ~In(todo'["io"], "create", x)
      BY <1>1, <2>5, <2>7
    <3>. QED
      BY <1>2, <1>3, <2>5, <2>7, <3>1, <3>2, <3>3, ModeIdle
  <2>8. pc' /\ sender'
    BY <1>2, <1>7
  <2>. QED
    BY <1>1, <1>2, <1>4, <2>1, <2>3, <2>4, <2>6, <2>7, <2>8, StartDone
<1>. QED
  BY <1>6, <1>7 DEF SetLocalVideoSource

-----------------------------------------------------------------------------
(* The invariant holds. *)

\* The invariant holds at the start.
LEMMA InitHolds ==
  ASSUME Init
  PROVE  IInv
<1>1. Control \subseteq Threads /\ Files \subseteq Threads
  BY DEF Threads
<1>2. Types
  <2>1. <<>> \in Seq(Steps)
    BY EmptySeq
  <2>. QED
    BY <2>1 DEF Init, Types
<1>3. \A t \in Threads : todo[t] = <<>> /\ ~Busy(t)
  BY DEF Init, Busy
<1>4. \A t \in Threads : \A n, x : ~In(todo[t], n, x)
  BY <1>2, <1>3, IdleIs
<1>5. ShapeInv
  <2>1. Len(<<>>) = 0
    OBVIOUS
  <2>2. Shape(<<>>)
    BY <2>1 DEF Shape
  <2>. QED
    BY <1>3, <2>1, <2>2 DEF ShapeInv
<1>6. PacedInv
  <2>1. samples = 0 /\ High \in Nat
    BY BufferAssumption DEF Init
  <2>2. samples <= High
    BY <2>1
  <2>. QED
    BY <2>2 DEF PacedInv
<1>7. \A t \in Threads : \A n : ~Has(t, n)
  BY <1>4 DEF Has
<1>8. "ui" \in Control /\ "io" \in Control
  BY DEF Control
<1>80. \A n : ~Some(n)
  BY <1>1, <1>4 DEF Some, InSome, Closers, Control
<1>9. HandleInv
  BY <1>1, <1>3, <1>7, <1>8 DEF HandleInv, Single, Init
<1>10. ConnectionInv
  BY <1>1, <1>4, <1>7, <1>8, <1>80 DEF ConnectionInv, Init, Closing
<1>11. DecoderInv
  BY <1>1, <1>3 DEF DecoderInv, Init
<1>12. SoundInv
  BY <1>1, <1>7 DEF SoundInv, Init
<1>13. ModeInv
  <2>1. source \notin Files /\ source # "camera"
    BY NamesAssumption DEF Init
  <2>. QED
    BY <1>1, <1>4, <1>8, <2>1 DEF ModeInv
<1>. QED
  BY <1>2, <1>5, <1>6, <1>9, <1>10, <1>11, <1>12, <1>13 DEF IInv

\* A step of a thread that is in the middle of something.
LEMMA StepKeeps ==
  ASSUME IInv, NEW t \in Threads, Step(t)
  PROVE  IInv'
<1>1. CASE UseMicrophone(t) \/ UseSyntheticPcm(t) \/ SwitchMicrophone(t)
  BY <1>1, UseMicrophoneKeeps, UseSyntheticKeeps, SwitchMicrophoneKeeps
<1>2. CASE StartThread(t) \/ StopThread(t) \/ JoinThread(t) \/ ThreadStopped(t)
  BY <1>2, StartThreadKeeps, StopThreadKeeps, JoinThreadKeeps, ThreadStoppedKeeps
<1>3. CASE ClearSyntheticAudio(t) \/ StopRecording(t)
  BY <1>3, ClearKeeps, StopRecordingKeeps
<1>4. CASE StopSource(t) \/ JoinDecoder(t)
  BY <1>4, StopSourceKeeps, JoinDecoderKeeps
<1>5. CASE CreateSource(t) \/ CreateFails(t)
  BY <1>5, CreateSourceKeeps, CreateFailsKeeps
<1>. QED
  BY <1>1, <1>2, <1>3, <1>4, <1>5 DEF Step

\* Every step keeps the invariant.
LEMMA NextKeeps ==
  ASSUME IInv, [Next]_vars
  PROVE  IInv'
<1>1. /\ "ui" \in Threads /\ Files \subseteq Threads
      /\ "io" \in Closers /\ "timer" \in Closers /\ Closers \subseteq Threads
  BY DEF Threads, Control, Closers
<1>2. CASE AddTracks \/ Close \/ OnCallTimeout
  BY <1>1, <1>2, AddTracksKeeps, StartCloseKeeps DEF Close, OnCallTimeout
<1>20. ASSUME NEW t \in Closers, CloserStep(t) PROVE IInv'
  <2>1. CASE Step(t)
    BY <1>1, <2>1, StepKeeps
  <2>2. CASE StopCurrent(t) \/ RemoveSenders(t) \/ CloseConnection(t) \/ Release(t)
    BY <2>2, StopCurrentKeeps, RemoveSendersKeeps, CloseConnectionKeeps, ReleaseKeeps
  <2>. QED
    BY <1>20, <2>1, <2>2 DEF CloserStep
<1>3. CASE IoStep \/ TimerStep
  BY <1>1, <1>3, <1>20, AttachKeeps DEF IoStep, TimerStep
<1>4. CASE \E k \in Kinds : SetLocalVideoSource(k)
  BY <1>4, SetLocalVideoSourceKeeps
<1>5. CASE UiStep
  <2>1. CASE Step("ui")
    BY <1>1, <2>1, StepKeeps
  <2>2. CASE SetTrack \/ Swap \/ SwitchReturns
    BY <2>2, SetTrackKeeps, SwapKeeps, SwitchReturnsKeeps
  <2>. QED
    BY <1>5, <2>1, <2>2 DEF UiStep
<1>6. CASE \E f \in Files : Decode(f)
  <2>1. PICK f \in Files : Decode(f)
    BY <1>6
  <2>2. CASE Step(f)
    BY <1>1, <2>2, StepKeeps
  <2>3. CASE Read(f) \/ Push(f) \/ Wait(f)
    BY <2>3, ReadKeeps, PushKeeps, WaitKeeps
  <2>. QED
    BY <2>1, <2>2, <2>3 DEF Decode
<1>7. CASE SyntheticLoop \/ StartRecording
  BY <1>7, SyntheticLoopKeeps, StartRecordingKeeps
<1>8. CASE UNCHANGED vars
  <2>1. /\ UNCHANGED <<mode, requested, samples, running, stop, joinable, alive, live>>
        /\ UNCHANGED <<playing, pc, sender, sending, source, kind, active, todo>>
        /\ UNCHANGED <<overlap, stray, broken>>
    BY <1>8 DEF vars, input, thread, engine, history
  <2>2. Types' /\ ShapeInv' /\ Taking' = Taking
    BY <2>1 DEF IInv, Types, ShapeInv, Taking, At, Busy
  <2>3. PacedInv'
    <3>1. Unpaced' = Unpaced
      BY <2>1 DEF Unpaced
    <3>. QED
      BY <2>1, <3>1 DEF IInv, PacedInv
  <2>4. ~overlap' => HandleInv' /\ ConnectionInv' /\ DecoderInv'
    <3>1. ASSUME ~overlap' PROVE HandleInv /\ ConnectionInv /\ DecoderInv
      BY <2>1, <3>1 DEF IInv
    <3>2. HandleInv => HandleInv'
      BY <2>1 DEF HandleInv, Single, Has, Busy
    <3>3. ConnectionInv => ConnectionInv'
      BY <2>1 DEF ConnectionInv, Some, InSome, Has
    <3>4. DecoderInv => DecoderInv'
      BY <2>1 DEF DecoderInv, Some, InSome, Has, Busy
    <3>. QED
      BY <3>1, <3>2, <3>3, <3>4
  <2>5. ~overlap' /\ ~stray' => SoundInv' /\ ModeInv'
    <3>1. ASSUME ~overlap', ~stray' PROVE SoundInv /\ ModeInv
      BY <2>1, <3>1 DEF IInv
    <3>2. SoundInv => SoundInv'
      BY <2>1, <2>2 DEF SoundInv, Has
    <3>3. ModeInv => ModeInv'
      BY <2>1, <2>2 DEF ModeInv, Natural, Has
    <3>. QED
      BY <3>1, <3>2, <3>3
  <2>. QED
    BY <2>2, <2>3, <2>4, <2>5 DEF IInv
<1>. QED
  BY <1>2, <1>3, <1>4, <1>5, <1>6, <1>7, <1>8 DEF Next

\* The invariant always holds.
LEMMA Invariance == Spec => []IInv
<1>1. Init => IInv
  BY InitHolds
<1>2. IInv /\ [Next]_vars => IInv'
  BY NextKeeps
<1>. QED
  BY <1>1, <1>2, PTL DEF Spec

-----------------------------------------------------------------------------
(* What it shows. *)

(* PushSyntheticAudio never reaches kMaxBufferedSyntheticMs and never drops *)
(* sound, however many decoders overlap: each pushes one chunk at most      *)
(* before it looks at the buffer again (DecodeLoop).                        *)
THEOREM BufferHolds == Spec => []BufferNeverFills
<1>1. ASSUME IInv PROVE BufferNeverFills
  <2>1. Unpaced \subseteq Files /\ IsFiniteSet(Files)
    BY BufferAssumption DEF Unpaced
  <2>2. IsFiniteSet(Unpaced) /\ Cardinality(Unpaced) <= Cardinality(Files)
    BY <2>1, FS_Subset
  <2>3. Cardinality(Unpaced) \in Nat /\ Cardinality(Files) \in Nat
    BY <2>1, <2>2, FS_CardinalityType
  <2>4. High \in Nat /\ Cap \in Nat /\ High + Cardinality(Files) < Cap
    BY BufferAssumption
  <2>5. samples \in Nat
    BY <1>1 DEF IInv, Types
  <2>6. samples <= High \/ samples + Cardinality(Unpaced) <= High + Cardinality(Files)
    BY <1>1 DEF IInv, PacedInv
  <2>7. samples < Cap
    BY <2>3, <2>4, <2>5, <2>6
  <2>. QED
    BY <2>7 DEF BufferNeverFills
<1>2. IInv => BufferNeverFills
  BY <1>1
<1>. QED
  BY <1>2, Invariance, PTL

(* The handle of the synthetic thread is never assigned to or joined by two *)
(* threads, and video_sender_ and peer_connection_ are never used when they *)
(* are gone, unless two of the user interface thread (SetLocalVideoSource), *)
(* the I/O thread (AddTracks, ClosePeerConnection) and the thread of the    *)
(* request timer (OnCallTimeout) were in the engine at once.                *)
THEOREM HandlesAreSafe == Spec => []UndefinedOnlyByOverlap
<1>1. IInv => UndefinedOnlyByOverlap
  BY DEF IInv, HandleInv, UndefinedOnlyByOverlap
<1>. QED
  BY <1>1, Invariance, PTL

\* Idle control threads have nothing left to do.
LEMMA QuietIs ==
  ASSUME IInv, Quiet
  PROVE  \A t \in Control : \A n, x : ~In(todo[t], n, x)
<1>1. Types /\ Control \subseteq Threads
  BY DEF IInv, Threads
<1>. QED
  BY <1>1, IdleIs DEF Quiet

(* When ClosePeerConnection has returned, microphone, synthetic thread and  *)
(* decoders have stopped and the pipeline is inactive, the two races that   *)
(* the histories record excepted.                                           *)
THEOREM MediaEnds == Spec => []MediaEndsWithCall
<1>1. ASSUME IInv, ~pc, Quiet, ~overlap, ~stray
      PROVE  ~live /\ ~alive /\ ~active /\ \A f \in Files : ~Busy(f)
  <2>1. Types /\ ShapeInv /\ HandleInv /\ ConnectionInv /\ DecoderInv /\ SoundInv
    BY <1>1 DEF IInv
  <2>2. \A t \in Control : \A n, x : ~In(todo[t], n, x)
    BY <1>1, QuietIs
  <2>3. \A t \in Control : \A n : ~Has(t, n)
    BY <2>2 DEF Has
  <2>4. \A n : ~Some(n)
    BY <2>2 DEF Some, InSome, Closers, Control
  <2>5. source = "none" /\ ~active /\ ~sending
    BY <1>1, <2>1, <2>3, <2>4 DEF ConnectionInv
  <2>6. ~requested
    BY <2>1, <2>3, <2>4, <2>5 DEF ConnectionInv
  <2>7. \A f \in Files : ~Busy(f)
    BY <2>1, <2>2, <2>5, DecodersIdle, NamesAssumption
  <2>8. \A t \in Threads : ~Has(t, "stop microphone")
    BY <2>1, <2>3, <2>7, IdleIs DEF Has, Threads
  <2>9. ~live /\ ~running
    BY <2>1, <2>3, <2>6, <2>8 DEF SoundInv
  <2>10. ~alive
    BY <2>1, <2>9 DEF HandleInv
  <2>. QED
    BY <2>5, <2>7, <2>9, <2>10
<1>2. IInv => MediaEndsWithCall
  BY <1>1 DEF MediaEndsWithCall
<1>. QED
  BY <1>2, Invariance, PTL

(* In a call the audio input is in the mode of the video source, once the   *)
(* decoder has taken it over; the same two races excepted.                  *)
THEOREM AudioFollows == Spec => []AudioFollowsSource
<1>1. ASSUME IInv, pc, sender, Quiet, Taking = {}, ~overlap, ~stray
      PROVE  (mode = "synthetic") <=> (source \in Files)
  <2>1. Types /\ ShapeInv /\ ConnectionInv /\ ModeInv
    BY <1>1 DEF IInv
  <2>2. \A t \in Control : \A n, x : ~In(todo[t], n, x)
    BY <1>1, QuietIs
  <2>3. \A x : ~In(todo["ui"], "swap", x) /\ ~In(todo["ui"], "set track", x)
    BY <2>2 DEF Control
  <2>4. source \in Files \/ source = "camera"
    BY <1>1, <2>1 DEF ConnectionInv, Types, Sources
  <2>5. source \in Files => ~Has(source, "use synthetic")
    BY <1>1, <2>1, TakingIs DEF Takes, Has
  <2>6. source \in Files => mode = "synthetic"
    BY <2>1, <2>3, <2>5 DEF ModeInv
  <2>7. source = "camera" => mode = "microphone"
    BY <2>1, <2>3 DEF ModeInv, Natural
  <2>. QED
    BY <2>4, <2>6, <2>7, NamesAssumption
<1>2. IInv => AudioFollowsSource
  BY <1>1 DEF AudioFollowsSource
<1>. QED
  BY <1>2, Invariance, PTL
=============================================================================
