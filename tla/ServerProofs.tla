---------------------------- MODULE ServerProofs ----------------------------
(***************************************************************************)
(* Proofs about the signaling server, for any users and any number of      *)
(* connections.  SignalingServer: the state keeps its types, and the       *)
(* connection in the map speaks for its user.  ClientLists: it implements  *)
(* SignalingServer, and when nothing is on its way, every registered       *)
(* client was sent the users of now.                                       *)
(***************************************************************************)
EXTENDS ClientLists, TLAPS

-----------------------------------------------------------------------------
(* Presence. *)

\* A connection is read once it has entered the map, and while it is there.
MapInv ==
    /\ \A c \in Conns : reader[c] # "none" => st[c] = "open"
    /\ \A u \in Users : clients[u] # None =>
           /\ Uid[clients[u]] = u
           /\ reader[clients[u]] = "read"

(* The logins of a user take turns: while one of them is between its two   *)
(* critical sections, nobody is in the map and its generation is the       *)
(* newest; the connection in the map keeps that generation.                *)
LoginInv ==
    \A c \in Conns :
        Uid[c] \notin contended =>
            /\ st[c] = "gap" =>
                   /\ clients[Uid[c]] = None
                   /\ gen[c] = generations[Uid[c]]
                   /\ \A d \in Conns : Uid[d] = Uid[c] /\ st[d] = "gap" => d = c
            /\ clients[Uid[c]] = c => gen[c] = generations[Uid[c]]

\* A connection that was taken out of the map while it was read is closed.
ReplacedInv ==
    \A c \in Conns :
        Uid[c] \notin contended /\ reader[c] = "read" /\ clients[Uid[c]] # c
            => c \in closed \cup doomed

IInv == TypeOK /\ MapInv /\ LoginInv /\ ReplacedInv

-----------------------------------------------------------------------------
\* Every step preserves the types.
LEMMA NextType ==
  ASSUME TypeOK, [Next]_vars
  PROVE  TypeOK'
<1>. USE ConnsAssumption
<1>1. ASSUME NEW c \in Conns, HandleConnection(c)
      PROVE  TypeOK'
  <2>1. job' \in [Conns -> {"none", "scheduled", "stopped", "fired", "notify", "done"}]
    BY <1>1 DEF HandleConnection, StopJob, TypeOK
  <2>2. generations' \in [Users -> Nat] /\ gen' \in [Conns -> Nat]
    BY <1>1 DEF HandleConnection, TypeOK
  <2>3. contended' \subseteq Users /\ pending' \in [Users -> Conns \cup {None}]
    BY <1>1 DEF HandleConnection, TypeOK
  <2>4. ASSUME NEW u \in Users, pending'[u] # None
        PROVE  Uid[pending'[u]] = u /\ job'[pending'[u]] \in {"scheduled", "fired", "done"}
    <3>1. Uid[c] \in Users /\ u # Uid[c] /\ pending'[u] = pending[u]
      BY <1>1, <2>4 DEF HandleConnection, TypeOK
    <3>2. pending[u] \in Conns /\ pending[u] # pending[Uid[c]]
      BY <2>4, <3>1 DEF TypeOK
    <3>3. job'[pending[u]] = job[pending[u]]
      BY <1>1, <3>2 DEF HandleConnection, StopJob, TypeOK
    <3>. QED
      BY <2>4, <3>1, <3>3 DEF TypeOK
  <2>. QED
    BY <1>1, <2>1, <2>2, <2>3, <2>4 DEF HandleConnection, Serve, TypeOK
<1>2. ASSUME NEW c \in Conns, HandleConnectionResume(c)
      PROVE  TypeOK'
  BY <1>2 DEF HandleConnectionResume, Serve, TypeOK
<1>3. ASSUME NEW c \in Conns, CloseReplaced(c)
      PROVE  TypeOK'
  BY <1>3 DEF CloseReplaced, server, TypeOK
<1>4. ASSUME NEW c \in Conns, WriteFails(c)
      PROVE  TypeOK'
  BY <1>4 DEF WriteFails, server, TypeOK
<1>5. ASSUME NEW c \in Conns, RemoveClient(c)
      PROVE  TypeOK'
  <2>1. job' \in [Conns -> {"none", "scheduled", "stopped", "fired", "notify", "done"}]
    BY <1>5 DEF RemoveClient, StopJob, TypeOK
  <2>2. pending' \in [Users -> Conns \cup {None}]
    BY <1>5 DEF RemoveClient, TypeOK
  <2>3. ASSUME NEW u \in Users, pending'[u] # None
        PROVE  Uid[pending'[u]] = u /\ job'[pending'[u]] \in {"scheduled", "fired", "done"}
    <3>1. CASE clients[Uid[c]] # c
      BY <1>5, <2>3, <3>1 DEF RemoveClient, TypeOK
    <3>2. CASE clients[Uid[c]] = c /\ u = Uid[c]
      BY <1>5, <3>2 DEF RemoveClient, StopJob, TypeOK
    <3>3. CASE clients[Uid[c]] = c /\ u # Uid[c]
      <4>1. Uid[c] \in Users /\ pending'[u] = pending[u]
        BY <1>5, <3>3 DEF RemoveClient, TypeOK
      <4>2. pending[u] \in Conns /\ pending[u] # pending[Uid[c]] /\ pending[u] # c
        BY <2>3, <3>3, <4>1 DEF TypeOK
      <4>3. job'[pending[u]] = job[pending[u]]
        BY <1>5, <3>3, <4>2 DEF RemoveClient, StopJob, TypeOK
      <4>. QED
        BY <2>3, <4>1, <4>3 DEF TypeOK
    <3>. QED
      BY <3>1, <3>2, <3>3
  <2>. QED
    BY <1>5, <2>1, <2>2, <2>3 DEF RemoveClient, conns, TypeOK
<1>6. ASSUME NEW c \in Conns, RemoveClientClose(c)
      PROVE  TypeOK'
  BY <1>6 DEF RemoveClientClose, server, TypeOK
<1>7. ASSUME NEW c \in Conns, GracePeriodEnds(c)
      PROVE  TypeOK'
  BY <1>7 DEF GracePeriodEnds, server, conns, TypeOK
<1>8. ASSUME NEW c \in Conns, ConfirmOffline(c)
      PROVE  TypeOK'
  BY <1>8 DEF ConfirmOffline, conns, TypeOK
<1>9. ASSUME NEW c \in Conns, NotifyUserOffline(c)
      PROVE  TypeOK'
  BY <1>9 DEF NotifyUserOffline, server, conns, TypeOK
<1>10. CASE UNCHANGED vars
  BY <1>10 DEF vars, server, conns, TypeOK
<1>. QED
  BY <1>1, <1>2, <1>3, <1>4, <1>5, <1>6, <1>7, <1>8, <1>9, <1>10 DEF Next, ServerStep

\* Only logins and the end of a reader change what MapInv speaks of.
LEMMA NextMap ==
  ASSUME TypeOK, MapInv, [Next]_vars
  PROVE  MapInv'
<1>. USE ConnsAssumption
<1>1. ASSUME NEW c \in Conns, HandleConnection(c)
      PROVE  MapInv'
  BY <1>1 DEF HandleConnection, Serve, TypeOK, MapInv
<1>2. ASSUME NEW c \in Conns, HandleConnectionResume(c)
      PROVE  MapInv'
  BY <1>2 DEF HandleConnectionResume, Serve, TypeOK, MapInv
<1>3. ASSUME NEW c \in Conns, RemoveClient(c)
      PROVE  MapInv'
  BY <1>3 DEF RemoveClient, conns, TypeOK, MapInv
<1>4. ASSUME NEW c \in Conns, RemoveClientClose(c)
      PROVE  MapInv'
  BY <1>4 DEF RemoveClientClose, server, TypeOK, MapInv
<1>5. ASSUME NEW c \in Conns,
             \/ CloseReplaced(c) \/ WriteFails(c) \/ GracePeriodEnds(c)
             \/ ConfirmOffline(c) \/ NotifyUserOffline(c) \/ UNCHANGED vars
      PROVE  MapInv'
  <2>1. UNCHANGED <<clients, reader, st>>
    BY <1>5 DEF CloseReplaced, WriteFails, GracePeriodEnds, ConfirmOffline,
                NotifyUserOffline, vars, server, conns
  <2>. QED
    BY <2>1 DEF MapInv
<1>6. CASE UNCHANGED vars
  BY <1>6 DEF vars, server, conns, MapInv
<1>. QED
  BY <1>1, <1>2, <1>3, <1>4, <1>5, <1>6 DEF Next, ServerStep

(* A login leaves the first critical section alone in the gap unless the   *)
(* user becomes contended.                                                 *)
LEMMA NextLogin ==
  ASSUME TypeOK, MapInv, LoginInv, [Next]_vars
  PROVE  LoginInv'
<1>. USE ConnsAssumption
<1>1. ASSUME NEW c \in Conns, HandleConnection(c)
      PROVE  LoginInv'
  <2>. SUFFICES ASSUME NEW d \in Conns, Uid[d] \notin contended'
                PROVE  /\ st'[d] = "gap" =>
                              /\ clients'[Uid[d]] = None
                              /\ gen'[d] = generations'[Uid[d]]
                              /\ \A e \in Conns : Uid[e] = Uid[d] /\ st'[e] = "gap" => e = d
                       /\ clients'[Uid[d]] = d => gen'[d] = generations'[Uid[d]]
    BY DEF LoginInv
  <2>1. Uid[d] \notin contended /\ (Uid[d] = Uid[c] => ~LoggingIn(Uid[c]))
    BY <1>1 DEF HandleConnection, TypeOK
  <2>2. CASE Uid[d] # Uid[c]
    <3>1. UNCHANGED <<st[d], clients[Uid[d]], gen[d], generations[Uid[d]]>>
      BY <1>1, <2>2 DEF HandleConnection, Serve, TypeOK
    <3>2. \A e \in Conns : Uid[e] = Uid[d] => st'[e] = st[e]
      BY <1>1, <2>2 DEF HandleConnection, Serve, TypeOK
    <3>. QED
      BY <2>1, <3>1, <3>2 DEF LoginInv
  <2>3. CASE Uid[d] = Uid[c]
    <3>1. \A e \in Conns : Uid[e] = Uid[d] /\ st'[e] = "gap" => e = c
      BY <1>1, <2>1, <2>3 DEF HandleConnection, Serve, LoggingIn, TypeOK
    <3>2. st'[c] = "gap" => clients'[Uid[c]] = None
      BY <1>1 DEF HandleConnection, Serve, TypeOK
    <3>3. clients'[Uid[c]] \in {c, None} /\ gen'[c] = generations'[Uid[c]]
      BY <1>1 DEF HandleConnection, TypeOK
    <3>. QED
      BY <2>3, <3>1, <3>2, <3>3
  <2>. QED
    BY <2>2, <2>3
<1>2. ASSUME NEW c \in Conns, HandleConnectionResume(c)
      PROVE  LoginInv'
  BY <1>2 DEF HandleConnectionResume, Serve, TypeOK, LoginInv
<1>3. ASSUME NEW c \in Conns, RemoveClient(c)
      PROVE  LoginInv'
  BY <1>3 DEF RemoveClient, conns, TypeOK, LoginInv
<1>4. ASSUME NEW c \in Conns, ConfirmOffline(c)
      PROVE  LoginInv'
  BY <1>4 DEF ConfirmOffline, LoggingIn, conns, TypeOK, LoginInv
<1>5. ASSUME NEW c \in Conns,
             \/ CloseReplaced(c) \/ WriteFails(c) \/ RemoveClientClose(c)
             \/ GracePeriodEnds(c) \/ NotifyUserOffline(c)
      PROVE  LoginInv'
  <2>1. UNCHANGED <<clients, generations, st, gen, contended>>
    BY <1>5 DEF CloseReplaced, WriteFails, RemoveClientClose, GracePeriodEnds,
                NotifyUserOffline, server, conns
  <2>. QED
    BY <2>1 DEF LoginInv
<1>6. CASE UNCHANGED vars
  BY <1>6 DEF vars, server, conns, LoginInv
<1>. QED
  BY <1>1, <1>2, <1>3, <1>4, <1>5, <1>6 DEF Next, ServerStep

(* A connection leaves the map when it is replaced, and is doomed, or when *)
(* it stops being read; LoginInv lets a login resume over nobody.          *)
LEMMA NextReplaced ==
  ASSUME TypeOK, LoginInv, ReplacedInv, [Next]_vars
  PROVE  ReplacedInv'
<1>. USE ConnsAssumption
<1>1. ASSUME NEW c \in Conns, HandleConnection(c)
      PROVE  ReplacedInv'
  BY <1>1 DEF HandleConnection, Serve, TypeOK, ReplacedInv
<1>2. ASSUME NEW c \in Conns, HandleConnectionResume(c)
      PROVE  ReplacedInv'
  BY <1>2 DEF HandleConnectionResume, Serve, TypeOK, LoginInv, ReplacedInv
<1>3. ASSUME NEW c \in Conns, RemoveClient(c)
      PROVE  ReplacedInv'
  BY <1>3 DEF RemoveClient, conns, TypeOK, ReplacedInv
<1>4. ASSUME NEW c \in Conns, ConfirmOffline(c)
      PROVE  ReplacedInv'
  BY <1>4 DEF ConfirmOffline, conns, TypeOK, ReplacedInv
<1>5. ASSUME NEW c \in Conns, CloseReplaced(c) \/ WriteFails(c)
      PROVE  ReplacedInv'
  BY <1>5 DEF CloseReplaced, WriteFails, server, ReplacedInv
<1>6. ASSUME NEW c \in Conns, RemoveClientClose(c)
      PROVE  ReplacedInv'
  BY <1>6 DEF RemoveClientClose, server, TypeOK, ReplacedInv
<1>7. ASSUME NEW c \in Conns, GracePeriodEnds(c) \/ NotifyUserOffline(c)
      PROVE  ReplacedInv'
  BY <1>7 DEF GracePeriodEnds, NotifyUserOffline, server, conns, ReplacedInv
<1>8. CASE UNCHANGED vars
  BY <1>8 DEF vars, server, conns, ReplacedInv
<1>. QED
  BY <1>1, <1>2, <1>3, <1>4, <1>5, <1>6, <1>7, <1>8 DEF Next, ServerStep

\* The server starts in the invariant.
LEMMA InitIInv ==
  ASSUME Init
  PROVE  IInv
BY ConnsAssumption DEF Init, IInv, TypeOK, MapInv, LoginInv, ReplacedInv

-----------------------------------------------------------------------------
\* The inductive invariant, from which the theorems below follow.
THEOREM Invariance == Spec => []IInv
<1>1. Init => IInv
  BY InitIInv
<1>2. IInv /\ [Next]_vars => IInv'
  BY NextType, NextMap, NextLogin, NextReplaced DEF IInv
<1>. QED
  BY <1>1, <1>2, PTL DEF Spec

\* Every variable of the server and of its connections keeps its type.
THEOREM TypeCorrect == Spec => []TypeOK
<1>1. IInv => TypeOK
  BY DEF IInv
<1>. QED
  BY <1>1, Invariance, PTL

(* HandleConnection, removeClient and confirmOffline keep the newest       *)
(* connection of a user in the map, and every other connection that is     *)
(* still read is being closed, as long as logins of the user do not        *)
(* overlap and the user is not forgotten during one.                       *)
THEOREM NewestSpeaks == Spec => []NewestSpeaksForUser
<1>1. IInv => NewestSpeaksForUser
  BY ConnsAssumption DEF IInv, TypeOK, LoginInv, ReplacedInv, NewestSpeaksForUser
<1>. QED
  BY <1>1, Invariance, PTL

-----------------------------------------------------------------------------
(* Lists: the server that also sends them keeps every promise above. *)

\* A step of ClientLists is one of SignalingServer or leaves its state alone.
LEMMA StepIsPresence ==
  ASSUME [ListsNext]_listVars
  PROVE  [Next]_vars
<1>1. ASSUME NEW c \in Conns, StartConnection(c) PROVE Next
  BY <1>1 DEF StartConnection, Next, ServerStep
<1>2. ASSUME NEW c \in Conns, CloseConnection(c) PROVE Next
  BY <1>2 DEF CloseConnection, Next, ServerStep
<1>3. ASSUME NEW c \in Conns, OfflineJob(c) PROVE Next
  BY <1>3 DEF OfflineJob, Next, ServerStep
<1>4. ASSUME NEW c \in Conns, Leave(c) PROVE Next
  BY <1>4 DEF Leave, Next
<1>5. ASSUME NEW c \in Conns, FinishLeaving(c) PROVE Next
  BY <1>5 DEF FinishLeaving, Next, ServerStep
<1>6. ASSUME NEW c \in Conns,
             SendRegisteredMessage(c) \/ ListClients(c) \/ RemoveClientBroadcast(c)
      PROVE  UNCHANGED vars
  BY <1>6 DEF SendRegisteredMessage, ListClients, RemoveClientBroadcast
<1>7. CASE UNCHANGED listVars
  BY <1>7 DEF listVars
<1>. QED
  BY <1>1, <1>2, <1>3, <1>4, <1>5, <1>6, <1>7 DEF ListsNext

(* Taking and sending client lists adds steps to HandleConnection, to      *)
(* readPump and to removeClient and takes none away: the server with lists *)
(* implements SignalingServer, so what is proved of presence holds of it.  *)
THEOREM ListsImplementPresence == ListsSpec => Spec
<1>1. ListsInit => Init
  BY DEF ListsInit
<1>2. [ListsNext]_listVars => [Next]_vars
  BY StepIsPresence
<1>. QED
  BY <1>1, <1>2, PTL DEF ListsSpec, Spec

ListTypes ==
    /\ errand \in [Conns -> {"none", "list_send", "broadcast", "broadcast_send"}]
    /\ welcome \in [Conns -> {"none", "register", "list", "list_send", "broadcast",
                              "broadcast_send", "done"}]
    /\ list \in [Goroutines -> [taken : BOOLEAN, users : SUBSET Users]]
    /\ shown \in [Conns -> SUBSET Users]
    /\ spoiled \in BOOLEAN

\* A goroutine that is about to send a list has taken one.
ListInv ==
    \A c \in Conns :
        /\ errand[c] \in {"list_send", "broadcast_send"} => list[<<c, "reader">>].taken
        /\ welcome[c] \in {"list_send", "broadcast_send"} => list[<<c, "welcome">>].taken

\* A list will be taken for a broadcast, or the map will change before that.
Due ==
    \E c \in Conns :
        \/ st[c] = "gap"
        \/ clients[Uid[c]] = c /\ (c \in closed \/ welcome[c] = "register")
        \/ welcome[c] \in {"list", "list_send", "broadcast"}
        \/ errand[c] = "broadcast"

Broadcasting ==
    \E c \in Conns : welcome[c] = "broadcast_send" \/ errand[c] = "broadcast_send"

\* Otherwise no list that is on its way is out of date, and the clients were
\* sent the current one or a broadcast is on its way to them.
CurrentInv ==
    \/ spoiled
    \/ Due
    \/ /\ \A g \in Goroutines : list[g].taken => list[g].users = Online
       /\ Broadcasting \/ \A c \in Registered : shown[c] = Online

ListsIInv == IInv /\ ListTypes /\ ListInv /\ CurrentInv

-----------------------------------------------------------------------------
(* Steps of connections. *)

\* What they change of the lists: a connection is to be registered, or the map
\* has lost a client and a broadcast is due.
LEMMA ConnectionSteps ==
  ASSUME TypeOK, ListTypes, NEW c \in Conns,
         \/ StartConnection(c) \/ CloseConnection(c) \/ OfflineJob(c)
         \/ Leave(c) \/ FinishLeaving(c)
  PROVE  /\ UNCHANGED <<list, shown, spoiled>>
         /\ errand' = errand \/ (errand[c] = "none" /\ errand' = [errand EXCEPT ![c] = "broadcast"])
         /\ welcome' = welcome \/ welcome' = [welcome EXCEPT ![c] = "register"]
BY DEF StartConnection, CloseConnection, OfflineJob, Leave, FinishLeaving, lists

-----------------------------------------------------------------------------
(* Taking and sending. *)

\* The goroutines of connections are distinct.
LEMMA Routines ==
  ASSUME NEW c \in Conns
  PROVE  /\ <<c, "reader">> \in Goroutines /\ <<c, "welcome">> \in Goroutines
         /\ <<c, "reader">> # <<c, "welcome">>
         /\ \A d \in Conns : <<c, "reader">> # <<d, "welcome">>
         /\ \A d \in Conns : d # c => /\ <<d, "reader">> # <<c, "reader">>
                                      /\ <<d, "welcome">> # <<c, "welcome">>
BY DEF Goroutines

\* Lists name users, and go to connections.
LEMMA OnlineUsers == TypeOK => Online \subseteq Users /\ Registered \subseteq Conns
BY DEF TypeOK, Online, Registered

\* A goroutine takes the list of now.
LEMMA Taking ==
  ASSUME TypeOK, ListTypes, NEW g \in Goroutines, TakeList(g)
  PROVE  /\ list' \in [Goroutines -> [taken : BOOLEAN, users : SUBSET Users]]
         /\ list'[g].taken /\ list'[g].users = Online
         /\ \A h \in Goroutines : h # g => list'[h] = list[h]
         /\ spoiled' \in BOOLEAN /\ shown' = shown
         /\ ~spoiled' => ~spoiled /\ \A h \in Goroutines : ~list[h].taken
<1>1. [taken |-> TRUE, users |-> Online] \in [taken : BOOLEAN, users : SUBSET Users]
  BY OnlineUsers
<1>2. list' = [list EXCEPT ![g] = [taken |-> TRUE, users |-> Online]]
  BY DEF TakeList
<1>3. spoiled' = (spoiled \/ \E h \in Goroutines : list[h].taken) /\ shown' = shown
  BY DEF TakeList
<1>4. spoiled' \in BOOLEAN
  BY <1>3
<1>. QED
  BY <1>1, <1>2, <1>3, <1>4 DEF ListTypes

\* A goroutine sends the list it has taken.
LEMMA Sending ==
  ASSUME TypeOK, ListTypes, NEW g \in Goroutines, NEW targets \in SUBSET Conns, SendList(g, targets)
  PROVE  /\ list' \in [Goroutines -> [taken : BOOLEAN, users : SUBSET Users]]
         /\ ~list'[g].taken
         /\ \A h \in Goroutines : h # g => list'[h] = list[h]
         /\ shown' \in [Conns -> SUBSET Users] /\ spoiled' \in BOOLEAN
         /\ \A c \in Conns : shown'[c] \in {shown[c], list[g].users}
         /\ ~spoiled' => ~spoiled /\ \A c \in targets \ closed : shown'[c] = list[g].users
<1>1. PICK got \in SUBSET (targets \ closed) :
         /\ shown' = [c \in Conns |-> IF c \in got THEN list[g].users ELSE shown[c]]
         /\ spoiled' = (spoiled \/ got # targets \ closed)
         /\ list' = [list EXCEPT ![g] = NoList]
  BY DEF SendList
<1>2. NoList \in [taken : BOOLEAN, users : SUBSET Users] /\ ~NoList.taken
  BY DEF NoList
<1>3. list[g].users \in SUBSET Users
  BY DEF ListTypes
<1>4. spoiled' \in BOOLEAN
  BY <1>1
<1>5. /\ list' \in [Goroutines -> [taken : BOOLEAN, users : SUBSET Users]]
      /\ ~list'[g].taken
      /\ \A h \in Goroutines : h # g => list'[h] = list[h]
  BY <1>1, <1>2 DEF ListTypes
<1>6. shown' \in [Conns -> SUBSET Users]
  BY <1>1, <1>3 DEF ListTypes
<1>7. \A c \in Conns : shown'[c] \in {shown[c], list[g].users}
  BY <1>1
<1>8. ~spoiled' => ~spoiled /\ \A c \in targets \ closed : shown'[c] = list[g].users
  BY <1>1
<1>. QED
  BY <1>4, <1>5, <1>6, <1>7, <1>8

-----------------------------------------------------------------------------
(* Types, and the lists that are on their way. *)

\* A step that only takes or sends a list.
LEMMA ListSteps ==
  ASSUME TypeOK, ListTypes, NEW c \in Conns, NEW g \in Goroutines,
         \/ UNCHANGED lists
         \/ UNCHANGED <<list, shown>> /\ spoiled' = (spoiled \/ c \notin closed)
         \/ TakeList(g) \/ SendList(g, {c}) \/ SendList(g, Registered)
  PROVE  /\ list' \in [Goroutines -> [taken : BOOLEAN, users : SUBSET Users]]
         /\ shown' \in [Conns -> SUBSET Users]
         /\ spoiled' \in BOOLEAN
<1>1. CASE UNCHANGED lists
  BY <1>1 DEF lists, ListTypes
<1>2. CASE UNCHANGED <<list, shown>> /\ spoiled' = (spoiled \/ c \notin closed)
  <2>1. spoiled' \in BOOLEAN
    BY <1>2
  <2>. QED
    BY <1>2, <2>1 DEF ListTypes
<1>3. CASE TakeList(g)
  BY <1>3, Taking DEF ListTypes
<1>4. CASE SendList(g, {c})
  BY <1>4, Sending
<1>5. CASE SendList(g, Registered)
  BY <1>5, Sending, OnlineUsers
<1>. QED
  BY <1>1, <1>2, <1>3, <1>4, <1>5

\* Every step preserves the types of the lists.
LEMMA NextListType ==
  ASSUME TypeOK, ListTypes, [ListsNext]_listVars
  PROVE  ListTypes'
<1>1. ASSUME NEW c \in Conns,
             \/ StartConnection(c) \/ CloseConnection(c) \/ OfflineJob(c)
             \/ Leave(c) \/ FinishLeaving(c)
      PROVE  ListTypes'
  <2>1. /\ UNCHANGED <<list, shown, spoiled>>
        /\ errand' = errand \/ errand' = [errand EXCEPT ![c] = "broadcast"]
        /\ welcome' = welcome \/ welcome' = [welcome EXCEPT ![c] = "register"]
    BY <1>1, ConnectionSteps
  <2>. QED
    BY <2>1 DEF ListTypes
<1>2. ASSUME NEW c \in Conns, SendRegisteredMessage(c) PROVE ListTypes'
  <2>1. /\ errand' = errand
        /\ welcome' \in [Conns -> {"none", "register", "list", "list_send", "broadcast",
                                   "broadcast_send", "done"}]
    BY <1>2 DEF SendRegisteredMessage, ListTypes
  <2>2. \/ UNCHANGED lists
        \/ UNCHANGED <<list, shown>> /\ spoiled' = (spoiled \/ c \notin closed)
        \/ TakeList(<<c, "welcome">>)
        \/ SendList(<<c, "welcome">>, {c})
        \/ SendList(<<c, "welcome">>, Registered)
    BY <1>2 DEF SendRegisteredMessage
  <2>3. /\ list' \in [Goroutines -> [taken : BOOLEAN, users : SUBSET Users]]
        /\ shown' \in [Conns -> SUBSET Users]
        /\ spoiled' \in BOOLEAN
    BY <2>2, Routines, ListSteps
  <2>. QED
    BY <2>1, <2>3 DEF ListTypes
<1>3. ASSUME NEW c \in Conns, ListClients(c) \/ RemoveClientBroadcast(c) PROVE ListTypes'
  <2>1. /\ welcome' = welcome
        /\ errand' \in [Conns -> {"none", "list_send", "broadcast", "broadcast_send"}]
    BY <1>3 DEF ListClients, RemoveClientBroadcast, ListTypes
  <2>2. \/ TakeList(<<c, "reader">>)
        \/ SendList(<<c, "reader">>, {c})
        \/ SendList(<<c, "reader">>, Registered)
    BY <1>3 DEF ListClients, RemoveClientBroadcast
  <2>3. /\ list' \in [Goroutines -> [taken : BOOLEAN, users : SUBSET Users]]
        /\ shown' \in [Conns -> SUBSET Users]
        /\ spoiled' \in BOOLEAN
    BY <2>2, Routines, ListSteps
  <2>. QED
    BY <2>1, <2>3 DEF ListTypes
<1>4. CASE UNCHANGED listVars
  BY <1>4 DEF listVars, lists, ListTypes
<1>. QED
  BY <1>1, <1>2, <1>3, <1>4 DEF ListsNext

\* A goroutine keeps the list it has taken until it sends it.
LEMMA NextList ==
  ASSUME TypeOK, ListTypes, ListInv, [ListsNext]_listVars
  PROVE  ListInv'
<1>1. ASSUME NEW c \in Conns,
             \/ StartConnection(c) \/ CloseConnection(c) \/ OfflineJob(c)
             \/ Leave(c) \/ FinishLeaving(c)
      PROVE  ListInv'
  <2>1. /\ list' = list
        /\ errand' = errand \/ errand' = [errand EXCEPT ![c] = "broadcast"]
        /\ welcome' = welcome \/ welcome' = [welcome EXCEPT ![c] = "register"]
    BY <1>1, ConnectionSteps
  <2>. QED
    BY <2>1 DEF ListTypes, ListInv
<1>2. ASSUME NEW c \in Conns, SendRegisteredMessage(c)
      PROVE  ListInv'
  <2>1. errand' = errand /\ \A d \in Conns : d # c => welcome'[d] = welcome[d]
    BY <1>2 DEF SendRegisteredMessage, ListTypes
  <2>2. CASE UNCHANGED list /\ welcome'[c] \in {"list", "done"}
    BY <2>1, <2>2 DEF ListInv
  <2>3. CASE TakeList(<<c, "welcome">>)
    BY <2>1, <2>3, Routines, Taking DEF ListInv
  <2>4. ASSUME NEW targets \in SUBSET Conns, SendList(<<c, "welcome">>, targets),
               welcome'[c] \in {"broadcast", "done"}
        PROVE  ListInv'
    <3>1. \A h \in Goroutines : h # <<c, "welcome">> => list'[h] = list[h]
      BY <2>4, Routines, Sending
    <3>2. \A d \in Conns : /\ list'[<<d, "reader">>] = list[<<d, "reader">>]
                           /\ d # c => list'[<<d, "welcome">>] = list[<<d, "welcome">>]
      BY <3>1, Routines
    <3>. QED
      BY <2>1, <2>4, <3>2 DEF ListInv
  <2>5. \/ UNCHANGED list /\ welcome'[c] \in {"list", "done"}
        \/ TakeList(<<c, "welcome">>)
        \/ SendList(<<c, "welcome">>, {c}) /\ welcome'[c] = "broadcast"
        \/ SendList(<<c, "welcome">>, Registered) /\ welcome'[c] = "done"
    BY <1>2 DEF SendRegisteredMessage, lists, ListTypes
  <2>6. {c} \in SUBSET Conns /\ Registered \in SUBSET Conns
    BY OnlineUsers
  <2>. QED
    BY <2>2, <2>3, <2>4, <2>5, <2>6
<1>3. ASSUME NEW c \in Conns, ListClients(c) \/ RemoveClientBroadcast(c)
      PROVE  ListInv'
  <2>1. welcome' = welcome /\ \A d \in Conns : d # c => errand'[d] = errand[d]
    BY <1>3 DEF ListClients, RemoveClientBroadcast, ListTypes
  <2>2. CASE TakeList(<<c, "reader">>)
    BY <2>1, <2>2, Routines, Taking DEF ListInv
  <2>3. ASSUME NEW targets \in SUBSET Conns, SendList(<<c, "reader">>, targets),
               errand'[c] = "none"
        PROVE  ListInv'
    <3>1. \A h \in Goroutines : h # <<c, "reader">> => list'[h] = list[h]
      BY <2>3, Routines, Sending
    <3>2. \A d \in Conns : /\ list'[<<d, "welcome">>] = list[<<d, "welcome">>]
                           /\ d # c => list'[<<d, "reader">>] = list[<<d, "reader">>]
      BY <3>1, Routines
    <3>. QED
      BY <2>1, <2>3, <3>2 DEF ListInv
  <2>. QED
    BY <1>3, <2>2, <2>3, OnlineUsers DEF ListClients, RemoveClientBroadcast, ListTypes
<1>4. CASE UNCHANGED listVars
  BY <1>4 DEF listVars, lists, ListInv
<1>. QED
  BY <1>1, <1>2, <1>3, <1>4 DEF ListsNext

-----------------------------------------------------------------------------
(* What the clients were sent. *)

(* A broadcast that begins takes the list of now, with no other on its way. *)
LEMMA BroadcastTaken ==
  ASSUME TypeOK, ListTypes, NEW g \in Goroutines, TakeList(g), Online' = Online, Broadcasting'
  PROVE  CurrentInv'
<1>1. /\ list'[g].users = Online
      /\ \A h \in Goroutines : h # g => list'[h] = list[h]
      /\ ~spoiled' => \A h \in Goroutines : ~list[h].taken
  BY Taking
<1>. QED
  BY <1>1 DEF CurrentInv

(* A broadcast that ends has reached every client but those whose          *)
(* departure is due.                                                       *)
LEMMA BroadcastSent ==
  ASSUME TypeOK, ListTypes, MapInv, CurrentInv, NEW g \in Goroutines, list[g].taken,
         SendList(g, Registered), Online' = Online,
         Registered' = Registered, Due => Due'
  PROVE  CurrentInv'
<1>1. /\ ~list'[g].taken /\ (spoiled => spoiled')
      /\ \A h \in Goroutines : h # g => list'[h] = list[h]
      /\ ~spoiled' => \A c \in Registered \ closed : shown'[c] = list[g].users
  BY Sending, OnlineUsers DEF ListTypes
<1>2. CASE spoiled' \/ Due
  BY <1>2 DEF CurrentInv
<1>3. CASE ~spoiled' /\ ~Due
  <2>1. \A h \in Goroutines : list[h].taken => list[h].users = Online
    BY <1>1, <1>3 DEF CurrentInv
  <2>2. ASSUME NEW c \in Registered PROVE c \in Conns /\ clients[Uid[c]] = c
    <3>1. PICK u \in Users : clients[u] # None /\ c = clients[u]
      BY DEF Registered, Online
    <3>. QED
      BY <3>1 DEF MapInv, TypeOK
  <2>3. Registered \cap closed = {}
    BY <1>3, <2>2 DEF Due
  <2>. QED
    BY <1>1, <1>3, <2>1, <2>3 DEF CurrentInv
<1>. QED
  BY <1>2, <1>3

(* A login or a departure makes a broadcast due, and a broadcast takes the *)
(* place of what was due when it begins.                                   *)
LEMMA NextCurrent ==
  ASSUME TypeOK, MapInv, ListTypes, ListInv, CurrentInv, [ListsNext]_listVars
  PROVE  CurrentInv'
<1>1. ASSUME NEW c \in Conns, StartConnection(c)
      PROVE  CurrentInv'
  <2>1. /\ HandleConnection(c) \/ HandleConnectionResume(c)
        /\ welcome' = IF st'[c] = "open" THEN [welcome EXCEPT ![c] = "register"] ELSE welcome
    BY <1>1 DEF StartConnection
  <2>2. st'[c] = "gap" \/ (st'[c] = "open" /\ clients'[Uid[c]] = c)
    BY <2>1, ConnsAssumption DEF HandleConnection, HandleConnectionResume, Serve, TypeOK
  <2>3. st'[c] = "open" => welcome'[c] = "register"
    BY <2>1 DEF ListTypes
  <2>4. Due'
    BY <2>2, <2>3 DEF Due
  <2>. QED
    BY <2>4 DEF CurrentInv
<1>2. ASSUME NEW c \in Conns, CloseConnection(c) \/ OfflineJob(c) \/ FinishLeaving(c)
      PROVE  CurrentInv'
  <2>1. UNCHANGED <<clients, st, errand, welcome, list, shown, spoiled>> /\ closed \subseteq closed'
    BY <1>2 DEF CloseConnection, OfflineJob, FinishLeaving, CloseReplaced, WriteFails,
                GracePeriodEnds, ConfirmOffline, NotifyUserOffline, RemoveClientClose,
                server, conns, lists
  <2>2. (Due => Due') /\ (Broadcasting => Broadcasting')
    BY <2>1 DEF Due, Broadcasting
  <2>3. Online' = Online /\ Registered' = Registered
    BY <2>1 DEF Online, Registered
  <2>. QED
    BY <2>1, <2>2, <2>3 DEF CurrentInv
<1>3. ASSUME NEW c \in Conns, Leave(c)
      PROVE  CurrentInv'
  <2>1. CASE clients[Uid[c]] = c
    <3>1. errand'[c] = "broadcast"
      BY <1>3, <2>1 DEF Leave, ListTypes
    <3>. QED
      BY <3>1 DEF CurrentInv, Due
  <2>2. CASE clients[Uid[c]] # c
    <3>1. UNCHANGED <<clients, st, closed, errand, welcome, list, shown, spoiled>>
      BY <1>3, <2>2 DEF Leave, RemoveClient, conns, lists
    <3>2. (Due => Due') /\ (Broadcasting => Broadcasting')
      BY <3>1 DEF Due, Broadcasting
    <3>3. Online' = Online /\ Registered' = Registered
      BY <3>1 DEF Online, Registered
    <3>. QED
      BY <3>1, <3>2, <3>3 DEF CurrentInv
  <2>. QED
    BY <2>1, <2>2
<1>4. ASSUME NEW c \in Conns, SendRegisteredMessage(c)
      PROVE  CurrentInv'
  <2>. DEFINE g == <<c, "welcome">>
  <2>1. /\ UNCHANGED <<clients, st, closed, errand>>
        /\ \A d \in Conns : d # c => welcome'[d] = welcome[d]
    BY <1>4 DEF SendRegisteredMessage, vars, server, conns, ListTypes
  <2>2. Online' = Online /\ Registered' = Registered
    BY <2>1 DEF Online, Registered
  <2>3. CASE welcome'[c] \in {"list", "list_send", "broadcast"}
    BY <2>3 DEF CurrentInv, Due
  <2>4. CASE welcome[c] = "register" /\ welcome'[c] = "done"
    <3>1. UNCHANGED <<list, shown>> /\ spoiled' = (spoiled \/ c \notin closed)
      BY <1>4, <2>4 DEF SendRegisteredMessage, ListTypes
    <3>2. (Due /\ ~spoiled' => Due') /\ (Broadcasting => Broadcasting')
      BY <2>1, <2>4, <3>1 DEF Due, Broadcasting
    <3>. QED
      BY <2>2, <3>1, <3>2 DEF CurrentInv
  <2>5. CASE welcome'[c] = "broadcast_send"
    <3>1. TakeList(g) /\ g \in Goroutines
      BY <1>4, <2>5, Routines DEF SendRegisteredMessage, ListTypes
    <3>. QED
      BY <2>2, <2>5, <3>1, BroadcastTaken DEF Broadcasting
  <2>6. CASE welcome[c] = "broadcast_send"
    <3>1. SendList(g, Registered) /\ g \in Goroutines /\ welcome'[c] = "done"
      BY <1>4, <2>6, Routines DEF SendRegisteredMessage, ListTypes
    <3>2. Due => Due'
      BY <2>1, <2>6, <3>1 DEF Due
    <3>3. list[g].taken
      BY <2>6 DEF ListInv
    <3>. QED
      BY <2>2, <3>1, <3>2, <3>3, BroadcastSent
  <2>. QED
    BY <1>4, <2>3, <2>4, <2>5, <2>6 DEF SendRegisteredMessage, ListTypes
<1>5. ASSUME NEW c \in Conns, ListClients(c)
      PROVE  CurrentInv'
  <2>. DEFINE g == <<c, "reader">>
  <2>1. /\ UNCHANGED <<clients, st, closed, welcome>> /\ g \in Goroutines
        /\ \A d \in Conns : d # c => errand'[d] = errand[d]
        /\ {errand[c], errand'[c]} \subseteq {"none", "list_send"}
    BY <1>5, Routines DEF ListClients, vars, server, conns, ListTypes
  <2>2. Online' = Online /\ Registered' = Registered
    BY <2>1 DEF Online, Registered
  <2>3. (Due => Due') /\ (Broadcasting => Broadcasting')
    BY <2>1 DEF Due, Broadcasting
  <2>4. CASE TakeList(g)
    <3>1. /\ shown' = shown /\ list'[g].users = Online
          /\ \A h \in Goroutines : h # g => list'[h] = list[h]
          /\ spoiled => spoiled'
      BY <2>1, <2>4, Taking DEF ListTypes
    <3>. QED
      BY <2>2, <2>3, <3>1 DEF CurrentInv
  <2>5. CASE errand[c] = "list_send" /\ SendList(g, {c})
    <3>1. /\ \A d \in Conns : shown'[d] \in {shown[d], list[g].users}
          /\ ~list'[g].taken /\ (spoiled => spoiled')
          /\ \A h \in Goroutines : h # g => list'[h] = list[h]
      BY <2>1, <2>5, Sending DEF ListTypes
    <3>2. list[g].taken /\ Registered \subseteq Conns
      BY <2>5, OnlineUsers DEF ListInv
    <3>. QED
      BY <2>1, <2>2, <2>3, <3>1, <3>2 DEF CurrentInv
  <2>. QED
    BY <1>5, <2>4, <2>5 DEF ListClients
<1>6. ASSUME NEW c \in Conns, RemoveClientBroadcast(c)
      PROVE  CurrentInv'
  <2>. DEFINE g == <<c, "reader">>
  <2>1. /\ UNCHANGED <<clients, st, closed, welcome>> /\ g \in Goroutines
        /\ \A d \in Conns : d # c => errand'[d] = errand[d]
    BY <1>6, Routines DEF RemoveClientBroadcast, vars, server, conns, ListTypes
  <2>2. Online' = Online /\ Registered' = Registered
    BY <2>1 DEF Online, Registered
  <2>3. CASE TakeList(g) /\ errand'[c] = "broadcast_send"
    BY <2>1, <2>2, <2>3, BroadcastTaken DEF Broadcasting
  <2>4. CASE errand[c] = "broadcast_send" /\ SendList(g, Registered)
    <3>1. Due => Due'
      BY <1>6, <2>1, <2>4 DEF RemoveClientBroadcast, Due, ListTypes
    <3>2. list[g].taken
      BY <2>4 DEF ListInv
    <3>. QED
      BY <2>1, <2>2, <2>4, <3>1, <3>2, BroadcastSent
  <2>. QED
    BY <1>6, <2>3, <2>4 DEF RemoveClientBroadcast, ListTypes
<1>7. CASE UNCHANGED listVars
  BY <1>7 DEF listVars, vars, server, conns, lists, Online, Registered, Due, Broadcasting,
              CurrentInv
<1>. QED
  BY <1>1, <1>2, <1>3, <1>4, <1>5, <1>6, <1>7 DEF ListsNext

-----------------------------------------------------------------------------
\* The server with lists starts in the invariant,
LEMMA InitListsIInv == ListsInit => ListsIInv
<1>. SUFFICES ASSUME ListsInit PROVE ListsIInv
  OBVIOUS
<1>1. IInv
  BY InitIInv DEF ListsInit
<1>2. NoList \in [taken : BOOLEAN, users : SUBSET Users] /\ ~NoList.taken
  BY DEF NoList
<1>3. ListTypes
  BY <1>2 DEF ListsInit, ListTypes
<1>4. Online = {} /\ Registered = {}
  BY DEF ListsInit, Init, Online, Registered
<1>. QED
  BY <1>1, <1>2, <1>3, <1>4 DEF ListsInit, ListsIInv, ListInv, CurrentInv

\* and stays in it.
LEMMA NextListsIInv == ListsIInv /\ [ListsNext]_listVars => ListsIInv'
<1>. SUFFICES ASSUME ListsIInv, [ListsNext]_listVars PROVE ListsIInv'
  OBVIOUS
<1>1. IInv'
  BY StepIsPresence, NextType, NextMap, NextLogin, NextReplaced DEF ListsIInv, IInv
<1>2. ListTypes' /\ ListInv'
  BY NextListType, NextList DEF ListsIInv, IInv
<1>3. CurrentInv'
  BY NextCurrent DEF ListsIInv, IInv
<1>. QED
  BY <1>1, <1>2, <1>3 DEF ListsIInv

\* The inductive invariant of the server with lists.
LEMMA ListsInvariance == ListsSpec => []ListsIInv
BY InitListsIInv, NextListsIInv, PTL DEF ListsSpec

(* When nothing is on its way, every registered client was last sent the   *)
(* users that are online, unless lists were taken at the same time or a    *)
(* message was lost to a full buffer.                                      *)
THEOREM ListsAreCurrent == ListsSpec => []ListIsCurrent
<1>1. ASSUME ListsIInv, Settled, ~spoiled PROVE \A c \in Registered : shown[c] = Online
  <2>1. ~Broadcasting
    BY <1>1 DEF Settled, Broadcasting
  <2>2. ASSUME NEW c \in Conns, clients[Uid[c]] = c, c \in closed PROVE FALSE
    <3>1. reader[c] = "read"
      BY <1>1, <2>2, ConnsAssumption DEF ListsIInv, IInv, MapInv, TypeOK
    <3>. QED
      BY <1>1, <2>2, <3>1 DEF Settled
  <2>3. ~Due
    BY <1>1, <2>2 DEF Settled, Due
  <2>. QED
    BY <1>1, <2>1, <2>3 DEF ListsIInv, CurrentInv
<1>2. ListsIInv => ListIsCurrent
  BY <1>1 DEF ListIsCurrent
<1>. QED
  BY <1>2, ListsInvariance, PTL
=============================================================================
