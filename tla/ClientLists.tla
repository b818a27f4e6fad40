----------------------------- MODULE ClientLists -----------------------------
(***************************************************************************)
(* The client lists of the signaling server (main.go), on top of           *)
(* SignalingServer: its actions with what they do about the lists, and the *)
(* steps that only take or send one.                                       *)
(*                                                                         *)
(* A list is taken from the map under one lock and sent under another;     *)
(* list[g] is what goroutine g has taken and not sent.  A connection has a *)
(* goroutine that registers it (welcome), and its readPump, which answers  *)
(* list-clients and ends in removeClient, has errands of its own.          *)
(***************************************************************************)
EXTENDS SignalingServer

VARIABLES
    errand,    \* what readPump is doing about a list
    welcome,   \* progress of sendRegisteredMessage
    list,      \* the list taken by a goroutine and not yet sent
    shown,     \* the list a connection was sent last
    spoiled    \* history: a list was taken while another was being sent, or
               \* a message was lost to a full buffer

lists == <<list, shown, spoiled>>
listVars == <<vars, errand, welcome, lists>>

Goroutines == Conns \X {"reader", "welcome"}
NoList == [taken |-> FALSE, users |-> {}]
Online == {u \in Users : clients[u] # None}
Registered == {clients[u] : u \in Online}

ListsInit ==
    /\ Init
    /\ errand = [c \in Conns |-> "none"]
    /\ welcome = [c \in Conns |-> "none"]
    /\ list = [g \in Goroutines |-> NoList]
    /\ shown = [c \in Conns |-> {}]
    /\ spoiled = FALSE

-----------------------------------------------------------------------------
(* Connections. *)

\* The end of HandleConnection starts sendRegisteredMessage.
StartConnection(c) ==
    /\ HandleConnection(c) \/ HandleConnectionResume(c)
    /\ welcome' = IF st'[c] = "open" THEN [welcome EXCEPT ![c] = "register"] ELSE welcome
    /\ UNCHANGED <<errand, lists>>

\* close() and the offline jobs have nothing to do with the lists.
CloseConnection(c) ==
    /\ CloseReplaced(c) \/ WriteFails(c)
    /\ UNCHANGED <<errand, welcome, lists>>

OfflineJob(c) ==
    /\ GracePeriodEnds(c) \/ ConfirmOffline(c) \/ NotifyUserOffline(c)
    /\ UNCHANGED <<errand, welcome, lists>>

-----------------------------------------------------------------------------
(* Taking and sending a list. *)

TakeList(g) ==
    /\ list' = [list EXCEPT ![g] = [taken |-> TRUE, users |-> Online]]
    /\ spoiled' = (spoiled \/ \E h \in Goroutines : list[h].taken)
    /\ UNCHANGED shown

\* trySend drops what is sent to a closed client or does not fit its buffer.
SendList(g, targets) ==
    \E got \in SUBSET (targets \ closed) :
        /\ shown' = [c \in Conns |-> IF c \in got THEN list[g].users ELSE shown[c]]
        /\ spoiled' = (spoiled \/ got # targets \ closed)
        /\ list' = [list EXCEPT ![g] = NoList]

\* The registration itself, then sendClientList, then broadcastClientList.
SendRegisteredMessage(c) ==
    LET g == <<c, "welcome">> IN
    /\ \/ /\ welcome[c] = "register"
          /\ c \notin closed
          /\ welcome' = [welcome EXCEPT ![c] = "list"]
          /\ UNCHANGED lists
       \/ /\ welcome[c] = "register"
          /\ welcome' = [welcome EXCEPT ![c] = "done"]
          /\ spoiled' = (spoiled \/ c \notin closed)
          /\ UNCHANGED <<list, shown>>
       \/ /\ welcome[c] = "list"
          /\ TakeList(g)
          /\ welcome' = [welcome EXCEPT ![c] = "list_send"]
       \/ /\ welcome[c] = "list_send"
          /\ SendList(g, {c})
          /\ welcome' = [welcome EXCEPT ![c] = "broadcast"]
       \/ /\ welcome[c] = "broadcast"
          /\ TakeList(g)
          /\ welcome' = [welcome EXCEPT ![c] = "broadcast_send"]
       \/ /\ welcome[c] = "broadcast_send"
          /\ SendList(g, Registered)
          /\ welcome' = [welcome EXCEPT ![c] = "done"]
    /\ UNCHANGED <<vars, errand>>

\* readPump answers list-clients.
ListClients(c) ==
    LET g == <<c, "reader">> IN
    /\ \/ /\ reader[c] = "read" /\ errand[c] = "none"
          /\ c \notin closed
          /\ TakeList(g)
          /\ errand' = [errand EXCEPT ![c] = "list_send"]
       \/ /\ errand[c] = "list_send"
          /\ SendList(g, {c})
          /\ errand' = [errand EXCEPT ![c] = "none"]
    /\ UNCHANGED <<vars, welcome>>

-----------------------------------------------------------------------------
(* removeClient. *)

\* Mutant: a departure is not broadcast.
Leave_NoBroadcast(c) ==
    /\ errand[c] = "none"
    /\ RemoveClient(c)
    /\ UNCHANGED <<errand, welcome, lists>>

\* Only the connection in the map is removed from it, and that is broadcast.
Leave(c) ==
    /\ errand[c] = "none"
    /\ RemoveClient(c)
    /\ errand' = IF clients[Uid[c]] = c THEN [errand EXCEPT ![c] = "broadcast"] ELSE errand
    /\ UNCHANGED <<welcome, lists>>

RemoveClientBroadcast(c) ==
    LET g == <<c, "reader">> IN
    /\ \/ /\ errand[c] = "broadcast"
          /\ TakeList(g)
          /\ errand' = [errand EXCEPT ![c] = "broadcast_send"]
       \/ /\ errand[c] = "broadcast_send"
          /\ SendList(g, Registered)
          /\ errand' = [errand EXCEPT ![c] = "none"]
    /\ UNCHANGED <<vars, welcome>>

\* The connection is closed last.
FinishLeaving(c) ==
    /\ errand[c] = "none"
    /\ RemoveClientClose(c)
    /\ UNCHANGED <<errand, welcome, lists>>

-----------------------------------------------------------------------------
ListsNext ==
    \E c \in Conns :
        \/ StartConnection(c)
        \/ CloseConnection(c)
        \/ OfflineJob(c)
        \/ SendRegisteredMessage(c)
        \/ ListClients(c)
        \/ Leave(c)
        \/ RemoveClientBroadcast(c)
        \/ FinishLeaving(c)

ListsSpec == ListsInit /\ [][ListsNext]_listVars

(* ListsSpec up to the first spoiled list, after which ListIsCurrent       *)
(* claims nothing: the part of its behaviours that TLC has to visit.       *)
CalmSpec == ListsInit /\ [][ListsNext /\ ~spoiled']_listVars

-----------------------------------------------------------------------------
(* Properties. *)

\* No goroutine still has a list to take or to send, and no connection is about
\* to be removed.
Settled ==
    \A c \in Conns :
        /\ st[c] # "gap"
        /\ welcome[c] \in {"none", "done"}
        /\ errand[c] = "none"
        /\ ~(reader[c] = "read" /\ c \in closed)

(* When nothing is on its way, every registered client has been sent       *)
(* exactly the users that are online, provided no list was taken while     *)
(* another one was being sent and no send buffer overflowed.               *)
ListIsCurrent ==
    (Settled /\ ~spoiled) => \A c \in Registered : shown[c] = Online
=============================================================================
