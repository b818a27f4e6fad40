--------------------------- MODULE SignalingServer ---------------------------
(***************************************************************************)
(* Presence in the signaling server (webrtc-signaling-server/main.go):     *)
(* which connection speaks for a user, and when a user counts as offline.  *)
(*                                                                         *)
(* Every goroutine runs from one critical section of the server's mutex to *)
(* the next in one action.  A connection has HandleConnection (st) and its *)
(* readPump, which ends in removeClient (reader); the offline job that     *)
(* removeClient schedules runs confirmOffline (job).  The client lists     *)
(* that are broadcast meanwhile are in ClientLists; relaying a message     *)
(* changes none of this state.                                             *)
(***************************************************************************)
EXTENDS Naturals, FiniteSets

CONSTANTS
    Users,   \* uids
    Conns,   \* websocket connections, each made once
    Uid,     \* the uid a connection gives
    None     \* no connection

ASSUME ConnsAssumption ==
    /\ IsFiniteSet(Conns)
    /\ Uid \in [Conns -> Users]
    /\ None \notin Conns

VARIABLES
    clients,      \* server.clients
    generations,  \* server.clientGenerations, 0 where absent
    pending,      \* server.pendingOfflineJobs: the connection that scheduled it
    st,           \* progress of HandleConnection
    gen,          \* client.generation
    closed,       \* connections on which close() has run
    doomed,       \* replaced connections whose close() goroutine is due
    job,          \* progress of the offline job a connection scheduled
    reader,       \* progress of readPump
    contended     \* history: users with two logins in HandleConnection at once,
                  \* or forgotten while one was in it

server == <<clients, generations, pending>>
conns == <<st, gen, closed, doomed>>
vars == <<server, conns, job, reader, contended>>

Init ==
    /\ clients = [u \in Users |-> None]
    /\ generations = [u \in Users |-> 0]
    /\ pending = [u \in Users |-> None]
    /\ st = [c \in Conns |-> "new"]
    /\ gen = [c \in Conns |-> 0]
    /\ closed = {}
    /\ doomed = {}
    /\ job = [c \in Conns |-> "none"]
    /\ reader = [c \in Conns |-> "none"]
    /\ contended = {}

-----------------------------------------------------------------------------
(* HandleConnection. *)

\* A timer that has not fired can be stopped.
StopJob(u) ==
    LET c == pending[u] IN
    IF c # None /\ job[c] = "scheduled" THEN [job EXCEPT ![c] = "stopped"] ELSE job

\* The readPump of a connection starts after it has entered the map.
Serve(c) ==
    /\ st' = [st EXCEPT ![c] = "open"]
    /\ reader' = [reader EXCEPT ![c] = "read"]

\* A connection of the user is between the two critical sections below.
LoggingIn(u) == \E d \in Conns : Uid[d] = u /\ st[d] = "gap"

\* Mutant: the offline job is stopped and stays in the table.
HandleConnection_KeepsJob(c) ==
    LET u == Uid[c] IN
    /\ st[c] = "new"
    /\ job' = StopJob(u)
    /\ generations' = [generations EXCEPT ![u] = @ + 1]
    /\ gen' = [gen EXCEPT ![c] = generations[u] + 1]
    /\ contended' = IF LoggingIn(u) THEN contended \cup {u} ELSE contended
    /\ \/ /\ clients[u] # None
          /\ clients' = [clients EXCEPT ![u] = None]
          /\ doomed' = doomed \cup {clients[u]}
          /\ st' = [st EXCEPT ![c] = "gap"]
          /\ UNCHANGED reader
       \/ /\ clients[u] = None
          /\ clients' = [clients EXCEPT ![u] = c]
          /\ Serve(c)
          /\ UNCHANGED doomed
    /\ UNCHANGED <<pending, closed>>

(* The first critical section.  A previous connection of the user is taken *)
(* out of the map and the mutex is released to have it closed.             *)
HandleConnection(c) ==
    LET u == Uid[c] IN
    /\ st[c] = "new"
    /\ job' = StopJob(u)
    /\ pending' = [pending EXCEPT ![u] = None]
    /\ generations' = [generations EXCEPT ![u] = @ + 1]
    /\ gen' = [gen EXCEPT ![c] = generations[u] + 1]
    /\ contended' = IF LoggingIn(u) THEN contended \cup {u} ELSE contended
    /\ \/ /\ clients[u] # None
          /\ clients' = [clients EXCEPT ![u] = None]
          /\ doomed' = doomed \cup {clients[u]}
          /\ st' = [st EXCEPT ![c] = "gap"]
          /\ UNCHANGED reader
       \/ /\ clients[u] = None
          /\ clients' = [clients EXCEPT ![u] = c]
          /\ Serve(c)
          /\ UNCHANGED doomed
    /\ UNCHANGED closed

\* The second critical section.
HandleConnectionResume(c) ==
    /\ st[c] = "gap"
    /\ clients' = [clients EXCEPT ![Uid[c]] = c]
    /\ Serve(c)
    /\ UNCHANGED <<generations, pending, gen, closed, doomed, job, contended>>

CloseReplaced(c) ==
    /\ c \in doomed
    /\ doomed' = doomed \ {c}
    /\ closed' = closed \cup {c}
    /\ UNCHANGED <<server, st, gen, job, reader, contended>>

\* writePump fails to write, or misses a pong.
WriteFails(c) ==
    /\ st[c] = "open"
    /\ c \notin closed
    /\ closed' = closed \cup {c}
    /\ UNCHANGED <<server, st, gen, doomed, job, reader, contended>>

-----------------------------------------------------------------------------
(* Leaving. *)

\* Mutant: the user is removed without comparing the connection.
RemoveClient_ByUid(c) ==
    LET u == Uid[c] IN
    /\ reader[c] = "read"
    /\ clients' = [clients EXCEPT ![u] = None]
    /\ pending' = [pending EXCEPT ![u] = c]
    /\ job' = [StopJob(u) EXCEPT ![c] = "scheduled"]
    /\ reader' = [reader EXCEPT ![c] = "close"]
    /\ UNCHANGED <<generations, conns, contended>>

\* readPump returns on a read error and runs removeClient.
RemoveClient(c) ==
    LET u == Uid[c] IN
    /\ reader[c] = "read"
    /\ \/ /\ clients[u] = c
          /\ clients' = [clients EXCEPT ![u] = None]
          /\ pending' = [pending EXCEPT ![u] = c]
          /\ job' = [StopJob(u) EXCEPT ![c] = "scheduled"]
          /\ reader' = [reader EXCEPT ![c] = "close"]
       \/ /\ clients[u] # c
          /\ reader' = [reader EXCEPT ![c] = "close"]
          /\ UNCHANGED <<clients, pending, job>>
    /\ UNCHANGED <<generations, conns, contended>>

RemoveClientClose(c) ==
    /\ reader[c] = "close"
    /\ reader' = [reader EXCEPT ![c] = "done"]
    /\ closed' = closed \cup {c}
    /\ UNCHANGED <<server, st, gen, doomed, job, contended>>

\* The grace period is over: from here on Stop comes too late.
GracePeriodEnds(c) ==
    /\ job[c] = "scheduled"
    /\ job' = [job EXCEPT ![c] = "fired"]
    /\ UNCHANGED <<server, conns, reader, contended>>

\* Mutant: off by one, an offline job of the current generation is stale.
ConfirmOffline_OffByOne(c) ==
    LET u == Uid[c] IN
    /\ job[c] = "fired"
    /\ generations[u] >= gen[c]
    /\ job' = [job EXCEPT ![c] = "done"]
    /\ UNCHANGED <<clients, generations, pending, conns, reader, contended>>

(* A forgotten user counts from one again, so a job that waits for the     *)
(* mutex for longer than the grace period can meet its generation again.   *)
ConfirmOffline(c) ==
    LET u == Uid[c] IN
    /\ job[c] = "fired"
    /\ \/ /\ generations[u] # gen[c]
          /\ job' = [job EXCEPT ![c] = "done"]
          /\ UNCHANGED <<pending, generations, contended>>
       \/ /\ generations[u] = gen[c]
          /\ clients[u] # None
          /\ job' = [job EXCEPT ![c] = "done"]
          /\ pending' = [pending EXCEPT ![u] = None]
          /\ UNCHANGED <<generations, contended>>
       \/ /\ generations[u] = gen[c]
          /\ clients[u] = None
          /\ job' = [job EXCEPT ![c] = "notify"]
          /\ pending' = [pending EXCEPT ![u] = None]
          /\ generations' = [generations EXCEPT ![u] = 0]
          /\ contended' = IF LoggingIn(u) THEN contended \cup {u} ELSE contended
    /\ UNCHANGED <<clients, conns, reader>>

\* Everybody in the map but the user itself is told.
NotifyUserOffline(c) ==
    /\ job[c] = "notify"
    /\ job' = [job EXCEPT ![c] = "done"]
    /\ UNCHANGED <<server, conns, reader, contended>>

-----------------------------------------------------------------------------
\* What the server does by itself.
ServerStep(c) ==
    \/ HandleConnectionResume(c)
    \/ CloseReplaced(c)
    \/ RemoveClientClose(c)
    \/ GracePeriodEnds(c)
    \/ ConfirmOffline(c)
    \/ NotifyUserOffline(c)

Next ==
    \E c \in Conns :
        \/ ServerStep(c)
        \/ RemoveClient(c)
        \/ HandleConnection(c)
        \/ WriteFails(c)

Spec == Init /\ [][Next]_vars

Fairness ==
    \A c \in Conns :
        /\ WF_vars(ServerStep(c))
        /\ WF_vars(c \in closed /\ RemoveClient(c))

FairSpec == Spec /\ Fairness

-----------------------------------------------------------------------------
(* Properties. *)

(* The types, and in the table of offline jobs a user has only a job of    *)
(* his own, which was neither stopped nor has gone on to the announcement. *)
TypeOK ==
    /\ clients \in [Users -> Conns \cup {None}]
    /\ generations \in [Users -> Nat]
    /\ pending \in [Users -> Conns \cup {None}]
    /\ st \in [Conns -> {"new", "gap", "open"}]
    /\ gen \in [Conns -> Nat]
    /\ closed \subseteq Conns
    /\ doomed \subseteq Conns
    /\ job \in [Conns -> {"none", "scheduled", "stopped", "fired", "notify", "done"}]
    /\ reader \in [Conns -> {"none", "read", "close", "done"}]
    /\ contended \subseteq Users
    /\ \A u \in Users : pending[u] # None =>
           Uid[pending[u]] = u /\ job[pending[u]] \in {"scheduled", "fired", "done"}

(* While the logins of a user do not overlap, and no late offline job      *)
(* forgets the user during one, the connection in the map is the one with  *)
(* the newest generation, and any other connection of that user that is    *)
(* still being read has been closed or is about to be.                     *)
NewestSpeaksForUser ==
    \A c \in Conns :
        LET u == Uid[c] IN
        (u \notin contended /\ reader[c] = "read") =>
            \/ clients[u] = c /\ gen[c] = generations[u]
            \/ clients[u] # c /\ c \in closed \cup doomed

(* A user whose connection is gone is back, or forgotten and announced as  *)
(* offline, after a while.                                                 *)
DepartureIsNoticed ==
    \A u \in Users :
        (clients[u] = None /\ generations[u] # 0) ~>
            (clients[u] # None \/ generations[u] = 0 \/ u \in contended)
=============================================================================
