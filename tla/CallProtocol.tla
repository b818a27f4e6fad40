---------------------------- MODULE CallProtocol ----------------------------
(***************************************************************************)
(* Calls between the users of one signaling server, end to end: the call   *)
(* manager of every client (callmanager.cc, here one step per handler;     *)
(* CallManager has its threads), the messages it has built, sent, parsed   *)
(* and dispatched (signalclient.cc, signaling_codec.cc,                    *)
(* signal_message_dispatcher.cc, call_coordinator.cc) and the server that  *)
(* relays them (main.go).  Offers, answers and candidates are in           *)
(* Negotiation and client lists in ClientLists.                            *)
(*                                                                         *)
(* Nothing is acknowledged: a message is lost with the connection that     *)
(* carries it, or because its target is offline or its channel is full.    *)
(* CancelCall has no caller, so nobody sends call-cancel.                  *)
(***************************************************************************)
EXTENDS Naturals, Sequences, SequencesExt

CONSTANTS
    Users,     \* uids
    NoUser,    \* the empty string as a uid
    Cap,       \* capacity of the channel of a client
    MaxCalls,  \* bound on the calls that are started
    Flaky      \* the users whose connections break

ASSUME ProtocolAssumption ==
    NoUser \notin Users /\ Cap \in Nat /\ MaxCalls \in Nat /\ Flaky \subseteq Users

VARIABLES
    user,      \* call_state_, current_peer_ and current_call_id_ of a client
    next,      \* the next call id
    up,        \* messages from a client to the server
    down,      \* messages from the server to a client: its channel
    online,    \* users in server.clients, whose client is connected
    grace,     \* users whose disconnection is still to be announced
    lost,      \* history: calls about which a message was lost
    timedout   \* history: calls the caller gave up by timeout

vars == <<user, next, up, down, online, grace, lost, timedout>>

NoCall == 0
CallIds == 1..MaxCalls
Idle == [state |-> "Idle", peer |-> NoUser, call |-> NoCall]

InCall(u, c) == user[u].call = c

Init ==
    /\ user = [u \in Users |-> Idle]
    /\ next = 1
    /\ up = [u \in Users |-> <<>>]
    /\ down = [u \in Users |-> <<>>]
    /\ online = Users
    /\ grace = {}
    /\ lost = {}
    /\ timedout = {}

-----------------------------------------------------------------------------
(* Messages on the wire: objects that may lack any key. *)

Value(object, key, default) == IF key \in DOMAIN object THEN object[key] ELSE default

BuildCallRequestMessage(from, to, c) ==
    [type |-> "call-request", from |-> from, to |-> to, payload |-> [callId |-> c]]

BuildCallResponseMessage(from, to, c, accepted) ==
    [type |-> "call-response", from |-> from, to |-> to,
     payload |-> [callId |-> c, accepted |-> accepted]]

BuildCallEndMessage(from, to, c) ==
    [type |-> "call-end", from |-> from, to |-> to, payload |-> [callId |-> c]]

\* notifyUserOffline.
OfflineMessage(u) ==
    [type |-> "user-offline", from |-> "server", payload |-> [clientId |-> u]]

ParseSignalingMessage(envelope) ==
    LET payload == Value(envelope, "payload", <<>>)
    IN  [type     |-> Value(envelope, "type", "unknown"),
         from     |-> Value(envelope, "from", NoUser),
         call     |-> Value(payload, "callId", Value(payload, "call_id", NoCall)),
         accepted |-> Value(payload, "accepted", FALSE),
         offline  |-> Value(payload, "clientId", NoUser)]

\* The calls that messages are about.
CallsOf(messages) ==
    {ParseSignalingMessage(m).call : m \in ToSet(messages)} \ {NoCall}

\* QueueJsonMessage: what is written to a closed websocket is lost.
Send(u, m) ==
    \/ u \in online /\ up' = [up EXCEPT ![u] = Append(@, m)] /\ UNCHANGED lost
    \/ u \notin online /\ lost' = lost \cup CallsOf(<<m>>) /\ UNCHANGED up

Silent == UNCHANGED <<up, lost>>

-----------------------------------------------------------------------------
(* The call manager.  Enter leaves the messages to the caller. *)

Enter(u, state) == user' = [user EXCEPT ![u].state = state]
CleanupCall(u) == user' = [user EXCEPT ![u] = Idle]

InitiateCall(u, target) ==
    /\ u \in online
    /\ user[u].state = "Idle"
    /\ u # target
    /\ next \in CallIds
    /\ user' = [user EXCEPT ![u] = [state |-> "Calling", peer |-> target, call |-> next]]
    /\ next' = next + 1
    /\ Send(u, BuildCallRequestMessage(u, target, next))
    /\ UNCHANGED <<down, online, grace, timedout>>

AcceptCall(u) ==
    /\ user[u].state = "Receiving"
    /\ Send(u, BuildCallResponseMessage(u, user[u].peer, user[u].call, TRUE))
    /\ Enter(u, "Connecting")
    /\ UNCHANGED <<next, down, online, grace, timedout>>

RejectCall(u) ==
    /\ user[u].state = "Receiving"
    /\ Send(u, BuildCallResponseMessage(u, user[u].peer, user[u].call, FALSE))
    /\ CleanupCall(u)
    /\ UNCHANGED <<next, down, online, grace, timedout>>

EndCall(u) ==
    /\ user[u].state # "Idle"
    /\ Send(u, BuildCallEndMessage(u, user[u].peer, user[u].call))
    /\ CleanupCall(u)
    /\ UNCHANGED <<next, down, online, grace, timedout>>

\* OnCallRequestTimeout tells nobody.
OnCallRequestTimeout(u) ==
    /\ user[u].state = "Calling"
    /\ timedout' = timedout \cup {user[u].call}
    /\ CleanupCall(u)
    /\ UNCHANGED <<next, up, down, online, grace, lost>>

\* The media connection of two clients that are both in the call.
Media(u) ==
    /\ InCall(user[u].peer, user[u].call)
    /\ user[user[u].peer].state \in {"Connecting", "Connected"}

NotifyPeerConnectionEstablished(u) ==
    /\ user[u].state = "Connecting"
    /\ Media(u)
    /\ Enter(u, "Connected")
    /\ UNCHANGED <<next, up, down, online, grace, lost, timedout>>

\* Mutant: the watchdog gives up while the signaling server is out of reach.
IceWatchdog_Online(u) ==
    /\ user[u].state = "Connected"
    /\ ~Media(u)
    /\ u \in online
    /\ EndCall(u)

\* The watchdog hangs up when the peer has closed its connection.
IceWatchdog(u) ==
    /\ user[u].state = "Connected"
    /\ ~Media(u)
    /\ EndCall(u)

HandleCallRequest(u, m) ==
    \/ m.call = NoCall /\ Silent /\ UNCHANGED user
    \/ /\ m.call # NoCall /\ user[u].state # "Idle"
       /\ Send(u, BuildCallResponseMessage(u, m.from, m.call, FALSE))
       /\ UNCHANGED user
    \/ /\ m.call # NoCall /\ user[u].state = "Idle"
       /\ user' = [user EXCEPT ![u] =
                      [state |-> "Receiving", peer |-> m.from, call |-> m.call]]
       /\ Silent

\* A message of the peer about the current call.
IsCurrent(u, m) == m.call # NoCall /\ m.call = user[u].call /\ m.from = user[u].peer

HandleCallResponse(u, m) ==
    /\ \/ IsCurrent(u, m) /\ user[u].state = "Calling" /\ m.accepted /\ Enter(u, "Connecting")
       \/ IsCurrent(u, m) /\ user[u].state = "Calling" /\ ~m.accepted /\ CleanupCall(u)
       \/ ~(IsCurrent(u, m) /\ user[u].state = "Calling") /\ UNCHANGED user
    /\ Silent

\* Mutant: only a call that was answered can be ended.
HandleCallEnd_Answered(u, m) ==
    LET answered == IsCurrent(u, m) /\ user[u].state \in {"Connecting", "Connected"} IN
    /\ IF answered THEN CleanupCall(u) ELSE UNCHANGED user
    /\ Silent

HandleCallEnd(u, m) ==
    /\ \/ IsCurrent(u, m) /\ user[u].state # "Idle" /\ CleanupCall(u)
       \/ ~(IsCurrent(u, m) /\ user[u].state # "Idle") /\ UNCHANGED user
    /\ Silent

\* current_peer_id_, set by OnNeedCreatePeerConnection until the client is idle.
CurrentPeerId(u) ==
    IF user[u].state \in {"Connecting", "Connected"} THEN user[u].peer ELSE NoUser

(* A client whose media session works keeps it; one that is ringing or     *)
(* calling has no current_peer_id_ and stays as it is.                     *)
OnUserOffline(u, m) ==
    \/ /\ m.offline = CurrentPeerId(u) /\ user[u].state = "Connecting"
       /\ Send(u, BuildCallEndMessage(u, user[u].peer, user[u].call))
       /\ CleanupCall(u)
    \/ /\ m.offline # CurrentPeerId(u) \/ user[u].state = "Connected"
       /\ Silent /\ UNCHANGED user

DispatchSignalingMessage(u, m) ==
    \/ m.type = "call-request" /\ HandleCallRequest(u, m)
    \/ m.type = "call-response" /\ HandleCallResponse(u, m)
    \/ m.type = "call-end" /\ HandleCallEnd(u, m)
    \/ m.type = "user-offline" /\ OnUserOffline(u, m)

Receive(u) ==
    /\ down[u] # <<>>
    /\ down' = [down EXCEPT ![u] = Tail(@)]
    /\ DispatchSignalingMessage(u, ParseSignalingMessage(Head(down[u])))
    /\ UNCHANGED <<next, online, grace, timedout>>

-----------------------------------------------------------------------------
(* The server. *)

\* trySend to all of the clients; one whose channel is full gets nothing.
TrySend(targets, m) ==
    down' = [u \in Users |-> IF u \in targets /\ Len(down[u]) < Cap
                             THEN Append(down[u], m) ELSE down[u]]

\* readPump and relayMessage: the server says who the sender is.
RelayMessage(u) ==
    /\ up[u] # <<>>
    /\ up' = [up EXCEPT ![u] = Tail(@)]
    /\ LET m == [Head(up[u]) EXCEPT !.from = u] IN
          \/ /\ m.to \in online /\ Len(down[m.to]) < Cap
             /\ TrySend({m.to}, m)
             /\ UNCHANGED lost
          \/ /\ m.to \notin online \/ Len(down[m.to]) >= Cap
             /\ lost' = lost \cup CallsOf(<<m>>)
             /\ UNCHANGED down
    /\ UNCHANGED <<user, next, online, grace, timedout>>

\* The connection of u breaks, with everything on it.
Disconnect(u) ==
    /\ u \in online \cap Flaky
    /\ online' = online \ {u}
    /\ grace' = grace \cup {u}
    /\ up' = [up EXCEPT ![u] = <<>>]
    /\ down' = [down EXCEPT ![u] = <<>>]
    /\ lost' = lost \cup CallsOf(up[u] \o down[u])
    /\ UNCHANGED <<user, next, timedout>>

(* The client is back.  An announcement that has passed its check is made  *)
(* all the same (SignalingServer).                                         *)
Reconnect(u) ==
    /\ u \notin online
    /\ online' = online \cup {u}
    /\ grace' \in {grace, grace \ {u}}
    /\ UNCHANGED <<user, next, up, down, lost, timedout>>

NotifyUserOffline(u) ==
    /\ u \in grace
    /\ grace' = grace \ {u}
    /\ TrySend(online \ {u}, OfflineMessage(u))
    /\ UNCHANGED <<user, next, up, online, lost, timedout>>

-----------------------------------------------------------------------------
Next ==
    \/ \E u, v \in Users : InitiateCall(u, v)
    \/ \E u \in Users :
          \/ AcceptCall(u) \/ RejectCall(u) \/ EndCall(u)
          \/ OnCallRequestTimeout(u) \/ NotifyPeerConnectionEstablished(u)
          \/ IceWatchdog(u)
          \/ Receive(u) \/ RelayMessage(u)
          \/ Disconnect(u) \/ Reconnect(u) \/ NotifyUserOffline(u)

Spec == Init /\ [][Next]_vars

(* Threads and goroutines run, and timers expire; users need not do        *)
(* anything and connections need not come back.                            *)
Fairness ==
    \A u \in Users :
        /\ WF_vars(Receive(u)) /\ WF_vars(RelayMessage(u))
        /\ WF_vars(OnCallRequestTimeout(u)) /\ WF_vars(IceWatchdog(u))

FairSpec == Spec /\ Fairness

-----------------------------------------------------------------------------
(* Properties. *)

(* Nobody stays in a call that the peer is not in: then a message about    *)
(* the call is on its way between the two.  Except when one was lost,      *)
(* because relayMessage drops what it cannot deliver, or when the caller   *)
(* gave up, because OnCallRequestTimeout tells the callee nothing.         *)
NobodyIsStranded ==
    \A u \in Users : LET p == user[u].peer
                         c == user[u].call IN
        c # NoCall =>
            \/ InCall(p, c)
            \/ c \in CallsOf(up[u] \o down[u] \o up[p] \o down[p])
            \/ c \in lost \cup timedout

Half(c) == \E u \in Users : InCall(u, c) /\ ~InCall(user[u].peer, c)

(* A call that only one user is in does not last, whatever is lost, unless *)
(* that user is ringing or connecting: then neither the timer of the call  *)
(* request nor the watchdog runs, and a lost call-end or a timeout of the  *)
(* caller leaves the client as it is.                                      *)
HalfCallEnds ==
    \A c \in CallIds :
        Half(c) ~> \/ ~Half(c)
                   \/ /\ c \in lost \cup timedout
                      /\ \E u \in Users : /\ InCall(u, c)
                                          /\ user[u].state \in {"Receiving", "Connecting"}
=============================================================================
