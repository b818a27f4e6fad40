----------------------------- MODULE Negotiation -----------------------------
(***************************************************************************)
(* Offer, answer and ICE candidates of successive calls: the peer          *)
(* connection half of the engine (src/webrtcengine_peer_connection.cc) and *)
(* its use by src/call_coordinator.cc.                                     *)
(*                                                                         *)
(* Two threads share the engine without a lock.  The signaling I/O thread  *)
(* starts and ends calls and handles messages; WebRTC's signaling thread   *)
(* completes the operations on descriptions and runs their callbacks.      *)
(* A call into the peer connection is executed on WebRTC's thread while    *)
(* the I/O thread waits, so it falls between two callbacks: Hop.  A        *)
(* callback first asks whether the guard it was given has expired.         *)
(*                                                                         *)
(* Calls are numbered; the peer connection and its guard carry the number  *)
(* of their call.  The call manager is seen through its state and its      *)
(* call identifier, which change on the I/O thread.                        *)
(***************************************************************************)
EXTENDS Naturals

CONSTANTS
    Peers,      \* the other clients
    NoPeer,     \* the empty peer name
    MaxCalls,   \* bound on the calls of a behaviour
    MaxCands    \* bound on the candidates a peer sends in a call

ASSUME ConstantsAssumption ==
    NoPeer \notin Peers /\ MaxCalls \in Nat /\ MaxCands \in Nat

VARIABLES
    n,          \* calls so far
    calls,      \* role and peer of each call
    st,         \* call_state_
    call_id,    \* current_call_id_, 0 when empty
    peer_id,    \* current_peer_id_ of the coordinator
    io,         \* what the I/O thread does next
    pc,         \* peer_connection_, 0 without one
    guard,      \* peer_connection_callback_guard_, 0 when reset
    local,      \* type of the local description
    remote,     \* type of the remote description
    ops,        \* operations WebRTC has not completed
    cb,         \* the callback WebRTC's thread is in
    pending,    \* pending_ice_candidates_
    applied,    \* candidates the peer connection has taken
    got,        \* messages that have arrived
    sent,       \* messages that were sent
    accepted,   \* history: candidates AddIceCandidate took on for pc
    missed,     \* history: one was queued behind the last retry
    broken      \* history: an operation of pc failed

session == <<n, calls, st, call_id, peer_id>>
engine == <<pc, guard, local, remote, ops, cb>>
cands == <<pending, applied, accepted, missed>>
vars == <<session, io, engine, cands, got, sent, broken>>

CallNumbers == 1..MaxCalls
Cand(c, k) == [call |-> c, k |-> k]
Cands == [call : CallNumbers, k : 1..MaxCands]
NoCand == [call |-> 0, k |-> 0]
OpKinds == {"create_offer", "create_answer", "local_offer", "local_answer",
            "remote_offer", "remote_answer"}
\* An operation of the connection whose callback is given the current guard.
Op(kind) == [kind |-> kind, pc |-> pc, guard |-> guard]
Ops == [kind : OpKinds, pc : CallNumbers, guard : 0..MaxCalls]
NoCallback == [kind |-> "none", pc |-> 0, guard |-> 0, ok |-> FALSE, at |-> "none"]
IoLabels == {"idle", "push", "close_guard", "close_pc", "close_clear",
             "cleanup", "notify"}

Init ==
    /\ n = 0
    /\ calls = [c \in CallNumbers |-> [role |-> "none", peer |-> NoPeer]]
    /\ st = "Idle"
    /\ call_id = 0
    /\ peer_id = NoPeer
    /\ io = [at |-> "idle", cand |-> NoCand]
    /\ pc = 0
    /\ guard = 0
    /\ local = "none"
    /\ remote = "none"
    /\ ops = {}
    /\ cb = NoCallback
    /\ pending = {}
    /\ applied = {}
    /\ got = {}
    /\ sent = {}
    /\ accepted = {}
    /\ missed = FALSE
    /\ broken = FALSE

Io(label) == io' = [at |-> label, cand |-> NoCand]
At(label) == io.at = label

\* WebRTC's thread is free to execute a call of the I/O thread.
Hop == cb = NoCallback

-----------------------------------------------------------------------------
(* The I/O thread: the beginning and the end of a call. *)

\* CreatePeerConnection and AddTracks, either of which may fail: the guard that
\* was renewed is reset then, and the connection closed.
CreatePeerConnection(c) ==
    {[pc |-> c, guard |-> c], [pc |-> 0, guard |-> 0]}

CreateOffer(new) ==
    IF new.pc = 0 THEN {}
    ELSE {[kind |-> "create_offer", pc |-> new.pc, guard |-> new.guard]}

\* The call is answered or accepted: OnNeedCreatePeerConnection.  A connection
\* that exists is kept, and no offer made.
StartCall(role, p) ==
    /\ At("idle")
    /\ st = "Idle"
    /\ n < MaxCalls
    /\ Hop
    /\ n' = n + 1
    /\ calls' = [calls EXCEPT ![n + 1] = [role |-> role, peer |-> p]]
    /\ st' = "Connecting"
    /\ call_id' = n + 1
    /\ peer_id' = p
    /\ IF pc # 0
       THEN UNCHANGED <<pc, guard, ops, broken>>
       ELSE \E new \in CreatePeerConnection(n + 1) :
               /\ pc' = new.pc
               /\ guard' = new.guard
               /\ ops' = IF role = "caller" THEN ops \cup CreateOffer(new) ELSE ops
               /\ broken' = FALSE
    /\ UNCHANGED <<io, local, remote, cb, cands, got, sent>>

\* NotifyPeerConnectionEstablished, once ICE has connected.
Established ==
    /\ At("idle")
    /\ st = "Connecting"
    /\ pc # 0 /\ local # "none" /\ remote # "none"
    /\ st' = "Connected"
    /\ UNCHANGED <<n, calls, call_id, peer_id, io, engine, cands, got, sent, broken>>

\* Mutant: the manager forgets the call before the connection is closed.
EndCall_CleanupFirst ==
    /\ At("idle")
    /\ st \notin {"Idle", "Ending"}
    /\ st' = "Ending"
    /\ call_id' = 0
    /\ Io("close_guard")
    /\ UNCHANGED <<n, calls, peer_id, engine, cands, got, sent, broken>>

\* EndCall and HandleCallEnd: OnNeedClosePeerConnection, then CleanupCall.
EndCall ==
    /\ At("idle")
    /\ st \notin {"Idle", "Ending"}
    /\ st' = "Ending"
    /\ Io("close_guard")
    /\ UNCHANGED <<n, calls, call_id, peer_id, engine, cands, got, sent, broken>>

\* The media session survives the peer's absence from the server.
OnUserOffline(p) ==
    /\ p = peer_id
    /\ st # "Connected"
    /\ EndCall

\* Mutant: the guard is left alone.
CloseGuard_Keeps ==
    /\ At("close_guard")
    /\ Io("close_pc")
    /\ UNCHANGED <<session, engine, cands, got, sent, broken>>

\* ResetPeerConnectionCallbackGuard.
CloseGuard ==
    /\ At("close_guard")
    /\ guard' = 0
    /\ Io("close_pc")
    /\ UNCHANGED <<session, pc, local, remote, ops, cb, cands, got, sent, broken>>

\* Mutant: peer_connection_ is cleared without waiting for its Close.
ClosePeerConnection_NullFirst ==
    /\ At("close_pc")
    /\ pc' = 0
    /\ local' = "none"
    /\ remote' = "none"
    /\ applied' = {}
    /\ accepted' = {}
    /\ missed' = FALSE
    /\ Io("close_clear")
    /\ UNCHANGED <<session, guard, ops, cb, pending, got, sent, broken>>

\* RemoveTrackOrError and Close wait for WebRTC's thread.
ClosePeerConnection ==
    /\ At("close_pc")
    /\ pc # 0 => Hop
    /\ pc' = 0
    /\ local' = "none"
    /\ remote' = "none"
    /\ applied' = {}
    /\ accepted' = {}
    /\ missed' = FALSE
    /\ Io("close_clear")
    /\ UNCHANGED <<session, guard, ops, cb, pending, got, sent, broken>>

\* Mutant: queued candidates survive the connection.
CloseClear_KeepsPending ==
    /\ At("close_clear")
    /\ Io("cleanup")
    /\ UNCHANGED <<session, engine, cands, got, sent, broken>>

\* The rest of the close: the queued candidates are deleted.
CloseClear ==
    /\ At("close_clear")
    /\ pending' = {}
    /\ Io("cleanup")
    /\ UNCHANGED <<session, engine, applied, accepted, missed, got, sent, broken>>

CleanupCall ==
    /\ At("cleanup")
    /\ st' = "Idle"
    /\ call_id' = 0
    /\ Io("notify")
    /\ UNCHANGED <<n, calls, peer_id, engine, cands, got, sent, broken>>

\* OnCallStateChanged(Idle).
NotifyIdle ==
    /\ At("notify")
    /\ peer_id' = NoPeer
    /\ Io("idle")
    /\ UNCHANGED <<n, calls, st, call_id, engine, cands, got, sent, broken>>

-----------------------------------------------------------------------------
(* The I/O thread: messages, each of which arrives once, at any time after *)
(* the peer can have sent it.                                              *)

Arrives(kind, c, k) ==
    /\ At("idle")
    /\ c <= n
    /\ [kind |-> kind, call |-> c, k |-> k] \notin got
    /\ got' = got \cup {[kind |-> kind, call |-> c, k |-> k]}

HasSent(kind, c) == \E m \in sent : m.kind = kind /\ m.call = c

\* The text may not parse.
SetRemoteDescription(kind) == ops' \in {ops, ops \cup {Op(kind)}}

\* ProcessOffer; the text may be empty.
OnOffer(c) ==
    /\ calls[c].role = "callee"
    /\ Arrives("offer", c, 0)
    /\ Hop
    /\ IF pc # 0 /\ c = call_id
       THEN /\ peer_id' = calls[c].peer
            /\ SetRemoteDescription("remote_offer")
       ELSE UNCHANGED <<peer_id, ops>>
    /\ UNCHANGED <<n, calls, st, call_id, io, pc, guard, local, remote, cb,
                   cands, sent, broken>>

\* ProcessAnswer.
OnAnswer(c) ==
    /\ HasSent("offer", c)
    /\ Arrives("answer", c, 0)
    /\ Hop
    /\ IF pc # 0 /\ c = call_id /\ peer_id = calls[c].peer
       THEN SetRemoteDescription("remote_answer")
       ELSE UNCHANGED ops
    /\ UNCHANGED <<session, io, pc, guard, local, remote, cb, cands, sent, broken>>

\* Whether the peer connection takes a candidate (external): always with both
\* descriptions set; without the local one its transport may be missing.
Takes == {ok \in BOOLEAN :
            /\ ok => remote # "none"
            /\ (remote # "none" /\ local # "none") => ok}

\* A candidate the connection does not take is put into the queue in a step of
\* its own.
AddIceCandidate(cand) ==
    \E ok \in Takes :
        IF ok
        THEN applied' = applied \cup {cand} /\ UNCHANGED io
        ELSE io' = [at |-> "push", cand |-> cand] /\ UNCHANGED applied

\* ProcessIceCandidate.
OnIceCandidate(c, k) ==
    /\ calls[c].role = "caller" => HasSent("offer", c)
    /\ Arrives("candidate", c, k)
    /\ Hop
    /\ IF pc # 0 /\ c = call_id /\ peer_id = calls[c].peer
       THEN AddIceCandidate(Cand(c, k)) /\ accepted' = accepted \cup {Cand(c, k)}
       ELSE UNCHANGED <<accepted, applied, io>>
    /\ UNCHANGED <<session, engine, pending, missed, sent, broken>>

\* Callbacks that walk through pending_ice_candidates_.
Retrying == cb.at = "run" /\ cb.kind \in {"local_offer", "local_answer",
                                          "remote_offer", "remote_answer"}

(* push_back, outside of WebRTC's thread.  When the last retry is over, or *)
(* runs at this very moment and the deque is damaged, the candidate waits  *)
(* for ever or is lost.                                                    *)
PushCandidate ==
    /\ At("push")
    /\ \/ pending' = pending \cup {io.cand}
       \/ Retrying /\ UNCHANGED pending
    /\ missed' = (missed \/ Retrying \/ (local # "none" /\ remote # "none"))
    /\ Io("idle")
    /\ UNCHANGED <<session, engine, applied, accepted, got, sent, broken>>

-----------------------------------------------------------------------------
(* WebRTC's thread. *)

\* The description an operation sets.
Local(kind) == CASE kind = "local_offer" -> "offer"
                 [] kind = "local_answer" -> "answer"
                 [] OTHER -> local
Remote(kind) == CASE kind = "remote_offer" -> "offer"
                  [] kind = "remote_answer" -> "answer"
                  [] OTHER -> remote

\* An operation ends (external): the connection has the description, and the
\* callback is called.  Those of a closed connection fail.
Complete(op, ok) ==
    /\ cb = NoCallback
    /\ op \in ops
    /\ ok => op.pc = pc
    /\ ops' = ops \ {op}
    /\ cb' = [kind |-> op.kind, pc |-> op.pc, guard |-> op.guard, ok |-> ok,
              at |-> "check"]
    /\ local' = IF ok THEN Local(op.kind) ELSE local
    /\ remote' = IF ok THEN Remote(op.kind) ELSE remote
    /\ broken' = (broken \/ (op.pc = pc /\ ~ok))
    /\ UNCHANGED <<session, io, pc, guard, cands, got, sent>>

\* OnIceCandidate of the observer: a candidate was gathered (external).
Gather ==
    /\ cb = NoCallback
    /\ pc # 0 /\ local # "none"
    /\ cb' = [kind |-> "gathered", pc |-> pc, guard |-> pc, ok |-> TRUE,
              at |-> "check"]
    /\ UNCHANGED <<session, io, pc, guard, local, remote, ops, cands, got, sent,
                   broken>>

\* callback_guard.expired().
CheckGuard ==
    /\ cb.at = "check"
    /\ cb' = IF cb.guard = guard /\ guard # 0 /\ cb.ok
             THEN [cb EXCEPT !.at = "run"] ELSE NoCallback
    /\ UNCHANGED <<session, io, pc, guard, local, remote, ops, cands, got, sent,
                   broken>>

Running(kind) == cb.at = "run" /\ cb.kind = kind

\* OnSessionDescriptionSuccess: SetLocalDescription, with the guard of now.
OnSessionDescriptionSuccess ==
    /\ \E is_offer \in BOOLEAN :
          /\ Running(IF is_offer THEN "create_offer" ELSE "create_answer")
          /\ ops' = ops \cup {Op(IF is_offer THEN "local_offer" ELSE "local_answer")}
    /\ cb' = NoCallback
    /\ UNCHANGED <<session, io, pc, guard, local, remote, cands, got, sent, broken>>

\* Mutant: candidates the connection refuses are dropped.
ProcessPendingIceCandidates_Drops ==
    \E added \in SUBSET pending :
        /\ TRUE \notin Takes => added = {}
        /\ FALSE \notin Takes => added = pending
        /\ applied' = applied \cup added
        /\ pending' = {}

\* Those the connection still refuses are kept for the next time.
ProcessPendingIceCandidates ==
    \E added \in SUBSET pending :
        /\ TRUE \notin Takes => added = {}
        /\ FALSE \notin Takes => added = pending
        /\ applied' = applied \cup added
        /\ pending' = pending \ added

\* OnOfferCreated, OnAnswerCreated and OnIceCandidateGenerated address the call
\* and the peer of the moment.
Send(kind) ==
    sent' = sent \cup {[kind |-> kind, pc |-> cb.pc, call |-> call_id, to |-> peer_id]}

OnLocalDescriptionSet ==
    /\ \E kind \in {"offer", "answer"} :
          /\ Running(IF kind = "offer" THEN "local_offer" ELSE "local_answer")
          /\ Send(kind)
    /\ ProcessPendingIceCandidates
    /\ cb' = NoCallback
    /\ UNCHANGED <<session, io, pc, guard, local, remote, ops, accepted, missed,
                   got, broken>>

OnIceCandidateGenerated ==
    /\ Running("gathered")
    /\ Send("candidate")
    /\ cb' = NoCallback
    /\ UNCHANGED <<session, io, pc, guard, local, remote, ops, cands, got, broken>>

\* Mutant: the answer is left to the application.
OnRemoteDescriptionSet_NoAnswer ==
    /\ Running("remote_offer") \/ Running("remote_answer")
    /\ ProcessPendingIceCandidates
    /\ cb' = NoCallback
    /\ UNCHANGED <<session, io, pc, guard, local, remote, ops, accepted, missed,
                   got, sent, broken>>

CreateAnswer == ops' = ops \cup {Op("create_answer")}

\* The callback of SetRemoteDescription.  Before an offer is answered the
\* tracks are added, which may fail.
OnRemoteDescriptionSet ==
    /\ \/ Running("remote_answer") /\ UNCHANGED <<ops, broken>>
       \/ Running("remote_offer") /\ CreateAnswer /\ UNCHANGED broken
       \/ Running("remote_offer") /\ broken' = TRUE /\ UNCHANGED ops
    /\ ProcessPendingIceCandidates
    /\ cb' = NoCallback
    /\ UNCHANGED <<session, io, pc, guard, local, remote, accepted, missed, got,
                   sent>>

-----------------------------------------------------------------------------
\* A close that has begun, and a candidate on its way into the queue.
IoContinue ==
    \/ CloseGuard
    \/ ClosePeerConnection
    \/ CloseClear
    \/ CleanupCall
    \/ NotifyIdle
    \/ PushCandidate

IoMessage ==
    \E c \in CallNumbers :
        \/ OnOffer(c)
        \/ OnAnswer(c)
        \/ \E k \in 1..MaxCands : OnIceCandidate(c, k)

Callback ==
    \/ CheckGuard
    \/ OnSessionDescriptionSuccess
    \/ OnLocalDescriptionSet
    \/ OnIceCandidateGenerated
    \/ OnRemoteDescriptionSet

Next ==
    \/ \E role \in {"caller", "callee"}, p \in Peers : StartCall(role, p)
    \/ Established
    \/ EndCall
    \/ \E p \in Peers : OnUserOffline(p)
    \/ IoContinue
    \/ IoMessage
    \/ \E op \in ops, ok \in BOOLEAN : Complete(op, ok)
    \/ Gather
    \/ Callback

Spec == Init /\ [][Next]_vars

(***************************************************************************)
(* Both threads go on with what they have begun, and WebRTC completes its  *)
(* operations.  Users, peers and the network owe nothing.                  *)
(***************************************************************************)
Fairness ==
    /\ WF_vars(IoContinue)
    /\ WF_vars(Callback)
    /\ \A kind \in OpKinds :
          SF_vars(\E op \in ops, ok \in BOOLEAN : op.kind = kind /\ Complete(op, ok))

FairSpec == Spec /\ Fairness

-----------------------------------------------------------------------------
(* Properties. *)

TypeOK ==
    /\ n \in 0..MaxCalls
    /\ calls \in [CallNumbers -> [role : {"none", "caller", "callee"},
                                  peer : Peers \cup {NoPeer}]]
    /\ st \in {"Idle", "Connecting", "Connected", "Ending"}
    /\ call_id \in 0..MaxCalls
    /\ peer_id \in Peers \cup {NoPeer}
    /\ io \in [at : IoLabels, cand : Cands \cup {NoCand}]
    /\ pc \in 0..MaxCalls
    /\ guard \in {0, pc}
    /\ local \in {"none", "offer", "answer"}
    /\ remote \in {"none", "offer", "answer"}
    /\ ops \subseteq Ops
    /\ cb \in [kind : OpKinds \cup {"none", "gathered"}, pc : 0..MaxCalls,
               guard : 0..MaxCalls, ok : BOOLEAN, at : {"none", "check", "run"}]
    /\ pending \subseteq Cands
    /\ applied \subseteq Cands
    /\ got \subseteq [kind : {"offer", "answer", "candidate"},
                      call : CallNumbers, k : 0..MaxCands]
    /\ sent \subseteq [kind : {"offer", "answer", "candidate"},
                       pc : CallNumbers, call : 0..MaxCalls,
                       to : Peers \cup {NoPeer}]
    /\ accepted \subseteq Cands
    /\ missed \in BOOLEAN
    /\ broken \in BOOLEAN

(* Although callbacks read the call identifier and current_peer_id_ from   *)
(* another thread, an offer, answer or candidate of a peer connection is   *)
(* sent under the identifier of its own call and to the peer of that call. *)
SentForOwnCall ==
    \A m \in sent : m.call = m.pc /\ m.to = calls[m.pc].peer

(* A callback that has passed its guard finds the peer connection it was   *)
(* made for, although the I/O thread may be closing it.                    *)
CallbackFindsConnection == cb.at = "run" => pc = cb.pc

(* The candidates of a call are queued for and given to no other call.     *)
CandidatesStayInTheirCall ==
    /\ \A d \in applied : d.call = pc
    /\ At("idle") => \A d \in pending : d.call = pc

Settled ==
    /\ pc # 0 /\ At("idle")
    /\ local # "none" /\ remote # "none"
    /\ cb = NoCallback /\ ops = {}

(* Once both descriptions are set, the connection has every candidate the  *)
(* engine accepted, unless one was queued behind the last retry.           *)
CandidatesAreApplied == (Settled /\ ~missed /\ ~broken) => accepted \subseteq applied

(* An offer that was applied is answered, unless something fails or the    *)
(* call ends.                                                              *)
OfferIsAnswered ==
    \A c \in CallNumbers :
        (pc = c /\ remote = "offer") ~>
            (pc # c \/ st = "Ending" \/ broken \/ HasSent("answer", c))
=============================================================================
