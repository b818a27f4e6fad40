-------------------------- MODULE NegotiationProofs --------------------------
(***************************************************************************)
(* Proofs about Negotiation, for any peers and any number of calls and     *)
(* candidates: although two threads share the engine without a lock, a     *)
(* callback works on the connection it was made for, sends for the call of *)
(* that connection, and candidates stay in their call and reach it, but    *)
(* for those that are queued behind the last retry.                        *)
(***************************************************************************)
EXTENDS Negotiation, TLAPS

Closing == {"close_guard", "close_pc", "close_clear", "cleanup"}

\* Where the I/O thread is, in terms of the state of the call.
SessionInv ==
    /\ st = "Ending" <=> io.at \in Closing
    /\ io.at = "notify" => st = "Idle"
    /\ st # "Idle" => /\ n \in CallNumbers
                      /\ call_id = n
                      /\ peer_id = calls[n].peer

\* The connection is that of the call in progress and gone once it is closed;
\* its guard is reset before that.
ConnectionInv ==
    /\ pc # 0 => pc = n /\ st # "Idle" /\ io.at \notin {"close_clear", "cleanup"}
    /\ io.at \in {"close_pc", "close_clear", "cleanup"} => guard = 0

\* A guard, where there is one, belongs to the connection of its operation.
GuardInv ==
    /\ \A op \in ops : op.guard \in {0, op.pc}
    /\ cb.guard \in {0, cb.pc}
    /\ cb.at = "run" => cb.pc # 0 /\ pc = cb.pc

\* What was sent was sent in a call that had begun.
SentInv ==
    \A m \in sent : m.pc <= n /\ m.call = m.pc /\ m.to = calls[m.pc].peer

\* Candidates of a call that is over may be in the queue only until it is
\* cleared, right after the connection is gone.
CandidateInv ==
    /\ io.at = "push" => io.cand \in Cands /\ pc # 0 /\ io.cand.call = pc
    /\ \A d \in applied : d.call = pc
    /\ io.at # "close_clear" => \A d \in pending : d.call = pc

IInv == TypeOK /\ SessionInv /\ ConnectionInv /\ GuardInv /\ SentInv /\ CandidateInv

-----------------------------------------------------------------------------
(* Types.  GuardInv gives a running callback its connection, CandidateInv  *)
(* makes what is about to be queued a candidate.                           *)
LEMMA NextType ==
  ASSUME TypeOK, ConnectionInv, GuardInv, CandidateInv, [Next]_vars
  PROVE  TypeOK'
<1>1. ASSUME NEW role \in {"caller", "callee"}, NEW p \in Peers, StartCall(role, p)
      PROVE  TypeOK'
  <2>1. n + 1 \in CallNumbers
    BY <1>1, ConstantsAssumption DEF StartCall, TypeOK, CallNumbers
  <2>2. [role |-> role, peer |-> p] \in [role : {"none", "caller", "callee"},
                                        peer : Peers \cup {NoPeer}]
    OBVIOUS
  <2>3. calls' \in [CallNumbers -> [role : {"none", "caller", "callee"},
                                     peer : Peers \cup {NoPeer}]]
    BY <1>1, <2>1, <2>2 DEF StartCall, TypeOK
  <2>4. ops' \subseteq Ops /\ pc' \in 0..MaxCalls /\ guard' \in {0, pc'}
    BY <1>1, <2>1, ConstantsAssumption
       DEF StartCall, CreatePeerConnection, CreateOffer, TypeOK, CallNumbers, Ops, OpKinds
  <2>5. /\ n' \in 0..MaxCalls /\ call_id' \in 0..MaxCalls
        /\ st' = "Connecting" /\ peer_id' \in Peers
    BY <1>1, <2>1, ConstantsAssumption DEF StartCall, CallNumbers
  <2>6. broken' \in BOOLEAN /\ UNCHANGED <<io, local, remote, cb, cands, got, sent>>
    BY <1>1 DEF StartCall, TypeOK
  <2>. QED
    BY <2>3, <2>4, <2>5, <2>6 DEF TypeOK, cands
<1>2. CASE Established
  BY <1>2 DEF Established, engine, cands, TypeOK
<1>3. CASE EndCall
  BY <1>3 DEF EndCall, Io, engine, cands, TypeOK, IoLabels
<1>4. ASSUME NEW p \in Peers, OnUserOffline(p)
      PROVE  TypeOK'
  BY <1>4 DEF OnUserOffline, EndCall, Io, engine, cands, TypeOK, IoLabels
<1>5. CASE CloseGuard
  BY <1>5 DEF CloseGuard, Io, session, cands, TypeOK, IoLabels
<1>6. CASE ClosePeerConnection
  <2>1. guard = 0
    BY <1>6 DEF ClosePeerConnection, At, ConnectionInv
  <2>2. io' \in [at : IoLabels, cand : Cands \cup {NoCand}]
    BY <1>6 DEF ClosePeerConnection, Io, IoLabels
  <2>3. /\ pc' = 0 /\ guard' = 0 /\ local' = "none" /\ remote' = "none"
        /\ applied' = {} /\ accepted' = {} /\ missed' = FALSE
        /\ UNCHANGED <<n, calls, st, call_id, peer_id, ops, cb, pending, got, sent, broken>>
    BY <1>6, <2>1 DEF ClosePeerConnection, session
  <2>4. 0 \in 0..MaxCalls
    BY ConstantsAssumption
  <2>. QED
    BY <2>2, <2>3, <2>4 DEF TypeOK
<1>7. CASE CloseClear
  BY <1>7 DEF CloseClear, Io, session, engine, TypeOK, IoLabels
<1>8. CASE CleanupCall
  BY <1>8, ConstantsAssumption DEF CleanupCall, Io, engine, cands, TypeOK,
            IoLabels
<1>9. CASE NotifyIdle
  BY <1>9 DEF NotifyIdle, Io, engine, cands, TypeOK, IoLabels
<1>10. CASE PushCandidate
  BY <1>10 DEF PushCandidate, At, Io, session, engine, TypeOK, IoLabels,
            CandidateInv
<1>11. ASSUME NEW c \in CallNumbers, OnOffer(c)
      PROVE  TypeOK'
  BY <1>11, ConstantsAssumption DEF OnOffer, SetRemoteDescription, Arrives,
            Op, cands, TypeOK, CallNumbers, Ops, OpKinds
<1>12. ASSUME NEW c \in CallNumbers, OnAnswer(c)
      PROVE  TypeOK'
  BY <1>12, ConstantsAssumption DEF OnAnswer, SetRemoteDescription, Arrives,
            Op, session, cands, TypeOK, CallNumbers, Ops, OpKinds
<1>13. ASSUME NEW c \in CallNumbers, NEW k \in 1..MaxCands, OnIceCandidate(c, k)
      PROVE  TypeOK'
  BY <1>13 DEF OnIceCandidate, AddIceCandidate, Arrives, Cand, session,
            engine, TypeOK, Cands, IoLabels
<1>14. ASSUME NEW op \in ops, NEW ok \in BOOLEAN, Complete(op, ok)
      PROVE  TypeOK'
  BY <1>14 DEF Complete, Local, Remote, session, cands, TypeOK, CallNumbers,
            Ops
<1>15. CASE Gather
  BY <1>15 DEF Gather, session, cands, TypeOK
<1>16. CASE CheckGuard
  <2>1. cb' \in [kind : OpKinds \cup {"none", "gathered"}, pc : 0..MaxCalls,
                guard : 0..MaxCalls, ok : BOOLEAN, at : {"none", "check", "run"}]
    <3>1. [cb EXCEPT !.at = "run"] \in
             [kind : OpKinds \cup {"none", "gathered"}, pc : 0..MaxCalls,
              guard : 0..MaxCalls, ok : BOOLEAN, at : {"none", "check", "run"}]
      BY DEF TypeOK
    <3>2. NoCallback \in
             [kind : OpKinds \cup {"none", "gathered"}, pc : 0..MaxCalls,
              guard : 0..MaxCalls, ok : BOOLEAN, at : {"none", "check", "run"}]
      BY ConstantsAssumption DEF NoCallback
    <3>. QED
      BY <1>16, <3>1, <3>2 DEF CheckGuard
  <2>. QED
    BY <1>16, <2>1 DEF CheckGuard, session, cands, TypeOK
<1>17. CASE OnSessionDescriptionSuccess
  BY <1>17, ConstantsAssumption DEF OnSessionDescriptionSuccess, Running, Op,
            NoCallback, session, cands, TypeOK, CallNumbers, Ops, OpKinds,
            GuardInv
<1>18. CASE OnLocalDescriptionSet
  BY <1>18, ConstantsAssumption DEF OnLocalDescriptionSet,
            ProcessPendingIceCandidates, Running, Send, NoCallback, session,
            TypeOK, CallNumbers, GuardInv
<1>19. CASE OnIceCandidateGenerated
  BY <1>19, ConstantsAssumption DEF OnIceCandidateGenerated, Running, Send,
            NoCallback, session, cands, TypeOK, CallNumbers, GuardInv
<1>20. CASE OnRemoteDescriptionSet
  <2>1. pc \in CallNumbers /\ guard \in 0..MaxCalls
    BY <1>20, ConstantsAssumption
       DEF OnRemoteDescriptionSet, Running, GuardInv, TypeOK, CallNumbers
  <2>2. ops' \subseteq Ops
    BY <1>20, <2>1 DEF OnRemoteDescriptionSet, CreateAnswer, Op, Ops, OpKinds, TypeOK
  <2>3. pending' \subseteq Cands /\ applied' \subseteq Cands
    BY <1>20 DEF OnRemoteDescriptionSet, ProcessPendingIceCandidates, TypeOK
  <2>4. cb' = NoCallback /\ NoCallback.at = "none"
    BY <1>20 DEF OnRemoteDescriptionSet, NoCallback
  <2>5. NoCallback \in [kind : OpKinds \cup {"none", "gathered"}, pc : 0..MaxCalls,
                        guard : 0..MaxCalls, ok : BOOLEAN, at : {"none", "check", "run"}]
    BY ConstantsAssumption DEF NoCallback
  <2>6. broken' \in BOOLEAN
    BY <1>20 DEF OnRemoteDescriptionSet, TypeOK
  <2>. QED
    BY <1>20, <2>2, <2>3, <2>4, <2>5, <2>6 DEF OnRemoteDescriptionSet, session, TypeOK
<1>21. CASE UNCHANGED vars
  BY <1>21 DEF vars, session, engine, cands, TypeOK
<1>. QED
  BY <1>1, <1>2, <1>3, <1>4, <1>5, <1>6, <1>7, <1>8, <1>9, <1>10, <1>11,
            <1>12, <1>13, <1>14, <1>15, <1>16, <1>17, <1>18, <1>19, <1>20,
            <1>21
     DEF Next, IoContinue, IoMessage, Callback

(* The I/O thread and the state of the call. *)
LEMMA NextSession ==
  ASSUME TypeOK, SessionInv, ConnectionInv, [Next]_vars
  PROVE  SessionInv'
<1>1. ASSUME NEW role \in {"caller", "callee"}, NEW p \in Peers, StartCall(role, p)
      PROVE  SessionInv'
  BY <1>1, ConstantsAssumption DEF StartCall, At, SessionInv, TypeOK,
            CallNumbers
<1>2. CASE Established
  BY <1>2 DEF Established, SessionInv
<1>3. CASE EndCall
  BY <1>3 DEF EndCall, Io, SessionInv, Closing
<1>4. ASSUME NEW p \in Peers, OnUserOffline(p)
      PROVE  SessionInv'
  BY <1>4 DEF OnUserOffline, EndCall, Io, SessionInv, Closing
<1>5. CASE CloseGuard
  BY <1>5 DEF CloseGuard, At, Io, session, SessionInv, Closing
<1>6. CASE ClosePeerConnection
  BY <1>6 DEF ClosePeerConnection, At, Io, session, SessionInv, Closing
<1>7. CASE CloseClear
  BY <1>7 DEF CloseClear, At, Io, session, SessionInv, Closing
<1>8. CASE CleanupCall
  BY <1>8 DEF CleanupCall, Io, SessionInv, Closing
<1>9. CASE NotifyIdle
  BY <1>9 DEF NotifyIdle, At, Io, SessionInv, Closing
<1>10. CASE PushCandidate
  BY <1>10 DEF PushCandidate, At, Io, session, SessionInv, Closing
<1>11. ASSUME NEW c \in CallNumbers, OnOffer(c)
      PROVE  SessionInv'
  BY <1>11 DEF OnOffer, SessionInv
<1>12. ASSUME NEW c \in CallNumbers, OnAnswer(c)
      PROVE  SessionInv'
  BY <1>12 DEF OnAnswer, session, SessionInv
<1>13. ASSUME NEW c \in CallNumbers, NEW k \in 1..MaxCands, OnIceCandidate(c, k)
      PROVE  SessionInv'
  BY <1>13 DEF OnIceCandidate, AddIceCandidate, Arrives, At, session,
            SessionInv, Closing
<1>14. ASSUME NEW op \in ops, NEW ok \in BOOLEAN, Complete(op, ok)
      PROVE  SessionInv'
  BY <1>14 DEF Complete, session, SessionInv
<1>15. CASE Gather
  BY <1>15 DEF Gather, session, SessionInv
<1>16. CASE CheckGuard
  BY <1>16 DEF CheckGuard, session, SessionInv
<1>17. CASE OnSessionDescriptionSuccess
  BY <1>17 DEF OnSessionDescriptionSuccess, session, SessionInv
<1>18. CASE OnLocalDescriptionSet
  BY <1>18 DEF OnLocalDescriptionSet, session, SessionInv
<1>19. CASE OnIceCandidateGenerated
  BY <1>19 DEF OnIceCandidateGenerated, session, SessionInv
<1>20. CASE OnRemoteDescriptionSet
  BY <1>20 DEF OnRemoteDescriptionSet, session, SessionInv
<1>21. CASE UNCHANGED vars
  BY <1>21 DEF vars, session, SessionInv
<1>. QED
  BY <1>1, <1>2, <1>3, <1>4, <1>5, <1>6, <1>7, <1>8, <1>9, <1>10, <1>11,
            <1>12, <1>13, <1>14, <1>15, <1>16, <1>17, <1>18, <1>19, <1>20,
            <1>21
     DEF Next, IoContinue, IoMessage, Callback

(* The connection and its guard. *)
LEMMA NextConnection ==
  ASSUME TypeOK, SessionInv, ConnectionInv, [Next]_vars
  PROVE  ConnectionInv'
<1>1. ASSUME NEW role \in {"caller", "callee"}, NEW p \in Peers, StartCall(role, p)
      PROVE  ConnectionInv'
  BY <1>1 DEF StartCall, CreatePeerConnection, ConnectionInv, SessionInv,
            Closing
<1>2. CASE Established
  BY <1>2 DEF Established, engine, ConnectionInv
<1>3. CASE EndCall
  BY <1>3 DEF EndCall, Io, engine, ConnectionInv
<1>4. ASSUME NEW p \in Peers, OnUserOffline(p)
      PROVE  ConnectionInv'
  BY <1>4 DEF OnUserOffline, EndCall, Io, engine, ConnectionInv
<1>5. CASE CloseGuard
  BY <1>5 DEF CloseGuard, Io, session, ConnectionInv
<1>6. CASE ClosePeerConnection
  BY <1>6 DEF ClosePeerConnection, At, ConnectionInv
<1>7. CASE CloseClear
  BY <1>7 DEF CloseClear, At, engine, ConnectionInv
<1>8. CASE CleanupCall
  BY <1>8 DEF CleanupCall, At, engine, ConnectionInv
<1>9. CASE NotifyIdle
  BY <1>9 DEF NotifyIdle, Io, engine, ConnectionInv
<1>10. CASE PushCandidate
  BY <1>10 DEF PushCandidate, Io, session, engine, ConnectionInv
<1>11. ASSUME NEW c \in CallNumbers, OnOffer(c)
      PROVE  ConnectionInv'
  BY <1>11 DEF OnOffer, ConnectionInv
<1>12. ASSUME NEW c \in CallNumbers, OnAnswer(c)
      PROVE  ConnectionInv'
  BY <1>12 DEF OnAnswer, session, ConnectionInv
<1>13. ASSUME NEW c \in CallNumbers, NEW k \in 1..MaxCands, OnIceCandidate(c, k)
      PROVE  ConnectionInv'
  BY <1>13 DEF OnIceCandidate, AddIceCandidate, session, engine, ConnectionInv
<1>14. ASSUME NEW op \in ops, NEW ok \in BOOLEAN, Complete(op, ok)
      PROVE  ConnectionInv'
  BY <1>14 DEF Complete, session, ConnectionInv
<1>15. CASE Gather
  BY <1>15 DEF Gather, session, ConnectionInv
<1>16. CASE CheckGuard
  BY <1>16 DEF CheckGuard, session, ConnectionInv
<1>17. CASE OnSessionDescriptionSuccess
  BY <1>17 DEF OnSessionDescriptionSuccess, session, ConnectionInv
<1>18. CASE OnLocalDescriptionSet
  BY <1>18 DEF OnLocalDescriptionSet, session, ConnectionInv
<1>19. CASE OnIceCandidateGenerated
  BY <1>19 DEF OnIceCandidateGenerated, session, ConnectionInv
<1>20. CASE OnRemoteDescriptionSet
  BY <1>20 DEF OnRemoteDescriptionSet, session, ConnectionInv
<1>21. CASE UNCHANGED vars
  BY <1>21 DEF vars, session, engine, ConnectionInv
<1>. QED
  BY <1>1, <1>2, <1>3, <1>4, <1>5, <1>6, <1>7, <1>8, <1>9, <1>10, <1>11,
            <1>12, <1>13, <1>14, <1>15, <1>16, <1>17, <1>18, <1>19, <1>20,
            <1>21
     DEF Next, IoContinue, IoMessage, Callback

(* Callbacks and their guards: the close waits for a callback that runs. *)
LEMMA NextGuard ==
  ASSUME TypeOK, SessionInv, ConnectionInv, GuardInv, [Next]_vars
  PROVE  GuardInv'
<1>1. ASSUME NEW role \in {"caller", "callee"}, NEW p \in Peers, StartCall(role, p)
      PROVE  GuardInv'
  BY <1>1 DEF StartCall, CreatePeerConnection, CreateOffer, GuardInv
<1>2. CASE Established
  BY <1>2 DEF Established, engine, GuardInv
<1>3. CASE EndCall
  BY <1>3 DEF EndCall, engine, GuardInv
<1>4. ASSUME NEW p \in Peers, OnUserOffline(p)
      PROVE  GuardInv'
  BY <1>4 DEF OnUserOffline, EndCall, engine, GuardInv
<1>5. CASE CloseGuard
  BY <1>5 DEF CloseGuard, GuardInv
<1>6. CASE ClosePeerConnection
  BY <1>6 DEF ClosePeerConnection, Hop, NoCallback, GuardInv
<1>7. CASE CloseClear
  BY <1>7 DEF CloseClear, engine, GuardInv
<1>8. CASE CleanupCall
  BY <1>8 DEF CleanupCall, engine, GuardInv
<1>9. CASE NotifyIdle
  BY <1>9 DEF NotifyIdle, engine, GuardInv
<1>10. CASE PushCandidate
  BY <1>10 DEF PushCandidate, engine, GuardInv
<1>11. ASSUME NEW c \in CallNumbers, OnOffer(c)
      PROVE  GuardInv'
  BY <1>11 DEF OnOffer, SetRemoteDescription, Op, GuardInv, TypeOK
<1>12. ASSUME NEW c \in CallNumbers, OnAnswer(c)
      PROVE  GuardInv'
  BY <1>12 DEF OnAnswer, SetRemoteDescription, Op, GuardInv, TypeOK
<1>13. ASSUME NEW c \in CallNumbers, NEW k \in 1..MaxCands, OnIceCandidate(c, k)
      PROVE  GuardInv'
  BY <1>13 DEF OnIceCandidate, engine, GuardInv
<1>14. ASSUME NEW op \in ops, NEW ok \in BOOLEAN, Complete(op, ok)
      PROVE  GuardInv'
  BY <1>14 DEF Complete, GuardInv
<1>15. CASE Gather
  BY <1>15 DEF Gather, GuardInv
<1>16. CASE CheckGuard
  BY <1>16 DEF CheckGuard, NoCallback, GuardInv, TypeOK
<1>17. CASE OnSessionDescriptionSuccess
  BY <1>17 DEF OnSessionDescriptionSuccess, Op, NoCallback, GuardInv, TypeOK
<1>18. CASE OnLocalDescriptionSet
  BY <1>18 DEF OnLocalDescriptionSet, NoCallback, GuardInv
<1>19. CASE OnIceCandidateGenerated
  BY <1>19 DEF OnIceCandidateGenerated, NoCallback, GuardInv
<1>20. CASE OnRemoteDescriptionSet
  BY <1>20 DEF OnRemoteDescriptionSet, CreateAnswer, Op, NoCallback, GuardInv,
            TypeOK
<1>21. CASE UNCHANGED vars
  BY <1>21 DEF vars, engine, GuardInv
<1>. QED
  BY <1>1, <1>2, <1>3, <1>4, <1>5, <1>6, <1>7, <1>8, <1>9, <1>10, <1>11,
            <1>12, <1>13, <1>14, <1>15, <1>16, <1>17, <1>18, <1>19, <1>20,
            <1>21
     DEF Next, IoContinue, IoMessage, Callback

(* What a callback sends carries the call of its connection. *)
LEMMA NextSent ==
  ASSUME TypeOK, SessionInv, ConnectionInv, GuardInv, SentInv, [Next]_vars
  PROVE  SentInv'
<1>1. ASSUME NEW role \in {"caller", "callee"}, NEW p \in Peers, StartCall(role, p)
      PROVE  SentInv'
  BY <1>1 DEF StartCall, SentInv, TypeOK
<1>2. CASE Established
  BY <1>2 DEF Established, SentInv
<1>3. CASE EndCall
  BY <1>3 DEF EndCall, SentInv
<1>4. ASSUME NEW p \in Peers, OnUserOffline(p)
      PROVE  SentInv'
  BY <1>4 DEF OnUserOffline, EndCall, SentInv
<1>5. CASE CloseGuard
  BY <1>5 DEF CloseGuard, session, SentInv
<1>6. CASE ClosePeerConnection
  BY <1>6 DEF ClosePeerConnection, session, SentInv
<1>7. CASE CloseClear
  BY <1>7 DEF CloseClear, session, SentInv
<1>8. CASE CleanupCall
  BY <1>8 DEF CleanupCall, SentInv
<1>9. CASE NotifyIdle
  BY <1>9 DEF NotifyIdle, SentInv
<1>10. CASE PushCandidate
  BY <1>10 DEF PushCandidate, session, SentInv
<1>11. ASSUME NEW c \in CallNumbers, OnOffer(c)
      PROVE  SentInv'
  BY <1>11 DEF OnOffer, SentInv
<1>12. ASSUME NEW c \in CallNumbers, OnAnswer(c)
      PROVE  SentInv'
  BY <1>12 DEF OnAnswer, session, SentInv
<1>13. ASSUME NEW c \in CallNumbers, NEW k \in 1..MaxCands, OnIceCandidate(c, k)
      PROVE  SentInv'
  BY <1>13 DEF OnIceCandidate, session, SentInv
<1>14. ASSUME NEW op \in ops, NEW ok \in BOOLEAN, Complete(op, ok)
      PROVE  SentInv'
  BY <1>14 DEF Complete, session, SentInv
<1>15. CASE Gather
  BY <1>15 DEF Gather, session, SentInv
<1>16. CASE CheckGuard
  BY <1>16 DEF CheckGuard, session, SentInv
<1>17. CASE OnSessionDescriptionSuccess
  BY <1>17 DEF OnSessionDescriptionSuccess, session, SentInv
<1>18. CASE OnLocalDescriptionSet
  BY <1>18 DEF OnLocalDescriptionSet, Running, Send, session, SentInv,
            GuardInv, ConnectionInv, SessionInv, CallNumbers
<1>19. CASE OnIceCandidateGenerated
  BY <1>19 DEF OnIceCandidateGenerated, Running, Send, session, SentInv,
            GuardInv, ConnectionInv, SessionInv, CallNumbers
<1>20. CASE OnRemoteDescriptionSet
  BY <1>20 DEF OnRemoteDescriptionSet, session, SentInv
<1>21. CASE UNCHANGED vars
  BY <1>21 DEF vars, session, SentInv
<1>. QED
  BY <1>1, <1>2, <1>3, <1>4, <1>5, <1>6, <1>7, <1>8, <1>9, <1>10, <1>11,
            <1>12, <1>13, <1>14, <1>15, <1>16, <1>17, <1>18, <1>19, <1>20,
            <1>21
     DEF Next, IoContinue, IoMessage, Callback

(* Candidates; a queued one is cleared before the next call can begin. *)
LEMMA NextCandidate ==
  ASSUME TypeOK, SessionInv, ConnectionInv, GuardInv, CandidateInv, [Next]_vars
  PROVE  CandidateInv'
<1>1. ASSUME NEW role \in {"caller", "callee"}, NEW p \in Peers, StartCall(role, p)
      PROVE  CandidateInv'
  BY <1>1 DEF StartCall, cands, CandidateInv, TypeOK, CallNumbers, Cands
<1>2. CASE Established
  BY <1>2 DEF Established, engine, cands, CandidateInv
<1>3. CASE EndCall
  BY <1>3 DEF EndCall, Io, engine, cands, CandidateInv, SessionInv, Closing
<1>4. ASSUME NEW p \in Peers, OnUserOffline(p)
      PROVE  CandidateInv'
  BY <1>4 DEF OnUserOffline, EndCall, Io, engine, cands, CandidateInv,
            SessionInv, Closing
<1>5. CASE CloseGuard
  BY <1>5 DEF CloseGuard, At, Io, cands, CandidateInv
<1>6. CASE ClosePeerConnection
  BY <1>6 DEF ClosePeerConnection, Io, CandidateInv
<1>7. CASE CloseClear
  BY <1>7 DEF CloseClear, Io, engine, CandidateInv
<1>8. CASE CleanupCall
  BY <1>8 DEF CleanupCall, At, Io, cands, CandidateInv, ConnectionInv, TypeOK,
            CallNumbers, Cands
<1>9. CASE NotifyIdle
  BY <1>9 DEF NotifyIdle, At, Io, cands, CandidateInv, ConnectionInv,
            SessionInv, TypeOK, CallNumbers, Cands
<1>10. CASE PushCandidate
  BY <1>10 DEF PushCandidate, At, Io, engine, CandidateInv
<1>11. ASSUME NEW c \in CallNumbers, OnOffer(c)
      PROVE  CandidateInv'
  BY <1>11 DEF OnOffer, cands, CandidateInv
<1>12. ASSUME NEW c \in CallNumbers, OnAnswer(c)
      PROVE  CandidateInv'
  BY <1>12 DEF OnAnswer, cands, CandidateInv
<1>13. ASSUME NEW c \in CallNumbers, NEW k \in 1..MaxCands, OnIceCandidate(c, k)
      PROVE  CandidateInv'
  BY <1>13 DEF OnIceCandidate, AddIceCandidate, Cand, engine, CandidateInv,
            ConnectionInv, SessionInv, Cands
<1>14. ASSUME NEW op \in ops, NEW ok \in BOOLEAN, Complete(op, ok)
      PROVE  CandidateInv'
  BY <1>14 DEF Complete, cands, CandidateInv
<1>15. CASE Gather
  BY <1>15 DEF Gather, cands, CandidateInv
<1>16. CASE CheckGuard
  BY <1>16 DEF CheckGuard, cands, CandidateInv
<1>17. CASE OnSessionDescriptionSuccess
  BY <1>17 DEF OnSessionDescriptionSuccess, cands, CandidateInv
<1>18. CASE OnLocalDescriptionSet
  BY <1>18 DEF OnLocalDescriptionSet, ProcessPendingIceCandidates, Running,
            CandidateInv, GuardInv, ConnectionInv
<1>19. CASE OnIceCandidateGenerated
  BY <1>19 DEF OnIceCandidateGenerated, cands, CandidateInv
<1>20. CASE OnRemoteDescriptionSet
  BY <1>20 DEF OnRemoteDescriptionSet, ProcessPendingIceCandidates, Running,
            CandidateInv, GuardInv, ConnectionInv
<1>21. CASE UNCHANGED vars
  BY <1>21 DEF vars, engine, cands, CandidateInv
<1>. QED
  BY <1>1, <1>2, <1>3, <1>4, <1>5, <1>6, <1>7, <1>8, <1>9, <1>10, <1>11,
            <1>12, <1>13, <1>14, <1>15, <1>16, <1>17, <1>18, <1>19, <1>20,
            <1>21
     DEF Next, IoContinue, IoMessage, Callback

-----------------------------------------------------------------------------
(* Candidates that wait for a description.                                 *)

Descriptions == {"local_offer", "local_answer", "remote_offer", "remote_answer"}

\* A connection is without its guard only while it is being closed, and its
\* operations carry that guard.
OpenInv ==
    /\ pc # 0 /\ guard = 0 => io.at = "close_pc"
    /\ pc = 0 => local = "none" /\ remote = "none" /\ accepted = {}
    /\ \A op \in ops : op.pc <= n /\ (op.pc = pc /\ guard # 0 => op.guard = guard)

\* A callback that will pass its guard, if it is open, and go through the queue.
RetryComing ==
    /\ cb.kind \in Descriptions /\ cb.at \in {"check", "run"}
    /\ cb.guard = guard /\ cb.ok

Queued == IF io.at = "push" THEN pending \cup {io.cand} ELSE pending

\* An accepted candidate was given to the connection or waits, and with both
\* descriptions set it waits only for a callback that is under way.
DeliveryInv ==
    /\ ~missed => accepted \subseteq applied \cup Queued
    /\ ~missed /\ ~broken /\ local # "none" /\ remote # "none" =>
          pending = {} \/ guard = 0 \/ RetryComing

(* The guard is open from the creation of the connection to its close. *)
LEMMA NextOpen ==
  ASSUME TypeOK, ConnectionInv, GuardInv, OpenInv, [Next]_vars
  PROVE  OpenInv'
<1>1. ASSUME NEW role \in {"caller", "callee"}, NEW p \in Peers, StartCall(role, p)
      PROVE  OpenInv'
  <2>1. pc = 0 /\ n \in Nat
    BY <1>1, ConstantsAssumption DEF StartCall, ConnectionInv, TypeOK
  <2>2. PICK new \in {[pc |-> n + 1, guard |-> n + 1], [pc |-> 0, guard |-> 0]} :
          /\ pc' = new.pc /\ guard' = new.guard
          /\ ops' \in {ops, ops \cup CreateOffer(new)}
    BY <1>1, <2>1 DEF StartCall, CreatePeerConnection
  <2>3. \A op \in ops : op.pc \in Nat /\ op.pc < n + 1
    BY <2>1, ConstantsAssumption DEF OpenInv, TypeOK, Ops, CallNumbers
  <2>4. n' = n + 1 /\ UNCHANGED <<io, local, remote, accepted>>
    BY <1>1 DEF StartCall, cands
  <2>. QED
    BY <2>1, <2>2, <2>3, <2>4 DEF CreateOffer, OpenInv
<1>2. CASE Established
  BY <1>2 DEF Established, engine, cands, OpenInv
<1>3. CASE EndCall
  BY <1>3 DEF EndCall, At, Io, engine, cands, OpenInv
<1>4. ASSUME NEW p \in Peers, OnUserOffline(p)
      PROVE  OpenInv'
  BY <1>4 DEF OnUserOffline, EndCall, At, Io, engine, cands, OpenInv
<1>5. CASE CloseGuard
  BY <1>5 DEF CloseGuard, Io, session, cands, OpenInv
<1>6. CASE ClosePeerConnection
  BY <1>6 DEF ClosePeerConnection, At, session, OpenInv, ConnectionInv
<1>7. CASE CloseClear
  BY <1>7 DEF CloseClear, At, Io, session, engine, OpenInv, ConnectionInv
<1>8. CASE CleanupCall
  BY <1>8 DEF CleanupCall, At, Io, engine, cands, OpenInv, ConnectionInv
<1>9. CASE NotifyIdle
  BY <1>9 DEF NotifyIdle, At, Io, engine, cands, OpenInv
<1>10. CASE PushCandidate
  BY <1>10 DEF PushCandidate, At, Io, session, engine, OpenInv
<1>11. ASSUME NEW c \in CallNumbers, OnOffer(c)
      PROVE  OpenInv'
  BY <1>11 DEF OnOffer, SetRemoteDescription, Op, cands, OpenInv,
            ConnectionInv, TypeOK
<1>12. ASSUME NEW c \in CallNumbers, OnAnswer(c)
      PROVE  OpenInv'
  BY <1>12 DEF OnAnswer, SetRemoteDescription, Op, session, cands, OpenInv,
            ConnectionInv, TypeOK
<1>13. ASSUME NEW c \in CallNumbers, NEW k \in 1..MaxCands, OnIceCandidate(c, k)
      PROVE  OpenInv'
  BY <1>13 DEF OnIceCandidate, AddIceCandidate, Arrives, At, session,
            engine, OpenInv
<1>14. ASSUME NEW op \in ops, NEW ok \in BOOLEAN, Complete(op, ok)
      PROVE  OpenInv'
  BY <1>14 DEF Complete, session, cands, OpenInv, TypeOK, Ops, CallNumbers
<1>15. CASE Gather
  BY <1>15 DEF Gather, session, cands, OpenInv
<1>16. CASE CheckGuard
  BY <1>16 DEF CheckGuard, session, cands, OpenInv
<1>17. CASE OnSessionDescriptionSuccess
  BY <1>17 DEF OnSessionDescriptionSuccess, Running, Op, session, cands,
            OpenInv, ConnectionInv, GuardInv, TypeOK
<1>18. CASE OnLocalDescriptionSet
  BY <1>18 DEF OnLocalDescriptionSet, session, OpenInv
<1>19. CASE OnIceCandidateGenerated
  BY <1>19 DEF OnIceCandidateGenerated, session, cands, OpenInv
<1>20. CASE OnRemoteDescriptionSet
  BY <1>20 DEF OnRemoteDescriptionSet, Running, CreateAnswer, Op, session,
            OpenInv, ConnectionInv, GuardInv, TypeOK
<1>21. CASE UNCHANGED vars
  BY <1>21 DEF vars, session, engine, cands, OpenInv
<1>. QED
  BY <1>1, <1>2, <1>3, <1>4, <1>5, <1>6, <1>7, <1>8, <1>9, <1>10, <1>11,
            <1>12, <1>13, <1>14, <1>15, <1>16, <1>17, <1>18, <1>19,
            <1>20, <1>21
     DEF Next, IoContinue, IoMessage, Callback

(* The description that completes the pair brings a callback that finds   *)
(* the guard of its connection, and with it the last retry.                *)
LEMMA NextDelivery ==
  ASSUME TypeOK, ConnectionInv, GuardInv, OpenInv, DeliveryInv, [Next]_vars
  PROVE  DeliveryInv'
<1>1. ASSUME NEW role \in {"caller", "callee"}, NEW p \in Peers, StartCall(role, p)
      PROVE  DeliveryInv'
  BY <1>1 DEF StartCall, cands, OpenInv, ConnectionInv, DeliveryInv, Queued,
            RetryComing
<1>2. CASE Established
  BY <1>2 DEF Established, engine, cands, DeliveryInv, Queued, RetryComing
<1>3. CASE EndCall
  BY <1>3 DEF EndCall, At, Io, engine, cands, DeliveryInv, Queued,
            RetryComing
<1>4. ASSUME NEW p \in Peers, OnUserOffline(p)
      PROVE  DeliveryInv'
  BY <1>4 DEF OnUserOffline, EndCall, At, Io, engine, cands, DeliveryInv,
            Queued, RetryComing
<1>5. CASE CloseGuard
  BY <1>5 DEF CloseGuard, At, Io, session, cands, DeliveryInv, Queued,
            RetryComing
<1>6. CASE ClosePeerConnection
  BY <1>6 DEF ClosePeerConnection, DeliveryInv, Queued, RetryComing
<1>7. CASE CloseClear
  BY <1>7 DEF CloseClear, At, Io, engine, OpenInv, ConnectionInv,
            DeliveryInv, Queued, RetryComing
<1>8. CASE CleanupCall
  BY <1>8 DEF CleanupCall, At, Io, engine, cands, DeliveryInv, Queued,
            RetryComing
<1>9. CASE NotifyIdle
  BY <1>9 DEF NotifyIdle, At, Io, engine, cands, DeliveryInv, Queued,
            RetryComing
<1>10. CASE PushCandidate
  BY <1>10 DEF PushCandidate, At, Io, engine, DeliveryInv, Queued,
            RetryComing
<1>11. ASSUME NEW c \in CallNumbers, OnOffer(c)
      PROVE  DeliveryInv'
  BY <1>11 DEF OnOffer, cands, DeliveryInv, Queued, RetryComing
<1>12. ASSUME NEW c \in CallNumbers, OnAnswer(c)
      PROVE  DeliveryInv'
  BY <1>12 DEF OnAnswer, cands, DeliveryInv, Queued, RetryComing
<1>13. ASSUME NEW c \in CallNumbers, NEW k \in 1..MaxCands, OnIceCandidate(c, k)
      PROVE  DeliveryInv'
  BY <1>13 DEF OnIceCandidate, AddIceCandidate, Takes, Arrives, At, engine,
            DeliveryInv, Queued, RetryComing
<1>14. ASSUME NEW op \in ops, NEW ok \in BOOLEAN, Complete(op, ok)
      PROVE  DeliveryInv'
  BY <1>14 DEF Complete, Local, Remote, Descriptions, NoCallback, cands,
            OpenInv, GuardInv, TypeOK, Ops, OpKinds, DeliveryInv, Queued,
            RetryComing
<1>15. CASE Gather
  BY <1>15 DEF Gather, NoCallback, cands, DeliveryInv, Queued, RetryComing
<1>16. CASE CheckGuard
  BY <1>16 DEF CheckGuard, cands, TypeOK, DeliveryInv, Queued, RetryComing
<1>17. CASE OnSessionDescriptionSuccess
  BY <1>17 DEF OnSessionDescriptionSuccess, Running, Descriptions, cands,
            DeliveryInv, Queued, RetryComing
<1>18. CASE OnLocalDescriptionSet
  BY <1>18 DEF OnLocalDescriptionSet, ProcessPendingIceCandidates, Takes,
            DeliveryInv, Queued, RetryComing
<1>19. CASE OnIceCandidateGenerated
  BY <1>19 DEF OnIceCandidateGenerated, Running, Descriptions, cands,
            DeliveryInv, Queued, RetryComing
<1>20. CASE OnRemoteDescriptionSet
  BY <1>20 DEF OnRemoteDescriptionSet, ProcessPendingIceCandidates, Takes,
            TypeOK, DeliveryInv, Queued, RetryComing
<1>21. CASE UNCHANGED vars
  BY <1>21 DEF vars, engine, cands, DeliveryInv, Queued, RetryComing
<1>. QED
  BY <1>1, <1>2, <1>3, <1>4, <1>5, <1>6, <1>7, <1>8, <1>9, <1>10, <1>11,
            <1>12, <1>13, <1>14, <1>15, <1>16, <1>17, <1>18, <1>19,
            <1>20, <1>21
     DEF Next, IoContinue, IoMessage, Callback

-----------------------------------------------------------------------------
LEMMA InitIInv == Init => IInv
<1>. SUFFICES ASSUME Init PROVE IInv
  OBVIOUS
<1>1. calls \in [CallNumbers -> [role : {"none", "caller", "callee"},
                                peer : Peers \cup {NoPeer}]]
  BY DEF Init
<1>2. io \in [at : IoLabels, cand : Cands \cup {NoCand}]
  BY DEF Init, IoLabels
<1>3. cb \in [kind : OpKinds \cup {"none", "gathered"}, pc : 0..MaxCalls,
             guard : 0..MaxCalls, ok : BOOLEAN, at : {"none", "check", "run"}]
  BY ConstantsAssumption DEF Init, NoCallback
<1>4. TypeOK
  <2>1. /\ n \in 0..MaxCalls /\ call_id \in 0..MaxCalls /\ pc \in 0..MaxCalls
        /\ guard \in {0, pc} /\ peer_id \in Peers \cup {NoPeer}
        /\ st = "Idle" /\ local = "none" /\ remote = "none"
    BY ConstantsAssumption DEF Init
  <2>2. /\ ops = {} /\ pending = {} /\ applied = {} /\ got = {} /\ sent = {}
        /\ accepted = {} /\ missed = FALSE /\ broken = FALSE
    BY DEF Init
  <2>. QED
    BY <1>1, <1>2, <1>3, <2>1, <2>2 DEF TypeOK
<1>5. SessionInv /\ ConnectionInv /\ GuardInv /\ SentInv /\ CandidateInv
  BY DEF Init, SessionInv, Closing, ConnectionInv, GuardInv, SentInv, CandidateInv,
         NoCallback
<1>. QED
  BY <1>4, <1>5 DEF IInv

LEMMA NextIInv == IInv /\ [Next]_vars => IInv'
BY NextType, NextSession, NextConnection, NextGuard, NextSent, NextCandidate DEF IInv

LEMMA Invariance == Spec => []IInv
BY InitIInv, NextIInv, PTL DEF Spec

(* Every variable of the negotiation keeps its type, and the guard is that *)
(* of the connection or reset.                                             *)
THEOREM NegotiationTypes == Spec => []TypeOK
<1>1. IInv => TypeOK
  BY DEF IInv
<1>. QED
  BY <1>1, Invariance, PTL

(* Offers, answers and candidates go out under the identifier and to the   *)
(* peer of the call their connection was made for.                         *)
THEOREM SendsForOwnCall == Spec => []SentForOwnCall
<1>1. IInv => SentForOwnCall
  BY DEF IInv, SentInv, SentForOwnCall
<1>. QED
  BY <1>1, Invariance, PTL

(* A callback that has passed its guard finds its peer connection, however *)
(* the I/O thread closes it meanwhile.                                     *)
THEOREM CallbacksAreSafe == Spec => []CallbackFindsConnection
<1>1. IInv => CallbackFindsConnection
  BY DEF IInv, GuardInv, CallbackFindsConnection
<1>. QED
  BY <1>1, Invariance, PTL

(* No candidate is given to, or queued for, another call than its own.     *)
THEOREM CandidatesSeparated == Spec => []CandidatesStayInTheirCall
<1>1. IInv => CandidatesStayInTheirCall
  BY DEF IInv, CandidateInv, CandidatesStayInTheirCall, At
<1>. QED
  BY <1>1, Invariance, PTL

LEMMA InitDelivery == Init => OpenInv /\ DeliveryInv
BY DEF Init, OpenInv, DeliveryInv, Queued

LEMMA Delivery == Spec => [](OpenInv /\ DeliveryInv)
<1>1. IInv /\ OpenInv /\ DeliveryInv /\ [Next]_vars => (OpenInv /\ DeliveryInv)'
  BY NextOpen, NextDelivery DEF IInv
<1>. QED
  BY <1>1, InitDelivery, Invariance, PTL DEF Spec

(* Every candidate the engine accepted reaches the connection once both    *)
(* descriptions are set, unless it was queued behind the last retry or an  *)
(* operation failed.                                                       *)
THEOREM CandidatesDelivered == Spec => []CandidatesAreApplied
<1>1. OpenInv /\ DeliveryInv => CandidatesAreApplied
  BY DEF OpenInv, DeliveryInv, Queued, RetryComing, NoCallback, CandidatesAreApplied,
         Settled, At
<1>. QED
  BY <1>1, Delivery, PTL
=============================================================================
