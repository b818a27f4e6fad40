--------------------------- MODULE CallViewProofs ---------------------------
(***************************************************************************)
(* Proofs about CallView, for any number of calls and reports and any      *)
(* width of the counters: a call that is over leaves no frame on the       *)
(* screen, no call shows a frame of an earlier one, and the bit rate       *)
(* settles.                                                                *)
(***************************************************************************)
EXTENDS CallView, TLAPS

IoSteps == {"idle", "stop", "stop remove", "guard", "close", "closing"}
WebrtcSteps == {"idle", "publish", "unpublish", "none found", "audio on", "audio off",
                "clear", "set", "set remove", "stop", "stop remove"}

Types ==
    /\ pc \in [io : IoSteps, webrtc : WebrtcSteps]
    /\ made \in Nat /\ conn \in Nat
    /\ guard \in {None, conn} /\ published \in {None, conn} /\ audio \in BOOLEAN
    /\ dirty \in BOOLEAN /\ late \in BOOLEAN

(* A connection that is being closed has no guard any more, and once Close *)
(* has waited for the callback under way there is none: nobody touches the *)
(* renderer or the audio mark until the next connection.                   *)
QuietInv ==
    /\ pc["io"] \in {"close", "closing"} => guard = None
    /\ conn = None \/ pc["io"] = "closing" => pc["webrtc"] = "idle"
    /\ conn = None => guard = None /\ published = None /\ ~audio

\* A frame under way is of the connection and of the track of the renderer,
\* which cannot change before the frame is delivered.
CastingInv == casting = None \/ (casting = conn /\ casting = track)

\* From Stop on the renderer stays blank.
BlankInv ==
    pc["io"] \in {"guard", "close", "closing"} \/ (conn = None /\ pc["io"] = "idle") =>
        late \/ (track = None /\ latest = None /\ (texture = None \/ dirty))

\* A publication clears what an earlier call left.
OwnFrameInv ==
    published # None /\ pc["webrtc"] # "clear" => latest \in {None, published}

ViewInv == Types /\ QuietInv /\ CastingInv /\ BlankInv /\ OwnFrameInv

\* From the first report on the sample is of this connection.
RateInv ==
    /\ bytes \in Nat /\ bytes <= MaxBytes
    /\ sample \in Seq(Nat)
    /\ rate \in Nat /\ reports \in 0..2
    /\ reports > 0 => sample # <<>> /\ sample[1] <= bytes
    /\ reports = 2 => rate <= bytes

-----------------------------------------------------------------------------
\* Every step preserves the invariant of the renderer and of the connection.
LEMMA NextView ==
  ASSUME ViewInv, [Next]_vars
  PROVE  ViewInv'
<1>1. CASE StopEmpty("io")
  BY <1>1 DEF StopEmpty, Blank, Stopped, engine, stats, At, Go, None, Free,
          Types, IoSteps, WebrtcSteps, ViewInv, QuietInv, CastingInv, BlankInv,
          OwnFrameInv
<1>2. CASE TakeMutex("io")
  BY <1>2 DEF TakeMutex, engine, frames, stats, At, Go, None, Free, Types,
          IoSteps, WebrtcSteps, ViewInv, QuietInv, CastingInv, BlankInv, OwnFrameInv
<1>3. CASE StopRemove("io")
  BY <1>3 DEF StopRemove, Blank, Stopped, engine, stats, At, Go, None, Free,
          Types, IoSteps, WebrtcSteps, ViewInv, QuietInv, CastingInv, BlankInv,
          OwnFrameInv
<1>4. CASE StopEmpty("webrtc")
  BY <1>4 DEF StopEmpty, Blank, Stopped, engine, stats, At, Go, None, Free,
          Types, IoSteps, WebrtcSteps, ViewInv, QuietInv, CastingInv, BlankInv,
          OwnFrameInv
<1>5. CASE TakeMutex("webrtc")
  BY <1>5 DEF TakeMutex, engine, frames, stats, At, Go, None, Free, Types,
          IoSteps, WebrtcSteps, ViewInv, QuietInv, CastingInv, BlankInv, OwnFrameInv
<1>6. CASE StopRemove("webrtc")
  BY <1>6 DEF StopRemove, Blank, Stopped, engine, stats, At, Go, None, Free,
          Types, IoSteps, WebrtcSteps, ViewInv, QuietInv, CastingInv, BlankInv,
          OwnFrameInv
<1>7. CASE Clear
  BY <1>7 DEF Clear, Blank, engine, stats, At, Go, None, Free, Types,
          IoSteps, WebrtcSteps, ViewInv, QuietInv, CastingInv, BlankInv, OwnFrameInv
<1>8. CASE SetVideoTrack
  BY <1>8 DEF SetVideoTrack, engine, frames, stats, At, Go, None, Free,
          Types, IoSteps, WebrtcSteps, ViewInv, QuietInv, CastingInv, BlankInv,
          OwnFrameInv
<1>9. CASE Deliver
  BY <1>9 DEF Deliver, engine, renderer, frames, stats, At, Go, None, Free,
          Types, IoSteps, WebrtcSteps, ViewInv, QuietInv, CastingInv, BlankInv,
          OwnFrameInv
<1>10. CASE OnFrame
  BY <1>10 DEF OnFrame, engine, stats, At, Go, None, Free, Types, IoSteps,
          WebrtcSteps, ViewInv, QuietInv, CastingInv, BlankInv, OwnFrameInv
<1>11. CASE UpdateVideoTexture
  BY <1>11 DEF UpdateVideoTexture, engine, stats, At, Go, None, Free, Types,
          IoSteps, WebrtcSteps, ViewInv, QuietInv, CastingInv, BlankInv, OwnFrameInv
<1>12. CASE CreatePeerConnection
  <2>1. /\ conn = None /\ made' \in Nat /\ conn' \in Nat
        /\ conn' # None /\ guard' = conn'
    BY <1>12 DEF CreatePeerConnection, None, ViewInv, Types
  <2>2. UNCHANGED <<pc, published, audio, track, latest, dirty, late, texture, casting>>
    BY <1>12 DEF CreatePeerConnection, renderer, frames
  <2>3. published = None /\ pc["io"] = "idle" /\ casting = None
    BY <1>12, <2>1 DEF CreatePeerConnection, At, ViewInv, QuietInv, CastingInv
  <2>. QED
    BY <2>1, <2>2, <2>3 DEF ViewInv, Types, QuietInv, CastingInv, BlankInv, OwnFrameInv
<1>13. CASE OnNeedClosePeerConnection
  BY <1>13 DEF OnNeedClosePeerConnection, engine, renderer, frames, stats,
          At, Go, None, Free, Types, IoSteps, WebrtcSteps, ViewInv, QuietInv,
          CastingInv, BlankInv, OwnFrameInv
<1>14. CASE ResetCallbackGuard
  BY <1>14 DEF ResetCallbackGuard, renderer, frames, stats, At, Go, None,
          Free, Types, IoSteps, WebrtcSteps, ViewInv, QuietInv, CastingInv,
          BlankInv, OwnFrameInv
<1>15. CASE Close
  BY <1>15 DEF Close, engine, renderer, frames, stats, At, Go, None, Free,
          Types, IoSteps, WebrtcSteps, ViewInv, QuietInv, CastingInv, BlankInv,
          OwnFrameInv
<1>16. CASE ReleaseConnection
  BY <1>16 DEF ReleaseConnection, renderer, frames, stats, At, Go, None,
          Free, Types, IoSteps, WebrtcSteps, ViewInv, QuietInv, CastingInv,
          BlankInv, OwnFrameInv
<1>17. CASE Callback
  BY <1>17 DEF Callback, GuardAlive, engine, renderer, frames, stats, At,
          Go, None, Free, Types, IoSteps, WebrtcSteps, ViewInv, QuietInv,
          CastingInv, BlankInv, OwnFrameInv
<1>18. CASE PublishRemoteVideoTrack
  BY <1>18 DEF PublishRemoteVideoTrack, renderer, frames, stats, At, Go,
          None, Free, Types, IoSteps, WebrtcSteps, ViewInv, QuietInv, CastingInv,
          BlankInv, OwnFrameInv
<1>19. CASE UnpublishRemoteVideoTrack
  BY <1>19 DEF UnpublishRemoteVideoTrack, renderer, frames, stats, At, Go,
          None, Free, Types, IoSteps, WebrtcSteps, ViewInv, QuietInv, CastingInv,
          BlankInv, OwnFrameInv
<1>20. CASE SetRemoteAudioTrackAttached
  BY <1>20 DEF SetRemoteAudioTrackAttached, renderer, frames, stats, At, Go,
          None, Free, Types, IoSteps, WebrtcSteps, ViewInv, QuietInv, CastingInv,
          BlankInv, OwnFrameInv
<1>21. CASE Receive \/ GetLatestRtcStats \/ OnStatsDelivered \/ UNCHANGED vars
  <2>1. UNCHANGED <<pc, made, conn, guard, published, audio, track, latest, dirty, late,
                    texture, casting>>
    BY <1>21 DEF Receive, GetLatestRtcStats, OnStatsDelivered, vars, engine, renderer, frames
  <2>. QED
    BY <2>1 DEF ViewInv, Types, QuietInv, CastingInv, BlankInv, OwnFrameInv
<1>. QED
  BY <1>1, <1>2, <1>3, <1>4, <1>5, <1>6, <1>7, <1>8, <1>9, <1>10, <1>11,
     <1>12, <1>13, <1>14, <1>15, <1>16, <1>17, <1>18, <1>19, <1>20, <1>21
  DEF Next, HangUp, CallbackStep

\* The program starts in both invariants.
LEMMA InitView ==
  ASSUME Init
  PROVE  ViewInv /\ RateInv
<1>1. ViewInv
  BY DEF Init, None, ViewInv, Types, IoSteps, WebrtcSteps, QuietInv, CastingInv,
         BlankInv, OwnFrameInv
<1>2. RateInv
  BY ViewAssumption DEF Init, RateInv
<1>. QED
  BY <1>1, <1>2

-----------------------------------------------------------------------------
\* The invariant of the renderer and of the connection.
THEOREM ViewInvariance == Spec => []ViewInv
<1>1. Init => ViewInv
  BY InitView
<1>2. ViewInv /\ [Next]_vars => ViewInv'
  BY NextView
<1>. QED
  BY <1>1, <1>2, PTL DEF Spec

(* After a hang-up the renderer is blank, unless a publication ran between *)
(* Stop and Close, and in a call with a published track the renderer never *)
(* holds a frame of an earlier call, whatever callbacks, frames and        *)
(* drawing came in between.                                                *)
THEOREM StaleVideo == Spec => []StaleVideoIsCleared
<1>1. ViewInv => StaleVideoIsCleared
  BY DEF ViewInv, QuietInv, BlankInv, OwnFrameInv, StaleVideoIsCleared, At
<1>. QED
  BY <1>1, ViewInvariance, PTL

-----------------------------------------------------------------------------
\* Unsigned subtraction is exact where the counter has not gone back.
LEMMA DifferenceIsExact ==
  ASSUME NEW received \in Nat, sample[1] \in Nat, sample[1] <= received, received < Wrap
  PROVE  Difference(received) = received - sample[1]
<1>1. received - sample[1] \in Nat /\ received - sample[1] < Wrap /\ Wrap \in Nat
  BY ViewAssumption
<1>2. \A k \in Nat : k < Wrap => (k + Wrap) % Wrap = k
  BY <1>1
<1>. QED
  BY <1>1, <1>2 DEF Difference

\* Only a new connection, a byte or a report changes what the rate is made of.
LEMMA NextRate ==
  ASSUME RateInv, [Next]_vars
  PROVE  RateInv'
<1>1. CASE CreatePeerConnection
  BY <1>1, ViewAssumption DEF CreatePeerConnection, RateInv
<1>2. CASE Receive
  BY <1>2, ViewAssumption DEF Receive, RateInv
<1>3. CASE OnStatsDelivered
  <2>1. CASE UNCHANGED <<sample, rate, reports>>
    BY <1>3, <2>1 DEF OnStatsDelivered, RateInv
  <2>2. CASE ExtractAndStoreRtcStats
    <3>1. PICK fresh, known \in BOOLEAN :
             LET received == IF fresh THEN bytes ELSE sample[1]
             IN  /\ fresh \/ reports > 0
                 /\ rate' = IF sample # <<>> /\ fresh /\ ~known THEN Difference(received) ELSE 0
                 /\ sample' = <<received>>
                 /\ reports' = IF reports = 2 THEN 2 ELSE reports + 1
      BY <2>2 DEF ExtractAndStoreRtcStats
    <3>2. bytes' = bytes
      BY <1>3 DEF OnStatsDelivered
    <3>3. sample # <<>> => sample[1] \in Nat
      BY DEF RateInv
    <3>4. /\ sample' \in Seq(Nat) /\ sample' # <<>> /\ sample'[1] <= bytes
          /\ reports' \in 1..2
      BY <3>1, <3>3 DEF RateInv
    <3>5. rate' \in Nat
      BY <3>1, <3>3, ViewAssumption DEF Difference, RateInv
    <3>6. reports > 0 => rate' <= bytes
      BY <3>1, <3>3, DifferenceIsExact, ViewAssumption DEF RateInv
    <3>. QED
      BY <3>1, <3>2, <3>4, <3>5, <3>6 DEF RateInv
  <2>. QED
    BY <1>3, <2>1, <2>2 DEF OnStatsDelivered
<1>4. CASE ~(CreatePeerConnection \/ Receive \/ OnStatsDelivered)
  <2>1. UNCHANGED <<bytes, sample, rate, reports>>
    BY <1>4 DEF Next, HangUp, CallbackStep, StopEmpty, TakeMutex, StopRemove, Clear,
       SetVideoTrack, Deliver, OnFrame, UpdateVideoTexture, OnNeedClosePeerConnection,
       ResetCallbackGuard, Close, ReleaseConnection, Callback, PublishRemoteVideoTrack,
       UnpublishRemoteVideoTrack, SetRemoteAudioTrackAttached, GetLatestRtcStats,
       vars, stats
  <2>. QED
    BY <2>1 DEF RateInv
<1>. QED
  BY <1>1, <1>2, <1>3, <1>4

(* From the second report of a connection on, the difference of unsigned   *)
(* counters that ExtractAndStoreRtcStats computes has not wrapped, however *)
(* reports, hang-ups and new connections interleave.                       *)
THEOREM RateIsSettled == Spec => []RateSettles
<1>1. Init => RateInv
  BY InitView
<1>2. RateInv /\ [Next]_vars => RateInv'
  BY NextRate
<1>3. RateInv => RateSettles
  BY DEF RateInv, RateSettles
<1>. QED
  BY <1>1, <1>2, <1>3, PTL DEF Spec
=============================================================================
