------------------------------ MODULE CallView ------------------------------
(***************************************************************************)
(* What the user sees of a call: the remote video, which the engine hands  *)
(* to a VideoRenderer (videorenderer.cc, webrtcengine_media_pipeline.cc)   *)
(* and the render loop draws (sdl_app.cc), and the bit rate that the       *)
(* coordinator computes from the statistics of the connection              *)
(* (call_coordinator.cc, webrtcengine_telemetry.cc).                       *)
(*                                                                         *)
(* A call is made and hung up on the I/O thread, WebRTC calls back on its  *)
(* signaling thread, frames come on a thread of their own and are drawn on *)
(* the user interface thread.  A critical section of the renderer's mutex  *)
(* is one step, except that its owner may have to wait in RemoveSink for   *)
(* the broadcaster of the track, whose lock is held during OnFrame.        *)
(*                                                                         *)
(* A connection, its callback guard and its remote video track have one    *)
(* number; None is a null pointer, an expired guard and a blank frame.     *)
(* The renderer of the local video is another instance of the same class,  *)
(* used by the I/O and the user interface thread, and left out.            *)
(***************************************************************************)
EXTENDS Naturals, Sequences

CONSTANTS
    MaxCalls,  \* bound on the connections that are made
    MaxBytes,  \* bound on the bytes a connection receives
    MaxAsked,  \* bound on the reports that are outstanding
    Wrap       \* unsigned counters are modulo Wrap

ASSUME ViewAssumption ==
    /\ MaxCalls \in Nat /\ MaxBytes \in Nat /\ MaxAsked \in Nat
    /\ Wrap \in Nat /\ MaxBytes < Wrap

VARIABLES
    pc,         \* where the I/O and the signaling thread are
    made,       \* connections made so far
    conn,       \* peer_connection_
    guard,      \* peer_connection_callback_guard_
    published,  \* remote_video_track_
    audio,      \* remote_audio_track_attached of the telemetry
    mutex,      \* the owner of the renderer's mutex_ that waits in RemoveSink
    track,      \* rendered_track_, which has the renderer as a sink
    latest,     \* latest_frame_, as the connection it came from
    dirty,      \* frame_dirty_
    texture,    \* the frame in the texture that is drawn
    casting,    \* the track whose broadcaster is delivering a frame
    bytes,      \* received over the connection
    asked,      \* guards of the reports that GetStats has still to deliver
    sample,     \* last_rate_sample_, as its bytes in a sequence of at most one
    rate,       \* the bit rate of last_stats_ where it comes from a difference
    reports,    \* reports stored for the connection: 0, 1, or 2 for more
    late        \* history: the renderer got a track after a hang-up stopped it

engine == <<made, conn, guard, published, audio>>
frames == <<latest, dirty>>
renderer == <<mutex, track, frames, late>>
stats == <<bytes, asked, sample, rate, reports>>
vars == <<pc, engine, renderer, texture, casting, stats>>

None == 0
Free == mutex = "free"
At(t, step) == pc[t] = step
Go(t, step) == pc' = [pc EXCEPT ![t] = step]

Init ==
    /\ pc = [io |-> "idle", webrtc |-> "idle"]
    /\ made = 0 /\ conn = None /\ guard = None /\ published = None /\ audio = FALSE
    /\ mutex = "free" /\ track = None /\ latest = None /\ dirty = FALSE
    /\ texture = None /\ casting = None
    /\ bytes = 0 /\ asked = <<>> /\ sample = <<>> /\ rate = 0 /\ reports = 0
    /\ late = FALSE

-----------------------------------------------------------------------------
(* VideoRenderer. *)

Blank ==
    /\ latest' = None
    /\ dirty' = TRUE

\* After Stop the hang-up goes on and a callback returns.
Stopped(t) ==
    /\ Go(t, IF t = "io" THEN "guard" ELSE "idle")
    /\ late' = (late /\ t # "io")

\* Stop, where there is no sink to remove.
StopEmpty(t) ==
    /\ At(t, "stop") /\ Free /\ track = None
    /\ Blank
    /\ Stopped(t)
    /\ UNCHANGED <<engine, mutex, track, texture, casting, stats>>

\* Stop and SetVideoTrack call RemoveSink under the mutex.
TakeMutex(t) ==
    /\ pc[t] \in {"stop", "set"} /\ Free /\ track # None
    /\ mutex' = t
    /\ Go(t, IF At(t, "stop") THEN "stop remove" ELSE "set remove")
    /\ UNCHANGED <<engine, track, frames, late, texture, casting, stats>>

\* Mutant: the renderer forgets the track and keeps its last frame.
StopRemove_KeepsFrame(t) ==
    /\ At(t, "stop remove") /\ casting # track
    /\ track' = None /\ mutex' = "free"
    /\ Stopped(t)
    /\ UNCHANGED <<engine, frames, texture, casting, stats>>

StopRemove(t) ==
    /\ At(t, "stop remove") /\ casting # track
    /\ track' = None /\ mutex' = "free"
    /\ Blank
    /\ Stopped(t)
    /\ UNCHANGED <<engine, texture, casting, stats>>

\* OnStartRemoteRenderer: Clear, then SetVideoTrack.
Clear ==
    /\ At("webrtc", "clear") /\ Free
    /\ Blank
    /\ Go("webrtc", "set")
    /\ UNCHANGED <<engine, mutex, track, late, texture, casting, stats>>

\* Mutant: the track is set by a blocking call to the I/O thread.
SetVideoTrack_OnIoThread ==
    /\ \/ At("webrtc", "set") /\ Free /\ track = None
       \/ At("webrtc", "set remove") /\ casting # track
    /\ pc["io"] = "idle"
    /\ track' = published /\ mutex' = "free"
    /\ late' = late
    /\ Go("webrtc", "idle")
    /\ UNCHANGED <<engine, frames, texture, casting, stats>>

SetVideoTrack ==
    /\ \/ At("webrtc", "set") /\ Free /\ track = None
       \/ At("webrtc", "set remove") /\ casting # track
    /\ track' = published /\ mutex' = "free"
    /\ late' = (late \/ pc["io"] \in {"guard", "close"})
    /\ Go("webrtc", "idle")
    /\ UNCHANGED <<engine, frames, texture, casting, stats>>

\* A broadcaster takes its lock and calls OnFrame of the sink.
Deliver ==
    /\ conn # None /\ track = conn /\ casting = None /\ ~At("io", "closing")
    /\ casting' = conn
    /\ UNCHANGED <<pc, engine, renderer, texture, stats>>

OnFrame ==
    /\ casting # None /\ Free
    /\ latest' = casting /\ dirty' = TRUE
    /\ casting' = None
    /\ UNCHANGED <<pc, engine, mutex, track, late, texture, stats>>

\* The render loop consumes the latest frame; making a texture or mapping it
\* may fail, which leaves no texture, an empty one or the one before.
UpdateVideoTexture ==
    /\ Free /\ dirty
    /\ dirty' = FALSE
    /\ texture' \in IF latest = None THEN {None} ELSE {latest, None, texture}
    /\ UNCHANGED <<pc, engine, mutex, track, latest, late, casting, stats>>

-----------------------------------------------------------------------------
(* The engine: connections and the callbacks of WebRTC. *)

\* CreatePeerConnection renews the guard.
CreatePeerConnection ==
    /\ At("io", "idle") /\ conn = None /\ made < MaxCalls
    /\ made' = made + 1 /\ conn' = made + 1 /\ guard' = made + 1
    /\ bytes' = 0 /\ reports' = 0
    /\ UNCHANGED <<pc, published, audio, renderer, texture, casting, asked, sample, rate>>

\* OnNeedClosePeerConnection stops the renderer, also where no connection
\* was made, then closes the connection.
OnNeedClosePeerConnection ==
    /\ At("io", "idle")
    /\ Go("io", "stop")
    /\ UNCHANGED <<engine, renderer, texture, casting, stats>>

ResetCallbackGuard ==
    /\ At("io", "guard")
    /\ guard' = None
    /\ Go("io", "close")
    /\ UNCHANGED <<made, conn, published, audio, renderer, texture, casting, stats>>

\* Close runs on the signaling thread, after a callback that is under way; it
\* lets no further frame in and waits for the one that is being delivered.
Close ==
    /\ At("io", "close") /\ At("webrtc", "idle")
    /\ Go("io", "closing")
    /\ UNCHANGED <<engine, renderer, texture, casting, stats>>

ReleaseConnection ==
    /\ At("io", "closing") /\ casting = None
    /\ conn' = None /\ published' = None /\ audio' = FALSE
    /\ Go("io", "idle")
    /\ UNCHANGED <<made, guard, renderer, texture, casting, stats>>

\* Every callback of the observer asks first whether its guard has expired.
GuardAlive == guard # None

\* A video track came (OnTrack, OnAddTrack, or PublishRemoteTracks once the
\* remote description is set or ICE is connected), there is none any more, or
\* the audio track came or went.
Callback ==
    /\ At("webrtc", "idle") /\ GuardAlive
    /\ \E step \in {"publish", "unpublish", "none found", "audio on", "audio off"} :
            Go("webrtc", step)
    /\ UNCHANGED <<engine, renderer, texture, casting, stats>>

PublishRemoteVideoTrack ==
    /\ At("webrtc", "publish")
    /\ published' = conn
    /\ Go("webrtc", IF published = conn THEN "idle" ELSE "clear")
    /\ UNCHANGED <<made, conn, guard, audio, renderer, texture, casting, stats>>

\* OnRemoteVideoTrackRemoved follows, by OnRemoveTrack always and by
\* PublishRemoteTracks where a track was published.
UnpublishRemoteVideoTrack ==
    /\ pc["webrtc"] \in {"unpublish", "none found"}
    /\ published' = None
    /\ Go("webrtc", IF At("webrtc", "none found") /\ published = None THEN "idle" ELSE "stop")
    /\ UNCHANGED <<made, conn, guard, audio, renderer, texture, casting, stats>>

SetRemoteAudioTrackAttached ==
    /\ pc["webrtc"] \in {"audio on", "audio off"}
    /\ audio' = At("webrtc", "audio on")
    /\ Go("webrtc", "idle")
    /\ UNCHANGED <<made, conn, guard, published, renderer, texture, casting, stats>>

-----------------------------------------------------------------------------
(* Statistics. *)

Receive ==
    /\ conn # None /\ bytes < MaxBytes
    /\ bytes' = bytes + 1
    /\ UNCHANGED <<pc, engine, renderer, texture, casting, asked, sample, rate, reports>>

\* The report is delivered under the guard of the moment.
CollectStats == asked' = Append(asked, guard)

\* Called with every frame of the statistics panel.
GetLatestRtcStats ==
    /\ conn # None /\ Len(asked) < MaxAsked
    /\ CollectStats
    /\ UNCHANGED <<pc, engine, renderer, texture, casting, bytes, sample, rate, reports>>

\* Since the last sample.  That it is not negative, which the code asks, is
\* always true of unsigned counters.
Difference(received) == (received + Wrap - sample[1]) % Wrap

\* Mutant: the sample is taken once.
ExtractAndStoreRtcStats_OneSample ==
    \E fresh, known \in BOOLEAN :
        LET received == IF fresh THEN bytes ELSE sample[1]
        IN  /\ fresh \/ reports > 0
            /\ rate' = IF sample # <<>> /\ fresh /\ ~known THEN Difference(received) ELSE 0
            /\ sample' = IF sample = <<>> THEN <<received>> ELSE sample
            /\ reports' = IF reports = 2 THEN 2 ELSE reports + 1

\* A report that is not fresh is the cached one, with no time in between; where
\* the bit rate of the candidate pair is known no difference is used.
ExtractAndStoreRtcStats ==
    \E fresh, known \in BOOLEAN :
        LET received == IF fresh THEN bytes ELSE sample[1]
        IN  /\ fresh \/ reports > 0
            /\ rate' = IF sample # <<>> /\ fresh /\ ~known THEN Difference(received) ELSE 0
            /\ sample' = <<received>>
            /\ reports' = IF reports = 2 THEN 2 ELSE reports + 1

OnStatsDelivered ==
    /\ At("webrtc", "idle") /\ asked # <<>>
    /\ asked' = Tail(asked)
    /\ \/ GuardAlive /\ Head(asked) = guard /\ ExtractAndStoreRtcStats
       \/ (~GuardAlive \/ Head(asked) # guard) /\ UNCHANGED <<sample, rate, reports>>
    /\ UNCHANGED <<pc, engine, renderer, texture, casting, bytes>>

-----------------------------------------------------------------------------

HangUp ==
    \/ StopEmpty("io") \/ TakeMutex("io") \/ StopRemove("io")
    \/ ResetCallbackGuard \/ Close \/ ReleaseConnection

CallbackStep ==
    \/ PublishRemoteVideoTrack \/ UnpublishRemoteVideoTrack
    \/ SetRemoteAudioTrackAttached \/ Clear \/ SetVideoTrack
    \/ StopEmpty("webrtc") \/ TakeMutex("webrtc") \/ StopRemove("webrtc")

Next ==
    \/ CreatePeerConnection \/ OnNeedClosePeerConnection \/ HangUp
    \/ Callback \/ CallbackStep
    \/ Deliver \/ OnFrame \/ UpdateVideoTexture
    \/ Receive \/ GetLatestRtcStats \/ OnStatsDelivered

Spec == Init /\ [][Next]_vars

\* The threads run, and the I/O thread gets a mutex that is free again and
\* again.  Nothing makes WebRTC call back or a user hang up.
FairSpec ==
    /\ Spec
    /\ SF_vars(HangUp)
    /\ WF_vars(CallbackStep)
    /\ WF_vars(OnFrame)

-----------------------------------------------------------------------------

\* Once a hang-up is over the remote audio is marked as gone and the renderer
\* is blank, with a texture that is empty or about to be: stale frames are
\* cleared on stop (docs/webrtc-repeat-call-video-debugging.md).  A publication
\* that ran between Stop and Close is the exception.  In a call whose track is
\* published the renderer never holds a frame of an earlier call, even then.
StaleVideoIsCleared ==
    /\ conn = None /\ At("io", "idle") =>
            /\ ~audio
            /\ late \/ (latest = None /\ (texture = None \/ dirty))
    /\ published # None /\ At("webrtc", "idle") => latest \in {None, published}

\* The renderer's mutex is held by a thread that waits for the broadcaster,
\* which waits for the mutex to deliver its frame.
LockOrderInverted == ~Free /\ casting = track

\* A hang-up returns, whatever WebRTC calls back meanwhile, unless it meets
\* the one inversion of locks of videorenderer.cc.
StopReturns == pc["io"] # "idle" ~> (pc["io"] = "idle" \/ LockOrderInverted)

\* From the second report of a connection on, the bit rate is a difference of
\* what this connection received; the first one may be taken from the counters
\* of the connection before, and wraps.
RateSettles == conn # None /\ reports = 2 => rate <= bytes
=============================================================================
