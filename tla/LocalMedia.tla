----------------------------- MODULE LocalMedia -----------------------------
(***************************************************************************)
(* The local half of a call: the video source of the engine                *)
(* (webrtcengine_media_pipeline.cc), a file source with its decoder thread *)
(* (ffmpeg_file_source.cc) and the audio input that switches between the   *)
(* microphone and the sound of the file (switchable_audio_input_win.cc).   *)
(*                                                                         *)
(* AddTracks runs on the I/O thread, ClosePeerConnection on it and, when a *)
(* call request times out, on the thread of the request timer; nothing     *)
(* keeps these two and SetLocalVideoSource on the user interface thread    *)
(* apart.  Every file source has a decoder thread, and the audio input a   *)
(* thread of its own.  todo[t] is what thread t has still to do: a         *)
(* sequence of steps, each one critical section of the audio input's mutex *)
(* or one access to the engine's unprotected members.  The engine's        *)
(* Shutdown is left out.                                                   *)
(***************************************************************************)
EXTENDS Naturals, Sequences, FiniteSets, Functions

CONSTANTS
    Files,   \* instances of FfmpegFileSource; one is used again once released
    High,    \* kMaxBufferedAudioFrames, in decoded chunks
    Cap      \* kMaxBufferedSyntheticMs, in decoded chunks

\* 2 s against 4 s, where a chunk of a file is a few hundredths of a second.
ASSUME BufferAssumption ==
    /\ IsFiniteSet(Files)
    /\ High \in Nat /\ Cap \in Nat
    /\ High + Cardinality(Files) < Cap

\* The names of sources and threads are different.
ASSUME NamesAssumption ==
    Files \cap {"ui", "io", "timer", "camera", "file", "none"} = {}

VARIABLES
    mode,       \* mode_
    requested,  \* recording_requested_
    samples,    \* synthetic_samples_, in chunks
    running,    \* synthetic_thread_running_
    stop,       \* stop_synthetic_thread_
    joinable,   \* synthetic_thread_ holds a thread
    alive,      \* that thread is in SyntheticLoop
    live,       \* the microphone records
    playing,    \* running_ of a file source
    pc,         \* peer_connection_
    sender,     \* video_sender_
    sending,    \* the connection has an audio sender
    source,     \* video_source_
    kind,       \* the kind in the configuration of LocalMediaPipeline
    active,     \* whether its state says active
    todo,       \* the steps a thread has still to take
    overlap,    \* history: two of the threads that control a call were in
                \* the engine at once
    stray,      \* history: a source was given up while its decoder
                \* was taking the audio input over, or after it had
    broken      \* undefined behaviour on a thread handle or a null pointer

thread == <<running, stop, joinable, alive>>
input == <<mode, requested, samples, thread, live>>
engine == <<pc, sender, sending, source, kind, active>>
history == <<overlap, stray, broken>>
vars == <<input, playing, engine, todo, history>>

\* The threads that may close the connection, and those that control a call.
Closers == {"io", "timer"}
Control == {"ui", "io", "timer"}
Threads == Control \cup Files
Kinds == {"camera", "file"}
Kind(s) == IF s \in Files THEN "file" ELSE "camera"

-----------------------------------------------------------------------------
(* Threads as sequences of steps. *)

Do(name) == <<name, "none">>
Busy(t) == todo[t] # <<>>
At(t, name) == Busy(t) /\ Head(todo[t])[1] = name
Arg(t) == Head(todo[t])[2]

\* Another thread is in the engine while t is.
Beside(t) == \E u \in Control \ {t} : Busy(u)

\* The step of t is done; what it called comes before the rest.
After(t, called) == [todo EXCEPT ![t] = called \o Tail(@)]
Go(t, called) == todo' = After(t, called)

\* The method of t returns early and the thread goes on with called.
Return(t, called) == todo' = [todo EXCEPT ![t] = called]

Configure(k) == <<Do(IF k = "file" THEN "use synthetic" ELSE "use microphone"), Do("clear")>>

DecodeLoop == <<Do("use synthetic"), Do("clear"), Do("read"), Do("clear")>>

ClosePeerConnection ==
    <<Do("stop current"), Do("stop recording"), Do("clear"),
      Do("remove senders"), Do("close"), Do("release")>>

Init ==
    /\ mode = "microphone" /\ kind \in Kinds
    /\ samples = 0 /\ source = "none"
    /\ requested = FALSE /\ live = FALSE
    /\ running = FALSE /\ stop = FALSE /\ joinable = FALSE /\ alive = FALSE
    /\ pc = FALSE /\ sender = FALSE /\ sending = FALSE /\ active = FALSE
    /\ playing = [f \in Files |-> FALSE]
    /\ todo = [t \in Threads |-> <<>>]
    /\ overlap = FALSE /\ stray = FALSE /\ broken = FALSE

-----------------------------------------------------------------------------
(* SwitchableAudioInput. *)

\* Decoders in the three steps of UseSyntheticPcm.
Taking == {f \in Files : \/ At(f, "use synthetic")
                         \/ At(f, "stop microphone")
                         \/ At(f, "start thread")}

UseMicrophone(t) ==
    /\ At(t, "use microphone")
    /\ mode' = "microphone"
    /\ stray' = (stray \/ Taking # {})
    /\ \/ mode = "microphone" /\ Go(t, <<>>) /\ UNCHANGED samples
       \/ /\ mode = "synthetic"
          /\ samples' = 0
          /\ Go(t, <<Do("stop thread")>>
                   \o IF requested THEN <<Do("start microphone")>> ELSE <<>>)
    /\ UNCHANGED <<requested, thread, live, playing, engine, overlap, broken>>

\* Mutant: the microphone is left on.
UseSyntheticPcm_KeepsMicrophone(t) ==
    /\ At(t, "use synthetic")
    /\ mode' = "synthetic"
    /\ Go(t, IF requested THEN <<Do("start thread")>> ELSE <<>>)
    /\ UNCHANGED <<requested, samples, thread, live, playing, engine, history>>

UseSyntheticPcm(t) ==
    /\ At(t, "use synthetic")
    /\ mode' = "synthetic"
    /\ Go(t, <<Do("stop microphone")>>
             \o IF requested THEN <<Do("start thread")>> ELSE <<>>)
    /\ UNCHANGED <<requested, samples, thread, live, playing, engine, history>>

\* live_input_, called outside the mutex.
SwitchMicrophone(t) ==
    /\ \/ At(t, "start microphone") /\ live' = TRUE
       \/ At(t, "stop microphone") /\ live' = FALSE
    /\ Go(t, <<>>)
    /\ UNCHANGED <<mode, requested, samples, thread, playing, engine, history>>

\* Mutant: started again while it runs.
StartSyntheticThreadLocked_Again ==
    /\ stop' = FALSE
    /\ running' = TRUE
    /\ joinable' = TRUE
    /\ alive' = TRUE
    /\ broken' = (broken \/ joinable)

(* A std::thread that is assigned to while it holds a thread terminates    *)
(* the program.                                                            *)
StartSyntheticThreadLocked ==
    IF running
    THEN UNCHANGED <<thread, broken>>
    ELSE /\ stop' = FALSE
         /\ running' = TRUE
         /\ joinable' = TRUE
         /\ alive' = TRUE
         /\ broken' = (broken \/ joinable)

StartThread(t) ==
    /\ At(t, "start thread")
    /\ StartSyntheticThreadLocked
    /\ Go(t, <<>>)
    /\ UNCHANGED <<mode, requested, samples, live, playing, engine, overlap, stray>>

\* StopSyntheticThread: the first critical section.
StopThread(t) ==
    /\ At(t, "stop thread")
    /\ \/ ~running /\ ~joinable /\ Go(t, <<>>) /\ UNCHANGED stop
       \/ /\ running \/ joinable
          /\ stop' = TRUE
          /\ Go(t, <<Do("join thread"), Do("thread stopped")>>)
    /\ UNCHANGED <<mode, requested, samples, running, joinable, alive, live,
                   playing, engine, history>>

(* Joining without the mutex.  A second thread that joins at the same time *)
(* is undefined behaviour; it is taken to return with the first.           *)
JoinThread(t) ==
    /\ At(t, "join thread")
    /\ joinable => ~alive
    /\ joinable' = FALSE
    /\ broken' = (broken \/ (joinable /\ \E u \in Threads \ {t} : At(u, "join thread")))
    /\ Go(t, <<>>)
    /\ UNCHANGED <<mode, requested, samples, running, stop, alive, live,
                   playing, engine, overlap, stray>>

ThreadStopped(t) ==
    /\ At(t, "thread stopped")
    /\ running' = FALSE
    /\ stop' = FALSE
    /\ Go(t, <<>>)
    /\ UNCHANGED <<mode, requested, samples, joinable, alive, live, playing, engine, history>>

SyntheticLoop ==
    /\ alive
    /\ \/ stop /\ alive' = FALSE /\ UNCHANGED samples
       \/ ~stop /\ samples > 0 /\ samples' = samples - 1 /\ UNCHANGED alive
    /\ UNCHANGED <<mode, requested, running, stop, joinable, live, playing, engine,
                   todo, history>>

ClearSyntheticAudio(t) ==
    /\ At(t, "clear")
    /\ samples' = 0
    /\ Go(t, <<>>)
    /\ UNCHANGED <<mode, requested, thread, live, playing, engine, history>>

(* Called by WebRTC on its worker thread once there is an audio sender,    *)
(* after InitRecording.                                                    *)
StartRecording ==
    /\ sending
    /\ requested' = TRUE
    /\ \/ mode = "synthetic" /\ StartSyntheticThreadLocked /\ UNCHANGED live
       \/ mode = "microphone" /\ live' = TRUE /\ UNCHANGED <<thread, broken>>
    /\ UNCHANGED <<mode, samples, playing, engine, todo, overlap, stray>>

StopRecording(t) ==
    /\ At(t, "stop recording")
    /\ requested' = FALSE
    /\ Go(t, <<Do(IF mode = "synthetic" THEN "stop thread" ELSE "stop microphone")>>)
    /\ UNCHANGED <<mode, samples, thread, live, playing, engine, history>>

-----------------------------------------------------------------------------
(* FfmpegFileSource.  Video frames and packets of other streams leave the  *)
(* state of this module alone.                                             *)

Read(f) ==
    /\ At(f, "read")
    /\ \/ ~playing[f] /\ Go(f, <<>>)
       \/ playing[f] /\ Go(f, <<>>)                     \* not opened, or an error
       \/ playing[f] /\ Go(f, <<Do("clear"), Do("read")>>)       \* end of file
       \/ playing[f] /\ Go(f, <<Do("push"), Do("wait"), Do("read")>>)
    /\ UNCHANGED <<input, playing, engine, history>>

\* PushSyntheticAudio drops the oldest samples beyond the cap.
Push(f) ==
    /\ At(f, "push")
    /\ samples' = IF samples < Cap THEN samples + 1 ELSE Cap
    /\ Go(f, <<>>)
    /\ UNCHANGED <<mode, requested, thread, live, playing, engine, history>>

\* Mutant: no pacing.
Wait_Never(f) ==
    /\ At(f, "wait")
    /\ Go(f, <<>>)
    /\ UNCHANGED <<input, playing, engine, history>>

\* Mutant: Stop does not end the wait.
Wait_IgnoresStop(f) ==
    /\ At(f, "wait")
    /\ samples <= High
    /\ Go(f, <<>>)
    /\ UNCHANGED <<input, playing, engine, history>>

\* The decoder waits while more than two seconds are buffered.
Wait(f) ==
    /\ At(f, "wait")
    /\ ~playing[f] \/ samples <= High
    /\ Go(f, <<>>)
    /\ UNCHANGED <<input, playing, engine, history>>

\* Stop: whoever resets running_ joins the decoder.
StopSource(t) ==
    /\ At(t, "stop source")
    /\ \/ /\ Arg(t) \in Files /\ playing[Arg(t)]
          /\ playing' = [playing EXCEPT ![Arg(t)] = FALSE]
          /\ Go(t, <<<<"join decoder", Arg(t)>>, Do("clear")>>)
       \/ /\ Arg(t) \in Files => ~playing[Arg(t)]
          /\ Go(t, <<>>)
          /\ UNCHANGED playing
    /\ UNCHANGED <<input, engine, history>>

JoinDecoder(t) ==
    /\ At(t, "join decoder")
    /\ ~Busy(Arg(t))
    /\ Go(t, <<>>)
    /\ UNCHANGED <<input, playing, engine, history>>

-----------------------------------------------------------------------------
(* The engine. *)

Free(f) ==
    /\ ~Busy(f) /\ source # f
    /\ \A t \in Control : \A i \in DOMAIN todo[t] : todo[t][i][2] # f

(* AddTracks, called by OnNeedCreatePeerConnection for a new connection.   *)
(* The call before an answer, on WebRTC's thread, finds both senders and   *)
(* returns.                                                                *)
AddTracks ==
    /\ ~Busy("io") /\ ~pc
    /\ pc' = TRUE
    /\ overlap' = (overlap \/ Beside("io"))
    /\ Return("io", Configure(kind) \o <<<<"create", kind>>>>)
    /\ UNCHANGED <<input, playing, sender, sending, source, kind, active, stray, broken>>

\* The thread goes on with called while the decoder of a file source starts.
Created(t, s, called) ==
    todo' = [u \in Threads |-> IF u = s THEN DecodeLoop ELSE After(t, called)[u]]

\* A source that replaces another one in AddTracks releases it.
CreateSource(t) ==
    /\ At(t, "create")
    /\ \E s \in {f \in Files : Free(f)} \cup {"camera"} :
          /\ Kind(s) = Arg(t)
          /\ playing' = [f \in Files |-> f = s \/ playing[f]]
          /\ \/ /\ t = "ui"
                /\ Created(t, s, <<<<"set track", s>>>>)
                /\ UNCHANGED source
             \/ /\ t = "io"
                /\ Created(t, s, <<<<"stop source", source>>, <<"attach", s>>>>)
                /\ source' = s
    /\ UNCHANGED <<input, pc, sender, sending, kind, active, history>>

\* CreateVideoSourceForConfig fails; AddTracks has the connection closed.
CreateFails(t) ==
    /\ At(t, "create")
    /\ \/ t = "ui" /\ Return(t, <<>>) /\ UNCHANGED source
       \/ /\ t = "io"
          /\ Return(t, <<<<"stop source", source>>>> \o ClosePeerConnection)
          /\ source' = "none"
    /\ UNCHANGED <<input, playing, pc, sender, sending, kind, active, history>>

(* AddTrack for video, then for audio; each may fail.  peer_connection_    *)
(* may be gone by now.                                                     *)
Attach ==
    /\ At("io", "attach")
    /\ broken' = (broken \/ ~pc)
    /\ \/ /\ sender' = TRUE /\ kind' = Kind(Arg("io")) /\ active' = TRUE
          /\ \/ sending' = TRUE /\ Go("io", <<>>)
             \/ Return("io", ClosePeerConnection) /\ UNCHANGED sending
       \/ /\ Return("io", ClosePeerConnection)
          /\ UNCHANGED <<sender, sending, kind, active>>
    /\ UNCHANGED <<input, playing, pc, source, overlap, stray>>

StartClose(t) ==
    /\ ~Busy(t)
    /\ overlap' = (overlap \/ Beside(t))
    /\ Return(t, ClosePeerConnection)
    /\ UNCHANGED <<input, playing, engine, stray, broken>>

\* OnNeedClosePeerConnection, for a call that ends on the I/O thread.
Close == StartClose("io")

(* On the thread of the request timer.  There is a connection if an answer *)
(* came after the timer found the call still Calling.                      *)
OnCallTimeout == StartClose("timer")

StopCurrent(t) ==
    /\ At(t, "stop current")
    /\ Go(t, <<<<"stop source", source>>>>)
    /\ UNCHANGED <<input, playing, engine, history>>

\* WebRTC stops recording when the audio sender goes.
RemoveSenders(t) ==
    /\ At(t, "remove senders")
    /\ sending' = FALSE
    /\ Go(t, IF sending THEN <<Do("stop recording")>> ELSE <<>>)
    /\ UNCHANGED <<input, playing, pc, sender, source, kind, active, history>>

(* Nothing to do when there is no connection; but another thread may have  *)
(* closed it since this one looked.                                        *)
CloseConnection(t) ==
    /\ At(t, "close")
    /\ pc' = FALSE
    /\ \/ UNCHANGED broken
       \/ ~pc /\ Beside(t) /\ broken' = TRUE
    /\ Go(t, <<>>)
    /\ UNCHANGED <<input, playing, sender, sending, source, kind, active, overlap, stray>>

(* The last reference to a source stops it; SetLocalVideoSource has one    *)
(* until it returns.                                                       *)
Release(t) ==
    /\ At(t, "release")
    /\ sender' = FALSE /\ source' = "none" /\ active' = FALSE
    /\ Go(t, IF <<"return", source>> \in Range(todo["ui"])
             THEN <<>> ELSE <<<<"stop source", source>>>>)
    /\ UNCHANGED <<input, playing, pc, sending, kind, history>>

\* On the user interface thread, with a configuration that is valid.
SetLocalVideoSource(k) ==
    /\ ~Busy("ui")
    /\ overlap' = (overlap \/ Beside("ui"))
    /\ \/ /\ ~pc \/ ~sender
          /\ kind' = k /\ active' = FALSE
          /\ UNCHANGED todo
       \/ /\ pc /\ sender
          /\ Return("ui", <<<<"create", k>>>>)
          /\ UNCHANGED <<kind, active>>
    /\ UNCHANGED <<input, playing, pc, sender, sending, source, stray, broken>>

\* Mutant: ConfigureAudioInputForSource is left to AddTracks.
SetTrack_KeepsAudio ==
    /\ At("ui", "set track")
    /\ broken' = (broken \/ ~sender)
    /\ \/ /\ Go("ui", <<<<"swap", Arg("ui")>>>>)
          /\ UNCHANGED stray
       \/ /\ Return("ui", <<<<"stop source", Arg("ui")>>>>)
          /\ stray' = (stray \/ (Arg("ui") \in Files /\ source \notin Files))
    /\ UNCHANGED <<input, playing, engine, overlap>>

(* video_sender_ may be gone by now.  A file source that is given up has   *)
(* already taken the audio input over.                                     *)
SetTrack ==
    /\ At("ui", "set track")
    /\ broken' = (broken \/ ~sender)
    /\ \/ /\ Go("ui", Configure(Kind(Arg("ui"))) \o <<<<"swap", Arg("ui")>>>>)
          /\ UNCHANGED stray
       \/ /\ Return("ui", <<<<"stop source", Arg("ui")>>>>)
          /\ stray' = (stray \/ (Arg("ui") \in Files /\ source \notin Files))
    /\ UNCHANGED <<input, playing, engine, overlap>>

Swap ==
    /\ At("ui", "swap")
    /\ source' = Arg("ui") /\ kind' = Kind(Arg("ui")) /\ active' = TRUE
    /\ Go("ui", <<<<"stop source", source>>, <<"return", Arg("ui")>>>>)
    /\ UNCHANGED <<input, playing, pc, sender, sending, history>>

SwitchReturns ==
    /\ At("ui", "return")
    /\ Go("ui", IF source = Arg("ui") THEN <<>> ELSE <<<<"stop source", Arg("ui")>>>>)
    /\ UNCHANGED <<input, playing, engine, history>>

-----------------------------------------------------------------------------
\* A step of a thread that is in the middle of something.
Step(t) ==
    \/ UseMicrophone(t) \/ UseSyntheticPcm(t) \/ SwitchMicrophone(t)
    \/ StartThread(t) \/ StopThread(t) \/ JoinThread(t) \/ ThreadStopped(t)
    \/ ClearSyntheticAudio(t) \/ StopRecording(t)
    \/ StopSource(t) \/ JoinDecoder(t)
    \/ CreateSource(t) \/ CreateFails(t)

CloserStep(t) ==
    Step(t) \/ StopCurrent(t) \/ RemoveSenders(t) \/ CloseConnection(t) \/ Release(t)

IoStep == CloserStep("io") \/ Attach
TimerStep == CloserStep("timer")
UiStep == Step("ui") \/ SetTrack \/ Swap \/ SwitchReturns
Decode(f) == Step(f) \/ Read(f) \/ Push(f) \/ Wait(f)

Next ==
    \/ AddTracks \/ Close \/ IoStep
    \/ OnCallTimeout \/ TimerStep
    \/ \E k \in Kinds : SetLocalVideoSource(k)
    \/ UiStep
    \/ \E f \in Files : Decode(f)
    \/ SyntheticLoop
    \/ StartRecording

Spec == Init /\ [][Next]_vars

\* The threads run; users, networks and WebRTC need not do anything.
Fairness ==
    /\ WF_vars(IoStep) /\ WF_vars(TimerStep) /\ WF_vars(UiStep)
    /\ WF_vars(SyntheticLoop)
    /\ \A f \in Files : WF_vars(Decode(f))

FairSpec == Spec /\ Fairness

-----------------------------------------------------------------------------
(* Properties. *)

Quiet == \A t \in Control : ~Busy(t)

(* When a call is over, nobody records: the microphone is off, the         *)
(* synthetic thread has ended, no file is being decoded and the pipeline   *)
(* says inactive.  Unless two control threads were in the engine at once,  *)
(* or a source was given up while its decoder was taking the input over:   *)
(* StopRecording stops only what the mode of the moment names, and         *)
(* UseSyntheticPcm starts its thread without looking at the mode again.    *)
MediaEndsWithCall ==
    (~pc /\ Quiet) =>
        \/ overlap \/ stray
        \/ ~live /\ ~alive /\ ~active /\ (\A f \in Files : ~Busy(f))

(* In a call the sound comes with the picture: from the microphone with    *)
(* the camera and from the file with a file, once its decoder has started; *)
(* the same two races excepted.                                            *)
AudioFollowsSource ==
    (pc /\ sender /\ Quiet /\ Taking = {}) =>
        \/ overlap \/ stray
        \/ (mode = "synthetic") = (source \in Files)

(* Only two of the user interface, I/O and request timer threads in the    *)
(* engine at once (a switch or the timeout of a call request beside        *)
(* another operation) can join the synthetic thread twice, start it over   *)
(* one that was not joined, or find video_sender_ or peer_connection_      *)
(* gone: a decoder that takes the audio input over late does not.          *)
UndefinedOnlyByOverlap == broken => overlap

(* The decoder waits early enough for the cap of the buffer never to drop  *)
(* sound, also while two files overlap in a switch.                        *)
BufferNeverFills == samples < Cap

(* AddTracks and ClosePeerConnection return, although they join the        *)
(* decoder, which may be waiting for room in the buffer, and the synthetic *)
(* thread, which a decoder may be starting.                                *)
HangUpReturns == \A t \in Closers : Busy(t) ~> (~Busy(t) \/ overlap)
=============================================================================
