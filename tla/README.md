# A TLA+ model of the WebRTC peer connection client

This directory holds TLA+ modules for the call client (C++, `src/`, `include/`) and
its signaling server (Go, `webrtc-signaling-server/`), TLC configurations that
model-check them on small instances, and TLAPS proofs of the safety results: every invariant
and safety action property that a run finds to hold is also proved. `PROJECT.json` lists components, runs, hazards, findings and
theorems, and maps every definition to the lines it models.

Paths below are relative to the repository.

## 1. The system

### Components, state, operations

| component | source | state | operations |
|---|---|---|---|
| Call manager | `src/callmanager.cc` | `call_state_`, `current_peer_`, `current_call_id_`, `is_caller_`, observer, request timer thread and `timer_generation_`, all but the thread under `mutex_` | InitiateCall, CancelCall, AcceptCall, RejectCall, EndCall, HandleCallRequest / Response / Cancel / End, NotifyPeerConnectionEstablished, OnCallRequestTimeout, CleanupCall |
| Call coordinator | `src/call_coordinator.cc`, `src/call_coordinator_ports.cc` | `current_peer_id_`, `client_id_`, `shutdown_started_`, media choices, rate sample | the user interface's requests, callbacks of manager, engine and signaling client, Shutdown |
| ICE disconnect watchdog | `src/ice_disconnect_watchdog.cc` | mutex, generation, one thread with a stop token | Arm, Disarm |
| WebRTC engine | `src/webrtcengine*.cc` | factory, peer connection, callback guard, pending ICE candidates, tracks | Initialize, CreatePeerConnection, Close, AddTracks, CreateOffer / Answer, SetRemoteOffer / Answer, AddIceCandidate, switching sources, statistics |
| Signaling client | `src/signalclient.cc` | websocket, write queue, reconnect timer and attempt count | Connect, Disconnect, send, read loop, reconnect |
| Codec, dispatcher | `src/signaling_codec.cc`, `src/signal_message_dispatcher.cc` | none | build, parse and route messages |
| Signaling server | `webrtc-signaling-server/main.go` | `clients`, `clientGenerations`, `pendingOfflineJobs` under one mutex; per client a bounded send channel | HandleConnection, readPump, writePump, removeClient, confirmOffline, notifyUserOffline, sendClientList, broadcastClientList, relayMessage |
| Media pipeline | `src/webrtcengine_media_pipeline.cc`, `src/webrtcengine_telemetry.cc` | source, tracks, senders and the chosen configuration, only the last under a mutex | AddTracks, SetLocalVideoSource, PublishRemoteTracks, CollectStats |
| File source | `src/ffmpeg_file_source.cc` | a decoder thread and `running_` | Create, Start, Stop, DecodeLoop |
| Switchable audio input | `src/switchable_audio_input_win.cc` | mode, buffer and synthetic thread under `mutex_` | UseMicrophone, UseSyntheticPcm, PushSyntheticAudio, ClearSyntheticAudio, StartRecording, StopRecording, SyntheticLoop |
| Video renderer | `src/videorenderer.cc` | latest frame and track under `mutex_` | SetVideoTrack, Stop, Clear, OnFrame, ConsumeLatestFrame |
| User interface | `src/sdl_app.cc`, `src/main.cc` | textures, dialogs, log | draws frames and statistics, calls the coordinator |

### Interaction

The user interface thread, WebRTC's signaling thread and the watchdog thread post
tasks to the signaling I/O thread (`PostToCallControl`), which also handles every
message from the server; it is therefore the one thread that calls the call manager's
public methods. The manager's request timer is a thread of its own that calls back
into the manager and, through it, the coordinator. The manager releases its mutex
before it notifies the coordinator. The coordinator answers by creating or closing the
engine's peer connection and by arming or disarming the watchdog. The server relays
call, offer, answer and candidate messages between users, announces who is online, and
after a grace period of some seconds who has gone.

Media has threads of its own. `AddTracks` and `ClosePeerConnection` run on the I/O thread,
`ClosePeerConnection` also on the thread of the request timer (`OnCallTimeout`), where it finds
a connection if an answer came while the timer expired, and
`SetLocalVideoSource` and `CollectStats` on the user interface thread; remote tracks and
statistics arrive on WebRTC's signaling thread, frames on the thread of a broadcaster, and a
file source and the audio input each have a thread.

### What is hard

* **Lock gaps.** The manager tests under its mutex, releases it, and cleans up later;
  the server releases its mutex in the middle of `HandleConnection` and between
  deciding on and sending a broadcast.
* **Timers against late answers.** The request timer, the watchdog and the offline job
  are cancelled by a generation number that is compared only before the callback runs.
* **Joins.** `StartCallRequestTimer`, `Arm` and `Disarm` wait for a thread that may be
  inside the code that waits.
* **Events without identifiers.** ICE states and watchdog hangups are posted without the
  call they belong to.
* **Two threads in the engine.** WebRTC's thread runs callbacks on state the I/O thread
  changes; a guard that is asked once, and the fact that calls into the peer connection
  wait for WebRTC's thread, are all that separates them.
* **Handlers without a transport.** The handlers of the websocket client act on whatever
  websocket and timer exist when they run.
* **Two locks in two orders.** `VideoRenderer` calls `RemoveSink` under its mutex, and the
  broadcaster calls `OnFrame` under its own.
* **Switching a source beside a call.** The engine's members have no lock, and a decoder takes
  the audio input over whenever it is scheduled.
* **Late, repeated, lost messages.** Several call identifiers of earlier calls may be
  on their way; full buffers and absent users lose messages silently.

`PROJECT.json` lists each of these at its line under `hazards`.

### What makes each component correct

* *Call manager*: one session at a time, which keeps its peer, identifier and direction
  until it ends (`ImplementsLifecycle`); the peer connection and the coordinator's peer
  belong to that session (`SessionOwnsPeerConnection`); an idle manager remembers
  nothing (`IdleIsClear`); a session that is ending has someone to end it
  (`EndingHasOwner`); dialling ends (`CallingHasTimer`, `CallingEnds`); no method waits
  for ever (`MethodsReturn`).
* *Watchdog*: no thread outlives its disarming or its call (`NoOrphanWatchdog`,
  `WatchdogWatchesCall`); events act on their own call (`EventsActOnOwnCall`); a call
  whose connection stays bad ends (`UnstableCallEnds`); nobody waits for ever
  (`NobodyWaitsForever`).
* *Server*: the newest login speaks for the user (`NewestSpeaksForUser`), a departure is
  noticed (`DepartureIsNoticed`), client lists are current (`ListIsCurrent`).
* *Engine and coordinator*: what a connection sends goes out under the identifier and to
  the peer of its own call (`SentForOwnCall`); a callback finds its connection
  (`CallbackFindsConnection`); candidates reach their call and no other
  (`CandidatesAreApplied`, `CandidatesStayInTheirCall`); offers are answered
  (`OfferIsAnswered`).
* *Signaling client*: handlers find the transport they were made for
  (`HandlersFindTheirTransport`); a lost connection is noticed and retried
  (`ConnectedIsWatched`, `KeepsTrying`); sending goes on (`SendingGoesOn`); a connection
  that works is kept (`WorkingConnectionIsKept`); a disconnect is final
  (`DisconnectIsFinal`).
* *Call protocol*, manager to manager through codec, client and relay: nobody is left in a
  call without the peer (`NobodyIsStranded`, `HalfCallEnds`).
* *Local media*: the end of a call ends recording and decoding (`MediaEndsWithCall`), sound and
  picture have the same source (`AudioFollowsSource`), thread handles are used properly
  (`UndefinedOnlyByOverlap`), no sound is dropped (`BufferNeverFills`), and nobody waits for
  ever for a thread to end (`HangUpReturns`).
* *View of a call*: the picture of an ended call goes and does not come back
  (`StaleVideoIsCleared`), a hang-up is not held up by the renderer (`StopReturns`), and the bit
  rate is that of the connection (`RateSettles`).

## 2. Modules

| module | models | state and actions |
|---|---|---|
| `CallLifecycle` | the promise of a call manager, abstractly | phase, peer, call, caller; Begin, Advance, Finish |
| `CallManager` | `callmanager.cc`, and what the coordinator's callbacks do to the peer connection and `current_peer_id_` | one action per stretch between two uses of the mutex; `at[t]` is the label an API thread has reached, `loc[t]` the copies it took under the mutex; `timer_*` is the timer thread |
| `MCCallManager` | instances | |
| `CallManagerProofs` | proofs | |
| `IceWatchdog` | `ice_disconnect_watchdog.cc` and the parts of `call_coordinator.cc` that drive it: posting, ICE states, Shutdown | the I/O thread runs a task as a sequence of steps; the mutex, the watchdog thread and the thread running Shutdown are explicit |
| `IceWatchdogProofs` | proofs | |
| `SignalingServer` | presence in `main.go` | one action per critical section of the server's mutex; `st`, `reader` and `job` are the goroutines of a connection |
| `MCSignalingServer` | instance | |
| `ClientLists` | client lists in `main.go`, on top of `SignalingServer` | the state and actions of `SignalingServer` and, for the lists, `list[g]`, the list a goroutine has taken under one lock and will send under another; `errand` and `welcome` are what the goroutines of a connection are doing about a list |
| `MCClientLists` | instance | |
| `ServerProofs` | proofs about `SignalingServer` and `ClientLists` | |
| `SignalClient` | `signalclient.cc` | `queue` is the queue of the `io_context`: commands of other threads and handlers that are due; `pending` and `armed` are what is outstanding on the transport; one action per task or handler |
| `SignalClientProofs` | proofs | |
| `Negotiation` | `webrtcengine_peer_connection.cc` and its use by `call_coordinator.cc` | `io` is the step of the I/O thread, `cb` the callback WebRTC's thread is in, `ops` the operations it has not completed; calls are numbered, and `pc` and `guard` carry the number of their call |
| `MCNegotiation` | instance | |
| `NegotiationProofs` | proofs | |
| `CallProtocol` | two or more clients and the relay: `callmanager.cc` with one step per handler, the call messages of `signaling_codec.cc`, `signal_message_dispatcher.cc`, the sending and receiving of `signalclient.cc`, `OnUserOffline`, and `relayMessage`, `trySend`, `notifyUserOffline` of `main.go` | `user[u]` is the session of a client, `up[u]` and `down[u]` the messages between it and the server, `grace` the departures still to be announced |
| `MCCallProtocol` | instance | |
| `CallProtocolProofs` | proofs | |
| `LocalMedia` | `AddTracks`, `SetLocalVideoSource` and `ClosePeerConnection` of the engine, `ffmpeg_file_source.cc`, `switchable_audio_input_win.cc` | `todo[t]` is what the I/O thread, the user interface thread, the thread of the request timer or a decoder has still to do, one critical section or one access to an unprotected member per step |
| `MCLocalMedia` | instance | |
| `LocalMediaProofs` | proofs | |
| `CallView` | `videorenderer.cc`, publishing of remote tracks, the textures of `sdl_app.cc`, the bit rate in `call_coordinator.cc` | `pc` is where the I/O and the signaling thread are; `mutex` has an owner only while that owner waits in `RemoveSink`, `casting` is the broadcaster inside `OnFrame` |
| `CallViewProofs` | proofs | |

The modules overlap where components meet, each with the detail its properties need: a hang-up
is in `CallManager` with the threads of the manager, in `Negotiation` with the callback guard,
in `LocalMedia` with the sources, in `CallView` with the renderer and in `CallProtocol` with the
message it sends.

`CallManager` instantiates `CallLifecycle` with a refinement mapping: the phase is
`call_state`, and peer, identifier and direction count from the moment the state leaves
Idle (`InitiateCall` stores them one critical section earlier).

`ClientLists` extends `SignalingServer`: each of its actions is an action of that module together
with what it does about the lists, or leaves that module's variables alone and takes or sends a
list. `ListsSpec` therefore implements `Spec` of `SignalingServer` with the same variables
(theorem `ListsImplementPresence`), and the two cannot disagree about the map of clients.

Simplifications that hold throughout:

* A call identifier is a number for this client's calls and a model value for others'.
  `GenerateCallId` joins a clock reading and a process-wide counter; distinct numbers stand for that.
* Generations of timers are kept as one bit, "equal to the current generation": the code
  only ever compares for equality, and a thread holds the generation it was given.
  Server generations, which are reset and reused, are kept as numbers.
* Outside `CallProtocol` sending a message changes none of the modelled state, so it has no
  action of its own.
* In `CallProtocol` a message is a record that may lack any key, and parsing gives the missing
  ones the defaults of the codec. Media works when both clients are in the call (`Media`).
* In `LocalMedia` sound comes in chunks. A second thread that joins a thread that is being
  joined, a thread object that is assigned to before it was joined, and a sender or a
  connection that is gone set `broken`. `OnCallTimeout` may close at any time, also while no
  answer was late. `AddTracks` is also called before an answer is created, on WebRTC's thread;
  that call finds both senders attached and returns, and has no action.
* In `CallView` a connection, its guard and its remote video track share a number. The byte
  counters are unsigned, modulo `Wrap`.
* A wait that polls a deadline and a stop token is one step that may be taken at any
  time after it began.
* A call into the peer connection from the I/O thread is executed on WebRTC's thread, between
  two callbacks (`Hop` in `Negotiation`): that is how WebRTC's proxies work, and the close of
  a connection relies on it.
* The peer connection is external. It may complete or fail any operation at any time, and
  refuse a candidate until both descriptions are set (`Takes`); the websocket is external
  too, and any operation on it may fail.
* Using a websocket that is gone, or starting a second read or write on one, is undefined: it
  sets `ub` and nothing follows. Pushing to the unlocked candidate queue while a callback
  walks through it may lose the candidate.
* `raced`, `contended`, `spoiled`, `seen`, `wd_call`, `overtaken`, `stray`, `spent`, `failed`,
  `accepted`, `missed`, `broken`, `lost`, `timedout`, `overlap`, `late`, `misled` and the call numbers on
  tasks are history: no action reads them except to update them. They let a property say under
  which circumstances it holds, or which call an event was made for.

The definitions with a name `X_Something` under a comment that starts with `Mutant:` are
deliberately wrong versions of `X`, one for each property, under which TLC finds that
property violated. They are not part of any specification.

## 3. Runs

| run | configuration | checks | result |
|---|---|---|---|
| `call_io` | one API thread, 3 outgoing calls, 2 peers, 1 foreign identifier; fair | `TypeOK`, `SessionOwnsPeerConnection`, `ImplementsLifecycle`, `CallingEnds`, `MethodsReturn` | holds, 29 000 states |
| `call_two_threads` | two API threads, one of which dials, 2 outgoing calls | `IdleIsClear`, `EndingHasOwner`, `CallingHasTimer` | holds, 1.35 million states |
| `call_late_answer` | one API thread, 1 call | `TimedOutCallStaysDead` | violated, finding |
| `watchdog` | 2 calls, 2 queued tasks; fair | `TypeOK`, `NoOrphanWatchdog`, `WatchdogWatchesCall`, `EventsActOnOwnCall`, `UnstableCallEnds`, `NobodyWaitsForever` | holds, 199 000 states |
| `watchdog_recovered` | 1 call | `RecoveredCallSurvives` | violated, finding |
| `presence` | one user, 3 logins; fair | `TypeOK`, `NewestSpeaksForUser`, `DepartureIsNoticed` | holds, 56 000 states |
| `client_lists` | alice twice, bob once | `ListIsCurrent` | holds, 1.28 million states under a view |
| `signal_client` | 5 attempts as in the code, 2 posted tasks, 2 queued messages; fair | `HandlersFindTheirTransport`, `ConnectedIsWatched`, `KeepsTrying`, `SendingGoesOn`, `WorkingConnectionIsKept`, `DisconnectIsFinal` | holds, 475 000 states |
| `negotiation` | 2 calls, 2 peers, 1 candidate per call; fair | `TypeOK`, `SentForOwnCall`, `CallbackFindsConnection`, `CandidatesStayInTheirCall`, `CandidatesAreApplied`, `OfferIsAnswered` | holds, 181 000 states |
| `call_protocol` | 2 users, one of whose connections breaks, 2 calls, channels of 2; fair | `NobodyIsStranded`, `HalfCallEnds` | holds, 99 000 states |
| `local_media` | camera and 2 files; fair | `MediaEndsWithCall`, `AudioFollowsSource`, `UndefinedOnlyByOverlap`, `BufferNeverFills`, `HangUpReturns` | holds, 450 000 states |
| `call_view` | 2 connections, 2 bytes each, 1 outstanding report, counters modulo 8; fair | `StaleVideoIsCleared`, `RateSettles`, `StopReturns` | holds, 600 000 states |

### Findings

1. **An answer revives a timed-out call for a moment** (`call_late_answer`). The timeout
   reports before it cleans up, with the state still Calling. An accepting answer in
   between creates a peer connection for a session that is wiped right after, and the
   manager is idle with a connection in the engine; the next call then keeps the old
   connection (`CreatePeerConnection` is skipped) and sends no offer.
2. **A recovered call is hung up** (`watchdog_recovered`). A watchdog past its generation
   check posts the hangup while the I/O thread waits for it in `Disarm`; the posted task
   tests only for Connected.

The properties of the passing runs name the circumstances under which they do not hold. These
are behaviours of the code, too:

* **Stranded in a call** (`lost`, `timedout` in `CallProtocol`). Nothing is acknowledged or
  repeated. When the caller times out, or a call-end is lost with a broken connection or to a
  full channel, a callee that rings or has accepted stays so: Receiving and Connecting have no
  timeout, and `OnUserOffline` helps only in Connecting. A call that is Connected is ended by
  the watchdog, whatever was lost.
* **The lock inversion of the renderer** (`LockOrderInverted` in `CallView`): a hang-up that
  waits in `RemoveSink` while a frame is being delivered waits for ever, and with it the thread
  of the broadcaster and the render loop. It is reachable in the first call.
* **A track published during a hang-up** (`late` in `CallView`). The renderer is stopped before
  the callback guard is reset; a track published in between leaves its last frame on the screen
  until the next call or hang-up.
* **The first bit rate of a second call** is the difference to the counters of the first one,
  which wraps; `delta >= 0.0` does not catch it because the difference is unsigned.
* **Two control threads in the engine** (`overlap` in `LocalMedia`): a switch of the source on the
  user interface thread, `AddTracks` or a hang-up on the I/O thread, and the timeout of a call
  request on the timer's thread. Two of them at once can use a sender or a connection that is
  gone, or join the synthetic thread twice.
* **A decoder that is late** (`stray` in `LocalMedia`). A file that is replaced by the camera, or
  given up, while its decoder is about to take the audio input over leaves the input synthetic
  with the camera on, or a thread or microphone that the end of the call does not stop.
* A candidate that is refused on the I/O thread just before the last retry is queued behind it,
  and stays in the queue (`missed` in `Negotiation`).
* The offline broadcast of the server is sent after the mutex that protected its check was
  released, so that a user who is back may be announced as gone (`Reconnect` in `CallProtocol`
  leaves such an announcement under way).
* On two threads, `HandleCallEnd` and `EndCall` can both close the peer connection. In the
  application both run on the I/O thread.
* In `HandleConnection` of the server an older login that has released the mutex overwrites a
  newer one in the map (`contended` in `SignalingServer`).
* Generations of the server are reused (`contended`, too). `confirmOffline` deletes the
  generation of a user who is gone, the next login starts at 1 again, and an offline job that
  has waited for the mutex for longer than its grace period can then take the generation of a
  later login for its own and forget a user who is logging in. It takes five connections, more
  than the run has; the attempt to prove `NewestSpeaksForUser` showed it.
* A posted acceptance carries no identifier (`misled` in `IceWatchdog`): if the call it was
  meant for ends first, it accepts the one that is pending when it runs, and the ICE reports of
  the earlier connection that are still queued behind it then act on the new call. It takes a
  longer queue than the run has; the attempt to prove `EventsActOnOwnCall` showed it.
* A handler that is already queued with success when `CloseTransport` runs uses the websocket
  that is gone, or reconnects after a manual disconnect (`overtaken` in `SignalClient`).
* The aborted operations of a replaced transport, and a message sent before the handshake, arm
  the reconnect timer of the new transport, which later tears down a connection that works and
  in doing so aborts its read, which arms the timer again (`stray`). If the attempts are used
  up instead, the early message stays at the front of the write queue and nothing is sent on
  that connection (`spent`).

### Bounds

* *Three outgoing calls on one thread*: the call that times out, the one dialled while
  the first timer is still alive, and one after it. A second peer and one foreign
  identifier make a message wrong in either field; the foreign identifier can be used
  again and again, as it would be by a peer that repeats a request.
* *Two outgoing calls on two threads*: enough for a method of the first call to be
  overtaken by the second. Only one thread dials, because `InitiateCall` replaces the
  timer thread without a lock.
* *Two calls and a queue of two in the watchdog*: a stale event of the first call with
  the second one running, and an event that overtakes nothing because the queue is in
  order. The bound limits what comes from outside; the watchdog's own post is not
  limited.
* *Three logins of one user*: the one replaced, the one in the gap and the one that comes
  in between. Users do not interact in this module.
* *Client lists*: a user who is replaced and a bystander. `ListIsCurrent` claims nothing
  after the first list that overlaps another or is lost; `CalmSpec` cuts behaviours there.
  The two connections of alice are interchangeable, hence the symmetry; the run checks
  an invariant only. It has a VIEW (`ListView`) that leaves out generations, offline jobs and
  `doomed`, and the list last sent to a connection that is closed. Nothing in the view depends
  on them: generations and jobs only decide what is announced, `WriteFails` may close every
  connection that `CloseReplaced` closes, and a closed connection is sent nothing and is not
  in the map when everything is settled (`MapInv` of `ServerProofs`). The presence run visits
  what the view leaves out.
* *Signaling client*: two posted tasks let a Connect or Disconnect and a message wait together
  behind a handler; two queued messages make the write queue continue. The properties claim
  nothing once a success was overtaken, and `CalmSpec` ends behaviours there.
* *Negotiation*: two calls, so that what is left of the first meets the second; two peers, so
  that sending to the wrong one shows; one candidate per call, which can arrive at every
  moment of the negotiation. Each message arrives at most once, in any order.
* *Call protocol*: a call and a later one that meets what is left of it; channels of two, which
  a call-request and a call-end fill. One user's connection breaks, any number of times. Beyond
  the run, the invariant was checked with 3 calls and channels of 3 (9.1 million states), and
  both properties with both connections breaking (454 000 states).
* *Local media*: two files, so that a file replaces another one whose decoder still runs. The
  buffer holds four chunks and decoders wait above one, in the code 4 s and 2 s; a chunk is
  assumed to be small against the difference (`BufferAssumption`). `OneRace` follows two
  control threads while both are at work and the third is not, and does not go on after that or
  after undefined behaviour: the properties claim nothing there, and what memory holds then is unknown.
* *View*: two connections, so that counters and frames of the first meet the second. Two bytes
  are enough for the difference to wrap. With two outstanding reports there are 1.3 million
  states and the properties hold as well.
* Deadlock is not checked where a behaviour may end: `CallView` contains the lock inversion, and
  its connections are numbered. A client that was disconnected or has
  given up, and an instance of `Negotiation` whose calls are over, have nothing left to do; in
  the server runs an instance has finitely many connections,
  each made once, and ends when all are gone. All other runs check it.

### Fairness

Threads that are inside a method go on, and timers' clocks advance: `std::jthread`s that
wait on a clock wake up, the I/O thread runs posted tasks, a `Shutdown` in progress
continues, the goroutines of the server are scheduled, and a read from a closed websocket
returns. In `SignalClient` the steps of establishing a connection end, because the code sets
time limits for them (`expires_after`, the suggested websocket timeouts); reads and writes need
not end. In `Negotiation` WebRTC completes its operations: strong fairness, because callbacks
for gathered candidates may come between, and its queue is first in, first out. In `CallProtocol` messages that were not lost arrive and timers
expire, but connections need not come back. In `LocalMedia` and `CallView` threads that have
begun something go on, the request timer's thread in the middle of `OnCallTimeout` too, and strong fairness of the hang-up in `CallView` says that the I/O thread
gets a mutex that is free again and again. Nothing is assumed of users, peers or the network: calls need not be answered,
ICE need not recover, users need not come back.

## 4. Proofs

Eight modules hold proofs, each about the module or modules it extends. They hold for every value of the
constants; what is assumed of these is named in the module that declares them and evaluated
by TLC in every run. No property is inductive as it stands. Each `Proofs` module begins with the
parts of its inductive invariant, then proves lemmas that have one step per action, and ends with
the theorems. All obligations are discharged by the SMT backend, Zenon and, for the temporal
steps, LS4. The invariants were checked with TLC before they were proved.

| module | theorem | states | for any |
|---|---|---|---|
| `CallManagerProofs` | `TypeCorrect` | `TypeOK` | threads, peers, identifiers, calls |
| | `SessionOwnership` | `SessionOwnsPeerConnection` | peers, identifiers, calls; one API thread |
| | `Refinement` | `ImplementsLifecycle` | peers, identifiers, calls; one API thread |
| | `IdleCleared`, `EndingOwned`, `CallingGuarded` | `IdleIsClear`, `EndingHasOwner`, `CallingHasTimer` | threads, peers, identifiers, calls |
| `IceWatchdogProofs` | `TypeCorrect`, `NoOrphan`, `WatchesCall` | `TypeOK`, `NoOrphanWatchdog`, `WatchdogWatchesCall` | calls, queue length |
| | `OwnCall` | `EventsActOnOwnCall`, an action property | calls, queue length |
| `NegotiationProofs` | `NegotiationTypes`, `CallbacksAreSafe`, `SendsForOwnCall`, `CandidatesSeparated`, `CandidatesDelivered` | `TypeOK`, `CallbackFindsConnection`, `SentForOwnCall`, `CandidatesStayInTheirCall`, `CandidatesAreApplied` | peers, calls, candidates |
| `ServerProofs` | `TypeCorrect`, `NewestSpeaks` | `TypeOK`, `NewestSpeaksForUser` | users, connections |
| | `ListsImplementPresence` | `ListsSpec` implements `Spec` of `SignalingServer` | users, connections |
| | `ListsAreCurrent` | `ListIsCurrent` | users, connections |
| `CallProtocolProofs` | `NobodyStranded` | `NobodyIsStranded` | users, capacity of the channels, calls |
| | `CallsArePrivate` | `Private`, of the proof module: two clients in the same call have each other as the peer | users, capacity of the channels, calls |
| `SignalClientProofs` | `HandlersAreSafe`, `ConnectionWatched`, `ClientKeepsTrying`, `MessagesGoOn` | `HandlersFindTheirTransport`, `ConnectedIsWatched`, `KeepsTrying`, `SendingGoesOn` | attempts, tasks, messages |
| | `WorkingKept` | `WorkingConnectionIsKept`, an action property | attempts, tasks, messages |
| `LocalMediaProofs` | `MediaEnds`, `AudioFollows`, `HandlesAreSafe`, `BufferHolds` | `MediaEndsWithCall`, `AudioFollowsSource`, `UndefinedOnlyByOverlap`, `BufferNeverFills` | files, limits of the buffer |
| `CallViewProofs` | `StaleVideo`, `RateIsSettled` | `StaleVideoIsCleared`, `RateSettles` | calls, reports, counters |

### Call manager

Assumptions: `ConstantsAssumption` of `CallManager` (the empty names are no peers and no
identifiers, own and foreign identifiers differ, one thread dials), and `SingleThreaded` for
`SessionOwnership` and `Refinement`, stated as their hypothesis. Without it they are false: two
threads can both end a call.

`SessionOwnsPeerConnection` speaks of moments at which no method is running; what holds in
between is in the invariant `TypeOK /\ ControlInv /\ MediaInv`:

* `ControlInv` says, per label, in which call state the thread can be (`StateAt`), that the
  copies it took still describe the session (`Named`), and what the timer may be doing then
  (`TimerAt`). The last is where the argument lies: an armed timer belongs to a session that
  is Calling or on its way out, and a timer past its check can only meet `InitiateSetState` by
  racing it, which `raced` records.
* `MediaInv` adds who holds a peer connection at each label. It needs `ControlInv` to know
  that `CreatePeerConnection` runs for the session its copies were taken from.

`NextLifecycle` shows that every step is one of the abstract life cycle or a stutter.

The other three theorems need no single thread, and hold after a race as well. `IdleIsClear` and
`EndingHasOwner` are inductive together with `GuardedInv`, which names who looks after a call that
is Calling: the timer that waits unstopped, the timer past its check, or a thread that is about
to start the timer, to report a failure or to clean up.

### Watchdog

Assumption: the bounds are natural numbers. `TypeOK` also says that a watchdog that was told to
stop is not of the current generation (`Disarm` and `Arm` advance it). A task of the I/O thread is a sequence of steps, and
`StepInv` lists the rests of it that can be left (`Rests`) and the call state each implies.
`ConnectionInv` and `WatchInv` tie the connection and the watchdog to the latest call: a watchdog
that is alive was armed for it, and it is connected unless the I/O thread is about to join the
watchdog. `QueueInv` is the argument for events without identifiers. The queue is served in
order, so behind an acceptance of the latest call there is no event of an earlier one: the
events of that one were posted before its end was handled, and the acceptance after. So when the
acceptance runs none is left, unless the call was accepted by a task of another one (`misled`).

### Negotiation

Assumption: `ConstantsAssumption` of `Negotiation`. The inductive invariant `IInv` has
five parts besides the type: where the I/O thread is in terms of the call state (`SessionInv`);
that the connection is that of the call in progress, and its guard reset before it is closed
(`ConnectionInv`); that a guard belongs to the connection of its operation and a running callback
to the current connection (`GuardInv`); and what was sent and queued (`SentInv`, `CandidateInv`).
The argument is in two steps. A callback passes the guard only while the guard is that of the
current connection, and the close waits for it, so the connection stays until the callback is
over; while there is a connection the call is not idle, and then identifier and peer are those
of the call.

`CandidatesDelivered` adds `OpenInv` (a connection lacks its guard only while it is closed) and
`DeliveryInv`: an accepted candidate was given to the connection or is queued, and once both
descriptions are set the queue is empty, the connection is being closed, or the callback of a
description is under way that will pass its guard and go through the queue (`RetryComing`).

### Server

Assumption: `ConnsAssumption` (finitely many connections, each with a user). `TypeOK` also says
that the table of offline jobs has only jobs of their own user in it, none that was stopped and
none that has gone on to its announcement: whoever stops or announces one takes it out under the
same lock. For presence,
`LoginInv` says that the logins of a user take turns, as long as none overlapped and no late
offline job met one: while one is between its two critical sections nobody is in the map and its
generation is the newest. `ReplacedInv` follows the connection it took out of the map.

Every step of `ClientLists` is one of `SignalingServer` or leaves it as it is (`StepIsPresence`),
which gives the refinement, and with it the invariant of presence, `MapInv` above all, holds for
`ListsSpec` without another proof. On top of it `ListInv` ties the lists on their way to
the goroutines that carry them, and `CurrentInv` names what can still be missing: somebody will take a list for a broadcast
(`Due`); otherwise every list on its way is that of now, and either a broadcast is being sent or
every registered client was sent the current list.

### Signaling client

Assumption: the bounds are natural numbers. The theorems are about `Spec`, of which the checked
`CalmSpec` is a part (`CalmIsSpec`). Up to the first overtaken success (`CalmInv`): a success
that waits in the queue belongs to the transport of now (`FreshInv`), one operation at a time
leads from the resolver to the next read (`ChainInv`) and one write is under way (`WriteInv`),
so no handler can find another transport or start a second operation. `CommandInv` relates the
last Connect or Disconnect, which sets `manual_disconnect_` at once and the transport only when
its task runs, to the transport. `TryingInv` and `SendingInv` are the properties without their
exceptions for states before the handshake. `StrayInv` says that a timer that no failure
called for was recorded when it was armed; `WorkingKept` follows step by step from it.

### Local media

Assumptions: `BufferAssumption` (finitely many files, and between the mark at which a decoder
waits and the cap of the buffer there is room for one chunk of each) and `NamesAssumption` (a file is
named neither like a thread nor like another kind of source). What a thread has still to do is a
sequence, as in the code a call stack, so most of the proof is about what can stand in it:

* `ShapeInv` says which steps stand only at the front, which only at the end, and which only
  behind a certain other one. From it the lemmas on sequences derive what can come after each
  step, and one lemma per step says what its thread does next (`Continues`) and that the others
  stay as they are.
* `PacedInv` needs nothing else: the buffer is at most at the mark, or has room for a chunk of
  every decoder that has not looked at it since. `BufferHolds` has therefore no exception.
* `HandleInv`, `ConnectionInv` and `DecoderInv` hold until two control threads meet in the
  engine (`overlap`). One of them is busy at a time (`Single`), so who joins the synthetic thread
  also notes its end; a source, an active pipeline or a sender belongs to a connection, or the
  I/O thread or the request timer (`Closers`) will release it (`Some`); and of every decoder one can name who will stop and who will join it.
* `SoundInv` and `ModeInv` hold up to a decoder that takes over late as well (`stray`). What
  records was requested and is in the mode of the moment, or a step that stops it is still to
  come; the mode is that of the source, or the step that switches it is still to come.

When the control threads are idle nothing is still to come, and the two properties of the
call are what is left of the invariant.

### Call protocol

Assumption: `ProtocolAssumption` of `CallProtocol`. `NobodyIsStranded` speaks of a message
somewhere on its way; the invariant `Types /\ CallInv` says which one. `CallInv` gives every call
that was ever made a caller x and a callee y (`Orderly`), with the following parts:

* `Parties`: only x and y are ever in the call, each with the other as its peer, and each only in
  the states of its side. This needs no exception for losses, and `CallsArePrivate` follows from it.
* `Envelopes`: messages of the call go between x and y only, requests from x and answers from y.
  The server fills in the sender, so the parsed `from` can be relied on.
* `Single`: there is at most one request of the call on the line from x to y. A second one
  would let y enter a call again that it has left.
* `Flow`, for a call that lost no message and did not time out: what is on its way in each
  combination of states. While the request is on its way y is not in the call and has sent
  nothing about it, and if x has left the call already, its call-end is behind the request
  (`Behind`), on the same line and in order: y will enter the call and then hear of its end. An
  acceptance is sent by a callee that is no longer ringing, a rejection by one that
  is out. And if one of the two is in the call and the other is not, one of the messages that
  settle this is on its way.

The order of messages is what makes it hold, so most of the lemmas are about lines: what appending
to a queue, taking its head, relaying and a broken connection do to `Has`, `One` and `Followed`.
A step about one call is then shown to leave the other calls as they were. A client that leaves a
call for a reason of its own (a hang-up, the watchdog, `OnUserOffline`) sends a call-end, or its
connection is gone and the call is counted as `lost`; only the timeout of the caller tells nobody.

### View

Assumption: `ViewAssumption` (a connection receives fewer bytes than the range of the counter).
From the close of the guard on no callback of the old connection touches the renderer
(`QuietInv`), a frame under way is of the current connection and track (`CastingInv`), the
renderer stays blank from Stop on, unless a track was published in between (`BlankInv`), and a
publication clears what was there (`OwnFrameInv`). `RateInv` says that from the first report on
the sample is of this connection.

### Only model-checked

Liveness, because the prover has no rule for fairness and ENABLED: `CallingEnds`,
`MethodsReturn`, `UnstableCallEnds`, `NobodyWaitsForever`, `DepartureIsNoticed`,
`DisconnectIsFinal`, `OfferIsAnswered`, `HalfCallEnds`, `HangUpReturns`, `StopReturns`. Every other
property of a passing run is stated by a theorem.

## 5. Not modelled, and why

* Layout, dialogs, the log window, argument parsing and the home page. The dialog of an incoming
  call has a gap of its own (see `hazards`), in state nothing else reads.
* What FFmpeg decodes, frame generation and capture are calls of libraries.
* `peer_connection_client.cc` is not part of the build.
* The branch of `DisarmLocked` for a watchdog that disarms itself: the timeout callback only
  posts to the I/O thread, so it is never taken while that thread runs.
* The end of the I/O thread (`StopIoThread`), the ICE server list of the signaling client, and
  `Initialize` and `Shutdown` of the engine.
* In `Negotiation`, who ends a call and why: `CallManager` does that, and `EndCall` may be taken
  at any time.
* In `CallProtocol`, offers, answers and candidates (`Negotiation`) and call-cancel, which nobody
  sends: `CancelCall` has no caller.
* In `LocalMedia`, devices, volume, sample rates and `Terminate` of the audio input, and video
  frames; in `CallView`, the local renderer, and statistics other than the bit rate.
* `peer_connection_`, read by `CollectStats` on the user interface thread while the I/O thread
  sets it to null: `CallView` takes the read as atomic.

## 6. Plan

1. The dialog of an incoming call against the state of the manager.
2. `Shutdown` of the engine and the end of the I/O thread.
