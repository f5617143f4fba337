# Verification of the GB28181 demo

TLA+ models, model-checking runs and machine-checked proofs for the Android
application in this repository: a GB/T 28181 device that registers with a SIP
server, answers its calls with a video stream, takes its voice broadcasts, plays and pushes
streams with FFmpeg, and has a second, Java SIP stack.

The repository has no README and no tests; the reference for every definition is
the code in the three Gradle modules that `settings.gradle` builds: `app`,
`liveplayer` and `anySipClient`. (`liveplayer2` and `liveplayer_source_backup`
are outside the build.) `PROJECT.json` maps each definition to the lines it
stands for.

## 1. Inventory

| component | code | state it keeps | operations | status |
|---|---|---|---|---|
| SIP session | `anySipClient/src/main/cpp/gb_lib.cpp`, `anySipClient.cpp` | `sipHolder`, `wait_count`, `keep_alive_thread`, the eXosip context, `pthread` | registerSip, unRegister, registration with retries, event loop, keep-alive, teardown and restart | `GbSession`, abstract specification `SessionOutcome`, proofs in `GbSessionProofs` |
| SIP calls | `gb_lib.cpp` | `g_call_id`, `g_did_*`, `target_id`, eXosip's FIFO | INVITE, ACK, BYE, released call, broadcast, answers | `GbCall`, proofs in `GbCallProofs` |
| SIP queries | `gb_lib.cpp`, `dt_eXosip_paraseMsgBody` | none | answers DeviceStatus, Catalog, RecordInfo, control | not modelled: formatting |
| Packet buffer | `liveplayer/.../player/FFBuffer.cpp`, `ARFFPlayer.cpp` (reading and tick threads) | four lists, `play_status_`, `b_reset_time_`, play clock, cache threshold | DoTick, DoClear, decode, receive, NeedMoreData, BufferIsEmpty, seek, pause, speed, end of file | `FFBuffer`, abstract specification `PacketQueue`, proofs in `FFBufferProofs` |
| Player's life | `ARFFPlayer.cpp` (Run), `ArLive2Player.cpp`, `ArLive2Engine.cpp` | `fmt_ctx_`, `n_reconnect_time_`, `b_re_play_`, `n_seek_to_`, `b_got_eof_`, `b_notify_closed_` | start, stop, replay, seek, open and retry, end of file, decode | `FFPlayer`, proofs in `FFPlayerProofs` |
| Pusher | `ArLive2Pusher.cpp`, `pusher/ARFFPusher.cpp`, `ArFFWriter.cpp`, `V_H264Encoder` in `codec/AvCodec.cc` | `b_live_pushed_`, `b_client_connected_`, `b_need_keyframe_`, `now_state_`, `n_next_retry_time_`, the encoder's frames | startPush, stopPush, pauseVideo, connect and retry, encode, gate, write | `FFPusher`, proofs in `FFPusherProofs`; `ARRtcPusher` is not modelled |
| App | `app/.../MainActivity.kt` | pusher and player handles | starts a stream on `onMediaControl`, plays a broadcast on `onRtmpUrl` | the two callbacks, in `GbCall` |
| Java SIP stack | `app/.../GB28181/sip/**`, `GB28181/ua/UserAgent.java`, `Receiver.java`, `tools/Timer.java` | dialogs, INVITE, BYE and ACK transactions, timers, `call_state`, `call` | call, listen, accept, hangup; every message and timeout of a call | `SipDialog`, abstract specification `CallOutcome`, proofs in `SipDialogProofs` and `UserAgentProofs`, refinement in `SipDialogRefinement` |
| Java registration and service | `RegisterAgent.java`, `MyService.java` | registration, its retries | | not modelled |
| PS multiplexer, codecs, parsers, JNI helpers, vendored libraries | `app/src/main/cpp`, `codec/`, `dev_util/`, `rtmp/`, `webrtc/` ... | | bytes in, bytes out | not modelled |

How they interact. eXosip's own thread answers the network and queues events.
One thread of the client reads them: first in the registration loop, then in the
event loop. A keep-alive thread, started by every registration, sends Keepalive
messages on the context the global `sipHolder` points to and, after too many of
them went unanswered, quits that context and *becomes* the registering thread of a
new one. The event loop does the same when any call is released. The three kinds
of thread share the globals without a lock. On the ACK of a call the client calls
the Java listener, which starts the pusher; on the answer to its own INVITE it
hands the listener an rtmp address, which the player opens. In the player one
thread reads packets from the demuxer into `FFBuffer`, and the audio device's
thread ticks the buffer and decodes from it. The engine's thread starts and stops
players and pushers: calls of other threads are invoked on it, and it runs the
pusher's connection on its tick. In the pusher the camera's thread hands frames to the
encoder's thread, which writes them through the pusher to the server, as the audio
device's thread does with sound. In the Java stack one thread receives messages, one runs
the timers, and the user's calls into the user agent; a message goes to a transaction, else
to a dialog, else to whoever listens for its method, and upwards by callbacks to `Call` and
`UserAgent`, which listens again whenever it becomes idle.

What is hard here: unsynchronised globals updated by several threads; threads that
nothing can stop (`pthread_kill(thread, 0)` sends no signal); a SipHolder that is
deleted while others use it; events read later than the state they speak of;
events thrown away by a restart or read by the wrong loop; retries without an end;
a buffer cleared by one thread while another carries packets from list to list; a
stop that waits for threads that wait for the lock of a connection; flags tested outside
the lock that guards what they speak of; connections retried for ever; answers, CANCELs,
BYEs, hangups and timers that cross.
`PROJECT.json` lists these hazards line by line with the properties that would
catch them.

What makes each part correct:

- *session*: one keep-alive thread and one reader per context; the counter counts
  unanswered Keepalives and nothing else; the stack comes down only for the reason
  it claims; the threads that leak are bounded; a lost registration is noticed; a
  registration is retried until it succeeds.
- *calls*: the ids name the call that is up; a broadcast plays its own audio;
  every INVITE is answered; one call at a time; a BYE ends the stream.
- *buffer*: order and no loss; the application knows when the player is loading;
  bounded memory; the end of a file is reached; playing starts at what was received.
- *player*: a stop returns; the application is told of every close, of nothing that is
  not so, and in order; a stream once opened is tried again; replays and seeks are heeded.
- *pusher*: nothing is used after it is deleted; the server can decode what it gets; every
  failure is followed by a connection, and the video comes back with it; a stop returns.
- *Java call*: one outcome; both ends agree on it; the user agent knows what its call is; a
  hangup ends the call; the end of a call reaches the other end.

## 2. The modules

### GbSession and SessionOutcome (`MCGbSession` adds the symmetry set)

State: the globals of `gb_lib.cpp` and `anySipClient.cpp` under their own names;
`pc`, `ctx`, `cb` and `seen` are the program counter, the context argument, the local
`callBack` and the loaded counter of each native thread; `live`, `regs` and `kas`
are eXosip's contexts and the REGISTER and Keepalive transactions in flight on
them; `bound` is the server's registration of the device. `starts`, `unregs`,
`releases` and `raced` record what has happened, for the properties.

| actions | code |
|---|---|
| `registerSip`, `unRegister` | `anySipClient.cpp` 103-168, `gb_lib.cpp` 144-153 |
| `NewHolder`, `InitContext` | `dt_eXosip_rigister`, `dt_eXosip_init` |
| `SendRegister`, `PollLoad`/`PollStore`, `RegSuccess`, `RegUnauthorized`, `RegProxyAuth`, `RegRefused`, `RegDropAnswer` | `dt_eXosip_register` |
| `EnterLoop`, `LoopTest`, `EventNone`, `LateRegister`, `MessageAnswered`/`AnswerStore`, `CallReleased` | `dt_eXosip_processEvent` |
| `QuitContext`, `DeleteHolder` | the teardown in `startKeepAlive` and in `EXOSIP_CALL_RELEASED` |
| `KaLoad`/`KaStore`, `KaSleep`, `KaSend` | `startKeepAlive`, `dt_eXosip_keepAlive` |
| `Expire` | external: the server's timer |

`wait_count++` and `wait_count--` on a plain `unsigned int` are a load and a store
modulo `Wrap`. A read of a deleted `SipHolder` is any value where the code tests it
and the old one where it follows a pointer; a call on a context that was quit has no
effect. The other outcome, an abort, ends the behaviour and reaches no new state.

A timing assumption is built into `KaSleep`: a keep-alive thread sleeps 40 seconds,
which is long enough for the thread whose registration has just succeeded to
execute the few instructions to its event loop. Without it the first answer could
be dropped by the registration loop.

`SessionOutcome` is what an undisturbed session promises the app, without threads,
contexts or the counter: it is off, registering, online with so many Keepalives
unanswered, restarting, or down. `GbSession!Abstract` instantiates it: the phase is read
off the place of the one thread that beats, registers or restarts (`Phase`), and is
"disturbed" from the moment in which the session is not its own any more (a second
start, an unRegister, a released call, an overlapping update of the counter), where
nothing is promised. `KeepsSession` is its specification; "down" is reached only by a
failed `InitContext`, and left by nothing.

### GbCall

eXosip's FIFO of events is a sequence; the server's actions (INVITE, CANCEL, ACK,
BYE, a broadcast and its answers) change the state of the call at once and append an
event, which the event loop handles later. A restart, by a released call or by the
keep-alive thread (`GiveUp`, the abstraction of the whole of `GbSession`), ends
every call, throws the queue away and leaves the globals as they are; until
`Registered`, events are dropped.

| actions | code |
|---|---|
| `OnInvite`, `OnAck`, `OnClosed`, `OnReleased` | `EXOSIP_CALL_INVITE`, `_ACK` (`dt_eXosip_paraseInviteBody`), `_CLOSED`, `_RELEASED` |
| `OnBroadcast`, `OnReplyAnswered`, `OnTalkAnswered` | Broadcast in `dt_eXosip_paraseMsgBody`; `send_broadcast_invite_to_server`; the 200 in `dt_eXosip_printEvent` |
| `GiveUp`, `DropEvent`, `Registered` | `startKeepAlive`, `dt_eXosip_register` |
| `push`, `audio` | `MainActivity.onMediaControl`, `onRtmpUrl` |

### FFBuffer and PacketQueue

One step per locked region. `tick` and `reader` are the program counters of the audio
device's thread (`RunOnce`: `DoTick`, then decoding) and of the reading thread
(`ReadThreadProcess`: seek, end of file, `NeedMoreData`, receive); `hand` are the
local lists a tick carries packets in between two locks. A packet is its number and
its dts; `dropped` records what `DoClear` deleted and `told` the last status
callback. The unit of time is the duration of a packet. `play_status_ == PS_Init;`
in `DoClear` is a comparison and so has no effect in the model either.

`PacketQueue` is what the buffer promises of a stream: one queue, received at the back, played
from the front, and cut short at an end now and then. `FFBuffer!Abstract` instantiates it with
the decode list, the tick's hands and the receive list read as one (`Pipeline`);
`KeepsQueue` is its specification.

### FFPlayer

The life of one player after another; the buffer is reduced to empty, caching or playing
(FFBuffer has the rest). `engine`, `reader` and `device` say where the engine's thread, the
reading thread and the audio device's thread are. `reader = "open"` is the time in which
`OpenFFDecode` holds `cs_ff_ctx_`, a device that is not idle holds `cs_aud_speaker_`: the
guards of `Decode` and `DetachAudSpeaker` are these two locks. A time is `"0"` (none),
`"later"` or `"due"`. `told` is the last `OnArPlyOK` or `OnArPlyClose`.

| actions | code |
|---|---|
| `startPlay`, `stopPlay`, `DetachAudSpeaker`, `StopTask`, `Joined`, `rePlay`, `seekTo` | `ArLive2Player.cpp` 74-162, `ARFFPlayer::StopTask`, the engine's detach |
| `Replay`, `Connect`, `Opened`, `OpenFails`, `OpenInterrupted`, `End` | `ARFFPlayer::Run`, `OpenFFDecode`, `CloseFFDecode`, `Timeout` |
| `Seek`, `Read`, `ReadEof`, `ReadInterrupted`, `Eof`, `EofBuffered` | `ReadThreadProcess` |
| `StartPlaying`, `TakePacket`, `Decode` | `RunOnce`, `OnBufferDecode*Data` |
| `ReconnectDue`, `DeadlineDue` | time |

### FFPusher

`engine`, `encoder`, `audio` and `camera` say where four threads are; a step ends where a
thread lets go of a lock or reads what others write without one. `lock` is `cs_ar_writer_`
held while the engine connects. The key-frame gate (`b_need_keyframe_`) is tested in
`OpenGate` and `setVideoData`, before the lock is taken, as in the code. `decodes` and
`broken` are what the server makes of the frames on this connection.

| actions | code |
|---|---|
| `startPush`, `stopPush`, `DetachAudCapture`, `deinitVideo`, `stopTask`, `pauseVideo` | `ArLive2Pusher.cpp` 310-430, 865, `ARFFPusher::stopTask` |
| `RunOnce`, `ConnectFails`, `Connected`, `RetryDue` | `ArFFWriter::RunOnce`, `OnArWriterStateChange` |
| `OnFrame`, `AddFrame`, `KeyFrameDue`, `Encode` | `ArLive2Pusher::OnFrame`, `V_H264Encoder` |
| `OpenGate`, `setVideoData`, `SetVideoEncData` | `ARFFPusher::setVideoData`, `ArFFWriter::SetVideoEncData` |
| `RecordedDataIsAvailable`, `setAudioData`, `SetAudioEncData` | the same for audio |

### SipDialog and CallOutcome

One call between two ends that both run this code (and a callee that may ring first, which
the code's own user agent does not do: `Ring` is marked external). `net` is every message
ever sent: a message may be received at any time, again, or never, so loss, repetition,
delay and reordering need no actions of their own. A dialog of the callee is a number: it
stands for the tag of its responses, and a late repetition of the INVITE may reach the next
dialog that listens, which answers with another tag. A handler of the receiving or the timer
thread is one step, from the transaction up to what `Receiver.onState` does; only
`UserAgent.hangup`, which runs on the user's thread, is three steps (`HangUpCall`,
`HangUpIdle`, `HangUpRenew`). `UserAgentAgrees` and `CalleeAgrees` relate what the two user
agents believe to what their dialogs do, except within these three steps. `armed` and `firing` separate a timer that may still be
halted from a task that has passed its test of `active`.

| actions | code |
|---|---|
| `Invite`, `Answer`, `HangUpCall`, `HangUpIdle`, `HangUpRenew` | `UserAgent.call`, `accept`, `hangup`, `listen` |
| `Provisional`, `Success`, `Failure` | `InviteTransactionClient.onReceivedMessage`, `InviteDialog.onTrans*Response`, `UserAgent.onCallAccepted`, `onCallRefused` |
| `Accept`, `Refuse`, `Cancel`, `FailureAck`, `Ack` | `InviteTransactionServer`, `InviteDialog.onReceivedMessage`, `UserAgent.onCallIncoming` |
| `Bye`, `ByeAnswered` | `InviteDialog.onReceivedMessage`, `onTransSuccessResponse` |
| `Expire`, `InviteTimeout`, `EndTimeout`, `ClearingTimeout`, `AckTimeout`, `ByeTimeout` | `Timer.onInnerTimeout` and the `onTimeout` of each transaction |

`CallOutcome` is what a call promises, with no message, timer or dialog in it: a caller that
is idle, calling, connected, failed or over, and parties that are asked, answer once, are
connected and leave. `SipDialog!Abstract` instantiates it with the mapping `Caller`,
`Callee` and `remote_tag`; `KeepsOutcome` is its specification.

## 3. Runs

| run | bounds | what it shows |
|---|---|---|
| `session_quiet` | 3 threads, 2 contexts, one registerSip, one released call, `Limit` 1 (8 in the code), `Wrap` 5; 339,575 states up to symmetry | until a released call disturbs the session: `OneKeepAlive`, `SingleDriver`, `Accounting` (the counter is exact), `KeepsSession`; and always `LeakBound` and `TypeOK` (the counter may wrap but stays in its width) |
| `session_live` | the same without a released call, `Limit` 0 | `LapseNoticed`, `RegistrationRetried` |
| `session_unregister` | the same | violation: unRegister is not final |
| `call_media` | 2 calls of 5 kinds beside a broadcast, a restart by the keep-alive thread; 1,481,318 states | `IdsExact`, `TypeOK` |
| `call_talk` | 2 broadcasts beside a call, a restart; 344,964 states | `AudioMatches`, `InviteHandled` |
| `buffer_flow` | one stream, 3 packets, leaps of 3, one input of the user | `InOrderNoLoss`, `StatusTold`, `BufferBounded`, `TypeOK` |
| `buffer_eof` | two streams of 2 packets, no input | `KeepsQueue`, `EofCloses` |
| `buffer_reset` | one stream, one input | violation: after a seek playing starts from dts 0 |
| `player` | none: the model is finite; 9,929 states | `NeverSilent`, `CloseTold`, `ToldInOrder`, `StopReturns`, `KeepsTrying`, `ReplayHeeded`, `SeekReopens`, `TypeOK` |
| `push` | broken frames counted up to 2 | `NoUseAfterFree`, `Decodable`, `Reconnects`, `VideoResumes`, `StopReturns`, `TypeOK` |
| `sip_call` | 2 dialogs of the callee, one hangup of each call; 46,581 states | `OneOutcome`, `Agreement`, `UserAgentAgrees`, `CalleeAgrees`, `KeepsOutcome`, `CallerDecides`, `EndsTogether`, `TypeOK` |
| `sip_hangup` | 1 dialog of the callee | violation: a hangup may leave the call on |

Why the bounds are enough. Three threads are the most an undisturbed session uses at a
time (the one that registers, its keep-alive thread, the old event loop); a second
context is one full restart; `Limit` only stretches the count, and the proofs hold for
every value. `Wrap` is the smallest width for which a wrapped counter differs from
every honest one. Two calls are needed for one to overlap or follow another, and a broadcast
beside them because its BYE takes the same branch as theirs. In the
buffer three packets give a start, a stall and what comes after it, and a leap of 3
is the smallest the code treats as one (more than twice a packet's duration). Two dialogs of
the callee are the least with which two of them can answer one call; the proofs are for any
number. `player` and `push` have no bound but the counter of broken frames.

Deadlock is checked in `player` and `push`. In the other runs it is not: threads end, bounds
are reached, calls are over, and a server may never call.

Fairness. `GbSession`: the operating system schedules every thread and sleeps end
(weak fairness of each thread's steps). `RegistrationRetried` also assumes that the
server does not refuse or ignore a thread's REGISTERs for ever; the code retries for
ever, so this is the weakest assumption under which it can succeed. `GbCall`: the
event loop is scheduled; nothing is assumed of the server. `FFBuffer`: both threads
are scheduled, time passes between ticks now and again, and the renderer wants more
now and again (it consumes 10 ms a callback); `EofCloses` also assumes the user does
not keep the player paused. `FFPlayer`: the three threads are scheduled, a lock is not kept
from a thread for ever, and time passes; nothing is assumed of the server, which may refuse
or never answer, but `ReplayHeeded` is conditional on its not staying silent in
`av_read_frame` for ever. `FFPusher`: the same of its four threads, the camera has frames,
the encoder's 3 seconds pass while it runs, and not every attempt to connect fails.
`SipDialog`: the receiving and the timer threads run and one of the repetitions of a message
gets through (`WF_vars(Receive)`: all messages are retransmitted until they are answered),
a ringing user answers, and a hangup that has begun goes on.

Every property of a passing run has a mutant: a plausible bug of the code, defined
beside the action it replaces as a "Faulty variant", that makes TLC find the property
violated.

## 4. Disagreements between comments and code

Shown by runs:

- `session_unregister`: `gb_lib.h:25` says `dt_eXosip_unregister` deregisters eXosip.
  It sends no REGISTER with Expires 0 and stops no thread: the registering or the
  keep-alive thread brings the stack up again.
- `buffer_reset`: `FFBuffer.cpp:74` says that the time must be reset after a clear.
  A tick that finds the lists empty uses the reset up, and, since the status stays
  Playing (`==` for `=`), playing goes on from dts 0: after a seek to minute 10 the
  player is silent for up to 10 minutes.
- `sip_hangup`: `UserAgent.java:401` says that hangup closes a pending call. When its
  CANCEL crosses the 2xx, the dialog acknowledges the answer, `onCallAccepted` finds that it
  is "NOT the current call" and returns, and the call stays on with nobody to end it.

Read in the code, where one line shows them and no run is needed:

- `gb_lib.cpp:24` says the registration id serves to refresh the registration. Nothing
  refreshes it: `eXosip_automatic_refresh` is commented out.
- `gb_lib.cpp:23` says one INVITE connection is allowed at a time. Every INVITE is
  answered 200.
- `gb_lib.cpp:516` says the play is closed on a BYE. Only the id is cleared; the pusher is
  not told.

## 5. Proofs

### GbSessionProofs

For any set of threads, any number of contexts, starts and released calls, any `Limit`
and any `Wrap > Limit + 2`:

- `TypeCorrect`: `Spec => []TypeOK`.
- `Inductive`: `Spec => []IInv`.
- `KeepAliveUnique`, `DriverUnique`, `CounterExact`: `OneKeepAlive`, `SingleDriver`,
  `Accounting`.
- `GiveUpOnlyJustified`: what `KeepsSession` says of giving up, in the terms of the threads
  (`GiveUpJustified`, an action property).
- `LeakBounded`: `LeakBound`.
- `SessionKept`: `Spec => KeepsSession`, that is, `GbSession` implements `SessionOutcome`.

None of the three invariants is inductive. The strengthening describes the *spine* of
an undisturbed session: at each moment exactly one thread registers, beats or restarts
(`SendingInv`, `BetweenInv`, `BeatingInv` and the other parts of `IInv` speak of the
phases in its life). It says which context that thread owns, that no other context is
live, that a thread left over from an earlier context holds a dead one, and what the
counter is at each point of the cycle: the polls so far while registering; the unanswered
Keepalives, plus one while a message is about to leave. An answer that is loaded and not yet
stored counts as pending; since an overlapping update sets `raced`, nobody else
stores in between. Each action has a lemma `<Action>Keeps`; `IInvStep` combines them.

`LeakBounded` holds of every behaviour, disturbed or not, and needs no more than types
and the finiteness of `Thread`: a thread enters the set only with a new start or a
released call, or in exchange for the thread that registers (which leaves for its
event loop in the same step); `SpinesFinite` and `LeakStep` do the counting.

`SessionKept` rests on `IInv` again: since there is one spine, its place alone gives the
phase (`PhaseBySpine`), so that a step of any other thread, or of the spine within a phase,
is silent unless it changes the count (`SilentMaps`), and a step of the spine between two
phases is one that `SessionOutcome` allows (`MovesOn`). The counter enters at two places: the
keep-alive thread gives up at exactly `Limit + 1` because `wait_count` is then the number
of unanswered Keepalives, and an answer counts when it is stored, not when it is loaded. A
session that is not quiet was quiet until one step of its past (`QuietPast`), and maps to
"disturbed".

Assumptions used: `ThreadAssumption`, `CounterAssumption`, `BoundAssumption` of
`GbSession`, which TLC evaluates in every run.

### FFBufferProofs

| Theorem | What it establishes |
|---|---|
| `TypeCorrect` | types, among them `n_cache_to_play_time_ \in MinCache..MaxCache`; `OpenFFDecode` seeks to a position |
| `ToldOfStalls` | `StatusTold` |
| `ReadAheadBounded` | `BufferBounded` |
| `NoPacketLost` | `InOrderNoLoss` |
| `QueueKept` | `KeepsQueue`: `FFBuffer` implements `PacketQueue` |

- `TypeOK` needs `SeekInv`: a reader on its way to open the file again has been asked for
  a seek, so `n_seek_to_ - 1` is a position.
- `StatusTold` speaks of the moments between ticks; `StatusInv`, which holds at every
  step, is inductive by itself.
- `BufferBounded` needs `AheadInv`: the list of a stream is sorted by dts (taking packets
  from its head only shortens it, `RestKeeps`), ends at the demuxer's position except
  between a seek and the clear that follows it, and holds at most `CacheingTime` of each
  stream when a read begins (`AppendKeeps` adds the one packet).
- `InOrderNoLoss` needs `FlowInv`: the three lists of a stream, read as one, are increasing
  for all pairs and not only for neighbours (the prover cannot do that induction), what was
  dropped lies below what was received, and the tick holds packets only between taking and
  pushing (`HandInv`). The lemmas `TakeFacts` to
  `ElseFacts` reduce each step to a change at an end of the whole.
- `QueueKept` uses the same lemmas: what neither receives, plays nor cuts leaves every
  queue as it is (`QueueStays`); a cut between two parts is a cut at an index (`CutFacts`).
  Of the invariant it needs only `HandInv`: a tick that took packets while it still held
  some would lose them.

`DueCount` is the size of the set of due prefixes, not a recursion: the proofs need only
its range. Assumptions used: `SourceAssumption`, `CacheAssumption`, `BoundAssumption` of
`FFBuffer`, which TLC evaluates in every run.

### GbCallProofs

For any number of calls, broadcasts and restarts: `TypeCorrect`, `IdsExactAlways`,
`AudioMatchesAlways`. Both properties speak of what the event loop has handled, so the
strengthening `IInv` speaks of what it has still to handle:

- `Offline`: while a thread registers no call is answered and no ACK or CLOSED waits.
- `CallInv`, under `Serial`: no two calls are up (`Alone`); a BYE event waits only for a
  call that is over (`Closes`); a waiting ACK is of a call that is up or whose BYE waits
  behind it, and the BYE of the call that is still named waits in front of it (`Acks`); a
  call that is up and whose ACK has been handled is named by `g_call_id` and by the dialog id
  of its session name (`Named`); what is named is up or its BYE waits (`Current`); the
  dialog ids agree with the call id and the session name (`Dids`).
- `TalkEvents`: a waiting event of a broadcast is the only one of its type, and the broadcast
  is where the event left it.
- `TalkInv`, unless `crossed`: one broadcast at a time is in progress, `target_id` is its
  own from the reply on, and the two halves of the audio address agree. `crossed` is set
  when the server starts a second broadcast while one is in progress.

### FFPlayerProofs and FFPusherProofs

`TypeCorrect` of `FFPlayer` includes that the reading thread does not outlive the player; its
strengthening `TypeInv` adds that the device's thread is in the player only while the player
is attached. `NeverSilentAlways` needs `ReaderInv`: while the reading thread reads, or is at
the end of the file, there is a connection, and while it opens one there is none, and the
next attempt is scheduled unless the `CloseToldAlways` needs that a player that nobody joins runs and
has its reading thread. `ToldInOrderAlways` (the action property `ToldInOrder`) needs
`StoryInv`, which ties the two flags to what was told: `b_open_stream_success_` is set exactly
when the story has begun to play, a connection is had only then, and what ended has set
`b_notify_closed_`.

`NoUseAfterFreeAlways` of `FFPusher` needs `AliveInv`, which says what `stopPush` has waited for
at each of its places: it detaches from the audio device before it frees the encoder, and
joins the encoder's thread before it deletes the pusher. `DecodableAlways` needs `GateInv`:
while the gate is open and the pusher connected, the server can decode the next frame or a key
frame is in the encoder's hands; and a frame that slipped through a gate that has
closed since is the first broken one of its connection.

### SipDialogProofs

For any number of dialogs of the callee: `TypeCorrect`, `OneOutcomeAlways`, `AgreementAlways`.
The parts of `IInv`:

- `Newest`: the callee has one call at a time, of its newest dialog; those after it are
  in their initial state.
- `Client`: until the INVITE is answered or given up its transaction is pending and nothing was
  told; from then on there is one outcome.
- `Answers`: by its status, what a dialog has answered; never both a 2xx and a refusal.
- `Completes`: a transaction that waits for an ACK has sent a failure.
- `Begun`: before the INVITE nothing is on its way.
- `Held`: the caller is in a call only after a dialog has accepted.

### UserAgentProofs

For any number of dialogs of the callee: `UserAgentAgreesAlways`, `CalleeAgreesAlways`. The
invariant `UserInv` follows the user's thread through the three steps of a hangup against
every callback. It EXTENDS `SipDialogProofs`.

- `CallerHolds`: the caller is idle while it still holds its call only between
  `HangUpIdle` and `HangUpRenew`; outside hangup it waits for the answer or is in the call.
- `Unused`: the dialogs after the callee's newest have taken nothing and were not hung up.
- `Past`: a dialog whose transaction is clearing is closed, and one that was confirmed is in
  a call, on its way out or closed. So the ACK and the timer of an older call cannot
  touch the newer one.
- `Listens`, `HangsUp`: an idle callee listens, except in the step of hangup before it
  renews its call, in which the old dialog neither listens nor is asked; a busy callee's
  dialog is on, or was closed before it was confirmed.

### SipDialogRefinement

`Implements`: `Spec => KeepsOutcome`, that is, `SipDialog` implements `CallOutcome` under the
mapping above, for any number of dialogs. Most steps leave the mapped state alone (`Kept`); a
step of the callee changes the phase of one dialog (`OneMoves`); `StepMaps` has one case per
action, and uses `IInv` to show that, for example, an ACK confirms only a dialog whose caller
is connected to it. It EXTENDS `SipDialogProofs`.

### What is only model-checked

Liveness (`LapseNoticed`, `RegistrationRetried`, `InviteHandled`, `EofCloses`, `StopReturns`,
`KeepsTrying`, `ReplayHeeded`, `SeekReopens`, `Reconnects`, `VideoResumes`, `CallerDecides`,
`EndsTogether`) is out of the prover's reach and stays with TLC. Every invariant and
action property and every refinement that a passing run checks are also proved.

## 6. Not modelled

- The formatting and parsing of SIP, SDP, XML, PS and RTP; Call-IDs (drawn after
  `srand(time)`, so two within a second are equal).
- `INFO` requests: `dt_eXosip_paraseInfoBody` calls stubs and keeps no state.
- `ctrl.cpp` and `refresh.cpp` are stubs; `threadsafe_queue.cpp` is used nowhere.
- The decoding and rendering of frames; `PlayBuffer`; codecs; the vendored libraries.
- The WebRTC player and pusher: glue between the vendored WebRTC library and a signalling
  server that is not in the repository.
- Of the Java stack: re-INVITE, REFER and transfers, 3xx redirects, calls without an offer,
  authentication, registration (`RegisterAgent`) and `MyService`. A call's dialogs, their
  transactions and the user agent are the part with interleavings; the rest handles one
  request at a time.
- Timeouts of an ACK or a BYE are never passed on by `Call.onDlgClose`, so a callee stays in
  a call that never came up; the model does the same. `CalleeAgrees` bounds it: only a call
  that never was confirmed is lost in this way.
- Behaviours seen in the code that no property speaks of, because nothing in it says what
  should happen: a BYE does not stop the app's pusher (`gb_lib.cpp` 506); an error of
  `av_read_frame` other than the end of the file never closes the player (`ARFFPlayer.cpp`
  503); a second caller's INVITE is dropped during a call (`UserAgent.java` 614); a seek to 0
  means no seek (`ARFFPlayer.cpp` 389), and one set while the last is being cleared is lost
  (395); 32-bit retry times wrap after 49.7 days (`ArFFWriter.cpp` 238);
  `registerSipWithLocation` swaps longitude and latitude (`anySipClient.cpp` 169).
- What is outside the build. Nearly all of the repository's lines are vendored libraries
  and headers (webrtc, FFmpeg, openh264, librtmp) and their copies in the two modules
  that are not built, so the mapped share of all files is small whatever is modelled.
- eXosip2 is a prebuilt library: its FIFO, transactions and calls are modelled from how
  `gb_lib.cpp` uses them and marked external.

## 7. What is left

1. `PlayBuffer` and its composition with `FFBuffer`.
2. `RegisterAgent` and the transactions of REGISTER and MESSAGE; re-INVITE in `SipDialog`.
3. A composition of `GbSession` and `GbCall` in place of `GbCall`'s `GiveUp`.
