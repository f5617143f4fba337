------------------------------- MODULE FFPusher ------------------------------
(***************************************************************************)
(* The pusher of the player library (ArLive2Pusher.cpp, ARFFPusher.cpp,    *)
(* ArFFWriter.cpp, V_H264Encoder in AvCodec.cc): start and stop, the       *)
(* connection that is retried for ever, the way of a frame from the camera *)
(* to the server and of the audio beside it.                               *)
(*                                                                         *)
(* Four threads: the engine's (startPush, stopPush, OnTick: other threads' *)
(* calls are invoked on it), the camera's (OnFrame), the video encoder's   *)
(* and the audio device's.  A step ends where a thread lets go of a lock   *)
(* or reads what others write without one.  cs_ar_writer_ is lock;         *)
(* cs_aud_capture_ is held as long as audio is not "idle", cs_h264_encoder_*)
(* within a step.  startPush is one step: nothing of what it creates is in *)
(* use before.  The microphone is on.                                      *)
(***************************************************************************)
EXTENDS Naturals

VARIABLES
  \* ArLive2Pusher
  b_live_pushed_,
  b_client_connected_,
  b_video_paused_,
  ar_pusher_,        \* the ARFFPusher and its ArFFWriter exist
  engine,            \* where the engine's thread is
  lock,              \* cs_ar_writer_ is held beyond a step
  \* ARFFPusher and ArFFWriter
  b_need_keyframe_,
  now_state_,
  n_next_retry_time_,\* 0, or a time to come, or one that has come
  \* the camera, the audio device, the encoder and its thread
  camera,            \* OnFrame has found that the frame is wanted
  audio,             \* where RecordedDataIsAvailable is
  attached,          \* the pusher is in map_aud_dev_capture_
  encoder,           \* where V_H264Encoder::Run is
  render_buffers_,   \* frames wait to be encoded
  need_keyframe_,    \* the encoder's
  key,               \* the frame being encoded is a key frame
  \* what the server has got on this connection
  decodes,           \* history: it has decoded the last frame encoded
  broken             \* history: frames it could not decode, up to 2

pushVars == <<b_live_pushed_, b_client_connected_, b_video_paused_, ar_pusher_>>
writerVars == <<b_need_keyframe_, now_state_, n_next_retry_time_>>
encoderVars == <<encoder, render_buffers_, need_keyframe_, key>>
audioVars == <<audio, attached>>
streamVars == <<decodes, broken>>
vars == <<pushVars, engine, lock, writerVars, camera, audioVars, encoderVars, streamVars>>

Init ==
  /\ b_live_pushed_ = FALSE /\ b_client_connected_ = FALSE /\ b_video_paused_ = FALSE
  /\ ar_pusher_ = FALSE /\ engine = "idle" /\ lock = FALSE
  /\ b_need_keyframe_ = TRUE /\ now_state_ = "Init" /\ n_next_retry_time_ = "0"
  /\ camera = FALSE /\ audio = "idle" /\ attached = FALSE
  /\ encoder = "none" /\ render_buffers_ = FALSE /\ need_keyframe_ = TRUE /\ key = FALSE
  /\ decodes = FALSE /\ broken = 0

(***************************************************************************)
(* The engine's thread.                                                    *)
(***************************************************************************)
\* A stop before is the caller's, or startPush's own.  b_client_connected_ is
\* what the last push has left.
startPush ==
  /\ engine = "idle" /\ ~b_live_pushed_
  /\ b_live_pushed_' = TRUE /\ ar_pusher_' = TRUE /\ attached' = TRUE
  /\ b_need_keyframe_' = TRUE /\ now_state_' = "Init" /\ n_next_retry_time_' = "due"
  /\ encoder' = "waits" /\ render_buffers_' = FALSE /\ need_keyframe_' = TRUE
  /\ UNCHANGED <<b_client_connected_, b_video_paused_, engine, lock, camera, audio, key, streamVars>>

stopPush ==
  /\ engine = "idle" /\ b_live_pushed_
  /\ b_live_pushed_' = FALSE /\ engine' = "detach"
  /\ UNCHANGED <<b_client_connected_, b_video_paused_, ar_pusher_, lock, writerVars, camera,
                 audioVars, encoderVars, streamVars>>

DetachAudCapture ==
  /\ engine = "detach" /\ audio = "idle"
  /\ attached' = FALSE /\ engine' = "deinit"
  /\ UNCHANGED <<pushVars, lock, writerVars, camera, audio, encoderVars, streamVars>>

\* Faulty variant: the encoder's thread is not waited for.
deinitVideoNoJoin ==
  /\ engine = "deinit"
  /\ encoder' = (IF encoder = "waits" THEN "none" ELSE encoder)
  /\ render_buffers_' = FALSE /\ engine' = "delete"
  /\ UNCHANGED <<pushVars, lock, writerVars, camera, audioVars, need_keyframe_, key, streamVars>>

\* FreeVideoEncoder is invoked on the encoder's thread, between two frames, and
\* the thread is joined.
deinitVideo ==
  /\ engine = "deinit" /\ encoder = "waits"
  /\ encoder' = "none" /\ render_buffers_' = FALSE /\ engine' = "delete"
  /\ UNCHANGED <<pushVars, lock, writerVars, camera, audioVars, need_keyframe_, key, streamVars>>

\* deinitAudio, and then the ARFFPusher goes with its writer.
stopTask ==
  /\ engine = "delete" /\ ~lock
  /\ ar_pusher_' = FALSE /\ decodes' = FALSE /\ broken' = 0 /\ engine' = "idle"
  /\ UNCHANGED <<b_live_pushed_, b_client_connected_, b_video_paused_, lock, writerVars, camera,
                 audioVars, encoderVars>>

pauseVideo ==
  /\ engine = "idle"
  /\ b_video_paused_' = ~b_video_paused_
  /\ UNCHANGED <<b_live_pushed_, b_client_connected_, ar_pusher_, engine, lock, writerVars, camera,
                 audioVars, encoderVars, streamVars>>

\* OnTick connects with the lock held: WS_Connecting is told first.
RunOnce ==
  /\ engine = "idle" /\ b_live_pushed_ /\ n_next_retry_time_ = "due"
  /\ n_next_retry_time_' = "0" /\ now_state_' = "Connecting" /\ b_client_connected_' = FALSE
  /\ engine' = "connecting" /\ lock' = TRUE
  /\ UNCHANGED <<b_live_pushed_, b_video_paused_, ar_pusher_, b_need_keyframe_, camera, audioVars,
                 encoderVars, streamVars>>

ConnectFails ==
  /\ engine = "connecting"
  /\ now_state_' = "Failed" /\ n_next_retry_time_' = "later"
  /\ engine' = "idle" /\ lock' = FALSE
  /\ UNCHANGED <<pushVars, b_need_keyframe_, camera, audioVars, encoderVars, streamVars>>

\* Faulty variants of a connection: the gate stays open, and the
\* ArLive2Pusher is not told.
ConnectedGateOpen ==
  /\ engine = "connecting"
  /\ now_state_' = "Connected" /\ b_client_connected_' = TRUE
  /\ engine' = "idle" /\ lock' = FALSE
  /\ decodes' = FALSE /\ broken' = 0
  /\ UNCHANGED <<b_live_pushed_, b_video_paused_, ar_pusher_, b_need_keyframe_, n_next_retry_time_,
                 camera, audioVars, encoderVars>>

ConnectedUntold ==
  /\ engine = "connecting"
  /\ now_state_' = "Connected" /\ b_need_keyframe_' = TRUE
  /\ engine' = "idle" /\ lock' = FALSE
  /\ decodes' = FALSE /\ broken' = 0
  /\ UNCHANGED <<pushVars, n_next_retry_time_, camera, audioVars, encoderVars>>

Connected ==
  /\ engine = "connecting"
  /\ now_state_' = "Connected" /\ b_need_keyframe_' = TRUE /\ b_client_connected_' = TRUE
  /\ engine' = "idle" /\ lock' = FALSE
  /\ decodes' = FALSE /\ broken' = 0
  /\ UNCHANGED <<b_live_pushed_, b_video_paused_, ar_pusher_, n_next_retry_time_, camera, audioVars,
                 encoderVars>>

\* Time passes: 1.5 s after a failure.
RetryDue ==
  /\ n_next_retry_time_ = "later" /\ n_next_retry_time_' = "due"
  /\ UNCHANGED <<pushVars, engine, lock, b_need_keyframe_, now_state_, camera, audioVars,
                 encoderVars, streamVars>>

(***************************************************************************)
(* The camera's thread: OnFrame.  What it has read without a lock may be   *)
(* of a push that is over.                                                 *)
(***************************************************************************)
OnFrame ==
  /\ ~camera /\ b_live_pushed_ /\ ~b_video_paused_ /\ b_client_connected_
  /\ camera' = TRUE
  /\ UNCHANGED <<pushVars, engine, lock, writerVars, audioVars, encoderVars, streamVars>>

AddFrame ==
  /\ camera /\ camera' = FALSE
  /\ render_buffers_' = IF encoder # "none" THEN TRUE ELSE render_buffers_
  /\ UNCHANGED <<pushVars, engine, lock, writerVars, audioVars, encoder, need_keyframe_, key, streamVars>>

(***************************************************************************)
(* The encoder's thread: Run, OnEncodedImage and setVideoData.             *)
(***************************************************************************)
\* n_next_keyframe_time_: every 3 s.
KeyFrameDue ==
  /\ encoder = "waits" /\ ~need_keyframe_ /\ need_keyframe_' = TRUE
  /\ UNCHANGED <<pushVars, engine, lock, writerVars, camera, audioVars, encoder, render_buffers_, key,
                 streamVars>>

Encode ==
  /\ encoder = "waits" /\ render_buffers_
  /\ encoder' = "encoded" /\ render_buffers_' = FALSE
  /\ key' = need_keyframe_ /\ need_keyframe_' = FALSE
  /\ UNCHANGED <<pushVars, engine, lock, writerVars, camera, audioVars, streamVars>>

\* A key frame opens the gate; whether it is open is tested again, and both
\* before the lock is taken.
OpenGate ==
  /\ encoder = "encoded" /\ encoder' = "gate"
  /\ b_need_keyframe_' = (b_need_keyframe_ /\ ~key)
  /\ UNCHANGED <<pushVars, engine, lock, now_state_, n_next_retry_time_, camera, audioVars,
                 render_buffers_, need_keyframe_, key, streamVars>>

setVideoData ==
  /\ encoder = "gate"
  /\ \/ ~b_need_keyframe_ /\ encoder' = "writes" /\ UNCHANGED decodes
     \/ b_need_keyframe_ /\ encoder' = "waits" /\ decodes' = FALSE
  /\ UNCHANGED <<pushVars, engine, lock, writerVars, camera, audioVars, render_buffers_,
                 need_keyframe_, key, broken>>

\* Faulty variants of a failed write: no retry is set, or SetAutoRetry(true)
\* is forgotten.
WriteFailsNoRetry ==
  /\ now_state_ = "Connected"
  /\ now_state_' = "Failed"
  /\ UNCHANGED n_next_retry_time_

WriteFailsEnds ==
  /\ now_state_ = "Connected"
  /\ now_state_' = "Ended"
  /\ UNCHANGED n_next_retry_time_

\* av_interleaved_write_frame fails: the ArLive2Pusher is not told.
WriteFails ==
  /\ now_state_ = "Connected"
  /\ now_state_' = "Failed" /\ n_next_retry_time_' = "later"

SetVideoEncData ==
  /\ encoder = "writes" /\ ~lock
  /\ encoder' = "waits"
  /\ \/ /\ now_state_ = "Connected"
        /\ decodes' = (key \/ decodes)
        /\ broken' = IF key \/ decodes \/ broken = 2 THEN broken ELSE broken + 1
        /\ UNCHANGED <<now_state_, n_next_retry_time_>>
     \/ WriteFails /\ decodes' = FALSE /\ UNCHANGED broken
     \/ /\ now_state_ # "Connected"
        /\ decodes' = FALSE /\ UNCHANGED <<now_state_, n_next_retry_time_, broken>>
  /\ UNCHANGED <<pushVars, engine, lock, b_need_keyframe_, camera, audioVars, render_buffers_,
                 need_keyframe_, key>>

(***************************************************************************)
(* The audio device's thread: RecordedDataIsAvailable and setAudioData.    *)
(***************************************************************************)
RecordedDataIsAvailable ==
  /\ audio = "idle" /\ attached /\ b_live_pushed_
  /\ audio' = "encoded"
  /\ UNCHANGED <<pushVars, engine, lock, writerVars, camera, attached, encoderVars, streamVars>>

setAudioData ==
  /\ audio = "encoded"
  /\ audio' = IF b_need_keyframe_ THEN "idle" ELSE "writes"
  /\ UNCHANGED <<pushVars, engine, lock, writerVars, camera, attached, encoderVars, streamVars>>

\* Faulty variant: nAudUsed is not advanced, the first 10 ms are encoded again.
SetAudioEncDataAgain ==
  /\ audio = "writes" /\ ~lock
  /\ audio' = "encoded"
  /\ WriteFails \/ UNCHANGED <<now_state_, n_next_retry_time_>>
  /\ UNCHANGED <<pushVars, engine, lock, b_need_keyframe_, camera, attached, encoderVars, streamVars>>

SetAudioEncData ==
  /\ audio = "writes" /\ ~lock
  /\ audio' = "idle"
  /\ WriteFails \/ UNCHANGED <<now_state_, n_next_retry_time_>>
  /\ UNCHANGED <<pushVars, engine, lock, b_need_keyframe_, camera, attached, encoderVars, streamVars>>

Stopping == DetachAudCapture \/ deinitVideo \/ stopTask
Engine == startPush \/ stopPush \/ Stopping \/ pauseVideo \/ RunOnce \/ ConnectFails \/ Connected
Encoder == KeyFrameDue \/ Encode \/ OpenGate \/ setVideoData \/ SetVideoEncData
Audio == RecordedDataIsAvailable \/ setAudioData \/ SetAudioEncData
Camera == OnFrame \/ AddFrame

Next == Engine \/ RetryDue \/ Camera \/ Encoder \/ Audio

Spec == Init /\ [][Next]_vars

\* The threads are scheduled and the locks are not kept from them, time passes,
\* the camera has frames, and not every connection fails.
Fairness ==
  /\ WF_vars(stopTask) /\ WF_vars(deinitVideo) /\ SF_vars(DetachAudCapture)
  /\ WF_vars(RunOnce) /\ WF_vars(RetryDue)
  /\ WF_vars(ConnectFails \/ Connected) /\ SF_vars(Connected)
  /\ WF_vars(OnFrame) /\ WF_vars(AddFrame)
  /\ SF_vars(KeyFrameDue) /\ WF_vars(Encode) /\ WF_vars(OpenGate) /\ WF_vars(setVideoData) /\ SF_vars(SetVideoEncData)
  /\ WF_vars(setAudioData) /\ SF_vars(SetAudioEncData)

FairSpec == Spec /\ Fairness

(***************************************************************************)
(* Properties.                                                             *)
(***************************************************************************)
\* Types.  WS_Ended is not among the states: with SetAutoRetry(true) the writer
\* never ends.
TypeOK ==
  /\ {b_live_pushed_, b_client_connected_, b_video_paused_, ar_pusher_, lock, b_need_keyframe_,
      camera, attached, render_buffers_, need_keyframe_, key, decodes} \subseteq BOOLEAN
  /\ engine \in {"idle", "connecting", "detach", "deinit", "delete"}
  /\ now_state_ \in {"Init", "Connecting", "Connected", "Failed"}
  /\ n_next_retry_time_ \in {"0", "later", "due"}
  /\ encoder \in {"none", "waits", "encoded", "gate", "writes"}
  /\ audio \in {"idle", "encoded", "writes"}
  /\ broken \in {0, 1, 2}

\* The encoder's and the audio device's threads go through ar_pusher_ without a
\* lock (OnEncodeDataCallback): stopPush must have waited for both of them
\* before it deletes the ARFFPusher.
NoUseAfterFree == encoder \in {"encoded", "gate", "writes"} \/ audio # "idle" => ar_pusher_

\* The server can decode what it gets on a connection (a delta frame if it has
\* decoded the frame before), but for one frame at most, that was waiting for
\* the lock while the connection was made.
Decodable == broken <= 1

\* The connection is made again after every failure, of the connection itself
\* or of a write by either thread, as long as the push is not stopped.
Reconnects == b_live_pushed_ ~> now_state_ = "Connected" \/ ~b_live_pushed_

\* After each connection the video gets through the gate, although the key frame
\* that was asked for at the start is long gone and none is asked for now.
VideoResumes ==
  now_state_ = "Connected" ~> decodes \/ now_state_ # "Connected" \/ ~b_live_pushed_ \/ b_video_paused_

\* stopPush returns: it waits for two threads that may wait for the lock.
StopReturns == engine \in {"detach", "deinit", "delete"} ~> engine = "idle"

=============================================================================
