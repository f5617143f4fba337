------------------------------- MODULE FFPlayer ------------------------------
(***************************************************************************)
(* The life of a player (ArLive2Player.cpp, player/ARFFPlayer.cpp): start, *)
(* stop, replay and seek on the engine's thread, the connection that the   *)
(* reading thread opens, reads, closes and opens again, and the audio      *)
(* device's thread that decodes beside it.                                 *)
(*                                                                         *)
(* cs_aud_speaker_ is held as long as the device is not idle, cs_ff_ctx_   *)
(* while a connection is opened and, by the others, within a step.  The    *)
(* packet buffer is FFBuffer's: here it is empty, caching or playing.      *)
(* SetRepeat, SetRepeatCount and SetNoBuffer are never called: a player    *)
(* does not repeat.                                                        *)
(***************************************************************************)
EXTENDS Naturals

VARIABLES
  ar_player_,             \* the ARFFPlayer exists
  engine,                 \* where the engine's thread is
  b_running_,
  b_abort_,
  b_re_play_,
  n_seek_to_,             \* a seek is wanted
  reader,                 \* where the reading thread is
  needSeek,               \* its local needSeek
  fmt_ctx_,               \* a connection is open
  vod,                    \* n_all_duration_ > 0
  b_got_eof_,
  n_reconnect_time_,      \* 0, or a time to come, or one that has come
  n_conn_pkt_time_,       \* likewise: when what blocks is interrupted
  b_open_stream_success_,
  b_notify_closed_,
  device,                 \* a packet is being decoded
  buffer,
  told                    \* what the application was last told

callVars == <<ar_player_, engine, b_running_, b_abort_>>
wishVars == <<b_re_play_, n_seek_to_>>
readVars == <<reader, needSeek>>
connVars == <<fmt_ctx_, vod, b_got_eof_>>
timeVars == <<n_reconnect_time_, n_conn_pkt_time_>>
noteVars == <<b_open_stream_success_, b_notify_closed_, told>>
vars == <<callVars, wishVars, readVars, connVars, timeVars, noteVars, device, buffer>>

Time == {"0", "later", "due"}

Init ==
  /\ ar_player_ = FALSE /\ engine = "idle" /\ b_running_ = FALSE /\ b_abort_ = FALSE
  /\ b_re_play_ = FALSE /\ n_seek_to_ = FALSE
  /\ reader = "none" /\ needSeek = FALSE
  /\ fmt_ctx_ = FALSE /\ vod = FALSE /\ b_got_eof_ = FALSE
  /\ n_reconnect_time_ = "0" /\ n_conn_pkt_time_ = "0"
  /\ b_open_stream_success_ = FALSE /\ b_notify_closed_ = FALSE /\ told = "nothing"
  /\ device = FALSE /\ buffer = "empty"

(***************************************************************************)
(* The engine's thread.                                                    *)
(***************************************************************************)
\* A new ARFFPlayer, and StartTask.
startPlay ==
  /\ engine = "idle" /\ ~ar_player_
  /\ ar_player_' = TRUE /\ b_running_' = TRUE /\ b_abort_' = FALSE
  /\ b_re_play_' = FALSE /\ n_seek_to_' = FALSE
  /\ reader' = "top" /\ needSeek' = FALSE
  /\ fmt_ctx_' = FALSE /\ vod' = FALSE /\ b_got_eof_' = FALSE
  /\ n_reconnect_time_' = "due" /\ n_conn_pkt_time_' = "0"
  /\ b_open_stream_success_' = FALSE /\ b_notify_closed_' = FALSE /\ told' = "nothing"
  /\ UNCHANGED <<engine, device, buffer>>

stopPlay ==
  /\ engine = "idle" /\ ar_player_
  /\ engine' = "detach"
  /\ UNCHANGED <<ar_player_, b_running_, b_abort_, wishVars, readVars, connVars, timeVars,
                 noteVars, device, buffer>>

\* The device's thread must have let go of cs_aud_speaker_.
DetachAudSpeaker ==
  /\ engine = "detach" /\ ~device
  /\ engine' = "stop"
  /\ UNCHANGED <<ar_player_, b_running_, b_abort_, wishVars, readVars, connVars, timeVars,
                 noteVars, device, buffer>>

\* Faulty variant: what blocks the reading thread is not interrupted.
StopTaskNoAbort ==
  /\ engine = "stop"
  /\ b_running_' = FALSE /\ n_reconnect_time_' = "0"
  /\ engine' = "join"
  /\ UNCHANGED <<ar_player_, b_abort_, wishVars, readVars, connVars, n_conn_pkt_time_,
                 noteVars, device, buffer>>

StopTask ==
  /\ engine = "stop"
  /\ b_running_' = FALSE /\ b_abort_' = TRUE /\ n_reconnect_time_' = "0"
  /\ engine' = "join"
  /\ UNCHANGED <<ar_player_, wishVars, readVars, connVars, n_conn_pkt_time_, noteVars,
                 device, buffer>>

\* Faulty variant: the reading thread is not waited for.
JoinedEarly ==
  /\ engine = "join"
  /\ ar_player_' = FALSE /\ buffer' = "empty" /\ engine' = "idle"
  /\ UNCHANGED <<b_running_, b_abort_, wishVars, readVars, connVars, timeVars, noteVars, device>>

\* The thread is joined, the buffer cleared, the player deleted.
Joined ==
  /\ engine = "join" /\ reader = "none"
  /\ ar_player_' = FALSE /\ buffer' = "empty" /\ engine' = "idle"
  /\ UNCHANGED <<b_running_, b_abort_, wishVars, readVars, connVars, timeVars, noteVars, device>>

rePlay ==
  /\ engine = "idle" /\ ar_player_
  /\ b_re_play_' = TRUE
  /\ UNCHANGED <<callVars, n_seek_to_, readVars, connVars, timeVars, noteVars, device, buffer>>

\* A seek to 0 s is none: a seek is to a later time.
seekTo ==
  /\ engine = "idle" /\ ar_player_
  /\ n_seek_to_' = TRUE
  /\ UNCHANGED <<callVars, b_re_play_, readVars, connVars, timeVars, noteVars, device, buffer>>

(***************************************************************************)
(* The reading thread.                                                     *)
(***************************************************************************)
\* What the reading thread does at the top of its loop.
AtTop == reader = "top" /\ b_running_

\* Faulty variant: the time is set before CloseFFDecode clears it.
ReplayUnscheduled ==
  /\ AtTop /\ b_re_play_
  /\ b_re_play_' = FALSE /\ n_seek_to_' = FALSE
  /\ fmt_ctx_' = FALSE /\ buffer' = "empty" /\ n_reconnect_time_' = "0"
  /\ UNCHANGED <<callVars, readVars, vod, b_got_eof_, n_conn_pkt_time_, noteVars, device>>

\* Faulty variant: the connection is kept.
ReplayKeepsOpen ==
  /\ AtTop /\ b_re_play_
  /\ b_re_play_' = FALSE /\ n_seek_to_' = FALSE
  /\ buffer' = "empty" /\ n_reconnect_time_' = "due"
  /\ UNCHANGED <<callVars, readVars, connVars, n_conn_pkt_time_, noteVars, device>>

\* b_re_play_: CloseFFDecode, and on to the next attempt, which is due.
Replay ==
  /\ AtTop /\ b_re_play_
  /\ b_re_play_' = FALSE /\ n_seek_to_' = FALSE
  /\ fmt_ctx_' = FALSE /\ buffer' = "empty"
  /\ n_reconnect_time_' = "later" /\ n_conn_pkt_time_' = "later"
  /\ reader' = "open"
  /\ UNCHANGED <<callVars, needSeek, vod, b_got_eof_, noteVars, device>>

\* OpenFFDecode takes cs_ff_ctx_; the attempt may last 10 s, the next is in 1.5 s.
Connect ==
  /\ AtTop /\ ~b_re_play_ /\ ~fmt_ctx_ /\ n_reconnect_time_ = "due"
  /\ n_reconnect_time_' = "later" /\ n_conn_pkt_time_' = "later"
  /\ reader' = "open"
  /\ UNCHANGED <<callVars, wishVars, needSeek, connVars, noteVars, device, buffer>>

\* Faulty variant: every success is told.
OpenedTold ==
  /\ reader = "open"
  /\ fmt_ctx_' = TRUE /\ vod' \in BOOLEAN /\ b_got_eof_' = FALSE
  /\ b_open_stream_success_' = TRUE /\ told' = "ok"
  /\ n_seek_to_' = FALSE
  /\ reader' = "top"
  /\ UNCHANGED <<callVars, b_re_play_, needSeek, timeVars, b_notify_closed_, device, buffer>>

\* The first success is told; a seek that waits is done.
Opened ==
  /\ reader = "open"
  /\ fmt_ctx_' = TRUE /\ vod' \in BOOLEAN /\ b_got_eof_' = FALSE
  /\ b_open_stream_success_' = TRUE
  /\ told' = IF b_open_stream_success_ THEN told ELSE "ok"
  /\ n_seek_to_' = FALSE
  /\ reader' = "top"
  /\ UNCHANGED <<callVars, b_re_play_, needSeek, timeVars, b_notify_closed_, device, buffer>>

\* Faulty variant: no failed attempt is followed by another.
FailedForGood ==
  /\ reader' = "top"
  /\ n_reconnect_time_' = "0"
  /\ b_notify_closed_' = (b_notify_closed_ \/ ~b_open_stream_success_)
  /\ told' = IF b_open_stream_success_ THEN told ELSE "failed"
  /\ buffer' = IF b_open_stream_success_ THEN buffer ELSE "empty"
  /\ UNCHANGED <<callVars, wishVars, needSeek, connVars, n_conn_pkt_time_,
                 b_open_stream_success_, device>>

\* Before the first success a failure is the end; after it the attempts go on.
Failed ==
  /\ reader' = "top"
  /\ \/ /\ b_open_stream_success_
        /\ UNCHANGED <<n_reconnect_time_, b_notify_closed_, told, buffer>>
     \/ /\ ~b_open_stream_success_
        /\ n_reconnect_time_' = "0" /\ b_notify_closed_' = TRUE /\ told' = "failed"
        /\ buffer' = "empty"
  /\ UNCHANGED <<callVars, wishVars, needSeek, connVars, n_conn_pkt_time_,
                 b_open_stream_success_, device>>

\* Timeout, the interrupt callback of a call that blocks.
Interrupted == n_conn_pkt_time_ = "due" \/ b_abort_

OpenFails == reader = "open" /\ Failed
OpenInterrupted == reader = "open" /\ Interrupted /\ Failed

\* ReadThreadProcess, to where it branches on b_got_eof_.  A seek while the end
\* of the file plays is kept for the next connection.
Seek ==
  /\ AtTop /\ ~b_re_play_ /\ fmt_ctx_
  /\ needSeek' = (n_seek_to_ /\ vod)
  /\ n_seek_to_' = (n_seek_to_ /\ vod /\ b_got_eof_)
  /\ buffer' = IF n_seek_to_ /\ vod THEN "empty" ELSE buffer
  /\ \/ b_got_eof_ /\ reader' = "eof" /\ UNCHANGED n_conn_pkt_time_
     \/ ~b_got_eof_ /\ reader' = "read" /\ n_conn_pkt_time_' = "0"  \* NeedMoreData
     \/ ~b_got_eof_ /\ reader' = "top" /\ UNCHANGED n_conn_pkt_time_
  /\ UNCHANGED <<callVars, b_re_play_, connVars, n_reconnect_time_, noteVars, device>>

\* av_read_frame has a packet, or an error that is not the end of the file.
Read ==
  /\ reader = "read"
  /\ \/ UNCHANGED buffer
     \/ buffer' = IF buffer = "empty" THEN "caching" ELSE buffer
  /\ reader' \in {"read", "top"}
  /\ UNCHANGED <<callVars, wishVars, needSeek, connVars, timeVars, noteVars, device>>

ReadEof ==
  /\ reader = "read"
  /\ b_got_eof_' = TRUE /\ reader' = "top"
  /\ UNCHANGED <<callVars, wishVars, needSeek, fmt_ctx_, vod, timeVars, noteVars, device, buffer>>

\* Six errors in a row at most, and the loop is left.
ReadInterrupted ==
  /\ reader = "read" /\ Interrupted
  /\ b_got_eof_' \in BOOLEAN /\ reader' = "top"
  /\ UNCHANGED <<callVars, wishVars, needSeek, fmt_ctx_, vod, timeVars, noteVars, device, buffer>>

\* Faulty variant: the end of the file is the end, whatever was wished.
EofUnheard ==
  /\ reader = "eof" /\ buffer = "empty"
  /\ fmt_ctx_' = FALSE
  /\ n_reconnect_time_' = "0" /\ told' = "ended" /\ b_notify_closed_' = TRUE
  /\ reader' = "top"
  /\ UNCHANGED <<callVars, wishVars, needSeek, vod, b_got_eof_, n_conn_pkt_time_,
                 b_open_stream_success_, device, buffer>>

\* All is played: a seek opens the file again, else the player rests.
Eof ==
  /\ reader = "eof" /\ buffer = "empty"
  /\ fmt_ctx_' = FALSE
  /\ \/ needSeek /\ n_reconnect_time_' = "due" /\ UNCHANGED <<b_notify_closed_, told>>
     \/ ~needSeek /\ n_reconnect_time_' = "0" /\ told' = "ended" /\ b_notify_closed_' = TRUE
  /\ reader' = "top"
  /\ UNCHANGED <<callVars, wishVars, needSeek, vod, b_got_eof_, n_conn_pkt_time_,
                 b_open_stream_success_, device, buffer>>

\* What is cached but does not play would never be played.
EofBuffered ==
  /\ reader = "eof" /\ buffer # "empty"
  /\ buffer' = IF buffer = "caching" THEN "empty" ELSE buffer
  /\ reader' = "top"
  /\ UNCHANGED <<callVars, wishVars, needSeek, connVars, timeVars, noteVars, device>>

\* Faulty variant: a stop is not told if the player never played.
EndSilent ==
  /\ reader = "top" /\ ~b_running_
  /\ fmt_ctx_' = FALSE /\ buffer' = "empty" /\ n_reconnect_time_' = "0"
  /\ told' = IF b_open_stream_success_ /\ ~b_notify_closed_ THEN "stopped" ELSE told
  /\ reader' = "none"
  /\ UNCHANGED <<callVars, wishVars, needSeek, vod, b_got_eof_, n_conn_pkt_time_,
                 b_open_stream_success_, b_notify_closed_, device>>

\* After the loop.
End ==
  /\ reader = "top" /\ ~b_running_
  /\ fmt_ctx_' = FALSE /\ buffer' = "empty" /\ n_reconnect_time_' = "0"
  /\ told' = IF b_notify_closed_ THEN told
             ELSE IF b_open_stream_success_ THEN "stopped" ELSE "failed"
  /\ reader' = "none"
  /\ UNCHANGED <<callVars, wishVars, needSeek, vod, b_got_eof_, n_conn_pkt_time_,
                 b_open_stream_success_, b_notify_closed_, device>>

(***************************************************************************)
(* The audio device's thread: MixAudioData, RunOnce.                       *)
(***************************************************************************)
Attached == ar_player_ /\ engine \in {"idle", "detach"}

\* DoTick: enough is cached.
StartPlaying ==
  /\ Attached /\ ~device /\ buffer = "caching"
  /\ buffer' = "playing"
  /\ UNCHANGED <<callVars, wishVars, readVars, connVars, timeVars, noteVars, device>>

\* DoDecodeAudio, DoDecodeVideo: a packet is taken off its list.
TakePacket(left) ==
  /\ Attached /\ ~device /\ buffer = "playing"
  /\ buffer' = left /\ device' = TRUE
  /\ UNCHANGED <<callVars, wishVars, readVars, connVars, timeVars, noteVars>>

\* OnBufferDecodeAudioData, OnBufferDecodeVideoData: under cs_ff_ctx_.
Decode ==
  /\ device /\ reader # "open"
  /\ device' = FALSE
  /\ UNCHANGED <<callVars, wishVars, readVars, connVars, timeVars, noteVars, buffer>>

(***************************************************************************)
(* Time.                                                                   *)
(***************************************************************************)
ReconnectDue ==
  /\ n_reconnect_time_ = "later" /\ n_reconnect_time_' = "due"
  /\ UNCHANGED <<callVars, wishVars, readVars, connVars, n_conn_pkt_time_, noteVars, device, buffer>>

DeadlineDue ==
  /\ n_conn_pkt_time_ = "later" /\ n_conn_pkt_time_' = "due"
  /\ UNCHANGED <<callVars, wishVars, readVars, connVars, n_reconnect_time_, noteVars, device, buffer>>

Stopping == DetachAudSpeaker \/ StopTask \/ Joined
Engine == startPlay \/ stopPlay \/ Stopping \/ rePlay \/ seekTo
Opening == Opened \/ OpenFails \/ OpenInterrupted
Reading == Seek \/ Read \/ ReadEof \/ ReadInterrupted \/ Eof \/ EofBuffered
Device == StartPlaying \/ (\E left \in {"playing", "empty"} : TakePacket(left)) \/ Decode

Next == Engine \/ Replay \/ Connect \/ Opening \/ Reading \/ End \/ Device \/ ReconnectDue \/ DeadlineDue

Spec == Init /\ [][Next]_vars

\* The threads are scheduled, the locks are not kept from them and time passes.
\* Nothing is promised of the server: it may refuse, or never answer.
Fairness ==
  /\ SF_vars(DetachAudSpeaker) /\ WF_vars(StopTask) /\ WF_vars(Joined)
  /\ WF_vars(Replay) /\ WF_vars(Connect) /\ WF_vars(OpenInterrupted)
  /\ WF_vars(Seek) /\ WF_vars(ReadInterrupted) /\ WF_vars(Eof) /\ WF_vars(EofBuffered) /\ WF_vars(End)
  /\ SF_vars(Decode) /\ WF_vars(ReconnectDue) /\ WF_vars(DeadlineDue)

FairSpec == Spec /\ Fairness

(***************************************************************************)
(* Properties.                                                             *)
(***************************************************************************)
\* Types; and the reading thread and a callback of the device are over when the
\* player that they go through is deleted.
TypeOK ==
  /\ {ar_player_, b_running_, b_abort_, b_re_play_, n_seek_to_, needSeek, fmt_ctx_, vod,
      b_got_eof_, b_open_stream_success_, b_notify_closed_, device} \subseteq BOOLEAN
  /\ engine \in {"idle", "detach", "stop", "join"}
  /\ reader \in {"none", "top", "open", "read", "eof"}
  /\ n_reconnect_time_ \in Time /\ n_conn_pkt_time_ \in Time
  /\ buffer \in {"empty", "caching", "playing"}
  /\ told \in {"nothing", "ok", "ended", "failed", "stopped"}
  /\ reader # "none" \/ device => ar_player_

\* A player that has no connection and does not try to get one has told the
\* application so as the last thing (OnArPlyClose with -1 or 1), however
\* failures, ends, seeks and replays followed each other.
NeverSilent ==
  AtTop /\ ~fmt_ctx_ /\ n_reconnect_time_ = "0" /\ ~b_re_play_ => told \in {"ended", "failed"}

\* In every life of a player the application is told of its close.
CloseTold ==
  engine = "join" /\ reader = "none" => b_notify_closed_ \/ told \in {"stopped", "failed"}

\* What one life of a player tells is a story: it plays or it failed; what failed
\* may yet play, after a replay; what played ends or is stopped.  It is never told
\* to play after it ended, to have failed after it played, or to be stopped after
\* it ended, although the callbacks come from four places with two flags between
\* them (a word said again is not another).
ToldInOrder ==
  [][told' = told \/ told' = "nothing" \/
     <<told, told'>> \in {<<"nothing", "ok">>, <<"nothing", "failed">>, <<"failed", "ok">>,
                         <<"ok", "ended">>, <<"ok", "stopped">>}]_vars

\* stopPlay returns although the server does not answer: it waits for the
\* device's thread, which waits for the lock that is held while connecting, and
\* for the reading thread, which waits for the server.
StopReturns == engine # "idle" ~> engine = "idle"

\* A stream that the application believes to play is not given up: a connection
\* that cannot be made again is tried again and again, until a stop.
KeepsTrying ==
  ar_player_ /\ told = "ok" /\ ~fmt_ctx_ /\ reader # "open" ~> reader = "open" \/ engine # "idle"

\* A replay makes the player connect anew, unless it is stopped, whatever it was
\* doing, but for one thing: a server that sends nothing and does not close
\* keeps the reading thread in av_read_frame, which has no deadline.
ReplayHeeded ==
  []<>(reader # "read") => (b_re_play_ /\ ar_player_ ~> reader = "open" \/ engine # "idle")

\* A seek made while the end of the file plays opens the file again.
SeekReopens == reader = "eof" /\ needSeek ~> reader = "open" \/ engine # "idle"

=============================================================================
