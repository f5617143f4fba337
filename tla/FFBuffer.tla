------------------------------ MODULE FFBuffer ------------------------------
(***************************************************************************)
(* The packet buffer of the player (player/FFBuffer.cpp of the liveplayer  *)
(* module) between the two threads that use it:                            *)
(*   - the reading thread (ARFFPlayer::ReadThreadProcess) takes packets    *)
(*     from the demuxer while NeedMoreData, clears the buffer on a seek,   *)
(*     and at the end of the file closes once the buffer is empty;         *)
(*   - the audio device's thread (ARFFPlayer::RunOnce) calls DoTick, which *)
(*     decides between caching and playing and moves the packets that are  *)
(*     due to the decode lists, and then decodes what the renderer wants.  *)
(* Each of the four lists has a lock of its own, so every locked region is *)
(* a step; the status, the flag and the times have none.  The user's       *)
(* thread pauses, seeks and changes the speed.  The file is on demand      *)
(* (n_all_duration_ > 0): a seek in a live stream is ignored.              *)
(*                                                                         *)
(* A packet is its number in the order of its stream and its dts.  The     *)
(* unit of time is the duration of a packet; no packet has the dts 0,      *)
(* which the code takes for "no packet".                                   *)
(***************************************************************************)
EXTENDS Integers, Sequences, FiniteSets

CONSTANTS
  Source,       \* the streams the file has
  MinCache,     \* n_cache_to_play_time_ at the start
  MaxCache,     \* n_cache_to_play_max_
  CacheStep,    \* what a stall adds (1000 ms)
  CacheingTime, \* n_cacheing_time_: enough is buffered above it
  MaxGap,       \* bound: time between two ticks
  MaxJump,      \* bound: distance of two packets of a stream
  MaxDts,       \* bound: the last dts
  MaxPacket,    \* bound: packets of a stream
  MaxInput      \* bound: seeks, changes of speed and pauses

Stream == {"audio", "video"}

ASSUME SourceAssumption == Source \subseteq Stream
ASSUME CacheAssumption ==
  /\ MinCache \in Nat /\ MaxCache \in Nat /\ MinCache <= MaxCache
  /\ CacheStep \in Nat \ {0} /\ CacheingTime \in Nat
ASSUME BoundAssumption ==
  /\ MaxGap \in Nat \ {0} /\ MaxJump \in Nat \ {0} /\ MaxDts \in Nat \ {0}
  /\ MaxPacket \in Nat /\ MaxInput \in Nat

VARIABLES
  recv,                  \* lst_audio_recv_, lst_video_recv_
  decode,                \* lst_audio_decode_, lst_video_decode_
  play_status_,          \* Init, Caching or Playing
  b_reset_time_,
  n_cache_to_play_time_, \* what must be cached before playing
  n_played_time_,        \* time played since decode_data_time_
  decode_data_time_,     \* the dts at which playing started
  last_dts,              \* last_aud_dts_time_, last_vid_dts_time_
  tick,                  \* where the audio device's thread is
  cached,                \* its local audCacheTime, vidCacheTime
  first,                 \* its local audFirstDtsTime, vidFirstDtsTime
  due,                   \* its local decodeTime
  size,                  \* its local audListSize, vidListSize
  hand,                  \* its local audList, vidList
  reader,                \* where the reading thread is
  return,                \* where it goes on after DoClear
  needSeek,              \* its local needSeek
  b_got_eof_,
  n_seek_to_,            \* the dts to seek to, 0 for none
  b_paused_,
  pos,                   \* the demuxer: last dts of each stream
  got,                   \* packets received of each stream so far
  out,                   \* number of the last packet decoded of each stream
  dropped,               \* numbers of the packets DoClear deleted
  told,                  \* the status the application was last told
  inputs                 \* seeks, changes of speed and pauses so far

timeVars   == <<n_played_time_, decode_data_time_, last_dts>>
tickVars   == <<tick, cached, first, due, size, hand>>
readVars   == <<reader, return, needSeek, b_got_eof_>>
userVars   == <<n_seek_to_, b_paused_, inputs>>
streamVars == <<pos, got>>
vars == <<recv, decode, play_status_, b_reset_time_, n_cache_to_play_time_,
          timeVars, tickVars, readVars, userVars, streamVars, out, dropped, told>>

Status == {"Init", "Caching", "Playing"}
TickPC == {"idle", "peekVideo", "peekAudio", "decide", "takeVideo", "takeAudio",
           "pushAudio", "pushVideo", "finish", "decodeAudio", "decodeVideo"}
Clearing == {"clearAudioRecv", "clearVideoRecv", "clearAudioDecode",
             "clearVideoDecode", "clearTime", "clearFlag"}
Checking == {"videoRecv", "audioRecv", "videoDecode", "audioDecode", "isPlaying"}
ReadPC == {"loop", "need", "recv", "closing", "closed", "reopen"} \cup Clearing \cup Checking

Packet == [n : 1..MaxPacket, dts : 1..MaxDts]

None == [s \in Stream |-> 0]
Empty == [s \in Stream |-> <<>>]

Greater(a, b) == IF a > b THEN a ELSE b
Lesser(a, b) == IF a < b THEN a ELSE b

Last(q) == q[Len(q)]

\* AudioCacheTime, VideoCacheTime
Span(q) == IF q = <<>> THEN 0 ELSE Last(q).dts - Head(q).dts

Numbers(q) == {q[i].n : i \in 1..Len(q)}

Init ==
  /\ recv = Empty /\ decode = Empty
  /\ play_status_ = "Init" /\ b_reset_time_ = FALSE
  /\ n_cache_to_play_time_ = MinCache
  /\ n_played_time_ = 0 /\ decode_data_time_ = 0 /\ last_dts = None
  /\ tick = "idle" /\ cached = None /\ first = None /\ due = 0
  /\ size = None /\ hand = Empty
  /\ reader = "loop" /\ return = "loop" /\ needSeek = FALSE /\ b_got_eof_ = FALSE
  /\ n_seek_to_ = 0 /\ b_paused_ = FALSE /\ inputs = 0
  /\ pos = None /\ got = None /\ out = None
  /\ dropped = [s \in Stream |-> {}]
  /\ told = "Init"

(***************************************************************************)
(* DoTick.                                                                 *)
(***************************************************************************)
\* The time since the last tick is read off first, so the time spent caching
\* or paused is never played.
TickBegin(gap) ==
  /\ tick = "idle"
  /\ \/ /\ play_status_ # "Playing" \/ b_reset_time_
        /\ tick' = "peekVideo"
        /\ UNCHANGED <<n_played_time_, due>>
     \/ /\ play_status_ = "Playing" /\ ~b_reset_time_ /\ b_paused_
        /\ tick' = "decodeAudio"
        /\ UNCHANGED <<n_played_time_, due>>
     \/ /\ play_status_ = "Playing" /\ ~b_reset_time_ /\ ~b_paused_
        /\ tick' = "takeVideo"
        /\ n_played_time_' = Lesser(n_played_time_ + gap, MaxDts)
        /\ due' = decode_data_time_ + n_played_time_'
  /\ UNCHANGED <<recv, decode, play_status_, b_reset_time_, n_cache_to_play_time_,
                 decode_data_time_, last_dts, cached, first, size, hand,
                 readVars, userVars, streamVars, out, dropped, told>>

Peek(s, here, next) ==
  /\ tick = here /\ tick' = next
  /\ cached' = [cached EXCEPT ![s] = Span(recv[s])]
  /\ first' = [first EXCEPT ![s] = IF recv[s] = <<>> THEN 0 ELSE Head(recv[s]).dts]
  /\ UNCHANGED <<recv, decode, play_status_, b_reset_time_, n_cache_to_play_time_,
                 timeVars, due, size, hand, readVars, userVars, streamVars,
                 out, dropped, told>>

\* Playing starts at the first audio packet, or at the first video packet.
StartTime ==
  /\ n_played_time_' = 0
  /\ decode_data_time_' = IF first["audio"] # 0 THEN first["audio"] ELSE first["video"]

Decide ==
  /\ tick = "decide" /\ tick' = "decodeAudio"
  /\ cached' = None /\ first' = None
  /\ \/ /\ b_reset_time_ /\ b_reset_time_' = FALSE
        /\ StartTime
        /\ UNCHANGED <<play_status_, told>>
     \/ /\ ~b_reset_time_
        /\ Greater(cached["audio"], cached["video"]) >= n_cache_to_play_time_
        /\ StartTime
        /\ told' = IF play_status_ # "Init" THEN "Playing" ELSE told
        /\ play_status_' = "Playing"
        /\ UNCHANGED b_reset_time_
     \/ /\ ~b_reset_time_
        /\ Greater(cached["audio"], cached["video"]) < n_cache_to_play_time_
        /\ UNCHANGED <<play_status_, told, b_reset_time_, n_played_time_, decode_data_time_>>
  /\ UNCHANGED <<recv, decode, n_cache_to_play_time_, last_dts, due, size, hand,
                 readVars, userVars, streamVars, out, dropped>>

\* How many packets at the head of a list are due.
DueCount(q) == Cardinality({k \in 1..Len(q) : \A j \in 1..k : q[j].dts <= due})

\* The first packet is not due, and far from the last one that was.
Leap(s) ==
  /\ recv[s] # <<>> /\ DueCount(recv[s]) = 0
  /\ last_dts[s] # 0 /\ Head(recv[s]).dts - last_dts[s] > 2

Take(s, here, next) ==
  LET k == DueCount(recv[s]) IN
  /\ tick = here /\ tick' = next
  /\ size' = [size EXCEPT ![s] = Len(recv[s])]
  /\ hand' = [hand EXCEPT ![s] = SubSeq(recv[s], 1, k)]
  /\ recv' = [recv EXCEPT ![s] = SubSeq(@, k + 1, Len(@))]
  /\ b_reset_time_' = (b_reset_time_ \/ Leap(s))
  /\ UNCHANGED <<decode, play_status_, n_cache_to_play_time_, timeVars, cached, first,
                 due, readVars, userVars, streamVars, out, dropped, told>>

\* Faulty variant: the packets in hand are put at the front of the list.
PushFront(s, here, next) ==
  /\ tick = here
  /\ \/ /\ hand[s] # <<>>
        /\ last_dts' = [last_dts EXCEPT ![s] = Head(hand[s]).dts]
        /\ decode' = [decode EXCEPT ![s] = <<Head(hand[s])>> \o @]
        /\ hand' = [hand EXCEPT ![s] = Tail(@)]
        /\ UNCHANGED tick
     \/ /\ hand[s] = <<>> /\ tick' = next
        /\ UNCHANGED <<last_dts, decode, hand>>
  /\ UNCHANGED <<recv, play_status_, b_reset_time_, n_cache_to_play_time_, n_played_time_,
                 decode_data_time_, cached, first, due, size, readVars, userVars,
                 streamVars, out, dropped, told>>

Push(s, here, next) ==
  /\ tick = here
  /\ \/ /\ hand[s] # <<>>
        /\ last_dts' = [last_dts EXCEPT ![s] = Head(hand[s]).dts]
        /\ decode' = [decode EXCEPT ![s] = Append(@, Head(hand[s]))]
        /\ hand' = [hand EXCEPT ![s] = Tail(@)]
        /\ UNCHANGED tick
     \/ /\ hand[s] = <<>> /\ tick' = next
        /\ UNCHANGED <<last_dts, decode, hand>>
  /\ UNCHANGED <<recv, play_status_, b_reset_time_, n_cache_to_play_time_, n_played_time_,
                 decode_data_time_, cached, first, due, size, readVars, userVars,
                 streamVars, out, dropped, told>>

\* Faulty variant: the limit of what must be cached is not applied.
FinishNoLimit ==
  /\ tick = "finish" /\ tick' = "decodeAudio"
  /\ \/ /\ size = None
        /\ play_status_' = "Caching" /\ told' = "Caching"
        /\ n_cache_to_play_time_' = n_cache_to_play_time_ + CacheStep
     \/ /\ size # None
        /\ UNCHANGED <<play_status_, told, n_cache_to_play_time_>>
  /\ size' = None /\ due' = 0
  /\ UNCHANGED <<recv, decode, b_reset_time_, timeVars, cached, first, hand,
                 readVars, userVars, streamVars, out, dropped>>

\* Nothing was there to play: a stall.
Finish ==
  /\ tick = "finish" /\ tick' = "decodeAudio"
  /\ \/ /\ size = None
        /\ play_status_' = "Caching" /\ told' = "Caching"
        /\ n_cache_to_play_time_' = Lesser(n_cache_to_play_time_ + CacheStep, MaxCache)
     \/ /\ size # None
        /\ UNCHANGED <<play_status_, told, n_cache_to_play_time_>>
  /\ size' = None /\ due' = 0
  /\ UNCHANGED <<recv, decode, b_reset_time_, timeVars, cached, first, hand,
                 readVars, userVars, streamVars, out, dropped>>

(***************************************************************************)
(* DoDecodeAudio, DoDecodeVideo: while the renderer wants more.            *)
(***************************************************************************)
Decode(s, here, next) ==
  /\ tick = here
  /\ \/ /\ decode[s] # <<>>
        /\ out' = [out EXCEPT ![s] = Head(decode[s]).n]
        /\ decode' = [decode EXCEPT ![s] = Tail(@)]
        /\ UNCHANGED tick
     \/ \* the renderer has enough, or there is nothing
        /\ tick' = next
        /\ UNCHANGED <<out, decode>>
  /\ UNCHANGED <<recv, play_status_, b_reset_time_, n_cache_to_play_time_, timeVars,
                 cached, first, due, size, hand, readVars, userVars, streamVars,
                 dropped, told>>

RunOnce ==
  \/ \E gap \in 0..MaxGap : TickBegin(gap)
  \/ Peek("video", "peekVideo", "peekAudio") \/ Peek("audio", "peekAudio", "decide")
  \/ Decide
  \/ Take("video", "takeVideo", "takeAudio") \/ Take("audio", "takeAudio", "pushAudio")
  \/ Push("audio", "pushAudio", "pushVideo") \/ Push("video", "pushVideo", "finish")
  \/ Finish
  \/ Decode("audio", "decodeAudio", "decodeVideo") \/ Decode("video", "decodeVideo", "idle")

(***************************************************************************)
(* ReadThreadProcess.                                                      *)
(***************************************************************************)
BeginClear(next) == reader' = "clearAudioRecv" /\ return' = next

\* The part before the reading: a seek, or the end of the file.
ReadBegin ==
  /\ reader = "loop"
  /\ \/ /\ n_seek_to_ # 0 /\ ~b_got_eof_
        /\ pos' = [s \in Stream |-> n_seek_to_ - 1]
        /\ n_seek_to_' = 0
        /\ needSeek' = TRUE
        /\ BeginClear("need")
     \/ /\ n_seek_to_ # 0 /\ b_got_eof_
        /\ needSeek' = TRUE
        /\ BeginClear("videoRecv")
        /\ UNCHANGED <<pos, n_seek_to_>>
     \/ /\ n_seek_to_ = 0
        /\ needSeek' = FALSE
        /\ reader' = IF b_got_eof_ THEN "videoRecv" ELSE "need"
        /\ UNCHANGED <<pos, n_seek_to_, return>>
  /\ UNCHANGED <<recv, decode, play_status_, b_reset_time_, n_cache_to_play_time_, timeVars,
                 tickVars, b_got_eof_, b_paused_, inputs, got, out, dropped, told>>

\* Faulty variant: enough is cached only when both streams have enough.
NeedMoreDataOfBoth ==
  /\ reader = "need"
  /\ reader' = IF Lesser(Span(recv["audio"]), Span(recv["video"])) <= CacheingTime
               THEN "recv" ELSE "loop"
  /\ UNCHANGED <<recv, decode, play_status_, b_reset_time_, n_cache_to_play_time_, timeVars,
                 tickVars, return, needSeek, b_got_eof_, userVars, streamVars, out, dropped, told>>

NeedMoreData ==
  /\ reader = "need"
  /\ reader' = IF Greater(Span(recv["audio"]), Span(recv["video"])) <= CacheingTime
               THEN "recv" ELSE "loop"
  /\ UNCHANGED <<recv, decode, play_status_, b_reset_time_, n_cache_to_play_time_, timeVars,
                 tickVars, return, needSeek, b_got_eof_, userVars, streamVars, out, dropped, told>>

\* RecvAudioData, RecvVideoData: av_read_frame returned a packet.  The loop goes
\* on or, after a few packets, ends until the next call.
RecvData(s) ==
  /\ reader = "recv" /\ got[s] < MaxPacket
  /\ \E d \in (pos[s] + 1)..Lesser(pos[s] + MaxJump, MaxDts) :
       /\ recv' = [recv EXCEPT ![s] = Append(@, [n |-> got[s] + 1, dts |-> d])]
       /\ pos' = [pos EXCEPT ![s] = d]
  /\ got' = [got EXCEPT ![s] = @ + 1]
  /\ reader' \in {"need", "loop"}
  /\ UNCHANGED <<decode, play_status_, b_reset_time_, n_cache_to_play_time_, timeVars,
                 tickVars, return, needSeek, b_got_eof_, userVars, out, dropped, told>>

\* av_read_frame returned the end of the file, or an error that is ignored.
ReadEof ==
  /\ reader = "recv"
  /\ \/ b_got_eof_' = TRUE /\ reader' = "loop"
     \/ reader' \in {"need", "loop"} /\ UNCHANGED b_got_eof_
  /\ UNCHANGED <<recv, decode, play_status_, b_reset_time_, n_cache_to_play_time_, timeVars,
                 tickVars, return, needSeek, userVars, streamVars, out, dropped, told>>

\* BufferIsEmpty, one list after the other.
CheckList(q, here, next) ==
  /\ reader = here
  /\ reader' = IF q = <<>> THEN next ELSE "isPlaying"
  /\ UNCHANGED <<recv, decode, play_status_, b_reset_time_, n_cache_to_play_time_, timeVars,
                 tickVars, return, needSeek, b_got_eof_, userVars, streamVars, out, dropped, told>>

BufferIsEmpty ==
  \/ CheckList(recv["video"], "videoRecv", "audioRecv")
  \/ CheckList(recv["audio"], "audioRecv", "videoDecode")
  \/ CheckList(decode["video"], "videoDecode", "audioDecode")
  \/ CheckList(decode["audio"], "audioDecode", "closing")

\* Faulty variant: what is buffered at the end of the file waits to be played.
IsPlayingOrWait ==
  /\ reader = "isPlaying" /\ reader' = "loop"
  /\ UNCHANGED <<recv, decode, play_status_, b_reset_time_, n_cache_to_play_time_, timeVars,
                 tickVars, return, needSeek, b_got_eof_, userVars, streamVars, out, dropped, told>>

\* Not empty: what is left is played, or given up when nothing is playing.
IsPlaying ==
  /\ reader = "isPlaying"
  /\ \/ play_status_ = "Playing" /\ reader' = "loop" /\ UNCHANGED return
     \/ play_status_ # "Playing" /\ BeginClear("loop")
  /\ UNCHANGED <<recv, decode, play_status_, b_reset_time_, n_cache_to_play_time_, timeVars,
                 tickVars, needSeek, b_got_eof_, userVars, streamVars, out, dropped, told>>

\* CloseFFDecode, and the file is opened again if a seek asked for it.
Close ==
  /\ reader = "closing"
  /\ BeginClear(IF needSeek THEN "reopen" ELSE "closed")
  /\ UNCHANGED <<recv, decode, play_status_, b_reset_time_, n_cache_to_play_time_, timeVars,
                 tickVars, needSeek, b_got_eof_, userVars, streamVars, out, dropped, told>>

OpenFFDecode ==
  /\ reader = "reopen" /\ reader' = "loop"
  /\ b_got_eof_' = FALSE
  /\ pos' = [s \in Stream |-> n_seek_to_ - 1] /\ n_seek_to_' = 0
  /\ UNCHANGED <<recv, decode, play_status_, b_reset_time_, n_cache_to_play_time_, timeVars,
                 tickVars, return, needSeek, b_paused_, inputs, got, out, dropped, told>>

(***************************************************************************)
(* DoClear, by the reading thread.  play_status_ == PS_Init; in it has no  *)
(* effect.                                                                 *)
(***************************************************************************)
ClearRecv(s, here, next) ==
  /\ reader = here /\ reader' = next
  /\ recv' = [recv EXCEPT ![s] = <<>>]
  /\ dropped' = [dropped EXCEPT ![s] = @ \cup Numbers(recv[s])]
  /\ UNCHANGED <<decode, play_status_, b_reset_time_, n_cache_to_play_time_, timeVars,
                 tickVars, return, needSeek, b_got_eof_, userVars, streamVars, out, told>>

ClearDecode(s, here, next) ==
  /\ reader = here /\ reader' = next
  /\ decode' = [decode EXCEPT ![s] = <<>>]
  /\ dropped' = [dropped EXCEPT ![s] = @ \cup Numbers(decode[s])]
  /\ UNCHANGED <<recv, play_status_, b_reset_time_, n_cache_to_play_time_, timeVars,
                 tickVars, return, needSeek, b_got_eof_, userVars, streamVars, out, told>>

\* Faulty variant: the assignment play_status_ == PS_Init looks like.
ClearTimeAndStatus ==
  /\ reader = "clearTime" /\ reader' = "clearFlag"
  /\ play_status_' = "Init"
  /\ n_played_time_' = 0 /\ decode_data_time_' = 0 /\ last_dts' = None
  /\ UNCHANGED <<recv, decode, b_reset_time_, n_cache_to_play_time_, tickVars, return,
                 needSeek, b_got_eof_, userVars, streamVars, out, dropped, told>>

ClearTime ==
  /\ reader = "clearTime" /\ reader' = "clearFlag"
  /\ n_played_time_' = 0 /\ decode_data_time_' = 0 /\ last_dts' = None
  /\ UNCHANGED <<recv, decode, play_status_, b_reset_time_, n_cache_to_play_time_, tickVars,
                 return, needSeek, b_got_eof_, userVars, streamVars, out, dropped, told>>

ClearFlag ==
  /\ reader = "clearFlag" /\ reader' = return
  /\ b_reset_time_' = TRUE
  /\ UNCHANGED <<recv, decode, play_status_, n_cache_to_play_time_, timeVars, tickVars, return,
                 needSeek, b_got_eof_, userVars, streamVars, out, dropped, told>>

DoClear ==
  \/ ClearRecv("audio", "clearAudioRecv", "clearVideoRecv")
  \/ ClearRecv("video", "clearVideoRecv", "clearAudioDecode")
  \/ ClearDecode("audio", "clearAudioDecode", "clearVideoDecode")
  \/ ClearDecode("video", "clearVideoDecode", "clearTime")
  \/ ClearTime \/ ClearFlag

AtEof == BufferIsEmpty \/ IsPlaying \/ Close

ReadThreadProcess ==
  \/ ReadBegin \/ NeedMoreData \/ ReadEof \/ AtEof \/ OpenFFDecode \/ DoClear
  \/ \E s \in Source : RecvData(s)

(***************************************************************************)
(* The user.                                                               *)
(***************************************************************************)
SeekTo(d) ==
  /\ inputs < MaxInput /\ inputs' = inputs + 1
  /\ n_seek_to_' = d
  /\ UNCHANGED <<recv, decode, play_status_, b_reset_time_, n_cache_to_play_time_, timeVars,
                 tickVars, readVars, b_paused_, streamVars, out, dropped, told>>

\* A change of speed.
ResetTime ==
  /\ inputs < MaxInput /\ inputs' = inputs + 1
  /\ b_reset_time_' = TRUE
  /\ UNCHANGED <<recv, decode, play_status_, n_cache_to_play_time_, timeVars, tickVars,
                 readVars, n_seek_to_, b_paused_, streamVars, out, dropped, told>>

Pause ==
  /\ inputs < MaxInput /\ inputs' = inputs + 1
  /\ b_paused_' = ~b_paused_
  /\ UNCHANGED <<recv, decode, play_status_, b_reset_time_, n_cache_to_play_time_, timeVars,
                 tickVars, readVars, n_seek_to_, streamVars, out, dropped, told>>

User == (\E d \in 1..MaxDts : SeekTo(d)) \/ ResetTime \/ Pause

Next == RunOnce \/ ReadThreadProcess \/ User

Spec == Init /\ [][Next]_vars

(***************************************************************************)
(* Fairness: the audio device calls back for ever and the reading thread   *)
(* runs; between two ticks time passes now and again; the renderer wants   *)
(* more now and again.                                                     *)
(***************************************************************************)
FairSpec ==
  /\ Spec
  /\ WF_vars(RunOnce) /\ WF_vars(ReadThreadProcess)
  /\ SF_vars(\E gap \in 1..MaxGap : TickBegin(gap))
  /\ SF_vars(Decode("audio", "decodeAudio", "decodeVideo") /\ out' # out)
  /\ SF_vars(Decode("video", "decodeVideo", "idle") /\ out' # out)

-----------------------------------------------------------------------------
\* Every variable has its type, and what must be cached stays in its range.
TypeOK ==
  /\ recv \in [Stream -> Seq(Packet)] /\ decode \in [Stream -> Seq(Packet)]
  /\ hand \in [Stream -> Seq(Packet)]
  /\ play_status_ \in Status /\ told \in Status /\ b_reset_time_ \in BOOLEAN
  /\ n_cache_to_play_time_ \in MinCache..MaxCache
  /\ n_played_time_ \in 0..MaxDts /\ decode_data_time_ \in 0..MaxDts
  /\ last_dts \in [Stream -> 0..MaxDts]
  /\ tick \in TickPC /\ cached \in [Stream -> Int] /\ first \in [Stream -> 0..MaxDts]
  /\ due \in Nat /\ size \in [Stream -> Nat]
  /\ reader \in ReadPC /\ return \in ReadPC /\ needSeek \in BOOLEAN /\ b_got_eof_ \in BOOLEAN
  /\ n_seek_to_ \in 0..MaxDts /\ b_paused_ \in BOOLEAN /\ inputs \in 0..MaxInput
  /\ pos \in [Stream -> 0..MaxDts] /\ got \in [Stream -> 0..MaxPacket]
  /\ out \in [Stream -> 0..MaxPacket] /\ dropped \in [Stream -> SUBSET (1..MaxPacket)]

\* What the buffer holds of a stream, in the order it will be decoded.
Pipeline(s) == decode[s] \o hand[s] \o recv[s]

(***************************************************************************)
(* Packets of a stream are decoded in the order received, none twice, and  *)
(* none is lost but by DoClear, however the two threads interleave: what   *)
(* the tick has in its hands while the reading thread clears the lists     *)
(* still comes before everything read afterwards.                          *)
(***************************************************************************)
InOrderNoLoss ==
  \A s \in Stream :
    /\ \A i \in 1..(Len(Pipeline(s)) - 1) : Pipeline(s)[i].n < Pipeline(s)[i + 1].n
    /\ Numbers(Pipeline(s)) = ((out[s] + 1)..got[s]) \ dropped[s]

Abstract == INSTANCE PacketQueue WITH
  queue <- [s \in Stream |-> Pipeline(s)], received <- got, played <- out

(***************************************************************************)
(* The lists of a stream and what the tick has in its hands are one queue: *)
(* each locked region, of either thread, receives a packet at its back,    *)
(* plays one from its front, cuts an end off (DoClear), or leaves it as it *)
(* is.                                                                     *)
(***************************************************************************)
KeepsQueue == Abstract!Spec

(***************************************************************************)
(* Between ticks the application knows whether the player is loading: it   *)
(* is told of every stall and of the end of every stall, although the      *)
(* first start is not reported and DoClear may come at any time.           *)
(***************************************************************************)
StatusTold == tick = "idle" => ((play_status_ = "Caching") <=> (told = "Caching"))

(***************************************************************************)
(* However long the player is paused or stalled, the reading thread never  *)
(* buffers more of a stream than n_cacheing_time_ and one packet; of a     *)
(* file with one stream too.                                               *)
(***************************************************************************)
BufferBounded == \A s \in Stream : Span(recv[s]) <= CacheingTime + MaxJump

(***************************************************************************)
(* At the end of the file, unless it is paused for good, the player gets   *)
(* to close or to the seek that was asked for: what is buffered is played, *)
(* or given up when it is less than what must be cached.                   *)
(***************************************************************************)
EofCloses ==
  <>[]~b_paused_ => (b_got_eof_ ~> (reader = "closed" \/ ~b_got_eof_))

(***************************************************************************)
(* "After the cache is cleared, the time must be reset" says DoClear: once *)
(* the reset is done, a player that has packets plays from the dts of one. *)
(***************************************************************************)
TimeIsReset ==
  tick = "idle" /\ play_status_ = "Playing" /\ ~b_reset_time_ /\ reader \notin Clearing
    => decode_data_time_ # 0 \/ recv = Empty

=============================================================================
