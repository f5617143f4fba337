--------------------------- MODULE FFBufferProofs ---------------------------
(***************************************************************************)
(* Proofs about FFBuffer, for any file, any limits and any interleaving of *)
(* the reading thread, the audio device's thread and the user.             *)
(***************************************************************************)
EXTENDS FFBuffer, FiniteSetTheorems, SequenceTheorems, TLAPS

-----------------------------------------------------------------------------
(***************************************************************************)
(* What the operators on lists of packets return.                          *)
(***************************************************************************)
\* A list that is not empty has a head, a last packet and a tail.
LEMMA ListFacts ==
  ASSUME NEW q \in Seq(Packet)
  PROVE  /\ Len(q) \in Nat
         /\ \A i \in 1..Len(q) : q[i].n \in 1..MaxPacket /\ q[i].dts \in 1..MaxDts
         /\ q # <<>> => /\ Len(q) >= 1
                        /\ Head(q) = q[1] /\ Last(q) = q[Len(q)] /\ Head(q) \in Packet
                        /\ Head(q).n \in 1..MaxPacket /\ Head(q).dts \in 1..MaxDts
                        /\ Tail(q) \in Seq(Packet) /\ Len(Tail(q)) = Len(q) - 1
                        /\ \A i \in 1..(Len(q) - 1) : Tail(q)[i] = q[i + 1]
<1>1. Len(q) \in Nat /\ \A i \in 1..Len(q) : q[i] \in Packet
  BY ElementOfSeq
<1>2. \A i \in 1..Len(q) : q[i].n \in 1..MaxPacket /\ q[i].dts \in 1..MaxDts
  BY <1>1 DEF Packet
<1>3. ASSUME q # <<>>
      PROVE  /\ Len(q) >= 1
             /\ Head(q) = q[1] /\ Last(q) = q[Len(q)] /\ Head(q) \in Packet
             /\ Head(q).n \in 1..MaxPacket /\ Head(q).dts \in 1..MaxDts
             /\ Tail(q) \in Seq(Packet) /\ Len(Tail(q)) = Len(q) - 1
             /\ \A i \in 1..(Len(q) - 1) : Tail(q)[i] = q[i + 1]
  BY <1>1, <1>2, <1>3, HeadTailProperties, EmptySeq DEF Last
<1>4. QED
  BY <1>1, <1>2, <1>3

\* What is left of a list when k packets are taken from its head.
LEMMA RestFacts ==
  ASSUME NEW q \in Seq(Packet), NEW k \in 0..Len(q)
  PROVE  /\ SubSeq(q, 1, k) \in Seq(Packet)
         /\ SubSeq(q, k + 1, Len(q)) \in Seq(Packet)
         /\ Len(SubSeq(q, k + 1, Len(q))) = Len(q) - k
         /\ \A i \in 1..(Len(q) - k) : SubSeq(q, k + 1, Len(q))[i] = q[k + i]
         /\ SubSeq(q, 1, k) \o SubSeq(q, k + 1, Len(q)) = q
<1>1. Len(q) \in Nat /\ \A i \in 1..Len(q) : q[i] \in Packet
  BY ElementOfSeq
<1>2. SubSeq(q, 1, k) \in Seq(Packet)
  BY <1>1, SubSeqProperties
<1>3. /\ SubSeq(q, k + 1, Len(q)) \in Seq(Packet)
      /\ Len(SubSeq(q, k + 1, Len(q))) = Len(q) - k
      /\ \A i \in 1..(Len(q) - k) : SubSeq(q, k + 1, Len(q))[i] = q[k + i]
  <2>1. \A i \in (k + 1)..Len(q) : q[i] \in Packet
    BY <1>1
  <2>2. k + 1 \in Int /\ Len(q) \in Int
    BY <1>1
  <2>3. /\ SubSeq(q, k + 1, Len(q)) \in Seq(Packet)
        /\ Len(SubSeq(q, k + 1, Len(q))) =
             IF k + 1 <= Len(q) THEN Len(q) - (k + 1) + 1 ELSE 0
        /\ \A i \in 1..(Len(q) - (k + 1) + 1) :
             SubSeq(q, k + 1, Len(q))[i] = q[k + 1 + i - 1]
    BY <2>1, <2>2, SubSeqProperties
  <2>4. QED
    BY <1>1, <2>3
<1>4. SubSeq(q, 1, k) \o SubSeq(q, k + 1, Len(q)) = q
  <2>1. 1 \in 1..(Len(q) + 1) /\ k \in (1 - 1)..Len(q) /\ Len(q) \in k..Len(q)
    BY <1>1
  <2>2. SubSeq(q, 1, k) \o SubSeq(q, k + 1, Len(q)) = SubSeq(q, 1, Len(q))
    BY <2>1, ConcatAdjacentSubSeq
  <2>3. QED
    BY <2>2, SubSeqFull
<1>5. QED
  BY <1>2, <1>3, <1>4

\* No more packets are due than there are.
LEMMA DueCountRange ==
  ASSUME NEW q \in Seq(Packet)
  PROVE  DueCount(q) \in 0..Len(q)
<1> DEFINE D == {k \in 1..Len(q) : \A j \in 1..k : q[j].dts <= due}
<1>1. Len(q) \in Nat
  BY ListFacts
<1>2. IsFiniteSet(1..Len(q)) /\ Cardinality(1..Len(q)) = Len(q)
  BY <1>1, FS_Interval
<1>3. D \subseteq 1..Len(q)
  OBVIOUS
<1>4. Cardinality(D) <= Cardinality(1..Len(q)) /\ IsFiniteSet(D)
  BY <1>2, <1>3, FS_Subset
<1>5. Cardinality(D) \in Nat
  BY <1>4, FS_CardinalityType
<1>6. QED
  BY <1>1, <1>2, <1>4, <1>5 DEF DueCount

\* The packets of a list are packets of the stream.
LEMMA NumbersRange ==
  ASSUME NEW q \in Seq(Packet)
  PROVE  Numbers(q) \subseteq 1..MaxPacket
<1>1. \A i \in 1..Len(q) : q[i].n \in 1..MaxPacket
  BY ListFacts
<1>2. QED
  BY <1>1 DEF Numbers

\* What a list spans is a number.
LEMMA SpanType ==
  ASSUME NEW q \in Seq(Packet)
  PROVE  Span(q) \in Int
BY ListFacts DEF Span

-----------------------------------------------------------------------------
(***************************************************************************)
(* Types.  OpenFFDecode seeks to n_seek_to_ - 1, which is a position only  *)
(* because a reader that is to open the file again was asked for a seek.   *)
(***************************************************************************)
Reopening ==
  \/ reader = "reopen"
  \/ reader \in Clearing /\ return = "reopen"
  \/ needSeek /\ reader \in Checking \cup {"closing"}
  \/ needSeek /\ reader \in Clearing /\ return = "videoRecv"

SeekInv ==
  /\ return \in {"loop", "need", "videoRecv", "reopen", "closed"}
  /\ Reopening => n_seek_to_ # 0

\* The player starts with empty lists and no seek.
LEMMA TypeInit == Init => TypeOK /\ SeekInv
<1> SUFFICES ASSUME Init PROVE TypeOK /\ SeekInv
  OBVIOUS
<1>1. <<>> \in Seq(Packet)
  BY EmptySeq
<1>2. recv \in [Stream -> Seq(Packet)] /\ decode \in [Stream -> Seq(Packet)] /\ hand \in [Stream -> Seq(Packet)]
  BY <1>1 DEF Init, Empty
<1>3. TypeOK
  <2>1. 0 \in 0..MaxDts /\ 0 \in 0..MaxPacket /\ 0 \in 0..MaxInput /\ MinCache \in MinCache..MaxCache
    BY CacheAssumption, BoundAssumption
  <2>2. None \in [Stream -> 0..MaxDts] /\ None \in [Stream -> 0..MaxPacket]
        /\ None \in [Stream -> Nat] /\ None \in [Stream -> Int]
    BY <2>1 DEF None
  <2>3. dropped \in [Stream -> SUBSET (1..MaxPacket)]
    BY DEF Init
  <2>4. QED
    BY <1>2, <2>1, <2>2, <2>3 DEF Init, TypeOK, Status, TickPC, ReadPC
<1>4. SeekInv
  BY DEF Init, SeekInv, Reopening, Clearing, Checking
<1>5. QED
  BY <1>3, <1>4

\* Every step of the reading thread and the user keeps the reason to seek.
LEMMA SeekStep == TypeOK /\ SeekInv /\ [Next]_vars => SeekInv'
<1> SUFFICES ASSUME TypeOK, SeekInv, [Next]_vars PROVE SeekInv'
  OBVIOUS
<1> USE DEF SeekInv, Reopening, Clearing, Checking
<1>1. CASE RunOnce
  BY <1>1 DEF RunOnce, TickBegin, Peek, Decide, Take, Push, Finish, Decode, readVars, userVars
<1>2. CASE ReadBegin
  BY <1>2 DEF ReadBegin, BeginClear
<1>3. CASE NeedMoreData
  BY <1>3 DEF NeedMoreData, userVars
<1>4. CASE ReadEof
  BY <1>4 DEF ReadEof, userVars
<1>5. CASE BufferIsEmpty
  BY <1>5 DEF BufferIsEmpty, CheckList, userVars
<1>6. CASE IsPlaying
  BY <1>6 DEF IsPlaying, BeginClear, userVars
<1>7. CASE Close
  <2>1. CASE needSeek
    BY <1>7, <2>1 DEF Close, BeginClear, userVars
  <2>2. CASE ~needSeek
    BY <1>7, <2>2 DEF Close, BeginClear, userVars
  <2>3. QED
    BY <2>1, <2>2
<1>8. CASE OpenFFDecode
  BY <1>8 DEF OpenFFDecode
<1>9. CASE DoClear
  BY <1>9 DEF DoClear, ClearRecv, ClearDecode, ClearTime, ClearFlag, userVars
<1>10. CASE \E s \in Source : RecvData(s)
  BY <1>10 DEF RecvData, userVars
<1>11. CASE User
  BY <1>11, BoundAssumption DEF User, SeekTo, ResetTime, Pause, readVars
<1>12. CASE UNCHANGED vars
  BY <1>12 DEF vars, readVars, userVars
<1>13. QED
  BY <1>1, <1>2, <1>3, <1>4, <1>5, <1>6, <1>7, <1>8, <1>9, <1>10, <1>11, <1>12
     DEF Next, ReadThreadProcess, AtEof

\* Every step of the two threads and the user keeps the types.
LEMMA TypeStep == TypeOK /\ SeekInv /\ [Next]_vars => TypeOK'
<1> SUFFICES ASSUME TypeOK, SeekInv, [Next]_vars PROVE TypeOK'
  OBVIOUS
<1> USE SourceAssumption, CacheAssumption, BoundAssumption
<1> DEFINE Lists(l) == l \in [Stream -> Seq(Packet)]
<1>0. /\ \A s \in Stream : recv[s] \in Seq(Packet) /\ decode[s] \in Seq(Packet)
                           /\ hand[s] \in Seq(Packet)
      /\ "audio" \in Stream /\ "video" \in Stream
      /\ 0 \in 0..MaxDts
  BY DEF TypeOK, Stream
<1> DEFINE Ranges == /\ recv \in [Stream -> Seq(Packet)] /\ decode \in [Stream -> Seq(Packet)]
                     /\ hand \in [Stream -> Seq(Packet)]
                     /\ last_dts \in [Stream -> 0..MaxDts] /\ first \in [Stream -> 0..MaxDts]
                     /\ pos \in [Stream -> 0..MaxDts] /\ got \in [Stream -> 0..MaxPacket]
                     /\ out \in [Stream -> 0..MaxPacket]
                     /\ dropped \in [Stream -> SUBSET (1..MaxPacket)]
                     /\ n_seek_to_ \in 0..MaxDts /\ inputs \in 0..MaxInput
                     /\ n_played_time_ \in 0..MaxDts /\ decode_data_time_ \in 0..MaxDts
<1>a. Ranges
  BY DEF TypeOK
<1>1. ASSUME NEW gap \in 0..MaxGap, TickBegin(gap) PROVE TypeOK'
  <2>1. n_played_time_' \in 0..MaxDts /\ due' \in Nat
    <3>1. CASE play_status_ = "Playing" /\ ~b_reset_time_ /\ ~b_paused_
      BY <1>1, <3>1 DEF TickBegin, TypeOK, Lesser
    <3>2. CASE ~(play_status_ = "Playing" /\ ~b_reset_time_ /\ ~b_paused_)
      BY <1>1, <3>2 DEF TickBegin, TypeOK
    <3>3. QED
      BY <3>1, <3>2
  <2>2. tick' \in TickPC
    BY <1>1 DEF TickBegin, TickPC
  <2>3. QED
    BY <1>1, <2>1, <2>2 DEF TickBegin, TypeOK, readVars, userVars, streamVars
<1>2. ASSUME NEW s \in Stream, NEW here, NEW next \in TickPC, Peek(s, here, next)
      PROVE TypeOK'
  <2>1. Span(recv[s]) \in Int
    BY <1>0, SpanType
  <2>2. (IF recv[s] = <<>> THEN 0 ELSE Head(recv[s]).dts) \in 0..MaxDts
    BY <1>0, ListFacts
  <2>3. cached' \in [Stream -> Int] /\ first' \in [Stream -> 0..MaxDts]
    BY <1>2, <2>1, <2>2 DEF Peek, TypeOK
  <2>4. QED
    BY <1>2, <2>3 DEF Peek, TypeOK, timeVars, readVars, userVars, streamVars
<1>3. CASE Decide
  <2>1. n_played_time_' \in 0..MaxDts /\ decode_data_time_' \in 0..MaxDts
    BY <1>3, <1>0, <1>a DEF Decide, StartTime
  <2>2. play_status_' \in Status /\ told' \in Status /\ b_reset_time_' \in BOOLEAN
    BY <1>3 DEF Decide, TypeOK, Status
  <2>3. cached' \in [Stream -> Int] /\ first' \in [Stream -> 0..MaxDts] /\ tick' \in TickPC
    BY <1>3 DEF Decide, None, TickPC
  <2>4. QED
    BY <1>3, <2>1, <2>2, <2>3 DEF Decide, TypeOK, readVars, userVars, streamVars
<1>4. ASSUME NEW s \in Stream, NEW here, NEW next \in TickPC, Take(s, here, next)
      PROVE TypeOK'
  <2> DEFINE k == DueCount(recv[s])
  <2>1. k \in 0..Len(recv[s])
    BY <1>0, DueCountRange
  <2>2. /\ SubSeq(recv[s], 1, k) \in Seq(Packet)
        /\ SubSeq(recv[s], k + 1, Len(recv[s])) \in Seq(Packet)
        /\ Len(recv[s]) \in Nat
    BY <2>1, <1>0, RestFacts, ListFacts
  <2>3. Lists(hand') /\ Lists(recv') /\ size' \in [Stream -> Nat]
    BY <1>4, <2>2 DEF Take, TypeOK
  <2>4. b_reset_time_' \in BOOLEAN
    BY <1>4 DEF Take, TypeOK, Leap
  <2>5. QED
    BY <1>4, <2>3, <2>4 DEF Take, TypeOK, timeVars, readVars, userVars, streamVars
<1>5. ASSUME NEW s \in Stream, NEW here, NEW next \in TickPC, Push(s, here, next)
      PROVE TypeOK'
  <2>1. CASE hand[s] # <<>>
    <3>1. Head(hand[s]) \in Packet /\ Tail(hand[s]) \in Seq(Packet) /\ Head(hand[s]).dts \in 0..MaxDts
      BY <2>1, <1>0, ListFacts
    <3>2. Append(decode[s], Head(hand[s])) \in Seq(Packet)
      BY <3>1, <1>0, AppendProperties
    <3>3. Lists(hand') /\ Lists(decode') /\ last_dts' \in [Stream -> 0..MaxDts]
      <4>1. /\ last_dts' = [last_dts EXCEPT ![s] = Head(hand[s]).dts]
            /\ decode' = [decode EXCEPT ![s] = Append(decode[s], Head(hand[s]))]
            /\ hand' = [hand EXCEPT ![s] = Tail(hand[s])]
        BY <1>5, <2>1 DEF Push
      <4>2. QED
        BY <4>1, <3>1, <3>2, <1>a
    <3>4. QED
      BY <1>5, <2>1, <3>3 DEF Push, TypeOK, timeVars, readVars, userVars, streamVars
  <2>2. CASE hand[s] = <<>>
    BY <1>5, <2>2 DEF Push, TypeOK, timeVars, readVars, userVars, streamVars
  <2>3. QED
    BY <2>1, <2>2
<1>6. CASE Finish
  <2>1. n_cache_to_play_time_' \in MinCache..MaxCache
    BY <1>6 DEF Finish, TypeOK, Lesser
  <2>2. play_status_' \in Status /\ told' \in Status /\ tick' \in TickPC
    BY <1>6 DEF Finish, TypeOK, Status, TickPC
  <2>3. size' \in [Stream -> Nat] /\ due' \in Nat
    BY <1>6 DEF Finish, None
  <2>4. QED
    BY <1>6, <2>1, <2>2, <2>3 DEF Finish, TypeOK, timeVars, readVars, userVars, streamVars
<1>7. ASSUME NEW s \in Stream, NEW here, NEW next \in TickPC, Decode(s, here, next)
      PROVE TypeOK'
  <2>1. CASE tick' = next /\ UNCHANGED <<out, decode>>
    BY <1>7, <2>1 DEF Decode, TypeOK, timeVars, readVars, userVars, streamVars
  <2>2. CASE decode[s] # <<>> /\ out' = [out EXCEPT ![s] = Head(decode[s]).n]
             /\ decode' = [decode EXCEPT ![s] = Tail(@)] /\ UNCHANGED tick
    <3>1. Tail(decode[s]) \in Seq(Packet) /\ Head(decode[s]).n \in 0..MaxPacket
      BY <2>2, <1>0, ListFacts
    <3>2. Lists(decode') /\ out' \in [Stream -> 0..MaxPacket]
      BY <2>2, <3>1 DEF TypeOK
    <3>3. QED
      BY <1>7, <2>2, <3>2 DEF Decode, TypeOK, timeVars, readVars, userVars, streamVars
  <2>3. QED
    BY <1>7, <2>1, <2>2 DEF Decode
<1>8. CASE ReadBegin
  <2>1. pos' \in [Stream -> 0..MaxDts] /\ n_seek_to_' \in 0..MaxDts
    <3>1. CASE n_seek_to_ # 0 /\ ~b_got_eof_
      <4>1. pos' = [t \in Stream |-> n_seek_to_ - 1] /\ n_seek_to_' = 0
        BY <1>8, <3>1 DEF ReadBegin
      <4>2. n_seek_to_ - 1 \in 0..MaxDts
        BY <3>1, <1>a
      <4>3. QED
        BY <4>1, <4>2, <1>0
    <3>2. CASE ~(n_seek_to_ # 0 /\ ~b_got_eof_)
      BY <1>8, <3>2, <1>a DEF ReadBegin
    <3>3. QED
      BY <3>1, <3>2
  <2>2. reader' \in ReadPC /\ return' \in ReadPC /\ needSeek' \in BOOLEAN
    BY <1>8 DEF ReadBegin, BeginClear, TypeOK, ReadPC, Clearing, Checking
  <2>3. QED
    BY <1>8, <2>1, <2>2 DEF ReadBegin, TypeOK, timeVars, tickVars
<1>9. CASE NeedMoreData
  <2>1. reader' \in ReadPC
    BY <1>9 DEF NeedMoreData, ReadPC
  <2>2. QED
    BY <1>9, <2>1 DEF NeedMoreData, TypeOK, timeVars, tickVars, userVars, streamVars
<1>10. ASSUME NEW s \in Source, RecvData(s) PROVE TypeOK'
  <2>1. s \in Stream
    OBVIOUS
  <2>2. PICK d \in (pos[s] + 1)..Lesser(pos[s] + MaxJump, MaxDts) :
          /\ recv' = [recv EXCEPT ![s] = Append(@, [n |-> got[s] + 1, dts |-> d])]
          /\ pos' = [pos EXCEPT ![s] = d]
    BY <1>10 DEF RecvData
  <2>3. pos[s] \in 0..MaxDts /\ got[s] \in 0..MaxPacket /\ got[s] < MaxPacket
    BY <1>10, <2>1 DEF RecvData, TypeOK
  <2>4. d \in 1..MaxDts /\ got[s] + 1 \in 1..MaxPacket
    BY <2>3 DEF Lesser
  <2>5. Append(recv[s], [n |-> got[s] + 1, dts |-> d]) \in Seq(Packet)
    BY <2>1, <2>4, <1>0, AppendProperties DEF Packet
  <2>6. Lists(recv') /\ pos' \in [Stream -> 0..MaxDts] /\ got' \in [Stream -> 0..MaxPacket]
    <3>1. d \in 0..MaxDts /\ got[s] + 1 \in 0..MaxPacket
      BY <2>4
    <3>2. got' = [got EXCEPT ![s] = @ + 1]
      BY <1>10 DEF RecvData
    <3>3. QED
      BY <2>1, <2>2, <3>1, <3>2, <2>5, <1>a
  <2>7. reader' \in ReadPC
    BY <1>10 DEF RecvData, ReadPC
  <2>8. QED
    BY <1>10, <2>6, <2>7 DEF RecvData, TypeOK, timeVars, tickVars, userVars
<1>11. CASE ReadEof
  <2>1. reader' \in ReadPC /\ b_got_eof_' \in BOOLEAN
    BY <1>11 DEF ReadEof, ReadPC, TypeOK
  <2>2. QED
    BY <1>11, <2>1 DEF ReadEof, TypeOK, timeVars, tickVars, userVars, streamVars
<1>12. CASE BufferIsEmpty
  <2>1. reader' \in ReadPC
    BY <1>12 DEF BufferIsEmpty, CheckList, ReadPC, Checking
  <2>2. QED
    BY <1>12, <2>1 DEF BufferIsEmpty, CheckList, TypeOK, timeVars, tickVars, userVars, streamVars
<1>13. CASE IsPlaying
  <2>1. reader' \in ReadPC /\ return' \in ReadPC
    BY <1>13 DEF IsPlaying, BeginClear, ReadPC, Clearing, TypeOK
  <2>2. QED
    BY <1>13, <2>1 DEF IsPlaying, TypeOK, timeVars, tickVars, userVars, streamVars
<1>14. CASE Close
  <2>1. reader' \in ReadPC /\ return' \in ReadPC
    BY <1>14 DEF Close, BeginClear, ReadPC, Clearing
  <2>2. QED
    BY <1>14, <2>1 DEF Close, TypeOK, timeVars, tickVars, userVars, streamVars
<1>15. CASE OpenFFDecode
  <2>1. n_seek_to_ # 0
    BY <1>15 DEF OpenFFDecode, SeekInv, Reopening
  <2>2. pos' \in [Stream -> 0..MaxDts] /\ reader' \in ReadPC
    BY <1>15, <2>1 DEF OpenFFDecode, TypeOK, ReadPC
  <2>3. QED
    BY <1>15, <2>2, <1>0 DEF OpenFFDecode, TypeOK, timeVars, tickVars
<1>16. ASSUME NEW s \in Stream, NEW here, NEW next \in ReadPC,
              ClearRecv(s, here, next) \/ ClearDecode(s, here, next)
       PROVE TypeOK'
  <2>1. Numbers(recv[s]) \subseteq 1..MaxPacket /\ Numbers(decode[s]) \subseteq 1..MaxPacket
    BY <1>0, NumbersRange
  <2>2. <<>> \in Seq(Packet)
    BY EmptySeq
  <2>3. dropped' \in [Stream -> SUBSET (1..MaxPacket)]
    <3>1. dropped[s] \cup Numbers(recv[s]) \in SUBSET (1..MaxPacket)
          /\ dropped[s] \cup Numbers(decode[s]) \in SUBSET (1..MaxPacket)
      BY <2>1, <1>a
    <3>2. QED
      BY <1>16, <3>1, <1>a DEF ClearRecv, ClearDecode
  <2>4. Lists(recv') /\ Lists(decode')
    BY <1>16, <2>2 DEF ClearRecv, ClearDecode, TypeOK
  <2>5. QED
    BY <1>16, <2>3, <2>4 DEF ClearRecv, ClearDecode, TypeOK, timeVars, tickVars, userVars, streamVars
<1>17. CASE ClearTime \/ ClearFlag
  <2>1. reader' \in ReadPC
    BY <1>17 DEF ClearTime, ClearFlag, ReadPC, Clearing, TypeOK
  <2>2. n_played_time_' \in 0..MaxDts /\ decode_data_time_' \in 0..MaxDts
        /\ last_dts' \in [Stream -> 0..MaxDts]
    BY <1>17 DEF ClearTime, ClearFlag, None, TypeOK, timeVars
  <2>3. QED
    BY <1>17, <2>1, <2>2 DEF ClearTime, ClearFlag, TypeOK, tickVars, userVars, streamVars
<1>18. CASE User
  <2>1. inputs' \in 0..MaxInput
    BY <1>18, <1>a DEF User, SeekTo, ResetTime, Pause
  <2>2. n_seek_to_' \in 0..MaxDts
    BY <1>18, <1>a DEF User, SeekTo, ResetTime, Pause
  <2>a. b_reset_time_' \in BOOLEAN /\ b_paused_' \in BOOLEAN
    BY <1>18 DEF User, SeekTo, ResetTime, Pause, TypeOK
  <2>3. QED
    BY <1>18, <2>1, <2>2, <2>a
       DEF User, SeekTo, ResetTime, Pause, TypeOK, timeVars, tickVars, readVars, streamVars
<1>19. CASE UNCHANGED vars
  BY <1>19 DEF vars, TypeOK, timeVars, tickVars, readVars, userVars, streamVars
<1>20. CASE RunOnce
  BY <1>20, <1>0, <1>1, <1>2, <1>3, <1>4, <1>5, <1>6, <1>7 DEF RunOnce, TickPC
<1>21. CASE DoClear
  BY <1>21, <1>0, <1>16, <1>17 DEF DoClear, ReadPC, Clearing
<1>22. QED
  BY <1>8, <1>9, <1>10, <1>11, <1>12, <1>13, <1>14, <1>15, <1>18, <1>19, <1>20, <1>21
     DEF Next, ReadThreadProcess, AtEof

(***************************************************************************)
(* Every variable keeps its type; in particular what must be cached before *)
(* playing stays between its two limits through any number of stalls.      *)
(***************************************************************************)
THEOREM TypeCorrect == Spec => [](TypeOK /\ SeekInv)
<1>1. Init => TypeOK /\ SeekInv
  BY TypeInit
<1>2. TypeOK /\ SeekInv /\ [Next]_vars => (TypeOK /\ SeekInv)'
  BY TypeStep, SeekStep
<1>3. QED
  BY <1>1, <1>2, PTL DEF Spec

-----------------------------------------------------------------------------
(***************************************************************************)
(* The status.  What the application was told agrees with the status at    *)
(* every step, because no step of DoClear touches it.                      *)
(***************************************************************************)
StatusInv == (play_status_ = "Caching") <=> (told = "Caching")

\* Only a tick changes the status, and it reports all but the first start.
LEMMA StatusStep == StatusInv /\ [Next]_vars => StatusInv'
<1> SUFFICES ASSUME StatusInv, [Next]_vars PROVE StatusInv'
  OBVIOUS
<1> USE DEF StatusInv
<1>1. CASE Decide
  BY <1>1 DEF Decide
<1>2. CASE Finish
  BY <1>2 DEF Finish
<1>3. CASE UNCHANGED <<play_status_, told>>
  BY <1>3
<1>4. CASE RunOnce
  BY <1>4, <1>1, <1>2, <1>3 DEF RunOnce, TickBegin, Peek, Take, Push, Decode
<1>5. CASE ReadThreadProcess
  <2>1. UNCHANGED <<play_status_, told>>
    BY <1>5 DEF ReadThreadProcess, ReadBegin, NeedMoreData, ReadEof, AtEof, BufferIsEmpty,
                CheckList, IsPlaying, Close, OpenFFDecode, DoClear, ClearRecv, ClearDecode,
                ClearTime, ClearFlag, RecvData
  <2>2. QED
    BY <2>1, <1>3
<1>6. CASE User
  BY <1>6, <1>3 DEF User, SeekTo, ResetTime, Pause
<1>7. CASE UNCHANGED vars
  BY <1>7, <1>3 DEF vars
<1>8. QED
  BY <1>4, <1>5, <1>6, <1>7 DEF Next

(***************************************************************************)
(* Between ticks the application knows whether the player is loading,      *)
(* wherever the first start and the clears of the buffer fall.             *)
(***************************************************************************)
THEOREM ToldOfStalls == Spec => []StatusTold
<1>1. Init => StatusInv
  BY DEF Init, StatusInv
<1>2. StatusInv => StatusTold
  BY DEF StatusInv, StatusTold
<1>3. QED
  BY <1>1, <1>2, StatusStep, PTL DEF Spec

-----------------------------------------------------------------------------
(***************************************************************************)
(* The bound on what is read ahead.  The list of a stream is in the order  *)
(* of its dts and ends at the position of the demuxer, except from a seek  *)
(* until DoClear has emptied it; while the reading thread is about to read *)
(* no stream holds more than n_cacheing_time_.                             *)
(***************************************************************************)
Sorted(q) == \A i, j \in 1..Len(q) : i <= j => q[i].dts <= q[j].dts

\* DoClear has passed the list of the stream.
Passed(s) ==
  \/ reader \in {"clearAudioDecode", "clearVideoDecode", "clearTime", "clearFlag", "reopen"}
  \/ reader = "clearVideoRecv" /\ s = "audio"

Unclear(s) == reader = "clearAudioRecv" \/ (reader = "clearVideoRecv" /\ s = "video")

AheadInv ==
  \A s \in Stream :
    /\ Sorted(recv[s])
    /\ Passed(s) => recv[s] = <<>>
    /\ recv[s] # <<>> /\ ~Unclear(s) => Last(recv[s]).dts = pos[s]
    /\ Span(recv[s]) <= CacheingTime + MaxJump
    /\ reader = "recv" => Span(recv[s]) <= CacheingTime

\* Taking packets from the head of a list keeps its order and its end.
LEMMA RestKeeps ==
  ASSUME NEW q \in Seq(Packet), NEW k \in 0..Len(q), Sorted(q)
  PROVE  LET r == SubSeq(q, k + 1, Len(q)) IN
         /\ Sorted(r) /\ Span(r) <= Span(q)
         /\ r # <<>> => q # <<>> /\ Last(r) = Last(q)
<1> DEFINE r == SubSeq(q, k + 1, Len(q))
<1>1. /\ r \in Seq(Packet) /\ Len(r) = Len(q) - k /\ Len(q) \in Nat
      /\ \A i \in 1..(Len(q) - k) : r[i] = q[k + i]
  BY RestFacts, ListFacts
<1>2. \A i \in 1..Len(q) : q[i].dts \in 1..MaxDts
  BY ListFacts
<1> HIDE DEF r
<1>3. Sorted(r)
  BY <1>1 DEF Sorted
<1>4. ASSUME r # <<>> PROVE q # <<>> /\ Last(r) = Last(q) /\ Span(r) <= Span(q)
  <2>1. Len(r) >= 1 /\ Head(r) = r[1] /\ Last(r) = r[Len(r)]
    BY <1>1, <1>4, ListFacts
  <2>2. Len(q) >= 1 /\ Len(q) - k >= 1
    BY <1>1, <2>1
  <2>3. q # <<>>
    BY <2>2, EmptySeq
  <2>4. Head(q) = q[1] /\ Last(q) = q[Len(q)]
    BY <2>3, ListFacts
  <2>5. Head(r) = q[k + 1] /\ Last(r) = q[Len(q)]
    <3>1. r[1] = q[k + 1] /\ r[Len(q) - k] = q[k + (Len(q) - k)]
      BY <1>1, <2>2
    <3>2. k + (Len(q) - k) = Len(q)
      BY <1>1
    <3>3. QED
      BY <2>1, <1>1, <3>1, <3>2
  <2>6. q[1].dts <= q[k + 1].dts
    BY <1>1, <2>2 DEF Sorted
  <2>7. q[1].dts \in Int /\ q[k + 1].dts \in Int /\ q[Len(q)].dts \in Int
    BY <1>1, <1>2, <2>2
  <2>8. Span(r) = q[Len(q)].dts - q[k + 1].dts /\ Span(q) = q[Len(q)].dts - q[1].dts
    BY <1>4, <2>3, <2>4, <2>5 DEF Span
  <2>9. QED
    BY <2>3, <2>4, <2>5, <2>6, <2>7, <2>8
<1>5. ASSUME r = <<>> PROVE Span(r) <= Span(q)
  <2>1. CASE q = <<>>
    BY <2>1, <1>5 DEF Span
  <2>2. CASE q # <<>>
    <3>1. Len(q) >= 1 /\ Head(q) = q[1] /\ Last(q) = q[Len(q)]
      BY <2>2, ListFacts
    <3>2. q[1].dts <= q[Len(q)].dts
      BY <3>1, <1>1 DEF Sorted
    <3>3. QED
      BY <1>5, <2>2, <3>1, <3>2, <1>1, <1>2 DEF Span
  <2>3. QED
    BY <2>1, <2>2
<1>6. QED
  BY <1>3, <1>4, <1>5 DEF r

\* A packet at most MaxJump after the last one.
LEMMA AppendKeeps ==
  ASSUME NEW q \in Seq(Packet), NEW e \in Packet, Sorted(q),
         q # <<>> => Last(q).dts < e.dts /\ e.dts <= Last(q).dts + MaxJump,
         Span(q) <= CacheingTime
  PROVE  Sorted(Append(q, e)) /\ Span(Append(q, e)) <= CacheingTime + MaxJump
<1> DEFINE r == Append(q, e)
<1>1. /\ r \in Seq(Packet) /\ r # <<>> /\ Len(r) = Len(q) + 1 /\ Len(q) \in Nat
      /\ \A i \in 1..Len(q) : r[i] = q[i]
      /\ r[Len(q) + 1] = e
  BY AppendProperties, ListFacts
<1>2. \A i \in 1..Len(q) : q[i].dts \in 1..MaxDts
  BY ListFacts
<1>3. e.dts \in 1..MaxDts
  BY DEF Packet
<1>4. Head(r) = r[1] /\ Last(r) = r[Len(r)]
  BY <1>1, ListFacts
<1> HIDE DEF r
<1>5. \A i \in 1..Len(q) : q[i].dts <= e.dts
  <2> TAKE i \in 1..Len(q)
  <2>1. q # <<>> /\ Len(q) >= 1
    BY <1>1, EmptySeq
  <2>2. q[i].dts <= q[Len(q)].dts /\ Last(q) = q[Len(q)]
    BY <2>1, <1>1, ListFacts DEF Sorted
  <2>3. QED
    BY <2>1, <2>2, <1>1, <1>2, <1>3
<1>6. Sorted(r)
  <2> SUFFICES ASSUME NEW i \in 1..Len(r), NEW j \in 1..Len(r), i <= j
               PROVE  r[i].dts <= r[j].dts
    BY DEF Sorted
  <2>1. CASE j \in 1..Len(q)
    BY <2>1, <1>1 DEF Sorted
  <2>2. CASE j = Len(q) + 1 /\ i \in 1..Len(q)
    BY <2>2, <1>1, <1>5
  <2>3. CASE j = Len(q) + 1 /\ i = Len(q) + 1
    BY <2>3, <1>1, <1>3
  <2>4. QED
    BY <2>1, <2>2, <2>3, <1>1
<1>7. Span(r) <= CacheingTime + MaxJump
  <2>1. Span(r) = e.dts - r[1].dts
    BY <1>1, <1>4 DEF Span
  <2>2. CASE q = <<>>
    <3>1. r[1] = e
      BY <2>2, <1>1, EmptySeq
    <3>2. QED
      BY <2>1, <3>1, <1>3, CacheAssumption, BoundAssumption
  <2>3. CASE q # <<>>
    <3>1. Len(q) >= 1 /\ Head(q) = q[1] /\ Last(q) = q[Len(q)] /\ r[1] = q[1]
      BY <2>3, <1>1, ListFacts
    <3>2. Span(q) = q[Len(q)].dts - q[1].dts
      BY <2>3, <3>1 DEF Span
    <3>3. QED
      BY <2>1, <2>3, <3>1, <3>2, <1>1, <1>2, <1>3, CacheAssumption, BoundAssumption
  <2>4. QED
    BY <2>2, <2>3
<1>8. QED
  BY <1>6, <1>7 DEF r

\* Every step keeps the order of the lists and their bound.
LEMMA AheadStep == TypeOK /\ SeekInv /\ AheadInv /\ [Next]_vars => AheadInv'
<1> SUFFICES ASSUME TypeOK, SeekInv, AheadInv, [Next]_vars PROVE AheadInv'
  OBVIOUS
<1>1. /\ \A s \in Stream : recv[s] \in Seq(Packet) /\ pos[s] \in 0..MaxDts
                           /\ Span(recv[s]) \in Int
      /\ recv \in [Stream -> Seq(Packet)] /\ pos \in [Stream -> 0..MaxDts]
  BY SpanType DEF TypeOK
<1>2. Sorted(<<>>) /\ Span(<<>>) = 0 /\ 0 <= CacheingTime /\ 0 <= CacheingTime + MaxJump
  BY CacheAssumption, BoundAssumption, EmptySeq DEF Sorted, Span
<1>3. CASE UNCHANGED <<recv, pos, reader>>
  BY <1>3 DEF AheadInv, Passed, Unclear
<1>4. ASSUME NEW u \in Stream, NEW here, NEW next, Take(u, here, next) PROVE AheadInv'
  <2> DEFINE k == DueCount(recv[u])
             r == SubSeq(recv[u], k + 1, Len(recv[u]))
  <2>1. k \in 0..Len(recv[u])
    BY <1>1, DueCountRange
  <2>2. Sorted(recv[u]) /\ Span(recv[u]) <= CacheingTime + MaxJump
    BY DEF AheadInv
  <2>3. /\ Sorted(r) /\ Span(r) <= Span(recv[u])
        /\ r # <<>> => recv[u] # <<>> /\ Last(r) = Last(recv[u])
    BY <1>1, <2>1, <2>2, RestKeeps
  <2>4. r \in Seq(Packet)
    BY <1>1, <2>1, RestFacts
  <2>5. Span(r) \in Int
    BY <2>4, SpanType
  <2>6. recv' = [recv EXCEPT ![u] = r] /\ UNCHANGED <<pos, reader>>
    BY <1>4 DEF Take, readVars, streamVars
  <2> HIDE DEF r
  <2> SUFFICES ASSUME NEW s \in Stream
               PROVE  /\ Sorted(recv'[s])
                      /\ Passed(s)' => recv'[s] = <<>>
                      /\ recv'[s] # <<>> /\ ~Unclear(s)' => Last(recv'[s]).dts = pos'[s]
                      /\ Span(recv'[s]) <= CacheingTime + MaxJump
                      /\ reader' = "recv" => Span(recv'[s]) <= CacheingTime
    BY DEF AheadInv
  <2>7. CASE s = u
    <3>1. recv'[s] = r /\ pos'[s] = pos[s]
      BY <2>7, <2>6, <1>1
    <3>2. Passed(s)' => recv[s] = <<>>
      BY <2>6 DEF AheadInv, Passed
    <3>3. recv[s] # <<>> /\ ~Unclear(s)' => Last(recv[s]).dts = pos[s]
      BY <2>6 DEF AheadInv, Unclear
    <3>4. reader' = "recv" => Span(recv[s]) <= CacheingTime
      BY <2>6 DEF AheadInv
    <3>5. Span(r) <= CacheingTime + MaxJump
      BY <2>2, <2>3, <2>5, <1>1, CacheAssumption, BoundAssumption
    <3>6. reader' = "recv" => Span(r) <= CacheingTime
      BY <3>4, <2>7, <2>3, <2>5, <1>1, CacheAssumption
    <3>7. QED
      BY <2>7, <2>3, <3>1, <3>2, <3>3, <3>5, <3>6
  <2>8. CASE s # u
    <3>1. recv'[s] = recv[s] /\ pos'[s] = pos[s] /\ reader' = reader
      BY <2>8, <2>6, <1>1
    <3>2. QED
      BY <3>1 DEF AheadInv, Passed, Unclear
  <2>9. QED
    BY <2>7, <2>8
<1>5. CASE RunOnce
  <2>1. CASE UNCHANGED <<recv, pos, reader>>
    BY <2>1, <1>3
  <2>2. CASE Take("video", "takeVideo", "takeAudio") \/ Take("audio", "takeAudio", "pushAudio")
    BY <2>2, <1>4 DEF Stream
  <2>3. QED
    BY <1>5, <2>1, <2>2
       DEF RunOnce, TickBegin, Peek, Decide, Push, Finish, Decode, readVars, streamVars
\* The reader leaves the lists alone and goes where nothing is asked of them.
<1>6. CASE /\ recv' = recv
           /\ \/ reader' = "clearAudioRecv"
              \/ /\ pos' = pos
                 /\ reader' \notin Clearing \cup {"recv", "reopen"}
                 /\ reader \notin Clearing
  BY <1>6 DEF AheadInv, Passed, Unclear, Clearing
<1>7. CASE ReadBegin
  BY <1>7, <1>6 DEF ReadBegin, BeginClear, Clearing
<1>8. CASE NeedMoreData
  <2>1. recv' = recv /\ pos' = pos /\ reader = "need" /\ reader' \in {"recv", "loop"}
    BY <1>8 DEF NeedMoreData, streamVars
  <2>2. reader' = "recv" => \A s \in Stream : Span(recv[s]) <= CacheingTime
    <3>1. reader' = "recv" => Greater(Span(recv["audio"]), Span(recv["video"])) <= CacheingTime
      BY <1>8 DEF NeedMoreData
    <3>2. Span(recv["audio"]) \in Int /\ Span(recv["video"]) \in Int
      BY <1>1 DEF Stream
    <3>3. QED
      BY <3>1, <3>2, CacheAssumption DEF Greater, Stream
  <2>3. QED
    BY <2>1, <2>2 DEF AheadInv, Passed, Unclear
<1>9. ASSUME NEW u \in Source, RecvData(u) PROVE AheadInv'
  <2>1. u \in Stream
    BY SourceAssumption
  <2>2. PICK d \in (pos[u] + 1)..Lesser(pos[u] + MaxJump, MaxDts) :
          /\ recv' = [recv EXCEPT ![u] = Append(recv[u], [n |-> got[u] + 1, dts |-> d])]
          /\ pos' = [pos EXCEPT ![u] = d]
    BY <1>9 DEF RecvData
  <2> DEFINE e == [n |-> got[u] + 1, dts |-> d]
             r == Append(recv[u], e)
  <2>3. got[u] \in 0..MaxPacket /\ got[u] < MaxPacket /\ MaxPacket \in Nat
    BY <1>9, <2>1, BoundAssumption DEF RecvData, TypeOK
  <2>4. d \in 1..MaxDts /\ pos[u] < d /\ d <= pos[u] + MaxJump
    BY <1>1, <2>1, BoundAssumption DEF Lesser
  <2>5. e \in Packet /\ e.dts = d
    BY <2>3, <2>4 DEF Packet
  <2>6. reader = "recv" /\ reader' \in {"need", "loop"}
    BY <1>9 DEF RecvData
  <2>7. /\ Sorted(recv[u]) /\ Span(recv[u]) <= CacheingTime
        /\ recv[u] # <<>> => Last(recv[u]).dts = pos[u]
    BY <2>1, <2>6 DEF AheadInv, Unclear
  <2>8. Sorted(r) /\ Span(r) <= CacheingTime + MaxJump
    BY <2>1, <2>4, <2>5, <2>7, <1>1, AppendKeeps
  <2>9. Last(r).dts = d
    <3>1. r \in Seq(Packet) /\ r # <<>> /\ Len(r) = Len(recv[u]) + 1 /\ r[Len(recv[u]) + 1] = e
      BY <2>1, <2>5, <1>1, AppendProperties
    <3>2. QED
      BY <3>1, <2>5, ListFacts
  <2> HIDE DEF r
  <2>10. recv' = [recv EXCEPT ![u] = r]
    BY <2>2 DEF r
  <2> SUFFICES ASSUME NEW s \in Stream
               PROVE  /\ Sorted(recv'[s])
                      /\ Passed(s)' => recv'[s] = <<>>
                      /\ recv'[s] # <<>> /\ ~Unclear(s)' => Last(recv'[s]).dts = pos'[s]
                      /\ Span(recv'[s]) <= CacheingTime + MaxJump
                      /\ reader' = "recv" => Span(recv'[s]) <= CacheingTime
    BY DEF AheadInv
  <2>11. CASE s = u
    <3>1. recv'[s] = r /\ pos'[s] = d
      BY <2>11, <2>2, <2>10, <1>1, <2>1
    <3>2. ~Passed(s)'
      BY <2>6 DEF Passed
    <3>3. QED
      BY <3>1, <3>2, <2>6, <2>8, <2>9
  <2>12. CASE s # u
    <3>1. recv'[s] = recv[s] /\ pos'[s] = pos[s]
      BY <2>12, <2>2, <2>10, <1>1
    <3>2. QED
      BY <3>1, <2>6 DEF AheadInv, Passed, Unclear
  <2>13. QED
    BY <2>11, <2>12
<1>10. CASE ReadEof
  BY <1>10, <1>6 DEF ReadEof, Clearing, streamVars
<1>11. CASE BufferIsEmpty
  BY <1>11, <1>6 DEF BufferIsEmpty, CheckList, Clearing, streamVars
<1>12. CASE IsPlaying \/ Close
  BY <1>12, <1>6 DEF IsPlaying, Close, BeginClear, Clearing, streamVars
<1>13. CASE OpenFFDecode
  <2>1. \A s \in Stream : recv[s] = <<>>
    BY <1>13 DEF OpenFFDecode, AheadInv, Passed
  <2>2. recv' = recv /\ reader' = "loop"
    BY <1>13 DEF OpenFFDecode
  <2>3. QED
    BY <2>1, <2>2, <1>2 DEF AheadInv, Passed
<1>14. CASE ClearRecv("audio", "clearAudioRecv", "clearVideoRecv")
  <2>1. /\ recv' = [recv EXCEPT !["audio"] = <<>>] /\ reader = "clearAudioRecv"
        /\ reader' = "clearVideoRecv"
    BY <1>14 DEF ClearRecv
  <2>2. recv'["audio"] = <<>> /\ recv'["video"] = recv["video"]
    BY <2>1, <1>1 DEF Stream
  <2>3. QED
    BY <2>1, <2>2, <1>2 DEF AheadInv, Passed, Unclear, Stream
<1>15. CASE ClearRecv("video", "clearVideoRecv", "clearAudioDecode")
  <2>1. /\ recv' = [recv EXCEPT !["video"] = <<>>] /\ reader = "clearVideoRecv"
        /\ reader' = "clearAudioDecode"
    BY <1>15 DEF ClearRecv
  <2>2. recv["audio"] = <<>>
    BY <2>1 DEF AheadInv, Passed, Stream
  <2>3. recv'["audio"] = <<>> /\ recv'["video"] = <<>>
    BY <2>1, <2>2, <1>1 DEF Stream
  <2>4. QED
    BY <2>1, <2>3, <1>2 DEF AheadInv, Passed, Unclear, Stream
<1>16. CASE \/ ClearDecode("audio", "clearAudioDecode", "clearVideoDecode")
            \/ ClearDecode("video", "clearVideoDecode", "clearTime")
            \/ ClearTime \/ ClearFlag
  <2>1. /\ recv' = recv
        /\ reader \in {"clearAudioDecode", "clearVideoDecode", "clearTime", "clearFlag"}
    BY <1>16 DEF ClearDecode, ClearTime, ClearFlag
  <2>2. \A s \in Stream : recv'[s] = <<>>
    BY <2>1 DEF AheadInv, Passed
  <2>3. QED
    BY <2>2, <1>2 DEF AheadInv
<1>17. CASE User
  BY <1>17, <1>3 DEF User, SeekTo, ResetTime, Pause, readVars, streamVars
<1>18. CASE UNCHANGED vars
  BY <1>18, <1>3 DEF vars, readVars, streamVars
<1>19. QED
  BY <1>5, <1>7, <1>8, <1>9, <1>10, <1>11, <1>12, <1>13, <1>14, <1>15, <1>16, <1>17, <1>18
     DEF Next, ReadThreadProcess, AtEof, DoClear

(***************************************************************************)
(* However long the player stalls or is paused, and through seeks and      *)
(* leaps, no stream is read ahead by more than n_cacheing_time_ and the    *)
(* distance of one packet.                                                 *)
(***************************************************************************)
THEOREM ReadAheadBounded == Spec => []BufferBounded
<1>1. Init => AheadInv
  <2> SUFFICES ASSUME Init PROVE AheadInv
    OBVIOUS
  <2>1. \A s \in Stream : recv[s] = <<>>
    BY DEF Init, Empty
  <2>2. Sorted(<<>>) /\ Span(<<>>) = 0
    BY EmptySeq DEF Sorted, Span
  <2>3. QED
    BY <2>1, <2>2, CacheAssumption, BoundAssumption DEF AheadInv
<1>2. AheadInv => BufferBounded
  BY DEF AheadInv, BufferBounded
<1>3. TypeOK /\ SeekInv /\ AheadInv /\ [Next]_vars => AheadInv'
  BY AheadStep
<1>4. QED
  BY <1>1, <1>2, <1>3, TypeCorrect, PTL DEF Spec

-----------------------------------------------------------------------------
(***************************************************************************)
(* Order and no loss.  The three lists of a stream, read as one, change    *)
(* only at their ends: a packet is received at the back and decoded at the *)
(* front, DoClear cuts off the back or the front, and the tick moves       *)
(* packets from list to list without changing the whole.                   *)
(***************************************************************************)
Increasing(q) == \A i, j \in 1..Len(q) : i < j => q[i].n < q[j].n

PipeInv(s) ==
  /\ Increasing(Pipeline(s))
  /\ Numbers(Pipeline(s)) = ((out[s] + 1)..got[s]) \ dropped[s]
  /\ out[s] <= got[s]
  /\ dropped[s] \subseteq 1..got[s]

\* Between two ticks the tick holds nothing.
HandInv ==
  /\ hand["video"] # <<>> => tick \in {"takeAudio", "pushAudio", "pushVideo"}
  /\ hand["audio"] # <<>> => tick = "pushAudio"

FlowInv == HandInv /\ \A s \in Stream : PipeInv(s)

\* The two parts of a list have their own packets.
LEMMA SplitFacts ==
  ASSUME NEW a \in Seq(Packet), NEW b \in Seq(Packet), Increasing(a \o b)
  PROVE  /\ Increasing(a) /\ Increasing(b)
         /\ Numbers(a \o b) = Numbers(a) \cup Numbers(b)
         /\ Numbers(a) \cap Numbers(b) = {}
<1> DEFINE p == a \o b
<1>1. /\ Len(p) = Len(a) + Len(b) /\ Len(a) \in Nat /\ Len(b) \in Nat
      /\ \A i \in 1..(Len(a) + Len(b)) : p[i] = IF i <= Len(a) THEN a[i] ELSE b[i - Len(a)]
  BY ConcatProperties, ListFacts
<1>2. /\ \A i \in 1..Len(a) : a[i].n \in Int
      /\ \A i \in 1..Len(b) : b[i].n \in Int
  BY ListFacts
<1>3. Increasing(p)
  OBVIOUS
<1> HIDE DEF p
<1>4. \A i \in 1..Len(a) : i \in 1..Len(p) /\ p[i] = a[i]
  BY <1>1
<1>5. \A i \in 1..Len(b) : Len(a) + i \in 1..Len(p) /\ p[Len(a) + i] = b[i]
  <2> TAKE i \in 1..Len(b)
  <2>1. Len(a) + i \in 1..(Len(a) + Len(b)) /\ ~(Len(a) + i <= Len(a)) /\ Len(a) + i - Len(a) = i
    BY <1>1
  <2>2. QED
    BY <2>1, <1>1
<1>6. Increasing(a)
  BY <1>3, <1>4, <1>1 DEF Increasing
<1>7. Increasing(b)
  <2> SUFFICES ASSUME NEW i \in 1..Len(b), NEW j \in 1..Len(b), i < j PROVE b[i].n < b[j].n
    BY DEF Increasing
  <2>1. Len(a) + i < Len(a) + j
    BY <1>1
  <2>2. QED
    BY <2>1, <1>3, <1>5 DEF Increasing
<1>8. \A i \in 1..Len(a), j \in 1..Len(b) : a[i].n < b[j].n
  <2> TAKE i \in 1..Len(a), j \in 1..Len(b)
  <2>1. i < Len(a) + j
    BY <1>1
  <2>2. QED
    BY <2>1, <1>3, <1>4, <1>5 DEF Increasing
<1>9. Numbers(p) = Numbers(a) \cup Numbers(b)
  <2>1. Numbers(a) \subseteq Numbers(p) /\ Numbers(b) \subseteq Numbers(p)
    BY <1>4, <1>5 DEF Numbers
  <2>2. ASSUME NEW i \in 1..Len(p) PROVE p[i].n \in Numbers(a) \cup Numbers(b)
    <3>1. CASE i <= Len(a)
      BY <3>1, <1>1 DEF Numbers
    <3>2. CASE ~(i <= Len(a))
      <4>1. i - Len(a) \in 1..Len(b) /\ p[i] = b[i - Len(a)]
        BY <3>2, <1>1
      <4>2. QED
        BY <4>1 DEF Numbers
    <3>3. QED
      BY <3>1, <3>2
  <2>3. QED
    BY <2>1, <2>2 DEF Numbers
<1>10. Numbers(a) \cap Numbers(b) = {}
  BY <1>2, <1>8 DEF Numbers
<1>11. QED
  BY <1>6, <1>7, <1>9, <1>10 DEF p

\* A later packet at the back.
LEMMA BackFacts ==
  ASSUME NEW q \in Seq(Packet), NEW e \in Packet, Increasing(q), \A x \in Numbers(q) : x < e.n
  PROVE  Increasing(Append(q, e)) /\ Numbers(Append(q, e)) = Numbers(q) \cup {e.n}
<1> DEFINE r == Append(q, e)
<1>1. /\ r \in Seq(Packet) /\ Len(r) = Len(q) + 1 /\ Len(q) \in Nat
      /\ \A i \in 1..Len(q) : r[i] = q[i]
      /\ r[Len(q) + 1] = e
  BY AppendProperties, ListFacts
<1> HIDE DEF r
<1>2. \A i \in 1..Len(q) : q[i].n < e.n
  BY DEF Numbers
<1>3. Increasing(r)
  <2> SUFFICES ASSUME NEW i \in 1..Len(r), NEW j \in 1..Len(r), i < j PROVE r[i].n < r[j].n
    BY DEF Increasing
  <2>1. CASE j \in 1..Len(q)
    BY <2>1, <1>1 DEF Increasing
  <2>2. CASE j = Len(q) + 1
    BY <2>2, <1>1, <1>2
  <2>3. QED
    BY <2>1, <2>2, <1>1
<1>4. Numbers(r) = Numbers(q) \cup {e.n}
  <2>1. 1..Len(r) = 1..Len(q) \cup {Len(q) + 1}
    BY <1>1
  <2>2. QED
    BY <2>1, <1>1 DEF Numbers
<1>5. QED
  BY <1>3, <1>4 DEF r

\* The first packet of a list is the earliest.
LEMMA FrontFacts ==
  ASSUME NEW q \in Seq(Packet), q # <<>>, Increasing(q)
  PROVE  /\ Increasing(Tail(q)) /\ Numbers(Tail(q)) = {x \in Numbers(q) : x > Head(q).n}
         /\ Head(q).n \in Numbers(q)
<1> DEFINE r == Tail(q)
<1>1. /\ Len(q) \in Nat /\ Len(q) >= 1 /\ Head(q) = q[1] /\ Len(r) = Len(q) - 1
      /\ \A i \in 1..(Len(q) - 1) : r[i] = q[i + 1]
      /\ \A i \in 1..Len(q) : q[i].n \in Int
  BY ListFacts
<1> HIDE DEF r
<1>2. Increasing(r)
  BY <1>1 DEF Increasing
<1>3. Head(q).n \in Numbers(q)
  BY <1>1 DEF Numbers
<1>4. ASSUME NEW i \in 1..Len(r) PROVE r[i].n \in Numbers(q) /\ r[i].n > Head(q).n
  <2>1. i + 1 \in 1..Len(q) /\ r[i] = q[i + 1] /\ 1 \in 1..Len(q) /\ 1 < i + 1
    BY <1>1
  <2>2. q[1].n < q[i + 1].n
    BY <2>1 DEF Increasing
  <2>3. QED
    BY <2>1, <2>2, <1>1 DEF Numbers
<1>5. ASSUME NEW i \in 1..Len(q), q[i].n > Head(q).n PROVE q[i].n \in Numbers(r)
  <2>1. i # 1
    BY <1>1, <1>5
  <2>2. i - 1 \in 1..Len(r) /\ r[i - 1] = q[(i - 1) + 1] /\ (i - 1) + 1 = i
    BY <2>1, <1>1
  <2>3. QED
    BY <2>2 DEF Numbers
<1>6. Numbers(r) = {x \in Numbers(q) : x > Head(q).n}
  BY <1>4, <1>5 DEF Numbers
<1>7. QED
  BY <1>2, <1>3, <1>6 DEF r

\* The head and the tail of a list in two parts are those of the first.
LEMMA ConcatFront ==
  ASSUME NEW a \in Seq(Packet), NEW b \in Seq(Packet), a # <<>>
  PROVE  /\ Head(a \o b) = Head(a) /\ a \o b # <<>>
         /\ Tail(a \o b) = Tail(a) \o b
<1>1. /\ a \o b \in Seq(Packet) /\ Len(a \o b) = Len(a) + Len(b)
      /\ \A i \in 1..(Len(a) + Len(b)) :
           (a \o b)[i] = IF i <= Len(a) THEN a[i] ELSE b[i - Len(a)]
  BY ConcatProperties
<1>2. Len(a) \in Nat /\ Len(a) >= 1 /\ Len(b) \in Nat
  BY ListFacts
<1>3. a \o b # <<>>
  BY <1>1, <1>2, EmptySeq
<1>4. Head(a \o b) = (a \o b)[1] /\ Head(a) = a[1]
  BY <1>1, <1>3, ListFacts
<1>5. Head(a \o b) = Head(a)
  BY <1>1, <1>2, <1>4
<1>6. /\ Tail(a) \in Seq(Packet) /\ Len(Tail(a)) = Len(a) - 1
      /\ \A i \in 1..(Len(a) - 1) : Tail(a)[i] = a[i + 1]
      /\ Tail(a \o b) \in Seq(Packet) /\ Len(Tail(a \o b)) = Len(a) + Len(b) - 1
      /\ \A i \in 1..(Len(a) + Len(b) - 1) : Tail(a \o b)[i] = (a \o b)[i + 1]
  BY <1>1, <1>3, ListFacts
<1>7. /\ Tail(a) \o b \in Seq(Packet) /\ Len(Tail(a) \o b) = Len(a) - 1 + Len(b)
      /\ \A i \in 1..(Len(a) - 1 + Len(b)) :
           (Tail(a) \o b)[i] = IF i <= Len(a) - 1 THEN Tail(a)[i] ELSE b[i - (Len(a) - 1)]
  BY <1>6, ConcatProperties
<1>8. \A i \in 1..(Len(a) + Len(b) - 1) : Tail(a \o b)[i] = (Tail(a) \o b)[i]
  <2> TAKE i \in 1..(Len(a) + Len(b) - 1)
  <2>1. CASE i <= Len(a) - 1
    BY <2>1, <1>1, <1>2, <1>6, <1>7
  <2>2. CASE ~(i <= Len(a) - 1)
    <3>1. Tail(a \o b)[i] = b[(i + 1) - Len(a)]
      BY <2>2, <1>1, <1>2, <1>6
    <3>2. (Tail(a) \o b)[i] = b[i - (Len(a) - 1)]
      BY <2>2, <1>2, <1>7
    <3>3. (i + 1) - Len(a) = i - (Len(a) - 1)
      BY <1>2
    <3>4. QED
      BY <3>1, <3>2, <3>3
  <2>3. QED
    BY <2>1, <2>2
<1>9. Tail(a \o b) = Tail(a) \o b
  <2>1. Len(Tail(a \o b)) = Len(Tail(a) \o b) /\ Len(Tail(a \o b)) = Len(a) + Len(b) - 1
    BY <1>2, <1>6, <1>7
  <2>2. QED
    BY <2>1, <1>6, <1>7, <1>8, SeqEqual
<1>10. QED
  BY <1>3, <1>5, <1>9

\* Concatenation of lists of packets is associative.
LEMMA Associative ==
  ASSUME NEW a \in Seq(Packet), NEW b \in Seq(Packet), NEW c \in Seq(Packet)
  PROVE  (a \o b) \o c = a \o (b \o c)
BY ConcatAssociative

\* The lists of a stream and the whole of them are lists of packets.
LEMMA ListTypes ==
  ASSUME TypeOK
  PROVE  /\ recv \in [Stream -> Seq(Packet)] /\ decode \in [Stream -> Seq(Packet)]
         /\ hand \in [Stream -> Seq(Packet)] /\ got \in [Stream -> 0..MaxPacket]
         /\ out \in [Stream -> 0..MaxPacket] /\ dropped \in [Stream -> SUBSET (1..MaxPacket)]
         /\ MaxPacket \in Nat
         /\ \A s \in Stream : /\ recv[s] \in Seq(Packet) /\ decode[s] \in Seq(Packet)
                              /\ hand[s] \in Seq(Packet)
                              /\ got[s] \in 0..MaxPacket /\ out[s] \in 0..MaxPacket
                              /\ Pipeline(s) \in Seq(Packet)
                              /\ decode[s] \o hand[s] \in Seq(Packet)
                              /\ hand[s] \o recv[s] \in Seq(Packet)
                              /\ Pipeline(s) = (decode[s] \o hand[s]) \o recv[s]
                              /\ Pipeline(s) = decode[s] \o (hand[s] \o recv[s])
<1>1. /\ \A s \in Stream : /\ recv[s] \in Seq(Packet) /\ decode[s] \in Seq(Packet)
                           /\ hand[s] \in Seq(Packet)
                           /\ got[s] \in 0..MaxPacket /\ out[s] \in 0..MaxPacket
      /\ recv \in [Stream -> Seq(Packet)] /\ decode \in [Stream -> Seq(Packet)]
      /\ hand \in [Stream -> Seq(Packet)] /\ got \in [Stream -> 0..MaxPacket]
      /\ out \in [Stream -> 0..MaxPacket] /\ dropped \in [Stream -> SUBSET (1..MaxPacket)]
      /\ MaxPacket \in Nat
  BY BoundAssumption DEF TypeOK
<1>2. \A s \in Stream : /\ Pipeline(s) \in Seq(Packet) /\ decode[s] \o hand[s] \in Seq(Packet)
                        /\ hand[s] \o recv[s] \in Seq(Packet)
                        /\ Pipeline(s) = (decode[s] \o hand[s]) \o recv[s]
                        /\ Pipeline(s) = decode[s] \o (hand[s] \o recv[s])
  BY <1>1, ConcatProperties, Associative DEF Pipeline
<1>3. QED
  BY <1>1, <1>2

\* Taking the packets that are due moves them from the list to the hands.
LEMMA TakeFacts ==
  ASSUME TypeOK, NEW u \in Stream, NEW here, NEW next, Take(u, here, next), hand[u] = <<>>
  PROVE  /\ \A s \in Stream : Pipeline(s)' = Pipeline(s)
         /\ UNCHANGED <<out, got, dropped>>
         /\ tick' = next /\ \A s \in Stream \ {u} : hand'[s] = hand[s]
<1> DEFINE k == DueCount(recv[u])
           due1 == SubSeq(recv[u], 1, k)
           rest == SubSeq(recv[u], k + 1, Len(recv[u]))
<1>1. k \in 0..Len(recv[u])
  BY ListTypes, DueCountRange
<1>2. due1 \in Seq(Packet) /\ rest \in Seq(Packet) /\ due1 \o rest = recv[u]
  BY <1>1, ListTypes, RestFacts
<1>3. /\ recv' = [recv EXCEPT ![u] = rest] /\ hand' = [hand EXCEPT ![u] = due1]
      /\ UNCHANGED <<decode, out, got, dropped>> /\ tick' = next
  BY DEF Take, streamVars
<1> HIDE DEF due1, rest
<1>4. ASSUME NEW s \in Stream PROVE Pipeline(s)' = Pipeline(s)
  <2>1. CASE s = u
    <3>1. Pipeline(s)' = (decode[u] \o due1) \o rest
      BY <2>1, <1>3, ListTypes DEF Pipeline
    <3>2. (decode[u] \o due1) \o rest = decode[u] \o recv[u]
      <4>1. decode[u] \in Seq(Packet)
        BY ListTypes
      <4>2. (decode[u] \o due1) \o rest = decode[u] \o (due1 \o rest)
        BY <4>1, <1>2, Associative
      <4>3. QED
        BY <4>2, <1>2
    <3>3. Pipeline(s) = decode[u] \o recv[u]
      BY <2>1, ListTypes, ConcatEmptySeq DEF Pipeline
    <3>4. QED
      BY <3>1, <3>2, <3>3
  <2>2. CASE s # u
    BY <2>2, <1>3, ListTypes DEF Pipeline
  <2>3. QED
    BY <2>1, <2>2
<1>5. QED
  BY <1>3, <1>4, ListTypes

\* Pushing moves the first packet in the hands to the back of the decode list.
LEMMA PushFacts ==
  ASSUME TypeOK, NEW u \in Stream, NEW here, NEW next, Push(u, here, next)
  PROVE  /\ \A s \in Stream : Pipeline(s)' = Pipeline(s)
         /\ UNCHANGED <<out, got, dropped>>
         /\ tick' = tick \/ (tick' = next /\ hand[u] = <<>> /\ hand' = hand)
         /\ \A s \in Stream \ {u} : hand'[s] = hand[s]
<1>1. UNCHANGED <<recv, out, got, dropped>>
  BY DEF Push, streamVars
<1>2. CASE hand[u] = <<>>
  <2>1. UNCHANGED <<decode, hand>> /\ tick' = next
    BY <1>2 DEF Push
  <2>2. \A s \in Stream : Pipeline(s)' = Pipeline(s)
    BY <2>1, <1>1 DEF Pipeline
  <2>3. QED
    BY <2>1, <2>2, <1>1, <1>2
<1>3. CASE hand[u] # <<>>
  <2> DEFINE e == Head(hand[u])
             t == Tail(hand[u])
  <2>1. /\ decode' = [decode EXCEPT ![u] = Append(decode[u], e)]
        /\ hand' = [hand EXCEPT ![u] = t] /\ UNCHANGED tick
    BY <1>3 DEF Push
  <2>2. e \in Packet /\ t \in Seq(Packet) /\ <<e>> \in Seq(Packet)
    BY <1>3, ListTypes, ListFacts
  <2>3. Append(decode[u], e) = decode[u] \o <<e>> /\ hand[u] = <<e>> \o t
    <3>1. Append(decode[u], e) = decode[u] \o <<e>>
      BY <2>2, ListTypes, AppendIsConcat
    <3>2. <<e>> \o t \in Seq(Packet) /\ Len(<<e>> \o t) = Len(hand[u])
          /\ \A i \in 1..Len(hand[u]) : (<<e>> \o t)[i] = hand[u][i]
      <4>1. Len(<<e>>) = 1 /\ <<e>>[1] = e
        OBVIOUS
      <4>2. /\ <<e>> \o t \in Seq(Packet) /\ Len(<<e>> \o t) = 1 + Len(t)
            /\ \A i \in 1..(1 + Len(t)) :
                 (<<e>> \o t)[i] = IF i <= 1 THEN <<e>>[i] ELSE t[i - 1]
        BY <2>2, <4>1, ConcatProperties
      <4>3. /\ Len(hand[u]) \in Nat /\ e = hand[u][1] /\ Len(t) = Len(hand[u]) - 1
            /\ \A i \in 1..(Len(hand[u]) - 1) : t[i] = hand[u][i + 1]
        BY <1>3, ListTypes, ListFacts
      <4> HIDE DEF e, t
      <4>4. ASSUME NEW i \in 1..Len(hand[u]) PROVE (<<e>> \o t)[i] = hand[u][i]
        <5>1. CASE i = 1
          BY <5>1, <4>1, <4>2, <4>3
        <5>2. CASE i # 1
          <6>1. i - 1 \in 1..(Len(hand[u]) - 1) /\ (i - 1) + 1 = i
            BY <5>2, <4>3
          <6>2. (<<e>> \o t)[i] = t[i - 1]
            BY <5>2, <4>2, <4>3
          <6>3. QED
            BY <6>1, <6>2, <4>3
        <5>3. QED
          BY <5>1, <5>2
      <4>5. QED
        BY <4>2, <4>3, <4>4
    <3>3. hand[u] = <<e>> \o t
      BY <3>2, ListTypes, SeqEqual
    <3>4. QED
      BY <3>1, <3>3
  <2> HIDE DEF e, t
  <2>4. Append(decode[u], e) \o t = decode[u] \o hand[u]
    <3>1. decode[u] \in Seq(Packet)
      BY ListTypes
    <3>2. (decode[u] \o <<e>>) \o t = decode[u] \o (<<e>> \o t)
      BY <3>1, <2>2, Associative
    <3>3. QED
      BY <3>2, <2>3
  <2>5. ASSUME NEW s \in Stream PROVE Pipeline(s)' = Pipeline(s)
    <3>1. CASE s = u
      BY <3>1, <2>1, <2>4, <1>1, ListTypes DEF Pipeline
    <3>2. CASE s # u
      BY <3>2, <2>1, <1>1, ListTypes DEF Pipeline
    <3>3. QED
      BY <3>1, <3>2
  <2>6. QED
    BY <2>1, <2>5, <1>1, ListTypes
<1>4. QED
  BY <1>2, <1>3

\* Decoding takes the first packet of the whole.
LEMMA DecodeFacts ==
  ASSUME TypeOK, NEW u \in Stream, NEW here, NEW next, Decode(u, here, next),
         ~UNCHANGED <<out, decode>>
  PROVE  /\ Pipeline(u) # <<>> /\ Pipeline(u)' = Tail(Pipeline(u))
         /\ out' = [out EXCEPT ![u] = Head(Pipeline(u)).n]
         /\ \A s \in Stream \ {u} : Pipeline(s)' = Pipeline(s)
         /\ UNCHANGED <<tick, hand, got, dropped>>
<1>1. /\ decode[u] # <<>> /\ out' = [out EXCEPT ![u] = Head(decode[u]).n]
      /\ decode' = [decode EXCEPT ![u] = Tail(decode[u])]
      /\ UNCHANGED <<tick, recv, hand, got, dropped>>
  BY DEF Decode, tickVars, streamVars
<1>2. /\ decode[u] \o (hand[u] \o recv[u]) # <<>>
      /\ Head(decode[u] \o (hand[u] \o recv[u])) = Head(decode[u])
      /\ Tail(decode[u] \o (hand[u] \o recv[u])) = Tail(decode[u]) \o (hand[u] \o recv[u])
  BY <1>1, ListTypes, ConcatFront
<1>3. Pipeline(u)' = Tail(decode[u]) \o (hand[u] \o recv[u])
  <2>1. Tail(decode[u]) \in Seq(Packet)
    BY <1>1, ListTypes, ListFacts
  <2>2. Pipeline(u)' = (Tail(decode[u]) \o hand[u]) \o recv[u]
    BY <1>1, ListTypes DEF Pipeline
  <2>3. hand[u] \in Seq(Packet) /\ recv[u] \in Seq(Packet)
    BY ListTypes
  <2>4. QED
    BY <2>1, <2>2, <2>3, Associative
<1>4. Pipeline(u) = decode[u] \o (hand[u] \o recv[u])
  BY ListTypes
<1>5. \A s \in Stream \ {u} : Pipeline(s)' = Pipeline(s)
  BY <1>1, ListTypes DEF Pipeline
<1>6. QED
  BY <1>1, <1>2, <1>3, <1>4, <1>5

\* A packet is received at the back of the whole.
LEMMA ReceiveFacts ==
  ASSUME TypeOK, NEW u \in Source, RecvData(u)
  PROVE  \E e \in Packet :
           /\ e.n = got[u] + 1 /\ got' = [got EXCEPT ![u] = got[u] + 1]
           /\ Pipeline(u)' = Append(Pipeline(u), e)
           /\ \A s \in Stream \ {u} : Pipeline(s)' = Pipeline(s)
           /\ UNCHANGED <<tick, hand, out, dropped>>
<1>1. u \in Stream
  BY SourceAssumption
<1>2. PICK d \in (pos[u] + 1)..Lesser(pos[u] + MaxJump, MaxDts) :
        recv' = [recv EXCEPT ![u] = Append(recv[u], [n |-> got[u] + 1, dts |-> d])]
  BY DEF RecvData
<1> DEFINE e == [n |-> got[u] + 1, dts |-> d]
           p == Pipeline(u)
<1>3. /\ got' = [got EXCEPT ![u] = got[u] + 1] /\ got[u] < MaxPacket
      /\ UNCHANGED <<decode, hand, out, dropped, tick>>
  BY DEF RecvData, tickVars
<1>4. d \in 1..MaxDts
  <2>1. pos[u] \in 0..MaxDts
    BY <1>1 DEF TypeOK
  <2>2. QED
    BY <2>1, BoundAssumption DEF Lesser
<1>5. e \in Packet /\ e.n = got[u] + 1 /\ p \in Seq(Packet)
  <2>1. got[u] \in 0..MaxPacket /\ MaxPacket \in Nat /\ p \in Seq(Packet)
    BY <1>1, ListTypes
  <2>2. QED
    BY <2>1, <1>3, <1>4 DEF Packet
<1>6. Pipeline(u)' = Append(p, e)
  <2>1. <<e>> \in Seq(Packet)
    BY <1>5
  <2>2. Pipeline(u)' = (decode[u] \o hand[u]) \o Append(recv[u], e)
    BY <1>1, <1>2, <1>3, ListTypes DEF Pipeline
  <2> HIDE DEF e
  <2>3. Append(recv[u], e) = recv[u] \o <<e>> /\ Append(p, e) = p \o <<e>>
    BY <1>1, <1>5, ListTypes, AppendIsConcat
  <2>4. p = (decode[u] \o hand[u]) \o recv[u]
    BY <1>1, ListTypes
  <2> HIDE DEF p
  <2>5. decode[u] \o hand[u] \in Seq(Packet) /\ recv[u] \in Seq(Packet)
    BY <1>1, ListTypes
  <2>6. ((decode[u] \o hand[u]) \o recv[u]) \o <<e>> = (decode[u] \o hand[u]) \o (recv[u] \o <<e>>)
    BY <2>5, <2>1, Associative
  <2>7. QED
    BY <2>6, <2>2, <2>3, <2>4
<1>7. \A s \in Stream \ {u} : Pipeline(s)' = Pipeline(s)
  BY <1>2, <1>3, ListTypes DEF Pipeline
<1> HIDE DEF e
<1>8. /\ e.n = got[u] + 1 /\ got' = [got EXCEPT ![u] = got[u] + 1]
      /\ Pipeline(u)' = Append(Pipeline(u), e)
      /\ \A s \in Stream \ {u} : Pipeline(s)' = Pipeline(s)
      /\ UNCHANGED <<tick, hand, out, dropped>>
  BY <1>3, <1>5, <1>6, <1>7
<1>9. QED
  BY <1>5, <1>8

\* DoClear cuts a part off one end of the whole and counts it as dropped.
Cuts(u) ==
  \E a, b \in Seq(Packet) :
    /\ Pipeline(u) = a \o b
    /\ \/ /\ Pipeline(u)' = b
          /\ dropped' = [dropped EXCEPT ![u] = dropped[u] \cup Numbers(a)]
       \/ /\ Pipeline(u)' = a
          /\ dropped' = [dropped EXCEPT ![u] = dropped[u] \cup Numbers(b)]
    /\ \A s \in Stream \ {u} : Pipeline(s)' = Pipeline(s)
    /\ UNCHANGED <<tick, hand, out, got>>

LEMMA ClearFacts ==
  ASSUME TypeOK, NEW u \in Stream, NEW here, NEW next,
         ClearRecv(u, here, next) \/ ClearDecode(u, here, next)
  PROVE  Cuts(u)
<1>1. CASE ClearRecv(u, here, next)
  <2>1. /\ recv' = [recv EXCEPT ![u] = <<>>]
        /\ dropped' = [dropped EXCEPT ![u] = dropped[u] \cup Numbers(recv[u])]
        /\ UNCHANGED <<decode, hand, out, got, tick>>
    BY <1>1 DEF ClearRecv, tickVars, streamVars
  <2>2. Pipeline(u)' = decode[u] \o hand[u]
    BY <2>1, ListTypes, ConcatEmptySeq DEF Pipeline
  <2>3. \A s \in Stream \ {u} : Pipeline(s)' = Pipeline(s)
    BY <2>1, ListTypes DEF Pipeline
  <2>4. QED
    BY <2>1, <2>2, <2>3, ListTypes DEF Cuts
<1>2. CASE ClearDecode(u, here, next)
  <2>1. /\ decode' = [decode EXCEPT ![u] = <<>>]
        /\ dropped' = [dropped EXCEPT ![u] = dropped[u] \cup Numbers(decode[u])]
        /\ UNCHANGED <<recv, hand, out, got, tick>>
    BY <1>2 DEF ClearDecode, tickVars, streamVars
  <2>2. Pipeline(u)' = hand[u] \o recv[u]
    BY <2>1, ListTypes, ConcatEmptySeq DEF Pipeline
  <2>3. \A s \in Stream \ {u} : Pipeline(s)' = Pipeline(s)
    BY <2>1, ListTypes DEF Pipeline
  <2>4. QED
    BY <2>1, <2>2, <2>3, ListTypes DEF Cuts
<1>3. QED
  BY <1>1, <1>2

\* Every other step leaves the lists and the counts alone.
LEMMA ElseFacts ==
  ASSUME \/ ReadBegin \/ NeedMoreData \/ ReadEof \/ AtEof \/ OpenFFDecode \/ ClearTime
         \/ ClearFlag \/ User \/ UNCHANGED vars
  PROVE  UNCHANGED <<recv, decode, hand, out, got, dropped, tick>>
BY DEF ReadBegin, NeedMoreData, ReadEof, AtEof, BufferIsEmpty, CheckList, IsPlaying, Close,
       OpenFFDecode, ClearTime, ClearFlag, User, SeekTo, ResetTime, Pause, vars, tickVars,
       streamVars

\* Every step keeps the whole lists in order and complete.
LEMMA FlowStep == TypeOK /\ FlowInv /\ [Next]_vars => FlowInv'
<1> SUFFICES ASSUME TypeOK, FlowInv, [Next]_vars PROVE FlowInv'
  OBVIOUS
<1>1. HandInv /\ \A s \in Stream : PipeInv(s)
  BY DEF FlowInv
\* Where the whole list and the counts of a stream stay, so does the invariant.
<1>2. ASSUME NEW s \in Stream, Pipeline(s)' = Pipeline(s), out'[s] = out[s],
             got'[s] = got[s], dropped'[s] = dropped[s]
      PROVE  PipeInv(s)'
  BY <1>2, <1>1 DEF PipeInv
<1>3. CASE UNCHANGED <<recv, decode, hand, out, got, dropped>>
  <2>1. \A s \in Stream : PipeInv(s)'
    BY <1>3, <1>2 DEF Pipeline
  <2>2. CASE RunOnce
    BY <2>1, <2>2, <1>1, <1>3
       DEF FlowInv, HandInv, RunOnce, TickBegin, Peek, Decide, Take, Push, Finish, Decode
  <2>3. CASE UNCHANGED tick
    BY <1>1, <1>3, <2>1, <2>3 DEF FlowInv, HandInv
  <2>4. CASE ReadThreadProcess
    <3>1. UNCHANGED tick
      BY <2>4, ElseFacts DEF ReadThreadProcess, DoClear, ClearRecv, ClearDecode, RecvData, tickVars
    <3>2. QED
      BY <3>1, <2>3
  <2>5. QED
    BY <2>2, <2>3, <2>4, ElseFacts DEF Next
<1>4. CASE Take("video", "takeVideo", "takeAudio")
  <2>1. hand["video"] = <<>> /\ hand["audio"] = <<>>
    BY <1>4, <1>1 DEF Take, HandInv
  <2>2. /\ \A s \in Stream : PipeInv(s)'
        /\ tick' = "takeAudio" /\ hand'["audio"] = hand["audio"]
    BY <1>4, <1>2, <2>1, TakeFacts DEF Stream
  <2>3. QED
    BY <2>1, <2>2 DEF FlowInv, HandInv
<1>5. CASE Take("audio", "takeAudio", "pushAudio")
  <2>1. hand["audio"] = <<>>
    BY <1>5, <1>1 DEF Take, HandInv
  <2>2. (\A s \in Stream : PipeInv(s)') /\ tick' = "pushAudio"
    BY <1>5, <1>2, <2>1, TakeFacts DEF Stream
  <2>3. QED
    BY <2>2 DEF FlowInv, HandInv
<1>6. CASE Push("audio", "pushAudio", "pushVideo")
  <2>1. tick = "pushAudio"
    BY <1>6 DEF Push
  <2>2. /\ \A s \in Stream : PipeInv(s)'
        /\ tick' = tick \/ (tick' = "pushVideo" /\ hand["audio"] = <<>> /\ hand' = hand)
    BY <1>6, <1>2, PushFacts DEF Stream
  <2>3. QED
    BY <2>1, <2>2 DEF FlowInv, HandInv
<1>7. CASE Push("video", "pushVideo", "finish")
  <2>1. tick = "pushVideo"
    BY <1>7 DEF Push
  <2>2. /\ \A s \in Stream : PipeInv(s)'
        /\ tick' = tick \/ (tick' = "finish" /\ hand["video"] = <<>> /\ hand' = hand)
        /\ hand'["audio"] = hand["audio"]
    BY <1>7, <1>2, PushFacts DEF Stream
  <2>3. hand["audio"] = <<>>
    BY <2>1, <1>1 DEF HandInv
  <2>4. QED
    BY <2>1, <2>2, <2>3 DEF FlowInv, HandInv
<1>8. ASSUME NEW u \in Stream, NEW here, NEW next, Decode(u, here, next),
             ~UNCHANGED <<out, decode>>
      PROVE  FlowInv'
  <2> DEFINE p == Pipeline(u)
  <2>1. /\ p # <<>> /\ Pipeline(u)' = Tail(p) /\ out' = [out EXCEPT ![u] = Head(p).n]
        /\ \A s \in Stream \ {u} : Pipeline(s)' = Pipeline(s)
        /\ UNCHANGED <<tick, hand, got, dropped>>
    BY <1>8, DecodeFacts
  <2>2. /\ Increasing(p) /\ Numbers(p) = ((out[u] + 1)..got[u]) \ dropped[u]
        /\ out[u] <= got[u] /\ dropped[u] \subseteq 1..got[u] /\ p \in Seq(Packet)
    BY <1>1, ListTypes DEF PipeInv
  <2> HIDE DEF p
  <2>3. /\ Increasing(Tail(p)) /\ Numbers(Tail(p)) = {x \in Numbers(p) : x > Head(p).n}
        /\ Head(p).n \in Numbers(p)
    BY <2>1, <2>2, FrontFacts
  <2>4. out'[u] = Head(p).n /\ out[u] \in Int /\ got[u] \in Int /\ Head(p).n \in Int
    BY <2>1, <2>2, <2>3, ListTypes
  <2>5. out[u] < out'[u] /\ out'[u] <= got[u]
    BY <2>2, <2>3, <2>4
  <2>6. Numbers(Tail(p)) = ((out'[u] + 1)..got[u]) \ dropped[u]
    BY <2>2, <2>3, <2>4, <2>5
  <2>7. PipeInv(u)'
    BY <2>1, <2>2, <2>3, <2>5, <2>6 DEF PipeInv
  <2>8. ASSUME NEW s \in Stream, s # u PROVE PipeInv(s)'
    BY <2>1, <2>8, <1>2, ListTypes
  <2>9. HandInv'
    BY <2>1, <1>1 DEF HandInv
  <2>10. QED
    BY <2>7, <2>8, <2>9 DEF FlowInv
<1>9. CASE RunOnce
  <2>1. CASE UNCHANGED <<recv, decode, hand, out, got, dropped>>
    BY <2>1, <1>3
  <2>2. ASSUME NEW u \in Stream, NEW here, NEW next, Decode(u, here, next),
               UNCHANGED <<out, decode>>
        PROVE  UNCHANGED <<recv, decode, hand, out, got, dropped>>
    BY <2>2 DEF Decode, tickVars, streamVars
  <2>3. CASE Decode("audio", "decodeAudio", "decodeVideo") \/ Decode("video", "decodeVideo", "idle")
    BY <2>1, <2>2, <2>3, <1>8 DEF Stream
  <2>4. QED
    BY <2>1, <2>3, <1>9, <1>4, <1>5, <1>6, <1>7
       DEF RunOnce, TickBegin, Peek, Decide, Finish, streamVars
<1>10. ASSUME NEW u \in Source, RecvData(u) PROVE FlowInv'
  <2> DEFINE p == Pipeline(u)
  <2>1. u \in Stream
    BY SourceAssumption
  <2>2. PICK e \in Packet :
          /\ e.n = got[u] + 1 /\ got' = [got EXCEPT ![u] = got[u] + 1]
          /\ Pipeline(u)' = Append(p, e)
          /\ \A s \in Stream \ {u} : Pipeline(s)' = Pipeline(s)
          /\ UNCHANGED <<tick, hand, out, dropped>>
    BY <1>10, ReceiveFacts
  <2>3. /\ Increasing(p) /\ Numbers(p) = ((out[u] + 1)..got[u]) \ dropped[u]
        /\ out[u] <= got[u] /\ dropped[u] \subseteq 1..got[u] /\ p \in Seq(Packet)
    BY <2>1, <1>1, ListTypes DEF PipeInv
  <2> HIDE DEF p
  <2>4. got[u] \in Int /\ out[u] \in Int /\ got'[u] = got[u] + 1
    BY <2>1, <2>2, ListTypes
  <2>5. \A x \in Numbers(p) : x < e.n
    BY <2>2, <2>3, <2>4
  <2>6. Increasing(Append(p, e)) /\ Numbers(Append(p, e)) = Numbers(p) \cup {got[u] + 1}
    BY <2>2, <2>3, <2>5, BackFacts
  <2>7. Numbers(Append(p, e)) = ((out[u] + 1)..(got[u] + 1)) \ dropped[u]
    BY <2>3, <2>4, <2>6
  <2>8. PipeInv(u)'
    <3>1. out[u] <= got'[u] /\ dropped[u] \subseteq 1..got'[u]
      BY <2>3, <2>4
    <3>2. QED
      BY <2>2, <2>4, <2>6, <2>7, <3>1 DEF PipeInv
  <2>9. ASSUME NEW s \in Stream, s # u PROVE PipeInv(s)'
    BY <2>1, <2>2, <2>9, <1>2, ListTypes
  <2>10. HandInv'
    BY <2>2, <1>1 DEF HandInv
  <2>11. QED
    BY <2>8, <2>9, <2>10 DEF FlowInv
<1>11. ASSUME NEW u \in Stream, Cuts(u) PROVE FlowInv'
  <2>1. PICK a \in Seq(Packet), b \in Seq(Packet) :
          /\ Pipeline(u) = a \o b
          /\ \/ /\ Pipeline(u)' = b
                /\ dropped' = [dropped EXCEPT ![u] = dropped[u] \cup Numbers(a)]
             \/ /\ Pipeline(u)' = a
                /\ dropped' = [dropped EXCEPT ![u] = dropped[u] \cup Numbers(b)]
          /\ \A s \in Stream \ {u} : Pipeline(s)' = Pipeline(s)
          /\ UNCHANGED <<tick, hand, out, got>>
    BY <1>11 DEF Cuts
  <2>2. PICK cut \in {Numbers(a), Numbers(b)} :
          /\ \/ cut = Numbers(a) /\ Pipeline(u)' = b
             \/ cut = Numbers(b) /\ Pipeline(u)' = a
          /\ dropped'[u] = dropped[u] \cup cut
          /\ \A s \in Stream \ {u} : dropped'[s] = dropped[s]
    BY <2>1, ListTypes
  <2>3. /\ Increasing(a \o b) /\ Numbers(a \o b) = ((out[u] + 1)..got[u]) \ dropped[u]
        /\ out[u] <= got[u] /\ dropped[u] \subseteq 1..got[u]
    BY <2>1, <1>1 DEF PipeInv
  <2>4. /\ Increasing(a) /\ Increasing(b)
        /\ Numbers(a \o b) = Numbers(a) \cup Numbers(b)
        /\ Numbers(a) \cap Numbers(b) = {}
    BY <2>3, SplitFacts
  <2>5. Numbers(Pipeline(u)') = ((out[u] + 1)..got[u]) \ (dropped[u] \cup cut)
    BY <2>2, <2>3, <2>4
  <2>6. Increasing(Pipeline(u)')
    BY <2>2, <2>4
  <2>7. dropped[u] \cup cut \subseteq 1..got[u]
    <3>1. cut \subseteq (out[u] + 1)..got[u]
      BY <2>2, <2>3, <2>4
    <3>2. (out[u] + 1)..got[u] \subseteq 1..got[u]
      BY ListTypes
    <3>3. QED
      BY <3>1, <3>2, <2>3
  <2>8. PipeInv(u)'
    BY <2>1, <2>2, <2>3, <2>5, <2>6, <2>7 DEF PipeInv
  <2>9. ASSUME NEW s \in Stream, s # u PROVE PipeInv(s)'
    BY <2>1, <2>2, <2>9, <1>2
  <2>10. HandInv'
    BY <2>1, <1>1 DEF HandInv
  <2>11. QED
    BY <2>8, <2>9, <2>10 DEF FlowInv
<1>12. CASE \/ ReadBegin \/ NeedMoreData \/ ReadEof \/ AtEof \/ OpenFFDecode \/ ClearTime
            \/ ClearFlag \/ User \/ UNCHANGED vars
  BY <1>12, <1>3, ElseFacts
<1>13. QED
  BY <1>9, <1>10, <1>11, <1>12, ClearFacts DEF Next, ReadThreadProcess, DoClear, Stream

\* The whole lists are in order and complete throughout.
LEMMA FlowInvariant == Spec => []FlowInv
<1>1. Init => FlowInv
  <2> SUFFICES ASSUME Init PROVE FlowInv
    OBVIOUS
  <2>1. HandInv
    BY DEF Init, HandInv, Empty, Stream
  <2>2. ASSUME NEW s \in Stream PROVE PipeInv(s)
    <3>1. Pipeline(s) = <<>>
      BY ConcatEmptySeq, EmptySeq DEF Init, Empty, Pipeline
    <3>2. Increasing(<<>>) /\ Numbers(<<>>) = {}
      BY EmptySeq DEF Increasing, Numbers
    <3>3. out[s] = 0 /\ got[s] = 0 /\ dropped[s] = {}
      BY DEF Init, None
    <3>4. QED
      BY <3>1, <3>2, <3>3 DEF PipeInv
  <2>3. QED
    BY <2>1, <2>2 DEF FlowInv
<1>2. TypeOK /\ FlowInv /\ [Next]_vars => FlowInv'
  BY FlowStep
<1>3. QED
  BY <1>1, <1>2, TypeCorrect, PTL DEF Spec

(***************************************************************************)
(* Packets of a stream are decoded in the order received, none twice, and  *)
(* none is lost but by DoClear, for any interleaving of the two threads    *)
(* and any number of packets, seeks and leaps.                             *)
(***************************************************************************)
THEOREM NoPacketLost == Spec => []InOrderNoLoss
<1>1. TypeOK /\ FlowInv => InOrderNoLoss
  <2> SUFFICES ASSUME TypeOK, FlowInv, NEW s \in Stream
               PROVE  /\ \A i \in 1..(Len(Pipeline(s)) - 1) :
                           Pipeline(s)[i].n < Pipeline(s)[i + 1].n
                      /\ Numbers(Pipeline(s)) = ((out[s] + 1)..got[s]) \ dropped[s]
    BY DEF InOrderNoLoss
  <2>1. Pipeline(s) \in Seq(Packet)
    BY ConcatProperties DEF TypeOK, Pipeline
  <2>2. Len(Pipeline(s)) \in Nat
    BY <2>1, ListFacts
  <2>3. QED
    BY <2>2 DEF FlowInv, PipeInv, Increasing
<1>2. QED
  BY <1>1, FlowInvariant, TypeCorrect, PTL

-----------------------------------------------------------------------------
(***************************************************************************)
(* The refinement of PacketQueue.                                          *)
(***************************************************************************)
\* What a step does to the queues.
Queue == [s \in Stream |-> Pipeline(s)]

QueueMaps == [Abstract!Next]_(Abstract!vars)

\* The queues differ where one of them does.
LEMMA QueueMoves ==
  ASSUME NEW u \in Stream, NEW q, Pipeline(u)' = q,
         \A s \in Stream \ {u} : Pipeline(s)' = Pipeline(s)
  PROVE  Queue' = [Queue EXCEPT ![u] = q]
<1>1. \A s \in Stream : Queue'[s] = [Queue EXCEPT ![u] = q][s]
  BY DEF Queue
<1>2. QED
  BY <1>1 DEF Queue

\* Where they stay, and so do the counts, nothing happens to them.
LEMMA QueueStays ==
  ASSUME \A s \in Stream : Pipeline(s)' = Pipeline(s), UNCHANGED <<out, got>>
  PROVE  QueueMaps
<1>1. Queue' = Queue
  BY DEF Queue
<1>2. QED
  BY <1>1 DEF QueueMaps, Abstract!vars, Queue

\* A list in two parts is cut between them.
LEMMA CutFacts ==
  ASSUME NEW a \in Seq(Packet), NEW b \in Seq(Packet)
  PROVE  /\ Len(a) \in 0..Len(a \o b)
         /\ SubSeq(a \o b, 1, Len(a)) = a
         /\ SubSeq(a \o b, Len(a) + 1, Len(a \o b)) = b
<1> DEFINE p == a \o b
           k == Len(a)
<1>1. /\ p \in Seq(Packet) /\ Len(p) = k + Len(b) /\ k \in Nat /\ Len(b) \in Nat
      /\ \A i \in 1..(k + Len(b)) : p[i] = IF i <= k THEN a[i] ELSE b[i - k]
  BY ConcatProperties, ListFacts
<1> HIDE DEF p
<1>2. k \in 0..Len(p)
  BY <1>1
<1>3. SubSeq(p, 1, k) = a
  <2>1. /\ SubSeq(p, 1, k) \in Seq(Packet) /\ Len(SubSeq(p, 1, k)) = k
        /\ \A i \in 1..k : SubSeq(p, 1, k)[i] = p[i]
    <3>1. \A i \in 1..k : p[i] \in Packet
      BY <1>1, ElementOfSeq
    <3>2. /\ SubSeq(p, 1, k) \in Seq(Packet)
          /\ Len(SubSeq(p, 1, k)) = IF 1 <= k THEN k - 1 + 1 ELSE 0
          /\ \A i \in 1..(k - 1 + 1) : SubSeq(p, 1, k)[i] = p[1 + i - 1]
      BY <1>1, <3>1, SubSeqProperties
    <3>3. QED
      BY <1>1, <3>2
  <2>2. \A i \in 1..k : SubSeq(p, 1, k)[i] = a[i]
    BY <1>1, <2>1
  <2>3. QED
    BY <2>1, <2>2, SeqEqual
<1>4. SubSeq(p, k + 1, Len(p)) = b
  <2>1. /\ SubSeq(p, k + 1, Len(p)) \in Seq(Packet)
        /\ Len(SubSeq(p, k + 1, Len(p))) = Len(p) - k
        /\ \A i \in 1..(Len(p) - k) : SubSeq(p, k + 1, Len(p))[i] = p[k + i]
    BY <1>1, <1>2, RestFacts
  <2>2. ASSUME NEW i \in 1..Len(b) PROVE p[k + i] = b[i]
    <3>1. k + i \in 1..(k + Len(b)) /\ ~(k + i <= k) /\ k + i - k = i
      BY <1>1
    <3>2. QED
      BY <3>1, <1>1
  <2>3. Len(SubSeq(p, k + 1, Len(p))) = Len(b)
    BY <1>1, <2>1
  <2>4. \A i \in 1..Len(b) : SubSeq(p, k + 1, Len(p))[i] = b[i]
    BY <1>1, <2>1, <2>2
  <2>5. QED
    BY <2>1, <2>3, <2>4, SeqEqual
<1>5. QED
  BY <1>2, <1>3, <1>4 DEF p

\* Every step is one of PacketQueue, or leaves its state alone.
LEMMA QueueStep == TypeOK /\ HandInv /\ [Next]_vars => QueueMaps
<1> SUFFICES ASSUME TypeOK, HandInv, [Next]_vars PROVE QueueMaps
  OBVIOUS
<1>1. ASSUME UNCHANGED <<recv, decode, hand, out, got>> PROVE QueueMaps
  BY <1>1, QueueStays DEF Pipeline
<1>2. CASE Take("video", "takeVideo", "takeAudio") \/ Take("audio", "takeAudio", "pushAudio")
  <2>1. /\ Take("video", "takeVideo", "takeAudio") => hand["video"] = <<>>
        /\ Take("audio", "takeAudio", "pushAudio") => hand["audio"] = <<>>
    BY DEF Take, HandInv
  <2>2. QED
    BY <1>2, <2>1, TakeFacts, QueueStays DEF Stream
<1>3. CASE Push("audio", "pushAudio", "pushVideo") \/ Push("video", "pushVideo", "finish")
  BY <1>3, PushFacts, QueueStays DEF Stream
<1>4. ASSUME NEW u \in Stream, NEW here, NEW next, Decode(u, here, next)
      PROVE  QueueMaps
  <2>1. CASE UNCHANGED <<out, decode>>
    BY <2>1, <1>1, <1>4 DEF Decode, tickVars, streamVars
  <2>2. CASE ~UNCHANGED <<out, decode>>
    <3>1. /\ Pipeline(u) # <<>> /\ Pipeline(u)' = Tail(Pipeline(u))
          /\ out' = [out EXCEPT ![u] = Head(Pipeline(u)).n]
          /\ \A s \in Stream \ {u} : Pipeline(s)' = Pipeline(s)
          /\ got' = got
      BY <1>4, <2>2, DecodeFacts
    <3>2. Queue' = [Queue EXCEPT ![u] = Tail(Pipeline(u))] /\ Queue[u] = Pipeline(u)
      BY <3>1, QueueMoves DEF Queue
    <3>3. Abstract!Play(u)
      BY <3>1, <3>2 DEF Abstract!Play, Queue
    <3>4. QED
      BY <3>3 DEF QueueMaps, Abstract!Next
  <2>3. QED
    BY <2>1, <2>2
<1>5. ASSUME NEW u \in Source, RecvData(u) PROVE QueueMaps
  <2>1. u \in Stream
    BY SourceAssumption
  <2>2. PICK e \in Packet :
          /\ e.n = got[u] + 1 /\ got' = [got EXCEPT ![u] = got[u] + 1]
          /\ Pipeline(u)' = Append(Pipeline(u), e)
          /\ \A s \in Stream \ {u} : Pipeline(s)' = Pipeline(s)
          /\ out' = out
    BY <1>5, ReceiveFacts
  <2>3. Queue' = [Queue EXCEPT ![u] = Append(Pipeline(u), e)] /\ Queue[u] = Pipeline(u)
    BY <2>1, <2>2, QueueMoves DEF Queue
  <2>4. Abstract!Receive(u, e)
    BY <2>1, <2>2, <2>3 DEF Abstract!Receive, Queue
  <2>5. QED
    BY <2>1, <2>4 DEF QueueMaps, Abstract!Next
<1>6. ASSUME NEW u \in Stream, Cuts(u) PROVE QueueMaps
  <2>1. PICK a \in Seq(Packet), b \in Seq(Packet) :
          /\ Pipeline(u) = a \o b /\ Pipeline(u)' \in {a, b}
          /\ \A s \in Stream \ {u} : Pipeline(s)' = Pipeline(s)
          /\ UNCHANGED <<out, got>>
    BY <1>6 DEF Cuts
  <2> DEFINE k == Len(a)
             p == Pipeline(u)
  <2>2. k \in 0..Len(p) /\ Pipeline(u)' \in {SubSeq(p, 1, k), SubSeq(p, k + 1, Len(p))}
    BY <2>1, CutFacts
  <2>3. \/ Queue' = [Queue EXCEPT ![u] = SubSeq(p, 1, k)]
        \/ Queue' = [Queue EXCEPT ![u] = SubSeq(p, k + 1, Len(p))]
    BY <2>1, <2>2, QueueMoves
  <2>4. Queue[u] = p
    BY DEF Queue
  <2> HIDE DEF k, p
  <2>5. Abstract!Cut(u, k)
    BY <2>1, <2>3, <2>4 DEF Abstract!Cut, Queue
  <2>6. k \in 0..Len(Queue[u])
    BY <2>2, <2>4
  <2>7. QED
    BY <2>5, <2>6 DEF QueueMaps, Abstract!Next, Queue
<1>7. CASE \/ ReadBegin \/ NeedMoreData \/ ReadEof \/ AtEof \/ OpenFFDecode \/ ClearTime
           \/ ClearFlag \/ User \/ UNCHANGED vars
  BY <1>1, <1>7, ElseFacts
<1>8. CASE RunOnce
  <2>1. CASE (\E gap \in 0..MaxGap : TickBegin(gap)) \/ Decide \/ Finish
             \/ Peek("video", "peekVideo", "peekAudio") \/ Peek("audio", "peekAudio", "decide")
    BY <2>1, <1>1 DEF TickBegin, Peek, Decide, Finish, streamVars
  <2>2. QED
    BY <1>2, <1>3, <1>4, <1>8, <2>1 DEF RunOnce, Stream
<1>9. QED
  BY <1>5, <1>6, <1>7, <1>8, ClearFacts DEF Next, ReadThreadProcess, DoClear, Stream

(***************************************************************************)
(* The two threads and the lists of FFBuffer.cpp are one queue of each     *)
(* stream, for any number of packets, seeks and leaps.                     *)
(***************************************************************************)
THEOREM QueueKept == Spec => KeepsQueue
<1>1. Init => Abstract!Init
  <2> SUFFICES ASSUME Init PROVE Abstract!Init
    OBVIOUS
  <2>1. \A s \in Stream : Pipeline(s) = <<>>
    BY ConcatEmptySeq, EmptySeq DEF Init, Empty, Pipeline
  <2>2. QED
    BY <2>1 DEF Init, None, Abstract!Init
<1>2. TypeOK /\ FlowInv /\ [Next]_vars => QueueMaps
  BY QueueStep DEF FlowInv
<1>3. QED
  BY <1>1, <1>2, FlowInvariant, TypeCorrect, PTL
  DEF Spec, KeepsQueue, QueueMaps, Abstract!Spec

=============================================================================
