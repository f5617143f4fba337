---------------------------- MODULE FFPlayerProofs ----------------------------
(***************************************************************************)
(* Proofs about FFPlayer: the threads that go through a player are over    *)
(* when it is deleted, a player never rests without having said so, and    *)
(* what it says is in order.                                               *)
(***************************************************************************)
EXTENDS FFPlayer, TLAPS

\* The device's thread is in the player only while it is attached.
TypeInv == TypeOK /\ (device => engine \in {"idle", "detach"})

\* Where the reading thread works on a connection there is one, and while it
\* opens one the next attempt is scheduled.
ReaderInv ==
  /\ reader \in {"read", "eof"} => fmt_ctx_
  /\ reader = "open" => ~fmt_ctx_
  /\ reader = "open" /\ b_running_ => n_reconnect_time_ # "0"

SilentInv == ReaderInv /\ NeverSilent

LEMMA InitTypes == Init => TypeInv
  BY DEF Init, TypeInv, TypeOK, Time

\* One step keeps the types.
LEMMA StepTypes == TypeInv /\ [Next]_vars => TypeInv'
<1> SUFFICES ASSUME TypeInv, [Next]_vars PROVE TypeInv'
  OBVIOUS
<1> USE DEF TypeInv, TypeOK, Time, callVars, wishVars, readVars, connVars, timeVars,
            noteVars
<1>1. CASE startPlay
  BY <1>1 DEF startPlay
<1>2. CASE stopPlay
  BY <1>2 DEF stopPlay
<1>3. CASE DetachAudSpeaker
  BY <1>3 DEF DetachAudSpeaker
<1>4. CASE StopTask
  BY <1>4 DEF StopTask
<1>5. CASE Joined
  BY <1>5 DEF Joined
<1>6. CASE rePlay
  BY <1>6 DEF rePlay
<1>7. CASE seekTo
  BY <1>7 DEF seekTo
<1>8. CASE Replay
  BY <1>8 DEF Replay, AtTop
<1>9. CASE Connect
  BY <1>9 DEF Connect, AtTop
<1>10. CASE Opened
  BY <1>10 DEF Opened
<1>11. CASE OpenFails
  BY <1>11 DEF OpenFails, Failed
<1>12. CASE OpenInterrupted
  BY <1>12 DEF OpenInterrupted, Failed
<1>13. CASE Seek
  BY <1>13 DEF Seek, AtTop
<1>14. CASE Read
  BY <1>14 DEF Read
<1>15. CASE ReadEof
  BY <1>15 DEF ReadEof
<1>16. CASE ReadInterrupted
  BY <1>16 DEF ReadInterrupted
<1>17. CASE Eof
  BY <1>17 DEF Eof
<1>18. CASE EofBuffered
  BY <1>18 DEF EofBuffered
<1>19. CASE End
  BY <1>19 DEF End
<1>20. CASE StartPlaying
  BY <1>20 DEF StartPlaying, Attached
<1>21. ASSUME NEW left \in {"playing", "empty"}, TakePacket(left)
      PROVE  TypeInv'
  BY <1>21 DEF TakePacket, Attached
<1>22. CASE Decode
  BY <1>22 DEF Decode
<1>23. CASE ReconnectDue
  BY <1>23 DEF ReconnectDue
<1>24. CASE DeadlineDue
  BY <1>24 DEF DeadlineDue
<1>25. CASE UNCHANGED vars
  BY <1>25 DEF vars
<1>26. QED
  BY <1>1, <1>2, <1>3, <1>4, <1>5, <1>6, <1>7, <1>8, <1>9, <1>10, <1>11, <1>12,
     <1>13, <1>14, <1>15, <1>16, <1>17, <1>18, <1>19, <1>20, <1>21, <1>22, <1>23,
     <1>24, <1>25
  DEF Next, Engine, Stopping, Opening, Reading, Device

\* The types hold, for every interleaving; no reading thread and no callback of
\* the device outlives the player it goes through.
THEOREM TypeCorrect == Spec => []TypeOK
<1>1. TypeInv => TypeOK
  BY DEF TypeInv
<1>2. QED
  BY <1>1, InitTypes, StepTypes, PTL DEF Spec

LEMMA InitSilent == Init => SilentInv
  BY DEF Init, SilentInv, ReaderInv, NeverSilent, AtTop

\* One step keeps the player from resting silently.
LEMMA StepSilent == TypeInv /\ SilentInv /\ [Next]_vars => SilentInv'
<1> SUFFICES ASSUME TypeInv, SilentInv, [Next]_vars PROVE SilentInv'
  OBVIOUS
<1> USE DEF SilentInv, ReaderInv, NeverSilent, AtTop, TypeInv, TypeOK, Time,
            callVars, wishVars, readVars, connVars, timeVars, noteVars
<1>1. CASE startPlay
  BY <1>1 DEF startPlay
<1>2. CASE stopPlay
  BY <1>2 DEF stopPlay
<1>3. CASE DetachAudSpeaker
  BY <1>3 DEF DetachAudSpeaker
<1>4. CASE StopTask
  BY <1>4 DEF StopTask
<1>5. CASE Joined
  BY <1>5 DEF Joined
<1>6. CASE rePlay
  BY <1>6 DEF rePlay
<1>7. CASE seekTo
  BY <1>7 DEF seekTo
<1>8. CASE Replay
  BY <1>8 DEF Replay
<1>9. CASE Connect
  BY <1>9 DEF Connect
<1>10. CASE Opened
  BY <1>10 DEF Opened
<1>11. CASE OpenFails
  BY <1>11 DEF OpenFails, Failed
<1>12. CASE OpenInterrupted
  BY <1>12 DEF OpenInterrupted, Failed
<1>13. CASE Seek
  BY <1>13 DEF Seek
<1>14. CASE Read
  BY <1>14 DEF Read
<1>15. CASE ReadEof
  BY <1>15 DEF ReadEof
<1>16. CASE ReadInterrupted
  BY <1>16 DEF ReadInterrupted
<1>17. CASE Eof
  BY <1>17 DEF Eof
<1>18. CASE EofBuffered
  BY <1>18 DEF EofBuffered
<1>19. CASE End
  BY <1>19 DEF End
<1>20. CASE StartPlaying
  BY <1>20 DEF StartPlaying, Attached
<1>21. ASSUME NEW left \in {"playing", "empty"}, TakePacket(left)
      PROVE  SilentInv'
  BY <1>21 DEF TakePacket, Attached
<1>22. CASE Decode
  BY <1>22 DEF Decode
<1>23. CASE ReconnectDue
  BY <1>23 DEF ReconnectDue
<1>24. CASE DeadlineDue
  BY <1>24 DEF DeadlineDue
<1>25. CASE UNCHANGED vars
  BY <1>25 DEF vars
<1>26. QED
  BY <1>1, <1>2, <1>3, <1>4, <1>5, <1>6, <1>7, <1>8, <1>9, <1>10, <1>11, <1>12,
     <1>13, <1>14, <1>15, <1>16, <1>17, <1>18, <1>19, <1>20, <1>21, <1>22, <1>23,
     <1>24, <1>25
  DEF Next, Engine, Stopping, Opening, Reading, Device

\* A player that has no connection and does not try to get one has told the
\* application so as the last thing.
THEOREM NeverSilentAlways == Spec => []NeverSilent
<1>1. SilentInv => NeverSilent
  BY DEF SilentInv
<1>2. QED
  BY <1>1, InitTypes, StepTypes, InitSilent, StepSilent, PTL DEF Spec

\* A player that is not being joined runs, and has its reading thread.
CloseInv ==
  /\ engine # "idle" => ar_player_
  /\ ar_player_ /\ engine # "join" => b_running_ /\ reader # "none"
  /\ CloseTold

LEMMA InitClose == Init => CloseInv
  BY DEF Init, CloseInv, CloseTold

\* One step keeps the last word of a life.
LEMMA StepClose == TypeInv /\ CloseInv /\ [Next]_vars => CloseInv'
<1> SUFFICES ASSUME TypeInv, CloseInv, [Next]_vars PROVE CloseInv'
  OBVIOUS
<1> USE DEF CloseInv, CloseTold, TypeInv, TypeOK, Time, callVars, wishVars, readVars,
            connVars, timeVars, noteVars
<1>1. CASE startPlay
  BY <1>1 DEF startPlay
<1>2. CASE stopPlay
  BY <1>2 DEF stopPlay
<1>3. CASE DetachAudSpeaker
  BY <1>3 DEF DetachAudSpeaker
<1>4. CASE StopTask
  BY <1>4 DEF StopTask
<1>5. CASE Joined
  BY <1>5 DEF Joined
<1>6. CASE rePlay
  BY <1>6 DEF rePlay
<1>7. CASE seekTo
  BY <1>7 DEF seekTo
<1>8. CASE Replay
  BY <1>8 DEF Replay, AtTop
<1>9. CASE Connect
  BY <1>9 DEF Connect, AtTop
<1>10. CASE Opened
  BY <1>10 DEF Opened
<1>11. CASE OpenFails
  BY <1>11 DEF OpenFails, Failed
<1>12. CASE OpenInterrupted
  BY <1>12 DEF OpenInterrupted, Failed
<1>13. CASE Seek
  BY <1>13 DEF Seek, AtTop
<1>14. CASE Read
  BY <1>14 DEF Read
<1>15. CASE ReadEof
  BY <1>15 DEF ReadEof
<1>16. CASE ReadInterrupted
  BY <1>16 DEF ReadInterrupted
<1>17. CASE Eof
  BY <1>17 DEF Eof
<1>18. CASE EofBuffered
  BY <1>18 DEF EofBuffered
<1>19. CASE End
  BY <1>19 DEF End
<1>20. CASE StartPlaying
  BY <1>20 DEF StartPlaying, Attached
<1>21. ASSUME NEW left \in {"playing", "empty"}, TakePacket(left)
      PROVE  CloseInv'
  BY <1>21 DEF TakePacket, Attached
<1>22. CASE Decode
  BY <1>22 DEF Decode
<1>23. CASE ReconnectDue
  BY <1>23 DEF ReconnectDue
<1>24. CASE DeadlineDue
  BY <1>24 DEF DeadlineDue
<1>25. CASE UNCHANGED vars
  BY <1>25 DEF vars
<1>26. QED
  BY <1>1, <1>2, <1>3, <1>4, <1>5, <1>6, <1>7, <1>8, <1>9, <1>10, <1>11, <1>12,
     <1>13, <1>14, <1>15, <1>16, <1>17, <1>18, <1>19, <1>20, <1>21, <1>22, <1>23,
     <1>24, <1>25
  DEF Next, Engine, Stopping, Opening, Reading, Device

\* In every life of a player the application is told of its close.
THEOREM CloseToldAlways == Spec => []CloseTold
<1>1. CloseInv => CloseTold
  BY DEF CloseInv
<1>2. QED
  BY <1>1, InitTypes, StepTypes, InitClose, StepClose, PTL DEF Spec

\* The first success is remembered as long as the player lives, and it is what
\* tells a story that began to play from one that has not; a connection is had
\* only after it.  What ended has been notified; what is stopped reads no more.
StoryInv ==
  /\ b_open_stream_success_ <=> told \in {"ok", "ended", "stopped"}
  /\ fmt_ctx_ => b_open_stream_success_
  /\ told = "ended" => b_notify_closed_
  /\ told = "stopped" => reader = "none"

\* A word that the story allows next.
NextWord ==
  \/ told' = told \/ told' = "nothing"
  \/ <<told, told'>> \in {<<"nothing", "ok">>, <<"nothing", "failed">>, <<"failed", "ok">>,
                         <<"ok", "ended">>, <<"ok", "stopped">>}

LEMMA InitStory == Init => StoryInv
  BY DEF Init, StoryInv

\* One step keeps the flags true to the story and goes on with it.
LEMMA StepStory ==
  TypeInv /\ ReaderInv /\ StoryInv /\ [Next]_vars => StoryInv' /\ NextWord
<1> SUFFICES ASSUME TypeInv, ReaderInv, StoryInv, [Next]_vars
             PROVE  StoryInv' /\ NextWord
  OBVIOUS
<1> USE DEF StoryInv, NextWord, ReaderInv, TypeInv, TypeOK, callVars, wishVars, readVars,
            connVars, timeVars, noteVars
<1>1. CASE startPlay
  BY <1>1 DEF startPlay
<1>2. CASE stopPlay
  BY <1>2 DEF stopPlay
<1>3. CASE DetachAudSpeaker
  BY <1>3 DEF DetachAudSpeaker
<1>4. CASE StopTask
  BY <1>4 DEF StopTask
<1>5. CASE Joined
  BY <1>5 DEF Joined
<1>6. CASE rePlay
  BY <1>6 DEF rePlay
<1>7. CASE seekTo
  BY <1>7 DEF seekTo
<1>8. CASE Replay
  BY <1>8 DEF Replay, AtTop
<1>9. CASE Connect
  BY <1>9 DEF Connect, AtTop
<1>10. CASE Opened
  BY <1>10 DEF Opened
<1>11. CASE OpenFails
  BY <1>11 DEF OpenFails, Failed
<1>12. CASE OpenInterrupted
  BY <1>12 DEF OpenInterrupted, Failed
<1>13. CASE Seek
  BY <1>13 DEF Seek, AtTop
<1>14. CASE Read
  BY <1>14 DEF Read
<1>15. CASE ReadEof
  BY <1>15 DEF ReadEof
<1>16. CASE ReadInterrupted
  BY <1>16 DEF ReadInterrupted
<1>17. CASE Eof
  BY <1>17 DEF Eof
<1>18. CASE EofBuffered
  BY <1>18 DEF EofBuffered
<1>19. CASE End
  BY <1>19 DEF End
<1>20. CASE StartPlaying
  BY <1>20 DEF StartPlaying, Attached
<1>21. ASSUME NEW left \in {"playing", "empty"}, TakePacket(left)
      PROVE  StoryInv' /\ NextWord
  BY <1>21 DEF TakePacket
<1>22. CASE Decode
  BY <1>22 DEF Decode
<1>23. CASE ReconnectDue
  BY <1>23 DEF ReconnectDue
<1>24. CASE DeadlineDue
  BY <1>24 DEF DeadlineDue
<1>25. CASE UNCHANGED vars
  BY <1>25 DEF vars
<1>26. QED
  BY <1>1, <1>2, <1>3, <1>4, <1>5, <1>6, <1>7, <1>8, <1>9, <1>10, <1>11, <1>12,
     <1>13, <1>14, <1>15, <1>16, <1>17, <1>18, <1>19, <1>20, <1>21, <1>22, <1>23,
     <1>24, <1>25
  DEF Next, Engine, Stopping, Opening, Reading, Device

\* The callbacks of one life of a player come in the order of a story, through
\* every replay, seek, failure and end (OnArPlyOK, OnArPlyClose).
THEOREM ToldInOrderAlways == Spec => ToldInOrder
<1>1. TypeInv /\ SilentInv /\ StoryInv /\ [Next]_vars => StoryInv' /\ [NextWord]_vars
  BY StepStory DEF SilentInv
<1>2. QED
  BY <1>1, InitTypes, StepTypes, InitSilent, StepSilent, InitStory, PTL
  DEF Spec, ToldInOrder, NextWord

=============================================================================
