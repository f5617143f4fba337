---------------------------- MODULE FFPusherProofs ----------------------------
(***************************************************************************)
(* Proofs about FFPusher: the ARFFPusher outlives the threads that go      *)
(* through it, and the gate of the key frames keeps the stream decodable.  *)
(***************************************************************************)
EXTENDS FFPusher, TLAPS

LEMMA InitTypes == Init => TypeOK
  BY DEF Init, TypeOK

\* One step keeps the types.
LEMMA StepTypes == TypeOK /\ [Next]_vars => TypeOK'
<1> SUFFICES ASSUME TypeOK, [Next]_vars PROVE TypeOK'
  OBVIOUS
<1> USE DEF TypeOK, pushVars, writerVars, encoderVars, audioVars, streamVars
<1>1. CASE startPush
  BY <1>1 DEF startPush
<1>2. CASE stopPush
  BY <1>2 DEF stopPush
<1>3. CASE DetachAudCapture
  BY <1>3 DEF DetachAudCapture
<1>4. CASE deinitVideo
  BY <1>4 DEF deinitVideo
<1>5. CASE stopTask
  BY <1>5 DEF stopTask
<1>6. CASE pauseVideo
  BY <1>6 DEF pauseVideo
<1>7. CASE RunOnce
  BY <1>7 DEF RunOnce
<1>8. CASE ConnectFails
  BY <1>8 DEF ConnectFails
<1>9. CASE Connected
  BY <1>9 DEF Connected
<1>10. CASE RetryDue
  BY <1>10 DEF RetryDue
<1>11. CASE OnFrame
  BY <1>11 DEF OnFrame
<1>12. CASE AddFrame
  <2>1. CASE encoder = "none"
    BY <1>12, <2>1 DEF AddFrame
  <2>2. CASE encoder # "none"
    BY <1>12, <2>2 DEF AddFrame
  <2>3. QED
    BY <2>1, <2>2
<1>13. CASE KeyFrameDue
  BY <1>13 DEF KeyFrameDue
<1>14. CASE Encode
  BY <1>14 DEF Encode
<1>15. CASE OpenGate
  BY <1>15 DEF OpenGate
<1>16. CASE setVideoData
  BY <1>16 DEF setVideoData
<1>17. CASE SetVideoEncData
  <2>1. decodes' \in BOOLEAN
    BY <1>17 DEF SetVideoEncData
  <2>2. broken' \in {0, 1, 2}
    BY <1>17 DEF SetVideoEncData
  <2>3. QED
    BY <1>17, <2>1, <2>2 DEF SetVideoEncData, WriteFails
<1>18. CASE RecordedDataIsAvailable
  BY <1>18 DEF RecordedDataIsAvailable
<1>19. CASE setAudioData
  BY <1>19 DEF setAudioData
<1>20. CASE SetAudioEncData
  BY <1>20 DEF SetAudioEncData, WriteFails
<1>21. CASE UNCHANGED vars
  BY <1>21 DEF vars
<1>22. QED
  BY <1>1, <1>2, <1>3, <1>4, <1>5, <1>6, <1>7, <1>8, <1>9, <1>10, <1>11, <1>12,
     <1>13, <1>14, <1>15, <1>16, <1>17, <1>18, <1>19, <1>20, <1>21
  DEF Next, Engine, Stopping, Encoder, Audio, Camera

\* The types hold: the writer never ends by itself.
THEOREM TypeCorrect == Spec => []TypeOK
  BY InitTypes, StepTypes, PTL DEF Spec

\* What stopPush has already waited for, by where the engine's thread is.
AliveInv ==
  /\ attached \/ audio # "idle" => ar_pusher_ /\ engine \in {"idle", "connecting", "detach"}
  /\ encoder # "none" => ar_pusher_ /\ engine # "delete"

LEMMA InitAlive == Init => AliveInv
  BY DEF Init, AliveInv

\* One step keeps the ARFFPusher while a thread may go through it.
LEMMA StepAlive == TypeOK /\ AliveInv /\ [Next]_vars => AliveInv'
<1> SUFFICES ASSUME TypeOK, AliveInv, [Next]_vars PROVE AliveInv'
  OBVIOUS
<1> USE DEF AliveInv, TypeOK, pushVars, writerVars, encoderVars, audioVars, streamVars
<1>1. CASE startPush
  BY <1>1 DEF startPush
<1>2. CASE stopPush
  BY <1>2 DEF stopPush
<1>3. CASE DetachAudCapture
  BY <1>3 DEF DetachAudCapture
<1>4. CASE deinitVideo
  BY <1>4 DEF deinitVideo
<1>5. CASE stopTask
  BY <1>5 DEF stopTask
<1>6. CASE pauseVideo
  BY <1>6 DEF pauseVideo
<1>7. CASE RunOnce
  BY <1>7 DEF RunOnce
<1>8. CASE ConnectFails
  BY <1>8 DEF ConnectFails
<1>9. CASE Connected
  BY <1>9 DEF Connected
<1>10. CASE RetryDue
  BY <1>10 DEF RetryDue
<1>11. CASE OnFrame
  BY <1>11 DEF OnFrame
<1>12. CASE AddFrame
  BY <1>12 DEF AddFrame
<1>13. CASE KeyFrameDue
  BY <1>13 DEF KeyFrameDue
<1>14. CASE Encode
  BY <1>14 DEF Encode
<1>15. CASE OpenGate
  BY <1>15 DEF OpenGate
<1>16. CASE setVideoData
  BY <1>16 DEF setVideoData
<1>17. CASE SetVideoEncData
  BY <1>17 DEF SetVideoEncData, WriteFails
<1>18. CASE RecordedDataIsAvailable
  BY <1>18 DEF RecordedDataIsAvailable
<1>19. CASE setAudioData
  BY <1>19 DEF setAudioData
<1>20. CASE SetAudioEncData
  BY <1>20 DEF SetAudioEncData, WriteFails
<1>21. CASE UNCHANGED vars
  BY <1>21 DEF vars
<1>22. QED
  BY <1>1, <1>2, <1>3, <1>4, <1>5, <1>6, <1>7, <1>8, <1>9, <1>10, <1>11, <1>12,
     <1>13, <1>14, <1>15, <1>16, <1>17, <1>18, <1>19, <1>20, <1>21
  DEF Next, Engine, Stopping, Encoder, Audio, Camera

\* No thread uses the ARFFPusher after stopPush has deleted it.
THEOREM NoUseAfterFreeAlways == Spec => []NoUseAfterFree
<1>1. AliveInv => NoUseAfterFree
  BY DEF AliveInv, NoUseAfterFree
<1>2. QED
  BY <1>1, InitTypes, StepTypes, InitAlive, StepAlive, PTL DEF Spec

\* While the gate is open the server can decode the next frame, and the frame
\* that has slipped through a gate that has closed since is the first one.
GateInv ==
  /\ now_state_ = "Connected" /\ ar_pusher_ /\ ~b_need_keyframe_ =>
       decodes \/ (encoder \in {"gate", "writes"} /\ key)
  /\ encoder = "writes" /\ b_need_keyframe_ => broken = 0
  /\ Decodable

LEMMA InitGate == Init => GateInv
  BY DEF Init, GateInv, Decodable

\* One step keeps the stream decodable.
LEMMA StepGate == TypeOK /\ AliveInv /\ GateInv /\ [Next]_vars => GateInv'
<1> SUFFICES ASSUME TypeOK, AliveInv, GateInv, [Next]_vars PROVE GateInv'
  OBVIOUS
<1> USE DEF GateInv, Decodable, AliveInv, TypeOK, pushVars, writerVars, encoderVars,
            audioVars, streamVars
<1>1. CASE startPush
  BY <1>1 DEF startPush
<1>2. CASE stopPush
  BY <1>2 DEF stopPush
<1>3. CASE DetachAudCapture
  BY <1>3 DEF DetachAudCapture
<1>4. CASE deinitVideo
  BY <1>4 DEF deinitVideo
<1>5. CASE stopTask
  BY <1>5 DEF stopTask
<1>6. CASE pauseVideo
  BY <1>6 DEF pauseVideo
<1>7. CASE RunOnce
  BY <1>7 DEF RunOnce
<1>8. CASE ConnectFails
  BY <1>8 DEF ConnectFails
<1>9. CASE Connected
  BY <1>9 DEF Connected
<1>10. CASE RetryDue
  BY <1>10 DEF RetryDue
<1>11. CASE OnFrame
  BY <1>11 DEF OnFrame
<1>12. CASE AddFrame
  BY <1>12 DEF AddFrame
<1>13. CASE KeyFrameDue
  BY <1>13 DEF KeyFrameDue
<1>14. CASE Encode
  BY <1>14 DEF Encode
<1>15. CASE OpenGate
  BY <1>15 DEF OpenGate
<1>16. CASE setVideoData
  BY <1>16 DEF setVideoData
<1>17. CASE SetVideoEncData
  BY <1>17 DEF SetVideoEncData, WriteFails
<1>18. CASE RecordedDataIsAvailable
  BY <1>18 DEF RecordedDataIsAvailable
<1>19. CASE setAudioData
  BY <1>19 DEF setAudioData
<1>20. CASE SetAudioEncData
  BY <1>20 DEF SetAudioEncData, WriteFails
<1>21. CASE UNCHANGED vars
  BY <1>21 DEF vars
<1>22. QED
  BY <1>1, <1>2, <1>3, <1>4, <1>5, <1>6, <1>7, <1>8, <1>9, <1>10, <1>11, <1>12,
     <1>13, <1>14, <1>15, <1>16, <1>17, <1>18, <1>19, <1>20, <1>21
  DEF Next, Engine, Stopping, Encoder, Audio, Camera

\* On every connection the server gets one frame at most that it cannot decode.
THEOREM DecodableAlways == Spec => []Decodable
<1>1. GateInv => Decodable
  BY DEF GateInv
<1>2. QED
  BY <1>1, InitTypes, StepTypes, InitAlive, StepAlive, InitGate, StepGate, PTL DEF Spec

=============================================================================
