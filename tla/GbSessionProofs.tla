-------------------------- MODULE GbSessionProofs --------------------------
(***************************************************************************)
(* Proofs about GbSession, for any set of threads, any limit and counter   *)
(* width and any number of contexts, calls and messages.                   *)
(*                                                                         *)
(* The inductive invariant rests on one notion, the spine: the one thread  *)
(* that at any moment beats, registers or restarts.  The spine moves from  *)
(* the registering thread to the keep-alive thread it creates, and back to *)
(* registering when that thread gives up.                                  *)
(***************************************************************************)
EXTENDS GbSession, FiniteSetTheorems, TLAPS

Spine(t) == pc[t] \in KeepAlive \cup Registering \cup Teardown

Sending == {"send", "reg", "pollStore"}
Between == {"start", "new", "init", "delete"}

\* Nothing has happened before the first registerSip.
Fresh == starts = 0 => live = {} /\ \A t \in Thread : pc[t] = "idle"

\* Contexts are numbered in the order of their creation; a dead one holds
\* no outstanding message.
Numbered ==
  /\ hctx <= ctxs /\ live \subseteq 1..ctxs
  /\ \A t \in Thread : ctx[t] <= ctxs
  /\ \A c \in Ctx : c \notin live => kas[c] = 0

OneSpine ==
  starts <= 1 /\ releases = 0 =>
    \A t, u \in Thread : Spine(t) /\ Spine(u) => t = u

\* Without overlapping updates a loaded value is the current one.
Loaded == Quiet => \A t \in Thread : pc[t] \in Storing => seen[t] = wait_count

Drivers ==
  Quiet => /\ live \subseteq {hctx}
           /\ \A t, u \in Thread : Driving(t) /\ Driving(u) => t = u

\* A spine between two contexts: none is up, and no thread is about to loop.
BetweenInv ==
  Quiet => \A t \in Thread :
    /\ pc[t] \in Between => live = {}
    /\ pc[t] \in Between \cup {"quit"} => \A u \in Thread : pc[u] # "enter"
    /\ pc[t] \in {"init", "quit"} => holder = "alloc"

\* A spine that registers: its context is the holder's and nobody else's.
SendingInv ==
  Quiet => \A t \in Thread : pc[t] \in Sending =>
    /\ hctx \in live /\ ctx[t] = hctx /\ kas[hctx] = 0 /\ holder = "alloc"
    /\ \A u \in Thread \ {t} : ctx[u] # hctx /\ pc[u] # "enter"

\* A spine that beats.
BeatingInv ==
  Quiet => \A t \in Thread : Beating(t) =>
    /\ hctx \in live /\ holder = "alloc" /\ keep_alive_thread = t
    /\ \A u \in Thread : pc[u] = "ansStore" => ctx[u] = hctx
    /\ wait_count <= Limit + 1
    /\ wait_count = Unanswered + (IF pc[t] \in {"kaSleep", "kaWake"} THEN 1 ELSE 0)

\* Until the registered thread is in its loop no Keepalive has left.
EnterInv ==
  Quiet => \A t \in Thread : pc[t] = "enter" =>
    /\ hctx \in live /\ ctx[t] = hctx /\ kas[hctx] = 0
    /\ \A u \in Thread : Spine(u) =>
         /\ pc[u] \in {"ka", "kaStore", "kaSleep"}
         /\ pc[u] # "kaSleep" => wait_count = 0

IInv ==
  /\ TypeOK /\ Fresh /\ Numbered /\ OneSpine /\ Loaded /\ Drivers
  /\ BetweenInv /\ SendingInv /\ BeatingInv /\ EnterInv

-----------------------------------------------------------------------------
\* Both updates of wait_count stay in the width of an unsigned int.
LEMMA CounterType ==
  ASSUME NEW v \in 0..(Wrap - 1)
  PROVE  Inc(v) \in 0..(Wrap - 1) /\ Dec(v) \in 0..(Wrap - 1)
BY CounterAssumption DEF Inc, Dec

(***************************************************************************)
(* Every step keeps the types: in particular wait_count stays an unsigned  *)
(* value and no context number, call or release passes its bound.          *)
(***************************************************************************)
LEMMA TypeStep == TypeOK /\ [Next]_vars => TypeOK'
<1> SUFFICES ASSUME TypeOK, [Next]_vars PROVE TypeOK'
  OBVIOUS
<1> USE ThreadAssumption, CounterAssumption, BoundAssumption
<1>1. hctx \in 0..MaxCtx /\ ctxs \in 0..MaxCtx /\ live \subseteq Ctx
  BY DEF TypeOK
<1>2. pc \in [Thread -> PC]
  BY DEF TypeOK
<1>3. ctx \in [Thread -> 0..MaxCtx] /\ cb \in [Thread -> 0..MaxStart]
  BY DEF TypeOK
<1>4. seen \in [Thread -> 0..(Wrap - 1)] /\ wait_count \in 0..(Wrap - 1)
  BY DEF TypeOK
<1>5. regs \in [Ctx -> SUBSET RegisterKind] /\ kas \in [Ctx -> 0..MaxOut]
  BY DEF TypeOK
<1>6. 0 \in 0..(Wrap - 1) /\ 0 \in 0..MaxCtx
  BY DEF TypeOK
<1>7. starts \in 0..MaxStart /\ releases \in 0..MaxRelease /\ mSipCallback \in 0..MaxStart
  BY DEF TypeOK
<1>8. CASE unRegister
  <2>1. regs' \in [Ctx -> SUBSET RegisterKind]
    BY <1>8, <1>5, <1>1 DEF unRegister, Quit
  <2>2. kas' \in [Ctx -> 0..MaxOut]
    BY <1>8, <1>5, <1>1 DEF unRegister, Quit
  <2>3. live' \subseteq Ctx /\ hctx' \in 0..MaxCtx /\ ctxs' \in 0..MaxCtx
    BY <1>8, <1>1 DEF unRegister, Quit
  <2>4. deleted' \subseteq 0..MaxStart /\ unregs' \in Nat
    <3>1. deleted \subseteq 0..MaxStart /\ unregs \in Nat
      BY DEF TypeOK
    <3>2. QED
      BY <1>8, <1>7, <3>1 DEF unRegister
  <2>5. QED
    BY <1>8, <1>6, <2>1, <2>2, <2>3, <2>4
       DEF unRegister, TypeOK, holderVars, stackVars, jniVars, countVars
<1>9. CASE Expire
  BY <1>9 DEF Expire, TypeOK, holderVars, stackVars, jniVars, countVars
<1>10. ASSUME NEW t \in Thread, registerSip(t) PROVE TypeOK'
  <2>1. pc' \in [Thread -> PC]
    BY <1>10, <1>2 DEF registerSip, Goto, PC, Registering
  <2>2. starts' \in 0..MaxStart /\ releases' \in 0..MaxRelease
    BY <1>10, <1>7 DEF registerSip
  <2>3. QED
    BY <1>10, <1>6, <2>1, <2>2
       DEF registerSip, TypeOK, holderVars, stackVars, jniVars, countVars
<1>11. ASSUME NEW t \in Thread, NewHolder(t) PROVE TypeOK'
  <2>1. pc' \in [Thread -> PC]
    BY <1>11, <1>2 DEF NewHolder, Goto, PC, Registering
  <2>2. cb' \in [Thread -> 0..MaxStart]
    BY <1>11, <1>3, <1>7 DEF NewHolder
  <2>3. mSipCallback' \in 0..MaxStart
    BY <1>11, <1>3, <1>7 DEF NewHolder
  <2>4. QED
    BY <1>11, <1>6, <2>1, <2>2, <2>3
       DEF NewHolder, TypeOK, holderVars, stackVars, jniVars, countVars
<1>12. ASSUME NEW t \in Thread, InitContext(t) PROVE TypeOK'
  <2>1. pc' \in [Thread -> PC]
    BY <1>12, <1>2 DEF InitContext, Goto, PC, Registering
  <2>2. ctx' \in [Thread -> 0..MaxCtx]
    BY <1>12, <1>3, <1>1, <1>6 DEF InitContext
  <2>3. live' \subseteq Ctx /\ hctx' \in 0..MaxCtx /\ ctxs' \in 0..MaxCtx
    <3>1. ctxs + 1 \in 1..MaxCtx /\ ctxs + 1 \in 0..MaxCtx
      BY <1>12, <1>1 DEF InitContext
    <3>2. hctx' = ctxs + 1 /\ ctxs' = ctxs + 1 /\ live' \subseteq live \cup {ctxs + 1}
      BY <1>12 DEF InitContext
    <3>3. QED
      BY <1>1, <3>1, <3>2 DEF Ctx
  <2>4. QED
    BY <1>12, <1>6, <2>1, <2>2, <2>3
       DEF InitContext, TypeOK, holderVars, stackVars, jniVars, countVars
<1>13. ASSUME NEW t \in Thread, SendRegister(t) PROVE TypeOK'
  <2>1. pc' \in [Thread -> PC]
    BY <1>13, <1>2 DEF SendRegister, Goto, PC, Registering
  <2>2. regs' \in [Ctx -> SUBSET RegisterKind]
    BY <1>13, <1>5, <1>1 DEF SendRegister, RegisterKind
  <2>3. QED
    BY <1>13, <1>6, <2>1, <2>2
       DEF SendRegister, TypeOK, holderVars, stackVars, jniVars, countVars
<1>14. ASSUME NEW t \in Thread, PollLoad(t) PROVE TypeOK'
  <2>1. pc' \in [Thread -> PC]
    BY <1>14, <1>2 DEF PollLoad, Goto, PC, Registering
  <2>2. seen' \in [Thread -> 0..(Wrap - 1)]
    BY <1>14, <1>4 DEF PollLoad, Load
  <2>3. QED
    BY <1>14, <1>6, <2>1, <2>2
       DEF PollLoad, TypeOK, holderVars, stackVars, jniVars, countVars
<1>15. ASSUME NEW t \in Thread, PollStore(t) PROVE TypeOK'
  <2>1. pc' \in [Thread -> PC]
    BY <1>15, <1>2 DEF PollStore, Goto, PC, Registering
  <2>2. seen' \in [Thread -> 0..(Wrap - 1)]
    BY <1>15, <1>4 DEF PollStore, Store
  <2>3. wait_count' \in 0..(Wrap - 1) /\ raced' \in BOOLEAN
    BY <1>15, <1>4, <1>6, CounterType DEF PollStore, Store
  <2>4. QED
    BY <1>15, <1>6, <2>1, <2>2, <2>3
       DEF PollStore, TypeOK, holderVars, stackVars, jniVars, countVars
<1>16. ASSUME NEW t \in Thread, NEW u \in Thread, RegSuccess(t, u) PROVE TypeOK'
  <2>1. pc' \in [Thread -> PC]
    BY <1>16, <1>2 DEF RegSuccess, PC, KeepAlive
  <2>2. seen' \in [Thread -> 0..(Wrap - 1)]
    BY <1>16, <1>4 DEF RegSuccess, Store
  <2>3. regs' \in [Ctx -> SUBSET RegisterKind]
    BY <1>16, <1>5, <1>1 DEF RegSuccess, Answered
  <2>4. wait_count' \in 0..(Wrap - 1) /\ raced' \in BOOLEAN
    BY <1>16, <1>4, <1>6 DEF RegSuccess, Store
  <2>5. QED
    BY <1>16, <1>6, <2>1, <2>2, <2>3, <2>4
       DEF RegSuccess, TypeOK, holderVars, stackVars, jniVars, countVars
<1>17. ASSUME NEW t \in Thread, RegUnauthorized(t) PROVE TypeOK'
  <2>1. pc' \in [Thread -> PC]
    BY <1>17, <1>2 DEF RegUnauthorized, Goto, PC, Registering
  <2>2. regs' \in [Ctx -> SUBSET RegisterKind]
    BY <1>17, <1>5, <1>1 DEF RegUnauthorized, Answered, RegisterKind
  <2>3. QED
    BY <1>17, <1>6, <2>1, <2>2
       DEF RegUnauthorized, TypeOK, holderVars, stackVars, jniVars, countVars
<1>18. ASSUME NEW t \in Thread, RegProxyAuth(t) PROVE TypeOK'
  <2>1. regs' \in [Ctx -> SUBSET RegisterKind]
    BY <1>18, <1>5, <1>1 DEF RegProxyAuth, Answered
  <2>2. QED
    BY <1>18, <1>6, <2>1
       DEF RegProxyAuth, TypeOK, holderVars, stackVars, jniVars, countVars
<1>19. ASSUME NEW t \in Thread, RegRefused(t) PROVE TypeOK'
  <2>1. pc' \in [Thread -> PC]
    BY <1>19, <1>2 DEF RegRefused, Goto, PC, Registering
  <2>2. regs' \in [Ctx -> SUBSET RegisterKind]
    BY <1>19, <1>5, <1>1 DEF RegRefused, Answered
  <2>3. QED
    BY <1>19, <1>6, <2>1, <2>2
       DEF RegRefused, TypeOK, holderVars, stackVars, jniVars, countVars
<1>20. ASSUME NEW t \in Thread, RegDropAnswer(t) PROVE TypeOK'
  <2>1. kas' \in [Ctx -> 0..MaxOut]
    BY <1>20, <1>5, <1>1 DEF RegDropAnswer
  <2>2. QED
    BY <1>20, <1>6, <2>1
       DEF RegDropAnswer, TypeOK, holderVars, stackVars, jniVars, countVars
<1>21. ASSUME NEW t \in Thread, EnterLoop(t) PROVE TypeOK'
  <2>1. pc' \in [Thread -> PC]
    BY <1>21, <1>2 DEF EnterLoop, Goto, PC, Looping
  <2>2. ctx' \in [Thread -> 0..MaxCtx]
    BY <1>21, <1>3, <1>1, <1>6 DEF EnterLoop
  <2>3. QED
    BY <1>21, <1>6, <2>1, <2>2
       DEF EnterLoop, TypeOK, holderVars, stackVars, jniVars, countVars
<1>22. ASSUME NEW t \in Thread, LoopTest(t) PROVE TypeOK'
  <2>1. pc' \in [Thread -> PC]
    BY <1>22, <1>2 DEF LoopTest, Goto, PC, Looping
  <2>2. ctx' \in [Thread -> 0..MaxCtx]
    BY <1>22, <1>3, <1>1, <1>6 DEF LoopTest
  <2>3. QED
    BY <1>22, <1>6, <2>1, <2>2
       DEF LoopTest, TypeOK, holderVars, stackVars, jniVars, countVars
<1>23. ASSUME NEW t \in Thread, EventNone(t) PROVE TypeOK'
  <2>1. pc' \in [Thread -> PC]
    BY <1>23, <1>2 DEF EventNone, Goto, PC, Looping
  <2>2. QED
    BY <1>23, <1>6, <2>1
       DEF EventNone, TypeOK, holderVars, stackVars, jniVars, countVars
<1>24. ASSUME NEW t \in Thread, MessageAnswered(t) PROVE TypeOK'
  <2>1. pc' \in [Thread -> PC]
    BY <1>24, <1>2 DEF MessageAnswered, Goto, PC, Looping
  <2>2. seen' \in [Thread -> 0..(Wrap - 1)]
    BY <1>24, <1>4 DEF MessageAnswered, Load
  <2>3. kas' \in [Ctx -> 0..MaxOut]
    BY <1>24, <1>5, <1>1 DEF MessageAnswered
  <2>4. QED
    BY <1>24, <1>6, <2>1, <2>2, <2>3
       DEF MessageAnswered, TypeOK, holderVars, stackVars, jniVars, countVars
<1>25. ASSUME NEW t \in Thread, AnswerStore(t) PROVE TypeOK'
  <2>1. pc' \in [Thread -> PC]
    BY <1>25, <1>2 DEF AnswerStore, Goto, PC, Looping
  <2>2. seen' \in [Thread -> 0..(Wrap - 1)]
    BY <1>25, <1>4 DEF AnswerStore, Store
  <2>3. wait_count' \in 0..(Wrap - 1) /\ raced' \in BOOLEAN
    BY <1>25, <1>4, <1>6, CounterType DEF AnswerStore, Store
  <2>4. QED
    BY <1>25, <1>6, <2>1, <2>2, <2>3
       DEF AnswerStore, TypeOK, holderVars, stackVars, jniVars, countVars
<1>26. ASSUME NEW t \in Thread, CallReleased(t) PROVE TypeOK'
  <2>1. pc' \in [Thread -> PC]
    BY <1>26, <1>2 DEF CallReleased, Goto, PC, Teardown
  <2>2. starts' \in 0..MaxStart /\ releases' \in 0..MaxRelease
    BY <1>26, <1>7 DEF CallReleased, jniVars, holderVars
  <2>3. QED
    BY <1>26, <1>6, <2>1, <2>2
       DEF CallReleased, TypeOK, holderVars, stackVars, jniVars, countVars
<1>27. ASSUME NEW t \in Thread, QuitContext(t) PROVE TypeOK'
  <2>1. pc' \in [Thread -> PC]
    BY <1>27, <1>2 DEF QuitContext, Goto, PC, Teardown
  <2>2. ctx' \in [Thread -> 0..MaxCtx]
    BY <1>27, <1>3, <1>1, <1>6 DEF QuitContext
  <2>3. cb' \in [Thread -> 0..MaxStart]
    BY <1>27, <1>3, <1>7 DEF QuitContext
  <2>4. regs' \in [Ctx -> SUBSET RegisterKind]
    BY <1>27, <1>5, <1>1 DEF QuitContext, Quit
  <2>5. kas' \in [Ctx -> 0..MaxOut]
    BY <1>27, <1>5, <1>1 DEF QuitContext, Quit
  <2>6. live' \subseteq Ctx /\ hctx' \in 0..MaxCtx /\ ctxs' \in 0..MaxCtx
    BY <1>27, <1>1 DEF QuitContext, Quit, holderVars
  <2>7. QED
    BY <1>27, <1>6, <2>1, <2>2, <2>3, <2>4, <2>5, <2>6
       DEF QuitContext, TypeOK, holderVars, stackVars, jniVars, countVars
<1>28. ASSUME NEW t \in Thread, DeleteHolder(t) PROVE TypeOK'
  <2>1. pc' \in [Thread -> PC]
    BY <1>28, <1>2 DEF DeleteHolder, Goto, PC, Registering
  <2>2. QED
    BY <1>28, <1>6, <2>1
       DEF DeleteHolder, TypeOK, holderVars, stackVars, jniVars, countVars
<1>29. ASSUME NEW t \in Thread, KaLoad(t) PROVE TypeOK'
  <2>1. pc' \in [Thread -> PC]
    BY <1>29, <1>2 DEF KaLoad, Goto, PC, KeepAlive
  <2>2. seen' \in [Thread -> 0..(Wrap - 1)]
    BY <1>29, <1>4 DEF KaLoad, Load
  <2>3. QED
    BY <1>29, <1>6, <2>1, <2>2
       DEF KaLoad, TypeOK, holderVars, stackVars, jniVars, countVars
<1>30. ASSUME NEW t \in Thread, KaStore(t) PROVE TypeOK'
  <2>1. pc' \in [Thread -> PC]
    BY <1>30, <1>2 DEF KaStore, Goto, PC, KeepAlive, Teardown
  <2>2. seen' \in [Thread -> 0..(Wrap - 1)]
    BY <1>30, <1>4 DEF KaStore, Store
  <2>3. wait_count' \in 0..(Wrap - 1) /\ raced' \in BOOLEAN
    BY <1>30, <1>4, <1>6, CounterType DEF KaStore, Store
  <2>4. QED
    BY <1>30, <1>6, <2>1, <2>2, <2>3
       DEF KaStore, TypeOK, holderVars, stackVars, jniVars, countVars
<1>31. ASSUME NEW t \in Thread, KaSleep(t) PROVE TypeOK'
  <2>1. pc' \in [Thread -> PC]
    BY <1>31, <1>2 DEF KaSleep, Goto, PC, KeepAlive
  <2>2. QED
    BY <1>31, <1>6, <2>1
       DEF KaSleep, TypeOK, holderVars, stackVars, jniVars, countVars
<1>32. ASSUME NEW t \in Thread, KaSend(t) PROVE TypeOK'
  <2>1. pc' \in [Thread -> PC]
    BY <1>32, <1>2 DEF KaSend, Goto, PC, KeepAlive
  <2>2. kas' \in [Ctx -> 0..MaxOut]
    BY <1>32, <1>5, <1>1 DEF KaSend
  <2>3. QED
    BY <1>32, <1>6, <2>1, <2>2
       DEF KaSend, TypeOK, holderVars, stackVars, jniVars, countVars
<1>33. ASSUME NEW t \in Thread, LateRegister(t) PROVE TypeOK'
  <2>1. pc' \in [Thread -> PC]
    BY <1>33, <1>2 DEF LateRegister, Goto, PC, Looping
  <2>2. regs' \in [Ctx -> SUBSET RegisterKind]
    BY <1>33, <1>5, <1>1 DEF LateRegister
  <2>3. bound' \in BOOLEAN
    BY <1>33 DEF LateRegister, TypeOK
  <2>4. QED
    BY <1>33, <1>6, <2>1, <2>2, <2>3
       DEF LateRegister, TypeOK, holderVars, stackVars, jniVars, countVars
<1>34. CASE UNCHANGED vars
  BY <1>34 DEF vars, TypeOK, holderVars, stackVars, jniVars, countVars
<1>35. QED
  BY <1>8, <1>9, <1>10, <1>11, <1>12, <1>13, <1>14, <1>15, <1>16, <1>17,
     <1>18, <1>19, <1>20, <1>21, <1>22, <1>23, <1>24, <1>25, <1>26, <1>27,
     <1>28, <1>29, <1>30, <1>31, <1>32, <1>33, <1>34
     DEF Next, Register, ProcessEvent, Restart, StartKeepAlive

\* The initial state has every type.
LEMMA InitTypes == Init => TypeOK
<1> SUFFICES ASSUME Init PROVE TypeOK
  OBVIOUS
<1> USE ThreadAssumption, CounterAssumption, BoundAssumption DEF Init, Ctx
<1>1. wait_count \in 0..(Wrap - 1) /\ ctxs \in 0..MaxCtx /\ live \subseteq Ctx
  OBVIOUS
<1>2. regs \in [Ctx -> SUBSET RegisterKind] /\ kas \in [Ctx -> 0..MaxOut]
  OBVIOUS
<1>3. /\ pc \in [Thread -> PC] /\ ctx \in [Thread -> 0..MaxCtx]
      /\ cb \in [Thread -> 0..MaxStart] /\ seen \in [Thread -> 0..(Wrap - 1)]
  BY DEF PC
<1>4. /\ hctx \in 0..MaxCtx /\ mSipCallback \in 0..MaxStart
      /\ starts \in 0..MaxStart /\ releases \in 0..MaxRelease /\ deleted = {}
  OBVIOUS
<1>5. QED
  BY <1>1, <1>2, <1>3, <1>4 DEF TypeOK

(***************************************************************************)
(* Type correctness: in every reachable state of the session every         *)
(* variable has its type, whatever the number of threads and contexts.     *)
(***************************************************************************)
THEOREM TypeCorrect == Spec => []TypeOK
BY InitTypes, TypeStep, PTL DEF Spec

-----------------------------------------------------------------------------
\* What the steps below use of the invariant.
LEMMA IInvParts ==
  IInv => /\ pc \in [Thread -> PC] /\ ctx \in [Thread -> 0..MaxCtx]
          /\ seen \in [Thread -> 0..(Wrap - 1)] /\ kas \in [Ctx -> 0..MaxOut]
          /\ hctx \in 0..MaxCtx /\ ctxs \in 0..MaxCtx /\ live \subseteq Ctx
          /\ starts \in Nat /\ releases \in Nat /\ unregs \in Nat
          /\ wait_count \in 0..(Wrap - 1)
          /\ Fresh /\ Numbered /\ OneSpine /\ Loaded /\ Drivers
          /\ BetweenInv /\ SendingInv /\ BeatingInv /\ EnterInv
BY DEF IInv, TypeOK

\* unRegister ends the undisturbed session; it only shrinks the set of live
\* contexts.
LEMMA unRegisterKeeps ==
  ASSUME IInv, TypeOK', unRegister
  PROVE  IInv'
<1> USE ThreadAssumption, CounterAssumption, BoundAssumption
<1>1. Fresh' /\ Numbered' /\ OneSpine' /\ Loaded'
  BY IInvParts DEF unRegister, Quit, Fresh, Numbered, Ctx, OneSpine, Spine,
       KeepAlive, Registering, Teardown, Loaded, Storing, Quiet, countVars
<1>2. Drivers' /\ BetweenInv' /\ SendingInv' /\ BeatingInv' /\ EnterInv'
  BY IInvParts DEF unRegister, Quit, Drivers, Driving, Looping, Quiet,
       BetweenInv, Between, SendingInv, Sending, BeatingInv, Beating,
       KeepAlive, Unanswered, Pending, EnterInv, Spine, Registering, Teardown,
       countVars
<1>3. QED
  BY <1>1, <1>2 DEF IInv

\* The lapse of the registration touches none of the program's state.
LEMMA ExpireKeeps ==
  ASSUME IInv, TypeOK', Expire
  PROVE  IInv'
<1> USE ThreadAssumption, CounterAssumption, BoundAssumption
<1>1. Fresh' /\ Numbered' /\ OneSpine' /\ Loaded'
  BY IInvParts DEF Expire, Fresh, Numbered, Ctx, OneSpine, Spine, KeepAlive,
       Registering, Teardown, Loaded, Storing, Quiet, holderVars, stackVars,
       jniVars, countVars
<1>2. Drivers' /\ BetweenInv' /\ SendingInv' /\ BeatingInv' /\ EnterInv'
  BY IInvParts DEF Expire, Drivers, Driving, Looping, Quiet, BetweenInv,
       Between, SendingInv, Sending, BeatingInv, Beating, KeepAlive,
       Unanswered, Pending, EnterInv, Spine, Registering, Teardown,
       holderVars, stackVars, jniVars, countVars
<1>3. QED
  BY <1>1, <1>2 DEF IInv

\* The first registerSip finds every thread idle and no context up.
LEMMA registerSipKeeps ==
  ASSUME IInv, TypeOK', NEW t \in Thread, registerSip(t)
  PROVE  IInv'
<1> USE ThreadAssumption, CounterAssumption, BoundAssumption
<1>1. Fresh' /\ Numbered'
  BY IInvParts DEF registerSip, Goto, Fresh, Numbered, Ctx, holderVars,
       stackVars, countVars
<1>2. OneSpine'
  BY IInvParts DEF registerSip, Goto, OneSpine, Spine, KeepAlive, Registering,
       Teardown, Fresh, holderVars, stackVars, countVars
<1>3. Loaded' /\ Drivers'
  BY IInvParts DEF registerSip, Goto, Loaded, Storing, Quiet, Drivers,
       Driving, Looping, holderVars, stackVars, countVars
<1>4. BetweenInv'
  BY IInvParts DEF registerSip, Goto, BetweenInv, Between, Quiet, Fresh,
       OneSpine, Spine, Drivers, Loaded, SendingInv, BeatingInv, EnterInv,
       Sending, Beating, Storing, KeepAlive, Registering, Teardown,
       holderVars, stackVars, countVars
<1>5. SendingInv' /\ BeatingInv'
  BY IInvParts DEF registerSip, Goto, SendingInv, Sending, Quiet, BeatingInv,
       Beating, KeepAlive, Unanswered, Pending, holderVars, stackVars,
       countVars
<1>6. EnterInv'
  BY IInvParts DEF registerSip, Goto, EnterInv, Spine, KeepAlive, Registering,
       Teardown, Quiet, Fresh, OneSpine, Drivers, Driving, Loaded, Storing,
       BetweenInv, SendingInv, BeatingInv, Between, Sending, Beating, Looping,
       holderVars, stackVars, countVars
<1>7. QED
  BY <1>1, <1>2, <1>3, <1>4, <1>5, <1>6 DEF IInv

\* The spine allocates a holder while no context is up.
LEMMA NewHolderKeeps ==
  ASSUME IInv, TypeOK', NEW t \in Thread, NewHolder(t)
  PROVE  IInv'
<1> USE ThreadAssumption, CounterAssumption, BoundAssumption
<1>1. Fresh' /\ Numbered'
  BY IInvParts DEF NewHolder, Goto, Fresh, Numbered, Ctx, stackVars, jniVars,
       countVars
<1>2. OneSpine' /\ Loaded'
  BY IInvParts DEF NewHolder, Goto, OneSpine, Spine, KeepAlive, Registering,
       Teardown, Loaded, Storing, Quiet, stackVars, jniVars, countVars
<1>3. Drivers'
  BY IInvParts DEF NewHolder, Goto, Drivers, Driving, Looping, Quiet,
       Numbered, BetweenInv, SendingInv, EnterInv, Between, Sending, Fresh,
       stackVars, jniVars, countVars
<1>4. BetweenInv'
  BY IInvParts DEF NewHolder, Goto, BetweenInv, Between, Quiet, stackVars,
       jniVars, countVars
<1>5. SendingInv'
  BY IInvParts DEF NewHolder, Goto, SendingInv, Sending, Quiet, Fresh,
       Numbered, OneSpine, Spine, Drivers, Driving, BetweenInv, BeatingInv,
       EnterInv, Between, Beating, KeepAlive, Registering, Teardown, Looping,
       stackVars, jniVars, countVars
<1>6. BeatingInv'
  BY IInvParts DEF NewHolder, Goto, BeatingInv, Beating, KeepAlive,
       Unanswered, Pending, Quiet, Fresh, Numbered, OneSpine, Spine, Drivers,
       Driving, Loaded, Storing, SendingInv, EnterInv, Sending, Registering,
       Teardown, Looping, stackVars, jniVars, countVars
<1>7. EnterInv'
  BY IInvParts DEF NewHolder, Goto, EnterInv, Spine, KeepAlive, Registering,
       Teardown, Quiet, stackVars, jniVars, countVars
<1>8. QED
  BY <1>1, <1>2, <1>3, <1>4, <1>5, <1>6, <1>7 DEF IInv

\* The new context has a number above all others, so no thread that outlived an
\* earlier context can name it.
LEMMA InitContextKeeps ==
  ASSUME IInv, TypeOK', NEW t \in Thread, InitContext(t)
  PROVE  IInv'
<1> USE ThreadAssumption, CounterAssumption, BoundAssumption
<1>1. Fresh'
  BY IInvParts DEF InitContext, Goto, Fresh, jniVars, countVars
<1>2. Numbered'
  <2>1. ctxs' = ctxs + 1 /\ hctx' = ctxs + 1 /\ live \subseteq 1..ctxs
    BY IInvParts DEF InitContext, Numbered
  <2>2. live \subseteq live' /\ live' \subseteq live \cup {ctxs + 1}
    BY DEF InitContext
  <2>3. live' \subseteq 1..ctxs'
    BY <2>1, <2>2, IInvParts
  <2>4. \A u \in Thread : ctx'[u] <= ctxs'
    BY <2>1, IInvParts DEF InitContext, Numbered
  <2>5. \A c \in Ctx : c \notin live' => kas'[c] = 0
    BY <2>2, IInvParts DEF InitContext, Numbered
  <2>6. QED
    BY <2>1, <2>3, <2>4, <2>5, IInvParts DEF Numbered
<1>3. OneSpine' /\ Loaded'
  BY IInvParts DEF InitContext, Goto, OneSpine, Spine, KeepAlive, Registering,
       Teardown, Loaded, Storing, Quiet, jniVars, countVars
<1>4. Drivers'
  BY IInvParts DEF InitContext, Goto, Drivers, Driving, Looping, Quiet,
       Numbered, BetweenInv, SendingInv, EnterInv, Between, Sending, Fresh,
       jniVars, countVars
<1>5. BetweenInv'
  BY IInvParts DEF InitContext, Goto, BetweenInv, Between, Quiet, Fresh,
       OneSpine, Spine, Drivers, Loaded, SendingInv, BeatingInv, EnterInv,
       Sending, Beating, Storing, KeepAlive, Registering, Teardown, jniVars,
       countVars
<1>6. SendingInv'
  <2> SUFFICES ASSUME Quiet, NEW w \in Thread, pc'[w] \in Sending
               PROVE  /\ hctx' \in live' /\ ctx'[w] = hctx' /\ kas'[hctx'] = 0
                      /\ holder' = "alloc"
                      /\ \A u \in Thread \ {w} : ctx'[u] # hctx' /\ pc'[u] # "enter"
    BY DEF SendingInv, Quiet, InitContext, jniVars, countVars
  <2>1. pc[t] = "init" /\ Spine(t)
    BY DEF InitContext, Spine, Registering
  <2>2. w = t
    BY <2>1, IInvParts DEF InitContext, Goto, OneSpine, Spine, Sending,
                           Registering, Quiet
  <2>3. ctxs + 1 \in Ctx /\ hctx' = ctxs + 1 /\ kas' = kas /\ holder' = holder
    BY IInvParts DEF InitContext, Ctx
  <2>4. ctx'[t] = ctxs + 1 /\ ctxs + 1 \in live' /\ pc' = [pc EXCEPT ![t] = "send"]
    BY <2>2, IInvParts DEF InitContext, Goto, Sending
  <2>5. kas[ctxs + 1] = 0
    BY <2>3, IInvParts DEF Numbered
  <2>6. holder = "alloc" /\ \A u \in Thread : pc[u] # "enter"
    BY <2>1, IInvParts DEF BetweenInv, Between
  <2>7. \A u \in Thread \ {t} : ctx'[u] = ctx[u] /\ ctx[u] <= ctxs
    BY IInvParts DEF InitContext, Numbered
  <2>8. QED
    BY <2>2, <2>3, <2>4, <2>5, <2>6, <2>7, IInvParts
<1>7. BeatingInv'
  BY IInvParts DEF InitContext, Goto, BeatingInv, Beating, KeepAlive,
       Unanswered, Pending, Quiet, Fresh, Numbered, OneSpine, Spine, Drivers,
       Driving, Loaded, Storing, SendingInv, EnterInv, Sending, Registering,
       Teardown, Looping, jniVars, countVars
<1>8. EnterInv'
  BY IInvParts DEF InitContext, Goto, EnterInv, Spine, KeepAlive, Registering,
       Teardown, Quiet, jniVars, countVars
<1>9. QED
  BY <1>1, <1>2, <1>3, <1>4, <1>5, <1>6, <1>7, <1>8 DEF IInv

\* Sending REGISTER leaves the thread registering on the same context.
LEMMA SendRegisterKeeps ==
  ASSUME IInv, TypeOK', NEW t \in Thread, SendRegister(t)
  PROVE  IInv'
<1> USE ThreadAssumption, CounterAssumption, BoundAssumption
<1>1. Fresh' /\ Numbered' /\ OneSpine' /\ Loaded'
  BY IInvParts DEF SendRegister, Goto, Fresh, Numbered, Ctx, OneSpine, Spine,
       KeepAlive, Registering, Teardown, Loaded, Storing, Quiet, holderVars,
       jniVars, countVars
<1>2. Drivers' /\ BetweenInv' /\ SendingInv' /\ BeatingInv' /\ EnterInv'
  BY IInvParts DEF SendRegister, Goto, Drivers, Driving, Looping, Quiet,
       BetweenInv, Between, SendingInv, Sending, BeatingInv, Beating,
       KeepAlive, Unanswered, Pending, EnterInv, Spine, Registering, Teardown,
       holderVars, jniVars, countVars
<1>3. QED
  BY <1>1, <1>2 DEF IInv

\* The poll's load of wait_count takes the current value.
LEMMA PollLoadKeeps ==
  ASSUME IInv, TypeOK', NEW t \in Thread, PollLoad(t)
  PROVE  IInv'
<1> USE ThreadAssumption, CounterAssumption, BoundAssumption
<1>1. Fresh' /\ Numbered' /\ OneSpine' /\ Loaded'
  BY IInvParts DEF PollLoad, Goto, Load, Fresh, Numbered, Ctx, OneSpine,
       Spine, KeepAlive, Registering, Teardown, Loaded, Storing, Quiet,
       holderVars, stackVars, jniVars, countVars
<1>2. Drivers' /\ BetweenInv' /\ SendingInv' /\ BeatingInv' /\ EnterInv'
  BY IInvParts DEF PollLoad, Goto, Load, Drivers, Driving, Looping, Quiet,
       BetweenInv, Between, SendingInv, Sending, BeatingInv, Beating,
       KeepAlive, Unanswered, Pending, EnterInv, Spine, Registering, Teardown,
       holderVars, stackVars, jniVars, countVars
<1>3. QED
  BY <1>1, <1>2 DEF IInv

\* The poll counts in wait_count only while no thread beats.
LEMMA PollStoreKeeps ==
  ASSUME IInv, TypeOK', NEW t \in Thread, PollStore(t)
  PROVE  IInv'
<1> USE ThreadAssumption, CounterAssumption, BoundAssumption
<1>1. Fresh'
  BY IInvParts DEF PollStore, Goto, Store, Inc, GivesUp, Fresh, holderVars,
       stackVars, jniVars
<1>2. Numbered'
  BY IInvParts DEF PollStore, Goto, Store, Inc, GivesUp, Numbered, Ctx,
       holderVars, stackVars, jniVars
<1>3. OneSpine'
  BY IInvParts DEF PollStore, Goto, Store, Inc, GivesUp, OneSpine, Spine,
       KeepAlive, Registering, Teardown, holderVars, stackVars, jniVars
<1>4. Loaded'
  BY IInvParts DEF PollStore, Goto, Store, Inc, GivesUp, Loaded, Storing,
       Quiet, holderVars, stackVars, jniVars
<1>5. Drivers'
  BY IInvParts DEF PollStore, Goto, Store, Inc, GivesUp, Drivers, Driving,
       Looping, Quiet, holderVars, stackVars, jniVars
<1>6. BetweenInv'
  BY IInvParts DEF PollStore, Goto, Store, Inc, GivesUp, BetweenInv, Between,
       Quiet, holderVars, stackVars, jniVars
<1>7. SendingInv'
  <2>1. Quiet' => Quiet
    BY DEF PollStore, Store, Quiet, jniVars
  <2>2. /\ pc[t] \in Sending /\ pc'[t] # "enter"
        /\ \A u \in Thread \ {t} : pc'[u] = pc[u]
    BY IInvParts DEF PollStore, Goto, Sending
  <2>3. UNCHANGED <<hctx, live, ctx, kas, holder>>
    BY DEF PollStore, holderVars, stackVars
  <2>4. QED
    BY <2>1, <2>2, <2>3, IInvParts DEF SendingInv
<1>8. BeatingInv'
  BY IInvParts DEF PollStore, Goto, Store, Inc, GivesUp, BeatingInv, Beating,
       KeepAlive, Unanswered, Pending, Quiet, Fresh, Numbered, OneSpine,
       Spine, Drivers, Driving, Loaded, Storing, SendingInv, EnterInv,
       Sending, Registering, Teardown, Looping, holderVars, stackVars, jniVars
<1>9. EnterInv'
  BY IInvParts DEF PollStore, Goto, Store, Inc, GivesUp, EnterInv, Spine,
       KeepAlive, Registering, Teardown, Quiet, holderVars, stackVars, jniVars
<1>10. QED
  BY <1>1, <1>2, <1>3, <1>4, <1>5, <1>6, <1>7, <1>8, <1>9 DEF IInv

\* The spine moves from the registered thread to the new keep-alive thread, and
\* the counter starts from zero with nothing outstanding.
LEMMA RegSuccessKeeps ==
  ASSUME IInv, TypeOK', NEW t \in Thread, NEW u \in Thread, RegSuccess(t, u)
  PROVE  IInv'
<1> USE ThreadAssumption, CounterAssumption, BoundAssumption
<1>1. Fresh' /\ Numbered'
  BY IInvParts DEF RegSuccess, Answered, Store, Fresh, Numbered, Ctx,
       holderVars, jniVars
<1>2. OneSpine'
  BY IInvParts DEF RegSuccess, Answered, Store, OneSpine, Spine, KeepAlive,
       Registering, Teardown, holderVars, jniVars
<1>3. Loaded'
  BY IInvParts DEF RegSuccess, Answered, Store, Loaded, Storing, Quiet,
       holderVars, jniVars
<1>4. Drivers'
  <2> SUFFICES ASSUME Quiet'
               PROVE  /\ live' \subseteq {hctx'}
                      /\ \A v, w \in Thread : Driving(v)' /\ Driving(w)' => v = w
    BY DEF Drivers
  <2>1. /\ Quiet /\ pc[t] = "reg" /\ pc[u] = "idle" /\ t # u
        /\ \A v \in Thread \ {t} : pc[v] \notin Storing
    BY DEF RegSuccess, Answered, Store, Quiet, jniVars
  <2>2. /\ pc'[t] = "enter" /\ pc'[u] = "ka"
        /\ \A v \in Thread \ {t, u} : pc'[v] = pc[v]
    BY <2>1, IInvParts DEF RegSuccess
  <2>3. UNCHANGED <<hctx, live, ctx, kas, holder>>
    BY DEF RegSuccess, holderVars
  <2>4. /\ hctx \in live /\ ctx[t] = hctx /\ kas[hctx] = 0 /\ holder = "alloc"
        /\ \A v \in Thread \ {t} : ctx[v] # hctx /\ pc[v] # "enter"
    BY <2>1, IInvParts DEF SendingInv, Sending
  <2>5. live \subseteq {hctx}
    BY <2>1, IInvParts DEF Drivers
  <2>6. \A v \in Thread : Driving(v)' => v = t
    BY <2>2, <2>3, <2>4, <2>5 DEF Driving, Looping
  <2>7. QED
    BY <2>3, <2>5, <2>6
<1>5. BetweenInv'
  BY IInvParts DEF RegSuccess, Answered, Store, BetweenInv, Between, Quiet,
       Fresh, OneSpine, Spine, Drivers, Loaded, SendingInv, BeatingInv,
       EnterInv, Sending, Beating, Storing, KeepAlive, Registering, Teardown,
       holderVars, jniVars
<1>6. SendingInv'
  BY IInvParts DEF RegSuccess, Answered, Store, SendingInv, Sending, Quiet,
       Fresh, Numbered, OneSpine, Spine, Drivers, Driving, BetweenInv,
       BeatingInv, EnterInv, Between, Beating, KeepAlive, Registering,
       Teardown, Looping, holderVars, jniVars
<1>7. BeatingInv'
  <2> SUFFICES ASSUME Quiet' PROVE BeatingInv'
    BY DEF BeatingInv
  <2>1. /\ Quiet /\ pc[t] = "reg" /\ pc[u] = "idle" /\ t # u
        /\ \A v \in Thread \ {t} : pc[v] \notin Storing
    BY DEF RegSuccess, Answered, Store, Quiet, jniVars
  <2>2. /\ pc'[t] = "enter" /\ pc'[u] = "ka"
        /\ \A v \in Thread \ {t, u} : pc'[v] = pc[v]
    BY <2>1, IInvParts DEF RegSuccess
  <2>3. UNCHANGED <<hctx, live, ctx, kas, holder>>
    BY DEF RegSuccess, holderVars
  <2>4. /\ hctx \in live /\ ctx[t] = hctx /\ kas[hctx] = 0 /\ holder = "alloc"
        /\ \A v \in Thread \ {t} : ctx[v] # hctx /\ pc[v] # "enter"
    BY <2>1, IInvParts DEF SendingInv, Sending
  <2>5. \A v \in Thread \ {t} : ~Spine(v)
    BY <2>1, IInvParts DEF OneSpine, Quiet, Spine, Registering
  <2>6. \A v \in Thread : Beating(v)' => v = u
    BY <2>2, <2>5 DEF Beating, Spine, KeepAlive
  <2>7. \A v \in Thread : pc'[v] # "ansStore"
    BY <2>1, <2>2 DEF Storing
  <2>8. wait_count' = 0 /\ keep_alive_thread' = u
    BY DEF RegSuccess, Store
  <2>9. Unanswered' = 0
    BY <2>3, <2>4, <2>7 DEF Unanswered, Pending
  <2>10. QED
    BY <2>2, <2>3, <2>4, <2>6, <2>7, <2>8, <2>9 DEF BeatingInv
<1>8. EnterInv'
  <2> SUFFICES ASSUME Quiet' PROVE EnterInv'
    BY DEF EnterInv
  <2>1. /\ Quiet /\ pc[t] = "reg" /\ pc[u] = "idle" /\ t # u
        /\ \A v \in Thread \ {t} : pc[v] \notin Storing
    BY DEF RegSuccess, Answered, Store, Quiet, jniVars
  <2>2. /\ pc'[t] = "enter" /\ pc'[u] = "ka"
        /\ \A v \in Thread \ {t, u} : pc'[v] = pc[v]
    BY <2>1, IInvParts DEF RegSuccess
  <2>3. UNCHANGED <<hctx, live, ctx, kas, holder>>
    BY DEF RegSuccess, holderVars
  <2>4. /\ hctx \in live /\ ctx[t] = hctx /\ kas[hctx] = 0 /\ holder = "alloc"
        /\ \A v \in Thread \ {t} : ctx[v] # hctx /\ pc[v] # "enter"
    BY <2>1, IInvParts DEF SendingInv, Sending
  <2>5. \A v \in Thread \ {t} : ~Spine(v)
    BY <2>1, IInvParts DEF OneSpine, Quiet, Spine, Registering
  <2>6. \A v \in Thread : pc'[v] = "enter" => v = t
    BY <2>2, <2>4
  <2>7. \A v \in Thread : Spine(v)' => v = u
    BY <2>2, <2>5 DEF Spine, KeepAlive, Registering, Teardown
  <2>8. wait_count' = 0
    BY DEF RegSuccess, Store
  <2>9. QED
    BY <2>2, <2>3, <2>4, <2>6, <2>7, <2>8 DEF EnterInv
<1>9. QED
  BY <1>1, <1>2, <1>3, <1>4, <1>5, <1>6, <1>7, <1>8 DEF IInv

\* A 401 leaves the thread registering.
LEMMA RegUnauthorizedKeeps ==
  ASSUME IInv, TypeOK', NEW t \in Thread, RegUnauthorized(t)
  PROVE  IInv'
<1> USE ThreadAssumption, CounterAssumption, BoundAssumption
<1>1. Fresh' /\ Numbered'
  BY IInvParts DEF RegUnauthorized, Goto, Answered, Fresh, Numbered, Ctx,
       holderVars, jniVars, countVars
<1>2. OneSpine' /\ Loaded'
  BY IInvParts DEF RegUnauthorized, Goto, Answered, OneSpine, Spine,
       KeepAlive, Registering, Teardown, Loaded, Storing, Quiet, holderVars,
       jniVars, countVars
<1>3. Drivers' /\ BetweenInv' /\ SendingInv' /\ BeatingInv' /\ EnterInv'
  BY IInvParts DEF RegUnauthorized, Goto, Answered, Drivers, Driving, Looping,
       Quiet, BetweenInv, Between, SendingInv, Sending, BeatingInv, Beating,
       KeepAlive, Unanswered, Pending, EnterInv, Spine, Registering, Teardown,
       holderVars, jniVars, countVars
<1>4. QED
  BY <1>1, <1>2, <1>3 DEF IInv

\* A 407 changes no control state.
LEMMA RegProxyAuthKeeps ==
  ASSUME IInv, TypeOK', NEW t \in Thread, RegProxyAuth(t)
  PROVE  IInv'
<1> USE ThreadAssumption, CounterAssumption, BoundAssumption
<1>1. Fresh' /\ Numbered' /\ OneSpine' /\ Loaded'
  BY IInvParts DEF RegProxyAuth, Answered, Fresh, Numbered, Ctx, OneSpine,
       Spine, KeepAlive, Registering, Teardown, Loaded, Storing, Quiet,
       holderVars, jniVars, countVars
<1>2. Drivers' /\ BetweenInv' /\ SendingInv' /\ BeatingInv' /\ EnterInv'
  BY IInvParts DEF RegProxyAuth, Answered, Drivers, Driving, Looping, Quiet,
       BetweenInv, Between, SendingInv, Sending, BeatingInv, Beating,
       KeepAlive, Unanswered, Pending, EnterInv, Spine, Registering, Teardown,
       holderVars, jniVars, countVars
<1>3. QED
  BY <1>1, <1>2 DEF IInv

\* A refusal sends the thread back to build a new REGISTER.
LEMMA RegRefusedKeeps ==
  ASSUME IInv, TypeOK', NEW t \in Thread, RegRefused(t)
  PROVE  IInv'
<1> USE ThreadAssumption, CounterAssumption, BoundAssumption
<1>1. Fresh' /\ Numbered'
  BY IInvParts DEF RegRefused, Goto, Answered, Fresh, Numbered, Ctx,
       holderVars, jniVars, countVars
<1>2. OneSpine' /\ Loaded'
  BY IInvParts DEF RegRefused, Goto, Answered, OneSpine, Spine, KeepAlive,
       Registering, Teardown, Loaded, Storing, Quiet, holderVars, jniVars,
       countVars
<1>3. Drivers' /\ BetweenInv' /\ SendingInv' /\ BeatingInv' /\ EnterInv'
  BY IInvParts DEF RegRefused, Goto, Answered, Drivers, Driving, Looping,
       Quiet, BetweenInv, Between, SendingInv, Sending, BeatingInv, Beating,
       KeepAlive, Unanswered, Pending, EnterInv, Spine, Registering, Teardown,
       holderVars, jniVars, countVars
<1>4. QED
  BY <1>1, <1>2, <1>3 DEF IInv

\* While the spine registers no Keepalive of its context is outstanding, so no
\* answer of the undisturbed session is dropped.
LEMMA RegDropAnswerKeeps ==
  ASSUME IInv, TypeOK', NEW t \in Thread, RegDropAnswer(t)
  PROVE  IInv'
<1> USE ThreadAssumption, CounterAssumption, BoundAssumption
<1>1. Fresh' /\ Numbered' /\ OneSpine' /\ Loaded' /\ Drivers' /\ BetweenInv' /\ SendingInv'
  BY IInvParts DEF RegDropAnswer, Fresh, Numbered, Ctx, OneSpine, Spine,
       KeepAlive, Registering, Teardown, Loaded, Storing, Quiet, Drivers,
       Driving, Looping, BetweenInv, Between, SendingInv, Sending, holderVars,
       jniVars, countVars
<1>2. BeatingInv'
  BY IInvParts DEF RegDropAnswer, BeatingInv, Beating, KeepAlive, Unanswered,
       Pending, Quiet, Fresh, Numbered, OneSpine, Spine, Drivers, Driving,
       Loaded, Storing, SendingInv, EnterInv, Sending, Registering, Teardown,
       Looping, holderVars, jniVars, countVars
<1>3. EnterInv'
  BY IInvParts DEF RegDropAnswer, EnterInv, Spine, KeepAlive, Registering,
       Teardown, Quiet, holderVars, jniVars, countVars
<1>4. QED
  BY <1>1, <1>2, <1>3 DEF IInv

\* The registered thread enters the loop on the context it registered.
LEMMA EnterLoopKeeps ==
  ASSUME IInv, TypeOK', NEW t \in Thread, EnterLoop(t)
  PROVE  IInv'
<1> USE ThreadAssumption, CounterAssumption, BoundAssumption
<1>1. Fresh' /\ Numbered' /\ OneSpine' /\ Loaded'
  BY IInvParts DEF EnterLoop, Goto, Fresh, Numbered, Ctx, OneSpine, Spine,
       KeepAlive, Registering, Teardown, Loaded, Storing, Quiet, stackVars,
       jniVars, countVars
<1>2. Drivers'
  BY IInvParts DEF EnterLoop, Goto, Drivers, Driving, Looping, Quiet,
       Numbered, BetweenInv, SendingInv, EnterInv, Between, Sending, Fresh,
       stackVars, jniVars, countVars
<1>3. BetweenInv' /\ SendingInv' /\ BeatingInv' /\ EnterInv'
  BY IInvParts DEF EnterLoop, Goto, BetweenInv, Between, Quiet, SendingInv,
       Sending, BeatingInv, Beating, KeepAlive, Unanswered, Pending, EnterInv,
       Spine, Registering, Teardown, stackVars, jniVars, countVars
<1>4. QED
  BY <1>1, <1>2, <1>3 DEF IInv

\* A thread that leaves the loop gives its context up.
LEMMA LoopTestKeeps ==
  ASSUME IInv, TypeOK', NEW t \in Thread, LoopTest(t)
  PROVE  IInv'
<1> USE ThreadAssumption, CounterAssumption, BoundAssumption
<1>1. Fresh'
  BY IInvParts DEF LoopTest, Goto, Fresh, holderVars, stackVars, jniVars,
       countVars
<1>2. Numbered'
  <2>1. UNCHANGED <<hctx, ctxs, live, kas>>
    BY DEF LoopTest, holderVars, stackVars
  <2>2. \A u \in Thread : ctx'[u] <= ctxs
    BY IInvParts DEF LoopTest, Numbered
  <2>3. QED
    BY <2>1, <2>2, IInvParts DEF Numbered
<1>3. OneSpine' /\ Loaded' /\ Drivers' /\ BetweenInv'
  BY IInvParts DEF LoopTest, Goto, OneSpine, Spine, KeepAlive, Registering,
       Teardown, Loaded, Storing, Quiet, Drivers, Driving, Looping,
       BetweenInv, Between, holderVars, stackVars, jniVars, countVars
<1>4. SendingInv'
  BY IInvParts DEF LoopTest, Goto, SendingInv, Sending, Quiet, Fresh,
       Numbered, OneSpine, Spine, Drivers, Driving, BetweenInv, BeatingInv,
       EnterInv, Between, Beating, KeepAlive, Registering, Teardown, Looping,
       holderVars, stackVars, jniVars, countVars
<1>5. BeatingInv' /\ EnterInv'
  BY IInvParts DEF LoopTest, Goto, BeatingInv, Beating, KeepAlive, Unanswered,
       Pending, Quiet, EnterInv, Spine, Registering, Teardown, holderVars,
       stackVars, jniVars, countVars
<1>6. QED
  BY <1>1, <1>2, <1>3, <1>4, <1>5 DEF IInv

\* A wait without an event changes nothing.
LEMMA EventNoneKeeps ==
  ASSUME IInv, TypeOK', NEW t \in Thread, EventNone(t)
  PROVE  IInv'
<1> USE ThreadAssumption, CounterAssumption, BoundAssumption
<1>1. Fresh' /\ Numbered' /\ OneSpine' /\ Loaded'
  BY IInvParts DEF EventNone, Goto, Fresh, Numbered, Ctx, OneSpine, Spine,
       KeepAlive, Registering, Teardown, Loaded, Storing, Quiet, holderVars,
       stackVars, jniVars, countVars
<1>2. Drivers' /\ BetweenInv' /\ SendingInv' /\ BeatingInv' /\ EnterInv'
  BY IInvParts DEF EventNone, Goto, Drivers, Driving, Looping, Quiet,
       BetweenInv, Between, SendingInv, Sending, BeatingInv, Beating,
       KeepAlive, Unanswered, Pending, EnterInv, Spine, Registering, Teardown,
       holderVars, stackVars, jniVars, countVars
<1>3. QED
  BY <1>1, <1>2 DEF IInv

\* A late answer to REGISTER changes no counter and no owner.
LEMMA LateRegisterKeeps ==
  ASSUME IInv, TypeOK', NEW t \in Thread, LateRegister(t)
  PROVE  IInv'
<1> USE ThreadAssumption, CounterAssumption, BoundAssumption
<1>1. Fresh' /\ Numbered' /\ OneSpine' /\ Loaded'
  BY IInvParts DEF LateRegister, Goto, Fresh, Numbered, Ctx, OneSpine, Spine,
       KeepAlive, Registering, Teardown, Loaded, Storing, Quiet, holderVars,
       stackVars, jniVars, countVars
<1>2. Drivers' /\ BetweenInv' /\ SendingInv' /\ BeatingInv' /\ EnterInv'
  BY IInvParts DEF LateRegister, Goto, Drivers, Driving, Looping, Quiet,
       BetweenInv, Between, SendingInv, Sending, BeatingInv, Beating,
       KeepAlive, Unanswered, Pending, EnterInv, Spine, Registering, Teardown,
       holderVars, stackVars, jniVars, countVars
<1>3. QED
  BY <1>1, <1>2 DEF IInv

\* The answer taken from the network is pending until it is stored.
LEMMA MessageAnsweredKeeps ==
  ASSUME IInv, TypeOK', NEW t \in Thread, MessageAnswered(t)
  PROVE  IInv'
<1> USE ThreadAssumption, CounterAssumption, BoundAssumption
<1>1. Fresh' /\ Numbered' /\ OneSpine' /\ Loaded' /\ Drivers' /\ BetweenInv' /\ SendingInv'
  BY IInvParts DEF MessageAnswered, Goto, Load, Fresh, Numbered, Ctx,
       OneSpine, Spine, KeepAlive, Registering, Teardown, Loaded, Storing,
       Quiet, Drivers, Driving, Looping, BetweenInv, Between, SendingInv,
       Sending, holderVars, jniVars, countVars
<1>2. BeatingInv'
  BY IInvParts DEF MessageAnswered, Goto, Load, BeatingInv, Beating,
       KeepAlive, Unanswered, Pending, Quiet, Fresh, Numbered, OneSpine,
       Spine, Drivers, Driving, Loaded, Storing, SendingInv, EnterInv,
       Sending, Registering, Teardown, Looping, holderVars, jniVars, countVars
<1>3. EnterInv'
  BY IInvParts DEF MessageAnswered, Goto, Load, EnterInv, Spine, KeepAlive,
       Registering, Teardown, Quiet, holderVars, jniVars, countVars
<1>4. QED
  BY <1>1, <1>2, <1>3 DEF IInv

\* The decrement is of the current value and never of zero: the loop that
\* stores it holds the one pending answer.
LEMMA AnswerStoreKeeps ==
  ASSUME IInv, TypeOK', NEW t \in Thread, AnswerStore(t)
  PROVE  IInv'
<1> USE ThreadAssumption, CounterAssumption, BoundAssumption
<1>1. Fresh' /\ Numbered' /\ OneSpine' /\ Loaded' /\ Drivers' /\ BetweenInv' /\ SendingInv'
  BY IInvParts DEF AnswerStore, Goto, Store, Dec, Fresh, Numbered, Ctx,
       OneSpine, Spine, KeepAlive, Registering, Teardown, Loaded, Storing,
       Quiet, Drivers, Driving, Looping, BetweenInv, Between, SendingInv,
       Sending, holderVars, stackVars, jniVars
<1>2. BeatingInv'
  <2> SUFFICES ASSUME Quiet', NEW w \in Thread, Beating(w)'
               PROVE  /\ hctx' \in live' /\ holder' = "alloc" /\ keep_alive_thread' = w
                      /\ \A u \in Thread : pc'[u] = "ansStore" => ctx'[u] = hctx'
                      /\ wait_count' <= Limit + 1
                      /\ wait_count' = Unanswered' +
                           (IF pc'[w] \in {"kaSleep", "kaWake"} THEN 1 ELSE 0)
    BY DEF BeatingInv
  <2>1. Quiet /\ pc[t] = "ansStore" /\ wait_count' = Dec(seen[t])
    BY DEF AnswerStore, Store, Quiet, jniVars
  <2>2. UNCHANGED <<hctx, live, ctx, kas, holder, keep_alive_thread>>
    BY DEF AnswerStore, holderVars, stackVars
  <2>3. pc'[t] = "loop" /\ \A u \in Thread \ {t} : pc'[u] = pc[u]
    BY IInvParts DEF AnswerStore, Goto
  <2>4. w # t /\ Beating(w)
    BY <2>3 DEF Beating, KeepAlive
  <2>5. /\ hctx \in live /\ holder = "alloc" /\ keep_alive_thread = w
        /\ \A u \in Thread : pc[u] = "ansStore" => ctx[u] = hctx
        /\ wait_count <= Limit + 1
        /\ wait_count = Unanswered + (IF pc[w] \in {"kaSleep", "kaWake"} THEN 1 ELSE 0)
    BY <2>1, <2>4, IInvParts DEF BeatingInv
  <2>6. Unanswered = kas[hctx] + 1 /\ kas[hctx] \in Nat
    BY <2>1, <2>5, IInvParts DEF Unanswered, Pending
  <2>7. wait_count' = wait_count - 1
    <3>1. seen[t] = wait_count
      BY <2>1, IInvParts DEF Loaded, Storing
    <3>2. wait_count \in Nat /\ wait_count # 0
      BY <2>5, <2>6, IInvParts
    <3>3. QED
      BY <2>1, <3>1, <3>2 DEF Dec
  <2>8. \A u \in Thread : pc'[u] # "ansStore"
    BY <2>1, <2>3, <2>5, IInvParts DEF Drivers, Driving, Looping
  <2>9. Unanswered' = kas[hctx]
    BY <2>2, <2>6, <2>8 DEF Unanswered, Pending
  <2>10. pc'[w] = pc[w]
    BY <2>3, <2>4
  <2>11. QED
    BY <2>2, <2>5, <2>6, <2>7, <2>8, <2>9, <2>10, IInvParts
<1>3. EnterInv'
  <2> SUFFICES ASSUME Quiet', NEW w \in Thread, pc'[w] = "enter"
               PROVE  /\ hctx' \in live' /\ ctx'[w] = hctx' /\ kas'[hctx'] = 0
                      /\ \A u \in Thread : ~Spine(u)'
    BY DEF EnterInv
  <2>1. Quiet /\ pc[t] = "ansStore"
    BY DEF AnswerStore, Store, Quiet, jniVars
  <2>2. UNCHANGED <<hctx, live, ctx, kas>>
    BY DEF AnswerStore, holderVars, stackVars
  <2>3. pc'[t] = "loop" /\ \A u \in Thread \ {t} : pc'[u] = pc[u]
    BY IInvParts DEF AnswerStore, Goto
  <2>4. w # t /\ pc[w] = "enter"
    BY <2>3
  <2>5. /\ hctx \in live /\ ctx[w] = hctx /\ kas[hctx] = 0
        /\ \A u \in Thread : Spine(u) => pc[u] \in {"ka", "kaStore", "kaSleep"}
    BY <2>1, <2>4, IInvParts DEF EnterInv
  <2>6. ctx[t] # hctx
    BY <2>1, <2>4, <2>5, IInvParts DEF Drivers, Driving, Looping
  <2>7. \A u \in Thread : ~Beating(u)
    BY <2>1, <2>6, IInvParts DEF BeatingInv
  <2>8. \A u \in Thread : ~Spine(u)
    BY <2>5, <2>7 DEF Beating, KeepAlive
  <2>9. \A u \in Thread : ~Spine(u)'
    BY <2>3, <2>8 DEF Spine, KeepAlive, Registering, Teardown
  <2>10. QED
    BY <2>2, <2>5, <2>9
<1>4. QED
  BY <1>1, <1>2, <1>3 DEF IInv

\* A released call ends the undisturbed session.
LEMMA CallReleasedKeeps ==
  ASSUME IInv, TypeOK', NEW t \in Thread, CallReleased(t)
  PROVE  IInv'
<1> USE ThreadAssumption, CounterAssumption, BoundAssumption
<1>1. Fresh' /\ Numbered'
  BY IInvParts DEF CallReleased, Goto, Fresh, Numbered, Ctx, holderVars,
       stackVars, jniVars, countVars
<1>2. OneSpine' /\ Loaded'
  BY IInvParts DEF CallReleased, Goto, OneSpine, Spine, KeepAlive,
       Registering, Teardown, Loaded, Storing, Quiet, holderVars, stackVars,
       jniVars, countVars
<1>3. Drivers' /\ BetweenInv' /\ SendingInv' /\ BeatingInv' /\ EnterInv'
  BY IInvParts DEF CallReleased, Goto, Drivers, Driving, Looping, Quiet,
       BetweenInv, Between, SendingInv, Sending, BeatingInv, Beating,
       KeepAlive, Unanswered, Pending, EnterInv, Spine, Registering, Teardown,
       holderVars, stackVars, jniVars, countVars
<1>4. QED
  BY <1>1, <1>2, <1>3 DEF IInv

\* The spine quits the only live context.
LEMMA QuitContextKeeps ==
  ASSUME IInv, TypeOK', NEW t \in Thread, QuitContext(t)
  PROVE  IInv'
<1> USE ThreadAssumption, CounterAssumption, BoundAssumption
<1>1. Fresh'
  BY IInvParts DEF QuitContext, Goto, Quit, Fresh, holderVars, jniVars,
       countVars
<1>2. Numbered'
  <2>1. hctx' = hctx /\ ctxs' = ctxs /\ live' \subseteq live
    BY DEF QuitContext, Quit, holderVars
  <2>2. \A u \in Thread : ctx'[u] <= ctxs
    BY IInvParts DEF QuitContext, Numbered
  <2>3. \A c \in Ctx : c \notin live' => kas'[c] = 0
    BY IInvParts DEF QuitContext, Quit, Numbered
  <2>4. QED
    BY <2>1, <2>2, <2>3, IInvParts DEF Numbered
<1>3. OneSpine' /\ Loaded' /\ Drivers'
  BY IInvParts DEF QuitContext, Goto, Quit, OneSpine, Spine, KeepAlive,
       Registering, Teardown, Loaded, Storing, Quiet, Drivers, Driving,
       Looping, holderVars, jniVars, countVars
<1>4. BetweenInv'
  BY IInvParts DEF QuitContext, Goto, Quit, BetweenInv, Between, Quiet, Fresh,
       OneSpine, Spine, Drivers, Loaded, SendingInv, BeatingInv, EnterInv,
       Sending, Beating, Storing, KeepAlive, Registering, Teardown,
       holderVars, jniVars, countVars
<1>5. SendingInv'
  BY IInvParts DEF QuitContext, Goto, Quit, SendingInv, Sending, Quiet, Fresh,
       Numbered, OneSpine, Spine, Drivers, Driving, BetweenInv, BeatingInv,
       EnterInv, Between, Beating, KeepAlive, Registering, Teardown, Looping,
       holderVars, jniVars, countVars
<1>6. BeatingInv'
  BY IInvParts DEF QuitContext, Goto, Quit, BeatingInv, Beating, KeepAlive,
       Unanswered, Pending, Quiet, Fresh, Numbered, OneSpine, Spine, Drivers,
       Driving, Loaded, Storing, SendingInv, EnterInv, Sending, Registering,
       Teardown, Looping, holderVars, jniVars, countVars
<1>7. EnterInv'
  BY IInvParts DEF QuitContext, Goto, Quit, EnterInv, Spine, KeepAlive,
       Registering, Teardown, Quiet, holderVars, jniVars, countVars
<1>8. QED
  BY <1>1, <1>2, <1>3, <1>4, <1>5, <1>6, <1>7 DEF IInv

\* Between quit and the next context no context is up.
LEMMA DeleteHolderKeeps ==
  ASSUME IInv, TypeOK', NEW t \in Thread, DeleteHolder(t)
  PROVE  IInv'
<1> USE ThreadAssumption, CounterAssumption, BoundAssumption
<1>1. Fresh' /\ Numbered' /\ OneSpine' /\ Loaded' /\ Drivers'
  BY IInvParts DEF DeleteHolder, Goto, Fresh, Numbered, Ctx, OneSpine, Spine,
       KeepAlive, Registering, Teardown, Loaded, Storing, Quiet, Drivers,
       Driving, Looping, stackVars, jniVars, countVars
<1>2. BetweenInv'
  BY IInvParts DEF DeleteHolder, Goto, BetweenInv, Between, Quiet, Fresh,
       OneSpine, Spine, Drivers, Loaded, SendingInv, BeatingInv, EnterInv,
       Sending, Beating, Storing, KeepAlive, Registering, Teardown, stackVars,
       jniVars, countVars
<1>3. SendingInv'
  BY IInvParts DEF DeleteHolder, Goto, SendingInv, Sending, Quiet, Fresh,
       Numbered, OneSpine, Spine, Drivers, Driving, BetweenInv, BeatingInv,
       EnterInv, Between, Beating, KeepAlive, Registering, Teardown, Looping,
       stackVars, jniVars, countVars
<1>4. BeatingInv'
  BY IInvParts DEF DeleteHolder, Goto, BeatingInv, Beating, KeepAlive,
       Unanswered, Pending, Quiet, Fresh, Numbered, OneSpine, Spine, Drivers,
       Driving, Loaded, Storing, SendingInv, EnterInv, Sending, Registering,
       Teardown, Looping, stackVars, jniVars, countVars
<1>5. EnterInv'
  BY IInvParts DEF DeleteHolder, Goto, EnterInv, Spine, KeepAlive,
       Registering, Teardown, Quiet, stackVars, jniVars, countVars
<1>6. QED
  BY <1>1, <1>2, <1>3, <1>4, <1>5 DEF IInv

\* The keep-alive thread's holder is allocated and owns a context, so it goes
\* on beating.
LEMMA KaLoadKeeps ==
  ASSUME IInv, TypeOK', NEW t \in Thread, KaLoad(t)
  PROVE  IInv'
<1> USE ThreadAssumption, CounterAssumption, BoundAssumption
<1>1. Fresh' /\ Numbered'
  BY IInvParts DEF KaLoad, Goto, Load, Fresh, Numbered, Ctx, holderVars,
       stackVars, jniVars, countVars
<1>2. OneSpine' /\ Loaded'
  BY IInvParts DEF KaLoad, Goto, Load, OneSpine, Spine, KeepAlive,
       Registering, Teardown, Loaded, Storing, Quiet, holderVars, stackVars,
       jniVars, countVars
<1>3. Drivers' /\ BetweenInv' /\ SendingInv' /\ BeatingInv' /\ EnterInv'
  BY IInvParts DEF KaLoad, Goto, Load, Drivers, Driving, Looping, Quiet,
       BetweenInv, Between, SendingInv, Sending, BeatingInv, Beating,
       KeepAlive, Unanswered, Pending, EnterInv, Spine, Registering, Teardown,
       holderVars, stackVars, jniVars, countVars
<1>4. QED
  BY <1>1, <1>2, <1>3 DEF IInv

\* The counter grows by one before the message leaves; a keep-alive thread
\* cannot give up before the registered thread is in its loop.
LEMMA KaStoreKeeps ==
  ASSUME IInv, TypeOK', NEW t \in Thread, KaStore(t)
  PROVE  IInv'
<1> USE ThreadAssumption, CounterAssumption, BoundAssumption
<1>1. Fresh' /\ Numbered' /\ OneSpine' /\ Loaded' /\ Drivers'
  BY IInvParts DEF KaStore, Goto, Store, Inc, GivesUp, Fresh, Numbered, Ctx,
       OneSpine, Spine, KeepAlive, Registering, Teardown, Loaded, Storing,
       Quiet, Drivers, Driving, Looping, holderVars, stackVars, jniVars
<1>2. BetweenInv'
  <2> SUFFICES ASSUME Quiet' PROVE BetweenInv'
    BY DEF BetweenInv
  <2>1. /\ Quiet /\ pc[t] = "kaStore" /\ Spine(t) /\ Beating(t)
        /\ wait_count' = Inc(seen[t]) /\ seen[t] = wait_count
    BY IInvParts DEF KaStore, Store, Quiet, jniVars, Loaded, Storing,
                     Spine, Beating, KeepAlive
  <2>2. UNCHANGED <<hctx, live, ctx, kas, holder, keep_alive_thread>>
    BY DEF KaStore, holderVars, stackVars
  <2>3. /\ pc'[t] = IF GivesUp(seen[t]) THEN "quit" ELSE "kaSleep"
        /\ \A v \in Thread \ {t} : pc'[v] = pc[v]
    BY IInvParts DEF KaStore, Goto
  <2>4. \A v \in Thread \ {t} : ~Spine(v)
    BY <2>1, IInvParts DEF OneSpine, Quiet
  <2>5. \A v \in Thread : pc'[v] \in Between \cup {"init", "quit"} => v = t
    BY <2>3, <2>4 DEF Between, Spine, Registering, Teardown
  <2>6. pc'[t] = "quit" => \A u \in Thread : pc[u] # "enter"
    <3>1. \A u \in Thread : pc[u] = "enter" => wait_count = 0
      BY <2>1, IInvParts DEF EnterInv
    <3>2. QED
      BY <2>1, <2>3, <3>1 DEF GivesUp
  <2>7. holder = "alloc"
    BY <2>1, IInvParts DEF BeatingInv
  <2>8. pc'[t] \in {"quit", "kaSleep"} /\ \A u \in Thread : pc'[u] = "enter" => pc[u] = "enter"
    BY <2>3
  <2>9. QED
    BY <2>2, <2>5, <2>6, <2>7, <2>8 DEF BetweenInv, Between
<1>3. SendingInv'
  BY IInvParts DEF KaStore, Goto, Store, Inc, GivesUp, SendingInv, Sending,
       Quiet, holderVars, stackVars, jniVars
<1>4. BeatingInv'
  <2> SUFFICES ASSUME Quiet', NEW w \in Thread, Beating(w)'
               PROVE  /\ hctx' \in live' /\ holder' = "alloc" /\ keep_alive_thread' = w
                      /\ \A u \in Thread : pc'[u] = "ansStore" => ctx'[u] = hctx'
                      /\ wait_count' <= Limit + 1
                      /\ wait_count' = Unanswered' +
                           (IF pc'[w] \in {"kaSleep", "kaWake"} THEN 1 ELSE 0)
    BY DEF BeatingInv
  <2>1. /\ Quiet /\ pc[t] = "kaStore" /\ Spine(t) /\ Beating(t)
        /\ wait_count' = Inc(seen[t]) /\ seen[t] = wait_count
    BY IInvParts DEF KaStore, Store, Quiet, jniVars, Loaded, Storing,
                     Spine, Beating, KeepAlive
  <2>2. UNCHANGED <<hctx, live, ctx, kas, holder, keep_alive_thread>>
    BY DEF KaStore, holderVars, stackVars
  <2>3. /\ pc'[t] = IF GivesUp(seen[t]) THEN "quit" ELSE "kaSleep"
        /\ \A v \in Thread \ {t} : pc'[v] = pc[v]
    BY IInvParts DEF KaStore, Goto
  <2>4. \A v \in Thread \ {t} : ~Spine(v)
    BY <2>1, IInvParts DEF OneSpine, Quiet
  <2>5. w = t /\ pc'[t] = "kaSleep" /\ ~GivesUp(seen[t])
    BY <2>3, <2>4 DEF Beating, Spine, KeepAlive
  <2>6. /\ hctx \in live /\ holder = "alloc" /\ keep_alive_thread = t
        /\ \A u \in Thread : pc[u] = "ansStore" => ctx[u] = hctx
        /\ wait_count = Unanswered + 0
    BY <2>1, IInvParts DEF BeatingInv
  <2>7. wait_count' = Unanswered + 1 /\ wait_count' <= Limit + 1
    <3>1. wait_count <= Limit /\ Inc(wait_count) = wait_count + 1
      BY <2>1, <2>5, IInvParts DEF Inc, GivesUp
    <3>2. Unanswered \in Nat
      BY <2>6, IInvParts DEF Unanswered
    <3>3. QED
      BY <2>1, <2>6, <3>1, <3>2, IInvParts
  <2>8. \A u \in Thread : pc'[u] = "ansStore" <=> pc[u] = "ansStore"
    BY <2>1, <2>3, <2>5
  <2>9. Unanswered' = Unanswered
    BY <2>2, <2>8 DEF Unanswered, Pending
  <2>10. QED
    BY <2>2, <2>5, <2>6, <2>7, <2>8, <2>9
<1>5. EnterInv'
  <2> SUFFICES ASSUME Quiet', NEW w \in Thread, pc'[w] = "enter"
               PROVE  /\ hctx' \in live' /\ ctx'[w] = hctx' /\ kas'[hctx'] = 0
                      /\ \A u \in Thread : Spine(u)' => pc'[u] = "kaSleep"
    BY DEF EnterInv
  <2>1. /\ Quiet /\ pc[t] = "kaStore" /\ Spine(t) /\ Beating(t)
        /\ wait_count' = Inc(seen[t]) /\ seen[t] = wait_count
    BY IInvParts DEF KaStore, Store, Quiet, jniVars, Loaded, Storing,
                     Spine, Beating, KeepAlive
  <2>2. UNCHANGED <<hctx, live, ctx, kas, holder, keep_alive_thread>>
    BY DEF KaStore, holderVars, stackVars
  <2>3. /\ pc'[t] = IF GivesUp(seen[t]) THEN "quit" ELSE "kaSleep"
        /\ \A v \in Thread \ {t} : pc'[v] = pc[v]
    BY IInvParts DEF KaStore, Goto
  <2>4. \A v \in Thread \ {t} : ~Spine(v)
    BY <2>1, IInvParts DEF OneSpine, Quiet
  <2>5. w # t /\ pc[w] = "enter"
    BY <2>3
  <2>6. hctx \in live /\ ctx[w] = hctx /\ kas[hctx] = 0 /\ wait_count = 0
    BY <2>1, <2>5, IInvParts DEF EnterInv
  <2>7. pc'[t] = "kaSleep"
    BY <2>1, <2>3, <2>6 DEF GivesUp
  <2>8. \A u \in Thread : Spine(u)' => u = t
    BY <2>3, <2>4 DEF Spine
  <2>9. QED
    BY <2>2, <2>6, <2>7, <2>8
<1>6. QED
  BY <1>1, <1>2, <1>3, <1>4, <1>5 DEF IInv

\* No Keepalive leaves before the registered thread is in its loop.
LEMMA KaSleepKeeps ==
  ASSUME IInv, TypeOK', NEW t \in Thread, KaSleep(t)
  PROVE  IInv'
<1> USE ThreadAssumption, CounterAssumption, BoundAssumption
<1>1. Fresh' /\ Numbered' /\ OneSpine' /\ Loaded'
  BY IInvParts DEF KaSleep, Goto, Fresh, Numbered, Ctx, OneSpine, Spine,
       KeepAlive, Registering, Teardown, Loaded, Storing, Quiet, holderVars,
       stackVars, jniVars, countVars
<1>2. Drivers' /\ BetweenInv' /\ SendingInv' /\ BeatingInv' /\ EnterInv'
  BY IInvParts DEF KaSleep, Goto, Drivers, Driving, Looping, Quiet,
       BetweenInv, Between, SendingInv, Sending, BeatingInv, Beating,
       KeepAlive, Unanswered, Pending, EnterInv, Spine, Registering, Teardown,
       holderVars, stackVars, jniVars, countVars
<1>3. QED
  BY <1>1, <1>2 DEF IInv

\* The message that leaves is the one already counted; the bound on outstanding
\* messages is not reached while the session is undisturbed.
LEMMA KaSendKeeps ==
  ASSUME IInv, TypeOK', NEW t \in Thread, KaSend(t)
  PROVE  IInv'
<1> USE ThreadAssumption, CounterAssumption, BoundAssumption
<1>1. Fresh' /\ Numbered' /\ OneSpine'
  BY IInvParts DEF KaSend, Goto, Fresh, Numbered, Ctx, OneSpine, Spine,
       KeepAlive, Registering, Teardown, holderVars, jniVars, countVars
<1>2. Loaded' /\ Drivers' /\ BetweenInv'
  BY IInvParts DEF KaSend, Goto, Loaded, Storing, Quiet, Drivers, Driving,
       Looping, BetweenInv, Between, holderVars, jniVars, countVars
<1>3. SendingInv'
  BY IInvParts DEF KaSend, Goto, SendingInv, Sending, Quiet, Fresh, Numbered,
       OneSpine, Spine, Drivers, Driving, BetweenInv, BeatingInv, EnterInv,
       Between, Beating, KeepAlive, Registering, Teardown, Looping,
       holderVars, jniVars, countVars
<1>4. BeatingInv' /\ EnterInv'
  BY IInvParts DEF KaSend, Goto, BeatingInv, Beating, KeepAlive, Unanswered,
       Pending, Quiet, EnterInv, Spine, Registering, Teardown, holderVars,
       jniVars, countVars
<1>5. QED
  BY <1>1, <1>2, <1>3, <1>4 DEF IInv

\* Before the first call nothing runs and no context is up.
LEMMA IInvInit == Init /\ TypeOK => IInv
<1> SUFFICES ASSUME Init, TypeOK PROVE IInv
  OBVIOUS
<1>1. /\ \A t \in Thread : pc[t] = "idle" /\ ctx[t] = 0
      /\ live = {} /\ hctx = 0 /\ ctxs = 0 /\ kas = [c \in Ctx |-> 0]
  BY DEF Init
<1>2. Fresh /\ Numbered
  BY <1>1 DEF Fresh, Numbered
<1>3. OneSpine /\ Loaded
  BY <1>1 DEF OneSpine, Loaded, Spine, Storing, KeepAlive, Registering, Teardown
<1>4. Drivers /\ BetweenInv /\ SendingInv /\ BeatingInv /\ EnterInv
  BY <1>1 DEF Drivers, Driving, BetweenInv, SendingInv, BeatingInv, EnterInv,
              Between, Sending, Beating, KeepAlive, Looping
<1>5. QED
  BY <1>2, <1>3, <1>4 DEF IInv

\* No step of any thread, of Java or of the server leaves the invariant.
LEMMA IInvStep == IInv /\ [Next]_vars => IInv'
<1> SUFFICES ASSUME IInv, [Next]_vars PROVE IInv'
  OBVIOUS
<1>1. TypeOK'
  BY TypeStep DEF IInv
<1>2. CASE unRegister
  BY <1>1, <1>2, unRegisterKeeps
<1>3. CASE Expire
  BY <1>1, <1>3, ExpireKeeps
<1>4. ASSUME NEW t \in Thread, registerSip(t) PROVE IInv'
  BY <1>1, <1>4, registerSipKeeps
<1>5. ASSUME NEW t \in Thread, Register(t) PROVE IInv'
  BY <1>1, <1>5, NewHolderKeeps, InitContextKeeps, SendRegisterKeeps,
     PollLoadKeeps, PollStoreKeeps, RegSuccessKeeps, RegUnauthorizedKeeps,
     RegProxyAuthKeeps, RegRefusedKeeps, RegDropAnswerKeeps, EnterLoopKeeps
     DEF Register
<1>6. ASSUME NEW t \in Thread, ProcessEvent(t) PROVE IInv'
  BY <1>1, <1>6, LoopTestKeeps, EventNoneKeeps, LateRegisterKeeps,
     MessageAnsweredKeeps, AnswerStoreKeeps, CallReleasedKeeps DEF ProcessEvent
<1>7. ASSUME NEW t \in Thread, Restart(t) PROVE IInv'
  BY <1>1, <1>7, QuitContextKeeps, DeleteHolderKeeps DEF Restart
<1>8. ASSUME NEW t \in Thread, StartKeepAlive(t) PROVE IInv'
  BY <1>1, <1>8, KaLoadKeeps, KaStoreKeeps, KaSleepKeeps, KaSendKeeps
     DEF StartKeepAlive
<1>9. CASE UNCHANGED vars
  BY <1>9 DEF vars, holderVars, stackVars, jniVars, countVars, IInv, TypeOK,
     Fresh, Numbered, OneSpine, Spine, Loaded, Drivers, Driving, BetweenInv,
     SendingInv, BeatingInv, Beating, Unanswered, Pending, EnterInv, Quiet
<1>10. QED
  BY <1>2, <1>3, <1>4, <1>5, <1>6, <1>7, <1>8, <1>9 DEF Next

\* The invariant holds in every reachable state.
THEOREM Inductive == Spec => []IInv
<1>1. Init => IInv
  BY IInvInit, InitTypes
<1>2. QED
  BY <1>1, IInvStep, PTL DEF Spec

(***************************************************************************)
(* One keep-alive thread: in an undisturbed session, however often the     *)
(* keep-alive thread restarts the stack, the handle names the only thread  *)
(* that sends Keepalives.                                                  *)
(***************************************************************************)
THEOREM KeepAliveUnique == Spec => []OneKeepAlive
<1>1. IInv => OneKeepAlive
  BY IInvParts DEF OneKeepAlive, BeatingInv
<1>2. QED
  BY <1>1, Inductive, PTL

(***************************************************************************)
(* One driver per context: in an undisturbed session no two threads read   *)
(* the events of a live context and only the holder's context is live.     *)
(***************************************************************************)
THEOREM DriverUnique == Spec => []SingleDriver
<1>1. IInv => SingleDriver
  BY IInvParts DEF SingleDriver, Drivers
<1>2. QED
  BY <1>1, Inductive, PTL

(***************************************************************************)
(* Accounting: in an undisturbed session wait_count is exactly the number  *)
(* of unanswered Keepalives, for any width of the counter.                 *)
(***************************************************************************)
THEOREM CounterExact == Spec => []Accounting
<1>1. IInv => Accounting
  <2> SUFFICES ASSUME IInv, Quiet, NEW t \in Thread, Beating(t)
               PROVE  wait_count = Unanswered + (IF Ahead THEN 1 ELSE 0)
    BY DEF Accounting
  <2>1. wait_count = Unanswered +
          (IF pc[t] \in {"kaSleep", "kaWake"} THEN 1 ELSE 0)
    BY IInvParts DEF BeatingInv
  <2>2. \A u \in Thread : Beating(u) => u = t
    BY IInvParts DEF BeatingInv
  <2>3. Ahead <=> pc[t] \in {"kaSleep", "kaWake"}
    BY <2>2 DEF Ahead, Beating, KeepAlive
  <2>4. QED
    BY <2>1, <2>3
<1>2. QED
  BY <1>1, Inductive, PTL

(***************************************************************************)
(* KeepsSession in the terms of the threads: in an undisturbed session the *)
(* keep-alive thread tears the stack down only when exactly Limit + 1      *)
(* Keepalives are unanswered.                                              *)
(***************************************************************************)
GiveUpJustified ==
  [][\A t \in Thread :
       pc[t] = "kaStore" /\ pc'[t] = "quit" /\ Quiet' => Unanswered = Limit + 1]_vars

\* With Limit + 1 messages unanswered, neither fewer nor more, does startKeepAlive
\* restart the stack.
THEOREM GiveUpOnlyJustified == Spec => GiveUpJustified
<1> DEFINE Justified == \A t \in Thread :
      pc[t] = "kaStore" /\ pc'[t] = "quit" /\ Quiet' => Unanswered = Limit + 1
<1>1. IInv /\ [Next]_vars => [Justified]_vars
  <2> SUFFICES ASSUME IInv, Next, NEW t \in Thread,
                      pc[t] = "kaStore", pc'[t] = "quit", Quiet'
               PROVE  Unanswered = Limit + 1
    BY DEF Justified
  <2>1. KaStore(t)
    <3>1. ~unRegister /\ ~Expire
      BY DEF unRegister, Expire
    <3>2. ASSUME NEW u \in Thread, registerSip(u) PROVE FALSE
      BY <3>2, IInvParts DEF registerSip, Goto
    <3>3. ASSUME NEW u \in Thread, Register(u) PROVE FALSE
      BY <3>3, IInvParts DEF Register, NewHolder, InitContext, SendRegister,
         PollLoad, PollStore, RegSuccess, Answered, RegUnauthorized,
         RegProxyAuth, RegRefused, RegDropAnswer, EnterLoop, Goto
    <3>4. ASSUME NEW u \in Thread, ProcessEvent(u) PROVE FALSE
      BY <3>4, IInvParts DEF ProcessEvent, LoopTest, EventNone,
         LateRegister, MessageAnswered, AnswerStore, CallReleased, Goto
    <3>5. ASSUME NEW u \in Thread, Restart(u) PROVE FALSE
      BY <3>5, IInvParts DEF Restart, QuitContext, DeleteHolder, Goto
    <3>6. ASSUME NEW u \in Thread, StartKeepAlive(u) PROVE u = t /\ KaStore(u)
      BY <3>6, IInvParts DEF StartKeepAlive, KaLoad, KaStore, KaSleep, KaSend,
         Goto
    <3>7. QED
      BY <3>1, <3>2, <3>3, <3>4, <3>5, <3>6 DEF Next
  <2>2. Quiet /\ GivesUp(seen[t]) /\ seen[t] = wait_count
    BY <2>1, IInvParts DEF KaStore, Goto, Store, Quiet, jniVars, Loaded, Storing
  <2>3. wait_count = Unanswered + 0 /\ hctx \in live /\ wait_count <= Limit + 1
    BY <2>2, IInvParts DEF BeatingInv, Beating, KeepAlive
  <2>4. Unanswered \in Nat
    BY <2>3, IInvParts DEF Unanswered
  <2>5. QED
    BY <2>2, <2>3, <2>4, CounterAssumption, IInvParts DEF GivesUp
<1>2. QED
  BY <1>1, Inductive, PTL DEF Spec, GiveUpJustified

-----------------------------------------------------------------------------
Spines == {t \in Thread : Spine(t)}

\* The threads LeakBound counts are the spines, and they are finitely many.
LEMMA SpinesFinite ==
  /\ LeakBound <=> Cardinality(Spines) <= starts + releases
  /\ IsFiniteSet(Spines) /\ IsFiniteSet(Spines')
  /\ Cardinality(Spines) \in Nat
<1>1. Spines = {t \in Thread : pc[t] \in KeepAlive \cup Registering \cup Teardown}
  BY DEF Spines, Spine
<1>2. Spines \subseteq Thread /\ Spines' \subseteq Thread
  BY DEF Spines
<1>3. IsFiniteSet(Spines) /\ IsFiniteSet(Spines')
  BY <1>2, ThreadAssumption, FS_Subset
<1>4. Cardinality(Spines) \in Nat
  BY <1>3, FS_CardinalityType
<1>5. QED
  BY <1>1, <1>3, <1>4 DEF LeakBound

\* A spine is added only by registerSip and by a released call, and each is
\* counted; a successful registration moves a spine from one thread to another.
LEMMA LeakStep == TypeOK /\ LeakBound /\ [Next]_vars => LeakBound'
<1> SUFFICES ASSUME TypeOK, LeakBound, [Next]_vars PROVE LeakBound'
  OBVIOUS
<1>1. /\ pc \in [Thread -> PC] /\ starts \in Nat /\ releases \in Nat
      /\ IsFiniteSet(Spines) /\ IsFiniteSet(Spines')
      /\ Cardinality(Spines) \in Nat /\ Cardinality(Spines) <= starts + releases
  BY SpinesFinite DEF TypeOK
<1>2. LeakBound' <=> Cardinality(Spines') <= starts' + releases'
  <2>1. Spines' = {t \in Thread : pc'[t] \in KeepAlive \cup Registering \cup Teardown}
    BY DEF Spines, Spine
  <2>2. QED
    BY <2>1 DEF LeakBound
<1>3. ASSUME \A v \in Thread : Spine(v)' => Spine(v), UNCHANGED <<starts, releases>>
      PROVE  LeakBound'
  <2>1. Spines' \subseteq Spines
    BY <1>3 DEF Spines
  <2>2. Cardinality(Spines') <= Cardinality(Spines) /\ Cardinality(Spines') \in Nat
    BY <1>1, <2>1, FS_Subset, FS_CardinalityType
  <2>3. QED
    BY <1>1, <1>2, <1>3, <2>2
<1>4. ASSUME NEW t \in Thread, \A v \in Thread \ {t} : Spine(v)' => Spine(v),
             starts' + releases' = starts + releases + 1
      PROVE  LeakBound'
  <2>1. Spines' \subseteq Spines \cup {t}
    BY <1>4 DEF Spines
  <2>2. /\ IsFiniteSet(Spines \cup {t})
        /\ Cardinality(Spines \cup {t}) <= Cardinality(Spines) + 1
        /\ Cardinality(Spines \cup {t}) \in Nat
    <3>1. /\ IsFiniteSet(Spines \cup {t})
          /\ \/ Cardinality(Spines \cup {t}) = Cardinality(Spines)
             \/ Cardinality(Spines \cup {t}) = Cardinality(Spines) + 1
      BY <1>1, FS_AddElement, Zenon
    <3>2. QED
      BY <1>1, <3>1
  <2>3. Cardinality(Spines') <= Cardinality(Spines \cup {t}) /\ Cardinality(Spines') \in Nat
    BY <1>1, <2>1, <2>2, FS_Subset, FS_CardinalityType
  <2>4. QED
    BY <1>1, <1>2, <1>4, <2>2, <2>3
<1>5. CASE unRegister \/ Expire \/ UNCHANGED vars
  <2>1. UNCHANGED <<pc, starts, releases>>
    BY <1>5 DEF unRegister, Expire, vars, jniVars
  <2>2. QED
    BY <1>3, <2>1 DEF Spine
<1>6. ASSUME NEW t \in Thread, registerSip(t) PROVE LeakBound'
  <2>1. \A v \in Thread \ {t} : Spine(v)' => Spine(v)
    BY <1>1, <1>6 DEF registerSip, Goto, Spine
  <2>2. starts' + releases' = starts + releases + 1
    BY <1>1, <1>6 DEF registerSip
  <2>3. QED
    BY <1>4, <2>1, <2>2
<1>7. ASSUME NEW t \in Thread, NEW u \in Thread, RegSuccess(t, u) PROVE LeakBound'
  <2>1. /\ t \in Spines /\ u \notin Spines /\ t # u /\ UNCHANGED <<starts, releases>>
        /\ \A v \in Thread \ {t, u} : pc'[v] = pc[v]
        /\ pc'[t] = "enter"
    BY <1>1, <1>7 DEF RegSuccess, Answered, Spines, Spine, Registering,
                      KeepAlive, Teardown, jniVars
  <2>2. Spines' \subseteq (Spines \ {t}) \cup {u}
    BY <2>1 DEF Spines, Spine, KeepAlive, Registering, Teardown
  <2>3. /\ IsFiniteSet(Spines \ {t})
        /\ Cardinality(Spines \ {t}) = Cardinality(Spines) - 1
    BY <1>1, <2>1, FS_RemoveElement
  <2>4. /\ IsFiniteSet((Spines \ {t}) \cup {u})
        /\ Cardinality((Spines \ {t}) \cup {u}) = Cardinality(Spines \ {t}) + 1
    BY <2>1, <2>3, FS_AddElement
  <2>5. Cardinality(Spines') <= Cardinality((Spines \ {t}) \cup {u})
    BY <2>2, <2>4, FS_Subset
  <2>6. Cardinality(Spines') <= Cardinality(Spines) /\ Cardinality(Spines') \in Nat
    BY <1>1, <2>3, <2>4, <2>5, FS_CardinalityType
  <2>7. QED
    BY <1>1, <1>2, <2>1, <2>6
<1>8. ASSUME NEW t \in Thread,
             \/ NewHolder(t) \/ InitContext(t) \/ SendRegister(t)
             \/ PollLoad(t) \/ PollStore(t)
             \/ RegUnauthorized(t) \/ RegProxyAuth(t) \/ RegRefused(t)
             \/ RegDropAnswer(t) \/ EnterLoop(t)
      PROVE  LeakBound'
  <2>1. UNCHANGED <<starts, releases>>
    BY <1>8 DEF NewHolder, InitContext, SendRegister, PollLoad, PollStore,
       RegUnauthorized, RegProxyAuth, RegRefused, RegDropAnswer, EnterLoop, jniVars
  <2>2. \A v \in Thread : Spine(v)' => Spine(v)
    BY <1>1, <1>8 DEF NewHolder, InitContext, SendRegister, PollLoad, PollStore,
       RegUnauthorized, RegProxyAuth, RegRefused, RegDropAnswer, EnterLoop,
       Answered, Goto, Spine, KeepAlive, Registering, Teardown
  <2>3. QED
    BY <1>3, <2>1, <2>2
<1>9. ASSUME NEW t \in Thread,
             \/ LoopTest(t) \/ EventNone(t) \/ LateRegister(t)
             \/ MessageAnswered(t) \/ AnswerStore(t)
      PROVE  LeakBound'
  <2>1. UNCHANGED <<starts, releases>>
    BY <1>9 DEF LoopTest, EventNone, LateRegister, MessageAnswered,
       AnswerStore, jniVars
  <2>2. \A v \in Thread : Spine(v)' => Spine(v)
    BY <1>1, <1>9 DEF LoopTest, EventNone, LateRegister, MessageAnswered,
       AnswerStore,
       Goto, Spine, KeepAlive, Registering, Teardown
  <2>3. QED
    BY <1>3, <2>1, <2>2
<1>10. ASSUME NEW t \in Thread, CallReleased(t) PROVE LeakBound'
  <2>1. \A v \in Thread \ {t} : Spine(v)' => Spine(v)
    BY <1>1, <1>10 DEF CallReleased, Goto, Spine
  <2>2. starts' + releases' = starts + releases + 1
    BY <1>1, <1>10 DEF CallReleased, jniVars
  <2>3. QED
    BY <1>4, <2>1, <2>2
<1>11. ASSUME NEW t \in Thread, Restart(t) \/ StartKeepAlive(t) PROVE LeakBound'
  <2>1. UNCHANGED <<starts, releases>>
    BY <1>11 DEF Restart, QuitContext, DeleteHolder, StartKeepAlive, KaLoad,
       KaStore, KaSleep, KaSend, jniVars
  <2>2. \A v \in Thread : Spine(v)' => Spine(v)
    BY <1>1, <1>11 DEF Restart, QuitContext, DeleteHolder, StartKeepAlive,
       KaLoad, KaStore, KaSleep, KaSend, Goto, Spine, KeepAlive, Registering,
       Teardown
  <2>3. QED
    BY <1>3, <2>1, <2>2
<1>12. QED
  BY <1>5, <1>6, <1>7, <1>8, <1>9, <1>10, <1>11
     DEF Next, Register, ProcessEvent

(***************************************************************************)
(* The leak of threads is bounded: however calls, restarts and failures    *)
(* interleave, no more threads beat, register or restart than there were   *)
(* calls of registerSip and released calls.                                *)
(***************************************************************************)
THEOREM LeakBounded == Spec => []LeakBound
<1>1. Init => LeakBound
  <2> SUFFICES ASSUME Init PROVE LeakBound
    OBVIOUS
  <2>1. Spines = {}
    BY DEF Init, Spines, Spine, KeepAlive, Registering, Teardown
  <2>2. Cardinality(Spines) = 0
    BY <2>1, FS_EmptySet
  <2>3. QED
    BY <2>2, SpinesFinite DEF Init
<1>2. QED
  BY <1>1, LeakStep, TypeCorrect, PTL DEF Spec

-----------------------------------------------------------------------------
(***************************************************************************)
(* GbSession implements SessionOutcome.                                    *)
(***************************************************************************)
Maps == [Abstract!Next]_(Abstract!vars)

Count == IF Phase = "online" THEN Unanswered ELSE 0

\* While the session is undisturbed the spine says what it is at.
PhaseBySpine ==
  Quiet => \A t \in Thread :
    /\ pc[t] \in KeepAlive => Phase = "online"
    /\ pc[t] \in Registering => Phase = "registering"
    /\ pc[t] \in Teardown => Phase = "restarting"

LEMMA SpinePhase == IInv => PhaseBySpine
<1> SUFFICES ASSUME IInv, Quiet, NEW t \in Thread
             PROVE  /\ pc[t] \in KeepAlive => Phase = "online"
                    /\ pc[t] \in Registering => Phase = "registering"
                    /\ pc[t] \in Teardown => Phase = "restarting"
  BY DEF PhaseBySpine
<1>1. \A u \in Thread : Spine(t) /\ Spine(u) => t = u
  BY IInvParts DEF OneSpine, Quiet
<1>2. QED
  BY <1>1 DEF Phase, Beating, Spine, KeepAlive, Registering, Teardown

\* Without a spine it has not begun, or its stack has not come up.
LEMMA NoSpinePhase ==
  ASSUME Quiet, \A t \in Thread : ~Spine(t)
  PROVE  Phase = IF starts = 0 THEN "off" ELSE "down"
  BY DEF Phase, Beating, Spine

\* An undisturbed session was undisturbed before.
LEMMA QuietPast == IInv /\ [Next]_vars /\ Quiet' => Quiet
<1> SUFFICES ASSUME IInv, [Next]_vars, Quiet' PROVE Quiet
  OBVIOUS
<1> USE DEF jniVars, countVars
<1>1. starts \in Nat /\ releases \in Nat /\ unregs \in Nat /\ raced \in BOOLEAN
  BY IInvParts DEF IInv, TypeOK
<1> DEFINE Grows ==
  starts <= starts' /\ releases <= releases' /\ unregs <= unregs' /\ (raced => raced')
<1>2. Grows
  <2>1. CASE unRegister \/ Expire \/ UNCHANGED vars
    BY <1>1, <2>1 DEF unRegister, Expire, vars
  <2>2. ASSUME NEW t \in Thread, NEW u \in Thread, RegSuccess(t, u) PROVE Grows
    BY <1>1, <2>2 DEF RegSuccess, Store
  <2>3. ASSUME NEW t \in Thread, registerSip(t) PROVE Grows
    BY <1>1, <2>3 DEF registerSip
  <2>4. ASSUME NEW t \in Thread, NewHolder(t) PROVE Grows
    BY <1>1, <2>4 DEF NewHolder
  <2>5. ASSUME NEW t \in Thread, InitContext(t) PROVE Grows
    BY <1>1, <2>5 DEF InitContext
  <2>6. ASSUME NEW t \in Thread, SendRegister(t) PROVE Grows
    BY <1>1, <2>6 DEF SendRegister
  <2>7. ASSUME NEW t \in Thread, PollLoad(t) PROVE Grows
    BY <1>1, <2>7 DEF PollLoad
  <2>8. ASSUME NEW t \in Thread, PollStore(t) PROVE Grows
    BY <1>1, <2>8 DEF PollStore, Store
  <2>9. ASSUME NEW t \in Thread, RegUnauthorized(t) PROVE Grows
    BY <1>1, <2>9 DEF RegUnauthorized
  <2>10. ASSUME NEW t \in Thread, RegProxyAuth(t) PROVE Grows
    BY <1>1, <2>10 DEF RegProxyAuth
  <2>11. ASSUME NEW t \in Thread, RegRefused(t) PROVE Grows
    BY <1>1, <2>11 DEF RegRefused
  <2>12. ASSUME NEW t \in Thread, RegDropAnswer(t) PROVE Grows
    BY <1>1, <2>12 DEF RegDropAnswer
  <2>13. ASSUME NEW t \in Thread, EnterLoop(t) PROVE Grows
    BY <1>1, <2>13 DEF EnterLoop
  <2>14. ASSUME NEW t \in Thread, LoopTest(t) PROVE Grows
    BY <1>1, <2>14 DEF LoopTest
  <2>15. ASSUME NEW t \in Thread, EventNone(t) PROVE Grows
    BY <1>1, <2>15 DEF EventNone
  <2>16. ASSUME NEW t \in Thread, LateRegister(t) PROVE Grows
    BY <1>1, <2>16 DEF LateRegister
  <2>17. ASSUME NEW t \in Thread, MessageAnswered(t) PROVE Grows
    BY <1>1, <2>17 DEF MessageAnswered
  <2>18. ASSUME NEW t \in Thread, AnswerStore(t) PROVE Grows
    BY <1>1, <2>18 DEF AnswerStore, Store
  <2>19. ASSUME NEW t \in Thread, CallReleased(t) PROVE Grows
    BY <1>1, <2>19 DEF CallReleased
  <2>20. ASSUME NEW t \in Thread, QuitContext(t) PROVE Grows
    BY <1>1, <2>20 DEF QuitContext
  <2>21. ASSUME NEW t \in Thread, DeleteHolder(t) PROVE Grows
    BY <1>1, <2>21 DEF DeleteHolder
  <2>22. ASSUME NEW t \in Thread, KaLoad(t) PROVE Grows
    BY <1>1, <2>22 DEF KaLoad
  <2>23. ASSUME NEW t \in Thread, KaStore(t) PROVE Grows
    BY <1>1, <2>23 DEF KaStore, Store
  <2>24. ASSUME NEW t \in Thread, KaSleep(t) PROVE Grows
    BY <1>1, <2>24 DEF KaSleep
  <2>25. ASSUME NEW t \in Thread, KaSend(t) PROVE Grows
    BY <1>1, <2>25 DEF KaSend
  <2>26. QED
    BY <2>1, <2>2, <2>3, <2>4, <2>5, <2>6, <2>7, <2>8, <2>9, <2>10, <2>11, <2>12,
       <2>13, <2>14, <2>15, <2>16, <2>17, <2>18, <2>19, <2>20, <2>21, <2>22, <2>23,
       <2>24, <2>25
    DEF Next, Register, ProcessEvent, Restart, StartKeepAlive
<1>3. starts' \in Nat /\ releases' \in Nat /\ unregs' \in Nat
  BY TypeStep DEF IInv, TypeOK
<1>4. QED
  BY <1>1, <1>2, <1>3 DEF Quiet

\* A step that leaves the phase and the count alone.
Silent ==
  /\ starts' = starts
  /\ \A u \in Thread : /\ pc'[u] \in KeepAlive <=> pc[u] \in KeepAlive
                       /\ pc'[u] \in Registering <=> pc[u] \in Registering
                       /\ pc'[u] \in Teardown <=> pc[u] \in Teardown
  /\ Phase = "online" => Unanswered' = Unanswered

LEMMA SilentMaps ==
  ASSUME Quiet, Quiet', Silent
  PROVE  Maps
<1>1. Phase' = Phase
  BY DEF Silent, Phase, Beating
<1>2. Count' = Count
  BY <1>1 DEF Silent, Count
<1>3. QED
  BY <1>1, <1>2 DEF Maps, Count, Abstract!vars

\* A step that changes the phase as it may, and starts to count anew.
LEMMA MovesOn ==
  ASSUME Phase' # "online" \/ Unanswered' = 0, Phase' # Phase, Phase # "online" \/ Count = Limit + 1,
         <<Phase, Phase'>> \in {<<"off", "registering">>, <<"registering", "online">>,
                                <<"online", "restarting">>, <<"restarting", "registering">>,
                                <<"registering", "down">>}
  PROVE  Maps
<1>1. Count' = 0
  BY DEF Count
<1>2. CASE Phase = "off"
  BY <1>1, <1>2 DEF Maps, Count, Abstract!Next, Abstract!Start, Abstract!Becomes
<1>3. CASE Phase = "registering"
  BY <1>1, <1>3
     DEF Maps, Count, Abstract!Next, Abstract!Succeed, Abstract!Fail, Abstract!Becomes
<1>4. CASE Phase = "online"
  BY <1>1, <1>4 DEF Maps, Count, Abstract!Next, Abstract!GiveUp, Abstract!Becomes
<1>5. CASE Phase = "restarting"
  BY <1>1, <1>5 DEF Maps, Count, Abstract!Next, Abstract!Restart, Abstract!Becomes
<1>6. QED
  BY <1>2, <1>3, <1>4, <1>5

\* The session is started once.
LEMMA registerSipMaps ==
  ASSUME IInv, IInv', Quiet, Quiet', NEW t \in Thread, registerSip(t)
  PROVE  Maps
<1>1. starts = 0
  BY IInvParts DEF registerSip, Quiet
<1>2. \A u \in Thread : ~Spine(u)
  BY <1>1, IInvParts DEF Fresh, Spine, KeepAlive, Registering, Teardown
<1>3. Phase = "off"
  BY <1>1, <1>2, NoSpinePhase
<1>4. pc'[t] \in Registering
  BY IInvParts DEF registerSip, Goto, Registering
<1>5. Phase' = "registering"
  <2>1. PhaseBySpine'
    BY SpinePhase, PTL
  <2>2. QED
    BY <1>4, <2>1 DEF PhaseBySpine
<1>6. QED
  BY <1>3, <1>5, MovesOn

\* A registration: the thread that registers and the one that beats change over.
LEMMA RegisterMaps ==
  ASSUME IInv, IInv', Quiet, Quiet', NEW t \in Thread, Register(t)
  PROVE  Maps
<1> USE DEF jniVars
<1>1. PhaseBySpine /\ PhaseBySpine'
  BY SpinePhase, PTL
<1>2. pc \in [Thread -> PC]
  BY IInvParts
<1>3. ASSUME pc[t] \in Registering, starts' = starts,
             \A u \in Thread : u # t => pc'[u] = pc[u], pc'[t] \in Registering
      PROVE  Maps
  <2>1. Phase = "registering"
    BY <1>1, <1>3 DEF PhaseBySpine
  <2>2. Silent
    BY <1>3, <2>1 DEF Silent, KeepAlive, Registering, Teardown
  <2>3. QED
    BY <2>2, SilentMaps
<1>4. CASE NewHolder(t)
  BY <1>2, <1>3, <1>4 DEF NewHolder, Goto, Registering
<1>5. CASE InitContext(t)
  <2>1. pc[t] = "init" /\ pc[t] \in Registering /\ starts' = starts
    BY <1>5 DEF InitContext, Registering
  <2>2. CASE pc' = [pc EXCEPT ![t] = "send"]
    BY <1>2, <1>3, <2>1, <2>2 DEF Registering
  <2>3. CASE pc' = [pc EXCEPT ![t] = "idle"]
    <3>1. Phase = "registering" /\ starts # 0
      BY <1>1, <2>1, IInvParts DEF PhaseBySpine, Fresh
    <3>2. \A u \in Thread : Spine(t) /\ Spine(u) => t = u
      BY IInvParts DEF OneSpine, Quiet
    <3>3. \A u \in Thread : ~(pc'[u] \in KeepAlive \cup Registering \cup Teardown)
      BY <1>2, <2>1, <2>3, <3>2 DEF Spine, KeepAlive, Registering, Teardown
    <3>4. Phase' = "down"
      BY <2>1, <3>1, <3>3 DEF Phase, Beating
    <3>5. QED
      BY <3>1, <3>4, MovesOn
  <2>4. QED
    BY <1>5, <2>2, <2>3 DEF InitContext, Goto
<1>6. CASE SendRegister(t)
  BY <1>2, <1>3, <1>6 DEF SendRegister, Goto, Registering
<1>7. CASE PollLoad(t)
  BY <1>2, <1>3, <1>7 DEF PollLoad, Goto, Registering
<1>8. CASE PollStore(t)
  BY <1>2, <1>3, <1>8 DEF PollStore, Goto, Registering
<1>9. ASSUME NEW u \in Thread, RegSuccess(t, u) PROVE Maps
  <2>1. /\ pc[t] = "reg" /\ pc[u] = "idle" /\ pc' = [pc EXCEPT ![t] = "enter", ![u] = "ka"]
        /\ kas' = kas /\ hctx' = hctx /\ ctx' = ctx
    BY <1>9 DEF RegSuccess, Answered, holderVars
  <2>2. Phase = "registering"
    BY <1>1, <2>1 DEF PhaseBySpine, Registering
  <2>3. pc'[u] \in KeepAlive
    BY <1>2, <2>1 DEF KeepAlive
  <2>4. Phase' = "online"
    BY <1>1, <2>3 DEF PhaseBySpine
  <2>5. kas[hctx] = 0 /\ \A v \in Thread \ {t} : ctx[v] # hctx
    BY <2>1, IInvParts DEF SendingInv, Sending
  <2>6. ~Pending'
    BY <1>2, <2>1, <2>5 DEF Pending
  <2>7. Unanswered' = 0
    BY <2>1, <2>5, <2>6 DEF Unanswered
  <2>8. QED
    BY <2>2, <2>4, <2>7, MovesOn
<1>10. CASE RegUnauthorized(t)
  BY <1>2, <1>3, <1>10 DEF RegUnauthorized, Answered, Goto, Registering
<1>11. CASE RegProxyAuth(t) \/ RegDropAnswer(t)
  BY <1>2, <1>3, <1>11 DEF RegProxyAuth, RegDropAnswer, Answered, Registering
<1>12. CASE RegRefused(t)
  BY <1>2, <1>3, <1>12 DEF RegRefused, Answered, Goto, Registering
<1>13. CASE EnterLoop(t)
  <2>1. /\ pc[t] = "enter" /\ pc' = [pc EXCEPT ![t] = "loop"] /\ starts' = starts
        /\ kas' = kas /\ hctx' = hctx /\ \A u \in Thread : u # t => ctx'[u] = ctx[u]
    BY <1>13, IInvParts DEF EnterLoop, Goto, stackVars
  <2>2. Unanswered' = Unanswered
    BY <1>2, <2>1 DEF Unanswered, Pending
  <2>3. Silent
    BY <1>2, <2>1, <2>2 DEF Silent, KeepAlive, Registering, Teardown
  <2>4. QED
    BY <2>3, SilentMaps
<1>14. QED
  BY <1>4, <1>5, <1>6, <1>7, <1>8, <1>9, <1>10, <1>11, <1>12, <1>13 DEF Register

\* The event loop of the session's context counts an answer down; a loop that a
\* restart has left behind changes nothing.
LEMMA ProcessEventMaps ==
  ASSUME IInv, IInv', Quiet, Quiet', NEW t \in Thread, ProcessEvent(t)
  PROVE  Maps
<1> USE DEF jniVars, holderVars, stackVars
<1>1. PhaseBySpine
  BY SpinePhase
<1>2. /\ pc \in [Thread -> PC] /\ ctx \in [Thread -> 0..MaxCtx] /\ hctx \in 0..MaxCtx
      /\ kas \in [Ctx -> 0..MaxOut]
  BY IInvParts
<1>3. ASSUME starts' = starts, pc[t] \in Looping, pc'[t] \in Looping \cup {"idle"},
             \A u \in Thread : u # t => pc'[u] = pc[u],
             Phase = "online" => Unanswered' = Unanswered
      PROVE  Maps
  <2>1. Silent
    BY <1>3 DEF Silent, Looping, KeepAlive, Registering, Teardown
  <2>2. QED
    BY <2>1, SilentMaps
<1>4. CASE LoopTest(t) \/ EventNone(t) \/ LateRegister(t)
  <2>1. /\ pc[t] \in {"loop", "event"} /\ pc'[t] \in {"loop", "event", "idle"}
        /\ \A u \in Thread : u # t => pc'[u] = pc[u] /\ ctx'[u] = ctx[u]
        /\ starts' = starts /\ hctx' = hctx /\ kas' = kas
    BY <1>2, <1>4 DEF LoopTest, EventNone, LateRegister, Goto
  <2>2. Unanswered' = Unanswered
    BY <1>2, <2>1 DEF Unanswered, Pending
  <2>3. QED
    BY <1>3, <2>1, <2>2 DEF Looping
<1>5. \A v \in Thread : Beating(v) => hctx \in live /\ hctx \in Ctx
  BY IInvParts DEF BeatingInv
<1>6. Phase = "online" => \E v \in Thread : Beating(v)
  BY DEF Phase
<1>7. CASE MessageAnswered(t)
  <2>1. /\ pc[t] = "event" /\ pc' = [pc EXCEPT ![t] = "ansStore"]
        /\ starts' = starts /\ hctx' = hctx /\ ctx' = ctx
        /\ ctx[t] \in live /\ kas[ctx[t]] > 0 /\ kas' = [kas EXCEPT ![ctx[t]] = @ - 1]
    BY <1>7 DEF MessageAnswered, Goto
  <2>2. ctx[t] = hctx
    BY <2>1, IInvParts DEF Drivers
  <2>3. ~Pending
    BY <1>2, <2>1, <2>2, IInvParts DEF Pending, Drivers, Driving, Looping
  <2>4. Pending'
    BY <1>2, <2>1, <2>2 DEF Pending
  <2>5. hctx \in Ctx
    BY <2>1, <2>2, IInvParts
  <2>6. Unanswered' = Unanswered
    BY <1>2, <2>1, <2>2, <2>3, <2>4, <2>5 DEF Unanswered
  <2>7. QED
    BY <1>2, <1>3, <2>1, <2>6 DEF Looping
<1>8. CASE AnswerStore(t)
  <2>1. /\ pc[t] = "ansStore" /\ pc' = [pc EXCEPT ![t] = "loop"]
        /\ starts' = starts /\ hctx' = hctx /\ ctx' = ctx /\ kas' = kas
    BY <1>8 DEF AnswerStore, Goto
  <2>2. CASE Phase # "online"
    BY <1>2, <1>3, <2>1, <2>2 DEF Looping
  <2>3. CASE Phase = "online"
    <3>1. ctx[t] = hctx /\ hctx \in live /\ hctx \in Ctx
      BY <1>5, <1>6, <2>1, <2>3, IInvParts DEF BeatingInv
    <3>2. Pending
      BY <2>1, <3>1 DEF Pending
    <3>3. ~Pending'
      BY <1>2, <2>1, <3>1, IInvParts DEF Pending, Drivers, Driving, Looping
    <3>4. Unanswered = kas[hctx] + 1 /\ Unanswered' = kas[hctx] /\ kas[hctx] \in Nat
      BY <1>2, <2>1, <3>1, <3>2, <3>3 DEF Unanswered
    <3>5. Phase' = "online"
      BY <1>2, <2>1, <2>3 DEF Phase, Beating, KeepAlive
    <3>6. QED
      BY <2>3, <3>4, <3>5 DEF Maps, Abstract!Next, Abstract!Answer
  <2>4. QED
    BY <2>2, <2>3
<1>9. ~CallReleased(t)
  BY IInvParts DEF CallReleased, Quiet
<1>10. QED
  BY <1>4, <1>7, <1>8, <1>9 DEF ProcessEvent

\* The teardown gives way to a new registration.
LEMMA RestartMaps ==
  ASSUME IInv, IInv', Quiet, Quiet', NEW t \in Thread, Restart(t)
  PROVE  Maps
<1> USE DEF jniVars
<1>1. PhaseBySpine /\ PhaseBySpine' /\ pc \in [Thread -> PC]
  BY SpinePhase, IInvParts, PTL
<1>2. CASE QuitContext(t)
  <2>1. pc[t] = "quit" /\ pc' = [pc EXCEPT ![t] = "delete"] /\ starts' = starts
    BY <1>2 DEF QuitContext, Goto
  <2>2. Phase = "restarting"
    BY <1>1, <2>1 DEF PhaseBySpine, Teardown
  <2>3. Silent
    BY <1>1, <2>1, <2>2 DEF Silent, KeepAlive, Registering, Teardown
  <2>4. QED
    BY <2>3, SilentMaps
<1>3. CASE DeleteHolder(t)
  <2>1. pc[t] = "delete" /\ pc'[t] = "new"
    BY <1>1, <1>3 DEF DeleteHolder, Goto
  <2>2. Phase = "restarting" /\ Phase' = "registering"
    BY <1>1, <2>1 DEF PhaseBySpine, Teardown, Registering
  <2>3. QED
    BY <2>2, MovesOn
<1>4. QED
  BY <1>2, <1>3 DEF Restart

\* The keep-alive thread sends until one message too many has no answer.
LEMMA StartKeepAliveMaps ==
  ASSUME IInv, IInv', Quiet, Quiet', NEW t \in Thread, StartKeepAlive(t)
  PROVE  Maps
<1> USE DEF jniVars, holderVars, stackVars
<1>1. PhaseBySpine /\ PhaseBySpine' /\ pc \in [Thread -> PC]
  BY SpinePhase, IInvParts, PTL
<1>2. Beating(t) /\ pc[t] \in KeepAlive
  BY DEF StartKeepAlive, KaLoad, KaStore, KaSleep, KaSend, Beating, KeepAlive
<1>3. Phase = "online"
  BY <1>1, <1>2 DEF PhaseBySpine
<1>4. /\ hctx \in live /\ holder = "alloc" /\ hctx \in Ctx /\ wait_count <= Limit + 1
      /\ wait_count = Unanswered + (IF pc[t] \in {"kaSleep", "kaWake"} THEN 1 ELSE 0)
      /\ kas \in [Ctx -> 0..MaxOut] /\ wait_count \in 0..(Wrap - 1)
  BY <1>2, IInvParts DEF BeatingInv
<1>5. ASSUME pc'[t] \in KeepAlive, \A u \in Thread : u # t => pc'[u] = pc[u],
             starts' = starts, ctx' = ctx, hctx' = hctx
      PROVE  /\ Pending' <=> Pending
             /\ kas' = kas => Maps
  <2>1. Pending' <=> Pending
    BY <1>2, <1>5 DEF Pending, KeepAlive
  <2>2. CASE kas' = kas
    <3>1. Unanswered' = Unanswered
      BY <1>5, <2>1, <2>2 DEF Unanswered
    <3>2. /\ pc[t] \notin Registering /\ pc'[t] \notin Registering
          /\ pc[t] \notin Teardown /\ pc'[t] \notin Teardown
      BY <1>2, <1>5 DEF KeepAlive, Registering, Teardown
    <3>3. Silent
      BY <1>2, <1>5, <3>1, <3>2 DEF Silent
    <3>4. QED
      BY <2>1, <3>3, SilentMaps
  <2>3. QED
    BY <2>1, <2>2
<1>6. CASE KaLoad(t)
  <2>1. hctx # 0 /\ holder # "freed"
    BY <1>4 DEF Ctx
  <2>2. /\ pc'[t] \in KeepAlive /\ \A u \in Thread : u # t => pc'[u] = pc[u]
        /\ starts' = starts /\ ctx' = ctx /\ hctx' = hctx /\ kas' = kas
    BY <1>1, <1>6, <2>1 DEF KaLoad, Goto, KeepAlive
  <2>3. QED
    BY <1>5, <2>2
<1>7. CASE KaStore(t)
  <2>1. CASE ~GivesUp(seen[t])
    <3>1. /\ pc'[t] \in KeepAlive /\ \A u \in Thread : u # t => pc'[u] = pc[u]
          /\ starts' = starts /\ ctx' = ctx /\ hctx' = hctx /\ kas' = kas
      BY <1>1, <1>7, <2>1 DEF KaStore, Goto, KeepAlive
    <3>2. QED
      BY <1>5, <3>1
  <2>2. CASE GivesUp(seen[t])
    <3>1. pc[t] = "kaStore" /\ pc'[t] = "quit"
      BY <1>1, <1>7, <2>2 DEF KaStore, Goto
    <3>2. Phase' = "restarting"
      BY <1>1, <3>1 DEF PhaseBySpine, Teardown
    <3>3. seen[t] = wait_count
      BY <3>1, IInvParts DEF Loaded, Storing
    <3>4. wait_count = Unanswered /\ wait_count > Limit
      BY <1>4, <2>2, <3>1, <3>3 DEF GivesUp, Unanswered
    <3>5. Count = Limit + 1
      BY <1>3, <1>4, <3>4, CounterAssumption DEF Count
    <3>6. QED
      BY <1>3, <3>2, <3>5, MovesOn
  <2>3. QED
    BY <2>1, <2>2
<1>8. CASE KaSleep(t)
  <2>1. /\ pc'[t] \in KeepAlive /\ \A u \in Thread : u # t => pc'[u] = pc[u]
        /\ starts' = starts /\ ctx' = ctx /\ hctx' = hctx /\ kas' = kas
    BY <1>1, <1>8 DEF KaSleep, Goto, KeepAlive
  <2>2. QED
    BY <1>5, <2>1
<1>9. CASE KaSend(t)
  <2>1. /\ pc'[t] \in KeepAlive /\ \A u \in Thread : u # t => pc'[u] = pc[u]
        /\ starts' = starts /\ ctx' = ctx /\ hctx' = hctx
    BY <1>1, <1>9 DEF KaSend, Goto, KeepAlive
  <2>2. kas[hctx] \in Nat /\ Unanswered \in Nat /\ Unanswered <= Limit /\ kas[hctx] <= Unanswered
    BY <1>4, <1>9, CounterAssumption DEF KaSend, Unanswered
  <2>3. kas[hctx] < MaxOut
    BY <2>2, BoundAssumption, CounterAssumption
  <2>4. kas'[hctx] = kas[hctx] + 1
    BY <1>4, <1>9, <2>3 DEF KaSend
  <2>5. Unanswered' = Unanswered + 1
    BY <1>5, <2>1, <2>2, <2>4 DEF Unanswered
  <2>6. Phase' = "online"
    BY <1>1, <2>1 DEF PhaseBySpine
  <2>7. QED
    BY <1>3, <2>2, <2>5, <2>6 DEF Maps, Abstract!Next, Abstract!Send
<1>10. QED
  BY <1>6, <1>7, <1>8, <1>9 DEF StartKeepAlive

\* Every step is one of SessionOutcome, or leaves its state alone.
LEMMA StepMaps == IInv /\ IInv' /\ [Next]_vars => Maps
<1> SUFFICES ASSUME IInv, IInv', [Next]_vars PROVE Maps
  OBVIOUS
<1>1. CASE ~Quiet'
  <2>1. Phase' = "disturbed" /\ Count' = 0
    BY <1>1 DEF Phase, Count
  <2>2. CASE Phase = "disturbed"
    BY <2>1, <2>2 DEF Maps, Count, Abstract!vars
  <2>3. CASE Phase # "disturbed"
    BY <2>1, <2>3 DEF Maps, Count, Abstract!Next, Abstract!Disturb
  <2>4. QED
    BY <2>2, <2>3
<1>2. CASE Quiet'
  <2>1. Quiet
    BY <1>2, QuietPast
  <2>2. CASE unRegister
    BY <1>2, <2>2, IInvParts DEF unRegister, Quiet
  <2>3. CASE Expire \/ UNCHANGED vars
    <3>1. starts' = starts /\ pc' = pc /\ kas' = kas /\ hctx' = hctx /\ ctx' = ctx
      BY <2>3 DEF Expire, vars, holderVars, stackVars, jniVars
    <3>2. Pending' <=> Pending
      BY <3>1 DEF Pending
    <3>3. Unanswered' = Unanswered
      BY <3>1, <3>2 DEF Unanswered
    <3>4. Silent
      BY <3>1, <3>3 DEF Silent
    <3>5. QED
      BY <1>2, <2>1, <3>4, SilentMaps
  <2>4. ASSUME NEW t \in Thread,
               registerSip(t) \/ Register(t) \/ ProcessEvent(t) \/ Restart(t) \/ StartKeepAlive(t)
        PROVE  Maps
    BY <1>2, <2>1, <2>4, registerSipMaps, RegisterMaps, ProcessEventMaps, RestartMaps,
       StartKeepAliveMaps
  <2>5. QED
    BY <2>2, <2>3, <2>4 DEF Next
<1>3. QED
  BY <1>1, <1>2

(***************************************************************************)
(* The threads of gb_lib.cpp keep the promise of SessionOutcome, however   *)
(* many there are and whatever the limit and the width of the counter: an  *)
(* undisturbed session gives up at Limit + 1 unanswered Keepalives and no  *)
(* sooner, always registers again, and ends only in a failed init.         *)
(***************************************************************************)
THEOREM SessionKept == Spec => KeepsSession
<1>1. Init => Abstract!Init
  <2> SUFFICES ASSUME Init PROVE Abstract!Init
    OBVIOUS
  <2>1. Quiet /\ \A t \in Thread : ~Spine(t)
    BY DEF Init, Quiet, Spine, KeepAlive, Registering, Teardown
  <2>2. Phase = "off"
    BY <2>1, NoSpinePhase DEF Init
  <2>3. QED
    BY <2>2 DEF Abstract!Init
<1>2. IInv /\ IInv' /\ [Next]_vars => [Abstract!Next]_(Abstract!vars)
  BY StepMaps DEF Maps
<1>3. QED
  BY <1>1, <1>2, Inductive, PTL DEF Spec, KeepsSession, Abstract!Spec

=============================================================================
