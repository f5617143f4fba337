----------------------------- MODULE GbSession -----------------------------
(***************************************************************************)
(* The registration session of the SIP client in anySipClient/src/main/cpp *)
(* (gb_lib.cpp and the JNI entry points of anySipClient.cpp): who owns the *)
(* one global SipHolder, who drives its eXosip context, and what the       *)
(* counter of unanswered Keepalive messages makes the threads do.          *)
(*                                                                         *)
(* Three kinds of thread share the globals sipHolder, wait_count and       *)
(* keep_alive_thread without a lock:                                       *)
(*   - the thread started by registerSip, which registers and then runs    *)
(*     the event loop;                                                     *)
(*   - a keep-alive thread, started by every successful registration,      *)
(*     which after Limit + 1 unanswered messages tears the stack down and  *)
(*     becomes the registering, then the event loop thread itself;         *)
(*   - the Java thread that calls registerSip and unRegister.              *)
(* The code never stops a thread: pthread_kill(thread, 0) sends nothing.   *)
(*                                                                         *)
(* An eXosip context is a number 1..MaxCtx; 0 is the null pointer.  What   *)
(* the program does with a context after eXosip_quit, or with a SipHolder  *)
(* after delete, is undefined in C++: a read of freed memory returns any   *)
(* value where it is tested and the old one where it is a pointer that is  *)
(* followed, and a call on a context that was quit has no effect.  The     *)
(* other outcome, an abort of the process, ends the behaviour and so adds  *)
(* nothing to the states reached.                                          *)
(***************************************************************************)
EXTENDS Integers, FiniteSets

CONSTANTS
  Thread,     \* identities of native threads; a thread that exits is reused
  NoThread,   \* the null pthread_t
  Limit,      \* wait_count++ > Limit gives up (8 in the code)
  Wrap,       \* wait_count is an unsigned int: arithmetic modulo Wrap
  MaxCtx,     \* bound: eXosip contexts created
  MaxStart,   \* bound: calls of registerSip
  MaxRelease, \* bound: EXOSIP_CALL_RELEASED events
  MaxOut      \* bound: Keepalive messages without an answer on one context

ASSUME ThreadAssumption == NoThread \notin Thread /\ IsFiniteSet(Thread)
ASSUME CounterAssumption == Limit \in Nat /\ Wrap \in Nat /\ Limit + 2 < Wrap
ASSUME BoundAssumption ==
  /\ MaxCtx \in Nat /\ MaxStart \in Nat /\ MaxRelease \in Nat
  /\ MaxOut \in Nat /\ MaxOut > Limit + 1

VARIABLES
  holder,            \* the SipHolder sipHolder points to: null, alloc or freed
  hctx,              \* sipHolder->eXosipContext
  wait,              \* sipHolder->wait
  mSipCallback,      \* sipHolder->mSipCallback: number of the listener
  ctxs,              \* contexts created so far
  live,              \* contexts initialised and not yet quit
  wait_count,        \* the global counter of unanswered Keepalives
  keep_alive_thread, \* the global thread handle
  pthread,           \* pthread # NULL in anySipClient.cpp
  pc,                \* where each thread is
  ctx,               \* the context argument of the function a thread runs
  cb,                \* the local callBack of a thread that restarts the stack
  seen,              \* the value of wait_count a thread has loaded
  regs,              \* REGISTER requests in flight on each context
  kas,               \* Keepalive messages not answered on each context
  bound,             \* the server holds a registration of this device
  starts,            \* calls of registerSip so far
  deleted,           \* listeners deleted by unRegister
  unregs,            \* calls of unRegister so far
  releases,          \* EXOSIP_CALL_RELEASED events so far
  raced              \* two unsynchronised updates of wait_count overlapped

holderVars == <<holder, hctx, wait, mSipCallback>>
stackVars  == <<ctxs, live, regs, kas>>
jniVars    == <<pthread, starts, deleted, unregs>>
countVars  == <<wait_count, raced>>
vars == <<holderVars, stackVars, jniVars, countVars, keep_alive_thread,
          pc, ctx, cb, seen, bound, releases>>

Ctx == 1..MaxCtx

Registering == {"start", "new", "init", "send", "reg", "pollStore"}
Teardown    == {"quit", "delete"}
Looping     == {"loop", "event", "ansStore"}
KeepAlive   == {"ka", "kaStore", "kaSleep", "kaWake"}
Storing     == {"pollStore", "ansStore", "kaStore"}
PC == {"idle", "enter"} \cup Registering \cup Teardown \cup Looping \cup KeepAlive

RegisterKind == {"plain", "auth"}

-----------------------------------------------------------------------------
Init ==
  /\ holder = "null" /\ hctx = 0 /\ wait = FALSE /\ mSipCallback = 0
  /\ ctxs = 0 /\ live = {}
  /\ regs = [c \in Ctx |-> {}] /\ kas = [c \in Ctx |-> 0]
  /\ wait_count = 0 /\ raced = FALSE
  /\ keep_alive_thread = NoThread /\ pthread = FALSE
  /\ pc = [t \in Thread |-> "idle"]
  /\ ctx = [t \in Thread |-> 0] /\ cb = [t \in Thread |-> 0]
  /\ seen = [t \in Thread |-> 0]
  /\ bound = FALSE /\ starts = 0 /\ deleted = {} /\ unregs = 0 /\ releases = 0

Goto(t, l) == pc' = [pc EXCEPT ![t] = l]

(***************************************************************************)
(* ++ and -- on the plain unsigned int wait_count are a load and a store   *)
(* modulo Wrap.  The test of the loaded value is the one that gives up.    *)
(***************************************************************************)
Inc(v) == IF v = Wrap - 1 THEN 0 ELSE v + 1
\* Faulty variant: a counter that is allowed to go below zero.
DecSigned(v) == v - 1

Dec(v) == IF v = 0 THEN Wrap - 1 ELSE v - 1

\* Faulty variant: the test never succeeds.
NeverGivesUp(v) == FALSE

GivesUp(v) == v > Limit

Load(t) == seen' = [seen EXCEPT ![t] = wait_count]

Store(t, v) ==
  /\ wait_count' = v
  /\ seen' = [seen EXCEPT ![t] = 0]
  /\ raced' = (raced \/ \E u \in Thread \ {t} : pc[u] \in Storing)

\* Faulty variant: the requests are dropped, the context stays up.
QuitLeavesContext(c) ==
  /\ live' = live
  /\ regs' = [d \in Ctx |-> IF d = c THEN {} ELSE regs[d]]
  /\ kas' = [d \in Ctx |-> IF d = c THEN 0 ELSE kas[d]]

\* eXosip_quit: the context is gone and every transaction on it.
Quit(c) ==
  /\ live' = live \ {c}
  /\ regs' = [d \in Ctx |-> IF d = c THEN {} ELSE regs[d]]
  /\ kas' = [d \in Ctx |-> IF d = c THEN 0 ELSE kas[d]]

(***************************************************************************)
(* The Java side.                                                          *)
(***************************************************************************)
registerSip(t) ==
  /\ pc[t] = "idle" /\ starts < MaxStart
  /\ Goto(t, "start")
  /\ starts' = starts + 1 /\ pthread' = TRUE
  /\ UNCHANGED <<holderVars, stackVars, countVars, deleted, unregs,
                 keep_alive_thread, ctx, cb, seen, bound, releases>>

unRegister ==
  /\ pthread /\ holder # "null"
  /\ pthread' = FALSE /\ unregs' = unregs + 1
  /\ Quit(hctx)
  /\ wait' = FALSE
  /\ deleted' = deleted \cup {mSipCallback}
  /\ UNCHANGED <<holder, hctx, mSipCallback, ctxs, countVars, starts,
                 keep_alive_thread, pc, ctx, cb, seen, bound, releases>>

(***************************************************************************)
(* dt_eXosip_rigister: a new holder, its context, dt_eXosip_init.          *)
(***************************************************************************)
NewHolder(t) ==
  /\ pc[t] \in {"start", "new"}
  /\ holder' = "alloc" /\ hctx' = 0 /\ wait' = FALSE
  /\ mSipCallback' = IF pc[t] = "start" THEN starts ELSE cb[t]
  /\ cb' = [cb EXCEPT ![t] = 0]
  /\ Goto(t, "init")
  /\ UNCHANGED <<stackVars, jniVars, countVars, keep_alive_thread,
                 ctx, seen, bound, releases>>

InitContext(t) ==
  /\ pc[t] = "init" /\ ctxs < MaxCtx
  /\ ctxs' = ctxs + 1 /\ hctx' = ctxs + 1
  /\ \/ /\ live' = live \cup {ctxs + 1}
        /\ ctx' = [ctx EXCEPT ![t] = ctxs + 1]
        /\ Goto(t, "send")
     \/ \* eXosip_init or eXosip_listen_addr failed: return -1, the thread ends
        /\ ctx' = [ctx EXCEPT ![t] = 0]
        /\ Goto(t, "idle")
        /\ UNCHANGED live
  /\ UNCHANGED <<holder, wait, mSipCallback, regs, kas, jniVars, countVars,
                 keep_alive_thread, cb, seen, bound, releases>>

(***************************************************************************)
(* dt_eXosip_register.  A request that cannot be built or sent is retried  *)
(* after a sleep, for ever: the thread stays at "send".                    *)
(***************************************************************************)
SendRegister(t) ==
  /\ pc[t] = "send" /\ ctx[t] \in live
  /\ regs' = [regs EXCEPT ![ctx[t]] = @ \cup {"plain"}]
  /\ Goto(t, "reg")
  /\ UNCHANGED <<holderVars, ctxs, live, kas, jniVars, countVars,
                 keep_alive_thread, ctx, cb, seen, bound, releases>>

PollLoad(t) ==
  /\ pc[t] = "reg"
  /\ Load(t)
  /\ Goto(t, "pollStore")
  /\ UNCHANGED <<holderVars, stackVars, jniVars, countVars,
                 keep_alive_thread, ctx, cb, bound, releases>>

PollStore(t) ==
  /\ pc[t] = "pollStore"
  /\ \/ /\ GivesUp(seen[t])
        /\ Store(t, 0)
        /\ Goto(t, "send")
     \/ /\ ~GivesUp(seen[t])
        /\ Store(t, Inc(seen[t]))
        /\ Goto(t, "reg")
  /\ UNCHANGED <<holderVars, stackVars, jniVars,
                 keep_alive_thread, ctx, cb, bound, releases>>

Answered(t, k) ==
  /\ pc[t] = "reg" /\ ctx[t] \in live /\ k \in regs[ctx[t]]

\* Faulty variants of a successful registration: the counter is not reset, and
\* the polling loop is not left.
RegSuccessNoReset(t, u) ==
  \E k \in RegisterKind :
    /\ Answered(t, k)
    /\ pc[u] = "idle"
    /\ regs' = [regs EXCEPT ![ctx[t]] = @ \ {k}]
    /\ keep_alive_thread' = u
    /\ pc' = [pc EXCEPT ![t] = "enter", ![u] = "ka"]
    /\ bound' = TRUE
    /\ UNCHANGED <<holderVars, ctxs, live, kas, jniVars, countVars, ctx, cb,
                   seen, releases>>

RegSuccessNoBreak(t, u) ==
  \E k \in RegisterKind :
    /\ Answered(t, k)
    /\ pc[u] = "idle"
    /\ regs' = [regs EXCEPT ![ctx[t]] = @ \ {k}]
    /\ Store(t, 0)
    /\ keep_alive_thread' = u
    /\ pc' = [pc EXCEPT ![u] = "ka"]
    /\ bound' = TRUE
    /\ UNCHANGED <<holderVars, ctxs, live, kas, jniVars, ctx, cb, releases>>

RegSuccess(t, u) ==
  \E k \in RegisterKind :
    /\ Answered(t, k)
    /\ pc[u] = "idle"
    /\ regs' = [regs EXCEPT ![ctx[t]] = @ \ {k}]
    /\ Store(t, 0)
    /\ keep_alive_thread' = u
    /\ pc' = [pc EXCEPT ![t] = "enter", ![u] = "ka"]
    /\ bound' = TRUE
    /\ UNCHANGED <<holderVars, ctxs, live, kas, jniVars, ctx, cb, releases>>

RegUnauthorized(t) ==
  \E k \in RegisterKind :
    /\ Answered(t, k)
    /\ \/ /\ regs' = [regs EXCEPT ![ctx[t]] = (@ \ {k}) \cup {"auth"}]
          /\ UNCHANGED pc
       \/ /\ regs' = [regs EXCEPT ![ctx[t]] = @ \ {k}]
          /\ Goto(t, "send")
    /\ UNCHANGED <<holderVars, ctxs, live, kas, jniVars, countVars,
                   keep_alive_thread, ctx, cb, seen, bound, releases>>

RegProxyAuth(t) ==
  \E k \in RegisterKind :
    /\ Answered(t, k)
    /\ regs' = [regs EXCEPT ![ctx[t]] = @ \ {k}]
    /\ UNCHANGED <<holderVars, ctxs, live, kas, jniVars, countVars, pc,
                   keep_alive_thread, ctx, cb, seen, bound, releases>>

\* Faulty variant: a refusal ends the registration instead of retrying it.
RegRefusedReturns(t) ==
  \E k \in RegisterKind :
    /\ Answered(t, k)
    /\ regs' = [regs EXCEPT ![ctx[t]] = @ \ {k}]
    /\ Goto(t, "idle")
    /\ UNCHANGED <<holderVars, ctxs, live, kas, jniVars, countVars,
                   keep_alive_thread, ctx, cb, seen, bound, releases>>

RegRefused(t) ==
  \E k \in RegisterKind :
    /\ Answered(t, k)
    /\ regs' = [regs EXCEPT ![ctx[t]] = @ \ {k}]
    /\ Goto(t, "send")
    /\ UNCHANGED <<holderVars, ctxs, live, kas, jniVars, countVars,
                   keep_alive_thread, ctx, cb, seen, bound, releases>>

\* Any other event is read by the registration loop and dropped; the one that
\* matters is the answer to a Keepalive another thread has sent.
RegDropAnswer(t) ==
  /\ pc[t] = "reg" /\ ctx[t] \in live
  /\ kas[ctx[t]] > 0 /\ bound
  /\ kas' = [kas EXCEPT ![ctx[t]] = @ - 1]
  /\ UNCHANGED <<holderVars, ctxs, live, regs, jniVars, countVars, pc,
                 keep_alive_thread, ctx, cb, seen, bound, releases>>

EnterLoop(t) ==
  /\ pc[t] = "enter"
  /\ wait' = TRUE
  /\ ctx' = [ctx EXCEPT ![t] = hctx]
  /\ Goto(t, "loop")
  /\ UNCHANGED <<holder, hctx, mSipCallback, stackVars, jniVars, countVars,
                 keep_alive_thread, cb, seen, bound, releases>>

(***************************************************************************)
(* dt_eXosip_processEvent: the test of sipHolder->wait, then one event.    *)
(***************************************************************************)
LoopTest(t) ==
  /\ pc[t] = "loop"
  /\ \/ /\ wait \/ holder = "freed"
        /\ Goto(t, "event")
        /\ UNCHANGED ctx
     \/ /\ ~wait \/ holder = "freed"
        /\ Goto(t, "idle")
        /\ ctx' = [ctx EXCEPT ![t] = 0]
  /\ UNCHANGED <<holderVars, stackVars, jniVars, countVars,
                 keep_alive_thread, cb, seen, bound, releases>>

EventNone(t) ==
  /\ pc[t] = "event"
  /\ Goto(t, "loop")
  /\ UNCHANGED <<holderVars, stackVars, jniVars, countVars,
                 keep_alive_thread, ctx, cb, seen, bound, releases>>

\* The answer to a REGISTER an earlier retry left in flight: the loop drops it,
\* whether the server accepted the request or not.
LateRegister(t) ==
  /\ pc[t] = "event" /\ ctx[t] \in live
  /\ \E k \in regs[ctx[t]] : regs' = [regs EXCEPT ![ctx[t]] = @ \ {k}]
  /\ bound' \in {bound, TRUE}
  /\ Goto(t, "loop")
  /\ UNCHANGED <<holderVars, ctxs, live, kas, jniVars, countVars,
                 keep_alive_thread, ctx, cb, seen, releases>>

\* The server answers a Keepalive only while it holds the registration.
MessageAnswered(t) ==
  /\ pc[t] = "event" /\ ctx[t] \in live
  /\ kas[ctx[t]] > 0 /\ bound
  /\ kas' = [kas EXCEPT ![ctx[t]] = @ - 1]
  /\ Load(t)
  /\ Goto(t, "ansStore")
  /\ UNCHANGED <<holderVars, ctxs, live, regs, jniVars, countVars,
                 keep_alive_thread, ctx, cb, bound, releases>>

AnswerStore(t) ==
  /\ pc[t] = "ansStore"
  /\ Store(t, Dec(seen[t]))
  /\ Goto(t, "loop")
  /\ UNCHANGED <<holderVars, stackVars, jniVars,
                 keep_alive_thread, ctx, cb, bound, releases>>

CallReleased(t) ==
  /\ pc[t] = "event" /\ ctx[t] \in live
  /\ releases < MaxRelease
  /\ releases' = releases + 1
  /\ Goto(t, "quit")
  /\ UNCHANGED <<holderVars, stackVars, jniVars, countVars,
                 keep_alive_thread, ctx, cb, seen, bound>>

(***************************************************************************)
(* Teardown before a restart, by the event loop or a keep-alive thread.    *)
(***************************************************************************)
QuitContext(t) ==
  /\ pc[t] = "quit"
  /\ cb' = [cb EXCEPT ![t] = mSipCallback]
  /\ \/ Quit(hctx)
     \/ holder = "freed" /\ UNCHANGED <<live, regs, kas>>
  /\ ctx' = [ctx EXCEPT ![t] = 0]
  /\ Goto(t, "delete")
  /\ UNCHANGED <<holderVars, ctxs, jniVars, countVars,
                 keep_alive_thread, seen, bound, releases>>

DeleteHolder(t) ==
  /\ pc[t] = "delete"
  /\ holder' = "freed"
  /\ Goto(t, "new")
  /\ UNCHANGED <<hctx, wait, mSipCallback, stackVars, jniVars, countVars,
                 keep_alive_thread, ctx, cb, seen, bound, releases>>

(***************************************************************************)
(* startKeepAlive.                                                         *)
(***************************************************************************)
KaLoad(t) ==
  /\ pc[t] = "ka"
  /\ \/ /\ hctx # 0 \/ holder = "freed"
        /\ Load(t)
        /\ Goto(t, "kaStore")
     \/ /\ hctx = 0 \/ holder = "freed"
        /\ Goto(t, "idle")
        /\ UNCHANGED seen
  /\ UNCHANGED <<holderVars, stackVars, jniVars, countVars,
                 keep_alive_thread, ctx, cb, bound, releases>>

\* Faulty variant: the thread that has given up ends.
KaStoreEnds(t) ==
  /\ pc[t] = "kaStore"
  /\ Store(t, Inc(seen[t]))
  /\ Goto(t, IF GivesUp(seen[t]) THEN "idle" ELSE "kaSleep")
  /\ UNCHANGED <<holderVars, stackVars, jniVars,
                 keep_alive_thread, ctx, cb, bound, releases>>

KaStore(t) ==
  /\ pc[t] = "kaStore"
  /\ Store(t, Inc(seen[t]))
  /\ Goto(t, IF GivesUp(seen[t]) THEN "quit" ELSE "kaSleep")
  /\ UNCHANGED <<holderVars, stackVars, jniVars,
                 keep_alive_thread, ctx, cb, bound, releases>>

\* sleep(40): long enough for the thread whose registration has just succeeded
\* to take the few instructions to its event loop.
KaSleep(t) ==
  /\ pc[t] = "kaSleep"
  /\ \A u \in Thread : pc[u] # "enter"
  /\ Goto(t, "kaWake")
  /\ UNCHANGED <<holderVars, stackVars, jniVars, countVars,
                 keep_alive_thread, ctx, cb, seen, bound, releases>>

KaSend(t) ==
  /\ pc[t] = "kaWake"
  /\ \/ /\ hctx \in live
        /\ kas' = [kas EXCEPT ![hctx] = IF @ < MaxOut THEN @ + 1 ELSE @]
     \/ /\ hctx \notin live \/ holder = "freed"
        /\ UNCHANGED kas
  /\ Goto(t, "ka")
  /\ UNCHANGED <<holderVars, ctxs, live, regs, jniVars, countVars,
                 keep_alive_thread, ctx, cb, seen, bound, releases>>

(***************************************************************************)
(* The registration is for 3600 s and nothing refreshes it.                *)
(***************************************************************************)
Expire ==
  /\ bound /\ bound' = FALSE
  /\ UNCHANGED <<holderVars, stackVars, jniVars, countVars,
                 keep_alive_thread, pc, ctx, cb, seen, releases>>

Register(t) ==
  \/ NewHolder(t) \/ InitContext(t) \/ SendRegister(t)
  \/ PollLoad(t) \/ PollStore(t)
  \/ \E u \in Thread : RegSuccess(t, u)
  \/ RegUnauthorized(t) \/ RegProxyAuth(t) \/ RegRefused(t) \/ RegDropAnswer(t)
  \/ EnterLoop(t)
ProcessEvent(t) ==
  \/ LoopTest(t) \/ EventNone(t) \/ LateRegister(t)
  \/ MessageAnswered(t) \/ AnswerStore(t) \/ CallReleased(t)
Restart(t) == QuitContext(t) \/ DeleteHolder(t)
StartKeepAlive(t) == KaLoad(t) \/ KaStore(t) \/ KaSleep(t) \/ KaSend(t)

Next ==
  \/ unRegister \/ Expire
  \/ \E t \in Thread :
       registerSip(t) \/ Register(t) \/ ProcessEvent(t) \/ Restart(t) \/ StartKeepAlive(t)

Spec == Init /\ [][Next]_vars

(***************************************************************************)
(* Fairness: the scheduler runs every thread that can run, and sleeps end. *)
(* ServerAnswers is the assumption about the server: it does not refuse or *)
(* ignore REGISTER requests for ever.                                      *)
(***************************************************************************)
ThreadsRun ==
  \A t \in Thread :
    WF_vars(Register(t) \/ ProcessEvent(t) \/ Restart(t) \/ StartKeepAlive(t))

ServerAnswers == \A t \in Thread : SF_vars(\E u \in Thread : RegSuccess(t, u))

FairSpec == Spec /\ ThreadsRun

ServedSpec == FairSpec /\ ServerAnswers

-----------------------------------------------------------------------------
\* Every variable has its type.
TypeOK ==
  /\ holder \in {"null", "alloc", "freed"} /\ hctx \in 0..MaxCtx
  /\ wait \in BOOLEAN /\ mSipCallback \in 0..MaxStart
  /\ ctxs \in 0..MaxCtx /\ live \subseteq Ctx
  /\ wait_count \in 0..(Wrap - 1) /\ raced \in BOOLEAN
  /\ keep_alive_thread \in Thread \cup {NoThread} /\ pthread \in BOOLEAN
  /\ pc \in [Thread -> PC] /\ ctx \in [Thread -> 0..MaxCtx]
  /\ cb \in [Thread -> 0..MaxStart] /\ seen \in [Thread -> 0..(Wrap - 1)]
  /\ regs \in [Ctx -> SUBSET RegisterKind] /\ kas \in [Ctx -> 0..MaxOut]
  /\ bound \in BOOLEAN /\ starts \in 0..MaxStart /\ deleted \subseteq 0..MaxStart
  /\ unregs \in Nat /\ releases \in 0..MaxRelease

(***************************************************************************)
(* The undisturbed session: so far at most one registerSip, no unRegister, *)
(* no released call, and no two overlapping updates of wait_count.  Lost   *)
(* answers, refusals, retries, restarts by the keep-alive thread and the   *)
(* old event loop that outlives them are all part of it.                   *)
(***************************************************************************)
Quiet == starts <= 1 /\ unregs = 0 /\ releases = 0 /\ ~raced

Beating(t) == pc[t] \in KeepAlive

Driving(t) == pc[t] \in {"enter"} \cup Looping /\ ctx[t] \in live

\* A Keepalive is unanswered until the event loop has stored the decrement.
Pending == \E t \in Thread : pc[t] = "ansStore" /\ ctx[t] = hctx

Unanswered == kas[hctx] + (IF Pending THEN 1 ELSE 0)

\* wait_count is raised before the sleep, the message leaves after it.
Ahead == \E t \in Thread : pc[t] \in {"kaSleep", "kaWake"}

(***************************************************************************)
(* While the session is undisturbed the thread handle names the only       *)
(* keep-alive thread, although no thread is ever stopped: the old one has  *)
(* turned into the registering thread before the next is created.          *)
(***************************************************************************)
OneKeepAlive ==
  Quiet => \A t \in Thread : Beating(t) => t = keep_alive_thread

(***************************************************************************)
(* While the session is undisturbed a context has one thread that reads    *)
(* its events, and a context the current SipHolder does not own is dead:   *)
(* the loop a restart leaves behind can only spin.                         *)
(***************************************************************************)
SingleDriver ==
  Quiet => /\ \A t, u \in Thread : Driving(t) /\ Driving(u) => t = u
           /\ live \subseteq {hctx}

(***************************************************************************)
(* While the session is undisturbed and a keep-alive thread runs, the      *)
(* counter is exactly the number of Keepalives of this registration that   *)
(* no answer has been counted for, plus the one about to be sent: it never *)
(* wraps below zero, and no registration poll leaks into it.               *)
(***************************************************************************)
Accounting ==
  Quiet => \A t \in Thread : Beating(t) =>
    wait_count = Unanswered + (IF Ahead THEN 1 ELSE 0)

\* What the phases of SessionOutcome are here, by the thread that beats,
\* registers or restarts.
Phase ==
  IF ~Quiet THEN "disturbed"
  ELSE IF \E t \in Thread : Beating(t) THEN "online"
  ELSE IF \E t \in Thread : pc[t] \in Registering THEN "registering"
  ELSE IF \E t \in Thread : pc[t] \in Teardown THEN "restarting"
  ELSE IF starts = 0 THEN "off" ELSE "down"

Abstract == INSTANCE SessionOutcome WITH
  phase <- Phase, unanswered <- IF Phase = "online" THEN Unanswered ELSE 0

(***************************************************************************)
(* The session keeps the promise of SessionOutcome: every step of a thread *)
(* is a step of it or leaves its state alone.  So a session ends only when *)
(* InitContext fails: then no thread is left to try again (return -1).     *)
(***************************************************************************)
KeepsSession == Abstract!Spec

(***************************************************************************)
(* Whatever happens, the threads that beat, register or restart are at     *)
(* most one per registerSip and one more per released call: a restart by a *)
(* keep-alive thread adds none, a restart by the event loop leaves the old *)
(* keep-alive thread running for good.                                     *)
(***************************************************************************)
LeakBound ==
  Cardinality({t \in Thread : pc[t] \in KeepAlive \cup Registering \cup Teardown})
    <= starts + releases

(***************************************************************************)
(* The server losing the registration is noticed: the keep-alive thread    *)
(* ends the use of the context (unless the server has the device again).   *)
(***************************************************************************)
LapseNoticed ==
  \A c \in Ctx :
    (hctx = c /\ c \in live /\ ~bound /\ \E t \in Thread : Beating(t))
      ~> (bound \/ hctx # c \/ c \notin live)

(***************************************************************************)
(* Registration is retried for ever: a thread that sends REGISTER on a     *)
(* live context gets to its event loop once the server accepts one.        *)
(***************************************************************************)
RegistrationRetried ==
  \A t \in Thread :
    (pc[t] = "send" /\ ctx[t] \in live) ~> (pc[t] = "enter" \/ ctx[t] \notin live)

(***************************************************************************)
(* dt_eXosip_unregister is documented as deregistering eXosip: once it has *)
(* been called for every registerSip no context is up.                     *)
(***************************************************************************)
UnregisterIsFinal == starts > 0 /\ unregs = starts => live = {}

=============================================================================
