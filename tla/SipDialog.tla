------------------------------ MODULE SipDialog ------------------------------
(***************************************************************************)
(* A call of the Java SIP stack of the app (GB28181/sip and GB28181/ua),   *)
(* from the INVITE to the answered BYE: UserAgent and Call on top,         *)
(* InviteDialog below, and the transactions with their timers.  Both ends  *)
(* run this code.  The caller makes one call; the callee listens, answers  *)
(* with one dialog, and listens again with the next one.                   *)
(*                                                                         *)
(* Three threads act at each end: the one that receives messages, the one  *)
(* that runs the timers, and the user's, which hangs up.  A handler of the *)
(* first two is a step; UserAgent.hangup is three.                         *)
(*                                                                         *)
(* The network loses, repeats, delays and reorders: net is every message   *)
(* ever sent, a message may be received at any time, again, or never.  So  *)
(* a retransmission, which sends what is in net already, changes nothing,  *)
(* and neither does a repeated message that a transaction absorbs.         *)
(*                                                                         *)
(* A dialog of the callee is its number, which stands for the tag of its   *)
(* responses; the caller's dialog is Out.                                  *)
(***************************************************************************)
EXTENDS Naturals, FiniteSets

CONSTANT MaxIncoming  \* bound: times the callee takes the INVITE for a new call

ASSUME IncomingAssumption == MaxIncoming \in Nat \ {0}

Out == 0
In == 1..MaxIncoming
Dialog == {Out} \cup In

VARIABLES
  net,         \* messages sent
  status,      \* InviteDialog.status of each dialog
  invite_tc,   \* the caller's InviteTransactionClient
  invite_ts,   \* the callee's InviteTransactionServers
  armed,       \* timers started and not halted
  firing,      \* timers whose task has passed its test of active
  call_state,  \* UserAgent.call_state of each end
  call,        \* the dialogs of the calls that are their UserAgent's call
  user,        \* where the user's thread is in hangup
  remote_tag,  \* the callee's dialog the caller's is connected to
  told,        \* history: callbacks of each dialog that say how it went
  hung         \* history: dialogs hung up by the user

uaVars == <<call_state, call>>
txVars == <<invite_tc, invite_ts>>
timerVars == <<armed, firing>>
historyVars == <<told, hung>>
vars == <<net, status, txVars, timerVars, uaVars, user, remote_tag, historyVars>>

Ends == {"caller", "callee"}
End(d) == IF d = Out THEN "caller" ELSE "callee"

Status == {"Init", "Waiting", "Inviting", "Invited", "Refused", "Accepted",
           "Call", "Byeing", "Close"}
ClientState == {"Idle", "Trying", "Proceeding", "Completed", "Terminated"}
ServerState == {"Waiting", "Proceeding", "Completed", "Confirmed", "Terminated"}

\* Timers: transaction_to and end_to of the INVITE and transaction_to of the
\* BYE at either end, and transaction_to of the AckTransactionServer (ack).
Timer == {"transaction", "end", "bye", "ack", "clearing"} \X Dialog

\* A message: its kind, the dialog that sent it and the callee's tag in it.
Kinds == {"INVITE", "CANCEL", "1xx", "2xx", "failure", "ACK", "ACK 2xx", "BYE", "200 BYE"}
Message == [kind : Kinds, from : Dialog, tag : Dialog]
Msg(kind, from, tag) == [kind |-> kind, from |-> from, tag |-> tag]
Send(ms) == net' = net \cup ms

Outcome == {"accepted", "refused", "timeout"}

Init ==
  /\ net = {}
  /\ status = [d \in Dialog |-> IF d = 1 THEN "Waiting" ELSE "Init"]
  /\ invite_tc = "Idle" /\ invite_ts = [d \in In |-> "Waiting"]
  /\ armed = {} /\ firing = {}
  /\ call_state = [e \in Ends |-> "Idle"] /\ call = {1}
  /\ user = [e \in Ends |-> "none"]
  /\ remote_tag = Out
  /\ told = [d \in Dialog |-> {}] /\ hung = {}

(***************************************************************************)
(* What several handlers do.                                               *)
(***************************************************************************)
Tell(d, what) == told' = [told EXCEPT ![d] = @ \cup {what}]

\* The dialog of the callee that its next listen() creates.
Fresh(d) == IF d = Out THEN {} ELSE {d + 1} \cap In

\* listen(): a new Call in place of that of d.
Renewed(d, st) == [x \in Dialog |-> IF x \in Fresh(d) THEN "Waiting" ELSE st[x]]
Replaced(d) == (call \ {d}) \cup Fresh(d)

\* The dialog d gets the status st and its UserAgent, if d is its call, is
\* idle: Receiver.onState then listens, unless it was idle already.
Settle(d, st) ==
  LET now == [status EXCEPT ![d] = st]
  IN  IF d \in call /\ call_state[End(d)] # "Idle"
      THEN /\ call_state' = [call_state EXCEPT ![End(d)] = "Idle"]
           /\ call' = Replaced(d) /\ status' = Renewed(d, now)
      ELSE status' = now /\ UNCHANGED uaVars

\* Call.hangup: refuse, cancel and bye, of which at most one acts on a dialog
\* whose status is st.
HungStatus(st) == CASE st = "Invited" -> "Refused" [] st = "Call" -> "Byeing" [] OTHER -> st
HungServer(st, ts) ==
  CASE st = "Invited" -> "Completed" [] st = "Waiting" -> "Terminated" [] OTHER -> ts
HungTimer(d, st) ==
  CASE st = "Invited" -> {<<"end", d>>} [] st = "Call" -> {<<"bye", d>>} [] OTHER -> {}
HungMessage(d, st) ==
  CASE st = "Invited" -> {Msg("failure", d, d)}
    [] st = "Inviting" -> {Msg("CANCEL", d, Out)}
    [] st = "Call" -> {Msg("BYE", d, IF d = Out THEN remote_tag ELSE d)}
    [] OTHER -> {}

HangUp(d) ==
  /\ status' = [status EXCEPT ![d] = HungStatus(@)]
  /\ invite_ts' = [x \in In |-> IF x = d THEN HungServer(status[d], invite_ts[x]) ELSE invite_ts[x]]
  /\ armed' = armed \cup HungTimer(d, status[d])
  /\ Send(HungMessage(d, status[d]))

(***************************************************************************)
(* The caller.                                                             *)
(***************************************************************************)
\* UserAgent.call
Invite ==
  /\ status[Out] = "Init"
  /\ status' = [status EXCEPT ![Out] = "Inviting"]
  /\ invite_tc' = "Trying" /\ armed' = armed \cup {<<"transaction", Out>>}
  /\ Send({Msg("INVITE", Out, Out)})
  /\ call_state' = [call_state EXCEPT !["caller"] = "Outgoing"] /\ call' = call \cup {Out}
  /\ UNCHANGED <<invite_ts, firing, user, remote_tag, historyVars>>

\* The transaction has no timer from here on.
Provisional(d) ==
  /\ Msg("1xx", d, d) \in net
  /\ invite_tc = "Trying"
  /\ invite_tc' = "Proceeding" /\ armed' = armed \ {<<"transaction", Out>>}
  /\ UNCHANGED <<net, status, invite_ts, firing, uaVars, user, remote_tag, historyVars>>

\* The dialog is inviting as long as its transaction is pending.
Pending == invite_tc \in {"Trying", "Proceeding"} /\ status[Out] = "Inviting"

\* Faulty variant: the UserAgent does not look whether it still waits.
SuccessUnchecked(d) ==
  /\ Msg("2xx", d, d) \in net
  /\ Pending
  /\ invite_tc' = "Terminated" /\ remote_tag' = d /\ Tell(Out, "accepted")
  /\ status' = [status EXCEPT ![Out] = "Call"]
  /\ Send({Msg("ACK 2xx", Out, d)})
  /\ armed' = armed \ {<<"transaction", Out>>}
  /\ call_state' = IF Out \in call THEN [call_state EXCEPT !["caller"] = "InCall"] ELSE call_state
  /\ UNCHANGED <<invite_ts, firing, call, user, hung>>

\* onTransSuccessResponse sends the ACK and tells the UserAgent, which hangs up
\* if it does not wait for an answer any more.
Success(d) ==
  LET gone == Out \in call /\ call_state["caller"] # "Outgoing"
  IN  /\ Msg("2xx", d, d) \in net
      /\ Pending
      /\ invite_tc' = "Terminated" /\ remote_tag' = d /\ Tell(Out, "accepted")
      /\ status' = [status EXCEPT ![Out] = IF gone THEN "Byeing" ELSE "Call"]
      /\ Send({Msg("ACK 2xx", Out, d)} \cup IF gone THEN {Msg("BYE", Out, d)} ELSE {})
      /\ armed' = (armed \ {<<"transaction", Out>>}) \cup IF gone THEN {<<"bye", Out>>} ELSE {}
      /\ call_state' = IF Out \in call /\ ~gone
                       THEN [call_state EXCEPT !["caller"] = "InCall"] ELSE call_state
      /\ UNCHANGED <<invite_ts, firing, call, user, hung>>

\* Faulty variant: a failure is looked for before the 1xx only.
FailureWhileTrying(d) ==
  /\ Msg("failure", d, d) \in net
  /\ invite_tc = "Trying" /\ status[Out] = "Inviting"
  /\ invite_tc' = "Completed"
  /\ armed' = (armed \ {<<"transaction", Out>>}) \cup {<<"end", Out>>}
  /\ Send({Msg("ACK", Out, Out)})
  /\ Settle(Out, "Close") /\ Tell(Out, "refused")
  /\ UNCHANGED <<invite_ts, firing, user, remote_tag, hung>>

Failure(d) ==
  /\ Msg("failure", d, d) \in net
  /\ Pending
  /\ invite_tc' = "Completed"
  /\ armed' = (armed \ {<<"transaction", Out>>}) \cup {<<"end", Out>>}
  /\ Send({Msg("ACK", Out, Out)})
  /\ Settle(Out, "Close") /\ Tell(Out, "refused")
  /\ UNCHANGED <<invite_ts, firing, user, remote_tag, hung>>

(***************************************************************************)
(* The callee.                                                             *)
(***************************************************************************)
\* A transaction with the id of the INVITE takes the message first.
Known == \E x \in In : invite_ts[x] \in {"Proceeding", "Completed", "Confirmed"}

\* The INVITE goes to the dialog that listens.  100 Trying is sent at once.
TakeInvite(d) ==
  /\ Msg("INVITE", Out, Out) \in net
  /\ status[d] = "Waiting" /\ invite_ts[d] = "Waiting" /\ ~Known
  /\ d \in call /\ call_state["callee"] = "Idle"
  /\ UNCHANGED <<invite_tc, firing, user, remote_tag, historyVars>>

\* UserAgent.onCallIncoming accepts at once.
Accept(d) ==
  /\ TakeInvite(d)
  /\ status' = [status EXCEPT ![d] = "Accepted"]
  /\ invite_ts' = [invite_ts EXCEPT ![d] = "Terminated"]
  /\ armed' = armed \cup {<<"ack", d>>}
  /\ Send({Msg("1xx", d, d), Msg("2xx", d, d)})
  /\ call_state' = [call_state EXCEPT !["callee"] = "Incoming"]
  /\ UNCHANGED call

\* It is busy, or has no codec in common, and listens again.
Refuse(d) ==
  /\ TakeInvite(d)
  /\ status' = Renewed(d, [status EXCEPT ![d] = "Refused"])
  /\ invite_ts' = [invite_ts EXCEPT ![d] = "Completed"]
  /\ armed' = armed \cup {<<"end", d>>}
  /\ Send({Msg("1xx", d, d), Msg("failure", d, d)})
  /\ call' = Replaced(d)
  /\ UNCHANGED call_state

\* A callee that leaves the answer to its user (Answer, or HangUpCall).
Ring(d) ==
  /\ TakeInvite(d)
  /\ status' = [status EXCEPT ![d] = "Invited"]
  /\ invite_ts' = [invite_ts EXCEPT ![d] = "Proceeding"]
  /\ Send({Msg("1xx", d, d)})
  /\ call_state' = [call_state EXCEPT !["callee"] = "Incoming"]
  /\ UNCHANGED <<armed, call>>

\* Faulty variant: the status of the dialog in place of that of the UserAgent.
AnswerWrongStatus(d) ==
  /\ d \in call /\ status[d] = "Invited"
  /\ status' = [status EXCEPT ![d] = "Accepted"]
  /\ invite_ts' = [invite_ts EXCEPT ![d] = "Terminated"]
  /\ armed' = armed \cup {<<"ack", d>>}
  /\ Send({Msg("2xx", d, d)})
  /\ call_state' = [call_state EXCEPT !["callee"] = status'[d]]
  /\ UNCHANGED <<invite_tc, firing, call, user, remote_tag, historyVars>>

\* UserAgent.accept
Answer(d) ==
  /\ d \in call /\ status[d] = "Invited"
  /\ status' = [status EXCEPT ![d] = "Accepted"]
  /\ invite_ts' = [invite_ts EXCEPT ![d] = "Terminated"]
  /\ armed' = armed \cup {<<"ack", d>>}
  /\ Send({Msg("2xx", d, d)})
  /\ call_state' = [call_state EXCEPT !["callee"] = "InCall"]
  /\ UNCHANGED <<invite_tc, firing, call, user, remote_tag, historyVars>>

\* Faulty variant: CANCEL finds a dialog that has answered, too.
CancelLate(d) ==
  /\ Msg("CANCEL", Out, Out) \in net
  /\ status[d] \in {"Invited", "Accepted"}
  /\ invite_ts' = [invite_ts EXCEPT ![d] = "Completed"]
  /\ armed' = armed \cup {<<"end", d>>}
  /\ Send({Msg("failure", d, d)})
  /\ Settle(d, "Refused")
  /\ UNCHANGED <<invite_tc, firing, user, remote_tag, historyVars>>

\* Faulty variant: the UserAgent is not told, and does not listen again.
CancelUntold(d) ==
  /\ Msg("CANCEL", Out, Out) \in net
  /\ status[d] = "Invited"
  /\ invite_ts' = [invite_ts EXCEPT ![d] = "Completed"]
  /\ armed' = armed \cup {<<"end", d>>}
  /\ Send({Msg("failure", d, d)})
  /\ status' = [status EXCEPT ![d] = "Refused"]
  /\ UNCHANGED <<invite_tc, firing, uaVars, user, remote_tag, historyVars>>

\* CANCEL finds the dialog only before it has answered: then its id has a tag.
Cancel(d) ==
  /\ Msg("CANCEL", Out, Out) \in net
  /\ status[d] = "Invited"
  /\ invite_ts' = [invite_ts EXCEPT ![d] = "Completed"]
  /\ armed' = armed \cup {<<"end", d>>}
  /\ Send({Msg("failure", d, d)})
  /\ Settle(d, "Refused")
  /\ UNCHANGED <<invite_tc, firing, user, remote_tag, historyVars>>

\* The ACK of a failure goes to the transaction ...
FailureAck(d) ==
  /\ Msg("ACK", Out, Out) \in net
  /\ invite_ts[d] = "Completed"
  /\ invite_ts' = [invite_ts EXCEPT ![d] = "Confirmed"]
  /\ armed' = (armed \ {<<"end", d>>}) \cup {<<"clearing", d>>}
  /\ status' = [status EXCEPT ![d] = "Close"]
  /\ UNCHANGED <<net, invite_tc, firing, uaVars, user, remote_tag, historyVars>>

\* Faulty variant: an ACK revives a dialog that has given up waiting for it.
AckRevives(d) ==
  /\ Msg("ACK 2xx", Out, d) \in net
  /\ status[d] \in {"Accepted", "Close"} /\ invite_ts[d] = "Terminated"
  /\ status' = [status EXCEPT ![d] = "Call"]
  /\ armed' = armed \ {<<"ack", d>>}
  /\ Tell(d, "confirmed")
  /\ UNCHANGED <<net, txVars, firing, uaVars, user, remote_tag, hung>>

\* ... and the ACK of a 2xx to the dialog.
Ack(d) ==
  /\ Msg("ACK 2xx", Out, d) \in net
  /\ status[d] = "Accepted"
  /\ status' = [status EXCEPT ![d] = "Call"]
  /\ armed' = armed \ {<<"ack", d>>}
  /\ Tell(d, "confirmed")
  /\ UNCHANGED <<net, txVars, firing, uaVars, user, remote_tag, hung>>

(***************************************************************************)
(* The end of a call, the same at both ends.                               *)
(***************************************************************************)
\* A message of the given kind from the other end to the dialog d.
From(kind, d) == IF d = Out THEN Msg(kind, remote_tag, remote_tag) ELSE Msg(kind, Out, d)

\* Faulty variant: BYE is taken only by a dialog that has sent one.
ByeWhileByeing(d) ==
  /\ From("BYE", d) \in net
  /\ status[d] = "Byeing"
  /\ Send({Msg("200 BYE", d, IF d = Out THEN remote_tag ELSE d)})
  /\ Settle(d, "Close")
  /\ UNCHANGED <<txVars, timerVars, user, remote_tag, historyVars>>

Bye(d) ==
  /\ From("BYE", d) \in net
  /\ status[d] \in {"Call", "Byeing"}
  /\ Send({Msg("200 BYE", d, IF d = Out THEN remote_tag ELSE d)})
  /\ Settle(d, "Close")
  /\ UNCHANGED <<txVars, timerVars, user, remote_tag, historyVars>>

ByeAnswered(d) ==
  /\ From("200 BYE", d) \in net
  /\ status[d] = "Byeing"
  /\ armed' = armed \ {<<"bye", d>>}
  /\ Settle(d, "Close")
  /\ UNCHANGED <<net, txVars, firing, user, remote_tag, historyVars>>

(***************************************************************************)
(* UserAgent.hangup by the user.                                           *)
(***************************************************************************)
\* call.hangup()  (bound: the user hangs up each call once)
HangUpCall(d) ==
  /\ d \in call \ hung /\ user[End(d)] = "none"
  /\ HangUp(d)
  /\ hung' = hung \cup {d}
  /\ user' = [user EXCEPT ![End(d)] = "idle"]
  /\ UNCHANGED <<invite_tc, firing, uaVars, remote_tag, told>>

\* changeStatus(UA_STATE_IDLE), which makes the engine listen: that hangs up
\* once more ...
HangUpIdle(e) ==
  /\ user[e] = "idle"
  /\ call_state' = [call_state EXCEPT ![e] = "Idle"]
  /\ \/ /\ call_state[e] = "Idle"
        /\ user' = [user EXCEPT ![e] = "none"]
        /\ UNCHANGED <<net, status, invite_ts, armed>>
     \/ /\ call_state[e] # "Idle"
        /\ user' = [user EXCEPT ![e] = "renew"]
        /\ \E d \in call : End(d) = e /\ HangUp(d)
  /\ UNCHANGED <<invite_tc, firing, call, remote_tag, historyVars>>

\* ... and then takes a new Call.
HangUpRenew(d) ==
  /\ user[End(d)] = "renew" /\ d \in call
  /\ call' = Replaced(d) /\ status' = Renewed(d, status)
  /\ user' = [user EXCEPT ![End(d)] = "none"]
  /\ UNCHANGED <<net, txVars, timerVars, call_state, remote_tag, historyVars>>

(***************************************************************************)
(* Timers.  One thread of each end runs the tasks.  A task tests whether   *)
(* its timer is active and then calls onTimeout: halt in between does not  *)
(* stop it.                                                                *)
(***************************************************************************)
Expire(t) ==
  /\ t \in armed /\ \A u \in firing : End(u[2]) # End(t[2])
  /\ armed' = armed \ {t} /\ firing' = firing \cup {t}
  /\ UNCHANGED <<net, status, txVars, uaVars, user, remote_tag, historyVars>>

Run(t) == t \in firing /\ firing' = firing \ {t}

\* Faulty variant: the listener of the transaction is not dropped.
InviteTimeoutAnyway ==
  /\ Run(<<"transaction", Out>>)
  /\ invite_tc' = "Terminated"
  /\ armed' = armed \ {<<"end", Out>>}
  /\ Send({Msg("CANCEL", Out, Out)})
  /\ Settle(Out, "Close") /\ Tell(Out, "timeout")
  /\ UNCHANGED <<invite_ts, user, remote_tag, hung>>

\* The listener of the transaction is gone once it has completed.
InviteTimeout ==
  /\ Run(<<"transaction", Out>>)
  /\ invite_tc' = "Terminated"
  /\ armed' = armed \ {<<"end", Out>>}
  /\ IF Pending
     THEN /\ Send({Msg("CANCEL", Out, Out)})
          /\ Settle(Out, "Close") /\ Tell(Out, "timeout")
     ELSE UNCHANGED <<net, status, uaVars, told>>
  /\ UNCHANGED <<invite_ts, user, remote_tag, hung>>

EndTimeout(d) ==
  /\ Run(<<"end", d>>)
  /\ IF d = Out
     THEN invite_tc' = "Terminated" /\ UNCHANGED invite_ts
     ELSE /\ invite_ts' = [invite_ts EXCEPT ![d] = IF @ = "Completed" THEN "Terminated" ELSE @]
          /\ UNCHANGED invite_tc
  /\ UNCHANGED <<net, status, armed, uaVars, user, remote_tag, historyVars>>

ClearingTimeout(d) ==
  /\ Run(<<"clearing", d>>)
  /\ invite_ts' = [invite_ts EXCEPT ![d] = "Terminated"]
  /\ UNCHANGED <<net, status, invite_tc, armed, uaVars, user, remote_tag, historyVars>>

\* Neither timeout tells the UserAgent: Call.onDlgClose is empty.
DialogTimeout(d, timer, waiting) ==
  /\ Run(<<timer, d>>)
  /\ status' = [status EXCEPT ![d] = IF @ = waiting THEN "Close" ELSE @]
  /\ UNCHANGED <<net, txVars, armed, uaVars, user, remote_tag, historyVars>>

AckTimeout(d) == DialogTimeout(d, "ack", "Accepted")
ByeTimeout(d) == DialogTimeout(d, "bye", "Byeing")

Receive ==
  \/ \E d \in In : \/ Provisional(d) \/ Success(d) \/ Failure(d)
                   \/ Accept(d) \/ Refuse(d) \/ Ring(d)
                   \/ Cancel(d) \/ FailureAck(d) \/ Ack(d)
  \/ \E d \in Dialog : Bye(d) \/ ByeAnswered(d)

Timeout ==
  \/ \E t \in Timer : Expire(t)
  \/ InviteTimeout
  \/ \E d \in In : ClearingTimeout(d) \/ AckTimeout(d)
  \/ \E d \in Dialog : EndTimeout(d) \/ ByeTimeout(d)

User ==
  \/ Invite
  \/ \E d \in In : Answer(d)
  \/ \E d \in Dialog : HangUpCall(d) \/ HangUpRenew(d)
  \/ \E e \in Ends : HangUpIdle(e)

Next == Receive \/ Timeout \/ User

Spec == Init /\ [][Next]_vars

TypeOK ==
  /\ net \subseteq Message
  /\ status \in [Dialog -> Status]
  /\ invite_tc \in ClientState /\ invite_ts \in [In -> ServerState]
  /\ armed \subseteq Timer /\ firing \subseteq Timer
  /\ call_state \in [Ends -> {"Idle", "Outgoing", "Incoming", "InCall"}]
  /\ call \subseteq Dialog
  /\ user \in [Ends -> {"none", "idle", "renew"}]
  /\ remote_tag \in Dialog
  /\ told \in [Dialog -> SUBSET (Outcome \cup {"confirmed"})]
  /\ hung \subseteq Dialog

(***************************************************************************)
(* Properties.                                                             *)
(***************************************************************************)
\* The caller's application hears of one outcome: accepted, refused and timeout
\* exclude each other, although the answers of two dialogs, the timer and the
\* user's cancel cross (transaction_listener is dropped at the first of them).
OneOutcome == Cardinality(told[Out] \cap Outcome) <= 1

\* The ends agree on who talks to whom: a dialog of the callee whose call is
\* confirmed is the one the caller took the answer of, the caller is connected
\* to a dialog that accepted, and no dialog both accepts and refuses, whatever
\* order the answer, the CANCEL and the two hangups come in.
Agreement ==
  /\ \A d \in In : "confirmed" \in told[d] => remote_tag = d
  /\ remote_tag # Out => "accepted" \in told[Out] /\ Msg("2xx", remote_tag, remote_tag) \in net
  /\ \A d \in In : ~ {Msg("2xx", d, d), Msg("failure", d, d)} \subseteq net

\* Outside hangup the caller's UserAgent is in a call exactly when its call's
\* dialog is: an answer that crosses the user's hangup must not leave a call
\* on that no one holds, or a UserAgent in a call that is none.
UserAgentAgrees ==
  user["caller"] = "none" =>
    (call_state["caller"] = "InCall" <=> Out \in call /\ status[Out] = "Call")

\* Outside hangup a callee that is idle listens, unless its user hung up while
\* there was no call, and a callee that is busy has the call that it is busy
\* with.  What is left of a call is its own: a dialog that was closed under a
\* busy UserAgent never was in a call (no ACK came; Call.onDlgClose is empty).
CalleeAgrees ==
  user["callee"] = "none" =>
    \A d \in call \cap In :
      IF call_state["callee"] = "Idle"
      THEN status[d] = "Waiting" /\ (d \in hung \/ invite_ts[d] = "Waiting")
      ELSE \/ status[d] \in {"Invited", "Accepted", "Call"}
           \/ status[d] = "Close" /\ "confirmed" \notin told[d]

\* What the phases of CallOutcome are here.
Caller ==
  IF status[Out] = "Init" THEN "idle"
  ELSE IF told[Out] = {} THEN "calling"
  ELSE IF "accepted" \notin told[Out] THEN "failed"
  ELSE IF status[Out] = "Close" THEN "over" ELSE "connected"

Callee(d) ==
  IF "confirmed" \in told[d] THEN IF status[d] = "Close" THEN "over" ELSE "connected"
  ELSE IF Msg("failure", d, d) \in net THEN "refused"
  ELSE IF Msg("2xx", d, d) \in net THEN IF status[d] = "Close" THEN "unheard" ELSE "accepted"
  ELSE IF status[d] = "Invited" THEN "asked" ELSE "free"

Abstract == INSTANCE CallOutcome WITH
  Party <- In, Nobody <- Out, caller <- Caller, with <- remote_tag,
  callee <- [d \in In |-> Callee(d)]

\* The stack keeps the promise of CallOutcome: every step is a step of it or
\* leaves its state alone.
KeepsOutcome == Abstract!Spec

\* The receiving and the timer threads run, one of the repetitions of a message
\* gets through, a ringing user answers, and a hangup that has begun goes on.
Fairness ==
  /\ WF_vars(Receive) /\ WF_vars(Timeout)
  /\ WF_vars(\E d \in In : Answer(d))
  /\ WF_vars(\E d \in Dialog : HangUpRenew(d)) /\ WF_vars(\E e \in Ends : HangUpIdle(e))

FairSpec == Spec /\ Fairness

\* The caller learns how its call went: the 1xx that stops its only timer comes
\* from a dialog that answers.
CallerDecides == status[Out] = "Inviting" ~> status[Out] \in {"Call", "Byeing", "Close"}

\* The end of a call reaches the other end, also if both hang up at once, or the
\* caller hangs up before its ACK has arrived (then BYE is ignored at first).
EndsTogether ==
  \A d \in In :
    remote_tag = d /\ (status[Out] = "Close" \/ ("confirmed" \in told[d] /\ status[d] = "Close"))
      ~> status[Out] = "Close" /\ status[d] = "Close"

\* UserAgent.hangup "closes an ongoing, incoming, or pending call": a call that
\* was hung up and let go of is not on.
HangupCloses == \A d \in hung \ call : status[d] # "Call"

=============================================================================
