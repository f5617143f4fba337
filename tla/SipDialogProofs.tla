--------------------------- MODULE SipDialogProofs ---------------------------
(***************************************************************************)
(* Proofs about SipDialog, for any number of incoming calls.               *)
(***************************************************************************)
EXTENDS SipDialog, FiniteSetTheorems, TLAPS

Accepts(d) == Msg("2xx", d, d) \in net
Refuses(d) == Msg("failure", d, d) \in net
Acked(d) == Msg("ACK 2xx", Out, d) \in net

\* The callee has one call at a time, of its newest dialog: the dialog that the
\* next listen() creates is not in use.
Newest ==
  /\ \A d, x \in call \cap In : d = x
  /\ \A d \in call \cap In : \A x \in In : x > d => status[x] = "Init"

\* A transaction that waits for an ACK has sent a failure.
Completes == \A d \in In : invite_ts[d] = "Completed" => Refuses(d)

\* Before the caller's INVITE nothing is on its way and no dialog has one.
Begun == status[Out] = "Init" => net = {} /\ \A d \in In : status[d] \in {"Init", "Waiting"}

\* The caller's dialog is in a call only after an answer.
Held == status[Out] \in {"Call", "Byeing"} => "accepted" \in told[Out]

\* Until the INVITE has been answered or given up its transaction is pending
\* and nothing has been told, and only then is there an outcome to tell.
Client ==
  /\ invite_tc \in {"Trying", "Proceeding"} <=> status[Out] = "Inviting"
  /\ status[Out] \in {"Init", "Inviting"} => told[Out] = {} /\ remote_tag = Out
  /\ told[Out] \in {{}, {"accepted"}, {"refused"}, {"timeout"}}
  /\ remote_tag # Out => "accepted" \in told[Out] /\ Accepts(remote_tag)
  /\ \A d \in In : Acked(d) => remote_tag = d
  /\ <<"end", Out>> \in armed \cup firing => status[Out] \notin {"Init", "Inviting"}

\* What a dialog of the callee has answered, by its status.
Answers ==
  \A d \in In :
    /\ Accepts(d) => ~Refuses(d) /\ status[d] \in {"Accepted", "Call", "Byeing", "Close"}
    /\ Refuses(d) => status[d] \in {"Refused", "Close"}
    /\ "confirmed" \in told[d] => remote_tag = d

IInv == TypeOK /\ Newest /\ Client /\ Answers /\ Completes /\ Begun /\ Held

-----------------------------------------------------------------------------
\* The caller's dialog is none of the callee's.
LEMMA Dialogs ==
  /\ Out \in Dialog /\ Out \notin In /\ In \subseteq Dialog
  /\ \A d \in Dialog : d # Out => d \in In
  /\ \A d \in Dialog : End(d) \in Ends /\ Fresh(d) \subseteq In /\ d \notin Fresh(d)
  /\ \A d \in Dialog : \A x \in Fresh(d) : d \in In /\ x = d + 1 /\ x > d
  BY IncomingAssumption DEF Dialog, Out, In, End, Ends, Fresh

\* Every message that is sent is one.
LEMMA Messages ==
  /\ {Msg("INVITE", Out, Out), Msg("CANCEL", Out, Out), Msg("ACK", Out, Out)} \subseteq Message
  /\ \A d \in In : {Msg("1xx", d, d), Msg("2xx", d, d), Msg("failure", d, d),
                    Msg("ACK 2xx", Out, d), Msg("BYE", Out, d)} \subseteq Message
  /\ \A d, tag \in Dialog : {Msg("failure", d, d), Msg("CANCEL", d, Out), Msg("BYE", d, tag),
                             Msg("200 BYE", d, tag)} \subseteq Message
  BY Dialogs DEF Msg, Message, Kinds

\* Every timer of a dialog is one.
LEMMA Timers ==
  \A d \in Dialog : {<<"transaction", d>>, <<"end", d>>, <<"bye", d>>, <<"ack", d>>,
                     <<"clearing", d>>} \subseteq Timer
  BY DEF Timer

\* A new Call in place of that of d: only a dialog that was not in use changes.
LEMMA RenewFacts ==
  ASSUME TypeOK, Newest, NEW d \in call, NEW st \in [Dialog -> Status],
         \A x \in Dialog : x # d => st[x] = status[x],
         status' = Renewed(d, st), call' = Replaced(d)
  PROVE  /\ status' \in [Dialog -> Status] /\ call' \subseteq Dialog
         /\ status'[d] = st[d]
         /\ \A x \in Dialog : x # d => \/ status'[x] = st[x]
                                       \/ x \in In /\ status[x] = "Init" /\ status'[x] = "Waiting"
         /\ Newest'
<1>1. d \in Dialog
  BY DEF TypeOK
<1>2. /\ \A x \in Dialog : status'[x] = IF x \in Fresh(d) THEN "Waiting" ELSE st[x]
      /\ status' \in [Dialog -> Status]
  BY Dialogs DEF Renewed, Status
<1>3. \A x \in Fresh(d) : status[x] = "Init"
  BY <1>1, Dialogs DEF Newest
<1>4. call' \subseteq Dialog
  BY <1>1, Dialogs DEF Replaced, TypeOK
<1>5. Newest'
  <2>1. \A y \in call' \cap In : y \in Fresh(d) \/ (y \in call /\ y # d)
    BY DEF Replaced
  <2>2. CASE d \in In
    <3>1. \A y \in call' \cap In : y \in Fresh(d)
      BY <2>1, <2>2 DEF Newest
    <3>2. \A y \in call' \cap In : y = d + 1
      BY <3>1, <1>1, Dialogs
    <3>3. ASSUME NEW x \in In, x > d + 1 PROVE status'[x] = "Init"
      <4>1. x > d /\ x # d /\ x \notin Fresh(d)
        BY <3>3, <2>2, <1>1, Dialogs DEF In
      <4>2. status[x] = "Init" /\ x \in Dialog
        BY <4>1, <2>2, Dialogs DEF Newest
      <4>3. QED
        BY <4>1, <4>2, <1>2
    <3>4. QED
      BY <3>2, <3>3 DEF Newest
  <2>3. CASE d \notin In
    <3>1. Fresh(d) = {} /\ \A x \in In : x # d /\ x \in Dialog
      BY <2>3, <1>1, Dialogs
    <3>2. \A x \in In : status'[x] = status[x]
      BY <3>1, <1>2
    <3>3. call' \cap In \subseteq call \cap In
      BY <2>1, <3>1
    <3>4. QED
      BY <3>2, <3>3 DEF Newest
  <2>4. QED
    BY <2>2, <2>3
<1>6. QED
  BY <1>1, <1>2, <1>3, <1>4, <1>5, Dialogs

\* A dialog that settles: it alone changes, but for the one that comes next.
LEMMA SettleFacts ==
  ASSUME TypeOK, Newest, NEW d \in Dialog, NEW st \in Status, Settle(d, st),
         status[d] # "Init"
  PROVE  /\ status' \in [Dialog -> Status] /\ call' \subseteq Dialog
         /\ call_state' \in [Ends -> {"Idle", "Outgoing", "Incoming", "InCall"}]
         /\ status'[d] = st
         /\ \A x \in Dialog : x # d => \/ status'[x] = status[x]
                                       \/ x \in In /\ status[x] = "Init" /\ status'[x] = "Waiting"
         /\ Newest'
<1> DEFINE now == [status EXCEPT ![d] = st]
<1>1. now \in [Dialog -> Status] /\ now[d] = st /\ \A x \in Dialog : x # d => now[x] = status[x]
  BY DEF TypeOK
<1>2. CASE d \in call /\ call_state[End(d)] # "Idle"
  <2>1. /\ call_state' = [call_state EXCEPT ![End(d)] = "Idle"]
        /\ call' = Replaced(d) /\ status' = Renewed(d, now)
    BY <1>2 DEF Settle
  <2> HIDE DEF now
  <2>2. call_state' \in [Ends -> {"Idle", "Outgoing", "Incoming", "InCall"}]
    BY <2>1 DEF TypeOK
  <2>3. /\ status' \in [Dialog -> Status] /\ call' \subseteq Dialog
        /\ status'[d] = now[d]
        /\ \A x \in Dialog : x # d => \/ status'[x] = now[x]
                                      \/ x \in In /\ status[x] = "Init" /\ status'[x] = "Waiting"
        /\ Newest'
    BY <2>1, <1>1, <1>2, RenewFacts
  <2>4. QED
    BY <2>2, <2>3, <1>1
<1>3. CASE ~(d \in call /\ call_state[End(d)] # "Idle")
  <2>1. status' = now /\ UNCHANGED uaVars
    BY <1>3 DEF Settle
  <2>2. UNCHANGED <<call_state, call>>
    BY <2>1 DEF uaVars
  <2> HIDE DEF now
  <2>3. Newest'
    <3>1. \A x \in In : status[x] = "Init" => status'[x] = "Init"
      BY <2>1, <1>1, Dialogs
    <3>2. QED
      BY <2>2, <3>1 DEF Newest
  <2>4. QED
    BY <2>1, <2>2, <2>3, <1>1 DEF TypeOK
<1>4. QED
  BY <1>2, <1>3

\* Call.hangup: what it sends and what becomes of the dialog.
LEMMA HangUpFacts ==
  ASSUME TypeOK, NEW d \in Dialog, HangUp(d)
  PROVE  /\ status' \in [Dialog -> Status] /\ invite_ts' \in [In -> ServerState]
         /\ armed' \subseteq Timer /\ net' \subseteq Message /\ net \subseteq net'
         /\ status'[d] = HungStatus(status[d])
         /\ \A x \in Dialog : x # d => status'[x] = status[x]
         /\ \A m \in net' : m \in net \/ m.kind \in {"CANCEL", "BYE"}
                            \/ (status[d] = "Invited" /\ m = Msg("failure", d, d))
<1>1. HungStatus(status[d]) \in Status
  BY DEF TypeOK, HungStatus, Status
<1>2. /\ status' \in [Dialog -> Status] /\ status'[d] = HungStatus(status[d])
      /\ \A x \in Dialog : x # d => status'[x] = status[x]
  BY <1>1 DEF TypeOK, HangUp
<1>3. invite_ts' \in [In -> ServerState]
  BY DEF TypeOK, HangUp, HungServer, ServerState
<1>4. armed' \subseteq Timer
  BY DEF TypeOK, HangUp, HungTimer, Timer
<1>5. net' = net \cup HungMessage(d, status[d])
  BY DEF HangUp, Send
<1>6. \A m \in HungMessage(d, status[d]) :
        /\ m \in Message
        /\ m.kind \in {"CANCEL", "BYE"} \/ (status[d] = "Invited" /\ m = Msg("failure", d, d))
  <2>1. remote_tag \in Dialog
    BY DEF TypeOK
  <2>2. CASE status[d] = "Invited"
    BY <2>2, Messages DEF HungMessage, Kinds
  <2>3. CASE status[d] = "Inviting"
    <3>1. HungMessage(d, status[d]) = {Msg("CANCEL", d, Out)} /\ Msg("CANCEL", d, Out).kind = "CANCEL"
      BY <2>3 DEF HungMessage, Msg
    <3>2. QED
      BY <3>1, Dialogs, Messages DEF Kinds
  <2>4. CASE status[d] = "Call"
    <3>1. PICK tag \in Dialog : HungMessage(d, status[d]) = {Msg("BYE", d, tag)}
      BY <2>1, <2>4 DEF HungMessage
    <3>2. Msg("BYE", d, tag).kind = "BYE" /\ Msg("BYE", d, tag) \in Message
      BY Messages DEF Kinds, Msg
    <3>3. QED
      BY <3>1, <3>2
  <2>5. CASE status[d] \notin {"Invited", "Inviting", "Call"}
    BY <2>5 DEF HungMessage
  <2>6. QED
    BY <2>2, <2>3, <2>4, <2>5
<1>7. QED
  BY <1>2, <1>3, <1>4, <1>5, <1>6 DEF TypeOK

\* The newest dialog of the callee stays so.
LEMMA NewestKept ==
  ASSUME Newest, call' \subseteq call \cup {Out},
         \A x \in In : status[x] = "Init" => status'[x] = "Init"
  PROVE  Newest'
  BY Dialogs DEF Newest

\* The caller's side is kept by a step that leaves its transaction alone.
LEMMA ClientKept ==
  ASSUME Client, TypeOK, invite_tc' = invite_tc, remote_tag' = remote_tag, told'[Out] = told[Out],
         \/ status'[Out] = status[Out]
         \/ {status[Out], status'[Out]} \cap {"Init", "Inviting"} = {},
         net \subseteq net', \A d \in In : Acked(d)' => Acked(d),
         <<"end", Out>> \in armed' \cup firing' => \/ <<"end", Out>> \in armed \cup firing
                                                 \/ status'[Out] \notin {"Init", "Inviting"}
  PROVE  Client'
<1>1. remote_tag # Out => Accepts(remote_tag)'
  BY DEF Client, Accepts
<1>2. QED
  BY <1>1 DEF Client

\* What a step may do for the answers to be kept: it answers at most from
\* "Waiting" or "Invited", moves a dialog that has answered on, and connects or
\* confirms as it is told.
StatusMoves ==
  \A d \in In : \/ status[d] \in {"Init", "Waiting", "Invited"} \/ status'[d] \in {status[d], "Close"}
                \/ status[d] = "Accepted" /\ status'[d] = "Call"
                \/ status[d] = "Call" /\ status'[d] = "Byeing"

AnswersSent ==
  \A d \in In :
    /\ Accepts(d)' => Accepts(d) \/ (status[d] \in {"Waiting", "Invited"} /\ status'[d] = "Accepted")
    /\ Refuses(d)' => Refuses(d) \/ (status[d] \in {"Waiting", "Invited"} /\ status'[d] = "Refused")

TagKept == remote_tag' = remote_tag \/ remote_tag = Out

ConfirmedByAck == \A d \in In : "confirmed" \in told'[d] => "confirmed" \in told[d] \/ Acked(d)

LEMMA AnswersKept ==
  ASSUME TypeOK, Client, Answers, StatusMoves, AnswersSent, TagKept, ConfirmedByAck
  PROVE  Answers'
<1> SUFFICES ASSUME NEW d \in In
             PROVE  /\ Accepts(d)' => /\ ~Refuses(d)'
                                       /\ status'[d] \in {"Accepted", "Call", "Byeing", "Close"}
                    /\ Refuses(d)' => status'[d] \in {"Refused", "Close"}
                    /\ "confirmed" \in told'[d] => remote_tag' = d
  BY DEF Answers
<1>1. "confirmed" \in told'[d] => remote_tag' = d
  BY Dialogs DEF Answers, Client, TagKept, ConfirmedByAck
<1>2. Refuses(d)' => status'[d] \in {"Refused", "Close"}
  BY DEF Answers, StatusMoves, AnswersSent
<1>3. Accepts(d)' => ~Refuses(d)' /\ status'[d] \in {"Accepted", "Call", "Byeing", "Close"}
  BY DEF Answers, StatusMoves, AnswersSent
<1>4. QED
  BY <1>1, <1>2, <1>3

\* One step keeps the types.
LEMMA StepTypes == TypeOK /\ Newest /\ [Next]_vars => TypeOK'
<1> SUFFICES ASSUME TypeOK, Newest, [Next]_vars PROVE TypeOK'
  OBVIOUS
<1> USE DEF TypeOK, uaVars, txVars, timerVars, historyVars
<1>1. ASSUME NEW d \in In, Provisional(d)
      PROVE  TypeOK'
  BY <1>1 DEF Provisional, ClientState
<1>2. ASSUME NEW d \in In, Success(d)
      PROVE  TypeOK'
  <2>1. net' \subseteq Message
    BY <1>2, Messages DEF Success, Send
  <2>2. armed' \subseteq Timer
    BY <1>2, Dialogs, Timers DEF Success
  <2>3. status' \in [Dialog -> Status]
    BY <1>2 DEF Success, Status
  <2>4. call_state' \in [Ends -> {"Idle", "Outgoing", "Incoming", "InCall"}]
    BY <1>2 DEF Success
  <2>5. told' \in [Dialog -> SUBSET (Outcome \cup {"confirmed"})]
    BY <1>2 DEF Success, Tell, Outcome
  <2>6. QED
    BY <1>2, <2>1, <2>2, <2>3, <2>4, <2>5, Dialogs DEF Success, ClientState
<1>3. ASSUME NEW d \in In, Failure(d)
      PROVE  TypeOK'
  <2>1. /\ status' \in [Dialog -> Status] /\ call' \subseteq Dialog
        /\ call_state' \in [Ends -> {"Idle", "Outgoing", "Incoming", "InCall"}]
    BY <1>3, SettleFacts, Dialogs DEF Failure, Pending, Status
  <2>2. /\ invite_tc' \in ClientState /\ armed' \subseteq Timer /\ net' \subseteq Message
    BY <1>3, Dialogs, Messages, Timers DEF Failure, ClientState, Send
  <2>3. told' \in [Dialog -> SUBSET (Outcome \cup {"confirmed"})]
    BY <1>3 DEF Failure, Tell, Outcome
  <2>4. QED
    BY <1>3, <2>1, <2>2, <2>3 DEF Failure
<1>4. ASSUME NEW d \in In, Accept(d)
      PROVE  TypeOK'
  <2>1. armed' \subseteq Timer /\ net' \subseteq Message
    BY <1>4, Dialogs, Messages, Timers DEF Accept, Send
  <2>2. invite_ts' \in [In -> ServerState]
    BY <1>4 DEF Accept, ServerState
  <2>3. status' \in [Dialog -> Status]
    BY <1>4 DEF Accept, Status
  <2>4. call_state' \in [Ends -> {"Idle", "Outgoing", "Incoming", "InCall"}]
    BY <1>4 DEF Accept
  <2>5. QED
    BY <1>4, <2>1, <2>2, <2>3, <2>4 DEF Accept, TakeInvite
<1>5. ASSUME NEW d \in In, Refuse(d)
      PROVE  TypeOK'
  <2> DEFINE st == [status EXCEPT ![d] = "Refused"]
  <2>1. st \in [Dialog -> Status] /\ \A x \in Dialog : x # d => st[x] = status[x]
    BY DEF Status
  <2>2. d \in call /\ status' = Renewed(d, st) /\ call' = Replaced(d)
    BY <1>5 DEF Refuse, TakeInvite
  <2> HIDE DEF st
  <2>3. status' \in [Dialog -> Status] /\ call' \subseteq Dialog
    BY <2>1, <2>2, RenewFacts
  <2>4. armed' \subseteq Timer /\ net' \subseteq Message
    BY <1>5, Dialogs, Messages, Timers DEF Refuse, Send
  <2>5. invite_ts' \in [In -> ServerState]
    BY <1>5 DEF Refuse, ServerState
  <2>6. QED
    BY <1>5, <2>3, <2>4, <2>5 DEF Refuse, TakeInvite
<1>6. ASSUME NEW d \in In, Ring(d)
      PROVE  TypeOK'
  <2>1. armed' \subseteq Timer /\ net' \subseteq Message
    BY <1>6, Dialogs, Messages, Timers DEF Ring, Send
  <2>2. invite_ts' \in [In -> ServerState]
    BY <1>6 DEF Ring, ServerState
  <2>3. status' \in [Dialog -> Status]
    BY <1>6 DEF Ring, Status
  <2>4. call_state' \in [Ends -> {"Idle", "Outgoing", "Incoming", "InCall"}]
    BY <1>6 DEF Ring
  <2>5. QED
    BY <1>6, <2>1, <2>2, <2>3, <2>4 DEF Ring, TakeInvite
<1>7. ASSUME NEW d \in In, Cancel(d)
      PROVE  TypeOK'
  <2>1. /\ status' \in [Dialog -> Status] /\ call' \subseteq Dialog
        /\ call_state' \in [Ends -> {"Idle", "Outgoing", "Incoming", "InCall"}]
    BY <1>7, SettleFacts, Dialogs DEF Cancel, Status
  <2>2. armed' \subseteq Timer /\ net' \subseteq Message
    BY <1>7, Dialogs, Messages, Timers DEF Cancel, Send
  <2>3. invite_ts' \in [In -> ServerState]
    BY <1>7 DEF Cancel, ServerState
  <2>4. QED
    BY <1>7, <2>1, <2>2, <2>3 DEF Cancel
<1>8. ASSUME NEW d \in In, FailureAck(d)
      PROVE  TypeOK'
  <2>1. armed' \subseteq Timer
    BY <1>8, Dialogs, Timers DEF FailureAck
  <2>2. invite_ts' \in [In -> ServerState] /\ status' \in [Dialog -> Status]
    BY <1>8 DEF FailureAck, ServerState, Status
  <2>3. QED
    BY <1>8, <2>1, <2>2 DEF FailureAck
<1>9. ASSUME NEW d \in In, Ack(d)
      PROVE  TypeOK'
  <2>1. told' \in [Dialog -> SUBSET (Outcome \cup {"confirmed"})]
    BY <1>9, Dialogs DEF Ack, Tell, Outcome
  <2>2. status' \in [Dialog -> Status] /\ armed' \subseteq Timer
    BY <1>9 DEF Ack, Status
  <2>3. QED
    BY <1>9, <2>1, <2>2 DEF Ack
<1>10. ASSUME NEW d \in Dialog, Bye(d)
      PROVE  TypeOK'
  <2>1. /\ status' \in [Dialog -> Status] /\ call' \subseteq Dialog
        /\ call_state' \in [Ends -> {"Idle", "Outgoing", "Incoming", "InCall"}]
    BY <1>10, SettleFacts DEF Bye, Status
  <2>2. net' \subseteq Message
    BY <1>10, Messages DEF Bye, Send
  <2>3. QED
    BY <1>10, <2>1, <2>2 DEF Bye
<1>11. ASSUME NEW d \in Dialog, ByeAnswered(d)
      PROVE  TypeOK'
  <2>1. /\ status' \in [Dialog -> Status] /\ call' \subseteq Dialog
        /\ call_state' \in [Ends -> {"Idle", "Outgoing", "Incoming", "InCall"}]
    BY <1>11, SettleFacts DEF ByeAnswered, Status
  <2>2. QED
    BY <1>11, <2>1 DEF ByeAnswered
<1>12. ASSUME NEW t \in Timer, Expire(t)
      PROVE  TypeOK'
  BY <1>12 DEF Expire
<1>13. CASE InviteTimeout
  <2>1. CASE Pending
    <3>1. /\ status' \in [Dialog -> Status] /\ call' \subseteq Dialog
          /\ call_state' \in [Ends -> {"Idle", "Outgoing", "Incoming", "InCall"}]
      BY <1>13, <2>1, SettleFacts, Dialogs DEF InviteTimeout, Pending, Status
    <3>2. told' \in [Dialog -> SUBSET (Outcome \cup {"confirmed"})]
      BY <1>13, <2>1 DEF InviteTimeout, Tell, Outcome
    <3>3. net' \subseteq Message
      BY <1>13, <2>1, Dialogs, Messages DEF InviteTimeout, Send
    <3>4. QED
      BY <1>13, <3>1, <3>2, <3>3 DEF InviteTimeout, Run, ClientState
  <2>2. CASE ~Pending
    BY <1>13, <2>2 DEF InviteTimeout, Run, ClientState
  <2>3. QED
    BY <2>1, <2>2
<1>14. ASSUME NEW d \in In, ClearingTimeout(d)
      PROVE  TypeOK'
  <2>1. invite_ts' \in [In -> ServerState]
    BY <1>14 DEF ClearingTimeout, ServerState
  <2>2. QED
    BY <1>14, <2>1 DEF ClearingTimeout, Run
<1>15. ASSUME NEW d \in In, AckTimeout(d)
      PROVE  TypeOK'
  <2>1. status' \in [Dialog -> Status]
    BY <1>15 DEF AckTimeout, DialogTimeout, Status
  <2>2. QED
    BY <1>15, <2>1 DEF AckTimeout, DialogTimeout, Run
<1>16. ASSUME NEW d \in Dialog, EndTimeout(d)
      PROVE  TypeOK'
  <2>1. invite_ts' \in [In -> ServerState] /\ invite_tc' \in ClientState
    BY <1>16 DEF EndTimeout, ServerState, ClientState
  <2>2. QED
    BY <1>16, <2>1 DEF EndTimeout, Run
<1>17. ASSUME NEW d \in Dialog, ByeTimeout(d)
      PROVE  TypeOK'
  <2>1. status' \in [Dialog -> Status]
    BY <1>17 DEF ByeTimeout, DialogTimeout, Status
  <2>2. QED
    BY <1>17, <2>1 DEF ByeTimeout, DialogTimeout, Run
<1>18. CASE Invite
  <2>1. status' \in [Dialog -> Status] /\ invite_tc' \in ClientState
    BY <1>18 DEF Invite, Status, ClientState
  <2>2. armed' \subseteq Timer /\ net' \subseteq Message /\ call' \subseteq Dialog
    BY <1>18, Dialogs, Messages, Timers DEF Invite, Send
  <2>3. call_state' \in [Ends -> {"Idle", "Outgoing", "Incoming", "InCall"}]
    BY <1>18 DEF Invite
  <2>4. QED
    BY <1>18, <2>1, <2>2, <2>3 DEF Invite
<1>19. ASSUME NEW d \in In, Answer(d)
      PROVE  TypeOK'
  <2>1. armed' \subseteq Timer /\ net' \subseteq Message
    BY <1>19, Dialogs, Messages, Timers DEF Answer, Send
  <2>2. invite_ts' \in [In -> ServerState]
    BY <1>19 DEF Answer, ServerState
  <2>3. status' \in [Dialog -> Status]
    BY <1>19 DEF Answer, Status
  <2>4. call_state' \in [Ends -> {"Idle", "Outgoing", "Incoming", "InCall"}]
    BY <1>19 DEF Answer
  <2>5. QED
    BY <1>19, <2>1, <2>2, <2>3, <2>4 DEF Answer
<1>20. ASSUME NEW d \in Dialog, HangUpCall(d)
      PROVE  TypeOK'
  <2>1. /\ status' \in [Dialog -> Status] /\ invite_ts' \in [In -> ServerState]
        /\ armed' \subseteq Timer /\ net' \subseteq Message
    BY <1>20, HangUpFacts DEF HangUpCall
  <2>2. QED
    BY <1>20, <2>1 DEF HangUpCall
<1>21. ASSUME NEW d \in Dialog, HangUpRenew(d)
      PROVE  TypeOK'
  <2>1. status' \in [Dialog -> Status] /\ call' \subseteq Dialog
    BY <1>21, RenewFacts DEF HangUpRenew
  <2>2. QED
    BY <1>21, <2>1 DEF HangUpRenew
<1>22. ASSUME NEW e \in Ends, HangUpIdle(e)
      PROVE  TypeOK'
  <2>1. /\ status' \in [Dialog -> Status] /\ invite_ts' \in [In -> ServerState]
        /\ armed' \subseteq Timer /\ net' \subseteq Message
    BY <1>22, HangUpFacts DEF HangUpIdle
  <2>2. QED
    BY <1>22, <2>1 DEF HangUpIdle
<1>23. CASE UNCHANGED vars
  BY <1>23 DEF vars
<1>24. QED
  BY <1>1, <1>2, <1>3, <1>4, <1>5, <1>6, <1>7, <1>8, <1>9, <1>10, <1>11, <1>12,
     <1>13, <1>14, <1>15, <1>16, <1>17, <1>18, <1>19, <1>20, <1>21, <1>22, <1>23
  DEF Next, Receive, Timeout, User

\* One step keeps the callee at one call, of its newest dialog.
LEMMA StepNewest == TypeOK /\ Newest /\ Answers /\ Completes /\ [Next]_vars => Newest'
<1> SUFFICES ASSUME TypeOK, Newest, Answers, Completes, [Next]_vars PROVE Newest'
  OBVIOUS
<1> USE DEF TypeOK, uaVars, txVars, timerVars, historyVars
<1>1. ASSUME NEW d \in In, Provisional(d)
      PROVE  Newest'
  <2>1. call' \subseteq call \cup {Out} /\ \A x \in In : status[x] = "Init" => status'[x] = "Init"
    BY <1>1, Dialogs DEF Provisional
  <2>2. QED
    BY <2>1, NewestKept
<1>2. ASSUME NEW d \in In, Success(d)
      PROVE  Newest'
  <2>1. call' \subseteq call \cup {Out} /\ \A x \in In : status[x] = "Init" => status'[x] = "Init"
    BY <1>2, Dialogs DEF Success
  <2>2. QED
    BY <2>1, NewestKept
<1>3. ASSUME NEW d \in In, Failure(d)
      PROVE  Newest'
  BY <1>3, SettleFacts, Dialogs DEF Failure, Pending, Status
<1>4. ASSUME NEW d \in In, Accept(d)
      PROVE  Newest'
  <2>1. call' \subseteq call \cup {Out} /\ \A x \in In : status[x] = "Init" => status'[x] = "Init"
    BY <1>4, Dialogs DEF Accept, TakeInvite
  <2>2. QED
    BY <2>1, NewestKept
<1>5. ASSUME NEW d \in In, Refuse(d)
      PROVE  Newest'
  <2> DEFINE st == [status EXCEPT ![d] = "Refused"]
  <2>1. st \in [Dialog -> Status] /\ \A x \in Dialog : x # d => st[x] = status[x]
    BY DEF Status
  <2>2. d \in call /\ status' = Renewed(d, st) /\ call' = Replaced(d)
    BY <1>5 DEF Refuse, TakeInvite
  <2> HIDE DEF st
  <2>3. QED
    BY <2>1, <2>2, RenewFacts
<1>6. ASSUME NEW d \in In, Ring(d)
      PROVE  Newest'
  <2>1. call' \subseteq call \cup {Out} /\ \A x \in In : status[x] = "Init" => status'[x] = "Init"
    BY <1>6, Dialogs DEF Ring, TakeInvite
  <2>2. QED
    BY <2>1, NewestKept
<1>7. ASSUME NEW d \in In, Cancel(d)
      PROVE  Newest'
  BY <1>7, SettleFacts, Dialogs DEF Cancel, Status
<1>8. ASSUME NEW d \in In, FailureAck(d)
      PROVE  Newest'
  <2>1. \A x \in In : status[x] = "Init" => status'[x] = "Init"
    BY <1>8, Dialogs DEF FailureAck, Answers, Completes
  <2>2. QED
    BY <1>8, <2>1, NewestKept DEF FailureAck
<1>9. ASSUME NEW d \in In, Ack(d)
      PROVE  Newest'
  <2>1. call' \subseteq call \cup {Out} /\ \A x \in In : status[x] = "Init" => status'[x] = "Init"
    BY <1>9, Dialogs DEF Ack
  <2>2. QED
    BY <2>1, NewestKept
<1>10. ASSUME NEW d \in Dialog, Bye(d)
      PROVE  Newest'
  BY <1>10, SettleFacts DEF Bye, Status
<1>11. ASSUME NEW d \in Dialog, ByeAnswered(d)
      PROVE  Newest'
  BY <1>11, SettleFacts DEF ByeAnswered, Status
<1>12. ASSUME NEW t \in Timer, Expire(t)
      PROVE  Newest'
  <2>1. call' \subseteq call \cup {Out} /\ \A x \in In : status[x] = "Init" => status'[x] = "Init"
    BY <1>12, Dialogs DEF Expire
  <2>2. QED
    BY <2>1, NewestKept
<1>13. CASE InviteTimeout
  <2>1. CASE Pending
    BY <1>13, <2>1, SettleFacts, Dialogs DEF InviteTimeout, Pending, Status
  <2>2. CASE ~Pending
    BY <1>13, <2>2, NewestKept DEF InviteTimeout
  <2>3. QED
    BY <2>1, <2>2
<1>14. ASSUME NEW d \in In, ClearingTimeout(d)
      PROVE  Newest'
  <2>1. call' \subseteq call \cup {Out} /\ \A x \in In : status[x] = "Init" => status'[x] = "Init"
    BY <1>14, Dialogs DEF ClearingTimeout
  <2>2. QED
    BY <2>1, NewestKept
<1>15. ASSUME NEW d \in In, AckTimeout(d)
      PROVE  Newest'
  <2>1. call' \subseteq call \cup {Out} /\ \A x \in In : status[x] = "Init" => status'[x] = "Init"
    BY <1>15, Dialogs DEF AckTimeout, DialogTimeout
  <2>2. QED
    BY <2>1, NewestKept
<1>16. ASSUME NEW d \in Dialog, EndTimeout(d)
      PROVE  Newest'
  <2>1. call' \subseteq call \cup {Out} /\ \A x \in In : status[x] = "Init" => status'[x] = "Init"
    BY <1>16, Dialogs DEF EndTimeout
  <2>2. QED
    BY <2>1, NewestKept
<1>17. ASSUME NEW d \in Dialog, ByeTimeout(d)
      PROVE  Newest'
  <2>1. call' \subseteq call \cup {Out} /\ \A x \in In : status[x] = "Init" => status'[x] = "Init"
    BY <1>17, Dialogs DEF ByeTimeout, DialogTimeout
  <2>2. QED
    BY <2>1, NewestKept
<1>18. CASE Invite
  <2>1. call' \subseteq call \cup {Out} /\ \A x \in In : status[x] = "Init" => status'[x] = "Init"
    BY <1>18, Dialogs DEF Invite
  <2>2. QED
    BY <2>1, NewestKept
<1>19. ASSUME NEW d \in In, Answer(d)
      PROVE  Newest'
  <2>1. call' \subseteq call \cup {Out} /\ \A x \in In : status[x] = "Init" => status'[x] = "Init"
    BY <1>19, Dialogs DEF Answer
  <2>2. QED
    BY <2>1, NewestKept
<1>20. ASSUME NEW d \in Dialog, HangUpCall(d)
      PROVE  Newest'
  <2>1. \A x \in In : status[x] = "Init" => status'[x] = "Init"
    BY <1>20, HangUpFacts, Dialogs DEF HangUpCall, HungStatus
  <2>2. QED
    BY <1>20, <2>1, NewestKept DEF HangUpCall
<1>21. ASSUME NEW d \in Dialog, HangUpRenew(d)
      PROVE  Newest'
  BY <1>21, RenewFacts DEF HangUpRenew
<1>22. ASSUME NEW e \in Ends, HangUpIdle(e)
      PROVE  Newest'
  <2>1. \A x \in In : status[x] = "Init" => status'[x] = "Init"
    <3>1. CASE UNCHANGED status
      BY <3>1
    <3>2. CASE \E d \in call : HangUp(d)
      BY <3>2, HangUpFacts, Dialogs DEF HungStatus
    <3>3. QED
      BY <1>22, <3>1, <3>2 DEF HangUpIdle
  <2>2. QED
    BY <1>22, <2>1, NewestKept DEF HangUpIdle
<1>23. CASE UNCHANGED vars
  BY <1>23, NewestKept DEF vars
<1>24. QED
  BY <1>1, <1>2, <1>3, <1>4, <1>5, <1>6, <1>7, <1>8, <1>9, <1>10, <1>11, <1>12,
     <1>13, <1>14, <1>15, <1>16, <1>17, <1>18, <1>19, <1>20, <1>21, <1>22, <1>23
  DEF Next, Receive, Timeout, User

\* Call.hangup leaves the caller's transaction alone.
LEMMA HangUpKeepsClient ==
  ASSUME TypeOK, Client, NEW d \in Dialog, HangUp(d), UNCHANGED <<invite_tc, remote_tag, told, firing>>
  PROVE  Client'
<1>1. \/ status'[Out] = status[Out]
      \/ {status[Out], status'[Out]} \cap {"Init", "Inviting"} = {}
  BY HangUpFacts, Dialogs DEF HungStatus
<1>2. net \subseteq net' /\ \A x \in In : Acked(x)' => Acked(x)
  BY HangUpFacts DEF Acked, Msg
<1>3. <<"end", Out>> \in armed' \cup firing' => \/ <<"end", Out>> \in armed \cup firing
                                              \/ status'[Out] \notin {"Init", "Inviting"}
  <2>1. CASE d = Out /\ status[d] = "Invited"
    BY <2>1, HangUpFacts DEF HungStatus
  <2>2. CASE ~(d = Out /\ status[d] = "Invited")
    BY <2>2 DEF HangUp, HungTimer
  <2>3. QED
    BY <2>1, <2>2
<1>4. QED
  BY <1>1, <1>2, <1>3, ClientKept

\* One step keeps the caller's side.
LEMMA StepClient == TypeOK /\ Newest /\ Client /\ [Next]_vars => Client'
<1> SUFFICES ASSUME TypeOK, Newest, Client, [Next]_vars PROVE Client'
  OBVIOUS
<1> USE DEF TypeOK, uaVars, txVars, timerVars, historyVars
<1>1. ASSUME NEW d \in In, Provisional(d)
      PROVE  Client'
  <2>1. \A x \in In : Acked(x)' => Acked(x)
    BY <1>1 DEF Provisional, Acked
  <2>2. Accepts(remote_tag)' <=> Accepts(remote_tag)
    BY <1>1 DEF Provisional, Accepts
  <2>3. QED
    BY <1>1, <2>1, <2>2 DEF Provisional, Client
<1>2. ASSUME NEW d \in In, Success(d)
      PROVE  Client'
  <2>1. Pending /\ told[Out] = {} /\ remote_tag = Out
    BY <1>2 DEF Success, Pending, Client
  <2>2. remote_tag' = d /\ told'[Out] = {"accepted"} /\ invite_tc' = "Terminated"
    BY <1>2, <2>1, Dialogs DEF Success, Tell
  <2>3. status'[Out] \in {"Call", "Byeing"}
    BY <1>2, Dialogs DEF Success
  <2>4. Accepts(d)'
    BY <1>2 DEF Success, Accepts, Send
  <2>5. \A x \in In : Acked(x)' => x = d
    <3>1. \A x \in In : ~Acked(x)
      BY <2>1, Dialogs DEF Client
    <3>2. QED
      BY <1>2, <3>1 DEF Success, Acked, Send, Msg
  <2>6. QED
    BY <2>2, <2>3, <2>4, <2>5 DEF Client
<1>3. ASSUME NEW d \in In, Failure(d)
      PROVE  Client'
  <2>1. Pending /\ told[Out] = {} /\ remote_tag = Out
    BY <1>3 DEF Failure, Pending, Client
  <2>2. told'[Out] = {"refused"} /\ invite_tc' = "Completed" /\ remote_tag' = Out
    BY <1>3, <2>1, Dialogs DEF Failure, Tell
  <2>3. status'[Out] = "Close"
    BY <1>3, <2>1, SettleFacts, Dialogs DEF Failure, Pending, Status
  <2>4. \A x \in In : Acked(x)' => Acked(x)
    BY <1>3 DEF Failure, Acked, Send, Msg
  <2>5. QED
    BY <2>1, <2>2, <2>3, <2>4, Dialogs DEF Client
<1>4. ASSUME NEW d \in In, Accept(d)
      PROVE  Client'
  <2>1. /\ UNCHANGED <<invite_tc, remote_tag>> /\ told'[Out] = told[Out] /\ net \subseteq net'
        /\ \/ status'[Out] = status[Out]
           \/ {status[Out], status'[Out]} \cap {"Init", "Inviting"} = {}
    BY <1>4, Dialogs DEF Accept, TakeInvite, Send
  <2>2. \A x \in In : Acked(x)' => Acked(x)
    BY <1>4 DEF Accept, Send, Msg, Acked, TakeInvite
  <2>3. <<"end", Out>> \in armed' \cup firing' => <<"end", Out>> \in armed \cup firing
    BY <1>4, Dialogs DEF Accept, TakeInvite
  <2>4. QED
    BY <2>1, <2>2, <2>3, ClientKept
<1>5. ASSUME NEW d \in In, Refuse(d)
      PROVE  Client'
  <2> DEFINE st == [status EXCEPT ![d] = "Refused"]
  <2>1. st \in [Dialog -> Status] /\ \A x \in Dialog : x # d => st[x] = status[x]
    BY DEF Status
  <2>2. d \in call /\ status' = Renewed(d, st) /\ call' = Replaced(d)
    BY <1>5 DEF Refuse, TakeInvite
  <2> HIDE DEF st
  <2>3. status'[Out] = status[Out]
    BY <2>1, <2>2, RenewFacts, Dialogs
  <2>4. /\ UNCHANGED <<invite_tc, remote_tag, told>> /\ net \subseteq net'
        /\ \A x \in In : Acked(x)' => Acked(x)
    BY <1>5 DEF Refuse, TakeInvite, Acked, Send, Msg
  <2>5. <<"end", Out>> \in armed' \cup firing' => <<"end", Out>> \in armed \cup firing
    BY <1>5, Dialogs DEF Refuse, TakeInvite
  <2>6. QED
    BY <2>3, <2>4, <2>5, ClientKept
<1>6. ASSUME NEW d \in In, Ring(d)
      PROVE  Client'
  <2>1. /\ UNCHANGED <<invite_tc, remote_tag>> /\ told'[Out] = told[Out] /\ net \subseteq net'
        /\ \/ status'[Out] = status[Out]
           \/ {status[Out], status'[Out]} \cap {"Init", "Inviting"} = {}
    BY <1>6, Dialogs DEF Ring, TakeInvite, Send
  <2>2. \A x \in In : Acked(x)' => Acked(x)
    BY <1>6 DEF Ring, Send, Msg, Acked, TakeInvite
  <2>3. <<"end", Out>> \in armed' \cup firing' => <<"end", Out>> \in armed \cup firing
    BY <1>6, Dialogs DEF Ring, TakeInvite
  <2>4. QED
    BY <2>1, <2>2, <2>3, ClientKept
<1>7. ASSUME NEW d \in In, Cancel(d)
      PROVE  Client'
  <2>1. \/ status'[Out] = status[Out]
        \/ {status[Out], status'[Out]} \cap {"Init", "Inviting"} = {}
    BY <1>7, SettleFacts, Dialogs DEF Cancel, Status
  <2>2. /\ UNCHANGED <<invite_tc, remote_tag, told>> /\ net \subseteq net'
        /\ \A x \in In : Acked(x)' => Acked(x)
    BY <1>7 DEF Cancel, Acked, Send, Msg
  <2>3. <<"end", Out>> \in armed' \cup firing' => <<"end", Out>> \in armed \cup firing
    BY <1>7, Dialogs DEF Cancel
  <2>4. QED
    BY <2>1, <2>2, <2>3, ClientKept
<1>8. ASSUME NEW d \in In, FailureAck(d)
      PROVE  Client'
  <2>1. /\ UNCHANGED <<invite_tc, remote_tag>> /\ told'[Out] = told[Out] /\ net \subseteq net'
        /\ \/ status'[Out] = status[Out]
           \/ {status[Out], status'[Out]} \cap {"Init", "Inviting"} = {}
    BY <1>8, Dialogs DEF FailureAck, Send
  <2>2. \A x \in In : Acked(x)' => Acked(x)
    BY <1>8 DEF FailureAck, Send, Msg, Acked
  <2>3. <<"end", Out>> \in armed' \cup firing' => <<"end", Out>> \in armed \cup firing
    BY <1>8, Dialogs DEF FailureAck
  <2>4. QED
    BY <2>1, <2>2, <2>3, ClientKept
<1>9. ASSUME NEW d \in In, Ack(d)
      PROVE  Client'
  <2>1. /\ UNCHANGED <<invite_tc, remote_tag>> /\ told'[Out] = told[Out] /\ net \subseteq net'
        /\ \/ status'[Out] = status[Out]
           \/ {status[Out], status'[Out]} \cap {"Init", "Inviting"} = {}
    BY <1>9, Dialogs DEF Ack, Tell
  <2>2. \A x \in In : Acked(x)' => Acked(x)
    BY <1>9 DEF Ack, Send, Msg, Acked
  <2>3. <<"end", Out>> \in armed' \cup firing' => <<"end", Out>> \in armed \cup firing
    BY <1>9, Dialogs DEF Ack
  <2>4. QED
    BY <2>1, <2>2, <2>3, ClientKept
<1>10. ASSUME NEW d \in Dialog, Bye(d)
      PROVE  Client'
  <2>1. \/ status'[Out] = status[Out]
        \/ {status[Out], status'[Out]} \cap {"Init", "Inviting"} = {}
    <3>1. status[d] \in {"Call", "Byeing"} /\ Settle(d, "Close")
      BY <1>10 DEF Bye
    <3>2. status'[d] = "Close" /\ (d # Out => status'[Out] = status[Out])
      BY <3>1, SettleFacts, Dialogs DEF Status
    <3>3. QED
      BY <3>1, <3>2
  <2>2. /\ UNCHANGED <<invite_tc, remote_tag, told>> /\ net \subseteq net'
        /\ \A x \in In : Acked(x)' => Acked(x)
    BY <1>10 DEF Bye, Acked, Send, Msg
  <2>3. <<"end", Out>> \in armed' \cup firing' => <<"end", Out>> \in armed \cup firing
    BY <1>10, Dialogs DEF Bye
  <2>4. QED
    BY <2>1, <2>2, <2>3, ClientKept
<1>11. ASSUME NEW d \in Dialog, ByeAnswered(d)
      PROVE  Client'
  <2>1. \/ status'[Out] = status[Out]
        \/ {status[Out], status'[Out]} \cap {"Init", "Inviting"} = {}
    <3>1. status[d] \in {"Byeing"} /\ Settle(d, "Close")
      BY <1>11 DEF ByeAnswered
    <3>2. status'[d] = "Close" /\ (d # Out => status'[Out] = status[Out])
      BY <3>1, SettleFacts, Dialogs DEF Status
    <3>3. QED
      BY <3>1, <3>2
  <2>2. /\ UNCHANGED <<invite_tc, remote_tag, told>> /\ net \subseteq net'
        /\ \A x \in In : Acked(x)' => Acked(x)
    BY <1>11 DEF ByeAnswered, Acked, Send, Msg
  <2>3. <<"end", Out>> \in armed' \cup firing' => <<"end", Out>> \in armed \cup firing
    BY <1>11, Dialogs DEF ByeAnswered
  <2>4. QED
    BY <2>1, <2>2, <2>3, ClientKept
<1>12. ASSUME NEW t \in Timer, Expire(t)
      PROVE  Client'
  <2>1. <<"end", Out>> \in armed' \cup firing' => <<"end", Out>> \in armed \cup firing
    BY <1>12 DEF Expire
  <2>2. \A x \in In : Acked(x)' => Acked(x)
    BY <1>12 DEF Expire, Acked
  <2>3. QED
    BY <1>12, <2>1, <2>2, ClientKept DEF Expire
<1>13. CASE InviteTimeout
  <2>1. CASE Pending
    <3>1. told[Out] = {} /\ remote_tag = Out
      BY <2>1 DEF Pending, Client
    <3>2. told'[Out] = {"timeout"} /\ invite_tc' = "Terminated" /\ remote_tag' = Out
      BY <1>13, <2>1, <3>1, Dialogs DEF InviteTimeout, Tell
    <3>3. status'[Out] = "Close"
      BY <1>13, <2>1, SettleFacts, Dialogs DEF InviteTimeout, Pending, Status
    <3>4. \A x \in In : Acked(x)' => Acked(x)
      <4>1. net' = net \cup {Msg("CANCEL", Out, Out)}
        BY <1>13, <2>1 DEF InviteTimeout, Send
      <4>2. QED
        BY <4>1 DEF Acked, Msg
    <3>5. QED
      BY <3>1, <3>2, <3>3, <3>4, Dialogs DEF Client
  <2>2. CASE ~Pending
    <3>1. status[Out] # "Inviting" /\ UNCHANGED <<net, status, told, remote_tag>>
      BY <1>13, <2>2 DEF InviteTimeout, Pending, Client
    <3>2. Accepts(remote_tag)' <=> Accepts(remote_tag)
      BY <3>1 DEF Accepts
    <3>3. \A x \in In : Acked(x)' => Acked(x)
      BY <3>1 DEF Acked
    <3>4. QED
      BY <1>13, <3>1, <3>2, <3>3 DEF InviteTimeout, Run, Client
  <2>3. QED
    BY <2>1, <2>2
<1>14. ASSUME NEW d \in In, ClearingTimeout(d)
      PROVE  Client'
  <2>1. /\ UNCHANGED <<invite_tc, remote_tag>> /\ told'[Out] = told[Out] /\ net \subseteq net'
        /\ \/ status'[Out] = status[Out]
           \/ {status[Out], status'[Out]} \cap {"Init", "Inviting"} = {}
    BY <1>14, Dialogs DEF ClearingTimeout, Run, Send
  <2>2. \A x \in In : Acked(x)' => Acked(x)
    BY <1>14 DEF ClearingTimeout, Send, Msg, Acked
  <2>3. <<"end", Out>> \in armed' \cup firing' => <<"end", Out>> \in armed \cup firing
    BY <1>14, Dialogs DEF ClearingTimeout, Run
  <2>4. QED
    BY <2>1, <2>2, <2>3, ClientKept
<1>15. ASSUME NEW d \in In, AckTimeout(d)
      PROVE  Client'
  <2>1. /\ UNCHANGED <<invite_tc, remote_tag>> /\ told'[Out] = told[Out] /\ net \subseteq net'
        /\ \/ status'[Out] = status[Out]
           \/ {status[Out], status'[Out]} \cap {"Init", "Inviting"} = {}
    BY <1>15, Dialogs DEF AckTimeout, Run, DialogTimeout, Send
  <2>2. \A x \in In : Acked(x)' => Acked(x)
    BY <1>15 DEF AckTimeout, Send, Msg, Acked, DialogTimeout
  <2>3. <<"end", Out>> \in armed' \cup firing' => <<"end", Out>> \in armed \cup firing
    BY <1>15, Dialogs DEF AckTimeout, Run, DialogTimeout
  <2>4. QED
    BY <2>1, <2>2, <2>3, ClientKept
<1>16. ASSUME NEW d \in Dialog, EndTimeout(d)
      PROVE  Client'
  <2>1. /\ UNCHANGED <<net, status, remote_tag, told, armed>> /\ firing' \subseteq firing
        /\ \A x \in In : Acked(x)' => Acked(x)
    BY <1>16 DEF EndTimeout, Run, Acked
  <2>2. CASE d = Out
    <3>1. status[Out] \notin {"Init", "Inviting"} /\ invite_tc' = "Terminated"
      BY <1>16, <2>2 DEF EndTimeout, Run, Client
    <3>2. Accepts(remote_tag)' <=> Accepts(remote_tag)
      BY <2>1 DEF Accepts
    <3>3. QED
      BY <2>1, <3>1, <3>2 DEF Client
  <2>3. CASE d # Out
    BY <1>16, <2>1, <2>3, ClientKept DEF EndTimeout
  <2>4. QED
    BY <2>2, <2>3
<1>17. ASSUME NEW d \in Dialog, ByeTimeout(d)
      PROVE  Client'
  <2>1. /\ UNCHANGED <<invite_tc, remote_tag>> /\ told'[Out] = told[Out] /\ net \subseteq net'
        /\ \/ status'[Out] = status[Out]
           \/ {status[Out], status'[Out]} \cap {"Init", "Inviting"} = {}
    BY <1>17, Dialogs DEF ByeTimeout, Run, DialogTimeout, Send
  <2>2. \A x \in In : Acked(x)' => Acked(x)
    BY <1>17 DEF ByeTimeout, Send, Msg, Acked, DialogTimeout
  <2>3. <<"end", Out>> \in armed' \cup firing' => <<"end", Out>> \in armed \cup firing
    BY <1>17, Dialogs DEF ByeTimeout, Run, DialogTimeout
  <2>4. QED
    BY <2>1, <2>2, <2>3, ClientKept
<1>18. CASE Invite
  <2>1. \A x \in In : Acked(x)' => Acked(x)
    BY <1>18 DEF Invite, Acked, Send, Msg
  <2>2. Accepts(remote_tag) => Accepts(remote_tag)'
    BY <1>18 DEF Invite, Accepts, Send
  <2>3. status'[Out] = "Inviting" /\ told' = told /\ remote_tag' = remote_tag
    BY <1>18, Dialogs DEF Invite
  <2>4. <<"end", Out>> \notin armed' \cup firing'
    BY <1>18 DEF Invite, Client
  <2>5. QED
    BY <1>18, <2>1, <2>2, <2>3, <2>4 DEF Invite, Client
<1>19. ASSUME NEW d \in In, Answer(d)
      PROVE  Client'
  <2>1. /\ UNCHANGED <<invite_tc, remote_tag>> /\ told'[Out] = told[Out] /\ net \subseteq net'
        /\ \/ status'[Out] = status[Out]
           \/ {status[Out], status'[Out]} \cap {"Init", "Inviting"} = {}
    BY <1>19, Dialogs DEF Answer, Send
  <2>2. \A x \in In : Acked(x)' => Acked(x)
    BY <1>19 DEF Answer, Send, Msg, Acked
  <2>3. <<"end", Out>> \in armed' \cup firing' => <<"end", Out>> \in armed \cup firing
    BY <1>19, Dialogs DEF Answer
  <2>4. QED
    BY <2>1, <2>2, <2>3, ClientKept
<1>20. ASSUME NEW d \in Dialog, HangUpCall(d)
      PROVE  Client'
  BY <1>20, HangUpKeepsClient DEF HangUpCall
<1>21. ASSUME NEW d \in Dialog, HangUpRenew(d)
      PROVE  Client'
  <2>1. status'[Out] = status[Out]
    BY <1>21, RenewFacts, Dialogs DEF HangUpRenew
  <2>2. \A x \in In : Acked(x)' => Acked(x)
    BY <1>21 DEF HangUpRenew, Acked
  <2>3. QED
    BY <1>21, <2>1, <2>2, ClientKept DEF HangUpRenew
<1>22. ASSUME NEW e \in Ends, HangUpIdle(e)
      PROVE  Client'
  <2>1. CASE \E d \in call : HangUp(d)
    BY <1>22, <2>1, HangUpKeepsClient DEF HangUpIdle
  <2>2. CASE UNCHANGED <<net, status, invite_ts, armed>>
    <3>1. \A x \in In : Acked(x)' => Acked(x)
      BY <2>2 DEF Acked
    <3>2. QED
      BY <1>22, <2>2, <3>1, ClientKept DEF HangUpIdle
  <2>3. QED
    BY <1>22, <2>1, <2>2 DEF HangUpIdle
<1>23. CASE UNCHANGED vars
  <2>1. \A x \in In : Acked(x)' => Acked(x)
    BY <1>23 DEF vars, Acked
  <2>2. QED
    BY <1>23, <2>1, ClientKept DEF vars
<1>24. QED
  BY <1>1, <1>2, <1>3, <1>4, <1>5, <1>6, <1>7, <1>8, <1>9, <1>10, <1>11, <1>12,
     <1>13, <1>14, <1>15, <1>16, <1>17, <1>18, <1>19, <1>20, <1>21, <1>22, <1>23
  DEF Next, Receive, Timeout, User

\* Call.hangup: a refusal is from "Invited", and nothing is accepted.
LEMMA HangUpKeepsAnswers ==
  ASSUME TypeOK, Client, Answers, NEW d \in Dialog, HangUp(d), UNCHANGED <<remote_tag, told>>
  PROVE  Answers'
<1>1. /\ status'[d] = HungStatus(status[d])
      /\ \A x \in In : x # d => status'[x] = status[x]
  BY HangUpFacts, Dialogs
<1>2. StatusMoves
  BY <1>1, Dialogs DEF HungStatus, StatusMoves
<1>3. AnswersSent
  BY <1>1, HangUpFacts DEF Accepts, Refuses, Msg, HungStatus, AnswersSent
<1>4. TagKept
  BY DEF TagKept
<1>5. ConfirmedByAck
  BY DEF ConfirmedByAck
<1>6. QED
  BY <1>2, <1>3, <1>4, <1>5, AnswersKept

\* One step keeps the answers.
LEMMA StepAnswers == TypeOK /\ Newest /\ Client /\ Answers /\ [Next]_vars => Answers'
<1> SUFFICES ASSUME TypeOK, Newest, Client, Answers, [Next]_vars PROVE Answers'
  OBVIOUS
<1> USE DEF TypeOK, uaVars, txVars, timerVars, historyVars
<1>1. ASSUME NEW d \in In, Provisional(d)
      PROVE  Answers'
  <2>1. StatusMoves
    BY <1>1, Dialogs DEF Provisional, StatusMoves
  <2>2. AnswersSent
    BY <1>1 DEF Provisional, Accepts, Refuses, Send, Msg, AnswersSent
  <2>3. TagKept
    BY <1>1 DEF Provisional, TagKept
  <2>4. ConfirmedByAck
    BY <1>1 DEF Provisional, ConfirmedByAck
  <2>5. QED
    BY <2>1, <2>2, <2>3, <2>4, AnswersKept
<1>2. ASSUME NEW d \in In, Success(d)
      PROVE  Answers'
  <2>1. StatusMoves
    BY <1>2, Dialogs DEF Success, StatusMoves
  <2>2. AnswersSent
    BY <1>2 DEF Success, Accepts, Refuses, Send, Msg, AnswersSent
  <2>3. TagKept
    BY <1>2 DEF Success, Pending, Client, TagKept
  <2>4. ConfirmedByAck
    BY <1>2, Dialogs DEF Success, Tell, ConfirmedByAck
  <2>5. QED
    BY <2>1, <2>2, <2>3, <2>4, AnswersKept
<1>3. ASSUME NEW d \in In, Failure(d)
      PROVE  Answers'
  <2>1. StatusMoves
    BY <1>3, SettleFacts, Dialogs DEF Failure, Pending, Status, StatusMoves
  <2>2. AnswersSent
    BY <1>3 DEF Failure, Accepts, Refuses, Send, Msg, AnswersSent
  <2>3. TagKept
    BY <1>3 DEF Failure, TagKept
  <2>4. ConfirmedByAck
    BY <1>3, Dialogs DEF Failure, Tell, ConfirmedByAck
  <2>5. QED
    BY <2>1, <2>2, <2>3, <2>4, AnswersKept
<1>4. ASSUME NEW d \in In, Accept(d)
      PROVE  Answers'
  <2>1. StatusMoves
    BY <1>4, Dialogs DEF Accept, TakeInvite, StatusMoves
  <2>2. AnswersSent
    BY <1>4, Dialogs DEF Accept, Accepts, Refuses, Send, Msg, TakeInvite, AnswersSent
  <2>3. TagKept
    BY <1>4 DEF Accept, TakeInvite, TagKept
  <2>4. ConfirmedByAck
    BY <1>4 DEF Accept, TakeInvite, ConfirmedByAck
  <2>5. QED
    BY <2>1, <2>2, <2>3, <2>4, AnswersKept
<1>5. ASSUME NEW d \in In, Refuse(d)
      PROVE  Answers'
  <2> DEFINE st == [status EXCEPT ![d] = "Refused"]
  <2>1. st \in [Dialog -> Status] /\ \A x \in Dialog : x # d => st[x] = status[x]
    BY DEF Status
  <2>2. d \in call /\ status' = Renewed(d, st) /\ call' = Replaced(d) /\ status[d] = "Waiting"
    BY <1>5 DEF Refuse, TakeInvite
  <2>3. st[d] = "Refused"
    BY Dialogs
  <2> HIDE DEF st
  <2>4. status'[d] = "Refused" /\ \A x \in In : x # d => status'[x] = status[x] \/ status[x] = "Init"
    BY <2>1, <2>2, <2>3, RenewFacts, Dialogs
  <2>5. StatusMoves
    BY <2>2, <2>4 DEF StatusMoves
  <2>6. AnswersSent
    BY <1>5, <2>2, <2>4 DEF Refuse, Accepts, Refuses, Send, Msg, AnswersSent
  <2>7. TagKept
    BY <1>5 DEF Refuse, TakeInvite, TagKept
  <2>8. ConfirmedByAck
    BY <1>5 DEF Refuse, TakeInvite, ConfirmedByAck
  <2>9. QED
    BY <2>5, <2>6, <2>7, <2>8, AnswersKept
<1>6. ASSUME NEW d \in In, Ring(d)
      PROVE  Answers'
  <2>1. StatusMoves
    BY <1>6, Dialogs DEF Ring, TakeInvite, StatusMoves
  <2>2. AnswersSent
    BY <1>6, Dialogs DEF Ring, Accepts, Refuses, Send, Msg, TakeInvite, AnswersSent
  <2>3. TagKept
    BY <1>6 DEF Ring, TakeInvite, TagKept
  <2>4. ConfirmedByAck
    BY <1>6 DEF Ring, TakeInvite, ConfirmedByAck
  <2>5. QED
    BY <2>1, <2>2, <2>3, <2>4, AnswersKept
<1>7. ASSUME NEW d \in In, Cancel(d)
      PROVE  Answers'
  <2>1. status'[d] = "Refused" /\ \A x \in In : x # d => status'[x] = status[x] \/ status[x] = "Init"
    BY <1>7, SettleFacts, Dialogs DEF Cancel, Status
  <2>2. StatusMoves
    BY <1>7, <2>1 DEF Cancel, StatusMoves
  <2>3. AnswersSent
    BY <1>7, <2>1 DEF Cancel, Accepts, Refuses, Send, Msg, AnswersSent
  <2>4. TagKept
    BY <1>7 DEF Cancel, TagKept
  <2>5. ConfirmedByAck
    BY <1>7 DEF Cancel, ConfirmedByAck
  <2>6. QED
    BY <2>2, <2>3, <2>4, <2>5, AnswersKept
<1>8. ASSUME NEW d \in In, FailureAck(d)
      PROVE  Answers'
  <2>1. StatusMoves
    BY <1>8, Dialogs DEF FailureAck, StatusMoves
  <2>2. AnswersSent
    BY <1>8 DEF FailureAck, Accepts, Refuses, Send, Msg, AnswersSent
  <2>3. TagKept
    BY <1>8 DEF FailureAck, TagKept
  <2>4. ConfirmedByAck
    BY <1>8 DEF FailureAck, ConfirmedByAck
  <2>5. QED
    BY <2>1, <2>2, <2>3, <2>4, AnswersKept
<1>9. ASSUME NEW d \in In, Ack(d)
      PROVE  Answers'
  <2>1. StatusMoves
    BY <1>9, Dialogs DEF Ack, StatusMoves
  <2>2. AnswersSent
    BY <1>9 DEF Ack, Accepts, Refuses, Send, Msg, AnswersSent
  <2>3. TagKept
    BY <1>9 DEF Ack, TagKept
  <2>4. ConfirmedByAck
    BY <1>9, Dialogs DEF Ack, Tell, Acked, ConfirmedByAck
  <2>5. QED
    BY <2>1, <2>2, <2>3, <2>4, AnswersKept
<1>10. ASSUME NEW d \in Dialog, Bye(d)
      PROVE  Answers'
  <2>1. status[d] \in {"Call", "Byeing"} /\ Settle(d, "Close")
    BY <1>10 DEF Bye
  <2>2. StatusMoves
    BY <2>1, SettleFacts, Dialogs DEF Status, StatusMoves
  <2>3. AnswersSent
    BY <1>10 DEF Bye, Accepts, Refuses, Send, Msg, AnswersSent
  <2>4. TagKept
    BY <1>10 DEF Bye, TagKept
  <2>5. ConfirmedByAck
    BY <1>10 DEF Bye, ConfirmedByAck
  <2>6. QED
    BY <2>2, <2>3, <2>4, <2>5, AnswersKept
<1>11. ASSUME NEW d \in Dialog, ByeAnswered(d)
      PROVE  Answers'
  <2>1. status[d] \in {"Byeing"} /\ Settle(d, "Close")
    BY <1>11 DEF ByeAnswered
  <2>2. StatusMoves
    BY <2>1, SettleFacts, Dialogs DEF Status, StatusMoves
  <2>3. AnswersSent
    BY <1>11 DEF ByeAnswered, Accepts, Refuses, Send, Msg, AnswersSent
  <2>4. TagKept
    BY <1>11 DEF ByeAnswered, TagKept
  <2>5. ConfirmedByAck
    BY <1>11 DEF ByeAnswered, ConfirmedByAck
  <2>6. QED
    BY <2>2, <2>3, <2>4, <2>5, AnswersKept
<1>12. ASSUME NEW t \in Timer, Expire(t)
      PROVE  Answers'
  <2>1. StatusMoves
    BY <1>12, Dialogs DEF Expire, StatusMoves
  <2>2. AnswersSent
    BY <1>12 DEF Expire, Accepts, Refuses, Send, Msg, AnswersSent
  <2>3. TagKept
    BY <1>12 DEF Expire, TagKept
  <2>4. ConfirmedByAck
    BY <1>12 DEF Expire, ConfirmedByAck
  <2>5. QED
    BY <2>1, <2>2, <2>3, <2>4, AnswersKept
<1>13. CASE InviteTimeout
  <2>1. CASE Pending
    <3>1. \A x \in In : status'[x] = status[x] \/ status[x] = "Init"
      BY <1>13, <2>1, SettleFacts, Dialogs DEF InviteTimeout, Pending, Status
    <3>2. net' = net \cup {Msg("CANCEL", Out, Out)}
      BY <1>13, <2>1 DEF InviteTimeout, Send
    <3>3. StatusMoves
      BY <3>1 DEF StatusMoves
    <3>4. AnswersSent
      BY <3>2 DEF Accepts, Refuses, Msg, AnswersSent
    <3>5. TagKept
      BY <1>13 DEF InviteTimeout, TagKept
    <3>6. ConfirmedByAck
      BY <1>13, <2>1, Dialogs DEF InviteTimeout, Tell, ConfirmedByAck
    <3>7. QED
      BY <3>3, <3>4, <3>5, <3>6, AnswersKept
  <2>2. CASE ~Pending
    <3>1. UNCHANGED <<net, status, told, remote_tag>>
      BY <1>13, <2>2 DEF InviteTimeout
    <3>2. StatusMoves
      BY <3>1 DEF StatusMoves
    <3>3. AnswersSent
      BY <3>1 DEF Accepts, Refuses, AnswersSent
    <3>4. TagKept
      BY <3>1 DEF TagKept
    <3>5. ConfirmedByAck
      BY <3>1 DEF ConfirmedByAck
    <3>6. QED
      BY <3>2, <3>3, <3>4, <3>5, AnswersKept
  <2>3. QED
    BY <2>1, <2>2
<1>14. ASSUME NEW d \in In, ClearingTimeout(d)
      PROVE  Answers'
  <2>1. StatusMoves
    BY <1>14, Dialogs DEF ClearingTimeout, StatusMoves
  <2>2. AnswersSent
    BY <1>14 DEF ClearingTimeout, Accepts, Refuses, Send, Msg, AnswersSent
  <2>3. TagKept
    BY <1>14 DEF ClearingTimeout, TagKept
  <2>4. ConfirmedByAck
    BY <1>14 DEF ClearingTimeout, ConfirmedByAck
  <2>5. QED
    BY <2>1, <2>2, <2>3, <2>4, AnswersKept
<1>15. ASSUME NEW d \in In, AckTimeout(d)
      PROVE  Answers'
  <2>1. StatusMoves
    BY <1>15, Dialogs DEF AckTimeout, DialogTimeout, StatusMoves
  <2>2. AnswersSent
    BY <1>15 DEF AckTimeout, Accepts, Refuses, Send, Msg, DialogTimeout, AnswersSent
  <2>3. TagKept
    BY <1>15 DEF AckTimeout, DialogTimeout, TagKept
  <2>4. ConfirmedByAck
    BY <1>15 DEF AckTimeout, DialogTimeout, ConfirmedByAck
  <2>5. QED
    BY <2>1, <2>2, <2>3, <2>4, AnswersKept
<1>16. ASSUME NEW d \in Dialog, EndTimeout(d)
      PROVE  Answers'
  <2>1. StatusMoves
    BY <1>16 DEF EndTimeout, StatusMoves
  <2>2. AnswersSent
    BY <1>16 DEF EndTimeout, Accepts, Refuses, AnswersSent
  <2>3. TagKept
    BY <1>16 DEF EndTimeout, TagKept
  <2>4. ConfirmedByAck
    BY <1>16 DEF EndTimeout, ConfirmedByAck
  <2>5. QED
    BY <2>1, <2>2, <2>3, <2>4, AnswersKept
<1>17. ASSUME NEW d \in Dialog, ByeTimeout(d)
      PROVE  Answers'
  <2>1. StatusMoves
    BY <1>17, Dialogs DEF ByeTimeout, DialogTimeout, StatusMoves
  <2>2. AnswersSent
    BY <1>17 DEF ByeTimeout, Accepts, Refuses, Send, Msg, DialogTimeout, AnswersSent
  <2>3. TagKept
    BY <1>17 DEF ByeTimeout, DialogTimeout, TagKept
  <2>4. ConfirmedByAck
    BY <1>17 DEF ByeTimeout, DialogTimeout, ConfirmedByAck
  <2>5. QED
    BY <2>1, <2>2, <2>3, <2>4, AnswersKept
<1>18. CASE Invite
  <2>1. StatusMoves
    BY <1>18, Dialogs DEF Invite, StatusMoves
  <2>2. AnswersSent
    BY <1>18 DEF Invite, Accepts, Refuses, Send, Msg, AnswersSent
  <2>3. TagKept
    BY <1>18 DEF Invite, TagKept
  <2>4. ConfirmedByAck
    BY <1>18 DEF Invite, ConfirmedByAck
  <2>5. QED
    BY <2>1, <2>2, <2>3, <2>4, AnswersKept
<1>19. ASSUME NEW d \in In, Answer(d)
      PROVE  Answers'
  <2>1. StatusMoves
    BY <1>19, Dialogs DEF Answer, StatusMoves
  <2>2. AnswersSent
    BY <1>19, Dialogs DEF Answer, Accepts, Refuses, Send, Msg, TakeInvite, AnswersSent
  <2>3. TagKept
    BY <1>19 DEF Answer, TagKept
  <2>4. ConfirmedByAck
    BY <1>19 DEF Answer, ConfirmedByAck
  <2>5. QED
    BY <2>1, <2>2, <2>3, <2>4, AnswersKept
<1>20. ASSUME NEW d \in Dialog, HangUpCall(d)
      PROVE  Answers'
  BY <1>20, HangUpKeepsAnswers DEF HangUpCall
<1>21. ASSUME NEW d \in Dialog, HangUpRenew(d)
      PROVE  Answers'
  <2>1. \A x \in In : status'[x] = status[x] \/ status[x] = "Init"
    BY <1>21, RenewFacts, Dialogs DEF HangUpRenew
  <2>2. StatusMoves
    BY <2>1 DEF StatusMoves
  <2>3. AnswersSent
    BY <1>21 DEF HangUpRenew, Accepts, Refuses, Send, Msg, AnswersSent
  <2>4. TagKept
    BY <1>21 DEF HangUpRenew, TagKept
  <2>5. ConfirmedByAck
    BY <1>21 DEF HangUpRenew, ConfirmedByAck
  <2>6. QED
    BY <2>2, <2>3, <2>4, <2>5, AnswersKept
<1>22. ASSUME NEW e \in Ends, HangUpIdle(e)
      PROVE  Answers'
  <2>1. CASE \E d \in call : HangUp(d)
    BY <1>22, <2>1, HangUpKeepsAnswers DEF HangUpIdle
  <2>2. CASE UNCHANGED <<net, status, invite_ts, armed>>
    <3>1. StatusMoves
      BY <2>2 DEF StatusMoves
    <3>2. AnswersSent
      BY <2>2 DEF Accepts, Refuses, AnswersSent
    <3>3. TagKept
      BY <1>22 DEF HangUpIdle, TagKept
    <3>4. ConfirmedByAck
      BY <1>22 DEF HangUpIdle, ConfirmedByAck
    <3>5. QED
      BY <3>1, <3>2, <3>3, <3>4, AnswersKept
  <2>3. QED
    BY <1>22, <2>1, <2>2 DEF HangUpIdle
<1>23. CASE UNCHANGED vars
  <2>1. StatusMoves
    BY <1>23 DEF vars, StatusMoves
  <2>2. AnswersSent
    BY <1>23 DEF vars, Accepts, Refuses, AnswersSent
  <2>3. TagKept
    BY <1>23 DEF vars, TagKept
  <2>4. ConfirmedByAck
    BY <1>23 DEF vars, ConfirmedByAck
  <2>5. QED
    BY <2>1, <2>2, <2>3, <2>4, AnswersKept
<1>24. QED
  BY <1>1, <1>2, <1>3, <1>4, <1>5, <1>6, <1>7, <1>8, <1>9, <1>10, <1>11, <1>12,
     <1>13, <1>14, <1>15, <1>16, <1>17, <1>18, <1>19, <1>20, <1>21, <1>22, <1>23
  DEF Next, Receive, Timeout, User

\* Call.hangup completes a transaction with a failure.
LEMMA HangUpCompletes ==
  ASSUME TypeOK, Completes, NEW d \in Dialog, HangUp(d)
  PROVE  Completes'
<1>1. \A x \in In : Refuses(x) => Refuses(x)'
  BY DEF HangUp, Send, Refuses
<1>2. ASSUME NEW x \in In, invite_ts'[x] = "Completed", invite_ts[x] # "Completed"
      PROVE  Refuses(x)'
  <2>1. x = d /\ status[d] = "Invited"
    BY <1>2 DEF HangUp, HungServer
  <2>2. QED
    BY <2>1 DEF HangUp, HungMessage, Send, Refuses
<1>3. QED
  BY <1>1, <1>2 DEF Completes

\* One step keeps the refusals of the transactions that wait for an ACK.
LEMMA StepCompletes == TypeOK /\ Completes /\ [Next]_vars => Completes'
<1> SUFFICES ASSUME TypeOK, Completes, [Next]_vars PROVE Completes'
  OBVIOUS
<1> USE DEF TypeOK, uaVars, txVars, timerVars, historyVars
<1>1. ASSUME NEW d \in In, Provisional(d)
      PROVE  Completes'
  <2>1. \A x \in In : Refuses(x) => Refuses(x)'
    BY <1>1 DEF Provisional, Refuses, Send
  <2>2. \A x \in In : invite_ts'[x] = "Completed" => invite_ts[x] = "Completed"
    BY <1>1 DEF Provisional
  <2>3. QED
    BY <2>1, <2>2 DEF Completes
<1>2. ASSUME NEW d \in In, Success(d)
      PROVE  Completes'
  <2>1. \A x \in In : Refuses(x) => Refuses(x)'
    BY <1>2 DEF Success, Refuses, Send
  <2>2. \A x \in In : invite_ts'[x] = "Completed" => invite_ts[x] = "Completed"
    BY <1>2 DEF Success
  <2>3. QED
    BY <2>1, <2>2 DEF Completes
<1>3. ASSUME NEW d \in In, Failure(d)
      PROVE  Completes'
  <2>1. \A x \in In : Refuses(x) => Refuses(x)'
    BY <1>3 DEF Failure, Refuses, Send
  <2>2. \A x \in In : invite_ts'[x] = "Completed" => invite_ts[x] = "Completed"
    BY <1>3 DEF Failure
  <2>3. QED
    BY <2>1, <2>2 DEF Completes
<1>4. ASSUME NEW d \in In, Accept(d)
      PROVE  Completes'
  <2>1. \A x \in In : Refuses(x) => Refuses(x)'
    BY <1>4 DEF Accept, Refuses, Send, TakeInvite
  <2>2. \A x \in In : invite_ts'[x] = "Completed" => invite_ts[x] = "Completed"
    BY <1>4 DEF Accept, TakeInvite
  <2>3. QED
    BY <2>1, <2>2 DEF Completes
<1>5. ASSUME NEW d \in In, Refuse(d)
      PROVE  Completes'
  <2>1. \A x \in In : Refuses(x) => Refuses(x)'
    BY <1>5 DEF Refuse, Refuses, Send, TakeInvite
  <2>2. Refuses(d)'
    BY <1>5 DEF Refuse, Refuses, Send, TakeInvite
  <2>3. \A x \in In : invite_ts'[x] = "Completed" => invite_ts[x] = "Completed" \/ x = d
    BY <1>5 DEF Refuse, TakeInvite
  <2>4. QED
    BY <2>1, <2>2, <2>3 DEF Completes
<1>6. ASSUME NEW d \in In, Ring(d)
      PROVE  Completes'
  <2>1. \A x \in In : Refuses(x) => Refuses(x)'
    BY <1>6 DEF Ring, Refuses, Send, TakeInvite
  <2>2. \A x \in In : invite_ts'[x] = "Completed" => invite_ts[x] = "Completed"
    BY <1>6 DEF Ring, TakeInvite
  <2>3. QED
    BY <2>1, <2>2 DEF Completes
<1>7. ASSUME NEW d \in In, Cancel(d)
      PROVE  Completes'
  <2>1. \A x \in In : Refuses(x) => Refuses(x)'
    BY <1>7 DEF Cancel, Refuses, Send
  <2>2. Refuses(d)'
    BY <1>7 DEF Cancel, Refuses, Send
  <2>3. \A x \in In : invite_ts'[x] = "Completed" => invite_ts[x] = "Completed" \/ x = d
    BY <1>7 DEF Cancel
  <2>4. QED
    BY <2>1, <2>2, <2>3 DEF Completes
<1>8. ASSUME NEW d \in In, FailureAck(d)
      PROVE  Completes'
  <2>1. \A x \in In : Refuses(x) => Refuses(x)'
    BY <1>8 DEF FailureAck, Refuses, Send
  <2>2. \A x \in In : invite_ts'[x] = "Completed" => invite_ts[x] = "Completed"
    BY <1>8 DEF FailureAck
  <2>3. QED
    BY <2>1, <2>2 DEF Completes
<1>9. ASSUME NEW d \in In, Ack(d)
      PROVE  Completes'
  <2>1. \A x \in In : Refuses(x) => Refuses(x)'
    BY <1>9 DEF Ack, Refuses, Send
  <2>2. \A x \in In : invite_ts'[x] = "Completed" => invite_ts[x] = "Completed"
    BY <1>9 DEF Ack
  <2>3. QED
    BY <2>1, <2>2 DEF Completes
<1>10. ASSUME NEW d \in Dialog, Bye(d)
      PROVE  Completes'
  <2>1. \A x \in In : Refuses(x) => Refuses(x)'
    BY <1>10 DEF Bye, Refuses, Send
  <2>2. \A x \in In : invite_ts'[x] = "Completed" => invite_ts[x] = "Completed"
    BY <1>10 DEF Bye
  <2>3. QED
    BY <2>1, <2>2 DEF Completes
<1>11. ASSUME NEW d \in Dialog, ByeAnswered(d)
      PROVE  Completes'
  <2>1. \A x \in In : Refuses(x) => Refuses(x)'
    BY <1>11 DEF ByeAnswered, Refuses, Send
  <2>2. \A x \in In : invite_ts'[x] = "Completed" => invite_ts[x] = "Completed"
    BY <1>11 DEF ByeAnswered
  <2>3. QED
    BY <2>1, <2>2 DEF Completes
<1>12. ASSUME NEW t \in Timer, Expire(t)
      PROVE  Completes'
  <2>1. \A x \in In : Refuses(x) => Refuses(x)'
    BY <1>12 DEF Expire, Refuses, Send
  <2>2. \A x \in In : invite_ts'[x] = "Completed" => invite_ts[x] = "Completed"
    BY <1>12 DEF Expire
  <2>3. QED
    BY <2>1, <2>2 DEF Completes
<1>13. CASE InviteTimeout
  <2>1. \A x \in In : Refuses(x) => Refuses(x)'
    BY <1>13 DEF InviteTimeout, Refuses, Send
  <2>2. invite_ts' = invite_ts
    BY <1>13 DEF InviteTimeout
  <2>3. QED
    BY <2>1, <2>2 DEF Completes
<1>14. ASSUME NEW d \in In, ClearingTimeout(d)
      PROVE  Completes'
  <2>1. \A x \in In : Refuses(x) => Refuses(x)'
    BY <1>14 DEF ClearingTimeout, Refuses, Send
  <2>2. \A x \in In : invite_ts'[x] = "Completed" => invite_ts[x] = "Completed"
    BY <1>14 DEF ClearingTimeout
  <2>3. QED
    BY <2>1, <2>2 DEF Completes
<1>15. ASSUME NEW d \in In, AckTimeout(d)
      PROVE  Completes'
  <2>1. \A x \in In : Refuses(x) => Refuses(x)'
    BY <1>15 DEF AckTimeout, Refuses, Send, DialogTimeout
  <2>2. \A x \in In : invite_ts'[x] = "Completed" => invite_ts[x] = "Completed"
    BY <1>15 DEF AckTimeout, DialogTimeout
  <2>3. QED
    BY <2>1, <2>2 DEF Completes
<1>16. ASSUME NEW d \in Dialog, EndTimeout(d)
      PROVE  Completes'
  <2>1. \A x \in In : Refuses(x) => Refuses(x)'
    BY <1>16 DEF EndTimeout, Refuses, Send
  <2>2. \A x \in In : invite_ts'[x] = "Completed" => invite_ts[x] = "Completed"
    BY <1>16 DEF EndTimeout
  <2>3. QED
    BY <2>1, <2>2 DEF Completes
<1>17. ASSUME NEW d \in Dialog, ByeTimeout(d)
      PROVE  Completes'
  <2>1. \A x \in In : Refuses(x) => Refuses(x)'
    BY <1>17 DEF ByeTimeout, Refuses, Send, DialogTimeout
  <2>2. \A x \in In : invite_ts'[x] = "Completed" => invite_ts[x] = "Completed"
    BY <1>17 DEF ByeTimeout, DialogTimeout
  <2>3. QED
    BY <2>1, <2>2 DEF Completes
<1>18. CASE Invite
  <2>1. \A x \in In : Refuses(x) => Refuses(x)'
    BY <1>18 DEF Invite, Refuses, Send
  <2>2. \A x \in In : invite_ts'[x] = "Completed" => invite_ts[x] = "Completed"
    BY <1>18 DEF Invite
  <2>3. QED
    BY <2>1, <2>2 DEF Completes
<1>19. ASSUME NEW d \in In, Answer(d)
      PROVE  Completes'
  <2>1. \A x \in In : Refuses(x) => Refuses(x)'
    BY <1>19 DEF Answer, Refuses, Send
  <2>2. \A x \in In : invite_ts'[x] = "Completed" => invite_ts[x] = "Completed"
    BY <1>19 DEF Answer
  <2>3. QED
    BY <2>1, <2>2 DEF Completes
<1>20. ASSUME NEW d \in Dialog, HangUpCall(d)
      PROVE  Completes'
  BY <1>20, HangUpCompletes DEF HangUpCall
<1>21. ASSUME NEW d \in Dialog, HangUpRenew(d)
      PROVE  Completes'
  <2>1. \A x \in In : Refuses(x) => Refuses(x)'
    BY <1>21 DEF HangUpRenew, Refuses, Send
  <2>2. \A x \in In : invite_ts'[x] = "Completed" => invite_ts[x] = "Completed"
    BY <1>21 DEF HangUpRenew
  <2>3. QED
    BY <2>1, <2>2 DEF Completes
<1>22. ASSUME NEW e \in Ends, HangUpIdle(e)
      PROVE  Completes'
  <2>1. CASE \E d \in call : HangUp(d)
    BY <2>1, HangUpCompletes
  <2>2. CASE UNCHANGED <<net, status, invite_ts, armed>>
    BY <2>2 DEF Completes, Refuses
  <2>3. QED
    BY <1>22, <2>1, <2>2 DEF HangUpIdle
<1>23. CASE UNCHANGED vars
  BY <1>23 DEF vars, Completes, Refuses
<1>24. QED
  BY <1>1, <1>2, <1>3, <1>4, <1>5, <1>6, <1>7, <1>8, <1>9, <1>10, <1>11, <1>12,
     <1>13, <1>14, <1>15, <1>16, <1>17, <1>18, <1>19, <1>20, <1>21, <1>22, <1>23
  DEF Next, Receive, Timeout, User

\* Call.hangup sends nothing before the INVITE.
LEMMA HangUpBegun ==
  ASSUME TypeOK, Begun, NEW d \in Dialog, HangUp(d)
  PROVE  Begun'
<1>1. CASE status[Out] = "Init"
  <2>1. net = {} /\ status[d] \in {"Init", "Waiting"}
    BY <1>1, Dialogs DEF Begun
  <2>2. net' = {} /\ status'[d] = status[d]
    BY <2>1 DEF HangUp, HungMessage, HungStatus, Send
  <2>3. status' = status
    BY <2>2 DEF HangUp, TypeOK
  <2>4. QED
    BY <2>2, <2>3 DEF Begun
<1>2. CASE status[Out] # "Init"
  <2>1. status'[Out] # "Init"
    BY <1>2, HangUpFacts, Dialogs DEF HungStatus
  <2>2. QED
    BY <2>1 DEF Begun
<1>3. QED
  BY <1>1, <1>2

\* One step keeps the silence before the INVITE.
LEMMA StepBegun == TypeOK /\ Newest /\ Begun /\ [Next]_vars => Begun'
<1> SUFFICES ASSUME TypeOK, Newest, Begun, [Next]_vars PROVE Begun'
  OBVIOUS
<1> USE DEF TypeOK, uaVars, txVars, timerVars, historyVars
<1>1. ASSUME NEW d \in In, Provisional(d)
      PROVE  Begun'
  <2>1. status[Out] # "Init" /\ status'[Out] # "Init"
    BY <1>1, Dialogs DEF Provisional, Begun
  <2>2. QED
    BY <2>1 DEF Begun
<1>2. ASSUME NEW d \in In, Success(d)
      PROVE  Begun'
  <2>1. status[Out] # "Init" /\ status'[Out] # "Init"
    BY <1>2, Dialogs DEF Success, Begun
  <2>2. QED
    BY <2>1 DEF Begun
<1>3. ASSUME NEW d \in In, Failure(d)
      PROVE  Begun'
  <2>1. status[Out] # "Init"
    BY <1>3 DEF Failure, Begun
  <2>2. Settle(Out, "Close") /\ status[Out] = "Inviting"
    BY <1>3 DEF Failure, Pending
  <2>3. status'[Out] # "Init"
    BY <2>1, <2>2, SettleFacts, Dialogs DEF Status
  <2>4. QED
    BY <2>3 DEF Begun
<1>4. ASSUME NEW d \in In, Accept(d)
      PROVE  Begun'
  <2>1. status[Out] # "Init" /\ status'[Out] # "Init"
    BY <1>4, Dialogs DEF Accept, Begun, TakeInvite
  <2>2. QED
    BY <2>1 DEF Begun
<1>5. ASSUME NEW d \in In, Refuse(d)
      PROVE  Begun'
  <2> DEFINE st == [status EXCEPT ![d] = "Refused"]
  <2>1. st \in [Dialog -> Status] /\ \A x \in Dialog : x # d => st[x] = status[x]
    BY DEF Status
  <2>2. d \in call /\ status' = Renewed(d, st) /\ call' = Replaced(d) /\ status[Out] # "Init"
    BY <1>5 DEF Refuse, TakeInvite, Begun
  <2> HIDE DEF st
  <2>3. status'[Out] # "Init"
    BY <2>1, <2>2, RenewFacts, Dialogs
  <2>4. QED
    BY <2>3 DEF Begun
<1>6. ASSUME NEW d \in In, Ring(d)
      PROVE  Begun'
  <2>1. status[Out] # "Init" /\ status'[Out] # "Init"
    BY <1>6, Dialogs DEF Ring, Begun, TakeInvite
  <2>2. QED
    BY <2>1 DEF Begun
<1>7. ASSUME NEW d \in In, Cancel(d)
      PROVE  Begun'
  <2>1. status[Out] # "Init"
    BY <1>7 DEF Cancel, Begun
  <2>2. Settle(d, "Refused") /\ status[d] # "Init"
    BY <1>7 DEF Cancel
  <2>3. status'[Out] # "Init"
    BY <2>1, <2>2, SettleFacts, Dialogs DEF Status
  <2>4. QED
    BY <2>3 DEF Begun
<1>8. ASSUME NEW d \in In, FailureAck(d)
      PROVE  Begun'
  <2>1. status[Out] # "Init" /\ status'[Out] # "Init"
    BY <1>8, Dialogs DEF FailureAck, Begun
  <2>2. QED
    BY <2>1 DEF Begun
<1>9. ASSUME NEW d \in In, Ack(d)
      PROVE  Begun'
  <2>1. status[Out] # "Init" /\ status'[Out] # "Init"
    BY <1>9, Dialogs DEF Ack, Begun
  <2>2. QED
    BY <2>1 DEF Begun
<1>10. ASSUME NEW d \in Dialog, Bye(d)
      PROVE  Begun'
  <2>1. status[Out] # "Init"
    BY <1>10 DEF Bye, Begun
  <2>2. Settle(d, "Close") /\ status[d] # "Init"
    BY <1>10 DEF Bye
  <2>3. status'[Out] # "Init"
    BY <2>1, <2>2, SettleFacts, Dialogs DEF Status
  <2>4. QED
    BY <2>3 DEF Begun
<1>11. ASSUME NEW d \in Dialog, ByeAnswered(d)
      PROVE  Begun'
  <2>1. status[Out] # "Init"
    BY <1>11 DEF ByeAnswered, Begun
  <2>2. Settle(d, "Close") /\ status[d] # "Init"
    BY <1>11 DEF ByeAnswered
  <2>3. status'[Out] # "Init"
    BY <2>1, <2>2, SettleFacts, Dialogs DEF Status
  <2>4. QED
    BY <2>3 DEF Begun
<1>12. ASSUME NEW t \in Timer, Expire(t)
      PROVE  Begun'
  BY <1>12 DEF Expire, Begun
<1>13. CASE InviteTimeout
  <2>1. CASE Pending
    <3>1. Settle(Out, "Close") /\ status[Out] # "Init"
      BY <1>13, <2>1 DEF InviteTimeout, Pending
    <3>2. status'[Out] # "Init"
      BY <3>1, SettleFacts, Dialogs DEF Status
    <3>3. QED
      BY <3>2 DEF Begun
  <2>2. CASE ~Pending
    BY <1>13, <2>2 DEF InviteTimeout, Begun
  <2>3. QED
    BY <2>1, <2>2
<1>14. ASSUME NEW d \in In, ClearingTimeout(d)
      PROVE  Begun'
  BY <1>14 DEF ClearingTimeout, Begun
<1>15. ASSUME NEW d \in In, AckTimeout(d)
      PROVE  Begun'
  <2>1. net' = net /\ \A x \in Dialog : 
          \/ status'[x] = status[x]
          \/ status[x] \in {"Accepted", "Byeing"} /\ status'[x] = "Close"
    BY <1>15 DEF AckTimeout, DialogTimeout
  <2>2. QED
    BY <2>1, Dialogs DEF Begun
<1>16. ASSUME NEW d \in Dialog, EndTimeout(d)
      PROVE  Begun'
  BY <1>16 DEF EndTimeout, Begun
<1>17. ASSUME NEW d \in Dialog, ByeTimeout(d)
      PROVE  Begun'
  <2>1. net' = net /\ \A x \in Dialog : 
          \/ status'[x] = status[x]
          \/ status[x] \in {"Accepted", "Byeing"} /\ status'[x] = "Close"
    BY <1>17 DEF ByeTimeout, DialogTimeout
  <2>2. QED
    BY <2>1, Dialogs DEF Begun
<1>18. CASE Invite
  <2>1. status'[Out] # "Init"
    BY <1>18, Dialogs DEF Invite
  <2>2. QED
    BY <2>1 DEF Begun
<1>19. ASSUME NEW d \in In, Answer(d)
      PROVE  Begun'
  <2>1. status[Out] # "Init" /\ status'[Out] # "Init"
    BY <1>19, Dialogs DEF Answer, Begun
  <2>2. QED
    BY <2>1 DEF Begun
<1>20. ASSUME NEW d \in Dialog, HangUpCall(d)
      PROVE  Begun'
  BY <1>20, HangUpBegun DEF HangUpCall
<1>21. ASSUME NEW d \in Dialog, HangUpRenew(d)
      PROVE  Begun'
  <2>1. \A x \in Dialog : status'[x] = status[x] \/ (x \in In /\ status'[x] = "Waiting")
    BY <1>21, RenewFacts, Dialogs DEF HangUpRenew
  <2>2. QED
    BY <1>21, <2>1, Dialogs DEF HangUpRenew, Begun
<1>22. ASSUME NEW e \in Ends, HangUpIdle(e)
      PROVE  Begun'
  <2>1. CASE \E d \in call : HangUp(d)
    BY <2>1, HangUpBegun
  <2>2. CASE UNCHANGED <<net, status, invite_ts, armed>>
    BY <2>2 DEF Begun
  <2>3. QED
    BY <1>22, <2>1, <2>2 DEF HangUpIdle
<1>23. CASE UNCHANGED vars
  BY <1>23 DEF vars, Begun
<1>24. QED
  BY <1>1, <1>2, <1>3, <1>4, <1>5, <1>6, <1>7, <1>8, <1>9, <1>10, <1>11, <1>12,
     <1>13, <1>14, <1>15, <1>16, <1>17, <1>18, <1>19, <1>20, <1>21, <1>22, <1>23
  DEF Next, Receive, Timeout, User

\* One step keeps the caller in a call only after an answer.
LEMMA StepHeld == TypeOK /\ Newest /\ Held /\ [Next]_vars => Held'
<1> SUFFICES ASSUME TypeOK, Newest, Held, [Next]_vars PROVE Held'
  OBVIOUS
<1> USE DEF TypeOK, uaVars, txVars, timerVars, historyVars
<1>1. ASSUME NEW d \in In, Provisional(d)
      PROVE  Held'
  BY <1>1, Dialogs DEF Provisional, Held
<1>2. ASSUME NEW d \in In, Success(d)
      PROVE  Held'
  <2>1. "accepted" \in told'[Out]
    BY <1>2, Dialogs DEF Success, Tell
  <2>2. QED
    BY <2>1 DEF Held
<1>3. ASSUME NEW d \in In, Failure(d)
      PROVE  Held'
  <2>1. Settle(Out, "Close") /\ status[Out] # "Init"
    BY <1>3 DEF Failure, Pending
  <2>2. status'[Out] \in {"Call", "Byeing"} => status[Out] \in {"Call", "Byeing"}
    BY <2>1, SettleFacts, Dialogs DEF Status
  <2>3. "accepted" \in told[Out] => "accepted" \in told'[Out]
    BY <1>3, Dialogs DEF Failure, Tell
  <2>4. QED
    BY <2>2, <2>3 DEF Held
<1>4. ASSUME NEW d \in In, Accept(d)
      PROVE  Held'
  BY <1>4, Dialogs DEF Accept, TakeInvite, Held
<1>5. ASSUME NEW d \in In, Refuse(d)
      PROVE  Held'
  <2> DEFINE st == [status EXCEPT ![d] = "Refused"]
  <2>1. st \in [Dialog -> Status] /\ \A x \in Dialog : x # d => st[x] = status[x]
    BY DEF Status
  <2>2. d \in call /\ status' = Renewed(d, st) /\ call' = Replaced(d) /\ told' = told
    BY <1>5 DEF Refuse, TakeInvite, historyVars
  <2> HIDE DEF st
  <2>3. status'[Out] = status[Out]
    BY <2>1, <2>2, RenewFacts, Dialogs
  <2>4. QED
    BY <2>2, <2>3 DEF Held
<1>6. ASSUME NEW d \in In, Ring(d)
      PROVE  Held'
  BY <1>6, Dialogs DEF Ring, TakeInvite, Held
<1>7. ASSUME NEW d \in In, Cancel(d)
      PROVE  Held'
  <2>1. Settle(d, "Refused") /\ status[d] # "Init"
    BY <1>7 DEF Cancel
  <2>2. status'[Out] \in {"Call", "Byeing"} => status[Out] \in {"Call", "Byeing"}
    BY <2>1, SettleFacts, Dialogs DEF Status
  <2>3. "accepted" \in told[Out] => "accepted" \in told'[Out]
    BY <1>7, Dialogs DEF Cancel, Tell
  <2>4. QED
    BY <2>2, <2>3 DEF Held
<1>8. ASSUME NEW d \in In, FailureAck(d)
      PROVE  Held'
  BY <1>8, Dialogs DEF FailureAck, Held
<1>9. ASSUME NEW d \in In, Ack(d)
      PROVE  Held'
  <2>1. status'[Out] \in {"Call", "Byeing"} => status[Out] \in {"Call", "Byeing"}
    BY <1>9, Dialogs DEF Ack, Tell
  <2>2. "accepted" \in told[Out] => "accepted" \in told'[Out]
    BY <1>9, Dialogs DEF Ack, Tell
  <2>3. QED
    BY <2>1, <2>2 DEF Held
<1>10. ASSUME NEW d \in Dialog, Bye(d)
      PROVE  Held'
  <2>1. Settle(d, "Close") /\ status[d] # "Init"
    BY <1>10 DEF Bye
  <2>2. status'[Out] \in {"Call", "Byeing"} => status[Out] \in {"Call", "Byeing"}
    BY <2>1, SettleFacts, Dialogs DEF Status
  <2>3. "accepted" \in told[Out] => "accepted" \in told'[Out]
    BY <1>10, Dialogs DEF Bye, Tell
  <2>4. QED
    BY <2>2, <2>3 DEF Held
<1>11. ASSUME NEW d \in Dialog, ByeAnswered(d)
      PROVE  Held'
  <2>1. Settle(d, "Close") /\ status[d] # "Init"
    BY <1>11 DEF ByeAnswered
  <2>2. status'[Out] \in {"Call", "Byeing"} => status[Out] \in {"Call", "Byeing"}
    BY <2>1, SettleFacts, Dialogs DEF Status
  <2>3. "accepted" \in told[Out] => "accepted" \in told'[Out]
    BY <1>11, Dialogs DEF ByeAnswered, Tell
  <2>4. QED
    BY <2>2, <2>3 DEF Held
<1>12. ASSUME NEW t \in Timer, Expire(t)
      PROVE  Held'
  BY <1>12, Dialogs DEF Expire, Held
<1>13. CASE InviteTimeout
  <2>1. status'[Out] \in {"Call", "Byeing"} => status[Out] \in {"Call", "Byeing"}
    <3>1. CASE Pending
      <4>1. Settle(Out, "Close") /\ status[Out] # "Init"
        BY <1>13, <3>1 DEF InviteTimeout, Pending
      <4>2. QED
        BY <4>1, SettleFacts, Dialogs DEF Status
    <3>2. CASE ~Pending
      BY <1>13, <3>2 DEF InviteTimeout
    <3>3. QED
      BY <3>1, <3>2
  <2>2. "accepted" \in told[Out] => "accepted" \in told'[Out]
    BY <1>13, Dialogs DEF InviteTimeout, Tell
  <2>3. QED
    BY <2>1, <2>2 DEF Held
<1>14. ASSUME NEW d \in In, ClearingTimeout(d)
      PROVE  Held'
  BY <1>14, Dialogs DEF ClearingTimeout, Held
<1>15. ASSUME NEW d \in In, AckTimeout(d)
      PROVE  Held'
  BY <1>15, Dialogs DEF AckTimeout, DialogTimeout, Held
<1>16. ASSUME NEW d \in Dialog, EndTimeout(d)
      PROVE  Held'
  BY <1>16, Dialogs DEF EndTimeout, Held
<1>17. ASSUME NEW d \in Dialog, ByeTimeout(d)
      PROVE  Held'
  BY <1>17, Dialogs DEF ByeTimeout, DialogTimeout, Held
<1>18. CASE Invite
  BY <1>18, Dialogs DEF Invite, Held
<1>19. ASSUME NEW d \in In, Answer(d)
      PROVE  Held'
  BY <1>19, Dialogs DEF Answer, Held
<1>20. ASSUME NEW d \in Dialog, HangUpCall(d)
      PROVE  Held'
  <2>1. status'[Out] \in {"Call", "Byeing"} => status[Out] \in {"Call", "Byeing"}
    BY <1>20, HangUpFacts, Dialogs DEF HangUpCall, HungStatus
  <2>2. QED
    BY <1>20, <2>1 DEF HangUpCall, Held
<1>21. ASSUME NEW d \in Dialog, HangUpRenew(d)
      PROVE  Held'
  <2>1. status'[Out] = status[Out] \/ status'[Out] = "Waiting"
    BY <1>21, RenewFacts, Dialogs DEF HangUpRenew
  <2>2. QED
    BY <1>21, <2>1, Dialogs DEF HangUpRenew, Held
<1>22. ASSUME NEW e \in Ends, HangUpIdle(e)
      PROVE  Held'
  <2>1. status'[Out] \in {"Call", "Byeing"} => status[Out] \in {"Call", "Byeing"}
    <3>1. CASE UNCHANGED status
      BY <3>1
    <3>2. CASE \E d \in call : HangUp(d)
      BY <3>2, HangUpFacts, Dialogs DEF HungStatus
    <3>3. QED
      BY <1>22, <3>1, <3>2 DEF HangUpIdle
  <2>2. QED
    BY <1>22, <2>1 DEF HangUpIdle, Held
<1>23. CASE UNCHANGED vars
  BY <1>23 DEF vars, Held
<1>24. QED
  BY <1>1, <1>2, <1>3, <1>4, <1>5, <1>6, <1>7, <1>8, <1>9, <1>10, <1>11, <1>12,
     <1>13, <1>14, <1>15, <1>16, <1>17, <1>18, <1>19, <1>20, <1>21, <1>22, <1>23
  DEF Next, Receive, Timeout, User

LEMMA InitIInv == Init => IInv
<1> SUFFICES ASSUME Init PROVE IInv
  OBVIOUS
<1> USE DEF Init
<1>1. TypeOK
  BY IncomingAssumption, Dialogs
  DEF TypeOK, Status, ClientState, ServerState, Outcome, Ends, Dialog, In, Out
<1>2. Newest
  BY Dialogs DEF Newest, In
<1>3. Completes /\ Begun /\ Held
  BY Dialogs DEF Completes, Begun, Held
<1>4. Client
  BY Dialogs DEF Client, Accepts, Acked
<1>5. Answers
  BY Dialogs DEF Answers, Accepts, Refuses
<1>6. QED
  BY <1>1, <1>2, <1>3, <1>4, <1>5 DEF IInv

LEMMA StepIInv == IInv /\ [Next]_vars => IInv'
  BY StepTypes, StepNewest, StepClient, StepAnswers, StepCompletes, StepBegun, StepHeld DEF IInv

LEMMA Invariant == Spec => []IInv
  BY InitIInv, StepIInv, PTL DEF Spec

\* The types hold, however often the callee takes the INVITE for a new call.
THEOREM TypeCorrect == Spec => []TypeOK
<1>1. IInv => TypeOK
  BY DEF IInv
<1>2. QED
  BY <1>1, Invariant, PTL

\* The caller's application hears of one outcome.
THEOREM OneOutcomeAlways == Spec => []OneOutcome
<1>1. IInv => OneOutcome
  <2> SUFFICES ASSUME IInv PROVE Cardinality(told[Out] \cap Outcome) <= 1
    BY DEF OneOutcome
  <2>1. told[Out] \in {{}, {"accepted"}, {"refused"}, {"timeout"}}
    BY DEF IInv, Client
  <2>2. CASE told[Out] = {}
    <3>1. told[Out] \cap Outcome = {}
      BY <2>2
    <3>2. QED
      BY <3>1, FS_EmptySet
  <2>3. CASE told[Out] # {}
    <3>1. PICK what \in Outcome : told[Out] = {what}
      BY <2>1, <2>3 DEF Outcome
    <3>2. told[Out] \cap Outcome = {what}
      BY <3>1
    <3>3. QED
      BY <3>2, FS_Singleton
  <2>4. QED
    BY <2>2, <2>3
<1>2. QED
  BY <1>1, Invariant, PTL

\* The ends agree on who talks to whom.
THEOREM AgreementAlways == Spec => []Agreement
<1>1. IInv => Agreement
  <2> SUFFICES ASSUME IInv PROVE Agreement
    OBVIOUS
  <2>1. \A d \in In : "confirmed" \in told[d] => remote_tag = d
    BY DEF IInv, Answers
  <2>2. remote_tag # Out => "accepted" \in told[Out] /\ Msg("2xx", remote_tag, remote_tag) \in net
    BY DEF IInv, Client, Accepts
  <2>3. \A d \in In : ~ {Msg("2xx", d, d), Msg("failure", d, d)} \subseteq net
    BY DEF IInv, Answers, Accepts, Refuses
  <2>4. QED
    BY <2>1, <2>2, <2>3 DEF Agreement
<1>2. QED
  BY <1>1, Invariant, PTL

=============================================================================
