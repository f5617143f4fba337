--------------------------- MODULE UserAgentProofs ---------------------------
(***************************************************************************)
(* Proofs that the UserAgents of SipDialog know what their calls are at.   *)
(* The user's thread goes through hangup in three steps, and every         *)
(* callback may come between them.                                         *)
(***************************************************************************)
EXTENDS SipDialogProofs

\* The caller's UserAgent is idle with its call only in hangup, which then
\* lets go of it; outside hangup it waits for the answer or is in the call.
CallerHolds ==
  /\ Out \notin call => call_state["caller"] = "Idle" /\ user["caller"] # "renew"
  /\ Out \in call =>
       /\ status[Out] # "Init"
       /\ call_state["caller"] = "Idle" <=> user["caller"] = "renew"
       /\ user["caller"] = "none" =>
            \/ call_state["caller"] = "Outgoing" /\ status[Out] = "Inviting"
            \/ call_state["caller"] = "InCall" /\ status[Out] = "Call"

\* What the callee's next dialogs are like, and what a dialog keeps of its past.
Unused ==
  \A d \in call \cap In : \A x \in In :
    x > d => invite_ts[x] = "Waiting" /\ x \notin hung

Past ==
  \A d \in In :
    /\ <<"clearing", d>> \in armed \cup firing => status[d] = "Close"
    /\ "confirmed" \in told[d] => status[d] \in {"Call", "Byeing", "Close"}

\* The callee's UserAgent and the dialog of its call.
Listens ==
  \A d \in call \cap In :
    /\ status[d] = "Waiting" => call_state["callee"] = "Idle"
    /\ call_state["callee"] = "Idle" /\ user["callee"] # "renew" =>
         status[d] = "Waiting" /\ (d \in hung \/ invite_ts[d] = "Waiting")

HangsUp ==
  /\ user["callee"] = "renew" =>
       /\ call_state["callee"] = "Idle"
       /\ \A d \in call \cap In : status[d] \notin {"Waiting", "Invited"}
  /\ user["callee"] = "none" /\ call_state["callee"] # "Idle" =>
       \A d \in call \cap In :
         \/ status[d] \in {"Invited", "Accepted", "Call"}
         \/ status[d] = "Close" /\ "confirmed" \notin told[d]

CalleeHolds == Unused /\ Past /\ Listens /\ HangsUp

UserInv == CallerHolds /\ CalleeHolds

-----------------------------------------------------------------------------
\* The two ends, and a dialog settles for its own end only.
LEMMA TwoEnds ==
  /\ "caller" \in Ends /\ "callee" \in Ends /\ End(Out) = "caller"
  /\ \A d \in In : End(d) = "callee"
  BY Dialogs DEF Ends, End

LEMMA SettleEnds ==
  ASSUME TypeOK, NEW d \in Dialog, NEW st, Settle(d, st)
  PROVE  /\ \A e \in Ends : e # End(d) => call_state'[e] = call_state[e]
         /\ d \in call /\ call_state[End(d)] # "Idle" =>
              call_state'[End(d)] = "Idle" /\ call' = Replaced(d)
         /\ ~(d \in call /\ call_state[End(d)] # "Idle") =>
              call_state' = call_state /\ call' = call
  BY Dialogs DEF Settle, TypeOK, uaVars

\* What a new call of one end leaves of the other's.
LEMMA Replacing ==
  /\ Out \notin Replaced(Out) /\ Replaced(Out) \cap In = call \cap In
  /\ \A d \in In : /\ Out \in Replaced(d) <=> Out \in call
                   /\ \A x \in Replaced(d) \cap In : x \in Fresh(d) \/ (x \in call /\ x # d)
  BY Dialogs DEF Replaced, Fresh

\* The caller's UserAgent agrees as long as nothing of the caller changes.
CallerSame ==
  /\ Out \in call' <=> Out \in call
  /\ status'[Out] = status[Out]
  /\ call_state'["caller"] = call_state["caller"] /\ user'["caller"] = user["caller"]

LEMMA CallerKept == CallerHolds /\ CallerSame => CallerHolds'
  BY DEF CallerHolds, CallerSame

\* Nothing of the caller changes when a dialog of the callee settles, or is
\* hung up.
LEMMA SettleAside ==
  ASSUME TypeOK, Newest, NEW d \in In, NEW st \in Status, Settle(d, st), status[d] # "Init",
         user' = user
  PROVE  CallerSame
<1>1. status'[Out] = status[Out]
  BY SettleFacts, Dialogs
<1>2. call_state'["caller"] = call_state["caller"]
  BY SettleEnds, TwoEnds, Dialogs
<1>3. Out \in call' <=> Out \in call
  BY SettleEnds, Replacing, Dialogs
<1>4. QED
  BY <1>1, <1>2, <1>3 DEF CallerSame

LEMMA HangUpAside ==
  ASSUME TypeOK, NEW d \in In, HangUp(d)
  PROVE  status'[Out] = status[Out]
  BY HangUpFacts, Dialogs

\* One step keeps the caller's UserAgent and its call together.
LEMMA StepCaller == IInv /\ CallerHolds /\ [Next]_vars => CallerHolds'
<1> SUFFICES ASSUME IInv, CallerHolds, [Next]_vars PROVE CallerHolds'
  OBVIOUS
<1>0. TypeOK /\ Newest
  BY DEF IInv
<1> USE DEF uaVars, txVars, timerVars, historyVars
<1>1. ASSUME NEW d \in In, Provisional(d)
      PROVE  CallerHolds'
  BY <1>1, CallerKept DEF Provisional, CallerSame
<1>2. ASSUME NEW d \in In, Success(d)
      PROVE  CallerHolds'
  <2>1. status[Out] = "Inviting" /\ user' = user /\ call' = call
    BY <1>2 DEF Success, Pending
  <2>2. CASE Out \notin call
    <3>1. call_state' = call_state
      BY <1>2, <2>2 DEF Success
    <3>2. QED
      BY <2>1, <2>2, <3>1 DEF CallerHolds
  <2>3. CASE Out \in call /\ call_state["caller"] = "Outgoing"
    <3>1. status'[Out] = "Call" /\ call_state'["caller"] = "InCall"
      BY <1>0, <1>2, <2>3, Dialogs, TwoEnds DEF Success, TypeOK
    <3>2. QED
      BY <2>1, <2>3, <3>1 DEF CallerHolds
  <2>4. CASE Out \in call /\ call_state["caller"] # "Outgoing"
    <3>1. status'[Out] = "Byeing" /\ call_state' = call_state
      BY <1>0, <1>2, <2>4, Dialogs DEF Success, TypeOK
    <3>2. user["caller"] # "none"
      BY <2>1, <2>4 DEF CallerHolds
    <3>3. QED
      BY <2>1, <2>4, <3>1, <3>2 DEF CallerHolds
  <2>5. QED
    BY <2>2, <2>3, <2>4
<1>3. ASSUME NEW st \in Status, st # "Init", Settle(Out, st), status[Out] # "Init", user' = user
      PROVE  CallerHolds'
  <2>1. status'[Out] = st
    BY <1>0, <1>3, SettleFacts, Dialogs
  <2>2. CASE Out \in call /\ call_state["caller"] # "Idle"
    <3>1. call_state'["caller"] = "Idle" /\ Out \notin call'
      BY <1>0, <1>3, <2>2, SettleEnds, Replacing, Dialogs, TwoEnds
    <3>2. user["caller"] # "renew"
      BY <2>2 DEF CallerHolds
    <3>3. QED
      BY <1>3, <3>1, <3>2 DEF CallerHolds
  <2>3. CASE ~(Out \in call /\ call_state["caller"] # "Idle")
    <3>1. call_state' = call_state /\ call' = call
      BY <1>0, <1>3, <2>3, SettleEnds, Dialogs, TwoEnds
    <3>2. QED
      BY <1>3, <2>1, <2>3, <3>1 DEF CallerHolds
  <2>4. QED
    BY <2>2, <2>3
<1>4. ASSUME NEW d \in In, Failure(d)
      PROVE  CallerHolds'
  BY <1>3, <1>4 DEF Failure, Pending, Status
<1>5. ASSUME NEW d \in In, Accept(d)
      PROVE  CallerHolds'
  BY <1>0, <1>5, CallerKept, Dialogs, TwoEnds DEF Accept, TakeInvite, CallerSame, TypeOK
<1>6. ASSUME NEW d \in In, Refuse(d)
      PROVE  CallerHolds'
  <2> DEFINE st == [status EXCEPT ![d] = "Refused"]
  <2>1. st \in [Dialog -> Status] /\ \A x \in Dialog : x # d => st[x] = status[x]
    BY <1>0 DEF Status, TypeOK
  <2>2. d \in call /\ status' = Renewed(d, st) /\ call' = Replaced(d)
    BY <1>6 DEF Refuse, TakeInvite
  <2>3. call_state' = call_state /\ user' = user
    BY <1>6 DEF Refuse, TakeInvite
  <2> HIDE DEF st
  <2>4. status'[Out] = status[Out]
    BY <1>0, <2>1, <2>2, RenewFacts, Dialogs
  <2>5. Out \in call' <=> Out \in call
    BY <2>2, Replacing
  <2>6. QED
    BY <2>3, <2>4, <2>5, CallerKept DEF CallerSame
<1>7. ASSUME NEW d \in In, Ring(d)
      PROVE  CallerHolds'
  BY <1>0, <1>7, CallerKept, Dialogs, TwoEnds DEF Ring, TakeInvite, CallerSame, TypeOK
<1>8. ASSUME NEW d \in In, Cancel(d)
      PROVE  CallerHolds'
  BY <1>0, <1>8, SettleAside, CallerKept DEF Cancel, Status
<1>9. ASSUME NEW d \in In, FailureAck(d)
      PROVE  CallerHolds'
  BY <1>0, <1>9, CallerKept, Dialogs DEF FailureAck, CallerSame, TypeOK
<1>10. ASSUME NEW d \in In, Ack(d)
       PROVE  CallerHolds'
  BY <1>0, <1>10, CallerKept, Dialogs DEF Ack, CallerSame, TypeOK
<1>11. ASSUME NEW d \in Dialog, Settle(d, "Close"), status[d] \in {"Call", "Byeing"}, user' = user
       PROVE  CallerHolds'
  <2>1. CASE d = Out
    BY <1>3, <1>11, <2>1 DEF Status
  <2>2. CASE d \in In
    BY <1>0, <1>11, <2>2, SettleAside, CallerKept DEF Status
  <2>3. QED
    BY <2>1, <2>2, Dialogs
<1>12. ASSUME NEW d \in Dialog, Bye(d)
       PROVE  CallerHolds'
  BY <1>11, <1>12 DEF Bye
<1>13. ASSUME NEW d \in Dialog, ByeAnswered(d)
       PROVE  CallerHolds'
  BY <1>11, <1>13 DEF ByeAnswered
<1>14. ASSUME NEW t \in Timer, Expire(t)
       PROVE  CallerHolds'
  BY <1>14, CallerKept DEF Expire, CallerSame
<1>15. CASE InviteTimeout
  <2>1. CASE Pending
    BY <1>3, <1>15, <2>1 DEF InviteTimeout, Pending, Status
  <2>2. CASE ~Pending
    BY <1>15, <2>2, CallerKept DEF InviteTimeout, CallerSame
  <2>3. QED
    BY <2>1, <2>2
<1>16. ASSUME NEW d \in In, ClearingTimeout(d)
       PROVE  CallerHolds'
  BY <1>16, CallerKept DEF ClearingTimeout, CallerSame
<1>17. ASSUME NEW d \in In, AckTimeout(d)
       PROVE  CallerHolds'
  BY <1>0, <1>17, CallerKept, Dialogs DEF AckTimeout, DialogTimeout, CallerSame, TypeOK
<1>18. ASSUME NEW d \in Dialog, EndTimeout(d)
       PROVE  CallerHolds'
  BY <1>18, CallerKept DEF EndTimeout, CallerSame
<1>19. ASSUME NEW d \in Dialog, ByeTimeout(d)
       PROVE  CallerHolds'
  <2>1. /\ call' = call /\ call_state' = call_state /\ user' = user
        /\ status'[Out] = status[Out] \/ (status[Out] = "Byeing" /\ status'[Out] = "Close")
    BY <1>0, <1>19, Dialogs DEF ByeTimeout, DialogTimeout, TypeOK
  <2>2. QED
    BY <2>1 DEF CallerHolds
<1>20. CASE Invite
  <2>1. /\ status[Out] = "Init" /\ status'[Out] = "Inviting"
        /\ call_state'["caller"] = "Outgoing" /\ Out \in call' /\ user' = user
    BY <1>0, <1>20, Dialogs, TwoEnds DEF Invite, TypeOK
  <2>2. user["caller"] # "renew"
    BY <2>1 DEF CallerHolds
  <2>3. QED
    BY <2>1, <2>2 DEF CallerHolds
<1>21. ASSUME NEW d \in In, Answer(d)
       PROVE  CallerHolds'
  BY <1>0, <1>21, CallerKept, Dialogs, TwoEnds DEF Answer, CallerSame, TypeOK
<1>22. ASSUME NEW d \in Dialog, HangUpCall(d)
       PROVE  CallerHolds'
  <2>1. /\ HangUp(d) /\ d \in call /\ user[End(d)] = "none"
        /\ call' = call /\ call_state' = call_state /\ user' = [user EXCEPT ![End(d)] = "idle"]
    BY <1>22 DEF HangUpCall
  <2>2. CASE d = Out
    <3>1. user["caller"] = "none" /\ user'["caller"] = "idle"
      BY <1>0, <2>1, <2>2, TwoEnds DEF TypeOK
    <3>2. status'[Out] # "Init"
      BY <1>0, <2>1, <2>2, HangUpFacts, Dialogs DEF CallerHolds, HungStatus
    <3>3. QED
      BY <2>1, <2>2, <3>1, <3>2 DEF CallerHolds
  <2>3. CASE d \in In
    <3>1. user'["caller"] = user["caller"]
      BY <1>0, <2>1, <2>3, TwoEnds DEF TypeOK
    <3>2. QED
      BY <1>0, <2>1, <2>3, <3>1, HangUpAside, CallerKept DEF CallerSame
  <2>4. QED
    BY <2>2, <2>3, Dialogs
<1>23. ASSUME NEW d \in Dialog, HangUpRenew(d)
       PROVE  CallerHolds'
  <2>1. /\ user[End(d)] = "renew" /\ d \in call
        /\ call' = Replaced(d) /\ status' = Renewed(d, status) /\ call_state' = call_state
        /\ user' = [user EXCEPT ![End(d)] = "none"]
    BY <1>23 DEF HangUpRenew
  <2>2. CASE d = Out
    <3>1. Out \notin call' /\ user'["caller"] = "none" /\ user["caller"] = "renew"
      BY <1>0, <2>1, <2>2, Replacing, TwoEnds DEF TypeOK
    <3>2. QED
      BY <2>1, <2>2, <3>1 DEF CallerHolds
  <2>3. CASE d \in In
    <3>1. user'["caller"] = user["caller"] /\ (Out \in call' <=> Out \in call)
      BY <1>0, <2>1, <2>3, Replacing, TwoEnds DEF TypeOK
    <3>2. status \in [Dialog -> Status] /\ \A x \in Dialog : x # d => status[x] = status[x]
      BY <1>0 DEF TypeOK
    <3>3. status'[Out] = status[Out]
      BY <1>0, <2>1, <2>3, <3>2, RenewFacts, Dialogs
    <3>4. QED
      BY <2>1, <3>1, <3>3, CallerKept DEF CallerSame
  <2>4. QED
    BY <2>2, <2>3, Dialogs
<1>24. ASSUME NEW e \in Ends, HangUpIdle(e)
       PROVE  CallerHolds'
  <2>1. call_state' = [call_state EXCEPT ![e] = "Idle"] /\ call' = call /\ user[e] = "idle"
    BY <1>24 DEF HangUpIdle
  <2>2. CASE call_state[e] = "Idle" /\ user' = [user EXCEPT ![e] = "none"] /\ status' = status
    <3>1. call_state' = call_state
      BY <1>0, <2>1, <2>2 DEF TypeOK
    <3>2. CASE e = "caller"
      <4>1. Out \notin call
        BY <2>1, <2>2, <3>2 DEF CallerHolds
      <4>2. user'["caller"] = "none"
        BY <1>0, <2>2, <3>2, TwoEnds DEF TypeOK
      <4>3. QED
        BY <2>1, <3>1, <4>1, <4>2 DEF CallerHolds
    <3>3. CASE e # "caller"
      <4>1. user'["caller"] = user["caller"]
        BY <1>0, <2>2, <3>3, TwoEnds DEF TypeOK
      <4>2. QED
        BY <2>1, <2>2, <3>1, <4>1, CallerKept DEF CallerSame
    <3>4. QED
      BY <3>2, <3>3
  <2>3. CASE /\ call_state[e] # "Idle" /\ user' = [user EXCEPT ![e] = "renew"]
             /\ \E d \in call : End(d) = e /\ HangUp(d)
    <3>1. PICK d \in call : End(d) = e /\ HangUp(d)
      BY <2>3
    <3>2. d \in Dialog
      BY <1>0 DEF TypeOK
    <3>3. CASE d = Out
      <4>1. e = "caller" /\ call_state'["caller"] = "Idle" /\ user'["caller"] = "renew"
        BY <1>0, <2>1, <2>3, <3>1, <3>3, TwoEnds DEF TypeOK
      <4>2. status'[Out] # "Init" /\ Out \in call'
        BY <1>0, <2>1, <3>1, <3>3, HangUpFacts, Dialogs DEF CallerHolds, HungStatus
      <4>3. QED
        BY <4>1, <4>2 DEF CallerHolds
    <3>4. CASE d \in In
      <4>1. e = "callee"
        BY <3>1, <3>4, TwoEnds
      <4>2. call_state'["caller"] = call_state["caller"] /\ user'["caller"] = user["caller"]
        BY <1>0, <2>1, <2>3, <4>1, TwoEnds DEF TypeOK
      <4>3. QED
        BY <1>0, <2>1, <3>1, <3>4, <4>2, HangUpAside, CallerKept DEF CallerSame
    <3>5. QED
      BY <3>2, <3>3, <3>4, Dialogs
  <2>4. QED
    BY <1>24, <2>2, <2>3 DEF HangUpIdle
<1>25. CASE UNCHANGED vars
  BY <1>25, CallerKept DEF vars, CallerSame
<1>26. QED
  BY <1>1, <1>2, <1>4, <1>5, <1>6, <1>7, <1>8, <1>9, <1>10, <1>12, <1>13, <1>14, <1>15,
     <1>16, <1>17, <1>18, <1>19, <1>20, <1>21, <1>22, <1>23, <1>24, <1>25
  DEF Next, Receive, Timeout, User

-----------------------------------------------------------------------------
\* The callee's UserAgent agrees as long as nothing of the callee changes.
CalleeSame ==
  /\ call' \cap In = call \cap In
  /\ \A d \in In : /\ status'[d] = status[d] /\ told'[d] = told[d]
                   /\ invite_ts'[d] = invite_ts[d] /\ (d \in hung' <=> d \in hung)
                   /\ <<"clearing", d>> \in armed' \cup firing' =>
                        <<"clearing", d>> \in armed \cup firing
  /\ call_state'["callee"] = call_state["callee"] /\ user'["callee"] = user["callee"]

LEMMA CalleeKept ==
  ASSUME CalleeHolds, CalleeSame
  PROVE  CalleeHolds'
<1> USE DEF CalleeHolds, CalleeSame
<1>1. Unused'
  BY DEF Unused
<1>2. Past'
  BY DEF Past
<1>3. Listens'
  BY DEF Listens
<1>4. HangsUp'
  BY DEF HangsUp
<1>5. QED
  BY <1>1, <1>2, <1>3, <1>4

\* The caller's dialog settles, or is hung up: nothing of the callee changes.
LEMMA SettleOut ==
  ASSUME TypeOK, NEW st \in Status, Settle(Out, st)
  PROVE  /\ \A x \in In : status'[x] = status[x]
         /\ call' \cap In = call \cap In /\ call_state'["callee"] = call_state["callee"]
<1>1. \A x \in Dialog : x \notin Fresh(Out)
  BY DEF Fresh
<1>2. \A x \in In : status'[x] = status[x]
  BY <1>1, Dialogs DEF Settle, Renewed, TypeOK
<1>3. call' \cap In = call \cap In /\ call_state'["callee"] = call_state["callee"]
  BY SettleEnds, Replacing, TwoEnds, Dialogs
<1>4. QED
  BY <1>2, <1>3

LEMMA HangUpOut ==
  ASSUME TypeOK, HangUp(Out)
  PROVE  \A x \in In : /\ status'[x] = status[x] /\ invite_ts'[x] = invite_ts[x]
                       /\ <<"clearing", x>> \in armed' => <<"clearing", x>> \in armed
<1>1. \A x \in In : status'[x] = status[x] /\ invite_ts'[x] = invite_ts[x]
  BY Dialogs DEF HangUp, TypeOK
<1>2. \A x \in In : <<"clearing", x>> \in armed' => <<"clearing", x>> \in armed
  BY DEF HangUp, HungTimer
<1>3. QED
  BY <1>1, <1>2

\* A new Call of the callee listens with a dialog that was not in use.
LEMMA FreshCall ==
  ASSUME Newest, Unused, NEW d \in call \cap In, call' = Replaced(d), hung' = hung,
         \A x \in In : x # d => invite_ts'[x] = invite_ts[x],
         \A x \in Fresh(d) : status'[x] = "Waiting"
  PROVE  /\ Unused'
         /\ \A x \in call' \cap In : status'[x] = "Waiting" /\ invite_ts'[x] = "Waiting"
<1>1. \A x \in call' \cap In : x \in Fresh(d)
  BY Replacing DEF Newest
<1>2. \A x \in Fresh(d) : x \in In /\ x > d /\ x # d /\ x = d + 1
  BY Dialogs
<1>3. \A x \in In : x > d => x # d
  BY DEF In
<1>4. \A x \in call' \cap In : \A y \in In : y > x => y > d
  BY <1>1, <1>2 DEF In
<1>5. Unused'
  BY <1>3, <1>4 DEF Unused
<1>6. \A x \in call' \cap In : status'[x] = "Waiting" /\ invite_ts'[x] = "Waiting"
  BY <1>1, <1>2 DEF Unused
<1>7. QED
  BY <1>5, <1>6

\* The dialogs keep their past when one of them moves as it may, and a listening
\* one appears.
LEMMA PastKept ==
  ASSUME Past, NEW d \in In,
         \A x \in In : x # d => \/ status'[x] = status[x]
                                \/ status[x] = "Init" /\ status'[x] = "Waiting",
         \A x \in In : told'[x] = told[x]
                       /\ (<<"clearing", x>> \in armed' \cup firing' =>
                             <<"clearing", x>> \in armed \cup firing),
         \/ status'[d] \in {status[d], "Close"}
         \/ status[d] = "Call" /\ status'[d] = "Byeing"
         \/ status[d] \in {"Init", "Waiting", "Invited"}
  PROVE  Past'
<1> SUFFICES ASSUME NEW x \in In
             PROVE  /\ <<"clearing", x>> \in armed' \cup firing' => status'[x] = "Close"
                    /\ "confirmed" \in told'[x] => status'[x] \in {"Call", "Byeing", "Close"}
  BY DEF Past
<1>1. CASE x = d
  BY <1>1 DEF Past
<1>2. CASE x # d
  BY <1>2 DEF Past
<1>3. QED
  BY <1>1, <1>2

\* Which dialog of the callee a step may be about: not one that comes later.
LEMMA UnusedKept ==
  ASSUME Newest, Unused, NEW d \in In, status[d] # "Init",
         \A x \in In : x # d => invite_ts'[x] = invite_ts[x], call' = call,
         \A x \in In : x \in hung' => x \in hung \/ x = d
  PROVE  Unused'
  BY DEF Unused, Newest

\* A dialog of the callee ends, and its UserAgent is told.
LEMMA SettleIn ==
  ASSUME TypeOK, Newest, CalleeHolds, NEW d \in In, NEW st, Settle(d, st),
         \/ st = "Close" /\ status[d] \in {"Call", "Byeing"}
         \/ st = "Refused" /\ status[d] = "Invited",
         user' = user, hung' = hung, told' = told, firing' = firing,
         \A x \in In : x # d => invite_ts'[x] = invite_ts[x],
         \A x \in In : <<"clearing", x>> \in armed' => <<"clearing", x>> \in armed
  PROVE  CalleeHolds'
<1>1. st \in Status /\ st \notin {"Waiting", "Invited"} /\ status[d] \notin {"Init", "Waiting"}
      /\ d \in Dialog /\ End(d) = "callee"
  BY Dialogs, TwoEnds DEF Status
<1>2. /\ status'[d] = st
      /\ \A x \in In : x # d => \/ status'[x] = status[x]
                                \/ status[x] = "Init" /\ status'[x] = "Waiting"
  BY <1>1, SettleFacts, Dialogs
<1>3. Past'
  BY <1>1, <1>2, PastKept DEF CalleeHolds
<1>4. CASE d \in call /\ call_state["callee"] # "Idle"
  <2>1. call_state'["callee"] = "Idle" /\ call' = Replaced(d)
    BY <1>1, <1>4, SettleEnds
  <2>2. \A x \in Fresh(d) : status'[x] = "Waiting"
    BY <1>1, <1>4, Dialogs DEF Settle, Renewed
  <2>3. /\ Unused'
        /\ \A x \in call' \cap In : status'[x] = "Waiting" /\ invite_ts'[x] = "Waiting"
    BY <1>4, <2>1, <2>2, FreshCall DEF CalleeHolds
  <2>4. user["callee"] # "renew"
    BY <1>4 DEF CalleeHolds, HangsUp
  <2>5. QED
    BY <1>3, <2>1, <2>3, <2>4 DEF CalleeHolds, Listens, HangsUp
<1>5. CASE ~(d \in call /\ call_state["callee"] # "Idle")
  <2>1. call_state' = call_state /\ call' = call
    BY <1>1, <1>5, SettleEnds
  <2>2. \A x \in In : x # d => status'[x] = status[x]
    BY <1>1, <1>5, Dialogs DEF Settle, TypeOK
  <2>3. Unused'
    BY <1>1, <2>1, UnusedKept DEF CalleeHolds
  <2>4. CASE d \in call
    <3>1. call_state["callee"] = "Idle" /\ user["callee"] = "renew"
      BY <1>1, <1>5, <2>4 DEF CalleeHolds, Listens
    <3>2. \A x \in call \cap In : x = d
      BY <2>4 DEF Newest
    <3>3. QED
      BY <1>1, <1>2, <1>3, <2>1, <2>3, <3>1, <3>2 DEF CalleeHolds, Listens, HangsUp
  <2>5. CASE d \notin call
    <3>1. \A x \in call \cap In : x # d /\ status'[x] = status[x] /\ invite_ts'[x] = invite_ts[x]
      BY <2>2, <2>5
    <3>2. Listens' /\ HangsUp'
      BY <2>1, <3>1 DEF CalleeHolds, Listens, HangsUp
    <3>3. QED
      BY <1>3, <2>3, <3>2 DEF CalleeHolds
  <2>6. QED
    BY <2>4, <2>5
<1>6. QED
  BY <1>4, <1>5

\* A timer of the callee's dialog, or an ACK, moves it on: it was answered.
LEMMA MovesIn ==
  ASSUME TypeOK, Newest, CalleeHolds, NEW d \in In,
         status[d] \notin {"Init", "Waiting"}, status'[d] \notin {"Init", "Waiting", "Invited"},
         \A x \in In : x # d => /\ status'[x] = status[x] /\ invite_ts'[x] = invite_ts[x]
                                /\ told'[x] = told[x],
         Past', call' = call, user' = user, hung' = hung,
         \/ call_state'["callee"] = call_state["callee"]
         \/ status[d] = "Invited" /\ d \in call,
         call_state'["callee"] # "Idle" \/ call_state["callee"] = "Idle",
         d \in call /\ user["callee"] = "none" =>
           \/ status'[d] \in {"Accepted", "Call"}
           \/ status'[d] = "Close" /\ "confirmed" \notin told'[d]
  PROVE  CalleeHolds'
<1>1. Unused'
  BY UnusedKept DEF CalleeHolds
<1>2. CASE d \in call
  <2>1. \A x \in call \cap In : x = d
    BY <1>2 DEF Newest
  <2>2. call_state["callee"] = "Idle" => user["callee"] = "renew" /\ status[d] # "Invited"
    BY <1>2 DEF CalleeHolds, Listens, HangsUp
  <2>3. Listens'
    BY <2>1, <2>2 DEF CalleeHolds, Listens
  <2>4. HangsUp'
    BY <1>2, <2>1, <2>2 DEF CalleeHolds, HangsUp
  <2>5. QED
    BY <1>1, <2>3, <2>4 DEF CalleeHolds
<1>3. CASE d \notin call
  <2>1. \A x \in call \cap In : /\ status'[x] = status[x] /\ invite_ts'[x] = invite_ts[x]
                                /\ told'[x] = told[x]
    BY <1>3
  <2>2. call_state'["callee"] = call_state["callee"]
    BY <1>3
  <2>3. Listens'
    BY <2>1, <2>2 DEF CalleeHolds, Listens
  <2>4. HangsUp'
    BY <2>1, <2>2 DEF CalleeHolds, HangsUp
  <2>5. QED
    BY <1>1, <2>3, <2>4 DEF CalleeHolds
<1>4. QED
  BY <1>2, <1>3

\* One step keeps the callee's UserAgent and its call together.
LEMMA StepCallee == IInv /\ CalleeHolds /\ [Next]_vars => CalleeHolds'
<1> SUFFICES ASSUME IInv, CalleeHolds, [Next]_vars PROVE CalleeHolds'
  OBVIOUS
<1>0. TypeOK /\ Newest /\ Answers /\ Completes
  BY DEF IInv
<1> USE DEF uaVars, txVars, timerVars, historyVars
<1>1. ASSUME NEW d \in In, Provisional(d)
      PROVE  CalleeHolds'
  BY <1>1, CalleeKept DEF Provisional, CalleeSame
<1>2. ASSUME NEW d \in In, Success(d)
      PROVE  CalleeHolds'
  <2>1. \A x \in In : status'[x] = status[x] /\ told'[x] = told[x]
    BY <1>0, <1>2, Dialogs DEF Success, Tell, TypeOK
  <2>2. call_state'["callee"] = call_state["callee"]
    BY <1>0, <1>2, TwoEnds DEF Success, TypeOK
  <2>3. \A x \in In : <<"clearing", x>> \in armed' => <<"clearing", x>> \in armed
    BY <1>2 DEF Success
  <2>4. QED
    BY <1>2, <2>1, <2>2, <2>3, CalleeKept DEF Success, CalleeSame
<1>3. ASSUME NEW d \in In, Failure(d)
      PROVE  CalleeHolds'
  <2>1. Settle(Out, "Close") /\ \A x \in In : told'[x] = told[x]
    BY <1>0, <1>3, Dialogs DEF Failure, Tell, TypeOK
  <2>2. \A x \in In : <<"clearing", x>> \in armed' => <<"clearing", x>> \in armed
    BY <1>3 DEF Failure
  <2>3. QED
    BY <1>0, <1>3, <2>1, <2>2, SettleOut, CalleeKept DEF Failure, CalleeSame, Status
<1>4. ASSUME NEW d \in In, Accept(d)
      PROVE  CalleeHolds'
  <2>1. /\ status[d] = "Waiting" /\ d \in call /\ call_state["callee"] = "Idle"
        /\ call' = call /\ user' = user /\ hung' = hung /\ told' = told
    BY <1>4 DEF Accept, TakeInvite
  <2>2. /\ status'[d] = "Accepted" /\ call_state'["callee"] # "Idle"
        /\ \A x \in In : x # d => status'[x] = status[x] /\ invite_ts'[x] = invite_ts[x]
    BY <1>0, <1>4, Dialogs, TwoEnds DEF Accept, TypeOK
  <2>3. \A x \in In : <<"clearing", x>> \in armed' \cup firing' =>
                        <<"clearing", x>> \in armed \cup firing
    BY <1>4 DEF Accept, TakeInvite
  <2>4. Past'
    BY <2>1, <2>2, <2>3, PastKept DEF CalleeHolds
  <2>5. Unused'
    BY <1>0, <2>1, <2>2, UnusedKept DEF CalleeHolds
  <2>6. \A x \in call \cap In : x = d
    BY <1>0, <2>1 DEF Newest
  <2>7. user["callee"] # "renew"
    BY <2>1 DEF CalleeHolds, HangsUp
  <2>8. QED
    BY <2>1, <2>2, <2>4, <2>5, <2>6, <2>7 DEF CalleeHolds, Listens, HangsUp
<1>5. ASSUME NEW d \in In, Refuse(d)
      PROVE  CalleeHolds'
  <2> DEFINE st == [status EXCEPT ![d] = "Refused"]
  <2>1. st \in [Dialog -> Status] /\ \A x \in Dialog : x # d => st[x] = status[x]
    BY <1>0 DEF Status, TypeOK
  <2>2. /\ status[d] = "Waiting" /\ d \in call /\ call_state["callee"] = "Idle"
        /\ status' = Renewed(d, st) /\ call' = Replaced(d)
        /\ call_state' = call_state /\ user' = user /\ hung' = hung /\ told' = told
        /\ \A x \in In : x # d => invite_ts'[x] = invite_ts[x]
    BY <1>0, <1>5 DEF Refuse, TakeInvite, TypeOK
  <2> HIDE DEF st
  <2>3. \A x \in In : x # d => \/ status'[x] = status[x]
                               \/ status[x] = "Init" /\ status'[x] = "Waiting"
    BY <1>0, <2>1, <2>2, RenewFacts, Dialogs
  <2>4. \A x \in In : <<"clearing", x>> \in armed' \cup firing' =>
                        <<"clearing", x>> \in armed \cup firing
    BY <1>5 DEF Refuse, TakeInvite
  <2>5. Past'
    BY <2>2, <2>3, <2>4, PastKept DEF CalleeHolds
  <2>6. \A x \in Fresh(d) : status'[x] = "Waiting"
    BY <2>2, Dialogs DEF Renewed
  <2>7. /\ Unused'
        /\ \A x \in call' \cap In : status'[x] = "Waiting" /\ invite_ts'[x] = "Waiting"
    BY <1>0, <2>2, <2>6, FreshCall DEF CalleeHolds
  <2>8. user["callee"] # "renew"
    BY <2>2 DEF CalleeHolds, HangsUp
  <2>9. QED
    BY <2>2, <2>5, <2>7, <2>8 DEF CalleeHolds, Listens, HangsUp
<1>6. ASSUME NEW d \in In, Ring(d)
      PROVE  CalleeHolds'
  <2>1. /\ status[d] = "Waiting" /\ d \in call /\ call_state["callee"] = "Idle"
        /\ call' = call /\ user' = user /\ hung' = hung /\ told' = told
    BY <1>6 DEF Ring, TakeInvite
  <2>2. /\ status'[d] = "Invited" /\ call_state'["callee"] # "Idle"
        /\ \A x \in In : x # d => status'[x] = status[x] /\ invite_ts'[x] = invite_ts[x]
    BY <1>0, <1>6, Dialogs, TwoEnds DEF Ring, TypeOK
  <2>3. armed' = armed /\ firing' = firing
    BY <1>6 DEF Ring, TakeInvite
  <2>4. Past'
    BY <2>1, <2>2, <2>3, PastKept DEF CalleeHolds
  <2>5. Unused'
    BY <1>0, <2>1, <2>2, UnusedKept DEF CalleeHolds
  <2>6. \A x \in call \cap In : x = d
    BY <1>0, <2>1 DEF Newest
  <2>7. user["callee"] # "renew"
    BY <2>1 DEF CalleeHolds, HangsUp
  <2>8. QED
    BY <2>1, <2>2, <2>4, <2>5, <2>6, <2>7 DEF CalleeHolds, Listens, HangsUp
<1>7. ASSUME NEW d \in In, Cancel(d)
      PROVE  CalleeHolds'
  <2>1. /\ \A x \in In : x # d => invite_ts'[x] = invite_ts[x]
        /\ \A x \in In : <<"clearing", x>> \in armed' => <<"clearing", x>> \in armed
    BY <1>0, <1>7 DEF Cancel, TypeOK
  <2>2. QED
    BY <1>0, <1>7, <2>1, SettleIn DEF Cancel
<1>8. ASSUME NEW d \in In, FailureAck(d)
      PROVE  CalleeHolds'
  <2>1. status[d] \in {"Refused", "Close"}
    BY <1>0, <1>8 DEF FailureAck, Completes, Answers
  <2>2. /\ status'[d] = "Close" /\ told' = told
        /\ \A x \in In : x # d => status'[x] = status[x] /\ invite_ts'[x] = invite_ts[x]
    BY <1>0, <1>8, Dialogs DEF FailureAck, TypeOK
  <2>3. \A x \in In : <<"clearing", x>> \in armed' \cup firing' =>
                        <<"clearing", x>> \in armed \cup firing \/ x = d
    BY <1>8 DEF FailureAck
  <2>4. Past'
    BY <2>2, <2>3 DEF CalleeHolds, Past
  <2>5. d \in call /\ user["callee"] = "none" => "confirmed" \notin told[d]
    BY <2>1 DEF CalleeHolds, Past, Listens, HangsUp
  <2>6. call_state' = call_state /\ call' = call /\ user' = user /\ hung' = hung
    BY <1>8 DEF FailureAck
  <2>7. QED
    BY <1>0, <2>1, <2>2, <2>4, <2>5, <2>6, MovesIn
<1>9. ASSUME NEW d \in In, Ack(d)
      PROVE  CalleeHolds'
  <2>1. /\ status[d] = "Accepted" /\ status'[d] = "Call"
        /\ \A x \in In : x # d => status'[x] = status[x] /\ told'[x] = told[x]
    BY <1>0, <1>9, Dialogs DEF Ack, Tell, TypeOK
  <2>2. \A x \in In : <<"clearing", x>> \in armed' \cup firing' =>
                        <<"clearing", x>> \in armed \cup firing
    BY <1>9 DEF Ack
  <2>3. Past'
    BY <2>1, <2>2 DEF CalleeHolds, Past
  <2>4. invite_ts' = invite_ts /\ call_state' = call_state /\ call' = call /\ user' = user /\ hung' = hung
    BY <1>9 DEF Ack
  <2>5. QED
    BY <1>0, <2>1, <2>3, <2>4, MovesIn
<1>10. ASSUME NEW d \in Dialog, Settle(d, "Close"), status[d] \in {"Call", "Byeing"},
              user' = user, hung' = hung, told' = told, invite_ts' = invite_ts,
              firing' = firing, \A t \in armed' : t \in armed
       PROVE  CalleeHolds'
  <2>1. CASE d = Out
    BY <1>0, <1>10, <2>1, SettleOut, CalleeKept DEF CalleeSame, Status
  <2>2. CASE d \in In
    BY <1>0, <1>10, <2>2, SettleIn
  <2>3. QED
    BY <2>1, <2>2, Dialogs
<1>11. ASSUME NEW d \in Dialog, Bye(d)
       PROVE  CalleeHolds'
  BY <1>10, <1>11 DEF Bye
<1>12. ASSUME NEW d \in Dialog, ByeAnswered(d)
       PROVE  CalleeHolds'
  BY <1>10, <1>12 DEF ByeAnswered
<1>13. ASSUME NEW t \in Timer, Expire(t)
       PROVE  CalleeHolds'
  BY <1>13, CalleeKept DEF Expire, CalleeSame
<1>14. CASE InviteTimeout
  <2>1. /\ \A x \in In : <<"clearing", x>> \in armed' \cup firing' =>
                           <<"clearing", x>> \in armed \cup firing
        /\ invite_ts' = invite_ts /\ user' = user /\ hung' = hung
    BY <1>14 DEF InviteTimeout, Run
  <2>2. CASE Pending
    <3>1. Settle(Out, "Close") /\ \A x \in In : told'[x] = told[x]
      BY <1>0, <1>14, <2>2, Dialogs DEF InviteTimeout, Tell, TypeOK
    <3>2. QED
      BY <1>0, <2>1, <3>1, SettleOut, CalleeKept DEF CalleeSame, Status
  <2>3. CASE ~Pending
    BY <1>14, <2>1, <2>3, CalleeKept DEF InviteTimeout, CalleeSame
  <2>4. QED
    BY <2>2, <2>3
<1>15. ASSUME NEW d \in In, ClearingTimeout(d)
       PROVE  CalleeHolds'
  <2>1. status[d] = "Close"
    BY <1>15 DEF ClearingTimeout, Run, CalleeHolds, Past
  <2>2. /\ \A x \in In : x # d => invite_ts'[x] = invite_ts[x]
        /\ \A t \in firing' : t \in firing
    BY <1>0, <1>15 DEF ClearingTimeout, Run, TypeOK
  <2>3. Past'
    BY <1>15, <2>2 DEF ClearingTimeout, CalleeHolds, Past
  <2>4. d \in call /\ user["callee"] = "none" => "confirmed" \notin told[d]
    BY <2>1 DEF CalleeHolds, Listens, HangsUp
  <2>5. status' = status /\ told' = told /\ call_state' = call_state /\ call' = call /\ user' = user /\ hung' = hung
    BY <1>15 DEF ClearingTimeout
  <2>6. QED
    BY <1>0, <2>1, <2>2, <2>3, <2>4, <2>5, MovesIn
<1>16. ASSUME NEW d \in In, NEW timer \in {"ack", "bye"}, NEW waiting,
              DialogTimeout(d, timer, waiting),
              <<timer, waiting>> \in {<<"ack", "Accepted">>, <<"bye", "Byeing">>}
       PROVE  CalleeHolds'
  <2>1. /\ \A t \in firing' : t \in firing
        /\ \A x \in In : x # d => status'[x] = status[x]
        /\ status'[d] = IF status[d] = waiting THEN "Close" ELSE status[d]
    BY <1>0, <1>16, Dialogs DEF DialogTimeout, Run, TypeOK
  <2>2. waiting \in {"Accepted", "Byeing"}
    BY <1>16
  <2>3. CASE status[d] = waiting
    <3>1. Past'
      BY <1>16, <2>1, <2>2, <2>3, PastKept DEF DialogTimeout, CalleeHolds
    <3>2. d \in call /\ user["callee"] = "none" => "confirmed" \notin told[d]
      BY <2>2, <2>3 DEF CalleeHolds, Past, Listens, HangsUp
    <3>3. invite_ts' = invite_ts /\ told' = told /\ call_state' = call_state /\ call' = call /\ user' = user /\ hung' = hung
      BY <1>16 DEF DialogTimeout
    <3>4. QED
      BY <1>0, <2>1, <2>2, <2>3, <3>1, <3>2, <3>3, MovesIn
  <2>4. CASE status[d] # waiting
    BY <1>16, <2>1, <2>4, CalleeKept DEF DialogTimeout, CalleeSame
  <2>5. QED
    BY <2>3, <2>4
<1>17. ASSUME NEW d \in In, AckTimeout(d)
       PROVE  CalleeHolds'
  BY <1>16, <1>17 DEF AckTimeout
<1>18. ASSUME NEW d \in Dialog, EndTimeout(d)
       PROVE  CalleeHolds'
  <2>1. \A t \in firing' : t \in firing
    BY <1>18 DEF EndTimeout, Run
  <2>2. CASE d = Out
    BY <1>18, <2>1, <2>2, CalleeKept DEF EndTimeout, CalleeSame
  <2>3. CASE d \in In /\ invite_ts[d] # "Completed"
    <3>1. invite_ts' = invite_ts
      BY <1>0, <1>18, <2>3, Dialogs DEF EndTimeout, TypeOK
    <3>2. QED
      BY <1>18, <2>1, <3>1, CalleeKept DEF EndTimeout, CalleeSame
  <2>4. CASE d \in In /\ invite_ts[d] = "Completed"
    <3>1. status[d] \in {"Refused", "Close"}
      BY <1>0, <2>4 DEF Completes, Answers
    <3>2. \A x \in In : x # d => invite_ts'[x] = invite_ts[x]
      BY <1>0, <1>18, <2>4, Dialogs DEF EndTimeout, TypeOK
    <3>3. Past'
      BY <1>18, <2>1 DEF EndTimeout, CalleeHolds, Past
    <3>4. d \in call /\ user["callee"] = "none" => status[d] = "Close" /\ "confirmed" \notin told[d]
      BY <2>4, <3>1 DEF CalleeHolds, Listens, HangsUp
    <3>5. status' = status /\ told' = told /\ call_state' = call_state /\ call' = call /\ user' = user /\ hung' = hung
      BY <1>18 DEF EndTimeout
    <3>6. QED
      BY <1>0, <2>4, <3>1, <3>2, <3>3, <3>4, <3>5, MovesIn
  <2>5. QED
    BY <2>2, <2>3, <2>4, Dialogs
<1>19. ASSUME NEW d \in Dialog, ByeTimeout(d)
       PROVE  CalleeHolds'
  <2>1. CASE d = Out
    <3>1. \A x \in In : status'[x] = status[x]
      BY <1>0, <1>19, <2>1, Dialogs DEF ByeTimeout, DialogTimeout, TypeOK
    <3>2. QED
      BY <1>19, <3>1, CalleeKept DEF ByeTimeout, DialogTimeout, Run, CalleeSame
  <2>2. CASE d \in In
    BY <1>16, <1>19, <2>2 DEF ByeTimeout
  <2>3. QED
    BY <2>1, <2>2, Dialogs
<1>20. CASE Invite
  <2>1. /\ \A x \in In : status'[x] = status[x]
        /\ call' \cap In = call \cap In /\ call_state'["callee"] = call_state["callee"]
    BY <1>0, <1>20, Dialogs, TwoEnds DEF Invite, TypeOK
  <2>2. QED
    BY <1>20, <2>1, CalleeKept DEF Invite, CalleeSame
<1>21. ASSUME NEW d \in In, Answer(d)
       PROVE  CalleeHolds'
  <2>1. /\ status[d] = "Invited" /\ d \in call /\ status'[d] = "Accepted"
        /\ call_state'["callee"] = "InCall"
        /\ \A x \in In : x # d => status'[x] = status[x] /\ invite_ts'[x] = invite_ts[x]
    BY <1>0, <1>21, Dialogs, TwoEnds DEF Answer, TypeOK
  <2>2. \A x \in In : <<"clearing", x>> \in armed' \cup firing' =>
                        <<"clearing", x>> \in armed \cup firing
    BY <1>21 DEF Answer
  <2>3. Past'
    BY <1>21, <2>1, <2>2, PastKept DEF Answer, CalleeHolds
  <2>4. QED
    BY <1>0, <1>21, <2>1, <2>3, MovesIn DEF Answer
<1>22. ASSUME NEW d \in Dialog, HangUp(d), d \in call, call' = call, told' = told, firing' = firing
       PROVE  /\ d = Out => \A x \in In : /\ status'[x] = status[x] /\ invite_ts'[x] = invite_ts[x]
                                          /\ <<"clearing", x>> \in armed' => <<"clearing", x>> \in armed
              /\ d \in In => /\ \A x \in In : x # d => invite_ts'[x] = invite_ts[x]
                             /\ \A x \in call \cap In : x = d
                             /\ status'[d] = HungStatus(status[d]) /\ Past'
  <2>1. CASE d = Out
    BY <1>0, <1>22, <2>1, HangUpOut, Dialogs
  <2>2. CASE d \in In
    <3>1. \A x \in In : x # d => invite_ts'[x] = invite_ts[x]
      BY <1>22 DEF HangUp
    <3>2. \A x \in call \cap In : x = d
      BY <1>0, <1>22, <2>2 DEF Newest
    <3>3. status'[d] = HungStatus(status[d]) /\ \A x \in In : x # d => status'[x] = status[x]
      BY <1>0, <1>22, HangUpFacts, Dialogs
    <3>4. \A x \in In : <<"clearing", x>> \in armed' => <<"clearing", x>> \in armed
      BY <1>22 DEF HangUp, HungTimer
    <3>5. \/ status'[d] \in {status[d], "Close"}
          \/ status[d] = "Call" /\ status'[d] = "Byeing"
          \/ status[d] \in {"Init", "Waiting", "Invited"}
      BY <3>3 DEF HungStatus
    <3>6. Past'
      BY <1>22, <2>2, <3>3, <3>4, <3>5, PastKept DEF CalleeHolds
    <3>7. QED
      BY <2>2, <3>1, <3>2, <3>3, <3>6, Dialogs
  <2>3. QED
    BY <2>1, <2>2, Dialogs
<1>23. ASSUME NEW d \in Dialog, HangUpCall(d)
       PROVE  CalleeHolds'
  <2>1. /\ HangUp(d) /\ d \in call /\ call' = call /\ told' = told /\ firing' = firing
        /\ user[End(d)] = "none" /\ user' = [user EXCEPT ![End(d)] = "idle"]
        /\ call_state' = call_state /\ hung' = hung \cup {d}
    BY <1>23 DEF HangUpCall
  <2>2. CASE d = Out
    <3>1. user'["callee"] = user["callee"]
      BY <1>0, <2>1, <2>2, TwoEnds DEF TypeOK
    <3>2. QED
      BY <1>22, <2>1, <2>2, <3>1, CalleeKept, Dialogs DEF CalleeSame
  <2>3. CASE d \in In
    <3>1. user["callee"] = "none" /\ user'["callee"] = "idle"
      BY <1>0, <2>1, <2>3, TwoEnds DEF TypeOK
    <3>2. /\ \A x \in In : x # d => invite_ts'[x] = invite_ts[x]
          /\ \A x \in call \cap In : x = d
          /\ status'[d] = HungStatus(status[d]) /\ Past'
      BY <1>22, <2>1, <2>3
    <3>3. Unused'
      BY <2>1, <2>3, <3>2 DEF CalleeHolds, Unused, In
    <3>4. Listens'
      BY <2>1, <2>3, <3>1, <3>2 DEF CalleeHolds, Listens, HungStatus
    <3>5. HangsUp'
      BY <3>1 DEF HangsUp
    <3>6. QED
      BY <3>2, <3>3, <3>4, <3>5 DEF CalleeHolds
  <2>4. QED
    BY <2>2, <2>3, Dialogs
<1>24. ASSUME NEW d \in Dialog, HangUpRenew(d)
       PROVE  CalleeHolds'
  <2>1. /\ user[End(d)] = "renew" /\ d \in call
        /\ call' = Replaced(d) /\ status' = Renewed(d, status) /\ call_state' = call_state
        /\ user' = [user EXCEPT ![End(d)] = "none"]
        /\ invite_ts' = invite_ts /\ armed' = armed /\ firing' = firing
        /\ told' = told /\ hung' = hung
    BY <1>24 DEF HangUpRenew
  <2>2. CASE d = Out
    <3>1. user'["callee"] = user["callee"]
      BY <1>0, <2>1, <2>2, TwoEnds DEF TypeOK
    <3>2. \A x \in In : status'[x] = status[x]
      BY <1>0, <2>1, <2>2, Dialogs DEF Renewed, Fresh
    <3>3. QED
      BY <2>1, <2>2, <3>1, <3>2, Replacing, CalleeKept DEF CalleeSame
  <2>3. CASE d \in In
    <3>1. user["callee"] = "renew" /\ user'["callee"] = "none" /\ call_state["callee"] = "Idle"
      BY <1>0, <2>1, <2>3, TwoEnds DEF TypeOK, CalleeHolds, HangsUp
    <3>2. status \in [Dialog -> Status] /\ \A x \in Dialog : x # d => status[x] = status[x]
      BY <1>0 DEF TypeOK
    <3>3. /\ status'[d] = status[d]
          /\ \A x \in In : x # d => \/ status'[x] = status[x]
                                    \/ status[x] = "Init" /\ status'[x] = "Waiting"
      BY <1>0, <2>1, <3>2, RenewFacts, Dialogs
    <3>4. Past'
      BY <2>1, <2>3, <3>3, PastKept DEF CalleeHolds
    <3>5. \A x \in Fresh(d) : status'[x] = "Waiting"
      BY <2>1, <2>3, Dialogs DEF Renewed
    <3>6. /\ Unused'
          /\ \A x \in call' \cap In : status'[x] = "Waiting" /\ invite_ts'[x] = "Waiting"
      BY <1>0, <2>1, <2>3, <3>5, FreshCall DEF CalleeHolds
    <3>7. QED
      BY <2>1, <3>1, <3>4, <3>6 DEF CalleeHolds, Listens, HangsUp
  <2>4. QED
    BY <2>2, <2>3, Dialogs
<1>25. ASSUME NEW e \in Ends, HangUpIdle(e)
       PROVE  CalleeHolds'
  <2>1. /\ user[e] = "idle" /\ call_state' = [call_state EXCEPT ![e] = "Idle"]
        /\ call' = call /\ told' = told /\ firing' = firing /\ hung' = hung
    BY <1>25 DEF HangUpIdle
  <2>2. CASE /\ call_state[e] = "Idle" /\ user' = [user EXCEPT ![e] = "none"]
             /\ UNCHANGED <<net, status, invite_ts, armed>>
    <3>1. call_state' = call_state
      BY <1>0, <2>1, <2>2 DEF TypeOK
    <3>2. \/ user'["callee"] = user["callee"]
          \/ user["callee"] = "idle" /\ user'["callee"] = "none" /\ call_state["callee"] = "Idle"
      <4>1. CASE e = "callee"
        BY <1>0, <2>1, <2>2, <4>1 DEF TypeOK
      <4>2. CASE e # "callee"
        BY <1>0, <2>2, <4>2, TwoEnds DEF TypeOK
      <4>3. QED
        BY <4>1, <4>2
    <3>3. CASE user'["callee"] = user["callee"]
      BY <2>1, <2>2, <3>1, <3>3, CalleeKept DEF CalleeSame
    <3>4. CASE user["callee"] = "idle" /\ user'["callee"] = "none" /\ call_state["callee"] = "Idle"
      BY <2>1, <2>2, <3>1, <3>4 DEF CalleeHolds, Unused, Past, Listens, HangsUp
    <3>5. QED
      BY <3>2, <3>3, <3>4
  <2>3. CASE /\ call_state[e] # "Idle" /\ user' = [user EXCEPT ![e] = "renew"]
             /\ \E d \in call : End(d) = e /\ HangUp(d)
    <3>1. PICK d \in call : End(d) = e /\ HangUp(d)
      BY <2>3
    <3>2. d \in Dialog
      BY <1>0 DEF TypeOK
    <3>3. CASE d = Out
      <4>1. user'["callee"] = user["callee"] /\ call_state'["callee"] = call_state["callee"]
        BY <1>0, <2>1, <2>3, <3>1, <3>3, TwoEnds DEF TypeOK
      <4>2. QED
        BY <1>22, <2>1, <3>1, <3>2, <3>3, <4>1, CalleeKept DEF CalleeSame
    <3>4. CASE d \in In
      <4>1. /\ user'["callee"] = "renew" /\ call_state'["callee"] = "Idle"
            /\ call_state["callee"] # "Idle"
        BY <1>0, <2>1, <2>3, <3>1, <3>4, TwoEnds DEF TypeOK
      <4>2. /\ \A x \in In : x # d => invite_ts'[x] = invite_ts[x]
            /\ \A x \in call \cap In : x = d
            /\ status'[d] = HungStatus(status[d]) /\ Past'
        BY <1>22, <2>1, <3>1, <3>2, <3>4
      <4>3. Unused'
        BY <2>1, <3>1, <3>4, <4>2 DEF CalleeHolds, Unused, In
      <4>4. status[d] # "Waiting"
        BY <3>1, <3>4, <4>1 DEF CalleeHolds, Listens
      <4>5. status'[d] \notin {"Waiting", "Invited"}
        BY <4>2, <4>4 DEF HungStatus
      <4>6. QED
        BY <2>1, <4>1, <4>2, <4>3, <4>5 DEF CalleeHolds, Listens, HangsUp
    <3>5. QED
      BY <3>2, <3>3, <3>4, Dialogs
  <2>4. QED
    BY <1>25, <2>2, <2>3 DEF HangUpIdle
<1>26. CASE UNCHANGED vars
  BY <1>26, CalleeKept DEF vars, CalleeSame
<1>27. QED
  BY <1>1, <1>2, <1>3, <1>4, <1>5, <1>6, <1>7, <1>8, <1>9, <1>11, <1>12, <1>13, <1>14, <1>15,
     <1>17, <1>18, <1>19, <1>20, <1>21, <1>23, <1>24, <1>25, <1>26
  DEF Next, Receive, Timeout, User

LEMMA InitUser == Init => UserInv
<1> SUFFICES ASSUME Init PROVE UserInv
  OBVIOUS
<1>1. \A d \in call \cap In : d = 1
  BY DEF Init
<1>2. CallerHolds
  BY Dialogs, TwoEnds DEF Init, CallerHolds, Out
<1>3. Unused /\ Past
  BY Dialogs DEF Init, Unused, Past
<1>4. Listens /\ HangsUp
  BY <1>1, Dialogs, TwoEnds DEF Init, Listens, HangsUp
<1>5. QED
  BY <1>2, <1>3, <1>4 DEF UserInv, CalleeHolds

LEMMA UserInvariant == Spec => []UserInv
<1>1. IInv /\ UserInv /\ [Next]_vars => UserInv'
  BY StepCaller, StepCallee DEF UserInv
<1>2. QED
  BY <1>1, InitUser, Invariant, PTL DEF Spec

\* Outside hangup the caller's UserAgent is in a call exactly when its call's
\* dialog is (UserAgent.onCallAccepted hangs up when it does not wait any more).
THEOREM UserAgentAgreesAlways == Spec => []UserAgentAgrees
<1>1. UserInv => UserAgentAgrees
  BY DEF UserInv, CallerHolds, UserAgentAgrees
<1>2. QED
  BY <1>1, UserInvariant, PTL

\* Outside hangup the callee's UserAgent listens when it is idle, and when it is
\* busy its call is on, or was closed before it was confirmed.
THEOREM CalleeAgreesAlways == Spec => []CalleeAgrees
<1>1. UserInv => CalleeAgrees
  BY DEF UserInv, CalleeHolds, Listens, HangsUp, CalleeAgrees
<1>2. QED
  BY <1>1, UserInvariant, PTL

=============================================================================
