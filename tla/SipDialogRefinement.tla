------------------------- MODULE SipDialogRefinement -------------------------
(***************************************************************************)
(* Proof that SipDialog implements CallOutcome, for any number of incoming *)
(* calls: every step connects, answers, fails or ends a call of it, or     *)
(* leaves its state alone.                                                 *)
(***************************************************************************)
EXTENDS SipDialogProofs

Maps == [Abstract!Next]_(Abstract!vars)

Confirmed(d) == "confirmed" \in told[d]

\* What a step may do to a dialog of the callee, and to the caller's, for
\* neither to have another phase after it.
Kept(x) ==
  /\ Accepts(x)' <=> Accepts(x)
  /\ Refuses(x)' <=> Refuses(x)
  /\ Confirmed(x)' <=> Confirmed(x)
  /\ \/ status'[x] = status[x]
     \/ status[x] = "Init" /\ status'[x] = "Waiting"
     \/ status[x] = "Call" /\ status'[x] = "Byeing"

CallerKept ==
  /\ told'[Out] = told[Out]
  /\ status'[Out] = status[Out] \/ {status[Out], status'[Out]} \cap {"Init", "Close"} = {}

OthersKept(d) == \A x \in In : x # d => Kept(x)

Phases == [x \in In |-> Callee(x)]

LEMMA CalleeKept ==
  ASSUME NEW x \in In, Kept(x)
  PROVE  Callee(x)' = Callee(x)
  BY DEF Kept, Callee, Accepts, Refuses, Confirmed

LEMMA CallerPhaseKept == CallerKept => Caller' = Caller
  BY DEF CallerKept, Caller

\* A step that keeps everything is a stutter of CallOutcome.
LEMMA Stutter ==
  ASSUME CallerKept, remote_tag' = remote_tag, \A x \in In : Kept(x)
  PROVE  Maps
<1>1. Caller' = Caller
  BY CallerPhaseKept
<1>2. Phases' = Phases
  BY CalleeKept DEF Phases
<1>3. QED
  BY <1>1, <1>2 DEF Maps, Abstract!vars, Phases

\* A step that gives one dialog another phase.
LEMMA OneMoves ==
  ASSUME CallerKept, remote_tag' = remote_tag, NEW d \in In, OthersKept(d)
  PROVE  Abstract!Becomes(d, Callee(d)')
<1>1. Caller' = Caller
  BY CallerPhaseKept
<1>2. Phases' = [Phases EXCEPT ![d] = Callee(d)']
  BY CalleeKept DEF Phases, OthersKept
<1>3. QED
  BY <1>1, <1>2 DEF Abstract!Becomes, Phases

\* A dialog that is to answer has no part in the call yet ...
LEMMA Unanswered ==
  ASSUME Client, Answers, NEW d \in In, status[d] \in {"Waiting", "Invited"}
  PROVE  /\ ~Accepts(d) /\ ~Refuses(d) /\ ~Confirmed(d)
         /\ Callee(d) = IF status[d] = "Invited" THEN "asked" ELSE "free"
<1>1. ~Accepts(d) /\ ~Refuses(d)
  BY DEF Answers
<1>2. ~Confirmed(d)
  BY <1>1, Dialogs DEF Answers, Client, Confirmed
<1>3. QED
  BY <1>1, <1>2 DEF Callee, Accepts, Refuses, Confirmed

\* ... and its answer is one of CallOutcome.
LEMMA AnswerMaps ==
  ASSUME Client, Answers, CallerKept, remote_tag' = remote_tag, NEW d \in In, OthersKept(d),
         status[d] \in {"Waiting", "Invited"}, status[Out] # "Init",
         ~Confirmed(d)',
         Accepts(d)' \/ Refuses(d)', status'[d] # "Close"
  PROVE  Maps
<1>1. Callee(d) \in {"free", "asked"}
  BY Unanswered
<1>2. Callee(d)' \in {"accepted", "refused"}
  BY DEF Callee, Accepts, Refuses, Confirmed
<1>3. Caller # "idle"
  BY DEF Caller
<1>4. Abstract!Answer(d)
  BY <1>1, <1>2, <1>3, OneMoves DEF Abstract!Answer, Phases
<1>5. QED
  BY <1>4 DEF Maps, Abstract!Next

\* A dialog of the callee that closes gives up, leaves, or had no part.
LEMMA CloseMaps ==
  ASSUME CallerKept, remote_tag' = remote_tag, NEW d \in In, OthersKept(d),
         status[d] # "Invited", status'[d] = "Close",
         Accepts(d)' <=> Accepts(d), Refuses(d)' <=> Refuses(d), Confirmed(d)' <=> Confirmed(d)
  PROVE  Maps
<1>1. Abstract!Becomes(d, Callee(d)')
  BY OneMoves
<1>2. \/ Callee(d)' = Callee(d)
      \/ Callee(d) = "connected" /\ Callee(d)' = "over"
      \/ Callee(d) = "accepted" /\ Callee(d)' = "unheard"
  BY DEF Callee, Accepts, Refuses, Confirmed
<1>3. CASE Callee(d)' = Callee(d)
  <2>1. Phases' = Phases
    BY <1>3, CalleeKept DEF Phases, OthersKept
  <2>2. QED
    BY <2>1, CallerPhaseKept DEF Maps, Abstract!vars, Phases
<1>4. CASE Callee(d) = "connected" /\ Callee(d)' = "over"
  BY <1>1, <1>4 DEF Maps, Abstract!Next, Abstract!Leave, Phases
<1>5. CASE Callee(d) = "accepted" /\ Callee(d)' = "unheard"
  BY <1>1, <1>5 DEF Maps, Abstract!Next, Abstract!GiveUp, Phases
<1>6. QED
  BY <1>2, <1>3, <1>4, <1>5

\* A step of the caller that keeps every dialog of the callee.
LEMMA CallerMaps ==
  ASSUME \A x \in In : Kept(x), remote_tag' = remote_tag,
         \/ Caller = "idle" /\ Caller' = "calling"
         \/ Caller = "calling" /\ Caller' = "failed"
         \/ Caller = "connected" /\ Caller' = "over"
  PROVE  Maps
<1>1. Phases' = Phases
  BY CalleeKept DEF Phases
<1>2. QED
  BY <1>1 DEF Maps, Abstract!Next, Abstract!Call, Abstract!Fail, Abstract!End, Phases

\* The caller's dialog fails, and closes after an answer.
LEMMA CallerFails ==
  ASSUME \A x \in In : Kept(x), remote_tag' = remote_tag, Client, status[Out] = "Inviting",
         status'[Out] = "Close", told'[Out] \in {{"refused"}, {"timeout"}}
  PROVE  Maps
<1>1. Caller = "calling"
  BY DEF Caller, Client
<1>2. Caller' = "failed"
  BY DEF Caller
<1>3. QED
  BY <1>1, <1>2, CallerMaps

LEMMA CallerEnds ==
  ASSUME \A x \in In : Kept(x), remote_tag' = remote_tag, Held, status[Out] \in {"Call", "Byeing"},
         status'[Out] = "Close", told'[Out] = told[Out]
  PROVE  Maps
<1>1. Caller = "connected" /\ Caller' = "over"
  BY DEF Caller, Held
<1>2. QED
  BY <1>1, CallerMaps

\* A dialog that ends at either end.
LEMMA EndMaps ==
  ASSUME Held, remote_tag' = remote_tag, told' = told, NEW d \in Dialog,
         status[d] \in {"Accepted", "Call", "Byeing"}, d = Out => status[d] # "Accepted",
         status'[d] = "Close",
         \A x \in Dialog : x # d => \/ status'[x] = status[x]
                                    \/ x \in In /\ status[x] = "Init" /\ status'[x] = "Waiting",
         \A x \in In : (Accepts(x)' <=> Accepts(x)) /\ (Refuses(x)' <=> Refuses(x))
  PROVE  Maps
<1>1. \A x \in In : x # d => Kept(x)
  BY Dialogs DEF Kept, Confirmed
<1>2. CASE d = Out
  BY <1>1, <1>2, Dialogs, CallerEnds
<1>3. CASE d \in In
  <2>1. CallerKept /\ OthersKept(d)
    BY <1>1, <1>3, Dialogs DEF CallerKept, OthersKept
  <2>2. QED
    BY <1>3, <2>1, CloseMaps DEF Confirmed
<1>4. QED
  BY <1>2, <1>3, Dialogs

\* Call.hangup refuses the INVITE, or is a stutter.
LEMMA HangUpMaps ==
  ASSUME TypeOK, Begun, Client, Answers, NEW d \in Dialog, HangUp(d), told' = told,
         remote_tag' = remote_tag
  PROVE  Maps
<1>1. \A x \in In : /\ Accepts(x)' <=> Accepts(x)
                    /\ x # d \/ status[d] # "Invited" => (Refuses(x)' <=> Refuses(x))
  <2>1. \A x \in In : /\ Msg("2xx", x, x).kind \notin {"CANCEL", "BYE"}
                      /\ Msg("failure", x, x).kind \notin {"CANCEL", "BYE"}
                      /\ Msg("2xx", x, x) # Msg("failure", d, d)
                      /\ x # d => Msg("failure", x, x) # Msg("failure", d, d)
    BY DEF Msg
  <2>2. QED
    BY <2>1, HangUpFacts DEF Accepts, Refuses
<1>2. \A x \in Dialog : x # d => status'[x] = status[x]
  BY HangUpFacts
<1>3. CASE d \in In /\ status[d] = "Invited"
  <2>1. CallerKept /\ OthersKept(d) /\ status[Out] # "Init"
    BY <1>1, <1>2, <1>3, Dialogs DEF CallerKept, OthersKept, Kept, Confirmed, Begun
  <2>2. Refuses(d)' /\ status'[d] = "Refused"
    BY <1>3, HangUpFacts DEF HangUp, HungMessage, HungStatus, Send, Refuses
  <2>3. ~Confirmed(d)'
    BY <1>3, Unanswered DEF Confirmed
  <2>4. QED
    BY <1>3, <2>1, <2>2, <2>3, AnswerMaps
<1>4. CASE ~(d \in In /\ status[d] = "Invited")
  <2>1. \/ status'[d] = status[d]
        \/ status[d] = "Call" /\ status'[d] = "Byeing"
        \/ d = Out /\ status[d] = "Invited" /\ status'[d] = "Refused"
    BY <1>4, HangUpFacts, Dialogs DEF HungStatus
  <2>2. CallerKept /\ \A x \in In : Kept(x)
    BY <1>1, <1>2, <1>4, <2>1, Dialogs DEF CallerKept, Kept, Confirmed
  <2>3. QED
    BY <2>2, Stutter
<1>5. QED
  BY <1>3, <1>4


\* Every step is one of CallOutcome or a stutter.
LEMMA StepMaps == IInv /\ [Next]_vars => Maps
<1> SUFFICES ASSUME TypeOK, Newest, Client, Answers, Completes, Begun, Held, [Next]_vars
             PROVE  Maps
  BY DEF IInv
<1> USE DEF TypeOK, uaVars, txVars, timerVars, historyVars
<1>1. ASSUME NEW d \in In, Provisional(d)
      PROVE  Maps
  <2>1. CallerKept /\ \A x \in In : Kept(x)
    BY <1>1, Dialogs DEF Provisional, CallerKept, Kept, Confirmed, Accepts, Refuses
  <2>2. QED
    BY <1>1, <2>1, Stutter DEF Provisional
<1>2. ASSUME NEW d \in In, Success(d)
      PROVE  Maps
  <2>1. \A x \in In : Kept(x)
    <3>1. \A x \in In : (Accepts(x)' <=> Accepts(x)) /\ (Refuses(x)' <=> Refuses(x))
      BY <1>2 DEF Success, Accepts, Refuses, Send, Msg
    <3>2. \A x \in In : status'[x] = status[x] /\ told'[x] = told[x]
      BY <1>2, Dialogs DEF Success, Tell
    <3>3. QED
      BY <3>1, <3>2 DEF Kept, Confirmed
  <2>2. Phases' = Phases
    BY <2>1, CalleeKept DEF Phases
  <2>3. Caller = "calling"
    BY <1>2 DEF Success, Pending, Caller, Client
  <2>4. Caller' = "connected"
    <3>1. "accepted" \in told'[Out] /\ status'[Out] \in {"Call", "Byeing"}
      BY <1>2, Dialogs DEF Success, Tell
    <3>2. QED
      BY <3>1 DEF Caller
  <2>5. Callee(d) \in {"accepted", "unheard"}
    <3>1. Accepts(d) /\ remote_tag = Out
      BY <1>2 DEF Success, Pending, Accepts, Client
    <3>2. ~Refuses(d) /\ ~Confirmed(d)
      BY <3>1, Dialogs DEF Answers, Confirmed
    <3>3. QED
      BY <3>1, <3>2 DEF Callee, Accepts, Refuses, Confirmed
  <2>6. remote_tag' = d
    BY <1>2 DEF Success
  <2>7. Abstract!Connect(d)
    BY <2>2, <2>3, <2>4, <2>5, <2>6 DEF Abstract!Connect, Phases
  <2>8. QED
    BY <2>7 DEF Maps, Abstract!Next
<1>3. ASSUME NEW d \in In, Failure(d)
      PROVE  Maps
  <2>1. \A x \in In : (Accepts(x)' <=> Accepts(x)) /\ (Refuses(x)' <=> Refuses(x)) /\ told'[x] = told[x]
    BY <1>3, Dialogs DEF Failure, Accepts, Refuses, Send, Msg, Tell
  <2>2. Settle(Out, "Close") /\ status[Out] = "Inviting" /\ remote_tag' = remote_tag
    BY <1>3 DEF Failure, Pending
  <2>3. told'[Out] \in {{"refused"}, {"timeout"}}
    BY <1>3, Dialogs, <2>2 DEF Failure, Tell, Client
  <2>4. status'[Out] = "Close" /\ \A x \in In : Kept(x)
    BY <2>1, <2>2, SettleFacts, Dialogs DEF Kept, Confirmed, Status
  <2>5. QED
    BY <2>2, <2>3, <2>4, CallerFails
<1>4. ASSUME NEW d \in In, Accept(d)
      PROVE  Maps
  <2>1. \A x \in In : x # d => (Accepts(x)' <=> Accepts(x)) /\ (Refuses(x)' <=> Refuses(x))
    BY <1>4 DEF Accept, Accepts, Refuses, Send, Msg
  <2>2. Accepts(d)' \/ Refuses(d)'
    BY <1>4 DEF Accept, Accepts, Refuses, Send
  <2>3. /\ status[d] \in {"Waiting", "Invited"} /\ status[Out] # "Init"
        /\ told' = told /\ remote_tag' = remote_tag
    BY <1>4, Dialogs DEF Accept, TakeInvite, Begun
  <2>4. status'[d] # "Close" /\ \A x \in Dialog : x # d =>
          \/ status'[x] = status[x]
          \/ x \in In /\ status[x] = "Init" /\ status'[x] = "Waiting"
    BY <1>4, Dialogs DEF Accept
  <2>5. CallerKept /\ OthersKept(d)
    BY <2>1, <2>3, <2>4, Dialogs DEF CallerKept, OthersKept, Kept, Confirmed
  <2>6. ~Confirmed(d)'
    BY <2>3, Unanswered DEF Confirmed
  <2>7. QED
    BY <2>2, <2>3, <2>4, <2>5, <2>6, AnswerMaps
<1>5. ASSUME NEW d \in In, Refuse(d)
      PROVE  Maps
  <2>1. \A x \in In : x # d => (Accepts(x)' <=> Accepts(x)) /\ (Refuses(x)' <=> Refuses(x))
    BY <1>5 DEF Refuse, Accepts, Refuses, Send, Msg
  <2>2. Accepts(d)' \/ Refuses(d)'
    BY <1>5 DEF Refuse, Accepts, Refuses, Send
  <2>3. /\ status[d] \in {"Waiting", "Invited"} /\ status[Out] # "Init"
        /\ told' = told /\ remote_tag' = remote_tag
    BY <1>5, Dialogs DEF Refuse, TakeInvite, Begun
  <2>4. status'[d] # "Close" /\ \A x \in Dialog : x # d =>
          \/ status'[x] = status[x]
          \/ x \in In /\ status[x] = "Init" /\ status'[x] = "Waiting"
    <3> DEFINE st == [status EXCEPT ![d] = "Refused"]
    <3>1. st \in [Dialog -> Status] /\ \A x \in Dialog : x # d => st[x] = status[x]
      BY DEF Status
    <3>2. d \in call /\ status' = Renewed(d, st) /\ call' = Replaced(d)
      BY <1>5 DEF Refuse, TakeInvite
    <3>3. st[d] = "Refused"
      BY Dialogs
    <3> HIDE DEF st
    <3>4. QED
      BY <3>1, <3>2, <3>3, RenewFacts, Dialogs
  <2>5. CallerKept /\ OthersKept(d)
    BY <2>1, <2>3, <2>4, Dialogs DEF CallerKept, OthersKept, Kept, Confirmed
  <2>6. ~Confirmed(d)'
    BY <2>3, Unanswered DEF Confirmed
  <2>7. QED
    BY <2>2, <2>3, <2>4, <2>5, <2>6, AnswerMaps
<1>6. ASSUME NEW d \in In, Ring(d)
      PROVE  Maps
  <2>1. \A x \in In : (Accepts(x)' <=> Accepts(x)) /\ (Refuses(x)' <=> Refuses(x))
    BY <1>6 DEF Ring, Accepts, Refuses, Send, Msg
  <2>2. status[d] = "Waiting" /\ status[Out] # "Init" /\ told' = told /\ remote_tag' = remote_tag
    BY <1>6, Dialogs DEF Ring, TakeInvite, Begun
  <2>3. status'[d] = "Invited" /\ \A x \in Dialog : x # d => status'[x] = status[x]
    BY <1>6, Dialogs DEF Ring
  <2>4. CallerKept /\ OthersKept(d)
    BY <2>1, <2>2, <2>3, Dialogs DEF CallerKept, OthersKept, Kept, Confirmed
  <2>5. Callee(d) = "free" /\ ~Accepts(d) /\ ~Refuses(d) /\ ~Confirmed(d)
    BY <2>2, Unanswered
  <2>6. ~Accepts(d)' /\ ~Refuses(d)' /\ ~Confirmed(d)'
    BY <2>1, <2>2, <2>5 DEF Confirmed
  <2>7. Callee(d)' = "asked"
    BY <2>3, <2>6 DEF Callee, Accepts, Refuses, Confirmed
  <2>8. Caller # "idle"
    BY <2>2 DEF Caller
  <2>9. Abstract!Ask(d)
    BY <2>2, <2>4, <2>5, <2>7, <2>8, OneMoves DEF Abstract!Ask, Phases
  <2>10. QED
    BY <2>9 DEF Maps, Abstract!Next
<1>7. ASSUME NEW d \in In, Cancel(d)
      PROVE  Maps
  <2>1. \A x \in In : x # d => (Accepts(x)' <=> Accepts(x)) /\ (Refuses(x)' <=> Refuses(x))
    BY <1>7 DEF Cancel, Accepts, Refuses, Send, Msg
  <2>2. Accepts(d)' \/ Refuses(d)'
    BY <1>7 DEF Cancel, Accepts, Refuses, Send
  <2>3. /\ status[d] \in {"Waiting", "Invited"} /\ status[Out] # "Init"
        /\ told' = told /\ remote_tag' = remote_tag
    BY <1>7, Dialogs DEF Cancel, Begun
  <2>4. status'[d] # "Close" /\ \A x \in Dialog : x # d =>
          \/ status'[x] = status[x]
          \/ x \in In /\ status[x] = "Init" /\ status'[x] = "Waiting"
    <3>1. Settle(d, "Refused") /\ status[d] # "Init"
      BY <1>7 DEF Cancel
    <3>2. QED
      BY <3>1, SettleFacts, Dialogs DEF Status
  <2>5. CallerKept /\ OthersKept(d)
    BY <2>1, <2>3, <2>4, Dialogs DEF CallerKept, OthersKept, Kept, Confirmed
  <2>6. ~Confirmed(d)'
    BY <2>3, Unanswered DEF Confirmed
  <2>7. QED
    BY <2>2, <2>3, <2>4, <2>5, <2>6, AnswerMaps
<1>8. ASSUME NEW d \in In, FailureAck(d)
      PROVE  Maps
  <2>1. Refuses(d) /\ status[d] # "Invited"
    BY <1>8 DEF FailureAck, Completes, Answers
  <2>2. CallerKept /\ OthersKept(d) /\ status'[d] = "Close" /\ remote_tag' = remote_tag
    BY <1>8, Dialogs DEF FailureAck, CallerKept, OthersKept, Kept, Confirmed, Accepts, Refuses
  <2>3. QED
    BY <1>8, <2>1, <2>2, CloseMaps DEF FailureAck, Accepts, Refuses, Confirmed
<1>9. ASSUME NEW d \in In, Ack(d)
      PROVE  Maps
  <2>1. Accepts(d) /\ ~Refuses(d) /\ remote_tag = d /\ remote_tag' = remote_tag
    BY <1>9, Dialogs DEF Ack, Client, Acked, Answers
  <2>2. /\ Accepts(d)' /\ ~Refuses(d)' /\ Confirmed(d)'
        /\ status[d] = "Accepted" /\ status'[d] = "Call"
    BY <1>9, <2>1, Dialogs DEF Ack, Accepts, Refuses, Confirmed, Tell
  <2>3. CallerKept /\ OthersKept(d)
    BY <1>9, Dialogs DEF Ack, CallerKept, OthersKept, Kept, Confirmed, Accepts, Refuses, Tell
  <2>4. Callee(d)' = "connected" /\ Callee(d) \in {"accepted", "connected"}
    BY <2>1, <2>2 DEF Callee, Accepts, Refuses, Confirmed
  <2>5. Abstract!Becomes(d, Callee(d)')
    BY <2>1, <2>3, OneMoves
  <2>6. CASE Callee(d) = "accepted"
    <3>1. Abstract!Confirm(d)
      BY <2>1, <2>4, <2>5, <2>6 DEF Abstract!Confirm, Phases
    <3>2. QED
      BY <3>1 DEF Maps, Abstract!Next
  <2>7. CASE Callee(d) = "connected"
    <3>1. Phases' = Phases
      BY <2>3, <2>4, <2>7, CalleeKept DEF Phases, OthersKept
    <3>2. QED
      BY <2>1, <2>3, <3>1, CallerPhaseKept DEF Maps, Abstract!vars, Phases
  <2>8. QED
    BY <2>4, <2>6, <2>7
<1>10. ASSUME NEW d \in Dialog, Bye(d)
      PROVE  Maps
  <2>1. Settle(d, "Close") /\ status[d] \in {"Call", "Byeing"} /\ told' = told /\ remote_tag' = remote_tag
    BY <1>10 DEF Bye
  <2>2. \A x \in In : (Accepts(x)' <=> Accepts(x)) /\ (Refuses(x)' <=> Refuses(x))
    BY <1>10 DEF Bye, Accepts, Refuses, Send, Msg
  <2>3. /\ status'[d] = "Close"
        /\ \A x \in Dialog : x # d =>
             \/ status'[x] = status[x]
             \/ x \in In /\ status[x] = "Init" /\ status'[x] = "Waiting"
    BY <2>1, SettleFacts DEF Status
  <2>4. QED
    BY <2>1, <2>2, <2>3, EndMaps
<1>11. ASSUME NEW d \in Dialog, ByeAnswered(d)
      PROVE  Maps
  <2>1. Settle(d, "Close") /\ status[d] \in {"Call", "Byeing"} /\ told' = told /\ remote_tag' = remote_tag
    BY <1>11 DEF ByeAnswered
  <2>2. \A x \in In : (Accepts(x)' <=> Accepts(x)) /\ (Refuses(x)' <=> Refuses(x))
    BY <1>11 DEF ByeAnswered, Accepts, Refuses, Send, Msg
  <2>3. /\ status'[d] = "Close"
        /\ \A x \in Dialog : x # d =>
             \/ status'[x] = status[x]
             \/ x \in In /\ status[x] = "Init" /\ status'[x] = "Waiting"
    BY <2>1, SettleFacts DEF Status
  <2>4. QED
    BY <2>1, <2>2, <2>3, EndMaps
<1>12. ASSUME NEW t \in Timer, Expire(t)
      PROVE  Maps
  <2>1. CallerKept /\ \A x \in In : Kept(x)
    BY <1>12, Dialogs DEF Expire, CallerKept, Kept, Confirmed, Accepts, Refuses
  <2>2. QED
    BY <1>12, <2>1, Stutter DEF Expire
<1>13. CASE InviteTimeout
  <2>1. CASE Pending
    <3>1. \A x \in In : (Accepts(x)' <=> Accepts(x)) /\ (Refuses(x)' <=> Refuses(x)) /\ told'[x] = told[x]
      BY <1>13, <2>1, Dialogs DEF InviteTimeout, Accepts, Refuses, Send, Msg, Tell
    <3>2. Settle(Out, "Close") /\ status[Out] = "Inviting" /\ remote_tag' = remote_tag
      BY <1>13, <2>1 DEF InviteTimeout, Pending
    <3>3. told'[Out] \in {{"refused"}, {"timeout"}}
      BY <1>13, <2>1, Dialogs, <3>2 DEF InviteTimeout, Tell, Client
    <3>4. status'[Out] = "Close" /\ \A x \in In : Kept(x)
      BY <3>1, <3>2, SettleFacts, Dialogs DEF Kept, Confirmed, Status
    <3>5. QED
      BY <3>2, <3>3, <3>4, CallerFails
  <2>2. CASE ~Pending
    <3>1. CallerKept /\ remote_tag' = remote_tag /\ \A x \in In : Kept(x)
      BY <1>13, <2>2, Dialogs DEF InviteTimeout, CallerKept, Kept, Confirmed, Accepts, Refuses
    <3>2. QED
      BY <3>1, Stutter
  <2>3. QED
    BY <2>1, <2>2
<1>14. ASSUME NEW d \in In, ClearingTimeout(d)
      PROVE  Maps
  <2>1. CallerKept /\ \A x \in In : Kept(x)
    BY <1>14, Dialogs DEF ClearingTimeout, CallerKept, Kept, Confirmed, Accepts, Refuses
  <2>2. QED
    BY <1>14, <2>1, Stutter DEF ClearingTimeout
<1>15. ASSUME NEW d \in In, AckTimeout(d)
      PROVE  Maps
  <2>1. /\ told' = told /\ remote_tag' = remote_tag
        /\ \A x \in Dialog : x # d => status'[x] = status[x]
        /\ \A x \in In : (Accepts(x)' <=> Accepts(x)) /\ (Refuses(x)' <=> Refuses(x))
        /\ status'[d] = IF status[d] = "Accepted" THEN "Close" ELSE status[d]
    BY <1>15, Dialogs DEF AckTimeout, DialogTimeout, Accepts, Refuses
  <2>2. CASE status[d] = "Accepted"
    BY <2>1, <2>2, Dialogs, EndMaps
  <2>3. CASE status[d] # "Accepted"
    <3>1. CallerKept /\ \A x \in In : Kept(x)
      BY <2>1, <2>3, Dialogs DEF CallerKept, Kept, Confirmed
    <3>2. QED
      BY <2>1, <3>1, Stutter
  <2>4. QED
    BY <2>2, <2>3
<1>16. ASSUME NEW d \in Dialog, EndTimeout(d)
      PROVE  Maps
  <2>1. CallerKept /\ \A x \in In : Kept(x)
    BY <1>16, Dialogs DEF EndTimeout, CallerKept, Kept, Confirmed, Accepts, Refuses
  <2>2. QED
    BY <1>16, <2>1, Stutter DEF EndTimeout
<1>17. ASSUME NEW d \in Dialog, ByeTimeout(d)
      PROVE  Maps
  <2>1. /\ told' = told /\ remote_tag' = remote_tag
        /\ \A x \in Dialog : x # d => status'[x] = status[x]
        /\ \A x \in In : (Accepts(x)' <=> Accepts(x)) /\ (Refuses(x)' <=> Refuses(x))
        /\ status'[d] = IF status[d] = "Byeing" THEN "Close" ELSE status[d]
    BY <1>17, Dialogs DEF ByeTimeout, DialogTimeout, Accepts, Refuses
  <2>2. CASE status[d] = "Byeing"
    BY <2>1, <2>2, Dialogs, EndMaps
  <2>3. CASE status[d] # "Byeing"
    <3>1. CallerKept /\ \A x \in In : Kept(x)
      BY <2>1, <2>3, Dialogs DEF CallerKept, Kept, Confirmed
    <3>2. QED
      BY <2>1, <3>1, Stutter
  <2>4. QED
    BY <2>2, <2>3
<1>18. CASE Invite
  <2>1. \A x \in In : (Accepts(x)' <=> Accepts(x)) /\ (Refuses(x)' <=> Refuses(x))
    BY <1>18 DEF Invite, Accepts, Refuses, Send, Msg
  <2>2. \A x \in In : Kept(x)
    BY <1>18, <2>1, Dialogs DEF Invite, Kept, Confirmed
  <2>3. Caller = "idle" /\ told[Out] = {} /\ remote_tag' = remote_tag
    BY <1>18 DEF Invite, Caller, Client
  <2>4. Caller' = "calling"
    <3>1. told'[Out] = {} /\ status'[Out] = "Inviting"
      BY <1>18, <2>3, Dialogs DEF Invite
    <3>2. QED
      BY <3>1 DEF Caller
  <2>5. QED
    BY <2>2, <2>3, <2>4, CallerMaps
<1>19. ASSUME NEW d \in In, Answer(d)
      PROVE  Maps
  <2>1. \A x \in In : x # d => (Accepts(x)' <=> Accepts(x)) /\ (Refuses(x)' <=> Refuses(x))
    BY <1>19 DEF Answer, Accepts, Refuses, Send, Msg
  <2>2. Accepts(d)' \/ Refuses(d)'
    BY <1>19 DEF Answer, Accepts, Refuses, Send
  <2>3. /\ status[d] \in {"Waiting", "Invited"} /\ status[Out] # "Init"
        /\ told' = told /\ remote_tag' = remote_tag
    BY <1>19, Dialogs DEF Answer, Begun
  <2>4. status'[d] # "Close" /\ \A x \in Dialog : x # d =>
          \/ status'[x] = status[x]
          \/ x \in In /\ status[x] = "Init" /\ status'[x] = "Waiting"
    BY <1>19, Dialogs DEF Answer
  <2>5. CallerKept /\ OthersKept(d)
    BY <2>1, <2>3, <2>4, Dialogs DEF CallerKept, OthersKept, Kept, Confirmed
  <2>6. ~Confirmed(d)'
    BY <2>3, Unanswered DEF Confirmed
  <2>7. QED
    BY <2>2, <2>3, <2>4, <2>5, <2>6, AnswerMaps
<1>20. ASSUME NEW d \in Dialog, HangUpCall(d)
      PROVE  Maps
  <2>1. HangUp(d) /\ told' = told /\ remote_tag' = remote_tag
    BY <1>20 DEF HangUpCall
  <2>2. QED
    BY <2>1, HangUpMaps
<1>21. ASSUME NEW d \in Dialog, HangUpRenew(d)
      PROVE  Maps
  <2>1. d \in call /\ status' = Renewed(d, status) /\ call' = Replaced(d)
    BY <1>21 DEF HangUpRenew
  <2>2. \A x \in Dialog : status'[x] = status[x] \/ (x \in In /\ status[x] = "Init" /\ status'[x] = "Waiting")
    BY <2>1, RenewFacts, Dialogs
  <2>3. CallerKept /\ remote_tag' = remote_tag /\ \A x \in In : Kept(x)
    BY <1>21, <2>2, Dialogs DEF HangUpRenew, CallerKept, Kept, Confirmed, Accepts, Refuses
  <2>4. QED
    BY <2>3, Stutter
<1>22. ASSUME NEW e \in Ends, HangUpIdle(e)
      PROVE  Maps
  <2>1. told' = told /\ remote_tag' = remote_tag
    BY <1>22 DEF HangUpIdle
  <2>2. CASE UNCHANGED <<net, status, invite_ts, armed>>
    <3>1. CallerKept /\ \A x \in In : Kept(x)
      BY <2>1, <2>2 DEF CallerKept, Kept, Confirmed, Accepts, Refuses
    <3>2. QED
      BY <2>1, <3>1, Stutter
  <2>3. CASE \E d \in call : HangUp(d)
    BY <2>1, <2>3, HangUpMaps
  <2>4. QED
    BY <1>22, <2>2, <2>3 DEF HangUpIdle
<1>23. CASE UNCHANGED vars
  <2>1. CallerKept /\ remote_tag' = remote_tag /\ \A x \in In : Kept(x)
    BY <1>23 DEF vars, CallerKept, Kept, Confirmed, Accepts, Refuses
  <2>2. QED
    BY <2>1, Stutter
<1>24. QED
  BY <1>1, <1>2, <1>3, <1>4, <1>5, <1>6, <1>7, <1>8, <1>9, <1>10, <1>11, <1>12,
     <1>13, <1>14, <1>15, <1>16, <1>17, <1>18, <1>19, <1>20, <1>21, <1>22, <1>23
  DEF Next, Receive, Timeout, User

LEMMA InitMaps == Init => Abstract!Init
<1> SUFFICES ASSUME Init PROVE Abstract!Init
  OBVIOUS
<1>1. Caller = "idle"
  BY Dialogs DEF Init, Caller, Out
<1>2. \A d \in In : Callee(d) = "free"
  BY Dialogs DEF Init, Callee
<1>3. QED
  BY <1>1, <1>2 DEF Init, Abstract!Init

\* The stack keeps the promise of CallOutcome, whatever the network, the timers
\* and the users do and however often the INVITE is taken for a new call.
THEOREM Implements == Spec => KeepsOutcome
<1>1. Init => Abstract!Init
  BY InitMaps
<1>2. IInv /\ [Next]_vars => [Abstract!Next]_(Abstract!vars)
  BY StepMaps DEF Maps
<1>3. QED
  BY <1>1, <1>2, Invariant, PTL DEF Spec, KeepsOutcome, Abstract!Spec
=============================================================================
