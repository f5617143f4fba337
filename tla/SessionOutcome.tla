--------------------------- MODULE SessionOutcome ---------------------------
(***************************************************************************)
(* What an undisturbed registration session promises whoever started it:   *)
(* it gets from the start to being online and stays so until Limit + 1     *)
(* Keepalives in a row of those sent have no answer; then, and only then,  *)
(* it gives the connection up, and registers again.  Nothing ends it but a *)
(* stack that does not come up, at the start or at a restart, and then it  *)
(* is down for good.                                                       *)
(***************************************************************************)
EXTENDS Naturals

CONSTANT Limit  \* unanswered Keepalives it puts up with

VARIABLES
  phase,      \* what the session is at
  unanswered  \* Keepalives without an answer, while it is online

vars == <<phase, unanswered>>

Init == phase = "off" /\ unanswered = 0

Becomes(from, to) == phase = from /\ phase' = to /\ unanswered' = 0

Start == Becomes("off", "registering")
Succeed == Becomes("registering", "online")

Send ==
  /\ phase = "online" /\ unanswered <= Limit
  /\ unanswered' = unanswered + 1 /\ UNCHANGED phase

Answer ==
  /\ phase = "online" /\ unanswered > 0
  /\ unanswered' = unanswered - 1 /\ UNCHANGED phase

GiveUp == unanswered = Limit + 1 /\ Becomes("online", "restarting")
Restart == Becomes("restarting", "registering")

\* The stack does not come up.
Fail == Becomes("registering", "down")

\* From here on the session is not its own: it was started again, unregistered,
\* or a call of it was released.
Disturb == phase # "disturbed" /\ phase' = "disturbed" /\ unanswered' = 0

Next ==
  Start \/ Succeed \/ Send \/ Answer \/ GiveUp \/ Restart \/ Fail \/ Disturb

Spec == Init /\ [][Next]_vars

=============================================================================
