---------------------------- MODULE CallOutcome -----------------------------
(***************************************************************************)
(* What a call promises its two ends, whatever the network does: the       *)
(* parties that are asked answer once, the caller is connected to one      *)
(* party at most and only to one that accepted, a party is connected only  *)
(* to a caller that is connected to it, and nothing that has failed or is  *)
(* over comes back.                                                        *)
(***************************************************************************)
CONSTANTS
  Party,   \* those that may be asked
  Nobody   \* none of them

VARIABLES
  caller,  \* what the caller knows of the call
  with,    \* the party it is connected to
  callee   \* what each party knows of it

vars == <<caller, with, callee>>

Init == caller = "idle" /\ with = Nobody /\ callee = [p \in Party |-> "free"]

Call == caller = "idle" /\ caller' = "calling" /\ UNCHANGED <<with, callee>>

Becomes(p, phase) == callee' = [callee EXCEPT ![p] = phase] /\ UNCHANGED <<caller, with>>

Ask(p) == caller # "idle" /\ callee[p] = "free" /\ Becomes(p, "asked")

Answer(p) ==
  /\ caller # "idle" /\ callee[p] \in {"free", "asked"}
  /\ \E answer \in {"accepted", "refused"} : Becomes(p, answer)

Connect(p) ==
  /\ caller = "calling" /\ callee[p] \in {"accepted", "unheard"}
  /\ caller' = "connected" /\ with' = p /\ UNCHANGED callee

Fail == caller = "calling" /\ caller' = "failed" /\ UNCHANGED <<with, callee>>

Confirm(p) == with = p /\ callee[p] = "accepted" /\ Becomes(p, "connected")

\* A party that has accepted gives up waiting for the caller.
GiveUp(p) == callee[p] = "accepted" /\ Becomes(p, "unheard")

End == caller = "connected" /\ caller' = "over" /\ UNCHANGED <<with, callee>>
Leave(p) == callee[p] = "connected" /\ Becomes(p, "over")

Next ==
  \/ Call \/ Fail \/ End
  \/ \E p \in Party : Ask(p) \/ Answer(p) \/ Connect(p) \/ Confirm(p) \/ GiveUp(p) \/ Leave(p)

Spec == Init /\ [][Next]_vars

=============================================================================
