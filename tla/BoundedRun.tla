----------------------------- MODULE BoundedRun -----------------------------
(***************************************************************************)
(* What the executor promises to its caller, without saying how: a run     *)
(* under a budget makes paid attempts, credits some of them, and ends with *)
(* one verdict that is final.  "Retry/replan logic is bounded by stop      *)
(* rules": an attempt is only made while the budget is not spent, and      *)
(* steps are only credited up to the limit; the verdicts that name a limit *)
(* are given only when it was reached.                                     *)
(***************************************************************************)
EXTENDS Naturals

CONSTANT Limits   \* the records [maxSteps, maxCost, costPerStep] of the runs

VARIABLES limits, attempts, spent, credited, verdict

abstractVars == <<limits, attempts, spent, credited, verdict>>

(* "crashed" is the end of a run that an exception left, which may happen  *)
(* between any two attempts.                                               *)
Verdicts ==
  {"exhausted", "success_criteria_met", "max_steps", "budget_guard",
   "max_retries", "non_progress", "policy_blocked", "crashed"}

Init ==
  /\ limits \in Limits
  /\ attempts = 0 /\ spent = 0 /\ credited = 0
  /\ verdict = "open"

Attempt ==
  /\ verdict = "open"
  /\ spent < limits.maxCost /\ credited < limits.maxSteps
  /\ attempts' = attempts + 1 /\ spent' = spent + limits.costPerStep
  /\ UNCHANGED <<limits, credited, verdict>>

(* An attempt is credited once: there are never more credits than attempts. *)
Credit ==
  /\ verdict = "open"
  /\ credited < attempts
  /\ credited' = credited + 1
  /\ UNCHANGED <<limits, attempts, spent, verdict>>

End(v) ==
  /\ verdict = "open"
  /\ v = "max_steps" => credited = limits.maxSteps
  /\ v = "budget_guard" => spent >= limits.maxCost
  /\ v \in {"max_retries", "non_progress", "policy_blocked"} => attempts > credited
  /\ verdict' = v
  /\ UNCHANGED <<limits, attempts, spent, credited>>

Next == Attempt \/ Credit \/ \E v \in Verdicts : End(v)

(* What may happen, and that something does until there is a verdict.      *)
Safety == Init /\ [][Next]_abstractVars

Spec == Safety /\ WF_abstractVars(Next)
=============================================================================
