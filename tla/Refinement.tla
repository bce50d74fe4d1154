----------------------------- MODULE Refinement -----------------------------
(***************************************************************************)
(* execution/refinement.py: what to do about a failed step.  The decision  *)
(* is a function of the step, the signal, the attempt number, the plan's   *)
(* retry limit and what the planner would answer to a replanning request.  *)
(*                                                                         *)
(* A step is a record [id, tool, args, fallback].  `fallback' holds those  *)
(* of "replan" and "skip" that occur in the step's fallback strategy (the  *)
(* strategies naming an alternate endpoint also say replan).  args.timeout *)
(* is in abstract units, of which the retry patch never asks for more than *)
(* MaxTimeout; args.strict says that the body must parse as JSON           *)
(* (expect_json and not allow_malformed).                                  *)
(*                                                                         *)
(* As in Executor, a definition that nothing uses and that precedes its    *)
(* namesake is a mistake the properties are tried against.                 *)
(***************************************************************************)
EXTENDS Naturals, Sequences, Monitors

CONSTANT MaxTimeout   \* the 10.0 seconds of the timeout patch, in units

ASSUME MaxTimeoutAssumption == MaxTimeout \in Nat \ {0}

HttpTools == {"http_get", "http_post"}

PrefersReplan(step) == "replan" \in step.fallback

(* The longer timeout a retry after a timeout asks for. *)
Doubled(timeout) == IF 2 * timeout < MaxTimeout THEN 2 * timeout ELSE MaxTimeout

(* The arguments of the retried call: tool_args updated with patched_args. *)
PatchedArgs(step, failure) ==
  CASE failure = "timeout" /\ step.tool \in HttpTools ->
         [step.args EXCEPT !.timeout = Doubled(@)]
    [] failure = "schema_error" /\ step.tool = "http_get" /\ ~PrefersReplan(step) ->
         [step.args EXCEPT !.strict = FALSE]
    [] OTHER -> step.args

(* A step that prefers replanning is replanned as soon as its response is  *)
(* malformed, whatever its attempt number.                                 *)
ReplansEarly(step, signal) ==
  signal.type = "schema_error" /\ PrefersReplan(step)

(* Replanning as the last resort, once no retry is left. *)
ReplansLate(step, signal) ==
  /\ signal.type \in {"schema_error", "tool_error", "timeout"}
  /\ PrefersReplan(step) \/ signal.type = "schema_error"

DecideRetryFirst(step, signal, attempt, maxRetries, answer) ==
  IF signal.type = "non_progress" THEN "abort"
  ELSE IF signal.retryable /\ attempt <= maxRetries THEN "patch_and_retry"
  ELSE IF ReplansLate(step, signal) /\ answer # << >> THEN "replan_remaining"
  ELSE IF "skip" \in step.fallback THEN "skip_step" ELSE "abort"

(* The refinement action for a failed step.  `answer' is the sequence of   *)
(* steps the planner returns when asked to replan after this failure.      *)
Decide(step, signal, attempt, maxRetries, answer) ==
  IF signal.type = "non_progress" THEN "abort"
  ELSE IF ReplansEarly(step, signal) /\ answer # << >> THEN "replan_remaining"
  ELSE IF signal.retryable /\ attempt < maxRetries THEN "patch_and_retry"
  ELSE IF ReplansLate(step, signal) /\ answer # << >> THEN "replan_remaining"
  ELSE IF "skip" \in step.fallback THEN "skip_step"
  ELSE "abort"
=============================================================================
