------------------------------ MODULE Executor ------------------------------
(***************************************************************************)
(* execution/executor.py with the short-term memory, the monitors and the  *)
(* refinement engine it drives: the monitored control loop that takes a    *)
(* plan to a verdict.                                                      *)
(*                                                                         *)
(* One iteration of the loop is three steps here: the stop guards and the  *)
(* tool call; the row the call leaves in tool_outcomes; and the handling   *)
(* of the outcome (credit, retry, replan, skip, stop).  They are separate  *)
(* because an exception may leave run in between: from the log entry that  *)
(* precedes the call, from the saving of the row, or from the planner, who *)
(* reads the memory database when it is asked to replan.                   *)
(*                                                                         *)
(* A run is a record:                                                      *)
(*   steps       the plan's steps, with arguments as plan validation left  *)
(*               them;                                                     *)
(*   answers     what planner.replan_remaining returns for each type of    *)
(*               failure (it depends on the goal and that type only);      *)
(*   criteria    the success criteria, named "http", "db", "calc", "file", *)
(*               "summary" after the flag that meets them, "final" for the *)
(*               criterion no flag meets;                                  *)
(*   mentioned   the criteria whose wording occurs in the initial state    *)
(*               (goal, context, recalled memory), where the textual match *)
(*               finds it;                                                 *)
(*   maxSteps, maxRetries, maxCost, costPerStep   the plan's limits;       *)
(*   threshold   the configured non_progress_threshold.                    *)
(*                                                                         *)
(* Response bodies are taken not to spell out a criterion.                 *)
(*                                                                         *)
(* A definition that no other one uses and that precedes its namesake      *)
(* (BudgetSpentLate before BudgetSpent, and so on) is the mistake the code *)
(* avoids; the properties are tried against it.                            *)
(***************************************************************************)
EXTENDS Integers, Sequences, FiniteSets, Counters, Monitors, Refinement

CONSTANTS
  Ids,         \* step ids
  Tools,       \* tool names
  Targets,     \* what a call is about: a URL, a statement, an expression
  Runs         \* the runs the executor may be given

Criteria == {"http", "db", "calc", "file", "summary", "final"}

(* args.text: 0 is the placeholder sentence of a summarize step, 1 any     *)
(* other text, n + 2 the dump of n observations.  args.full says that the  *)
(* arguments hold every default of the schema, as plan validation leaves   *)
(* them and a replanned step does not have them.                           *)
Args == [target: Targets, timeout: Nat, strict: BOOLEAN,
         text: Nat, full: BOOLEAN]

Steps == [id: Ids, tool: Tools, args: Args, fallback: SUBSET {"replan", "skip"}]

RunRecords ==
  [steps: Seq(Steps), answers: [FailureTypes -> Seq(Steps)],
   criteria: SUBSET Criteria, mentioned: SUBSET Criteria,
   maxSteps: Nat, maxRetries: Nat, maxCost: Nat, costPerStep: Nat \ {0},
   threshold: Nat]

(* Replanning never answers with no steps: the planner adds a summarize    *)
(* step to an empty plan, and returns the remaining steps otherwise.  A    *)
(* planned step has the placeholder or a text of its own, never a dump of  *)
(* observations that are still to be made.                                 *)
IsRun(r) ==
  /\ r \in RunRecords
  /\ \A f \in FailureTypes : r.answers[f] # << >>
  /\ \A s \in {r.steps} \cup {r.answers[f] : f \in FailureTypes} :
       \A i \in 1..Len(s) : s[i].args.text < 2

ASSUME RunsAssumption == \A r \in Runs : IsRun(r)

VARIABLES
  run,           \* the run's input
  pc,            \* "start", "head", "called", "saved"; then "done", or one of Raised
  status,        \* trace.status
  stopReason,    \* trace.stop_reason.type
  steps,         \* the executor's own list of steps, patched and replanned
  stepIndex,     \* how many steps of that list were left behind
  completed,     \* completed_steps
  cost,          \* cost_units
  retries,       \* short-term memory: retries marked, per step id
  signatures,    \*   failing calls seen, per tool and arguments
  observations,  \*   step ids of the recorded observations
  achieved,      \*   criteria whose flag is set in the state
  announced,     \*   criteria spelled out by the last recorded refinement
  toolCalls,     \* trace.tool_calls
  stepEvents,    \* trace.step_events
  refinements,   \* trace.refinements, as [action, failure]
  outcomes,      \* rows of this run in the tool_outcomes table
  metrics        \* the counters of started, completed and failed runs

loopVars  == <<steps, stepIndex, completed, cost>>
stmVars   == <<retries, signatures, observations, achieved, announced>>
traceVars == <<toolCalls, stepEvents, refinements, outcomes>>
vars == <<run, pc, status, stopReason, loopVars, stmVars, traceVars, metrics>>

-----------------------------------------------------------------------------
(* Pieces of the loop body. *)

(* The flag in the state that a tool's success sets. *)
FlagOf(tool) ==
  CASE tool \in HttpTools   -> {"http"}
    [] tool = "db_query"    -> {"db"}
    [] tool = "calc"        -> {"calc"}
    [] tool = "file_write"  -> {"file"}
    [] tool = "summarize"   -> {"summary"}
    [] OTHER                -> {}

(* What a tool handler can end with, as the status of the call record. *)
ToolStatuses(step) ==
  CASE step.tool \in HttpTools ->
         {"success", "timeout", "error"}
           \cup (IF step.args.strict THEN {"schema_error"} ELSE {})
    [] step.tool \in {"calc", "file_write"} -> {"success", "policy_blocked", "error"}
    [] OTHER -> {"success", "error"}

CriteriaMetAny ==
  (run.criteria \cap (achieved \cup run.mentioned \cup announced)) # {}

(* _success_criteria_met: every criterion has its flag, or its wording     *)
(* occurs in the dump of the state.                                        *)
CriteriaMet ==
  /\ run.criteria # {}
  /\ run.criteria \subseteq achieved \cup run.mentioned \cup announced

(* The wording of criterion "file" is also the expected observation of a   *)
(* file_write step, and the last refinement, replanned steps included, is  *)
(* part of the state that is searched.                                     *)
AnnouncedBy(newSteps) ==
  IF \E i \in 1..Len(newSteps) : newSteps[i].tool = "file_write"
  THEN {"file"} ELSE {}

More == stepIndex < Len(steps)
Current == steps[stepIndex + 1]

WithStepOutputs(step) ==
  IF step.tool = "summarize" /\ step.args.text = 0
  THEN [step EXCEPT !.args.text =
          Cardinality({observations[i] : i \in 1..Len(observations)}) + 2]
  ELSE step

(* A summarize step still holding the placeholder gets the observations,   *)
(* or the state when there are none.                                       *)
WithObservations(step) ==
  IF step.tool = "summarize" /\ step.args.text = 0
  THEN [step EXCEPT !.args.text = Len(observations) + 2]
  ELSE step

Call == toolCalls[Len(toolCalls)]
CallSignatureOfAttempt == <<Call.tool, Call.args, Call.attempt>>
CallSignature == <<Call.tool, Call.args>>
Seen == Bump(signatures, CallSignature)

(* signals[0]: non-progress comes before what the monitors found. *)
FailureSignal ==
  LET found == EvaluateToolCall(Call.status, FALSE)
  IN  IF DetectNonProgress(CountOf(Seen, CallSignature), run.threshold)
      THEN Signal("non_progress", FALSE)
      ELSE IF found = << >> THEN Signal("unknown", FALSE)
      ELSE Head(found)

(* How an exception leaves run: before a call, before its row is saved, or *)
(* before it is decided what to do about its failure.                      *)
Raised == {"unlogged", "unsaved", "undecided"}

Event(st, failure, action) ==
  [id |-> Call.id, attempt |-> Call.attempt, status |-> st,
   failure |-> failure, action |-> action]

-----------------------------------------------------------------------------
(* Before run is entered. *)
Unstarted ==
  /\ pc = "start" /\ status = "VALIDATED" /\ stopReason = "none"
  /\ steps = << >> /\ stepIndex = 0 /\ completed = 0 /\ cost = 0
  /\ retries = NoCounts /\ signatures = NoCounts
  /\ observations = << >> /\ achieved = {} /\ announced = {}
  /\ toolCalls = << >> /\ stepEvents = << >> /\ refinements = << >>
  /\ outcomes = << >>
  /\ metrics = [started |-> 0, completed |-> 0, failed |-> 0]

Init == run \in Runs /\ Unstarted

(* Entering run: the plan's steps are copied. *)
Begin ==
  /\ pc = "start"
  /\ pc' = "head" /\ status' = "EXECUTING"
  /\ steps' = run.steps
  /\ metrics' = [metrics EXCEPT !.started = @ + 1]
  /\ UNCHANGED <<run, stopReason, stepIndex, completed, cost, stmVars, traceVars>>

FinishWithoutBreak(st, reason) ==
  /\ pc' = "head" /\ status' = st /\ stopReason' = reason
  /\ UNCHANGED <<run, metrics>>

(* Leaving run with a verdict. *)
Finish(st, reason) ==
  /\ pc' = "done" /\ status' = st /\ stopReason' = reason
  /\ metrics' = IF st = "COMPLETED" THEN [metrics EXCEPT !.completed = @ + 1]
                                    ELSE [metrics EXCEPT !.failed = @ + 1]
  /\ UNCHANGED run

(* The three stop guards of the loop head, in the order of the code. *)
StopOnSuccess ==
  /\ pc = "head" /\ More
  /\ CriteriaMet
  /\ Finish("STOPPED", "success_criteria_met")
  /\ UNCHANGED <<loopVars, stmVars, traceVars>>

StepsSpentLate == completed > run.maxSteps
StepsSpent == completed >= run.maxSteps

StopOnMaxSteps ==
  /\ pc = "head" /\ More
  /\ ~CriteriaMet /\ StepsSpent
  /\ Finish("STOPPED", "max_steps")
  /\ UNCHANGED <<loopVars, stmVars, traceVars>>

BudgetSpentLate == cost > run.maxCost
BudgetSpent == cost >= run.maxCost

StopOnBudget ==
  /\ pc = "head" /\ More
  /\ ~CriteriaMet /\ ~StepsSpent /\ BudgetSpent
  /\ Finish("STOPPED", "budget_guard")
  /\ UNCHANGED <<loopVars, stmVars, traceVars>>

(* The log entry of the step, step_start, cannot be written.               *)
StepStartRaises ==
  /\ pc = "head" /\ More
  /\ ~CriteriaMet /\ ~StepsSpent /\ ~BudgetSpent
  /\ pc' = "unlogged" /\ status' = "EXECUTING"
  /\ UNCHANGED <<run, stopReason, loopVars, stmVars, traceVars, metrics>>

(* The tool runs and its outcome is recorded; the call is paid for whether *)
(* it succeeded or not.                                                    *)
CallTool ==
  LET step == WithObservations(Current)
  IN  /\ pc = "head" /\ More
      /\ ~CriteriaMet /\ ~StepsSpent /\ ~BudgetSpent
      /\ pc' = "called" /\ status' = "EXECUTING"
      /\ steps' = [steps EXCEPT ![stepIndex + 1] = step]
      /\ cost' = cost + run.costPerStep
      /\ \E outcome \in ToolStatuses(step) :
           toolCalls' = Append(toolCalls,
             [id |-> step.id, tool |-> step.tool, args |-> step.args,
              attempt |-> CountOf(retries, step.id) + 1, status |-> outcome])
      /\ UNCHANGED <<run, stopReason, stepIndex, completed, stmVars,
                     stepEvents, refinements, outcomes, metrics>>

(* save_tool_outcome commits a row, or raises out of the executor.         *)
SaveOutcome ==
  /\ pc = "called"
  /\ pc' = "saved"
  /\ outcomes' = Append(outcomes, <<Call.id, Call.status>>)
  /\ UNCHANGED <<run, status, stopReason, loopVars, stmVars,
                 toolCalls, stepEvents, refinements, metrics>>

SaveOutcomeRaises ==
  /\ pc = "called"
  /\ pc' = "unsaved"
  /\ UNCHANGED <<run, status, stopReason, loopVars, stmVars, traceVars, metrics>>

OnSuccess ==
  /\ pc = "saved" /\ Call.status = "success"
  /\ pc' = "head"
  /\ observations' = Append(observations, Call.id)
  /\ achieved' = achieved \cup FlagOf(Call.tool)
  /\ stepEvents' = Append(stepEvents, Event("SUCCESS", "none", "none"))
  /\ completed' = completed + 1
  /\ stepIndex' = stepIndex + 1
  /\ UNCHANGED <<run, status, stopReason, steps, cost, retries, signatures,
                 announced, toolCalls, refinements, outcomes, metrics>>

-----------------------------------------------------------------------------
(* The handling of a failed call.  The call is counted under its signature *)
(* whatever is decided.                                                    *)

Failed ==
  /\ pc = "saved" /\ Call.status # "success"
  /\ signatures' = Seen

FailedEvent(action) == Event("FAILED", FailureSignal.type, action)

StopNonProgress ==
  /\ Failed
  /\ FailureSignal.type = "non_progress"
  /\ Finish("STOPPED", "non_progress")
  /\ stepEvents' = Append(stepEvents, FailedEvent("none"))
  /\ UNCHANGED <<loopVars, retries, observations, achieved, announced,
                 toolCalls, refinements, outcomes>>

RetriesSpentAnySignal == Call.attempt >= run.maxRetries
RetriesSpentLate == Call.attempt > run.maxRetries /\ FailureSignal.retryable
RetriesSpent == Call.attempt >= run.maxRetries /\ FailureSignal.retryable

StopMaxRetries ==
  /\ Failed
  /\ FailureSignal.type # "non_progress" /\ RetriesSpent
  /\ Finish("STOPPED", "max_retries")
  /\ stepEvents' = Append(stepEvents, FailedEvent("none"))
  /\ UNCHANGED <<loopVars, retries, observations, achieved, announced,
                 toolCalls, refinements, outcomes>>

(* No stop rule applies: the refinement engine decides.                    *)
Answer == run.answers[FailureSignal.type]

Chosen(action) ==
  /\ Failed
  /\ FailureSignal.type # "non_progress" /\ ~RetriesSpent
  /\ Decide(Current, FailureSignal, Call.attempt, run.maxRetries, Answer) = action

Decided(action) ==
  /\ Chosen(action)
  /\ refinements' = Append(refinements,
                           [action |-> action, failure |-> FailureSignal.type])
  /\ UNCHANGED <<toolCalls, outcomes>>

(* The engine asks the planner when its answer is what will be done, and   *)
(* then only; recalling memory raises out of decide and of run.  The row   *)
(* is saved by then and the signature counted, but nothing else of the     *)
(* failure is recorded.                                                    *)
ReplanRaises ==
  /\ Chosen("replan_remaining")
  /\ pc' = "undecided"
  /\ UNCHANGED <<run, status, stopReason, loopVars, retries, observations,
                 achieved, announced, traceVars, metrics>>

PatchWithoutMarking ==
  /\ Decided("patch_and_retry")
  /\ stepEvents' = Append(stepEvents, FailedEvent("patch_and_retry"))
  /\ pc' = "head" /\ status' = "REFINING"
  /\ steps' = [steps EXCEPT ![stepIndex + 1].args =
                                PatchedArgs(Current, FailureSignal.type)]
  /\ announced' = {}
  /\ UNCHANGED <<run, stopReason, stepIndex, completed, cost, retries,
                 observations, achieved, metrics>>

PatchAndRetry ==
  /\ Decided("patch_and_retry")
  /\ stepEvents' = Append(stepEvents, FailedEvent("patch_and_retry"))
  /\ pc' = "head" /\ status' = "REFINING"
  /\ steps' = [steps EXCEPT ![stepIndex + 1].args =
                                PatchedArgs(Current, FailureSignal.type)]
  /\ retries' = Bump(retries, Call.id)
  /\ announced' = {}
  /\ UNCHANGED <<run, stopReason, stepIndex, completed, cost,
                 observations, achieved, metrics>>

ReplannedWhole == Answer

(* The steps from the current one on are replaced by the planner's answer. *)
Replanned == SubSeq(steps, 1, stepIndex) \o Answer

ReplanAfresh ==
  /\ Decided("replan_remaining")
  /\ stepEvents' = Append(stepEvents, FailedEvent("replan_remaining"))
  /\ pc' = "head" /\ status' = "REFINING"
  /\ steps' = Replanned
  /\ retries' = NoCounts
  /\ announced' = AnnouncedBy(Answer)
  /\ UNCHANGED <<run, stopReason, stepIndex, completed, cost,
                 observations, achieved, metrics>>

(* The retry counts of the step ids are kept.                              *)
ReplanRemaining ==
  /\ Decided("replan_remaining")
  /\ stepEvents' = Append(stepEvents, FailedEvent("replan_remaining"))
  /\ pc' = "head" /\ status' = "REFINING"
  /\ steps' = Replanned
  /\ announced' = AnnouncedBy(Answer)
  /\ UNCHANGED <<run, stopReason, stepIndex, completed, cost,
                 retries, observations, achieved, metrics>>

SkipSilently ==
  /\ Decided("skip_step")
  /\ stepEvents' = Append(stepEvents, Event("SKIPPED", "none", "none"))
  /\ pc' = "head"
  /\ stepIndex' = stepIndex + 1
  /\ announced' = {}
  /\ UNCHANGED <<run, status, stopReason, steps, completed, cost, retries,
                 observations, achieved, metrics>>

SkipStep ==
  /\ Decided("skip_step")
  /\ stepEvents' = stepEvents \o
       <<FailedEvent("skip_step"), Event("SKIPPED", "none", "none")>>
  /\ pc' = "head"
  /\ stepIndex' = stepIndex + 1
  /\ announced' = {}
  /\ UNCHANGED <<run, status, stopReason, steps, completed, cost, retries,
                 observations, achieved, metrics>>

Abort ==
  /\ Decided("abort")
  /\ stepEvents' = Append(stepEvents, FailedEvent("abort"))
  /\ announced' = {}
  /\ IF FailureSignal.type = "policy_violation"
     THEN Finish("STOPPED", "policy_blocked")
     ELSE Finish("FAILED", "failed")
  /\ UNCHANGED <<loopVars, retries, observations, achieved>>

(* The loop is over: no step is left.                                      *)
PlanExhausted ==
  /\ pc = "head" /\ ~More
  /\ IF status = "REFINING" THEN Finish("FAILED", "failed")
     ELSE Finish("COMPLETED", IF CriteriaMet THEN "success_criteria_met" ELSE "none")
  /\ UNCHANGED <<loopVars, stmVars, traceVars>>

Ended == pc \in {"done"} \cup Raised /\ UNCHANGED vars

Next ==
  \/ Begin
  \/ StopOnSuccess \/ StopOnMaxSteps \/ StopOnBudget
  \/ StepStartRaises \/ CallTool
  \/ SaveOutcome \/ SaveOutcomeRaises
  \/ OnSuccess
  \/ StopNonProgress \/ StopMaxRetries
  \/ PatchAndRetry \/ ReplanRemaining \/ ReplanRaises \/ SkipStep \/ Abort
  \/ PlanExhausted
  \/ Ended

Spec == Init /\ [][Next]_vars

(* The executor is a sequential program and every tool returns: HTTP calls *)
(* have a timeout and the other tools do local work.                       *)
FairSpec == Spec /\ WF_vars(Next)

-----------------------------------------------------------------------------
(* Properties. *)

ToolCallRecords ==
  [id: Ids, tool: Tools, args: Args, attempt: Nat \ {0}, status: ToolCallStatuses]

StepEventRecords ==
  [id: Ids, attempt: Nat \ {0}, status: {"SUCCESS", "FAILED", "SKIPPED"},
   failure: FailureTypes \cup {"none"},
   action: {"none", "patch_and_retry", "replan_remaining", "skip_step", "abort"}]

StopReasons ==
  {"none", "success_criteria_met", "max_steps", "budget_guard",
   "non_progress", "max_retries", "policy_blocked", "failed"}

(* Every variable of the executor has its type. *)
TypeOK ==
  /\ IsRun(run)
  /\ pc \in {"start", "head", "called", "saved", "done"} \cup Raised
  /\ status \in {"VALIDATED", "EXECUTING", "REFINING",
                 "COMPLETED", "STOPPED", "FAILED"}
  /\ stopReason \in StopReasons
  /\ steps \in Seq(Steps)
  /\ stepIndex \in Nat /\ completed \in Nat /\ cost \in Nat
  /\ IsCounter(retries, Ids)
  /\ IsCounter(signatures, Tools \X Args)
  /\ observations \in Seq(Ids)
  /\ achieved \subseteq Criteria /\ announced \subseteq Criteria
  /\ toolCalls \in Seq(ToolCallRecords)
  /\ stepEvents \in Seq(StepEventRecords)
  /\ refinements \in Seq([action: {"patch_and_retry", "replan_remaining",
                                   "skip_step", "abort"},
                          failure: FailureTypes])
  /\ outcomes \in Seq(Ids \X ToolCallStatuses)
  /\ metrics \in [started: Nat, completed: Nat, failed: Nat]

(* The elements of sequence s that satisfy Test, counted. *)
HowMany(s, Test(_)) == Cardinality({i \in 1..Len(s) : Test(s[i])})

(* How many recorded calls have their row, are counted under their         *)
(* signature when they failed, and were handled: all but the last one      *)
(* while it is under way, or when an exception came before.                *)
AllButLast(places) == IF pc \in places THEN Len(toolCalls) - 1 ELSE Len(toolCalls)

Saved     == AllButLast({"called", "unsaved"})
Monitored == AllButLast({"called", "saved", "unsaved"})
Handled   == AllButLast({"called", "saved", "unsaved", "undecided"})

(* The budget is checked before a call and charged after it, retries and   *)
(* failures included: the run may overdraw by less than one call, and no   *)
(* call goes unpaid.                                                       *)
SpendWithinGuard ==
  /\ cost = Len(toolCalls) * run.costPerStep
  /\ cost < run.maxCost + run.costPerStep

(* No step is credited past max_steps, and the index accounts for every    *)
(* step left behind: credited with an observation, or skipped.  The step   *)
(* being handled is one of the list, also after the list was replanned.    *)
IndexAccounted ==
  /\ completed <= run.maxSteps
  /\ Len(observations) = completed
  /\ stepIndex = completed + HowMany(stepEvents, LAMBDA e : e.status = "SKIPPED")
  /\ stepIndex <= Len(steps)
  /\ pc \in {"called", "saved"} => More

(* The trace and the tool_outcomes table tell the same story: every call   *)
(* has its row unless saving it is what failed or is still to be done, and *)
(* exactly one SUCCESS or FAILED event, of the same step, attempt and      *)
(* result and in the same order, once it is handled.  So an exception      *)
(* leaves the two apart by the last call at most: without a row and an     *)
(* event when the row could not be saved, with a row and without an event  *)
(* when the planner could not be asked.                                    *)
CallsAccounted ==
  LET told    == {i \in 1..Len(stepEvents) : stepEvents[i].status # "SKIPPED"}
      call(i) == toolCalls[Cardinality({j \in told : j <= i})]
  IN  /\ Len(outcomes) = Saved
      /\ \A i \in 1..Saved : outcomes[i] = <<toolCalls[i].id, toolCalls[i].status>>
      /\ Cardinality(told) = Handled
      /\ \A i \in told :
           /\ stepEvents[i].id = call(i).id
           /\ stepEvents[i].attempt = call(i).attempt
           /\ (stepEvents[i].status = "SUCCESS") <=> (call(i).status = "success")

(* A retry count is the number of retries that were decided for the id,    *)
(* over all steps that carry it, and max_retries_per_step bounds these:    *)
(* attempt numbers never pass the limit (at least one attempt is always    *)
(* made), also when a replanned step takes over the id of an earlier one.  *)
(* It is no bound on the calls of an id: replanning marks no retry.        *)
RetriesWithinLimit ==
  /\ \A id \in Ids :
       CountOf(retries, id) =
         HowMany(stepEvents, LAMBDA e : e.id = id /\ e.action = "patch_and_retry")
  /\ \A i \in 1..Len(toolCalls) :
       toolCalls[i].attempt <= IF run.maxRetries > 1 THEN run.maxRetries ELSE 1

(* Signatures count failures, not calls: the count of a signature is the   *)
(* number of calls that failed under it, the one included whose replanning *)
(* raised.  It passes the threshold at most by one, and exactly when the   *)
(* run ended as not progressing.                                           *)
NonProgressCounted ==
  /\ \A sig \in DOMAIN signatures :
       /\ signatures[sig] =
            Cardinality({i \in 1..Monitored : /\ toolCalls[i].status # "success"
                                            /\ <<toolCalls[i].tool, toolCalls[i].args>> = sig})
       /\ signatures[sig] <= run.threshold + 1
  /\ (stopReason = "non_progress") <=>
       \E sig \in DOMAIN signatures : signatures[sig] > run.threshold

(* The arguments as the tool sees them, whatever defaults are spelled out. *)
SameCall(c, d) ==
  c.tool = d.tool /\ [c.args EXCEPT !.full = TRUE] = [d.args EXCEPT !.full = TRUE]

(* Bound on what the non-progress rule is for: one and the same call fails *)
(* at most 2 * threshold + 1 times.  Not threshold + 1, because validated  *)
(* and replanned arguments of the same call have different signatures.     *)
IdenticalFailuresBounded ==
  \A i \in 1..Len(toolCalls) :
    HowMany(toolCalls, LAMBDA c : c.status # "success" /\ SameCall(c, toolCalls[i]))
      <= 2 * run.threshold + 1

(* The summary is made of current observations: the dump a summarize call  *)
(* is given covers every success before it, also when the step is retried  *)
(* with the dump of its first attempt or comes from a replanned list.      *)
SummaryIsCurrent ==
  \A i \in 1..Len(toolCalls) :
    toolCalls[i].tool = "summarize" /\ toolCalls[i].args.text >= 2 =>
      toolCalls[i].args.text - 2 =
        Cardinality({j \in 1..(i - 1) : toolCalls[j].status = "success"})

(* The verdict says what happened: each stop reason goes with the status   *)
(* and with the facts that the rule behind it is about.  The executor      *)
(* itself never ends FAILED, and never while refining.                     *)
VerdictJustified ==
  pc = "done" =>
    CASE status = "COMPLETED" ->
           /\ ~More
           /\ stopReason = IF CriteriaMet THEN "success_criteria_met" ELSE "none"
      [] status = "STOPPED" ->
           CASE stopReason = "success_criteria_met" -> CriteriaMet /\ More
             [] stopReason = "max_steps"      -> More /\ completed = run.maxSteps
             [] stopReason = "budget_guard"   -> More /\ cost >= run.maxCost
             [] stopReason = "max_retries"    ->
                  /\ Call.status \in {"timeout", "schema_error", "error"}
                  /\ Call.attempt >= run.maxRetries
             [] stopReason = "non_progress"   -> signatures[CallSignature] > run.threshold
             [] stopReason = "policy_blocked" -> Call.status = "policy_blocked"
             [] OTHER -> FALSE
      [] OTHER -> FALSE

(* Replanning answers malformed responses only: the refinement engine's    *)
(* last-resort replan after timeouts and tool errors is never reached,     *)
(* because the executor stops on the retry limit before asking it.         *)
ReplansOnlyMalformed ==
  \A i \in 1..Len(refinements) :
    refinements[i].action = "replan_remaining" =>
      refinements[i].failure = "schema_error"

(* A success criterion counts as met when its flag is set or its wording   *)
(* is found: a run that claims success without the tool having succeeded   *)
(* owes it to the goal's own wording or to a replanned step's description. *)
SuccessHasGrounds ==
  stopReason = "success_criteria_met" =>
    \A c \in run.criteria :
      \/ c \in run.mentioned
      \/ \E i \in 1..Len(toolCalls) :
           toolCalls[i].status = "success" /\ c \in FlagOf(toolCalls[i].tool)
      \/ c = "file" /\ \E i \in 1..Len(refinements) :
                         refinements[i].action = "replan_remaining"

(* Steps left behind are never touched again, whatever is replanned, and   *)
(* no record of the trace is changed or withdrawn.                         *)
PastIsFrozen ==
  [][pc # "start" =>
       /\ stepIndex' \in {stepIndex, stepIndex + 1}
       /\ SubSeq(steps', 1, stepIndex) = SubSeq(steps, 1, stepIndex)
       /\ SubSeq(toolCalls', 1, Len(toolCalls)) = toolCalls
       /\ SubSeq(stepEvents', 1, Len(stepEvents)) = stepEvents
       /\ SubSeq(outcomes', 1, Len(outcomes)) = outcomes]_vars

(* Whatever the tools answer, the loop ends: retries, replans and their    *)
(* combination are bounded by the guards.                                  *)
Terminates == <>(pc \in {"done"} \cup Raised)

-----------------------------------------------------------------------------
(* The executor implements the bounded run. *)

LimitsOf(r) ==
  [maxSteps |-> r.maxSteps, maxCost |-> r.maxCost, costPerStep |-> r.costPerStep]

Verdict ==
  CASE pc \in Raised -> "crashed"
    [] pc = "done"    -> IF status = "COMPLETED" THEN "exhausted" ELSE stopReason
    [] OTHER          -> "open"

Promise == INSTANCE BoundedRun WITH
  Limits   <- {LimitsOf(r) : r \in Runs},
  limits   <- LimitsOf(run),
  attempts <- Len(toolCalls),
  spent    <- cost,
  credited <- completed,
  verdict  <- Verdict

(* Every behaviour of the executor, its fairness included, is a bounded    *)
(* run: attempts stop with the budget, credits with max_steps, and there   *)
(* is exactly one verdict.                                                 *)
IsBoundedRun == Promise!Spec

-----------------------------------------------------------------------------
(* What the messages, names and texts of the repository promise.           *)

(* "Success criteria met": every criterion that the goal does not spell    *)
(* out itself was met by a tool that succeeded.                            *)
SuccessWasAchieved ==
  stopReason = "success_criteria_met" => run.criteria \ run.mentioned \subseteq achieved

(* Replanning concerns the remaining steps: a submission that went through *)
(* is not made again.                                                      *)
NothingSubmittedTwice ==
  HowMany(toolCalls, LAMBDA c : c.tool = "http_post" /\ c.status = "success") <= 1

(* "increase_timeout_and_retry": the retry after a timeout has a timeout   *)
(* that is no shorter.                                                     *)
TimeoutNeverShrinks ==
  [][PatchAndRetry /\ Call.status = "timeout" =>
       steps'[stepIndex + 1].args.timeout >= Current.args.timeout]_vars
=============================================================================
