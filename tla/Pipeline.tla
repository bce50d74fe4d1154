------------------------------- MODULE Pipeline -------------------------------
(***************************************************************************)
(* A goal from perception to verdict: the planner's plan for it, the       *)
(* validator's judgement, and the executor running the plan, replanned by  *)
(* the same planner, against the mock server.  The database is taken to    *)
(* accept every row and to answer every query here, and the log to take    *)
(* every entry: modules Executor and Orchestrator are about their failures.*)
(***************************************************************************)
EXTENDS Executor, Planner, MockApi, LocalTools, Settings

CONSTANTS
  Jobs,      \* the [goal, config, provider, lossy, mentioned] that may be asked
             \* for: the language model, whether the network may lose messages,
             \* and the criteria that the request or the memory it recalls spells out
  HitsBefore \* the counters the server may have from earlier runs

JobRun(j) == RunOf(j.goal, j.config, j.mentioned)

ASSUME JobsAssumption ==
  /\ \A j \in Jobs : j.goal \in Goals
  /\ {JobRun(j) : j \in Jobs} \subseteq Runs

ASSUME HitsAssumption == \A h \in HitsBefore : IsCounter(h, Urls)

VARIABLES
  job,       \* the goal and the configuration of this run
  hits       \* the server's counters

pipelineVars == <<vars, job, hits>>

PlanAccepted == Accepted(BuildPlan(job.goal, job.config, "none"), job.config)

Workspace == <<"workspace">>

(* What the tools that make no request of the mock server end with.        *)
LocalStatuses(call) ==
  CASE call.tool = "calc" -> CalcStatuses(Asked(call.args.target).expression)
    [] call.tool = "file_write" ->
         {IF Escapes(Workspace, Asked(call.args.target).path) THEN "policy_blocked" ELSE "success"}
    [] call.tool = "summarize" -> SummarizeStatuses(job.provider)
    [] OTHER -> {"success"}

(* What a recorded call may have ended with, and the counters it leaves.   *)
Outcomes(call) ==
  CASE call.tool \notin HttpTools ->
         {[status |-> st, hits |-> hits] : st \in LocalStatuses(call)}
    [] call.tool \in HttpTools ->
         IF call.args.target = "http://example.com" THEN ForeignExchange(call.args, hits)
         ELSE IF job.lossy THEN LossyExchange(call.tool, call.args, hits)
         ELSE Exchange(call.tool, call.args, hits)

PipelineInit ==
  /\ job \in Jobs
  /\ hits \in HitsBefore
  /\ run = JobRun(job)
  /\ Unstarted

(* An accepted plan is given to the executor, another one fails the run.   *)
BeginAccepted == Begin /\ PlanAccepted /\ UNCHANGED <<job, hits>>

RejectPlan ==
  /\ pc = "start" /\ ~PlanAccepted
  /\ pc' = "rejected" /\ status' = "FAILED" /\ stopReason' = "validation_failed"
  /\ UNCHANGED <<run, loopVars, stmVars, traceVars, metrics, job, hits>>

CallServer ==
  /\ CallTool
  /\ LET call == toolCalls'[Len(toolCalls')]
     IN  \E o \in Outcomes(call) : call.status = o.status /\ hits' = o.hits
  /\ UNCHANGED job

(* Everything else the executor does. *)
Proceed ==
  /\ \/ StopOnSuccess \/ StopOnMaxSteps \/ StopOnBudget
     \/ SaveOutcome \/ OnSuccess
     \/ StopNonProgress \/ StopMaxRetries
     \/ PatchAndRetry \/ ReplanRemaining \/ SkipStep \/ Abort
     \/ PlanExhausted
  /\ UNCHANGED <<job, hits>>

Over == pc \in {"done", "rejected"}

PipelineEnded == Over /\ UNCHANGED pipelineVars

PipelineNext == BeginAccepted \/ RejectPlan \/ CallServer \/ Proceed \/ PipelineEnded

PipelineSpec == PipelineInit /\ [][PipelineNext]_pipelineVars /\ WF_pipelineVars(PipelineNext)

-----------------------------------------------------------------------------
(* Properties. *)

Calls(Test(_)) == HowMany(toolCalls, Test)

IsPost(c) == c.tool = "http_post"

(* A goal the planner has a step for and the tools can do, over a network  *)
(* that loses nothing: one that says file but not write, or http without a *)
(* URL or a verb, sets a criterion no step works for; two expressions pass *)
(* the policy but not calc; and the loop endpoint fails longer than a step *)
(* is retried.                                                             *)
Doable(j) ==
  LET goal == j.goal
  IN  /\ ~j.lossy
      /\ "file" \in SuccessCriteria(goal) => Has(goal, {"write"})
      /\ "http" \in SuccessCriteria(goal) => HttpUrl(goal) # "none"
      /\ SuccessCriteria(goal) # {"final"}
      /\ WantsCalc(goal) => goal.expr \notin {"1 / 0", "..."}
      /\ goal.url # "/flaky?loop"

(* Under the default limits and with a server that only has the faults it  *)
(* is built to have, every accepted goal that can be done is done: its     *)
(* criteria are met by tools that succeeded, through retries of flaky and  *)
(* patched timeouts of slow endpoints and through replanning of malformed  *)
(* ones.  The exception is a goal that writes after a malformed endpoint,  *)
(* where the replanned step's description passes for the writing.  And a   *)
(* criterion that is spelled out before the run needs no tool.             *)
DoableIsDone ==
  <>(/\ Over
     /\ PlanAccepted /\ Doable(job) /\ ~Has(job.goal, {"malformed"}) =>
          /\ stopReason = "success_criteria_met"
          /\ run.criteria \ run.mentioned \subseteq achieved)

(* The part of it that holds after a malformed endpoint.                   *)
ReplanningHeals ==
  <>(/\ Over
     /\ PlanAccepted /\ Doable(job) =>
          /\ stopReason = "success_criteria_met"
          /\ run.criteria \ (run.mentioned \cup {"file"}) \subseteq achieved)

(* Replanning leads away from the malformed endpoint for good: a run       *)
(* replans at most once, and does not ask a malformed endpoint again.      *)
ReplanLeadsAway ==
  /\ HowMany(refinements, LAMBDA r : r.action = "replan_remaining") <= 1
  /\ \A i, j \in 1..Len(toolCalls) :
       i < j /\ toolCalls[i].status = "schema_error" =>
         ~(toolCalls[j].tool = "http_get" /\ toolCalls[j].args.target = "/malformed")

(* Replanned steps do not go through validation again; no call is made all *)
(* the same that validation would have rejected.                           *)
CallsAreAcceptable ==
  \A i \in 1..Len(toolCalls) : Acceptable(toolCalls[i], job.config)

(* However often answers are lost and the plan is made again, the server   *)
(* counts a submission at most as often as one was sent, at least as often *)
(* as one was acknowledged, and no more often than a step may be tried.    *)
SubmissionsBounded ==
  LET counted == CountOf(hits, "/submit")
      sent(c) == IsPost(c) /\ c.args.target = "/submit"
  IN  /\ counted <= Calls(sent)
      /\ counted >= Calls(LAMBDA c : sent(c) /\ c.status = "success")
      /\ counted <= IF run.maxRetries > 1 THEN run.maxRetries ELSE 1

-----------------------------------------------------------------------------
(* What the executor sees of it: a run whose plan is rejected never enters *)
(* the executor, and an accepted one is a run of the executor alone, which *)
(* knows nothing of goals, servers and tools but what they answer.         *)
Unless(value, before) == IF pc = "rejected" THEN before ELSE value

Executes == INSTANCE Executor WITH
  pc         <- Unless(pc, "start"),
  status     <- Unless(status, "VALIDATED"),
  stopReason <- Unless(stopReason, "none")
=============================================================================
