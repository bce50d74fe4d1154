--------------------------- MODULE ExecutorProofs ---------------------------
(***************************************************************************)
(* Theorems about the executor that hold for every set of runs and every   *)
(* timeout cap: its variables keep their types, it spends and credits      *)
(* within its limits, its verdicts are justified, each step brings it      *)
(* nearer to its end, and it implements the bounded run it promises.       *)
(***************************************************************************)
EXTENDS Executor, TLAPS, SequenceTheorems

(* What a step may rely on between the actions of one iteration: a call    *)
(* that is being handled exists, and so does its step.                     *)
Handling ==
  /\ pc = "start" => stepIndex = 0
  /\ stepIndex <= Len(steps)
  /\ pc \in {"called", "saved"} => More /\ toolCalls # << >>

TypeInv == TypeOK /\ Handling

-----------------------------------------------------------------------------
(* Lemmas about the operators. *)

(* Counting a key keeps a dictionary of counters over the same keys.       *)
LEMMA BumpType ==
  ASSUME NEW S, NEW d, IsCounter(d, S), NEW k \in S
  PROVE  IsCounter(Bump(d, k), S) /\ CountOf(d, k) \in Nat
  BY DEF IsCounter, Bump, CountOf

(* The patched arguments are arguments.                                    *)
LEMMA PatchedArgsType ==
  ASSUME NEW step \in Steps, NEW f
  PROVE  PatchedArgs(step, f) \in Args
<1>1. step.args \in Args BY DEF Steps
<1>2. Doubled(step.args.timeout) \in Nat
  BY <1>1, MaxTimeoutAssumption DEF Args, Doubled
<1>3. [step.args EXCEPT !.timeout = Doubled(@)] \in Args
  BY <1>1, <1>2 DEF Args
<1>4. [step.args EXCEPT !.strict = FALSE] \in Args
  BY <1>1 DEF Args
<1>5. QED BY <1>1, <1>3, <1>4 DEF PatchedArgs

(* The monitors find at most one signal, and the executor always has one.  *)
LEMMA FailureSignalType == FailureSignal \in Signals
<1>1. /\ Signal("non_progress", FALSE) \in Signals
      /\ Signal("unknown", FALSE) \in Signals
      /\ Signal("schema_error", TRUE) \in Signals
      /\ Signal("timeout", TRUE) \in Signals
      /\ Signal("policy_violation", FALSE) \in Signals
      /\ Signal("tool_error", TRUE) \in Signals
  BY DEF Signal, Signals, FailureTypes
<1>2. ASSUME NEW found, found = EvaluateToolCall(Call.status, FALSE)
      PROVE  found = << >> \/ Head(found) \in Signals
  <2>1. ASSUME NEW s PROVE Head(<<s>>) = s
    OBVIOUS
  <2>2. \/ found = << >>
        \/ found = <<Signal("timeout", TRUE)>>
        \/ found = <<Signal("schema_error", TRUE)>>
        \/ found = <<Signal("policy_violation", FALSE)>>
        \/ found = <<Signal("tool_error", TRUE)>>
    BY <1>2 DEF EvaluateToolCall
  <2>3. QED BY <1>1, <2>1, <2>2
<1>3. QED BY <1>1, <1>2 DEF FailureSignal

(* Substituting the observations keeps a step a step, of the same id and   *)
(* tool.                                                                   *)
LEMMA WithObservationsType ==
  ASSUME NEW step \in Steps, observations \in Seq(Ids)
  PROVE  /\ WithObservations(step) \in Steps
         /\ WithObservations(step).id = step.id
<1>1. Len(observations) + 2 \in Nat BY LenProperties
<1>2. [step EXCEPT !.args.text = Len(observations) + 2] \in Steps
  BY <1>1 DEF Steps, Args
<1>3. QED BY <1>2 DEF WithObservations, Steps

(* A tool ends with one of the statuses of a call record.                  *)
LEMMA ToolStatusesType ==
  ASSUME NEW step
  PROVE  ToolStatuses(step) \subseteq ToolCallStatuses
  BY DEF ToolStatuses, ToolCallStatuses

(* While a call is handled, it and its step are what they should be.       *)
LEMMA HandledCall ==
  ASSUME TypeInv, pc \in {"called", "saved"}
  PROVE  /\ Call \in ToolCallRecords
         /\ Current \in Steps
         /\ stepIndex + 1 \in 1..Len(steps)
<1> USE DEF TypeInv, TypeOK, Handling, More
<1>1. Len(toolCalls) \in 1..Len(toolCalls)
  BY EmptySeq, LenProperties
<1>2. Call \in ToolCallRecords BY <1>1, ElementOfSeq DEF Call
<1>3. stepIndex + 1 \in 1..Len(steps) BY LenProperties
<1>4. Current \in Steps BY <1>3, ElementOfSeq DEF Current
<1>5. QED BY <1>2, <1>3, <1>4

(* What the handling of a call writes is of the right kind.                *)
LEMMA HandlingTypes ==
  ASSUME TypeInv, pc \in {"called", "saved"}
  PROVE  /\ IsCounter(Seen, Tools \X Args)
         /\ IsCounter(Bump(retries, Call.id), Ids)
         /\ \A st \in {"SUCCESS", "FAILED", "SKIPPED"}, f \in FailureTypes \cup {"none"},
              a \in {"none", "patch_and_retry", "replan_remaining", "skip_step", "abort"} :
              Event(st, f, a) \in StepEventRecords
         /\ Answer \in Seq(Steps)
<1>1. Call \in ToolCallRecords BY HandledCall
<1>2. CallSignature \in Tools \X Args
  BY <1>1 DEF CallSignature, ToolCallRecords
<1>3. IsCounter(Seen, Tools \X Args)
  BY <1>2, BumpType DEF Seen, TypeInv, TypeOK
<1>4. IsCounter(Bump(retries, Call.id), Ids)
  BY <1>1, BumpType DEF TypeInv, TypeOK, ToolCallRecords
<1>5. \A st \in {"SUCCESS", "FAILED", "SKIPPED"}, f \in FailureTypes \cup {"none"},
        a \in {"none", "patch_and_retry", "replan_remaining", "skip_step", "abort"} :
        Event(st, f, a) \in StepEventRecords
  BY <1>1 DEF Event, StepEventRecords, ToolCallRecords
<1>6. Answer \in Seq(Steps)
  <2>1. run \in RunRecords BY DEF TypeInv, TypeOK, IsRun
  <2>2. FailureSignal.type \in FailureTypes BY FailureSignalType DEF Signals
  <2>3. run.answers \in [FailureTypes -> Seq(Steps)] BY <2>1 DEF RunRecords
  <2>4. QED BY <2>2, <2>3 DEF Answer
<1>7. QED BY <1>3, <1>4, <1>5, <1>6

-----------------------------------------------------------------------------
(* Type correctness. *)

LEMMA TypeInit == Init => TypeInv
<1> SUFFICES ASSUME Init PROVE TypeInv
  OBVIOUS
<1>1. IsRun(run) BY RunsAssumption DEF Init, Unstarted
<1>2. IsCounter(NoCounts, Ids) /\ IsCounter(NoCounts, Tools \X Args)
  BY DEF IsCounter, NoCounts
<1>3. TypeOK
  BY <1>1, <1>2, EmptySeq DEF Init, Unstarted, TypeOK, StopReasons
<1>4. QED BY <1>3 DEF TypeInv, Handling, Init, Unstarted

Metrics == [started: Nat, completed: Nat, failed: Nat]

(* Counting a run keeps the counters natural.                              *)
LEMMA MetricsType ==
  ASSUME NEW m \in Metrics
  PROVE  /\ [m EXCEPT !.started = @ + 1] \in Metrics
         /\ [m EXCEPT !.completed = @ + 1] \in Metrics
         /\ [m EXCEPT !.failed = @ + 1] \in Metrics
  BY DEF Metrics

(* A verdict keeps the types. *)
LEMMA FinishType ==
  ASSUME TypeInv, NEW st \in {"COMPLETED", "STOPPED", "FAILED"},
         NEW reason \in StopReasons, Finish(st, reason), UNCHANGED loopVars
  PROVE  /\ pc' = "done" /\ run' = run
         /\ status' = st /\ stopReason' = reason
         /\ metrics' \in Metrics
         /\ Handling'
<1>1. metrics \in Metrics BY DEF TypeInv, TypeOK, Metrics
<1>2. metrics' \in Metrics BY <1>1, MetricsType DEF Finish
<1>3. pc' = "done" BY DEF Finish
<1>4. stepIndex' <= Len(steps') BY DEF TypeInv, Handling, loopVars
<1>5. QED BY <1>2, <1>3, <1>4 DEF Finish, Handling

(* The steps left behind are steps, as many as the index says.             *)
LEMMA PrefixType ==
  ASSUME TypeInv
  PROVE  /\ SubSeq(steps, 1, stepIndex) \in Seq(Steps)
         /\ Len(SubSeq(steps, 1, stepIndex)) = stepIndex
<1>1. \A i \in 1..stepIndex : steps[i] \in Steps
  BY ElementOfSeq, LenProperties DEF TypeInv, TypeOK, Handling
<1>2. QED BY <1>1, SubSeqProperties DEF TypeInv, TypeOK

LEMMA TypeNext == TypeInv /\ [Next]_vars => TypeInv'
<1> SUFFICES ASSUME TypeInv, [Next]_vars PROVE TypeInv'
  OBVIOUS
<1> USE DEF TypeInv
<1>1. CASE Begin
  <2>1. run.steps \in Seq(Steps) BY DEF TypeOK, IsRun, RunRecords
  <2>2. metrics' \in [started: Nat, completed: Nat, failed: Nat]
    BY <1>1, MetricsType DEF Begin, TypeOK, Metrics
  <2>3. TypeOK' BY <1>1, <2>1, <2>2 DEF Begin, TypeOK, stmVars, traceVars
  <2>4. Len(steps') \in Nat BY <1>1, <2>1, LenProperties DEF Begin
  <2>5. QED BY <1>1, <2>3, <2>4 DEF Begin, Handling
<1>2. CASE StopOnSuccess \/ StopOnMaxSteps \/ StopOnBudget \/ PlanExhausted
  <2>1. PICK st \in {"COMPLETED", "STOPPED", "FAILED"}, reason \in StopReasons :
          Finish(st, reason)
    BY <1>2 DEF StopOnSuccess, StopOnMaxSteps, StopOnBudget, PlanExhausted, StopReasons
  <2>2. UNCHANGED <<loopVars, stmVars, traceVars>>
    BY <1>2 DEF StopOnSuccess, StopOnMaxSteps, StopOnBudget, PlanExhausted
  <2>3. QED BY <2>1, <2>2, FinishType DEF TypeOK, Metrics, loopVars, stmVars, traceVars
<1>3. CASE CallTool
  <2> DEFINE step == WithObservations(Current)
  <2>1. stepIndex + 1 \in 1..Len(steps)
    BY <1>3, LenProperties DEF CallTool, More, TypeOK
  <2>2. Current \in Steps BY <2>1, ElementOfSeq DEF Current, TypeOK
  <2>3. step \in Steps BY <2>2, WithObservationsType DEF TypeOK
  <2>4. steps' \in Seq(Steps) /\ Len(steps') = Len(steps)
    BY <1>3, <2>1, <2>3, ExceptSeq DEF CallTool, TypeOK
  <2>5. PICK outcome \in ToolStatuses(step) : toolCalls' = Append(toolCalls,
             [id |-> step.id, tool |-> step.tool, args |-> step.args,
              attempt |-> CountOf(retries, step.id) + 1, status |-> outcome])
    BY <1>3 DEF CallTool
  <2>6. CountOf(retries, step.id) \in Nat
    BY <2>3, BumpType DEF TypeOK, Steps
  <2>7. [id |-> step.id, tool |-> step.tool, args |-> step.args,
         attempt |-> CountOf(retries, step.id) + 1, status |-> outcome] \in ToolCallRecords
    BY <2>3, <2>5, <2>6, ToolStatusesType DEF ToolCallRecords, Steps
  <2>8. toolCalls' \in Seq(ToolCallRecords) /\ toolCalls' # << >>
    BY <2>5, <2>7, AppendProperties DEF TypeOK
  <2>9. cost' \in Nat
    <3>1. run.costPerStep \in Nat BY DEF TypeOK, IsRun, RunRecords
    <3>2. cost' = cost + run.costPerStep BY <1>3 DEF CallTool
    <3>3. QED BY <3>1, <3>2 DEF TypeOK
  <2>10. TypeOK'
    BY <1>3, <2>4, <2>8, <2>9 DEF CallTool, TypeOK, stmVars
  <2>11. QED BY <1>3, <2>4, <2>8, <2>10 DEF CallTool, Handling, More
<1>4. CASE SaveOutcome
  <2>1. <<Call.id, Call.status>> \in Ids \X ToolCallStatuses
    BY <1>4, HandledCall DEF SaveOutcome, ToolCallRecords
  <2>2. outcomes' \in Seq(Ids \X ToolCallStatuses)
    BY <1>4, <2>1, AppendProperties DEF SaveOutcome, TypeOK
  <2>3. QED BY <1>4, <2>2 DEF SaveOutcome, TypeOK, Handling, More, loopVars, stmVars
<1>5. CASE StepStartRaises \/ SaveOutcomeRaises
  BY <1>5 DEF StepStartRaises, SaveOutcomeRaises, Raised, TypeOK, Handling,
     loopVars, stmVars, traceVars
<1>6. CASE OnSuccess
  <2>1. pc = "saved" BY <1>6 DEF OnSuccess
  <2>2. Call \in ToolCallRecords BY <2>1, HandledCall
  <2>3. observations' \in Seq(Ids)
    BY <1>6, <2>2, AppendProperties DEF OnSuccess, TypeOK, ToolCallRecords
  <2>4. FlagOf(Call.tool) \subseteq Criteria BY DEF FlagOf, Criteria
  <2>5. stepEvents' \in Seq(StepEventRecords)
    BY <1>6, <2>1, HandlingTypes, AppendProperties DEF OnSuccess, TypeOK
  <2>6. TypeOK' BY <1>6, <2>3, <2>4, <2>5 DEF OnSuccess, TypeOK
  <2>7. stepIndex' <= Len(steps')
    BY <1>6, <2>1, LenProperties DEF OnSuccess, Handling, More, TypeOK
  <2>8. QED BY <1>6, <2>6, <2>7 DEF OnSuccess, Handling
<1>7. CASE StopNonProgress \/ StopMaxRetries
  <2>1. pc = "saved" /\ signatures' = Seen
    BY <1>7 DEF StopNonProgress, StopMaxRetries, Failed
  <2>2. PICK reason \in StopReasons : Finish("STOPPED", reason)
    BY <1>7 DEF StopNonProgress, StopMaxRetries, StopReasons
  <2>3. stepEvents' \in Seq(StepEventRecords)
    <3>1. FailedEvent("none") \in StepEventRecords
      BY <2>1, HandlingTypes, FailureSignalType DEF FailedEvent, Signals
    <3>2. stepEvents' = Append(stepEvents, FailedEvent("none"))
      BY <1>7 DEF StopNonProgress, StopMaxRetries
    <3>3. QED BY <3>1, <3>2, AppendProperties DEF TypeOK
  <2>4. UNCHANGED <<loopVars, retries, observations, achieved, announced,
                    toolCalls, refinements, outcomes>>
    BY <1>7 DEF StopNonProgress, StopMaxRetries
  <2>5. QED BY <2>1, <2>2, <2>3, <2>4, FinishType, HandlingTypes DEF TypeOK, Metrics, loopVars
<1>8. ASSUME NEW action \in {"patch_and_retry", "replan_remaining", "skip_step", "abort"},
             Decided(action)
      PROVE  /\ pc = "saved" /\ stepIndex + 1 \in 1..Len(steps)
             /\ IsCounter(signatures', Tools \X Args)
             /\ IsCounter(Bump(retries, Call.id), Ids)
             /\ FailedEvent(action) \in StepEventRecords
             /\ Event("SKIPPED", "none", "none") \in StepEventRecords
             /\ refinements' \in Seq([action: {"patch_and_retry", "replan_remaining",
                                             "skip_step", "abort"},
                                     failure: FailureTypes])
             /\ Answer \in Seq(Steps)
             /\ UNCHANGED <<toolCalls, outcomes>>
  <2>1. pc = "saved" /\ signatures' = Seen /\ UNCHANGED <<toolCalls, outcomes>>
    BY <1>8 DEF Decided, Chosen, Failed
  <2>2. [action |-> action, failure |-> FailureSignal.type] \in
          [action: {"patch_and_retry", "replan_remaining", "skip_step", "abort"},
           failure: FailureTypes]
    BY FailureSignalType DEF Signals
  <2>3. refinements' = Append(refinements,
                              [action |-> action, failure |-> FailureSignal.type])
    BY <1>8 DEF Decided
  <2>4. refinements' \in Seq([action: {"patch_and_retry", "replan_remaining",
                                      "skip_step", "abort"},
                              failure: FailureTypes])
    BY <2>2, <2>3, AppendProperties DEF TypeOK
  <2>5. FailedEvent(action) \in StepEventRecords
    BY <2>1, HandlingTypes, FailureSignalType DEF FailedEvent, Signals
  <2>6. QED BY <2>1, <2>4, <2>5, HandlingTypes, HandledCall
<1>9. CASE PatchAndRetry
  <2>1. Decided("patch_and_retry") BY <1>9 DEF PatchAndRetry
  <2>2. Current \in Steps BY <1>8, <2>1, HandledCall
  <2>3. [Current EXCEPT !.args = PatchedArgs(Current, FailureSignal.type)] \in Steps
    BY <2>2, PatchedArgsType DEF Steps
  <2>4. steps' \in Seq(Steps) /\ Len(steps') = Len(steps)
    BY <1>8, <1>9, <2>1, <2>3, ExceptSeq DEF PatchAndRetry, Current, TypeOK
  <2>5. stepEvents' \in Seq(StepEventRecords)
    BY <1>8, <1>9, <2>1, AppendProperties DEF PatchAndRetry, TypeOK
  <2>6. TypeOK' BY <1>8, <1>9, <2>1, <2>4, <2>5 DEF PatchAndRetry, TypeOK
  <2>7. QED BY <1>9, <2>4, <2>6 DEF PatchAndRetry, Handling
<1>10. CASE ReplanRemaining
  <2>1. Decided("replan_remaining") BY <1>10 DEF ReplanRemaining
  <2>3. /\ SubSeq(steps, 1, stepIndex) \in Seq(Steps)
        /\ Len(SubSeq(steps, 1, stepIndex)) = stepIndex
    BY PrefixType
  <2>4. steps' \in Seq(Steps) /\ Len(steps') = stepIndex + Len(Answer)
    BY <1>8, <1>10, <2>1, <2>3, ConcatProperties DEF ReplanRemaining, Replanned
  <2>5. stepEvents' \in Seq(StepEventRecords)
    BY <1>8, <1>10, <2>1, AppendProperties DEF ReplanRemaining, TypeOK
  <2>6. AnnouncedBy(Answer) \subseteq Criteria BY DEF AnnouncedBy, Criteria
  <2>7. TypeOK' BY <1>8, <1>10, <2>1, <2>4, <2>5, <2>6 DEF ReplanRemaining, TypeOK
  <2>8. Len(Answer) \in Nat BY <1>8, <2>1, LenProperties
  <2>9. QED BY <1>10, <2>4, <2>7, <2>8 DEF ReplanRemaining, Handling, TypeOK
<1>11. CASE SkipStep
  <2>1. Decided("skip_step") BY <1>11 DEF SkipStep
  <2>2. <<FailedEvent("skip_step"), Event("SKIPPED", "none", "none")>> \in Seq(StepEventRecords)
    BY <1>8, <2>1
  <2>3. stepEvents' \in Seq(StepEventRecords)
    BY <1>11, <2>2, ConcatProperties DEF SkipStep, TypeOK
  <2>4. TypeOK' BY <1>8, <1>11, <2>1, <2>3 DEF SkipStep, TypeOK
  <2>5. stepIndex' <= Len(steps') BY <1>8, <1>11, <2>1 DEF SkipStep
  <2>6. QED BY <1>11, <2>4, <2>5 DEF SkipStep, Handling
<1>12. CASE Abort
  <2>1. Decided("abort") BY <1>12 DEF Abort
  <2>2. PICK st \in {"COMPLETED", "STOPPED", "FAILED"}, reason \in StopReasons :
          Finish(st, reason)
    BY <1>12 DEF Abort, StopReasons
  <2>3. stepEvents' \in Seq(StepEventRecords)
    BY <1>8, <1>12, <2>1, AppendProperties DEF Abort, TypeOK
  <2>4. UNCHANGED loopVars BY <1>12 DEF Abort
  <2>5. QED BY <1>8, <1>12, <2>1, <2>2, <2>3, <2>4, FinishType DEF Abort, TypeOK, Metrics, loopVars
<1>13. CASE ReplanRaises
  <2>1. pc = "saved" /\ signatures' = Seen /\ pc' = "undecided"
    BY <1>13 DEF ReplanRaises, Chosen, Failed
  <2>2. IsCounter(signatures', Tools \X Args)
    BY <2>1, HandlingTypes
  <2>3. TypeOK'
    BY <1>13, <2>1, <2>2 DEF ReplanRaises, Raised, TypeOK, loopVars, traceVars
  <2>4. QED BY <1>13, <2>1, <2>3 DEF ReplanRaises, Handling, loopVars
<1>14. CASE Ended \/ UNCHANGED vars
  BY <1>14 DEF Ended, vars, loopVars, stmVars, traceVars, TypeOK, Handling, More
<1>15. QED
  BY <1>1, <1>2, <1>3, <1>4, <1>5, <1>6, <1>7, <1>9, <1>10, <1>11, <1>12, <1>13, <1>14 DEF Next

(* The executor's variables have their types in every reachable state.     *)
THEOREM TypeCorrect == Spec => []TypeOK
<1>1. Spec => []TypeInv BY TypeInit, TypeNext, PTL DEF Spec
<1>2. TypeInv => TypeOK BY DEF TypeInv
<1>3. QED BY <1>1, <1>2, PTL

-----------------------------------------------------------------------------
(* Limits and verdicts. *)

(* The limits of a run are natural numbers.                                *)
LEMMA LimitsType ==
  ASSUME TypeInv
  PROVE  /\ run.maxSteps \in Nat /\ run.maxRetries \in Nat /\ run.maxCost \in Nat
         /\ run.costPerStep \in Nat /\ run.costPerStep > 0
         /\ cost \in Nat /\ completed \in Nat
         /\ Len(toolCalls) \in Nat /\ Len(observations) \in Nat
<1>1. run \in RunRecords BY DEF TypeInv, TypeOK, IsRun
<1>2. Len(toolCalls) \in Nat /\ Len(observations) \in Nat
  BY LenProperties DEF TypeInv, TypeOK
<1>3. QED BY <1>1, <1>2 DEF RunRecords, TypeInv, TypeOK

(* The strengthening: a step is only attempted while neither the budget    *)
(* nor max_steps is spent, an attempt being handled is not yet credited,   *)
(* and a step that was refined is still there.                             *)
Limits ==
  /\ cost = Len(toolCalls) * run.costPerStep
  /\ cost < run.maxCost + run.costPerStep
  /\ completed <= run.maxSteps
  /\ pc \in {"called", "saved"} => completed < run.maxSteps
  /\ completed <= Len(toolCalls)
  /\ pc \in {"called", "saved"} => completed < Len(toolCalls)
  /\ status = "REFINING" /\ pc = "head" => More
  /\ pc \in {"start", "called", "saved"} => status # "REFINING"
  /\ pc = "saved" => Call.status \in ToolCallStatuses

Inv == TypeInv /\ Limits

(* The signal for a failed call says how it failed, and says that it can   *)
(* be retried unless the policy blocked it or it did not progress.         *)
LEMMA SignalOfFailure ==
  ASSUME Call.status \in ToolCallStatuses, Call.status # "success"
  PROVE  \/ FailureSignal = Signal("non_progress", FALSE)
         \/ FailureSignal = Signal("policy_violation", FALSE) /\ Call.status = "policy_blocked"
         \/ /\ FailureSignal.retryable = TRUE
            /\ FailureSignal.type \in {"timeout", "schema_error", "tool_error"}
            /\ Call.status \in {"timeout", "schema_error", "error"}
<1>1. ASSUME NEW s PROVE <<s>> # << >> /\ Head(<<s>>) = s
  OBVIOUS
<1> DEFINE found == EvaluateToolCall(Call.status, FALSE)
<1>2. \/ Call.status = "timeout" /\ found = <<Signal("timeout", TRUE)>>
      \/ Call.status = "schema_error" /\ found = <<Signal("schema_error", TRUE)>>
      \/ Call.status = "policy_blocked" /\ found = <<Signal("policy_violation", FALSE)>>
      \/ Call.status = "error" /\ found = <<Signal("tool_error", TRUE)>>
  BY DEF EvaluateToolCall, ToolCallStatuses
<1>3. \/ FailureSignal = Signal("non_progress", FALSE)
      \/ FailureSignal = Head(found)
  BY <1>1, <1>2 DEF FailureSignal
<1>4. \/ Call.status = "timeout" /\ Head(found) = Signal("timeout", TRUE)
      \/ Call.status = "schema_error" /\ Head(found) = Signal("schema_error", TRUE)
      \/ Call.status = "policy_blocked" /\ Head(found) = Signal("policy_violation", FALSE)
      \/ Call.status = "error" /\ Head(found) = Signal("tool_error", TRUE)
  BY <1>1, <1>2
<1>5. ASSUME NEW t PROVE Signal(t, TRUE).retryable = TRUE /\ Signal(t, TRUE).type = t
  BY DEF Signal
<1>6. CASE FailureSignal = Head(found)
  BY <1>4, <1>5, <1>6
<1>7. QED BY <1>3, <1>6

(* A failed step is given up only when the policy blocked it.              *)
LEMMA AbortOnlyBlocked ==
  ASSUME Inv, Decided("abort")
  PROVE  FailureSignal.type = "policy_violation" /\ Call.status = "policy_blocked"
<1>1. /\ pc = "saved" /\ Call.status # "success"
      /\ FailureSignal.type # "non_progress" /\ ~RetriesSpent
      /\ Decide(Current, FailureSignal, Call.attempt, run.maxRetries, Answer) = "abort"
  BY DEF Decided, Chosen, Failed
<1>2. Call.status \in ToolCallStatuses BY <1>1 DEF Inv, Limits
<1>3. Call.attempt \in Nat /\ run.maxRetries \in Nat
  <2>1. Call \in ToolCallRecords BY <1>1, HandledCall DEF Inv
  <2>2. QED BY <2>1, LimitsType DEF Inv, ToolCallRecords
<1>4. CASE FailureSignal.retryable = TRUE
  <2>1. Call.attempt < run.maxRetries BY <1>1, <1>3, <1>4 DEF RetriesSpent
  <2>2. QED BY <1>1, <1>4, <2>1 DEF Decide
<1>5. CASE FailureSignal.retryable # TRUE
  <2>1. \A t : Signal(t, FALSE).type = t BY DEF Signal
  <2>2. FailureSignal # Signal("non_progress", FALSE) BY <1>1, <2>1
  <2>3. \/ FailureSignal = Signal("non_progress", FALSE)
        \/ FailureSignal = Signal("policy_violation", FALSE) /\ Call.status = "policy_blocked"
        \/ FailureSignal.retryable = TRUE
    BY <1>1, <1>2, SignalOfFailure
  <2>4. QED BY <1>5, <2>1, <2>2, <2>3
<1>6. QED BY <1>4, <1>5

LEMMA LimitsInit == Init => Inv
<1> SUFFICES ASSUME Init PROVE Inv
  OBVIOUS
<1>1. TypeInv BY TypeInit
<1>2. /\ run.maxSteps \in Nat /\ run.maxCost \in Nat
      /\ run.costPerStep \in Nat /\ run.costPerStep > 0
  BY <1>1, LimitsType
<1>3. 0 * run.costPerStep = 0 BY <1>2
<1>4. Limits BY <1>2, <1>3, EmptySeq DEF Init, Unstarted, Limits
<1>5. QED BY <1>1, <1>4 DEF Inv

(* A verdict spends and credits nothing.                                   *)
LEMMA FinishLimits ==
  ASSUME Inv, pc' = "done", run' = run, cost' = cost, completed' = completed,
         toolCalls' = toolCalls
  PROVE  Limits'
  BY DEF Inv, Limits

LEMMA LimitsNext == Inv /\ [Next]_vars => Inv'
<1> SUFFICES ASSUME Inv, [Next]_vars PROVE Limits'
  BY TypeNext DEF Inv
<1>0. TypeInv /\ TypeInv' /\ Limits BY TypeNext DEF Inv
<1>1. CASE Begin
  BY <1>0, <1>1 DEF Begin, Limits, traceVars
<1>2. CASE CallTool
  <2>1. /\ completed < run.maxSteps /\ cost < run.maxCost
    BY <1>0, <1>2, LimitsType DEF CallTool, StepsSpent, BudgetSpent
  <2>2. PICK c : toolCalls' = Append(toolCalls, c) BY <1>2 DEF CallTool
  <2>3. Len(toolCalls') = Len(toolCalls) + 1
    BY <2>2, <1>0 DEF TypeInv, TypeOK
  <2>4. (Len(toolCalls) + 1) * run.costPerStep
          = Len(toolCalls) * run.costPerStep + run.costPerStep
    <3>1. \A n, m \in Nat : (n + 1) * m = n * m + m OBVIOUS
    <3>2. QED BY <1>0, <3>1, LimitsType
  <2>5. /\ run' = run /\ completed' = completed /\ pc' = "called"
        /\ cost' = cost + run.costPerStep
    BY <1>2 DEF CallTool
  <2>6. cost' = Len(toolCalls') * run'.costPerStep
    BY <1>0, <2>3, <2>4, <2>5 DEF Limits
  <2>7. /\ cost' < run'.maxCost + run'.costPerStep
        /\ completed' < run'.maxSteps
        /\ completed' < Len(toolCalls')
    BY <1>0, <2>1, <2>3, <2>5, LimitsType DEF Limits
  <2>8. completed' \in Nat /\ run'.maxSteps \in Nat /\ Len(toolCalls') \in Nat
    BY <1>0, <2>3, <2>5, LimitsType
  <2>9. status' = "EXECUTING" BY <1>2 DEF CallTool
  <2>10. QED BY <2>5, <2>6, <2>7, <2>8, <2>9 DEF Limits
<1>3. CASE SaveOutcome
  <2>1. Call \in ToolCallRecords BY <1>0, <1>3, HandledCall DEF SaveOutcome
  <2>2. QED BY <1>0, <1>3, <2>1 DEF SaveOutcome, Limits, Call, ToolCallRecords, loopVars
<1>4. CASE StepStartRaises \/ SaveOutcomeRaises \/ ReplanRaises
  BY <1>0, <1>4 DEF StepStartRaises, SaveOutcomeRaises, ReplanRaises, Limits,
     loopVars, traceVars
<1>5. CASE OnSuccess
  <2>1. /\ completed < run.maxSteps /\ completed < Len(toolCalls)
    BY <1>0, <1>5 DEF OnSuccess, Limits
  <2>2. status' # "REFINING"
    BY <1>0, <1>5 DEF OnSuccess, Limits
  <2>3. QED BY <1>0, <1>5, <2>1, <2>2, LimitsType DEF OnSuccess, Limits
<1>6. CASE PatchAndRetry
  <2>1. pc = "saved" /\ UNCHANGED <<toolCalls, outcomes>>
    BY <1>6 DEF PatchAndRetry, Decided, Chosen, Failed
  <2>2. stepIndex + 1 \in 1..Len(steps) BY <1>0, <2>1, HandledCall
  <2>3. Len(steps') = Len(steps)
    BY <1>0, <1>6, <2>2 DEF PatchAndRetry, TypeInv, TypeOK
  <2>4. More'
    <3>1. stepIndex < Len(steps) BY <2>2, <1>0 DEF TypeInv, TypeOK
    <3>2. stepIndex' = stepIndex BY <1>6 DEF PatchAndRetry
    <3>3. QED BY <2>3, <3>1, <3>2 DEF More
  <2>5. QED BY <1>0, <1>6, <2>1, <2>4 DEF PatchAndRetry, Limits
<1>7. CASE ReplanRemaining
  <2>1. pc = "saved" /\ UNCHANGED <<toolCalls, outcomes>>
    BY <1>7 DEF ReplanRemaining, Decided, Chosen, Failed
  <2>2. Answer \in Seq(Steps) BY <1>0, <2>1, HandlingTypes
  <2>3. Answer # << >>
    BY <1>0, FailureSignalType DEF Answer, Signals, TypeInv, TypeOK, IsRun
  <2>4. Len(Answer) \in Nat /\ Len(Answer) > 0 BY <2>2, <2>3, EmptySeq
  <2>5. /\ SubSeq(steps, 1, stepIndex) \in Seq(Steps)
        /\ Len(SubSeq(steps, 1, stepIndex)) = stepIndex
    BY <1>0, PrefixType
  <2>6. Len(steps') = stepIndex + Len(Answer)
    BY <1>7, <2>2, <2>5, ConcatProperties DEF ReplanRemaining, Replanned
  <2>7. More'
    <3>1. stepIndex' = stepIndex /\ stepIndex \in Nat
      BY <1>0, <1>7 DEF ReplanRemaining, TypeInv, TypeOK
    <3>2. QED BY <2>4, <2>6, <3>1 DEF More
  <2>8. QED BY <1>0, <1>7, <2>1, <2>7 DEF ReplanRemaining, Limits
<1>8. CASE SkipStep
  <2>1. pc = "saved" /\ UNCHANGED <<toolCalls, outcomes>>
    BY <1>8 DEF SkipStep, Decided, Chosen, Failed
  <2>2. status' # "REFINING"
    BY <1>0, <1>8, <2>1 DEF SkipStep, Limits
  <2>3. QED BY <1>0, <1>8, <2>1, <2>2 DEF SkipStep, Limits
<1>9. CASE \/ StopOnSuccess \/ StopOnMaxSteps \/ StopOnBudget \/ PlanExhausted
           \/ StopNonProgress \/ StopMaxRetries \/ Abort
  <2>1. /\ pc' = "done" /\ run' = run /\ cost' = cost /\ completed' = completed
        /\ toolCalls' = toolCalls
    BY <1>9 DEF StopOnSuccess, StopOnMaxSteps, StopOnBudget, PlanExhausted,
       StopNonProgress, StopMaxRetries, Abort, Decided, Finish, loopVars, traceVars
  <2>2. QED BY <2>1, FinishLimits
<1>10. CASE Ended \/ UNCHANGED vars
  BY <1>0, <1>10 DEF Ended, vars, loopVars, traceVars, Limits, More, Call
<1>11. QED
  BY <1>1, <1>2, <1>3, <1>4, <1>5, <1>6, <1>7, <1>8, <1>9, <1>10 DEF Next

LEMMA Invariance == Spec => []Inv
  BY LimitsInit, LimitsNext, PTL DEF Spec

(* Every call is paid for, and the run overdraws its budget by less than   *)
(* one call.                                                               *)
THEOREM SpendingIsGuarded == Spec => []SpendWithinGuard
<1>1. Inv => SpendWithinGuard BY DEF Inv, Limits, SpendWithinGuard
<1>2. QED BY <1>1, Invariance, PTL

(* The signature of the call being handled has been counted.               *)
LEMMA SeenCounts == Seen[CallSignature] = CountOf(Seen, CallSignature)
  BY DEF Seen, Bump, CountOf

LEMMA VerdictNext == Inv /\ VerdictJustified /\ [Next]_vars => VerdictJustified'
<1> SUFFICES ASSUME Inv, VerdictJustified, [Next]_vars, pc' = "done"
             PROVE  VerdictJustified'
  BY DEF VerdictJustified
<1>0. TypeInv /\ Limits BY DEF Inv
<1>1. CASE StopOnSuccess
  <2>1. /\ status' = "STOPPED" /\ stopReason' = "success_criteria_met"
        /\ More' /\ CriteriaMet'
    BY <1>1 DEF StopOnSuccess, Finish, More, CriteriaMet, loopVars, stmVars
  <2>2. QED BY <2>1 DEF VerdictJustified
<1>2. CASE StopOnMaxSteps
  <2>1. completed = run.maxSteps
    BY <1>0, <1>2, LimitsType DEF StopOnMaxSteps, StepsSpent, Limits
  <2>2. /\ status' = "STOPPED" /\ stopReason' = "max_steps"
        /\ More' /\ completed' = run'.maxSteps
    BY <1>2, <2>1 DEF StopOnMaxSteps, Finish, More, loopVars
  <2>3. QED BY <2>2 DEF VerdictJustified
<1>3. CASE StopOnBudget
  <2>1. /\ status' = "STOPPED" /\ stopReason' = "budget_guard"
        /\ More' /\ cost' >= run'.maxCost
    BY <1>3 DEF StopOnBudget, BudgetSpent, Finish, More, loopVars
  <2>2. QED BY <2>1 DEF VerdictJustified
<1>4. CASE StopMaxRetries
  <2>1. /\ pc = "saved" /\ Call.status # "success"
        /\ FailureSignal.type # "non_progress" /\ RetriesSpent
    BY <1>4 DEF StopMaxRetries, Failed
  <2>2. Call.status \in ToolCallStatuses BY <1>0, <2>1 DEF Limits
  <2>3. \A t : ~Signal(t, FALSE).retryable BY DEF Signal
  <2>4. Call.status \in {"timeout", "schema_error", "error"}
    BY <2>1, <2>2, <2>3, SignalOfFailure DEF RetriesSpent
  <2>5. /\ status' = "STOPPED" /\ stopReason' = "max_retries"
        /\ Call' = Call /\ run' = run
    BY <1>4 DEF StopMaxRetries, Finish, Call
  <2>6. QED BY <2>1, <2>4, <2>5 DEF VerdictJustified, RetriesSpent
<1>5. CASE StopNonProgress
  <2>1. FailureSignal.type = "non_progress" /\ Call.status # "success" /\ pc = "saved"
    BY <1>5 DEF StopNonProgress, Failed
  <2>2. DetectNonProgress(CountOf(Seen, CallSignature), run.threshold)
    <3>1. ASSUME NEW s PROVE <<s>> # << >> /\ Head(<<s>>) = s
      OBVIOUS
    <3>2. \A t, b : Signal(t, b).type = t BY DEF Signal
    <3>3. SUFFICES ASSUME ~DetectNonProgress(CountOf(Seen, CallSignature), run.threshold)
                   PROVE  FALSE
      OBVIOUS
    <3>4. Call.status \in ToolCallStatuses BY <1>0, <2>1 DEF Limits
    <3>5. \E t \in {"timeout", "schema_error", "policy_violation", "tool_error"}, b \in BOOLEAN :
            EvaluateToolCall(Call.status, FALSE) = <<Signal(t, b)>>
      BY <2>1, <3>4 DEF EvaluateToolCall, ToolCallStatuses
    <3>6. \E t \in {"timeout", "schema_error", "policy_violation", "tool_error"}, b \in BOOLEAN :
            FailureSignal = Signal(t, b)
      BY <3>1, <3>3, <3>5 DEF FailureSignal
    <3>7. QED BY <2>1, <3>2, <3>6
  <2>3. /\ status' = "STOPPED" /\ stopReason' = "non_progress"
        /\ CallSignature' = CallSignature /\ signatures' = Seen
    BY <1>5 DEF StopNonProgress, Failed, Finish, CallSignature, Call
  <2>4. run' = run BY <1>5 DEF StopNonProgress, Finish
  <2>5. signatures'[CallSignature'] > run'.threshold
    BY <2>2, <2>3, <2>4, SeenCounts DEF DetectNonProgress
  <2>6. QED BY <2>3, <2>5 DEF VerdictJustified
<1>6. CASE Abort
  <2>1. Decided("abort") BY <1>6 DEF Abort
  <2>2. FailureSignal.type = "policy_violation" /\ Call.status = "policy_blocked"
    BY <2>1, AbortOnlyBlocked
  <2>3. status' = "STOPPED" /\ stopReason' = "policy_blocked" /\ Call' = Call
    BY <1>6, <2>1, <2>2 DEF Abort, Decided, Finish, Call
  <2>4. QED BY <2>2, <2>3 DEF VerdictJustified
<1>7. CASE PlanExhausted
  <2>1. ~More /\ status # "REFINING"
    BY <1>0, <1>7 DEF PlanExhausted, Limits
  <2>2. /\ status' = "COMPLETED" /\ ~More' /\ (CriteriaMet' <=> CriteriaMet)
        /\ stopReason' = IF CriteriaMet THEN "success_criteria_met" ELSE "none"
    BY <1>7, <2>1 DEF PlanExhausted, Finish, More, CriteriaMet, loopVars, stmVars
  <2>3. QED BY <2>2 DEF VerdictJustified
<1>8. CASE Ended \/ UNCHANGED vars
  BY <1>8 DEF Ended, vars, loopVars, stmVars, traceVars, VerdictJustified, More, CriteriaMet,
     Call, CallSignature
<1>9. CASE \/ Begin \/ CallTool \/ SaveOutcome \/ OnSuccess
           \/ PatchAndRetry \/ ReplanRemaining \/ SkipStep
           \/ StepStartRaises \/ SaveOutcomeRaises \/ ReplanRaises
  BY <1>9 DEF Begin, CallTool, SaveOutcome, OnSuccess,
     PatchAndRetry, ReplanRemaining, SkipStep,
     StepStartRaises, SaveOutcomeRaises, ReplanRaises
<1>10. QED
  BY <1>1, <1>2, <1>3, <1>4, <1>5, <1>6, <1>7, <1>8, <1>9 DEF Next

(* The verdict names the rule that ended the run, and is never FAILED.     *)
THEOREM VerdictsAreJustified == Spec => []VerdictJustified
<1>1. Init => VerdictJustified BY DEF Init, Unstarted, VerdictJustified
<1>2. QED BY <1>1, Invariance, VerdictNext, PTL DEF Spec

-----------------------------------------------------------------------------
(* Every run comes to an end. *)

(* What may still be paid for before the guard stops the run. *)
Left == IF cost < run.maxCost THEN run.maxCost - cost ELSE 0

(* How many steps the executor can take at most: a call and what becomes   *)
(* of it are three, and what is left pays for one call each.               *)
Fuel ==
  CASE pc = "start"  -> 3 * run.maxCost + 2
    [] pc = "head"   -> 3 * Left + 1
    [] pc = "called" -> 3 * Left + 3
    [] pc = "saved"  -> 3 * Left + 2
    [] OTHER         -> 0

LEMMA FuelType == TypeInv => Fuel \in Nat /\ Left \in Nat /\ Left <= run.maxCost
<1> SUFFICES ASSUME TypeInv PROVE Fuel \in Nat /\ Left \in Nat /\ Left <= run.maxCost
  OBVIOUS
<1>1. Left \in Nat /\ Left <= run.maxCost
  BY LimitsType DEF Left
<1>2. run.maxCost \in Nat
  BY LimitsType
<1>3. 3 * run.maxCost + 2 \in Nat /\ 3 * Left + 1 \in Nat /\ 3 * Left + 2 \in Nat
      /\ 3 * Left + 3 \in Nat
  BY <1>1, <1>2
<1>4. Fuel \in {3 * run.maxCost + 2, 3 * Left + 1, 3 * Left + 3, 3 * Left + 2, 0}
  BY DEF Fuel
<1> QED
  BY <1>1, <1>3, <1>4

LEMMA FuelNext == Inv /\ [Next]_vars => [Fuel' \in Nat /\ Fuel' < Fuel]_vars
<1> SUFFICES ASSUME Inv, Next, ~UNCHANGED vars PROVE Fuel' \in Nat /\ Fuel' < Fuel
  OBVIOUS
<1>0. /\ TypeInv /\ TypeInv' /\ Fuel' \in Nat /\ Left \in Nat /\ Left' \in Nat
      /\ Left <= run.maxCost /\ run.maxCost \in Nat
  <2>1. TypeInv /\ TypeInv'
    BY TypeNext DEF Inv
  <2>2. TypeInv' => (Fuel \in Nat /\ Left \in Nat /\ Left <= run.maxCost)'
    BY FuelType, PTL
  <2> QED
    BY <2>1, <2>2, FuelType, LimitsType
<1>1. UNCHANGED <<run, cost>> => Left' = Left
  BY DEF Left
<1>2. CASE Begin
  <2>1. pc = "start" /\ pc' = "head" /\ UNCHANGED <<run, cost>>
    BY <1>2 DEF Begin
  <2> QED
    BY <1>0, <1>1, <2>1 DEF Fuel
<1>3. CASE CallTool
  <2>1. /\ pc = "head" /\ pc' = "called" /\ run' = run /\ cost' = cost + run.costPerStep
        /\ cost < run.maxCost
    BY <1>0, <1>3, LimitsType DEF CallTool, BudgetSpent
  <2>2. Left' < Left
    BY <1>0, <2>1, LimitsType DEF Left
  <2> QED
    BY <1>0, <2>1, <2>2 DEF Fuel
<1>4. CASE SaveOutcome
  <2>1. pc = "called" /\ pc' = "saved" /\ UNCHANGED <<run, cost>>
    BY <1>4 DEF SaveOutcome, loopVars
  <2> QED
    BY <1>0, <1>1, <2>1 DEF Fuel
<1>5. CASE OnSuccess \/ PatchAndRetry \/ ReplanRemaining \/ SkipStep
  <2>1. pc = "saved" /\ pc' = "head" /\ UNCHANGED <<run, cost>>
    BY <1>5 DEF OnSuccess, PatchAndRetry, ReplanRemaining, SkipStep, Decided, Chosen, Failed
  <2> QED
    BY <1>0, <1>1, <2>1 DEF Fuel
<1>6. CASE \/ StopOnSuccess \/ StopOnMaxSteps \/ StopOnBudget \/ PlanExhausted
           \/ StopNonProgress \/ StopMaxRetries \/ Abort
           \/ StepStartRaises \/ SaveOutcomeRaises \/ ReplanRaises
  <2>1. pc \in {"head", "called", "saved"} /\ pc' \in {"done"} \cup Raised
    BY <1>6 DEF StopOnSuccess, StopOnMaxSteps, StopOnBudget, PlanExhausted,
       StopNonProgress, StopMaxRetries, Abort, StepStartRaises, SaveOutcomeRaises,
       ReplanRaises, Raised, Decided, Chosen, Failed, Finish
  <2> QED
    BY <1>0, <2>1 DEF Fuel, Raised
<1>7. CASE Ended
  BY <1>7 DEF Ended
<1> QED
  BY <1>2, <1>3, <1>4, <1>5, <1>6, <1>7 DEF Next

(* The loop has no cycle: whatever the plan, the tools, the retries and    *)
(* the replans, each step of the executor takes it nearer to its end, and  *)
(* it takes at most three for each unit of the budget and two more.        *)
THEOREM RunsGetShorter == Spec => [][Fuel' \in Nat /\ Fuel' < Fuel]_vars
  BY FuelNext, Invariance, PTL DEF Spec

-----------------------------------------------------------------------------
(* The executor implements the bounded run. *)

LEMMA PromiseInit == Init => Promise!Init
<1> SUFFICES ASSUME Init PROVE Promise!Init
  OBVIOUS
<1>1. run \in Runs /\ pc = "start" /\ Len(toolCalls) = 0 /\ cost = 0 /\ completed = 0
  BY EmptySeq DEF Init, Unstarted
<1>2. Verdict = "open" BY <1>1 DEF Verdict, Raised
<1>3. QED BY <1>1, <1>2 DEF Promise!Init

(* Ending with a verdict that the bounded run allows is one of its steps.  *)
LEMMA PromiseEnd ==
  ASSUME Verdict = "open", NEW v \in Promise!Verdicts, Verdict' = v,
         run' = run, cost' = cost, completed' = completed, toolCalls' = toolCalls,
         v = "max_steps" => completed = run.maxSteps,
         v = "budget_guard" => cost >= run.maxCost,
         v \in {"max_retries", "non_progress", "policy_blocked"}
           => Len(toolCalls) > completed
  PROVE  Promise!Next
<1>1. LimitsOf(run).maxSteps = run.maxSteps /\ LimitsOf(run).maxCost = run.maxCost
  BY DEF LimitsOf
<1>2. LimitsOf(run)' = LimitsOf(run) BY DEF LimitsOf
<1>3. Promise!End(v) BY <1>1, <1>2 DEF Promise!End
<1>4. QED BY <1>3 DEF Promise!Next

LEMMA PromiseNext ==
  Inv /\ Inv' /\ [Next]_vars => [Promise!Next]_(Promise!abstractVars)
<1> SUFFICES ASSUME Inv, Inv', [Next]_vars
             PROVE  Promise!Next \/ UNCHANGED Promise!abstractVars
  OBVIOUS
<1>0. TypeInv /\ Limits BY DEF Inv
<1>1. CASE Begin \/ SaveOutcome \/ PatchAndRetry \/ ReplanRemaining \/ SkipStep
  <2>1. pc \notin {"done"} \cup Raised /\ pc' \notin {"done"} \cup Raised
    BY <1>1 DEF Raised, Begin, SaveOutcome, PatchAndRetry, ReplanRemaining, SkipStep, Decided, Chosen, Failed
  <2>2. Verdict' = Verdict BY <2>1 DEF Verdict, Raised
  <2>3. UNCHANGED <<run, toolCalls, cost, completed>>
    BY <1>1 DEF Begin, SaveOutcome, PatchAndRetry, ReplanRemaining, SkipStep, Decided,
       traceVars, loopVars
  <2>4. QED BY <2>2, <2>3 DEF Promise!abstractVars, LimitsOf
<1>2. CASE CallTool
  <2>1. pc = "head" /\ pc' = "called" BY <1>2 DEF CallTool
  <2>2. Verdict = "open" /\ Verdict' = "open" BY <2>1 DEF Verdict, Raised
  <2>3. /\ completed < run.maxSteps /\ cost < run.maxCost
    BY <1>0, <1>2, LimitsType DEF CallTool, StepsSpent, BudgetSpent
  <2>4. PICK c : toolCalls' = Append(toolCalls, c) BY <1>2 DEF CallTool
  <2>5. Len(toolCalls') = Len(toolCalls) + 1 BY <2>4, <1>0 DEF TypeInv, TypeOK
  <2>6. /\ run' = run /\ completed' = completed /\ cost' = cost + run.costPerStep
    BY <1>2 DEF CallTool
  <2>7. Promise!Attempt BY <2>2, <2>3, <2>5, <2>6 DEF Promise!Attempt, LimitsOf
  <2>8. QED BY <2>7 DEF Promise!Next
<1>3. CASE OnSuccess
  <2>1. pc = "saved" /\ pc' = "head" BY <1>3 DEF OnSuccess
  <2>2. Verdict = "open" /\ Verdict' = "open" BY <2>1 DEF Verdict, Raised
  <2>3. completed < Len(toolCalls) BY <1>0, <2>1 DEF Limits
  <2>4. /\ UNCHANGED <<run, toolCalls, cost>> /\ completed' = completed + 1
    BY <1>3 DEF OnSuccess
  <2>5. Promise!Credit BY <2>2, <2>3, <2>4 DEF Promise!Credit, LimitsOf
  <2>6. QED BY <2>5 DEF Promise!Next
<1>4. CASE StepStartRaises \/ SaveOutcomeRaises \/ ReplanRaises
  <2>1. pc \in {"head", "called", "saved"} /\ pc' \in Raised
    BY <1>4 DEF StepStartRaises, SaveOutcomeRaises, ReplanRaises, Chosen, Failed, Raised
  <2>2. Verdict = "open" /\ Verdict' = "crashed"
    BY <2>1 DEF Verdict, Raised
  <2>3. UNCHANGED <<run, toolCalls, cost, completed>>
    BY <1>4 DEF StepStartRaises, SaveOutcomeRaises, ReplanRaises, loopVars, traceVars
  <2>4. "crashed" \in Promise!Verdicts
    BY DEF Promise!Verdicts
  <2>5. QED BY <2>2, <2>3, <2>4, PromiseEnd
<1>5. CASE StopOnSuccess \/ StopOnMaxSteps \/ StopOnBudget \/ PlanExhausted
  <2>1. pc = "head" /\ pc' = "done" /\ UNCHANGED <<run, toolCalls, cost, completed>>
    BY <1>5 DEF StopOnSuccess, StopOnMaxSteps, StopOnBudget, PlanExhausted, Finish,
       loopVars, traceVars
  <2>2. Verdict = "open"
        /\ Verdict' = IF status' = "COMPLETED" THEN "exhausted" ELSE stopReason'
    BY <2>1 DEF Verdict, Raised
  <2>3. \/ Verdict' \in {"exhausted", "success_criteria_met"}
        \/ Verdict' = "max_steps" /\ StepsSpent
        \/ Verdict' = "budget_guard" /\ BudgetSpent
    <3>1. CASE StopOnSuccess BY <3>1, <2>2 DEF StopOnSuccess, Finish
    <3>2. CASE StopOnMaxSteps BY <3>2, <2>2 DEF StopOnMaxSteps, Finish
    <3>3. CASE StopOnBudget BY <3>3, <2>2 DEF StopOnBudget, Finish
    <3>4. CASE PlanExhausted
      <4>1. status # "REFINING" BY <1>0, <3>4 DEF PlanExhausted, Limits
      <4>2. QED BY <3>4, <2>2, <4>1 DEF PlanExhausted, Finish
    <3>5. QED BY <1>5, <3>1, <3>2, <3>3, <3>4
  <2>4. StepsSpent => completed = run.maxSteps
    BY <1>0, LimitsType DEF StepsSpent, Limits
  <2>5. Verdict' \in Promise!Verdicts BY <2>3 DEF Promise!Verdicts
  <2>6. QED BY <2>1, <2>2, <2>3, <2>4, <2>5, PromiseEnd DEF BudgetSpent
<1>6. CASE StopNonProgress \/ StopMaxRetries \/ Abort
  <2>1. pc = "saved" /\ pc' = "done" /\ UNCHANGED <<run, toolCalls, cost, completed>>
    BY <1>6 DEF StopNonProgress, StopMaxRetries, Abort, Decided, Chosen, Failed, Finish, loopVars
  <2>2. completed < Len(toolCalls) BY <1>0, <2>1 DEF Limits
  <2>3. Len(toolCalls) > completed BY <2>2, <1>0, LimitsType
  <2>4. Verdict = "open"
        /\ Verdict' = IF status' = "COMPLETED" THEN "exhausted" ELSE stopReason'
    BY <2>1 DEF Verdict, Raised
  <2>5. status' = "STOPPED" /\ stopReason' \in {"non_progress", "max_retries", "policy_blocked"}
    <3>1. CASE StopNonProgress \/ StopMaxRetries
      BY <3>1 DEF StopNonProgress, StopMaxRetries, Finish
    <3>2. CASE Abort
      <4>1. Decided("abort") BY <3>2 DEF Abort
      <4>2. FailureSignal.type = "policy_violation" BY <4>1, AbortOnlyBlocked
      <4>3. QED BY <3>2, <4>2 DEF Abort, Finish
    <3>3. QED BY <1>6, <3>1, <3>2
  <2>6. Verdict' \in {"non_progress", "max_retries", "policy_blocked"} BY <2>4, <2>5
  <2>7. Verdict' \in Promise!Verdicts BY <2>6 DEF Promise!Verdicts
  <2>8. QED BY <2>1, <2>3, <2>4, <2>6, <2>7, PromiseEnd
<1>7. CASE Ended \/ UNCHANGED vars
  BY <1>7 DEF Ended, vars, loopVars, traceVars, Promise!abstractVars, Verdict, Raised, LimitsOf
<1>8. QED BY <1>1, <1>2, <1>3, <1>4, <1>5, <1>6, <1>7 DEF Next

(* Every behaviour of the executor is one of the bounded run: attempts are *)
(* paid for and made while the budget lasts, at most max_steps are         *)
(* credited, and exactly one verdict is given, with its grounds.           *)
THEOREM ImplementsBoundedRun == Spec => Promise!Safety
<1>1. QED BY PromiseInit, PromiseNext, Invariance, PTL DEF Spec, Promise!Safety
=============================================================================
