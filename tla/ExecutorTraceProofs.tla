------------------------- MODULE ExecutorTraceProofs -------------------------
(***************************************************************************)
(* More theorems about the executor, for every set of runs: what it counts *)
(* and records while it retries, replans and skips is what happened.       *)
(***************************************************************************)
EXTENDS ExecutorProofs, FiniteSetTheorems

(* Appending to a sequence. *)
LEMMA Appended ==
  ASSUME NEW S, NEW s \in Seq(S), NEW e
  PROVE  /\ Len(s) \in Nat /\ Len(Append(s, e)) = Len(s) + 1
         /\ \A i \in 1..Len(s) : Append(s, e)[i] = s[i]
         /\ Append(s, e)[Len(s) + 1] = e
  OBVIOUS

(* A sequence in front of another. *)
LEMMA Joined ==
  ASSUME NEW S, NEW s \in Seq(S), NEW t \in Seq(S)
  PROVE  /\ Len(s) \in Nat /\ Len(t) \in Nat /\ Len(s \o t) = Len(s) + Len(t)
         /\ \A i \in 1..Len(s) : (s \o t)[i] = s[i]
         /\ \A i \in (Len(s) + 1)..(Len(s) + Len(t)) : (s \o t)[i] = t[i - Len(s)]
<1>1. Len(s) \in Nat /\ Len(t) \in Nat /\ Len(s \o t) = Len(s) + Len(t)
  BY ConcatProperties, LenProperties
<1>2. \A i \in 1..(Len(s) + Len(t)) :
        (s \o t)[i] = IF i <= Len(s) THEN s[i] ELSE t[i - Len(s)]
  BY ConcatProperties
<1>3. ASSUME NEW i \in 1..Len(s) PROVE (s \o t)[i] = s[i]
  <2>1. i \in 1..(Len(s) + Len(t)) /\ i <= Len(s)
    BY <1>1
  <2> QED
    BY <1>2, <2>1
<1>4. ASSUME NEW i \in (Len(s) + 1)..(Len(s) + Len(t)) PROVE (s \o t)[i] = t[i - Len(s)]
  <2>1. i \in 1..(Len(s) + Len(t)) /\ ~(i <= Len(s))
    BY <1>1
  <2> QED
    BY <1>2, <2>1
<1> QED
  BY <1>1, <1>3, <1>4

(* Counting indices: one more index is one more. *)
LEMMA OneMore ==
  ASSUME NEW n \in Nat, NEW A, A \subseteq 1..n
  PROVE  /\ IsFiniteSet(A) /\ Cardinality(A) \in Nat /\ Cardinality(A) <= n
         /\ Cardinality(A \cup {n + 1}) = Cardinality(A) + 1
<1>1. IsFiniteSet(1..n) /\ Cardinality(1..n) = n
  BY FS_Interval
<1>2. IsFiniteSet(A) /\ Cardinality(A) <= n
  BY <1>1, FS_Subset
<1>3. n + 1 \notin A
  OBVIOUS
<1> QED
  BY <1>2, <1>3, FS_AddElement, FS_CardinalityType

-----------------------------------------------------------------------------
(* The steps of the executor by what they do to its records. *)

(* All that tells what happened, apart from the refinements.               *)
recordVars == <<run, stepIndex, completed, retries, signatures, observations,
                achieved, toolCalls, stepEvents, outcomes>>

(* A verdict at the loop head or after the loop. *)
Stops ==
  /\ pc = "head" /\ pc' = "done"
  /\ stopReason' # "non_progress"
  /\ stopReason' = "success_criteria_met" => CriteriaMet
  /\ UNCHANGED <<recordVars, steps, announced, refinements>>

(* A verdict after a failed call. *)
GivesUp ==
  /\ pc = "saved" /\ Call.status # "success" /\ pc' = "done"
  /\ signatures' = Seen
  /\ (stopReason' = "non_progress") <=> (FailureSignal.type = "non_progress")
  /\ stopReason' # "success_criteria_met"
  /\ announced' \subseteq announced
  /\ refinements' = refinements \/ Decided("abort")
  /\ \E action \in {"none", "abort"} : stepEvents' = Append(stepEvents, FailedEvent(action))
  /\ UNCHANGED <<run, loopVars, retries, observations, achieved, toolCalls, outcomes>>

(* A failed call is counted, and the planner cannot be asked.              *)
Balks ==
  /\ pc = "saved" /\ Call.status # "success" /\ pc' = "undecided"
  /\ signatures' = Seen
  /\ FailureSignal.type # "non_progress"
  /\ UNCHANGED <<run, stopReason, loopVars, retries, observations, achieved,
                 announced, traceVars>>

(* Nothing at all, or the exception of a log entry or of a row that cannot *)
(* be written.                                                             *)
Rests ==
  /\ \/ pc' = pc
     \/ pc = "head" /\ pc' = "unlogged"
     \/ pc = "called" /\ pc' = "unsaved"
  /\ UNCHANGED <<recordVars, steps, announced, refinements, stopReason>>

LEMMA StepCases ==
  ASSUME [Next]_vars
  PROVE  \/ Begin \/ CallTool \/ SaveOutcome \/ OnSuccess
         \/ PatchAndRetry \/ ReplanRemaining \/ SkipStep
         \/ Stops \/ GivesUp \/ Balks \/ Rests
<1>1. CASE StopOnSuccess \/ StopOnMaxSteps \/ StopOnBudget \/ PlanExhausted
  BY <1>1 DEF StopOnSuccess, StopOnMaxSteps, StopOnBudget, PlanExhausted, Finish, Stops,
     recordVars, loopVars, stmVars, traceVars
<1>2. CASE StopNonProgress \/ StopMaxRetries \/ Abort
  BY <1>2 DEF StopNonProgress, StopMaxRetries, Abort, Decided, Chosen, Failed, Finish,
     GivesUp, loopVars
<1>3. CASE StepStartRaises \/ SaveOutcomeRaises
  BY <1>3 DEF StepStartRaises, SaveOutcomeRaises, Rests, recordVars,
     loopVars, stmVars, traceVars
<1>4. CASE ReplanRaises
  BY <1>4 DEF ReplanRaises, Chosen, Failed, Balks
<1>5. CASE Ended \/ UNCHANGED vars
  BY <1>5 DEF Ended, vars, Rests, recordVars, loopVars, stmVars, traceVars
<1> QED
  BY <1>1, <1>2, <1>3, <1>4, <1>5 DEF Next

(* What the handling of a failed call that goes on leaves alone.           *)
LEMMA GoingOn ==
  ASSUME PatchAndRetry \/ ReplanRemaining \/ SkipStep
  PROVE  /\ pc = "saved" /\ Call.status # "success" /\ pc' = "head"
         /\ signatures' = Seen /\ FailureSignal.type # "non_progress"
         /\ UNCHANGED <<run, stopReason, completed, observations, achieved, toolCalls, outcomes>>
  BY DEF PatchAndRetry, ReplanRemaining, SkipStep, Decided, Chosen, Failed

(* A skipped step has two events. *)
LEMMA SkipEvents ==
  ASSUME TypeInv, SkipStep
  PROVE  stepEvents' = Append(Append(stepEvents, FailedEvent("skip_step")),
                              Event("SKIPPED", "none", "none"))
<1>1. stepEvents \in Seq(StepEventRecords)
  BY DEF TypeInv, TypeOK
<1>2. ASSUME NEW a \in StepEventRecords, NEW b \in StepEventRecords
      PROVE  stepEvents \o <<a, b>> = Append(Append(stepEvents, a), b)
  BY <1>1, <1>2
<1>3. pc = "saved"
  BY GoingOn
<1>4. /\ FailedEvent("skip_step") \in StepEventRecords
      /\ Event("SKIPPED", "none", "none") \in StepEventRecords
  BY <1>3, HandlingTypes, FailureSignalType DEF FailedEvent, Signals
<1> QED
  BY <1>2, <1>4 DEF SkipStep

-----------------------------------------------------------------------------
(* The invariants, one for each question. *)

SkippedIn(s) == {i \in 1..Len(s) : s[i].status = "SKIPPED"}

(* The index is made up of what was credited and what was skipped.         *)
Indexed ==
  /\ Len(observations) = completed
  /\ stepIndex = completed + Cardinality(SkippedIn(stepEvents))

ToldIn(s) == {i \in 1..Len(s) : s[i].status # "SKIPPED"}

(* The events that tell of calls, up to event i of them.                   *)
Rank(s, i) == Cardinality({j \in ToldIn(s) : j <= i})

Tells(e, call) ==
  /\ e.id = call.id /\ e.attempt = call.attempt
  /\ (e.status = "SUCCESS") <=> (call.status = "success")

Told ==
  /\ Len(outcomes) = Saved
  /\ \A i \in 1..Saved : outcomes[i] = <<toolCalls[i].id, toolCalls[i].status>>
  /\ Cardinality(ToldIn(stepEvents)) = Handled
  /\ \A i \in ToldIn(stepEvents) : Tells(stepEvents[i], toolCalls[Rank(stepEvents, i)])

PatchedIn(s, id) == {i \in 1..Len(s) : s[i].id = id /\ s[i].action = "patch_and_retry"}

AttemptLimit == IF run.maxRetries > 1 THEN run.maxRetries ELSE 1

(* A retry was decided while the limit was not reached, and the call being *)
(* handled carries the number its id has come to.                          *)
Retried ==
  /\ \A id \in Ids :
       /\ CountOf(retries, id) = Cardinality(PatchedIn(stepEvents, id))
       /\ CountOf(retries, id) < AttemptLimit
  /\ \A i \in 1..Len(toolCalls) : toolCalls[i].attempt <= AttemptLimit
  /\ pc \in {"called", "saved"} => Call.attempt = CountOf(retries, Call.id) + 1

SignatureOf(call) == <<call.tool, call.args>>

FailedUnder(n, sig) ==
  {i \in 1..n : toolCalls[i].status # "success" /\ SignatureOf(toolCalls[i]) = sig}

(* Counts are of failures; one may pass the threshold, by one, and that    *)
(* ends the run.                                                           *)
Signed ==
  /\ \A sig \in Tools \X Args :
       CountOf(signatures, sig) = Cardinality(FailedUnder(Monitored, sig))
  /\ pc # "done" => stopReason = "none"
  /\ stopReason # "non_progress" =>
       \A sig \in DOMAIN signatures : signatures[sig] <= run.threshold
  /\ stopReason = "non_progress" =>
       \E sig \in DOMAIN signatures :
         /\ signatures[sig] = run.threshold + 1
         /\ \A other \in DOMAIN signatures \ {sig} : signatures[other] <= run.threshold

Successes(n) == {j \in 1..n : toolCalls[j].status = "success"}

(* Every success is an observation; only the step at hand may hold a dump, *)
(* and it holds the one of now.                                            *)
Fresh ==
  /\ Len(observations) = Cardinality(Successes(Handled))
  /\ \A j \in (stepIndex + 1)..Len(steps) :
       \/ steps[j].args.text < 2
       \/ j = stepIndex + 1 /\ steps[j].args.text = Len(observations) + 2

(* Flags come from successes, announcements from a replan.                 *)
Grounded ==
  /\ \A c \in achieved : \E i \in 1..Len(toolCalls) :
       toolCalls[i].status = "success" /\ c \in FlagOf(toolCalls[i].tool)
  /\ announced \subseteq {"file"}
  /\ announced # {} =>
       \E i \in 1..Len(refinements) : refinements[i].action = "replan_remaining"
  /\ stopReason = "success_criteria_met" => CriteriaMet

-----------------------------------------------------------------------------
(* The index. *)

LEMMA SkippedCount ==
  ASSUME NEW S, NEW s \in Seq(S), NEW e
  PROVE  /\ Cardinality(SkippedIn(s)) \in Nat
         /\ Cardinality(SkippedIn(Append(s, e))) =
              Cardinality(SkippedIn(s)) + (IF e.status = "SKIPPED" THEN 1 ELSE 0)
<1>1. SkippedIn(s) \subseteq 1..Len(s) /\ Len(s) \in Nat
  BY DEF SkippedIn
<1>2. /\ Cardinality(SkippedIn(s)) \in Nat
      /\ Cardinality(SkippedIn(s) \cup {Len(s) + 1}) = Cardinality(SkippedIn(s)) + 1
  BY <1>1, OneMore
<1>3. CASE e.status = "SKIPPED"
  <2>1. SkippedIn(Append(s, e)) = SkippedIn(s) \cup {Len(s) + 1}
    BY <1>3, Appended DEF SkippedIn
  <2> QED
    BY <1>2, <1>3, <2>1
<1>4. CASE e.status # "SKIPPED"
  <2>1. SkippedIn(Append(s, e)) = SkippedIn(s)
    BY <1>4, Appended DEF SkippedIn
  <2> QED
    BY <1>2, <1>4, <2>1
<1> QED
  BY <1>3, <1>4

LEMMA IndexedNext == Inv /\ Indexed /\ [Next]_vars => Indexed'
<1> SUFFICES ASSUME Inv, Indexed, [Next]_vars PROVE Indexed'
  OBVIOUS
<1>0. /\ TypeInv /\ stepEvents \in Seq(StepEventRecords) /\ observations \in Seq(Ids)
      /\ completed \in Nat /\ stepIndex \in Nat
  BY DEF Inv, TypeInv, TypeOK
<1>1. CASE OnSuccess
  <2>1. stepEvents' = Append(stepEvents, Event("SUCCESS", "none", "none"))
    BY <1>1 DEF OnSuccess
  <2>2. Cardinality(SkippedIn(stepEvents)) \in Nat
        /\ Cardinality(SkippedIn(stepEvents')) = Cardinality(SkippedIn(stepEvents))
    BY <1>0, <2>1, SkippedCount DEF Event
  <2>3. Len(observations') = Len(observations) + 1
    BY <1>0, <1>1, Appended DEF OnSuccess
  <2> QED
    BY <1>0, <1>1, <2>2, <2>3 DEF OnSuccess, Indexed
<1>2. CASE SkipStep
  <2>1. /\ Event("SKIPPED", "none", "none").status = "SKIPPED"
        /\ FailedEvent("skip_step").status = "FAILED"
    BY DEF FailedEvent, Event
  <2>2. FailedEvent("skip_step") \in StepEventRecords
    BY <1>0, <1>2, GoingOn, HandlingTypes, FailureSignalType DEF FailedEvent, Signals
  <2>3. Append(stepEvents, FailedEvent("skip_step")) \in Seq(StepEventRecords)
    BY <1>0, <2>2
  <2>4. Cardinality(SkippedIn(Append(stepEvents, FailedEvent("skip_step"))))
          = Cardinality(SkippedIn(stepEvents)) /\ Cardinality(SkippedIn(stepEvents)) \in Nat
    BY <1>0, <2>1, SkippedCount
  <2>5. Cardinality(SkippedIn(stepEvents')) = Cardinality(SkippedIn(stepEvents)) + 1
    BY <1>0, <1>2, <2>1, <2>3, <2>4, SkippedCount, SkipEvents
  <2> QED
    BY <1>0, <1>2, <2>4, <2>5 DEF SkipStep, Indexed
<1>3. CASE PatchAndRetry \/ ReplanRemaining \/ GivesUp
  <2>1. PICK action : stepEvents' = Append(stepEvents, FailedEvent(action))
    BY <1>3 DEF PatchAndRetry, ReplanRemaining, GivesUp
  <2>2. Cardinality(SkippedIn(stepEvents')) = Cardinality(SkippedIn(stepEvents))
    BY <1>0, <2>1, SkippedCount DEF FailedEvent, Event
  <2>3. UNCHANGED <<stepIndex, completed, observations>>
    BY <1>3 DEF PatchAndRetry, ReplanRemaining, GivesUp, loopVars
  <2> QED
    BY <2>2, <2>3 DEF Indexed
<1>4. CASE Begin \/ CallTool \/ SaveOutcome \/ Stops \/ Balks \/ Rests
  <2>1. UNCHANGED <<stepIndex, completed, observations, stepEvents>>
    BY <1>4 DEF Begin, CallTool, SaveOutcome, Stops, Balks, Rests, recordVars, loopVars, stmVars, traceVars
  <2> QED
    BY <2>1 DEF Indexed
<1> QED
  BY <1>1, <1>2, <1>3, <1>4, StepCases

LEMMA IndexedInit == Init => Indexed
<1> SUFFICES ASSUME Init PROVE Indexed
  OBVIOUS
<1>1. SkippedIn(stepEvents) = {}
  BY DEF Init, Unstarted, SkippedIn
<1>2. Cardinality(SkippedIn(stepEvents)) = 0
  BY <1>1, FS_EmptySet
<1>3. Len(observations) = 0 /\ completed = 0 /\ stepIndex = 0
  BY DEF Init, Unstarted
<1> QED
  BY <1>2, <1>3 DEF Indexed

(* However steps are retried, replanned and skipped, the index accounts    *)
(* for every step left behind and stays within the list.                   *)
THEOREM IndexIsAccounted == Spec => []IndexAccounted
<1>1. Inv /\ Indexed => IndexAccounted
  BY DEF Inv, TypeInv, Handling, Limits, Indexed, IndexAccounted, HowMany, SkippedIn
<1> QED
  BY <1>1, IndexedInit, IndexedNext, Invariance, PTL DEF Spec

-----------------------------------------------------------------------------
(* Calls, rows and events. *)

LEMMA RankBounds ==
  ASSUME NEW S, NEW s \in Seq(S)
  PROVE  /\ Cardinality(ToldIn(s)) \in Nat
         /\ \A i \in ToldIn(s) : Rank(s, i) \in 1..Cardinality(ToldIn(s))
<1>1. ToldIn(s) \subseteq 1..Len(s) /\ Len(s) \in Nat
  BY DEF ToldIn
<1>2. IsFiniteSet(ToldIn(s)) /\ Cardinality(ToldIn(s)) \in Nat
  BY <1>1, OneMore
<1>3. ASSUME NEW i \in ToldIn(s)
      PROVE  Rank(s, i) \in 1..Cardinality(ToldIn(s))
  <2> DEFINE before == {j \in ToldIn(s) : j <= i}
  <2>1. before \subseteq ToldIn(s) /\ i \in before
    BY <1>1, <1>3
  <2>2. IsFiniteSet(before) /\ Cardinality(before) \in Nat
        /\ Cardinality(before) <= Cardinality(ToldIn(s))
    BY <1>2, <2>1, FS_Subset, FS_CardinalityType
  <2>3. Cardinality(before) # 0
    BY <2>1, <2>2, FS_EmptySet
  <2> QED
    BY <1>2, <2>2, <2>3 DEF Rank
<1> QED
  BY <1>2, <1>3

(* An event that tells of a call comes after the others; a SKIPPED one     *)
(* changes no rank.                                                        *)
LEMMA RankAppended ==
  ASSUME NEW S, NEW s \in Seq(S), NEW e
  PROVE  /\ e.status = "SKIPPED" =>
              /\ ToldIn(Append(s, e)) = ToldIn(s)
              /\ \A i : Rank(Append(s, e), i) = Rank(s, i)
         /\ e.status # "SKIPPED" =>
              /\ ToldIn(Append(s, e)) = ToldIn(s) \cup {Len(s) + 1}
              /\ Cardinality(ToldIn(Append(s, e))) = Cardinality(ToldIn(s)) + 1
              /\ \A i \in ToldIn(s) : Rank(Append(s, e), i) = Rank(s, i)
              /\ Rank(Append(s, e), Len(s) + 1) = Cardinality(ToldIn(s)) + 1
<1>1. ToldIn(s) \subseteq 1..Len(s) /\ Len(s) \in Nat
  BY DEF ToldIn
<1>2. CASE e.status = "SKIPPED"
  <2>1. ToldIn(Append(s, e)) = ToldIn(s)
    BY <1>2, Appended DEF ToldIn
  <2> QED
    BY <1>2, <2>1 DEF Rank
<1>3. CASE e.status # "SKIPPED"
  <2>1. ToldIn(Append(s, e)) = ToldIn(s) \cup {Len(s) + 1}
    BY <1>3, Appended DEF ToldIn
  <2>2. Cardinality(ToldIn(s) \cup {Len(s) + 1}) = Cardinality(ToldIn(s)) + 1
    BY <1>1, OneMore
  <2>3. ASSUME NEW i \in ToldIn(s)
        PROVE  Rank(Append(s, e), i) = Rank(s, i)
    <3>1. {j \in ToldIn(s) \cup {Len(s) + 1} : j <= i} = {j \in ToldIn(s) : j <= i}
      BY <1>1
    <3> QED
      BY <2>1, <3>1 DEF Rank
  <2>4. {j \in ToldIn(s) \cup {Len(s) + 1} : j <= Len(s) + 1} = ToldIn(s) \cup {Len(s) + 1}
    BY <1>1
  <2> QED
    BY <1>3, <2>1, <2>2, <2>3, <2>4 DEF Rank
<1> QED
  BY <1>2, <1>3

(* The event of the call being handled. *)
LEMMA TellingEvent ==
  ASSUME TypeInv, Told, pc = "saved", NEW e, e.status # "SKIPPED", Tells(e, Call)
  PROVE  /\ Cardinality(ToldIn(Append(stepEvents, e))) = Len(toolCalls)
         /\ \A i \in ToldIn(Append(stepEvents, e)) :
              Tells(Append(stepEvents, e)[i], toolCalls[Rank(Append(stepEvents, e), i)])
<1> DEFINE s == Append(stepEvents, e)
<1>1. stepEvents \in Seq(StepEventRecords) /\ Len(toolCalls) \in Nat
  BY DEF TypeInv, TypeOK
<1>2. Cardinality(ToldIn(stepEvents)) + 1 = Len(toolCalls)
  BY <1>1 DEF Told, Handled, AllButLast
<1>3. /\ ToldIn(s) = ToldIn(stepEvents) \cup {Len(stepEvents) + 1}
      /\ Cardinality(ToldIn(s)) = Len(toolCalls)
      /\ \A i \in ToldIn(stepEvents) : Rank(s, i) = Rank(stepEvents, i)
      /\ Rank(s, Len(stepEvents) + 1) = Len(toolCalls)
  BY <1>1, <1>2, RankAppended
<1>4. s[Len(stepEvents) + 1] = e /\ \A i \in ToldIn(stepEvents) : s[i] = stepEvents[i]
  BY <1>1, Appended DEF ToldIn
<1>5. \A i \in ToldIn(stepEvents) : Tells(stepEvents[i], toolCalls[Rank(stepEvents, i)])
  BY DEF Told
<1>6. \A i \in ToldIn(stepEvents) : Tells(s[i], toolCalls[Rank(s, i)])
  BY <1>3, <1>4, <1>5
<1>7. Tells(s[Len(stepEvents) + 1], toolCalls[Rank(s, Len(stepEvents) + 1)])
  BY <1>3, <1>4 DEF Call
<1>8. \A i \in ToldIn(s) : Tells(s[i], toolCalls[Rank(s, i)])
  BY <1>3, <1>6, <1>7
<1> QED
  BY <1>3, <1>8

LEMMA ToldNext == Inv /\ Told /\ [Next]_vars => Told'
<1> SUFFICES ASSUME Inv, Told, [Next]_vars PROVE Told'
  OBVIOUS
<1>0. /\ TypeInv /\ stepEvents \in Seq(StepEventRecords)
      /\ toolCalls \in Seq(ToolCallRecords) /\ outcomes \in Seq(Ids \X ToolCallStatuses)
      /\ Len(toolCalls) \in Nat
  BY DEF Inv, TypeInv, TypeOK
<1>1. ASSUME pc = "saved", pc' \in {"head", "done"}, UNCHANGED <<toolCalls, outcomes>>,
             Cardinality(ToldIn(stepEvents')) = Len(toolCalls),
             \A i \in ToldIn(stepEvents') :
               Tells(stepEvents'[i], toolCalls[Rank(stepEvents', i)])
      PROVE  Told'
  <2>1. Saved' = Saved /\ Handled' = Len(toolCalls)
    BY <1>1 DEF Saved, Handled, AllButLast
  <2>2. \A i \in 1..Saved : outcomes[i] = <<toolCalls[i].id, toolCalls[i].status>>
    BY DEF Told
  <2> QED
    BY <1>1, <2>1, <2>2 DEF Told
<1>2. CASE OnSuccess
  <2>1. /\ stepEvents' = Append(stepEvents, Event("SUCCESS", "none", "none"))
        /\ pc = "saved" /\ pc' = "head" /\ Call.status = "success"
        /\ UNCHANGED <<toolCalls, outcomes>>
    BY <1>2 DEF OnSuccess
  <2>2. Event("SUCCESS", "none", "none").status # "SKIPPED"
        /\ Tells(Event("SUCCESS", "none", "none"), Call)
    BY <2>1 DEF Event, Tells
  <2> QED
    BY <1>0, <1>1, <2>1, <2>2, TellingEvent
<1>3. ASSUME NEW action
      PROVE  /\ FailedEvent(action).status # "SKIPPED"
             /\ Call.status # "success" => Tells(FailedEvent(action), Call)
  BY DEF FailedEvent, Event, Tells
<1>4. CASE PatchAndRetry \/ ReplanRemaining \/ GivesUp
  <2>1. /\ pc = "saved" /\ pc' \in {"head", "done"} /\ Call.status # "success"
        /\ UNCHANGED <<toolCalls, outcomes>>
    BY <1>4, GoingOn DEF GivesUp
  <2>2. PICK action : stepEvents' = Append(stepEvents, FailedEvent(action))
    BY <1>4 DEF PatchAndRetry, ReplanRemaining, GivesUp
  <2> QED
    BY <1>0, <1>1, <1>3, <2>1, <2>2, TellingEvent
<1>5. CASE SkipStep
  <2> DEFINE s == Append(stepEvents, FailedEvent("skip_step"))
             e == Event("SKIPPED", "none", "none")
  <2>1. /\ pc = "saved" /\ pc' = "head" /\ Call.status # "success"
        /\ UNCHANGED <<toolCalls, outcomes>>
    BY <1>5, GoingOn
  <2>2. stepEvents' = Append(s, e)
    BY <1>0, <1>5, SkipEvents
  <2>3. /\ Cardinality(ToldIn(s)) = Len(toolCalls)
        /\ \A i \in ToldIn(s) : Tells(s[i], toolCalls[Rank(s, i)])
    BY <1>0, <1>3, <2>1, TellingEvent
  <2>4. FailedEvent("skip_step") \in StepEventRecords
    BY <1>0, <2>1, HandlingTypes, FailureSignalType DEF FailedEvent, Signals
  <2>5. s \in Seq(StepEventRecords)
    BY <1>0, <2>4
  <2>6. e.status = "SKIPPED"
    BY DEF Event
  <2>7. ToldIn(Append(s, e)) = ToldIn(s) /\ \A i : Rank(Append(s, e), i) = Rank(s, i)
    BY <2>5, <2>6, RankAppended
  <2>8. \A i \in ToldIn(s) : Append(s, e)[i] = s[i]
    BY <2>5, Appended DEF ToldIn
  <2>9. \A i \in ToldIn(stepEvents') :
          Tells(stepEvents'[i], toolCalls[Rank(stepEvents', i)])
    BY <2>2, <2>3, <2>7, <2>8
  <2> QED
    BY <1>1, <2>1, <2>2, <2>3, <2>7, <2>9
<1>6. CASE CallTool
  <2>1. PICK call : toolCalls' = Append(toolCalls, call)
    BY <1>6 DEF CallTool
  <2>2. pc = "head" /\ pc' = "called" /\ UNCHANGED <<stepEvents, outcomes>>
    BY <1>6 DEF CallTool
  <2>3. /\ Len(toolCalls') = Len(toolCalls) + 1
        /\ \A i \in 1..Len(toolCalls) : toolCalls'[i] = toolCalls[i]
    BY <1>0, <2>1, Appended
  <2>4. /\ Saved = Len(toolCalls) /\ Handled = Len(toolCalls)
        /\ Saved' = Len(toolCalls) /\ Handled' = Len(toolCalls)
    BY <1>0, <2>2, <2>3 DEF Saved, Handled, AllButLast
  <2>5. \A i \in ToldIn(stepEvents) : Rank(stepEvents, i) \in 1..Len(toolCalls)
    BY <1>0, <2>4, RankBounds DEF Told
  <2>6. \A i \in ToldIn(stepEvents) : Tells(stepEvents[i], toolCalls'[Rank(stepEvents, i)])
    BY <2>3, <2>5 DEF Told
  <2>7. \A i \in 1..Len(toolCalls) : outcomes[i] = <<toolCalls'[i].id, toolCalls'[i].status>>
    BY <2>3, <2>4 DEF Told
  <2>8. Len(outcomes) = Len(toolCalls) /\ Cardinality(ToldIn(stepEvents)) = Len(toolCalls)
    BY <2>4 DEF Told
  <2> QED
    BY <2>2, <2>4, <2>6, <2>7, <2>8 DEF Told
<1>7. CASE SaveOutcome
  <2>1. /\ pc = "called" /\ pc' = "saved" /\ UNCHANGED <<stepEvents, toolCalls>>
        /\ outcomes' = Append(outcomes, <<Call.id, Call.status>>)
    BY <1>7 DEF SaveOutcome
  <2>2. Saved = Len(toolCalls) - 1 /\ Saved' = Len(toolCalls) /\ Handled' = Handled
    BY <2>1 DEF Saved, Handled, AllButLast
  <2>3. Len(outcomes) = Len(toolCalls) - 1
    BY <2>2 DEF Told
  <2>4. /\ Len(outcomes') = Len(toolCalls)
        /\ \A i \in 1..(Len(toolCalls) - 1) : outcomes'[i] = outcomes[i]
        /\ outcomes'[Len(toolCalls)] = <<Call.id, Call.status>>
    BY <1>0, <2>1, <2>3, Appended
  <2>5. \A i \in 1..(Len(toolCalls) - 1) : outcomes[i] = <<toolCalls[i].id, toolCalls[i].status>>
    BY <2>2 DEF Told
  <2>6. \A i \in 1..Len(toolCalls) : i \in 1..(Len(toolCalls) - 1) \/ i = Len(toolCalls)
    BY <1>0
  <2>7. \A i \in 1..Len(toolCalls) : outcomes'[i] = <<toolCalls[i].id, toolCalls[i].status>>
    BY <2>4, <2>5, <2>6 DEF Call
  <2> QED
    BY <2>1, <2>2, <2>4, <2>7 DEF Told
<1>8. CASE Begin \/ Stops \/ Balks \/ Rests
  <2>1. UNCHANGED <<stepEvents, toolCalls, outcomes>> /\ Saved' = Saved /\ Handled' = Handled
    BY <1>8 DEF Begin, Stops, Balks, Rests, recordVars, traceVars,
       Saved, Handled, AllButLast
  <2> QED
    BY <2>1 DEF Told
<1> QED
  BY <1>2, <1>4, <1>5, <1>6, <1>7, <1>8, StepCases

LEMMA ToldInit == Init => Told
<1> SUFFICES ASSUME Init PROVE Told
  OBVIOUS
<1>1. stepEvents = << >> /\ Len(outcomes) = 0 /\ Saved = 0 /\ Handled = 0
  BY DEF Init, Unstarted, Saved, Handled, AllButLast
<1>2. ToldIn(stepEvents) = {} /\ Cardinality(ToldIn(stepEvents)) = 0
  BY <1>1, FS_EmptySet DEF ToldIn
<1> QED
  BY <1>1, <1>2 DEF Told

(* The trace and the tool_outcomes table tell the same story of every      *)
(* call, and whatever exception ends a run leaves them apart by its last   *)
(* call at most.                                                           *)
THEOREM CallsAreAccounted == Spec => []CallsAccounted
<1>1. Told => CallsAccounted
  BY DEF Told, CallsAccounted, ToldIn, Rank, Tells, Saved, AllButLast
<1> QED
  BY <1>1, ToldInit, ToldNext, Invariance, PTL DEF Spec

-----------------------------------------------------------------------------
(* Retries. *)

(* Counting a key counts that key once and no other.                       *)
LEMMA BumpCounts ==
  ASSUME NEW d, NEW k
  PROVE  /\ CountOf(Bump(d, k), k) = CountOf(d, k) + 1
         /\ \A j : j # k => CountOf(Bump(d, k), j) = CountOf(d, j)
  BY DEF CountOf, Bump

LEMMA PatchedCount ==
  ASSUME NEW S, NEW s \in Seq(S), NEW e, NEW id
  PROVE  /\ Cardinality(PatchedIn(s, id)) \in Nat
         /\ e.id = id /\ e.action = "patch_and_retry" =>
              Cardinality(PatchedIn(Append(s, e), id)) = Cardinality(PatchedIn(s, id)) + 1
         /\ e.id # id \/ e.action # "patch_and_retry" =>
              PatchedIn(Append(s, e), id) = PatchedIn(s, id)
<1>1. PatchedIn(s, id) \subseteq 1..Len(s) /\ Len(s) \in Nat
  BY DEF PatchedIn
<1>2. /\ Cardinality(PatchedIn(s, id)) \in Nat
      /\ Cardinality(PatchedIn(s, id) \cup {Len(s) + 1}) = Cardinality(PatchedIn(s, id)) + 1
  BY <1>1, OneMore
<1>3. ASSUME e.id = id, e.action = "patch_and_retry"
      PROVE  PatchedIn(Append(s, e), id) = PatchedIn(s, id) \cup {Len(s) + 1}
  BY <1>3, Appended DEF PatchedIn
<1>4. ASSUME e.id # id \/ e.action # "patch_and_retry"
      PROVE  PatchedIn(Append(s, e), id) = PatchedIn(s, id)
  BY <1>4, Appended DEF PatchedIn
<1> QED
  BY <1>2, <1>3, <1>4

(* The engine patches only below the limit. *)
LEMMA PatchesBelowLimit ==
  ASSUME NEW step, NEW signal, NEW attempt, NEW limit, NEW answer,
         Decide(step, signal, attempt, limit, answer) = "patch_and_retry"
  PROVE  attempt < limit
  BY DEF Decide

LEMMA RetriedNext == Inv /\ Retried /\ [Next]_vars => Retried'
<1> SUFFICES ASSUME Inv, Retried, [Next]_vars PROVE Retried'
  OBVIOUS
<1>0. /\ TypeInv /\ stepEvents \in Seq(StepEventRecords)
      /\ toolCalls \in Seq(ToolCallRecords) /\ Len(toolCalls) \in Nat
      /\ run.maxRetries \in Nat /\ AttemptLimit \in Nat
  BY LimitsType DEF Inv, TypeInv, TypeOK, AttemptLimit
<1>1. ASSUME UNCHANGED <<run, retries, toolCalls>>,
             pc' \in {"called", "saved"} => pc \in {"called", "saved"},
             \A id \in Ids : PatchedIn(stepEvents', id) = PatchedIn(stepEvents, id)
      PROVE  Retried'
  <2>1. AttemptLimit' = AttemptLimit /\ Call' = Call
    BY <1>1 DEF AttemptLimit, Call
  <2> QED
    BY <1>1, <2>1 DEF Retried
<1>2. CASE OnSuccess
  <2>1. \A id \in Ids : PatchedIn(stepEvents', id) = PatchedIn(stepEvents, id)
    BY <1>0, <1>2, PatchedCount DEF OnSuccess, Event
  <2> QED
    BY <1>1, <1>2, <2>1 DEF OnSuccess
<1>3. CASE GivesUp \/ ReplanRemaining
  <2>1. PICK action : /\ stepEvents' = Append(stepEvents, FailedEvent(action))
                      /\ action # "patch_and_retry"
    BY <1>3 DEF GivesUp, ReplanRemaining
  <2>2. \A id \in Ids : PatchedIn(stepEvents', id) = PatchedIn(stepEvents, id)
    BY <1>0, <2>1, PatchedCount DEF FailedEvent, Event
  <2> QED
    BY <1>1, <1>3, <2>2 DEF GivesUp, ReplanRemaining, Decided
<1>4. CASE SkipStep
  <2> DEFINE s == Append(stepEvents, FailedEvent("skip_step"))
             e == Event("SKIPPED", "none", "none")
  <2>1. stepEvents' = Append(s, e) /\ pc = "saved"
    BY <1>0, <1>4, SkipEvents, GoingOn
  <2>2. FailedEvent("skip_step") \in StepEventRecords
    BY <1>0, <2>1, HandlingTypes, FailureSignalType DEF FailedEvent, Signals
  <2>3. s \in Seq(StepEventRecords)
    BY <1>0, <2>2
  <2>4. \A id \in Ids : PatchedIn(s, id) = PatchedIn(stepEvents, id)
    BY <1>0, PatchedCount DEF FailedEvent, Event
  <2>5. e.action # "patch_and_retry"
    BY DEF Event
  <2>6. \A id \in Ids : PatchedIn(Append(s, e), id) = PatchedIn(s, id)
    BY <2>3, <2>5, PatchedCount
  <2>7. \A id \in Ids : PatchedIn(stepEvents', id) = PatchedIn(stepEvents, id)
    BY <2>1, <2>4, <2>6
  <2> QED
    BY <1>1, <1>4, <2>7 DEF SkipStep, Decided
<1>5. CASE PatchAndRetry
  <2>1. /\ pc = "saved" /\ pc' = "head" /\ UNCHANGED <<run, toolCalls>>
        /\ retries' = Bump(retries, Call.id)
        /\ stepEvents' = Append(stepEvents, FailedEvent("patch_and_retry"))
        /\ AttemptLimit' = AttemptLimit
    BY <1>5, GoingOn DEF PatchAndRetry, AttemptLimit
  <2>2. Call \in ToolCallRecords
    BY <1>0, <2>1, HandledCall
  <2>3. Call.id \in Ids /\ Call.attempt \in Nat
    BY <2>2 DEF ToolCallRecords
  <2>4. Call.attempt < run.maxRetries
    BY <1>5, PatchesBelowLimit DEF PatchAndRetry, Decided, Chosen, Failed
  <2>5. Call.attempt = CountOf(retries, Call.id) + 1
    BY <2>1 DEF Retried
  <2>6. CountOf(retries', Call.id) = Call.attempt /\ Call.attempt < AttemptLimit
    BY <1>0, <2>1, <2>3, <2>4, <2>5, BumpCounts DEF AttemptLimit
  <2>7. \A id \in Ids : id # Call.id => CountOf(retries', id) = CountOf(retries, id)
    BY <2>1, BumpCounts
  <2>8. FailedEvent("patch_and_retry").id = Call.id
        /\ FailedEvent("patch_and_retry").action = "patch_and_retry"
    BY DEF FailedEvent, Event
  <2>9. /\ Cardinality(PatchedIn(stepEvents', Call.id))
             = Cardinality(PatchedIn(stepEvents, Call.id)) + 1
        /\ \A id \in Ids : id # Call.id => PatchedIn(stepEvents', id) = PatchedIn(stepEvents, id)
    BY <1>0, <2>1, <2>8, PatchedCount
  <2>10. ASSUME NEW id \in Ids
         PROVE  /\ CountOf(retries', id) = Cardinality(PatchedIn(stepEvents', id))
                /\ CountOf(retries', id) < AttemptLimit
    <3>1. CASE id = Call.id
      BY <2>3, <2>5, <2>6, <2>9, <3>1 DEF Retried
    <3>2. CASE id # Call.id
      BY <2>7, <2>9, <3>2 DEF Retried
    <3> QED
      BY <3>1, <3>2
  <2> QED
    BY <2>1, <2>10 DEF Retried
<1>6. CASE CallTool
  <2> DEFINE step == WithObservations(Current)
  <2>1. PICK outcome : toolCalls' = Append(toolCalls,
             [id |-> step.id, tool |-> step.tool, args |-> step.args,
              attempt |-> CountOf(retries, step.id) + 1, status |-> outcome])
    BY <1>6 DEF CallTool
  <2>2. UNCHANGED <<run, retries, stepEvents>>
    BY <1>6 DEF CallTool, stmVars
  <2>3. /\ Len(toolCalls') = Len(toolCalls) + 1
        /\ \A i \in 1..Len(toolCalls) : toolCalls'[i] = toolCalls[i]
        /\ toolCalls'[Len(toolCalls) + 1].id = step.id
        /\ toolCalls'[Len(toolCalls) + 1].attempt = CountOf(retries, step.id) + 1
    BY <1>0, <2>1, Appended
  <2>4. step.id \in Ids
    <3>1. stepIndex + 1 \in 1..Len(steps)
      BY <1>0, <1>6, LenProperties DEF CallTool, More, TypeInv, TypeOK
    <3>2. Current \in Steps
      BY <1>0, <3>1, ElementOfSeq DEF Current, TypeInv, TypeOK
    <3> QED
      BY <1>0, <3>2, WithObservationsType DEF TypeInv, TypeOK, Steps
  <2>5. CountOf(retries, step.id) \in Nat
    BY <1>0, <2>4, BumpType DEF TypeInv, TypeOK
  <2>6. CountOf(retries, step.id) + 1 <= AttemptLimit
    BY <1>0, <2>4, <2>5 DEF Retried
  <2>7. \A i \in 1..Len(toolCalls') : toolCalls'[i].attempt <= AttemptLimit
    BY <1>0, <2>3, <2>6 DEF Retried
  <2>8. Call' = toolCalls'[Len(toolCalls) + 1] /\ AttemptLimit' = AttemptLimit
    BY <2>2, <2>3 DEF Call, AttemptLimit
  <2> QED
    BY <2>2, <2>3, <2>7, <2>8 DEF Retried
<1>7. CASE Begin \/ SaveOutcome \/ Stops \/ Balks \/ Rests
  <2>1. /\ UNCHANGED <<run, retries, toolCalls, stepEvents>>
        /\ pc' \in {"called", "saved"} => pc \in {"called", "saved"}
    BY <1>7 DEF Begin, SaveOutcome, Stops, Balks, Rests, recordVars, stmVars, traceVars
  <2> QED
    BY <1>1, <2>1
<1> QED
  BY <1>2, <1>3, <1>4, <1>5, <1>6, <1>7, StepCases

LEMMA RetriedInit == Init => Retried
<1> SUFFICES ASSUME Init PROVE Retried
  OBVIOUS
<1>1. pc = "start" /\ stepEvents = << >> /\ retries = NoCounts /\ Len(toolCalls) = 0
  BY DEF Init, Unstarted
<1>2. run.maxRetries \in Nat
  BY TypeInit, LimitsType
<1>3. AttemptLimit \in Nat /\ 0 < AttemptLimit
  BY <1>2 DEF AttemptLimit
<1>4. \A id \in Ids : PatchedIn(stepEvents, id) = {} /\ CountOf(retries, id) = 0
  BY <1>1 DEF PatchedIn, CountOf, NoCounts
<1> QED
  BY <1>1, <1>3, <1>4, FS_EmptySet DEF Retried

(* A retry is counted when it is decided and only then, over all steps     *)
(* that carry the id, and attempt numbers never pass the limit, however    *)
(* often replanning brings the id back (which marks no retry, so that this *)
(* is no bound on how often an id is called).                              *)
THEOREM RetriesStayWithinLimit == Spec => []RetriesWithinLimit
<1>1. Retried => RetriesWithinLimit
  BY DEF Retried, RetriesWithinLimit, HowMany, PatchedIn, AttemptLimit
<1> QED
  BY <1>1, RetriedInit, RetriedNext, Invariance, PTL DEF Spec

-----------------------------------------------------------------------------
(* Failures under a signature. *)

LEMMA NonProgressSignal ==
  ASSUME Call.status \in ToolCallStatuses, Call.status # "success"
  PROVE  (FailureSignal.type = "non_progress") <=> CountOf(Seen, CallSignature) > run.threshold
<1>1. CASE CountOf(Seen, CallSignature) > run.threshold
  BY <1>1 DEF FailureSignal, DetectNonProgress, Signal
<1>2. CASE ~(CountOf(Seen, CallSignature) > run.threshold)
  <2> DEFINE found == EvaluateToolCall(Call.status, FALSE)
  <2>1. \/ found = <<Signal("timeout", TRUE)>>
        \/ found = <<Signal("schema_error", TRUE)>>
        \/ found = <<Signal("policy_violation", FALSE)>>
        \/ found = <<Signal("tool_error", TRUE)>>
    BY DEF EvaluateToolCall, ToolCallStatuses
  <2>2. ASSUME NEW s PROVE <<s>> # << >> /\ Head(<<s>>) = s
    OBVIOUS
  <2>3. found # << >> /\ Head(found).type # "non_progress"
    <3>1. \/ Head(found) = Signal("timeout", TRUE)
          \/ Head(found) = Signal("schema_error", TRUE)
          \/ Head(found) = Signal("policy_violation", FALSE)
          \/ Head(found) = Signal("tool_error", TRUE)
      BY <2>1, <2>2
    <3>2. /\ Signal("timeout", TRUE).type = "timeout"
          /\ Signal("schema_error", TRUE).type = "schema_error"
          /\ Signal("policy_violation", FALSE).type = "policy_violation"
          /\ Signal("tool_error", TRUE).type = "tool_error"
      BY DEF Signal
    <3>3. Head(found).type \in {"timeout", "schema_error", "policy_violation", "tool_error"}
      BY <3>1, <3>2
    <3> QED
      BY <2>1, <2>2, <3>3
  <2>4. FailureSignal = Head(found)
    BY <1>2, <2>3 DEF FailureSignal, DetectNonProgress
  <2> QED
    BY <1>2, <2>3, <2>4
<1> QED
  BY <1>1, <1>2

LEMMA FailedUnderFinite ==
  ASSUME NEW n \in Nat, NEW sig
  PROVE  /\ FailedUnder(n, sig) \subseteq 1..n
         /\ IsFiniteSet(FailedUnder(n, sig)) /\ Cardinality(FailedUnder(n, sig)) \in Nat
<1>1. FailedUnder(n, sig) \subseteq 1..n
  BY DEF FailedUnder
<1> QED
  BY <1>1, OneMore

(* The call being handled, added to the failures or not.                   *)
LEMMA FailedUnderCall ==
  ASSUME TypeInv, pc = "saved"
  PROVE  /\ Monitored \in Nat /\ Len(toolCalls) = Monitored + 1 /\ Handled = Monitored
         /\ Call.status = "success" =>
              \A sig : FailedUnder(Len(toolCalls), sig) = FailedUnder(Monitored, sig)
         /\ Call.status # "success" =>
              /\ Cardinality(FailedUnder(Len(toolCalls), CallSignature)) =
                   Cardinality(FailedUnder(Monitored, CallSignature)) + 1
              /\ \A sig : sig # CallSignature =>
                   FailedUnder(Len(toolCalls), sig) = FailedUnder(Monitored, sig)
<1>1. Monitored \in Nat /\ Len(toolCalls) = Monitored + 1 /\ Handled = Monitored
  BY EmptySeq, LenProperties DEF TypeInv, TypeOK, Handling, Monitored, Handled, AllButLast
<1>2. \A j \in 1..Len(toolCalls) : j \in 1..Monitored \/ j = Len(toolCalls)
  BY <1>1
<1>3. 1..Monitored \subseteq 1..Len(toolCalls) /\ Len(toolCalls) \in 1..Len(toolCalls)
  BY <1>1
<1>4. CallSignature = SignatureOf(toolCalls[Len(toolCalls)])
  BY DEF CallSignature, SignatureOf, Call
<1>5. ASSUME NEW sig, Call.status = "success" \/ sig # CallSignature
      PROVE  FailedUnder(Len(toolCalls), sig) = FailedUnder(Monitored, sig)
  BY <1>2, <1>3, <1>4, <1>5 DEF FailedUnder, Call
<1>6. ASSUME Call.status # "success"
      PROVE  FailedUnder(Len(toolCalls), CallSignature) =
               FailedUnder(Monitored, CallSignature) \cup {Len(toolCalls)}
  BY <1>2, <1>3, <1>4, <1>6 DEF FailedUnder, Call
<1>7. Cardinality(FailedUnder(Monitored, CallSignature) \cup {Monitored + 1}) =
        Cardinality(FailedUnder(Monitored, CallSignature)) + 1
  BY <1>1, FailedUnderFinite, OneMore
<1> QED
  BY <1>1, <1>5, <1>6, <1>7

(* While the run goes on no signature has passed the threshold.            *)
LEMMA BelowThreshold ==
  ASSUME TypeInv, Signed, stopReason # "non_progress", NEW sig
  PROVE  /\ run.threshold \in Nat
         /\ CountOf(signatures, sig) \in Nat /\ CountOf(signatures, sig) <= run.threshold
<1>1. run.threshold \in Nat
  BY DEF TypeInv, TypeOK, IsRun, RunRecords
<1>2. \A other \in DOMAIN signatures : signatures[other] \in Nat
  BY DEF TypeInv, TypeOK, IsCounter
<1>3. \A other \in DOMAIN signatures : signatures[other] <= run.threshold
  BY DEF Signed
<1> QED
  BY <1>1, <1>2, <1>3 DEF CountOf

LEMMA SignedNext == Inv /\ Signed /\ [Next]_vars => Signed'
<1> SUFFICES ASSUME Inv, Signed, [Next]_vars PROVE Signed'
  OBVIOUS
<1>0. /\ TypeInv /\ toolCalls \in Seq(ToolCallRecords) /\ Len(toolCalls) \in Nat
  BY DEF Inv, TypeInv, TypeOK
<1>1. CASE OnSuccess
  <2>1. /\ pc = "saved" /\ pc' = "head" /\ Call.status = "success"
        /\ UNCHANGED <<run, signatures, toolCalls, stopReason>>
    BY <1>1 DEF OnSuccess
  <2>2. Monitored' = Len(toolCalls)
    BY <2>1 DEF Monitored, AllButLast
  <2>3. \A sig : FailedUnder(Monitored, sig)' = FailedUnder(Monitored, sig)
    BY <1>0, <2>1, <2>2, FailedUnderCall DEF FailedUnder
  <2> QED
    BY <2>1, <2>3 DEF Signed
<1>2. CASE PatchAndRetry \/ ReplanRemaining \/ SkipStep \/ GivesUp \/ Balks
  <2>1. /\ pc = "saved" /\ pc' \in {"head", "done", "undecided"}
        /\ Call.status # "success"
        /\ signatures' = Seen /\ UNCHANGED <<run, toolCalls>>
    BY <1>2, GoingOn DEF GivesUp, Balks, traceVars
  <2>2. /\ stopReason' = "non_progress" <=> FailureSignal.type = "non_progress"
        /\ pc' # "done" => stopReason' = "none"
    <3>1. CASE GivesUp
      BY <3>1 DEF GivesUp
    <3>2. CASE PatchAndRetry \/ ReplanRemaining \/ SkipStep
      BY <3>2, GoingOn DEF Signed
    <3>3. CASE Balks
      BY <3>3 DEF Balks, Signed
    <3> QED
      BY <1>2, <3>1, <3>2, <3>3
  <2>3. stopReason = "none" /\ stopReason # "non_progress"
    BY <2>1 DEF Signed
  <2>4. Call.status \in ToolCallStatuses
    BY <2>1 DEF Inv, Limits
  <2>5. Monitored' = Len(toolCalls) /\ Monitored \in Nat
    BY <1>0, <2>1, FailedUnderCall DEF Monitored, AllButLast
  <2>6. \A sig : CountOf(Seen, sig) =
          IF sig = CallSignature THEN CountOf(signatures, sig) + 1 ELSE CountOf(signatures, sig)
    BY BumpCounts DEF Seen
  <2>7. \A sig : FailedUnder(Monitored, sig)' = FailedUnder(Len(toolCalls), sig)
    BY <2>1, <2>5 DEF FailedUnder
  <2>8. ASSUME NEW sig \in Tools \X Args
        PROVE  CountOf(signatures', sig) = Cardinality(FailedUnder(Monitored, sig)')
    <3>1. CountOf(signatures, sig) = Cardinality(FailedUnder(Monitored, sig))
      BY DEF Signed
    <3>2. CASE sig = CallSignature
      BY <1>0, <2>1, <2>6, <2>7, <3>1, <3>2, FailedUnderCall
    <3>3. CASE sig # CallSignature
      BY <1>0, <2>1, <2>6, <2>7, <3>1, <3>3, FailedUnderCall
    <3> QED
      BY <3>2, <3>3
  <2>9. \A sig : /\ run.threshold \in Nat
                 /\ CountOf(signatures, sig) \in Nat /\ CountOf(signatures, sig) <= run.threshold
    BY <1>0, <2>3, BelowThreshold
  <2>10. /\ CallSignature \in DOMAIN Seen
         /\ \A sig \in DOMAIN Seen : Seen[sig] = CountOf(Seen, sig)
    BY DEF Seen, Bump, CountOf
  <2>11. \A sig \in DOMAIN Seen \ {CallSignature} : Seen[sig] <= run.threshold
    BY <2>6, <2>9, <2>10
  <2>12. (FailureSignal.type = "non_progress") <=> Seen[CallSignature] > run.threshold
    BY <2>1, <2>4, <2>10, NonProgressSignal
  <2>13. Seen[CallSignature] \in Nat /\ Seen[CallSignature] <= run.threshold + 1
    BY <2>6, <2>9, <2>10
  <2>14. CASE stopReason' = "non_progress"
    <3>1. Seen[CallSignature] = run.threshold + 1
      BY <2>2, <2>9, <2>12, <2>13, <2>14
    <3>2. \E sig \in DOMAIN signatures' :
            /\ signatures'[sig] = run.threshold + 1
            /\ \A other \in DOMAIN signatures' \ {sig} : signatures'[other] <= run.threshold
      BY <2>1, <2>10, <2>11, <3>1
    <3> QED
      BY <2>1, <2>2, <2>8, <2>14, <3>2 DEF Signed
  <2>15. CASE stopReason' # "non_progress"
    <3>1. Seen[CallSignature] <= run.threshold
      BY <2>2, <2>9, <2>12, <2>13, <2>15
    <3>2. \A sig \in DOMAIN signatures' : signatures'[sig] <= run.threshold
      BY <2>1, <2>11, <3>1
    <3> QED
      BY <2>1, <2>2, <2>8, <2>15, <3>2 DEF Signed
  <2> QED
    BY <2>14, <2>15
<1>3. CASE CallTool
  <2>1. PICK call : toolCalls' = Append(toolCalls, call)
    BY <1>3 DEF CallTool
  <2>2. /\ pc = "head" /\ pc' = "called" /\ UNCHANGED <<run, signatures, stopReason>>
    BY <1>3 DEF CallTool, stmVars
  <2>3. /\ Len(toolCalls') = Len(toolCalls) + 1
        /\ \A i \in 1..Len(toolCalls) : toolCalls'[i] = toolCalls[i]
    BY <1>0, <2>1, Appended
  <2>4. Monitored = Len(toolCalls) /\ Monitored' = Len(toolCalls)
    BY <1>0, <2>2, <2>3 DEF Monitored, AllButLast
  <2>5. \A sig : FailedUnder(Monitored, sig)' = FailedUnder(Monitored, sig)
    BY <2>3, <2>4 DEF FailedUnder
  <2> QED
    BY <2>2, <2>5 DEF Signed
<1>4. CASE Begin \/ SaveOutcome \/ Stops \/ Rests
  <2>1. UNCHANGED <<run, signatures, toolCalls>> /\ Monitored' = Monitored
    BY <1>4 DEF Begin, SaveOutcome, Stops, Rests, recordVars, stmVars, traceVars,
       Monitored, AllButLast
  <2>2. /\ pc' # "done" => pc # "done" /\ stopReason' = stopReason
        /\ \/ stopReason' = stopReason
           \/ pc = "head" /\ stopReason' # "non_progress"
    <3>1. CASE Stops
      BY <3>1 DEF Stops
    <3>2. CASE Begin \/ SaveOutcome
      BY <3>2 DEF Begin, SaveOutcome
    <3>3. CASE Rests
      <4>1. stopReason' = stopReason /\ (pc' = pc \/ pc \in {"head", "called"})
        BY <3>3 DEF Rests
      <4> QED
        BY <4>1
    <3> QED
      BY <1>4, <3>1, <3>2, <3>3
  <2>3. \A sig : FailedUnder(Monitored, sig)' = FailedUnder(Monitored, sig)
    BY <2>1 DEF FailedUnder
  <2>4. \A sig \in Tools \X Args :
          CountOf(signatures, sig)' = Cardinality(FailedUnder(Monitored, sig)')
    BY <2>1, <2>3 DEF Signed
  <2>5. CASE stopReason' = stopReason
    BY <2>1, <2>2, <2>4, <2>5 DEF Signed
  <2>6. CASE pc = "head" /\ stopReason' # "non_progress"
    <3>1. stopReason # "non_progress"
      BY <2>6 DEF Signed
    <3> QED
      BY <2>1, <2>2, <2>4, <2>6, <3>1 DEF Signed
  <2> QED
    BY <2>2, <2>5, <2>6
<1> QED
  BY <1>1, <1>2, <1>3, <1>4, StepCases

LEMMA SignedInit == Init => Signed
<1> SUFFICES ASSUME Init PROVE Signed
  OBVIOUS
<1>1. Monitored = 0 /\ signatures = NoCounts /\ stopReason = "none"
  BY DEF Init, Unstarted, Monitored, AllButLast
<1>2. \A sig : FailedUnder(Monitored, sig) = {} /\ CountOf(signatures, sig) = 0
  BY <1>1 DEF FailedUnder, CountOf, NoCounts
<1>3. DOMAIN signatures = {}
  BY <1>1 DEF NoCounts
<1> QED
  BY <1>1, <1>2, <1>3, FS_EmptySet DEF Signed

LEMMA SignedAlways == Spec => []Signed
  BY SignedInit, SignedNext, Invariance, PTL DEF Spec

(* Failures are counted, not calls: each signature's count is the number   *)
(* of calls that failed under it, the last included when asking the        *)
(* planner about it raised, and a run ends as not progressing exactly when *)
(* one of them has passed the threshold.                                   *)
THEOREM NonProgressIsCounted == Spec => []NonProgressCounted
<1>1. ASSUME Inv, Signed PROVE NonProgressCounted
  <2>1. /\ TypeInv /\ DOMAIN signatures \subseteq Tools \X Args
        /\ \A sig \in DOMAIN signatures : CountOf(signatures, sig) = signatures[sig]
    BY <1>1 DEF Inv, TypeInv, TypeOK, IsCounter, CountOf
  <2>2. run.threshold \in Nat /\ \A sig \in DOMAIN signatures : signatures[sig] \in Nat
    BY <2>1 DEF TypeInv, TypeOK, IsRun, RunRecords, IsCounter
  <2>3. \A sig \in DOMAIN signatures : signatures[sig] =
            Cardinality({i \in 1..Monitored : /\ toolCalls[i].status # "success"
                                            /\ <<toolCalls[i].tool, toolCalls[i].args>> = sig})
    BY <1>1, <2>1 DEF Signed, FailedUnder, SignatureOf
  <2>4. CASE stopReason = "non_progress"
    <3>1. PICK sig \in DOMAIN signatures :
            /\ signatures[sig] = run.threshold + 1
            /\ \A other \in DOMAIN signatures \ {sig} : signatures[other] <= run.threshold
      BY <1>1, <2>4 DEF Signed
    <3> QED
      BY <2>2, <2>3, <2>4, <3>1 DEF NonProgressCounted
  <2>5. CASE stopReason # "non_progress"
    <3>1. \A sig \in DOMAIN signatures : signatures[sig] <= run.threshold
      BY <1>1, <2>5 DEF Signed
    <3> QED
      BY <2>2, <2>3, <2>5, <3>1 DEF NonProgressCounted
  <2> QED
    BY <2>4, <2>5
<1> QED
  BY <1>1, SignedAlways, Invariance, PTL

(* Two sets together have no more elements than they have apart.           *)
LEMMA UnionBound ==
  ASSUME NEW A, NEW B, IsFiniteSet(A), IsFiniteSet(B)
  PROVE  /\ IsFiniteSet(A \cup B)
         /\ Cardinality(A \cup B) \in Nat /\ Cardinality(A) \in Nat /\ Cardinality(B) \in Nat
         /\ Cardinality(A \cup B) <= Cardinality(A) + Cardinality(B)
<1>1. /\ IsFiniteSet(A \cup B)
      /\ Cardinality(A \cup B) = Cardinality(A) + Cardinality(B) - Cardinality(A \cap B)
  BY FS_Union
<1>2. IsFiniteSet(A \cap B)
  BY FS_Intersection
<1> QED
  BY <1>1, <1>2, FS_CardinalityType

(* The same call can be recorded under two signatures only: with and       *)
(* without the defaults spelled out.                                       *)
LEMMA TwoSignatures ==
  ASSUME NEW a \in Args, NEW b \in Args, [a EXCEPT !.full = TRUE] = [b EXCEPT !.full = TRUE]
  PROVE  a \in {[b EXCEPT !.full = TRUE], [b EXCEPT !.full = FALSE]}
<1>1. [a EXCEPT !.full = a.full] = a
  BY DEF Args
<1>2. a.full \in {TRUE, FALSE}
  BY DEF Args
<1>3. /\ a.target = b.target /\ a.timeout = b.timeout /\ a.strict = b.strict /\ a.text = b.text
  BY DEF Args
<1>4. CASE a.full = TRUE
  BY <1>1, <1>4
<1>5. CASE a.full = FALSE
  BY <1>3, <1>5 DEF Args
<1> QED
  BY <1>2, <1>4, <1>5

(* Whatever is retried and replanned, one and the same call fails at most  *)
(* 2 * threshold + 1 times: each of its two signatures may reach the       *)
(* threshold, and one failure more, counted or still to be counted, ends   *)
(* the run.                                                                *)
THEOREM IdenticalFailuresAreBounded == Spec => []IdenticalFailuresBounded
<1>1. ASSUME Inv, Signed, NEW n \in 1..Len(toolCalls)
      PROVE  HowMany(toolCalls, LAMBDA c : c.status # "success" /\ SameCall(c, toolCalls[n]))
               <= 2 * run.threshold + 1
  <2> DEFINE d == toolCalls[n]
             same == {i \in 1..Len(toolCalls) : toolCalls[i].status # "success"
                                                /\ SameCall(toolCalls[i], d)}
             full == <<d.tool, [d.args EXCEPT !.full = TRUE]>>
             bare == <<d.tool, [d.args EXCEPT !.full = FALSE]>>
             A == FailedUnder(Monitored, full)
             B == FailedUnder(Monitored, bare)
             pending == (Monitored + 1)..Len(toolCalls)
  <2>0. TypeInv
    BY <1>1 DEF Inv
  <2>1. /\ Len(toolCalls) \in Nat /\ run.threshold \in Nat
        /\ \A i \in 1..Len(toolCalls) : toolCalls[i] \in ToolCallRecords
    BY <2>0, ElementOfSeq DEF TypeInv, TypeOK, IsRun, RunRecords
  <2>2. Monitored \in Nat /\ Monitored <= Len(toolCalls) /\ Len(toolCalls) <= Monitored + 1
    BY <2>1 DEF Monitored, AllButLast
  <2>3. \A i \in 1..Len(toolCalls) : i \in 1..Monitored \/ i \in pending
    BY <2>1, <2>2
  <2>4. same \subseteq (A \cup B) \cup pending
    <3> SUFFICES ASSUME NEW i \in same PROVE i \in (A \cup B) \cup pending
      OBVIOUS
    <3>1. toolCalls[i].args \in Args /\ d.args \in Args
      BY <2>1 DEF ToolCallRecords
    <3>2. toolCalls[i].args \in {[d.args EXCEPT !.full = TRUE], [d.args EXCEPT !.full = FALSE]}
      BY <3>1, TwoSignatures DEF SameCall
    <3>3. SignatureOf(toolCalls[i]) \in {full, bare}
      BY <3>2 DEF SignatureOf, SameCall
    <3> QED
      BY <2>3, <3>3 DEF FailedUnder
  <2>5. full \in Tools \X Args /\ bare \in Tools \X Args /\ full # bare
    <3>1. d.tool \in Tools /\ d.args \in Args
      BY <2>1 DEF ToolCallRecords
    <3>2. [d.args EXCEPT !.full = TRUE] \in Args /\ [d.args EXCEPT !.full = FALSE] \in Args
      BY <3>1 DEF Args
    <3>3. [d.args EXCEPT !.full = TRUE].full # [d.args EXCEPT !.full = FALSE].full
      BY <3>1 DEF Args
    <3> QED
      BY <3>1, <3>2, <3>3
  <2>6. /\ CountOf(signatures, full) = Cardinality(A) /\ Cardinality(A) \in Nat /\ IsFiniteSet(A)
        /\ CountOf(signatures, bare) = Cardinality(B) /\ Cardinality(B) \in Nat /\ IsFiniteSet(B)
    BY <1>1, <2>2, <2>5, FailedUnderFinite DEF Signed
  <2>7. Cardinality(A) + Cardinality(B) + (Len(toolCalls) - Monitored) <= 2 * run.threshold + 1
    <3>1. CASE stopReason # "non_progress"
      <4>1. Cardinality(A) <= run.threshold /\ Cardinality(B) <= run.threshold
        BY <1>1, <2>0, <2>6, <3>1, BelowThreshold
      <4> QED
        BY <2>1, <2>2, <2>6, <4>1
    <3>2. CASE stopReason = "non_progress"
      <4>1. pc = "done"
        BY <1>1, <3>2 DEF Signed
      <4>2. Monitored = Len(toolCalls)
        BY <4>1 DEF Monitored, AllButLast
      <4>3. PICK sig \in DOMAIN signatures :
              /\ signatures[sig] = run.threshold + 1
              /\ \A other \in DOMAIN signatures \ {sig} : signatures[other] <= run.threshold
        BY <1>1, <3>2 DEF Signed
      <4>4. ASSUME NEW s PROVE /\ s # sig => CountOf(signatures, s) <= run.threshold
                               /\ s = sig => CountOf(signatures, s) = run.threshold + 1
        BY <2>1, <4>3 DEF CountOf
      <4> HIDE DEF full, bare, A, B
      <4>5. \/ Cardinality(A) <= run.threshold /\ Cardinality(B) <= run.threshold + 1
            \/ Cardinality(A) <= run.threshold + 1 /\ Cardinality(B) <= run.threshold
        BY <2>1, <2>5, <2>6, <4>4
      <4> QED
        BY <2>1, <2>2, <2>6, <4>2, <4>5
    <3> QED
      BY <3>1, <3>2
  <2>8. IsFiniteSet(pending) /\ Cardinality(pending) = Len(toolCalls) - Monitored
    BY <2>1, <2>2, FS_Interval
  <2>9. /\ IsFiniteSet((A \cup B) \cup pending)
        /\ Cardinality((A \cup B) \cup pending) \in Nat
        /\ Cardinality((A \cup B) \cup pending)
             <= Cardinality(A) + Cardinality(B) + Cardinality(pending)
    <3> HIDE DEF A, B, pending
    <3>1. IsFiniteSet(A \cup B) /\ Cardinality(A \cup B) <= Cardinality(A) + Cardinality(B)
          /\ Cardinality(A \cup B) \in Nat
      BY <2>6, UnionBound
    <3>2. /\ IsFiniteSet((A \cup B) \cup pending) /\ Cardinality(pending) \in Nat
          /\ Cardinality((A \cup B) \cup pending) \in Nat
          /\ Cardinality((A \cup B) \cup pending) <= Cardinality(A \cup B) + Cardinality(pending)
      BY <2>8, <3>1, UnionBound
    <3> QED
      BY <2>6, <3>1, <3>2
  <2>10. IsFiniteSet(same) /\ Cardinality(same) <= Cardinality((A \cup B) \cup pending)
    <3> HIDE DEF A, B, pending, same
    <3> QED
      BY <2>4, <2>9, FS_Subset
  <2>11. Cardinality(same) <= 2 * run.threshold + 1
    <3>1. Cardinality(same) \in Nat
      BY <2>10, FS_CardinalityType
    <3> HIDE DEF A, B, pending, same
    <3> QED
      BY <2>1, <2>2, <2>6, <2>7, <2>8, <2>9, <2>10, <3>1
  <2> QED
    BY <2>11 DEF HowMany
<1>2. Inv /\ Signed => IdenticalFailuresBounded
  BY <1>1 DEF IdenticalFailuresBounded
<1> QED
  BY <1>2, SignedAlways, Invariance, PTL

-----------------------------------------------------------------------------
(* Dumps of observations. *)

(* The call being handled, added to the successes or not.                  *)
LEMMA SuccessesCall ==
  ASSUME TypeInv, pc = "saved"
  PROVE  /\ Handled \in Nat /\ Len(toolCalls) = Handled + 1
         /\ Call.status # "success" => Successes(Len(toolCalls)) = Successes(Handled)
         /\ Call.status = "success" =>
              Cardinality(Successes(Len(toolCalls))) = Cardinality(Successes(Handled)) + 1
<1>1. Handled \in Nat /\ Len(toolCalls) = Handled + 1
  BY FailedUnderCall
<1>2. \A j \in 1..Len(toolCalls) : j \in 1..Handled \/ j = Len(toolCalls)
  BY <1>1
<1>3. 1..Handled \subseteq 1..Len(toolCalls) /\ Len(toolCalls) \in 1..Len(toolCalls)
  BY <1>1
<1>4. ASSUME Call.status # "success"
      PROVE  Successes(Len(toolCalls)) = Successes(Handled)
  BY <1>2, <1>3, <1>4 DEF Successes, Call
<1>5. ASSUME Call.status = "success"
      PROVE  Successes(Len(toolCalls)) = Successes(Handled) \cup {Handled + 1}
  BY <1>1, <1>2, <1>3, <1>5 DEF Successes, Call
<1>6. Successes(Handled) \subseteq 1..Handled
  BY DEF Successes
<1>7. Cardinality(Successes(Handled) \cup {Handled + 1}) = Cardinality(Successes(Handled)) + 1
  BY <1>1, <1>6, OneMore
<1> QED
  BY <1>1, <1>4, <1>5, <1>7

(* A patch leaves the text alone. *)
LEMMA PatchedText ==
  ASSUME NEW step \in Steps, NEW f
  PROVE  PatchedArgs(step, f).text = step.args.text
<1>1. step.args \in Args
  BY DEF Steps
<1> QED
  BY <1>1 DEF PatchedArgs, Args

(* What planning answers holds no dump. *)
LEMMA NoPlannedDump ==
  ASSUME TypeInv
  PROVE  /\ \A i \in 1..Len(run.steps) : run.steps[i].args.text < 2
         /\ pc = "saved" => \A i \in 1..Len(Answer) : Answer[i].args.text < 2
<1>1. IsRun(run)
  BY DEF TypeInv, TypeOK
<1>2. \A i \in 1..Len(run.steps) : run.steps[i].args.text < 2
  BY <1>1 DEF IsRun
<1>3. FailureSignal.type \in FailureTypes
  BY FailureSignalType DEF Signals
<1>4. \A i \in 1..Len(Answer) : Answer[i].args.text < 2
  BY <1>1, <1>3 DEF IsRun, Answer
<1> QED
  BY <1>2, <1>4

(* The text a call is given. *)
LEMMA TextOfCall ==
  ASSUME NEW step \in Steps, Len(observations) \in Nat
  PROVE  /\ WithObservations(step).args.text \in Nat
         /\ \/ WithObservations(step).args.text = step.args.text
            \/ WithObservations(step).args.text = Len(observations) + 2
<1>1. step.args \in Args /\ step.args.text \in Nat
  BY DEF Steps, Args
<1>2. [step EXCEPT !.args.text = Len(observations) + 2].args.text = Len(observations) + 2
  BY <1>1 DEF Steps, Args
<1> QED
  BY <1>1, <1>2 DEF WithObservations

LEMMA FreshNext ==
  Inv /\ Fresh /\ SummaryIsCurrent /\ [Next]_vars => Fresh' /\ SummaryIsCurrent'
<1> SUFFICES ASSUME Inv, Fresh, SummaryIsCurrent, [Next]_vars
             PROVE  Fresh' /\ SummaryIsCurrent'
  OBVIOUS
<1>0. /\ TypeInv /\ toolCalls \in Seq(ToolCallRecords) /\ steps \in Seq(Steps)
      /\ Len(toolCalls) \in Nat /\ Len(steps) \in Nat /\ stepIndex \in Nat
      /\ observations \in Seq(Ids) /\ Len(observations) \in Nat
      /\ \A i \in 1..Len(steps) : steps[i] \in Steps
  BY ElementOfSeq DEF Inv, TypeInv, TypeOK
<1>1. UNCHANGED toolCalls => SummaryIsCurrent'
  BY DEF SummaryIsCurrent
<1>2. UNCHANGED toolCalls => \A n : Successes(n)' = Successes(n)
  BY DEF Successes
<1>3. CASE OnSuccess
  <2>1. /\ pc = "saved" /\ pc' = "head" /\ Call.status = "success"
        /\ observations' = Append(observations, Call.id)
        /\ stepIndex' = stepIndex + 1 /\ UNCHANGED <<steps, toolCalls>>
    BY <1>3 DEF OnSuccess
  <2>2. Len(observations') = Len(observations) + 1
    BY <1>0, <2>1, Appended
  <2>3. Handled' = Len(toolCalls)
    BY <2>1 DEF Handled, AllButLast
  <2>4. Len(observations') = Cardinality(Successes(Handled)')
    BY <1>0, <1>2, <2>1, <2>2, <2>3, SuccessesCall DEF Fresh
  <2>5. \A j \in (stepIndex' + 1)..Len(steps') : steps'[j].args.text < 2
    BY <1>0, <2>1 DEF Fresh
  <2> QED
    BY <1>1, <2>1, <2>4, <2>5 DEF Fresh
<1>4. ASSUME pc = "saved", Call.status # "success", pc' \in {"head", "done"},
             UNCHANGED <<toolCalls, observations>>,
             \A j \in (stepIndex' + 1)..Len(steps') :
               \/ steps'[j].args.text < 2
               \/ j = stepIndex' + 1 /\ steps'[j].args.text = Len(observations) + 2
      PROVE  Fresh' /\ SummaryIsCurrent'
  <2>1. Handled' = Len(toolCalls)
    BY <1>4 DEF Handled, AllButLast
  <2>2. Successes(Handled)' = Successes(Handled)
    BY <1>0, <1>2, <1>4, <2>1, SuccessesCall
  <2> QED
    BY <1>1, <1>4, <2>2 DEF Fresh
<1>5. CASE GivesUp
  BY <1>4, <1>5 DEF GivesUp, loopVars, Fresh
<1>6. CASE SkipStep
  <2>1. /\ pc = "saved" /\ pc' = "head" /\ Call.status # "success"
        /\ stepIndex' = stepIndex + 1 /\ UNCHANGED <<steps, toolCalls, observations>>
    BY <1>6, GoingOn DEF SkipStep
  <2>2. \A j \in (stepIndex' + 1)..Len(steps') : steps'[j].args.text < 2
    BY <1>0, <2>1 DEF Fresh
  <2> QED
    BY <1>4, <2>1, <2>2
<1>7. CASE PatchAndRetry
  <2> DEFINE args == PatchedArgs(Current, FailureSignal.type)
  <2>1. /\ pc = "saved" /\ pc' = "head" /\ Call.status # "success"
        /\ steps' = [steps EXCEPT ![stepIndex + 1].args = args]
        /\ UNCHANGED <<stepIndex, toolCalls, observations>>
    BY <1>7, GoingOn DEF PatchAndRetry
  <2>2. Current \in Steps /\ stepIndex + 1 \in 1..Len(steps)
    BY <1>0, <2>1, HandledCall
  <2>3. args.text = steps[stepIndex + 1].args.text
    BY <2>2, PatchedText DEF Current
  <2>4. steps[stepIndex + 1] \in [id: Ids, tool: Tools, args: Args,
                                  fallback: SUBSET {"replan", "skip"}]
    BY <2>2 DEF Current, Steps
  <2>5. Len(steps') = Len(steps) /\ steps'[stepIndex + 1].args = args
        /\ \A j \in 1..Len(steps) : j # stepIndex + 1 => steps'[j] = steps[j]
    BY <1>0, <2>1, <2>2, <2>4
  <2>6. \A j \in (stepIndex + 1)..Len(steps) : steps'[j].args.text = steps[j].args.text
    BY <1>0, <2>3, <2>5
  <2> QED
    BY <1>4, <2>1, <2>5, <2>6 DEF Fresh
<1>8. CASE ReplanRemaining
  <2> DEFINE past == SubSeq(steps, 1, stepIndex)
  <2>1. /\ pc = "saved" /\ pc' = "head" /\ Call.status # "success"
        /\ steps' = past \o Answer /\ UNCHANGED <<stepIndex, toolCalls, observations>>
    BY <1>8, GoingOn DEF ReplanRemaining, Replanned
  <2>2. past \in Seq(Steps) /\ Len(past) = stepIndex /\ Answer \in Seq(Steps)
    BY <1>0, <2>1, PrefixType, HandlingTypes
  <2>3. /\ Len(steps') = stepIndex + Len(Answer) /\ Len(Answer) \in Nat
        /\ \A j \in (stepIndex + 1)..Len(steps') : steps'[j] = Answer[j - stepIndex]
    <3> HIDE DEF past
    <3>1. /\ Len(past \o Answer) = Len(past) + Len(Answer) /\ Len(Answer) \in Nat
          /\ \A j \in (Len(past) + 1)..(Len(past) + Len(Answer)) :
               (past \o Answer)[j] = Answer[j - Len(past)]
      BY <2>2, Joined
    <3> QED
      BY <2>1, <2>2, <3>1
  <2>4. \A i \in 1..Len(Answer) : Answer[i].args.text < 2
    BY <1>0, <2>1, NoPlannedDump
  <2>5. \A j \in (stepIndex' + 1)..Len(steps') : steps'[j].args.text < 2
    BY <1>0, <2>1, <2>3, <2>4
  <2> QED
    BY <1>4, <2>1, <2>5
<1>9. CASE CallTool
  <2> DEFINE step == WithObservations(Current)
  <2>1. /\ pc = "head" /\ pc' = "called" /\ More
        /\ steps' = [steps EXCEPT ![stepIndex + 1] = step]
        /\ UNCHANGED <<stepIndex, observations>>
    BY <1>9 DEF CallTool, stmVars
  <2>2. PICK outcome : toolCalls' = Append(toolCalls,
             [id |-> step.id, tool |-> step.tool, args |-> step.args,
              attempt |-> CountOf(retries, step.id) + 1, status |-> outcome])
    BY <1>9 DEF CallTool
  <2>3. /\ Len(toolCalls') = Len(toolCalls) + 1
        /\ \A i \in 1..Len(toolCalls) : toolCalls'[i] = toolCalls[i]
        /\ toolCalls'[Len(toolCalls) + 1].args = step.args
    BY <1>0, <2>2, Appended
  <2>4. Handled = Len(toolCalls) /\ Handled' = Len(toolCalls)
    BY <1>0, <2>1, <2>3 DEF Handled, AllButLast
  <2>5. \A n \in 0..Len(toolCalls) : Successes(n)' = Successes(n)
    BY <1>0, <2>3 DEF Successes
  <2>6. stepIndex + 1 \in 1..Len(steps) /\ Current \in Steps /\ Current = steps[stepIndex + 1]
    BY <1>0, <2>1 DEF More, Current
  <2>7. step.args.text \in Nat /\ (step.args.text < 2 \/ step.args.text = Len(observations) + 2)
    <3>1. Current.args.text < 2 \/ Current.args.text = Len(observations) + 2
      BY <1>0, <2>6 DEF Fresh
    <3> QED
      BY <1>0, <2>6, <3>1, TextOfCall
  <2>8. Len(steps') = Len(steps) /\ steps'[stepIndex + 1] = step
        /\ \A j \in 1..Len(steps) : j # stepIndex + 1 => steps'[j] = steps[j]
    <3> HIDE DEF step
    <3> QED
      BY <1>0, <2>1, <2>6
  <2>9. \A j \in (stepIndex + 1)..Len(steps) :
          \/ steps'[j].args.text < 2
          \/ j = stepIndex + 1 /\ steps'[j].args.text = Len(observations) + 2
    <3> HIDE DEF step
    <3> QED
      BY <1>0, <2>7, <2>8 DEF Fresh
  <2>10. Len(observations) = Cardinality(Successes(Len(toolCalls)))
    BY <2>4 DEF Fresh
  <2>11. Fresh'
    BY <1>0, <2>1, <2>4, <2>5, <2>8, <2>9, <2>10 DEF Fresh
  <2>12. ASSUME NEW i \in 1..Len(toolCalls'),
                toolCalls'[i].tool = "summarize", toolCalls'[i].args.text >= 2
         PROVE  toolCalls'[i].args.text - 2 = Cardinality(Successes(i - 1)')
    <3>1. CASE i \in 1..Len(toolCalls)
      <4>1. toolCalls[i].args.text - 2 = Cardinality(Successes(i - 1))
        BY <2>3, <2>12, <3>1 DEF SummaryIsCurrent, Successes
      <4>2. i - 1 \in 0..Len(toolCalls)
        BY <1>0, <3>1
      <4> QED
        BY <2>3, <2>5, <3>1, <4>1, <4>2
    <3>2. CASE i = Len(toolCalls) + 1
      <4>1. i - 1 = Len(toolCalls) /\ i - 1 \in 0..Len(toolCalls)
        BY <1>0, <3>2
      <4>2. toolCalls'[i].args.text = Len(observations) + 2
        BY <1>0, <2>3, <2>7, <2>12, <3>2
      <4>3. Successes(i - 1)' = Successes(Len(toolCalls))
        BY <2>5, <4>1
      <4>4. toolCalls'[i].args.text - 2 = Len(observations)
        BY <1>0, <4>2
      <4> QED
        BY <2>10, <4>3, <4>4
    <3> QED
      BY <1>0, <2>3, <3>1, <3>2
  <2>13. SummaryIsCurrent'
    BY <2>12 DEF SummaryIsCurrent, Successes
  <2> QED
    BY <2>11, <2>13
<1>10. CASE Begin
  <2>1. /\ pc = "start" /\ pc' = "head" /\ steps' = run.steps
        /\ UNCHANGED <<stepIndex, observations, toolCalls>>
    BY <1>10 DEF Begin, stmVars, traceVars
  <2>2. stepIndex = 0
    BY <1>0, <2>1 DEF TypeInv, Handling
  <2>3. \A j \in 1..Len(steps') : steps'[j].args.text < 2
    BY <1>0, <2>1, NoPlannedDump
  <2>4. Handled' = Handled
    BY <2>1 DEF Handled, AllButLast
  <2> QED
    BY <1>1, <1>2, <2>1, <2>2, <2>3, <2>4 DEF Fresh
<1>11. CASE SaveOutcome \/ Stops \/ Balks \/ Rests
  <2>1. UNCHANGED <<toolCalls, observations, steps, stepIndex>> /\ Handled' = Handled
    BY <1>11 DEF SaveOutcome, Stops, Balks, Rests, recordVars, loopVars, stmVars, traceVars,
       Handled, AllButLast
  <2> QED
    BY <1>1, <1>2, <2>1 DEF Fresh
<1> QED
  BY <1>3, <1>5, <1>6, <1>7, <1>8, <1>9, <1>10, <1>11, StepCases

LEMMA FreshInit == Init => Fresh /\ SummaryIsCurrent
<1> SUFFICES ASSUME Init PROVE Fresh /\ SummaryIsCurrent
  OBVIOUS
<1>1. /\ Handled = 0 /\ Len(observations) = 0 /\ Len(toolCalls) = 0
      /\ Len(steps) = 0 /\ stepIndex = 0
  BY DEF Init, Unstarted, Handled, AllButLast
<1>2. Successes(Handled) = {} /\ Cardinality(Successes(Handled)) = 0
  BY <1>1, FS_EmptySet DEF Successes
<1> QED
  BY <1>1, <1>2 DEF Fresh, SummaryIsCurrent

(* What a summarize call is given to sum up covers every success before    *)
(* it, also on a retry and after the plan was replaced.                    *)
THEOREM SummariesAreCurrent == Spec => []SummaryIsCurrent
  BY FreshInit, FreshNext, Invariance, PTL DEF Spec

-----------------------------------------------------------------------------
(* What refinement decided. *)

(* The refinements grow by what is decided, and not otherwise. *)
LEMMA RefinementsGrow ==
  ASSUME [Next]_vars
  PROVE  \/ refinements' = refinements
         \/ \E action \in {"patch_and_retry", "replan_remaining", "skip_step", "abort"} :
              Decided(action)
<1>1. CASE Begin \/ CallTool \/ SaveOutcome \/ OnSuccess \/ Stops \/ Balks \/ Rests
  BY <1>1 DEF Begin, CallTool, SaveOutcome, OnSuccess, Stops, Balks, Rests, traceVars
<1>2. CASE PatchAndRetry \/ ReplanRemaining \/ SkipStep \/ GivesUp
  BY <1>2 DEF PatchAndRetry, ReplanRemaining, SkipStep, GivesUp
<1> QED
  BY <1>1, <1>2, StepCases

(* The executor stops on the retry limit before the engine could come to   *)
(* its last-resort replan.                                                 *)
LEMMA ReplanIsEarly ==
  ASSUME Inv, Decided("replan_remaining")
  PROVE  FailureSignal.type = "schema_error"
<1>1. /\ pc = "saved" /\ Call.status # "success"
      /\ FailureSignal.type # "non_progress" /\ ~RetriesSpent
      /\ Decide(Current, FailureSignal, Call.attempt, run.maxRetries, Answer) = "replan_remaining"
  BY DEF Decided, Chosen, Failed
<1>2. Call.status \in ToolCallStatuses
  BY <1>1 DEF Inv, Limits
<1>3. Call.attempt \in Nat /\ run.maxRetries \in Nat
  <2>1. Call \in ToolCallRecords
    BY <1>1, HandledCall DEF Inv
  <2> QED
    BY <2>1, LimitsType DEF Inv, ToolCallRecords
<1>4. CASE ReplansEarly(Current, FailureSignal)
  BY <1>4 DEF ReplansEarly
<1>5. CASE ~ReplansEarly(Current, FailureSignal)
  <2>1. /\ ~(FailureSignal.retryable /\ Call.attempt < run.maxRetries)
        /\ ReplansLate(Current, FailureSignal)
    BY <1>1, <1>5 DEF Decide
  <2>2. FailureSignal.type \in {"schema_error", "tool_error", "timeout"}
    BY <2>1 DEF ReplansLate
  <2>3. FailureSignal.retryable = TRUE
    <3>1. /\ Signal("non_progress", FALSE).type = "non_progress"
          /\ Signal("policy_violation", FALSE).type = "policy_violation"
      BY DEF Signal
    <3> QED
      BY <1>1, <1>2, <2>2, <3>1, SignalOfFailure
  <2> QED
    BY <1>1, <1>3, <2>1, <2>3 DEF RetriesSpent
<1> QED
  BY <1>4, <1>5

LEMMA MalformedNext == Inv /\ ReplansOnlyMalformed /\ [Next]_vars => ReplansOnlyMalformed'
<1> SUFFICES ASSUME Inv, ReplansOnlyMalformed, [Next]_vars
             PROVE  ReplansOnlyMalformed'
  OBVIOUS
<1>1. CASE refinements' = refinements
  BY <1>1 DEF ReplansOnlyMalformed
<1>2. ASSUME NEW action, Decided(action)
      PROVE  ReplansOnlyMalformed'
  <2>1. refinements' = Append(refinements, [action |-> action, failure |-> FailureSignal.type])
    BY <1>2 DEF Decided
  <2>2. refinements \in Seq([action: {"patch_and_retry", "replan_remaining",
                                      "skip_step", "abort"},
                             failure: FailureTypes])
    BY DEF Inv, TypeInv, TypeOK
  <2>3. /\ Len(refinements) \in Nat /\ Len(refinements') = Len(refinements) + 1
        /\ \A i \in 1..Len(refinements) : refinements'[i] = refinements[i]
        /\ refinements'[Len(refinements) + 1].action = action
        /\ refinements'[Len(refinements) + 1].failure = FailureSignal.type
    BY <2>1, <2>2, Appended
  <2>4. action = "replan_remaining" => FailureSignal.type = "schema_error"
    BY <1>2, ReplanIsEarly
  <2> QED
    BY <2>3, <2>4 DEF ReplansOnlyMalformed
<1> QED
  BY <1>1, <1>2, RefinementsGrow

(* A replan always answers a malformed response; timeouts and tool errors  *)
(* are retried or end the run.                                             *)
THEOREM ReplansAnswerMalformed == Spec => []ReplansOnlyMalformed
<1>1. Init => ReplansOnlyMalformed
  <2> SUFFICES ASSUME Init PROVE ReplansOnlyMalformed
    OBVIOUS
  <2>1. Len(refinements) = 0
    BY DEF Init, Unstarted
  <2> QED
    BY <2>1 DEF ReplansOnlyMalformed
<1> QED
  BY <1>1, MalformedNext, Invariance, PTL DEF Spec

-----------------------------------------------------------------------------
(* Grounds of success. *)

LEMMA GroundedNext == Inv /\ Signed /\ Grounded /\ [Next]_vars => Grounded'
<1> SUFFICES ASSUME Inv, Signed, Grounded, [Next]_vars
             PROVE  Grounded'
  OBVIOUS
<1>0. /\ TypeInv /\ toolCalls \in Seq(ToolCallRecords) /\ Len(toolCalls) \in Nat
      /\ refinements \in Seq([action: {"patch_and_retry", "replan_remaining",
                                       "skip_step", "abort"},
                              failure: FailureTypes])
  BY DEF Inv, TypeInv, TypeOK
<1> DEFINE Earned(calls, c) == \E i \in 1..Len(calls) :
              calls[i].status = "success" /\ c \in FlagOf(calls[i].tool)
           Replans == \E i \in 1..Len(refinements) :
              refinements[i].action = "replan_remaining"
<1>1. ASSUME NEW action, Decided(action)
      PROVE  Replans \/ action = "replan_remaining" => Replans'
  <2>1. refinements' = Append(refinements, [action |-> action, failure |-> FailureSignal.type])
    BY <1>1 DEF Decided
  <2>2. /\ Len(refinements) \in Nat /\ Len(refinements') = Len(refinements) + 1
        /\ \A i \in 1..Len(refinements) : refinements'[i] = refinements[i]
        /\ refinements'[Len(refinements) + 1].action = action
    BY <1>0, <2>1, Appended
  <2>3. Len(refinements) + 1 \in 1..Len(refinements')
        /\ 1..Len(refinements) \subseteq 1..Len(refinements')
    BY <2>2
  <2> QED
    BY <2>2, <2>3
<1>2. Replans => Replans'
  BY <1>1, RefinementsGrow
<1>3. CASE OnSuccess
  <2>1. /\ pc = "saved" /\ Call.status = "success"
        /\ achieved' = achieved \cup FlagOf(Call.tool)
        /\ UNCHANGED <<toolCalls, announced, stopReason>>
    BY <1>3 DEF OnSuccess
  <2>2. Len(toolCalls) \in 1..Len(toolCalls)
    BY <1>0, <2>1, EmptySeq, LenProperties DEF TypeInv, Handling
  <2>3. \A c \in achieved' : Earned(toolCalls', c)
    BY <2>1, <2>2 DEF Grounded, Call
  <2>4. stopReason = "none"
    BY <2>1 DEF Signed
  <2> QED
    BY <1>2, <2>1, <2>3, <2>4 DEF Grounded
<1>4. CASE CallTool
  <2>1. PICK call : toolCalls' = Append(toolCalls, call)
    BY <1>4 DEF CallTool
  <2>2. /\ Len(toolCalls') = Len(toolCalls) + 1
        /\ \A i \in 1..Len(toolCalls) : toolCalls'[i] = toolCalls[i]
        /\ 1..Len(toolCalls) \subseteq 1..Len(toolCalls')
    BY <1>0, <2>1, Appended
  <2>3. pc = "head" /\ UNCHANGED <<achieved, announced, stopReason>>
    BY <1>4 DEF CallTool, stmVars
  <2>4. \A c \in achieved' : Earned(toolCalls', c)
    BY <2>2, <2>3 DEF Grounded
  <2>5. stopReason = "none"
    BY <2>3 DEF Signed
  <2> QED
    BY <1>2, <2>3, <2>4, <2>5 DEF Grounded
<1>5. ASSUME UNCHANGED <<achieved, toolCalls>>,
             announced' \subseteq announced \/ (announced' \subseteq {"file"} /\ Replans'),
             stopReason' = "success_criteria_met" => CriteriaMet'
      PROVE  Grounded'
  <2>1. \A c \in achieved' : Earned(toolCalls', c)
    BY <1>5 DEF Grounded
  <2> QED
    BY <1>2, <1>5, <2>1 DEF Grounded
<1>6. CASE ReplanRemaining
  <2>1. Decided("replan_remaining") /\ announced' = AnnouncedBy(Answer)
    BY <1>6 DEF ReplanRemaining
  <2>2. announced' \subseteq {"file"} /\ Replans'
    BY <1>1, <2>1 DEF AnnouncedBy
  <2>3. UNCHANGED <<achieved, toolCalls, stopReason>> /\ stopReason = "none"
    BY <1>6, GoingOn DEF Signed
  <2> QED
    BY <1>5, <2>2, <2>3
<1>7. CASE PatchAndRetry \/ SkipStep
  <2>1. UNCHANGED <<achieved, toolCalls, stopReason>> /\ stopReason = "none"
    BY <1>7, GoingOn DEF Signed
  <2>2. announced' \subseteq announced
    BY <1>7 DEF PatchAndRetry, SkipStep
  <2> QED
    BY <1>5, <2>1, <2>2
<1>8. CASE GivesUp
  BY <1>5, <1>8 DEF GivesUp
<1>9. CASE Stops
  <2>1. UNCHANGED <<run, achieved, announced, toolCalls>>
    BY <1>9 DEF Stops, recordVars
  <2>2. CriteriaMet' = CriteriaMet
    BY <2>1 DEF CriteriaMet
  <2> QED
    BY <1>5, <1>9, <2>1, <2>2 DEF Stops
<1>10. CASE Begin \/ SaveOutcome \/ Balks \/ Rests
  <2>1. UNCHANGED <<run, achieved, announced, toolCalls, stopReason>>
    BY <1>10 DEF Begin, SaveOutcome, Balks, Rests, recordVars, stmVars, traceVars
  <2>2. CriteriaMet' = CriteriaMet
    BY <2>1 DEF CriteriaMet
  <2>3. stopReason' = "success_criteria_met" => CriteriaMet'
    BY <2>1, <2>2 DEF Grounded
  <2> QED
    BY <1>5, <2>1, <2>3
<1> QED
  BY <1>3, <1>4, <1>6, <1>7, <1>8, <1>9, <1>10, StepCases

(* A run that claims success owes every criterion to a tool that           *)
(* succeeded, to the wording of its goal, or to a replanned step's         *)
(* description.                                                            *)
THEOREM SuccessIsGrounded == Spec => []SuccessHasGrounds
<1>1. Init => Grounded
  BY DEF Init, Unstarted, Grounded
<1>2. Grounded => SuccessHasGrounds
  <2> SUFFICES ASSUME Grounded, stopReason = "success_criteria_met", NEW c \in run.criteria
               PROVE  \/ c \in run.mentioned
                      \/ \E i \in 1..Len(toolCalls) :
                           toolCalls[i].status = "success" /\ c \in FlagOf(toolCalls[i].tool)
                      \/ c = "file" /\ \E i \in 1..Len(refinements) :
                                         refinements[i].action = "replan_remaining"
    BY DEF SuccessHasGrounds
  <2>1. c \in achieved \cup run.mentioned \cup announced
    BY DEF Grounded, CriteriaMet
  <2>2. CASE c \in achieved
    BY <2>2 DEF Grounded
  <2>3. CASE c \in announced
    BY <2>3 DEF Grounded
  <2> QED
    BY <2>1, <2>2, <2>3
<1> QED
  BY <1>1, <1>2, GroundedNext, SignedAlways, Invariance, PTL DEF Spec

-----------------------------------------------------------------------------
(* The past. *)

(* Two sequences that agree as far as n have the same first n elements.    *)
LEMMA SamePrefix ==
  ASSUME NEW S, NEW s \in Seq(S), NEW t \in Seq(S), NEW n \in Nat,
         n <= Len(s), n <= Len(t), \A i \in 1..n : t[i] = s[i]
  PROVE  SubSeq(t, 1, n) = SubSeq(s, 1, n)
<1>1. /\ SubSeq(s, 1, n) \in Seq(S) /\ Len(SubSeq(s, 1, n)) = n
      /\ \A i \in 1..n : SubSeq(s, 1, n)[i] = s[i]
  OBVIOUS
<1>2. /\ SubSeq(t, 1, n) \in Seq(S) /\ Len(SubSeq(t, 1, n)) = n
      /\ \A i \in 1..n : SubSeq(t, 1, n)[i] = t[i]
  OBVIOUS
<1> QED
  BY <1>1, <1>2, SeqEqual

(* A sequence that was extended keeps what it had. *)
LEMMA Extended ==
  ASSUME NEW S, NEW s \in Seq(S), NEW t \in Seq(S),
         \/ t = s
         \/ \E e : t = Append(s, e)
         \/ \E d, e : t = Append(Append(s, d), e)
  PROVE  SubSeq(t, 1, Len(s)) = s
<1>1. Len(s) \in Nat /\ SubSeq(s, 1, Len(s)) = s
  OBVIOUS
<1>2. CASE \E e : t = Append(s, e)
  <2>1. PICK e : t = Append(s, e)
    BY <1>2
  <2>2. Len(t) = Len(s) + 1 /\ \A i \in 1..Len(s) : t[i] = s[i]
    BY <2>1, Appended
  <2> QED
    BY <1>1, <2>2, SamePrefix
<1>3. CASE \E d, e : t = Append(Append(s, d), e)
  <2>1. PICK d, e : t = Append(Append(s, d), e)
    BY <1>3
  <2>2. /\ Append(s, d) \in Seq(S \cup {d}) /\ Len(Append(s, d)) = Len(s) + 1
        /\ \A i \in 1..Len(s) : Append(s, d)[i] = s[i]
    OBVIOUS
  <2>3. /\ Len(t) = Len(Append(s, d)) + 1
        /\ \A i \in 1..Len(Append(s, d)) : t[i] = Append(s, d)[i]
    BY <2>1, <2>2, Appended
  <2>4. Len(s) <= Len(t) /\ \A i \in 1..Len(s) : t[i] = s[i]
    BY <1>1, <2>2, <2>3
  <2> QED
    BY <1>1, <2>4, SamePrefix
<1> QED
  BY <1>1, <1>2, <1>3

(* The records of the trace are only appended to. *)
LEMMA RecordsGrow ==
  ASSUME Inv, [Next]_vars
  PROVE  /\ SubSeq(toolCalls', 1, Len(toolCalls)) = toolCalls
         /\ SubSeq(stepEvents', 1, Len(stepEvents)) = stepEvents
         /\ SubSeq(outcomes', 1, Len(outcomes)) = outcomes
<1>1. /\ toolCalls \in Seq(ToolCallRecords) /\ toolCalls' \in Seq(ToolCallRecords)
      /\ stepEvents \in Seq(StepEventRecords) /\ stepEvents' \in Seq(StepEventRecords)
      /\ outcomes \in Seq(Ids \X ToolCallStatuses) /\ outcomes' \in Seq(Ids \X ToolCallStatuses)
  <2>1. TypeInv /\ TypeInv'
    BY TypeNext DEF Inv
  <2> QED
    BY <2>1 DEF TypeInv, TypeOK
<1>2. toolCalls' = toolCalls \/ \E e : toolCalls' = Append(toolCalls, e)
  <2>1. CASE CallTool
    BY <2>1 DEF CallTool
  <2>2. CASE ~CallTool
    BY <2>2, StepCases, GoingOn DEF Begin, SaveOutcome, OnSuccess, Stops, GivesUp, Balks, Rests,
       recordVars, traceVars
  <2> QED
    BY <2>1, <2>2
<1>3. \/ stepEvents' = stepEvents
      \/ \E e : stepEvents' = Append(stepEvents, e)
      \/ \E d, e : stepEvents' = Append(Append(stepEvents, d), e)
  <2>1. CASE SkipStep
    BY <2>1, SkipEvents DEF Inv
  <2>2. CASE OnSuccess \/ PatchAndRetry \/ ReplanRemaining \/ GivesUp
    BY <2>2 DEF OnSuccess, PatchAndRetry, ReplanRemaining, GivesUp
  <2>3. CASE Begin \/ CallTool \/ SaveOutcome \/ Stops \/ Balks \/ Rests
    BY <2>3 DEF Begin, CallTool, SaveOutcome, Stops, Balks, Rests, recordVars, traceVars
  <2> QED
    BY <2>1, <2>2, <2>3, StepCases
<1>4. outcomes' = outcomes \/ \E e : outcomes' = Append(outcomes, e)
  <2>1. CASE SaveOutcome
    BY <2>1 DEF SaveOutcome
  <2>2. CASE ~SaveOutcome
    BY <2>2, StepCases, GoingOn DEF Begin, CallTool, OnSuccess, Stops, GivesUp, Balks, Rests,
       recordVars, traceVars
  <2> QED
    BY <2>1, <2>2
<1> QED
  BY <1>1, <1>2, <1>3, <1>4, Extended

(* Once the plan was copied, the steps before the index stay as they are.  *)
LEMMA StepsBehindKept ==
  ASSUME Inv, [Next]_vars, pc # "start"
  PROVE  /\ stepIndex' \in {stepIndex, stepIndex + 1}
         /\ SubSeq(steps', 1, stepIndex) = SubSeq(steps, 1, stepIndex)
<1>1. /\ TypeInv /\ steps \in Seq(Steps) /\ steps' \in Seq(Steps)
      /\ stepIndex \in Nat /\ stepIndex <= Len(steps) /\ Len(steps) \in Nat
  <2>1. TypeInv /\ TypeInv'
    BY TypeNext DEF Inv
  <2>2. steps \in Seq(Steps) /\ steps' \in Seq(Steps) /\ stepIndex \in Nat
    BY <2>1 DEF TypeInv, TypeOK
  <2>3. stepIndex <= Len(steps)
    BY <2>1 DEF TypeInv, Handling
  <2> QED
    BY <2>1, <2>2, <2>3
<1>2. ASSUME steps' = steps
      PROVE  SubSeq(steps', 1, stepIndex) = SubSeq(steps, 1, stepIndex)
  BY <1>2
<1>3. ASSUME NEW x, steps' = [steps EXCEPT ![stepIndex + 1] = x]
      PROVE  SubSeq(steps', 1, stepIndex) = SubSeq(steps, 1, stepIndex)
  <2>1. Len(steps') = Len(steps) /\ \A i \in 1..stepIndex : steps'[i] = steps[i]
    BY <1>1, <1>3
  <2> QED
    BY <1>1, <2>1, SamePrefix
<1>4. CASE CallTool
  BY <1>3, <1>4 DEF CallTool
<1>5. CASE PatchAndRetry
  <2>1. steps' = [steps EXCEPT ![stepIndex + 1] =
                    [@ EXCEPT !.args = PatchedArgs(Current, FailureSignal.type)]]
    BY <1>5 DEF PatchAndRetry
  <2> QED
    BY <1>3, <1>5, <2>1 DEF PatchAndRetry
<1>6. CASE ReplanRemaining
  <2> DEFINE past == SubSeq(steps, 1, stepIndex)
  <2>1. steps' = past \o Answer /\ stepIndex' = stepIndex /\ pc = "saved"
    BY <1>6, GoingOn DEF ReplanRemaining, Replanned
  <2>2. past \in Seq(Steps) /\ Len(past) = stepIndex /\ Answer \in Seq(Steps)
    BY <1>1, <2>1, PrefixType, HandlingTypes
  <2>3. \A i \in 1..stepIndex : past[i] = steps[i]
    BY <1>1
  <2>4. /\ Len(past \o Answer) = stepIndex + Len(Answer) /\ Len(Answer) \in Nat
        /\ \A i \in 1..stepIndex : (past \o Answer)[i] = past[i]
    <3> HIDE DEF past
    <3> QED
      BY <2>2, Joined
  <2>5. stepIndex <= Len(steps') /\ \A i \in 1..stepIndex : steps'[i] = steps[i]
    BY <1>1, <2>1, <2>3, <2>4
  <2> QED
    BY <1>1, <2>1, <2>5, SamePrefix
<1>7. CASE OnSuccess \/ SkipStep
  BY <1>2, <1>7 DEF OnSuccess, SkipStep
<1>8. CASE SaveOutcome \/ Stops \/ GivesUp \/ Balks \/ Rests
  <2>1. UNCHANGED <<steps, stepIndex>>
    BY <1>8 DEF SaveOutcome, Stops, GivesUp, Balks, Rests, recordVars, loopVars
  <2> QED
    BY <1>2, <2>1
<1>9. CASE Begin
  BY <1>9 DEF Begin
<1> QED
  BY <1>4, <1>5, <1>6, <1>7, <1>8, <1>9, StepCases

(* Whatever is retried and replanned, no step left behind and no record of *)
(* the trace is touched again.                                             *)
THEOREM PastStaysFrozen == Spec => PastIsFrozen
<1>1. Inv /\ [Next]_vars =>
        [pc # "start" =>
           /\ stepIndex' \in {stepIndex, stepIndex + 1}
           /\ SubSeq(steps', 1, stepIndex) = SubSeq(steps, 1, stepIndex)
           /\ SubSeq(toolCalls', 1, Len(toolCalls)) = toolCalls
           /\ SubSeq(stepEvents', 1, Len(stepEvents)) = stepEvents
           /\ SubSeq(outcomes', 1, Len(outcomes)) = outcomes]_vars
  BY RecordsGrow, StepsBehindKept
<1> QED
  BY <1>1, Invariance, PTL DEF Spec, PastIsFrozen
=============================================================================
