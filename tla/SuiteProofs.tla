------------------------------ MODULE SuiteProofs ------------------------------
(***************************************************************************)
(* Theorems about the evaluation, for any scenarios, any number of rounds, *)
(* and exceptions anywhere: what a summary, its rows and the trace files   *)
(* say of one another, and that scenarios that ask for the same, with the  *)
(* same criteria spelled out, take the same course.                        *)
(***************************************************************************)
EXTENDS Suite, PipelineProofs

(* Whatever its elements are, s is a list of them. *)
IsList(s) == Len(s) \in Nat /\ s \in Seq({s[i] : i \in 1..Len(s)})

(* The scenarios of this round that have a result, and those with a row.   *)
Scored  == IF pc \in {"scored", "recorded", "summed"} THEN position ELSE position - 1
Entered == IF pc \in {"recorded", "summed"} THEN position ELSE position - 1

RowOf(r, n, result) == [round |-> r, position |-> n, passed |-> result.passed]

HasRow(row) == \E i \in 1..Len(rows) : rows[i] = row

(* A result is of a trace that scenario n left in round r. *)
IsResult(result, r, n) ==
  /\ result.trace \in 1..Len(traces)
  /\ traces[result.trace].round = r /\ traces[result.trace].position = n

Lists ==
  /\ IsList(traces) /\ IsList(results) /\ IsList(rows)
  /\ round \in Nat \ {0} /\ position \in 1..Len(Scenarios)
  /\ aborts \in Nat
  /\ \A n \in DOMAIN exports :
       /\ exports[n] \in 0..Len(traces)
       /\ exports[n] = 0 => aborts > 0

(* No two rows are of the same scenario in the same round, and none is of  *)
(* what has not been entered.                                              *)
RowsDiffer ==
  /\ \A i \in 1..Len(rows) :
       /\ rows[i].round \in 1..round /\ rows[i].position \in Nat
       /\ rows[i].round = round /\ pc # "aborted" => rows[i].position <= Entered
  /\ \A i, j \in 1..Len(rows) :
       rows[i].round = rows[j].round /\ rows[i].position = rows[j].position => i = j

(* A round that goes on has a result, a file and a row for each scenario   *)
(* it is through with.                                                     *)
Ongoing ==
  /\ Len(results) = Scored
  /\ \A n \in 1..Len(results) :
       /\ IsResult(results[n], round, n)
       /\ n \in DOMAIN exports /\ exports[n] = results[n].trace
  /\ \A n \in 1..Entered : HasRow(RowOf(round, n, results[n]))
  /\ pc \in {"kept", "exported"} =>
       /\ Len(traces) > 0
       /\ traces[Len(traces)].round = round /\ traces[Len(traces)].position = position
  /\ pc = "exported" => position \in DOMAIN exports /\ exports[position] = Len(traces)
  /\ pc = "summed" => position = Len(Scenarios)

(* What was summed up stays, but that later rounds replace trace files or  *)
(* cut one off.                                                            *)
SummedUp ==
  /\ summary.round \in 0..round
  /\ summary.round > 0 =>
       /\ Len(summary.results) = Len(Scenarios)
       /\ summary.round = round => pc = "summed"
       /\ \A n \in 1..Len(Scenarios) :
            /\ IsResult(summary.results[n], summary.round, n)
            /\ HasRow(RowOf(summary.round, n, summary.results[n]))
            /\ n \in DOMAIN exports
            /\ exports[n] >= summary.results[n].trace \/ (exports[n] = 0 /\ aborts > 0)
            /\ summary.round = round => exports[n] = summary.results[n].trace

SuiteInv == Lists /\ RowsDiffer /\ (pc # "aborted" => Ongoing) /\ SummedUp

-----------------------------------------------------------------------------

LEMMA ListAppended ==
  ASSUME NEW s, NEW e, IsList(s)
  PROVE  /\ IsList(Append(s, e)) /\ Len(Append(s, e)) = Len(s) + 1
         /\ Append(s, e)[Len(s) + 1] = e
         /\ \A i \in 1..Len(s) : Append(s, e)[i] = s[i]
<1> DEFINE S == {s[i] : i \in 1..Len(s)} \cup {e}
           t == Append(s, e)
<1>1. s \in Seq(S) /\ e \in S
  BY DEF IsList
<1>2. /\ t \in Seq(S) /\ Len(t) = Len(s) + 1 /\ t[Len(s) + 1] = e
      /\ \A i \in 1..Len(s) : t[i] = s[i]
  BY <1>1
<1>3. t \in Seq({t[i] : i \in 1..Len(t)})
  <2> HIDE DEF S, t
  <2>1. Len(t) \in Nat /\ DOMAIN t = 1..Len(t) /\ t = [i \in DOMAIN t |-> t[i]]
    BY <1>2
  <2> QED
    BY <2>1, SeqDef
<1>4. Len(t) \in Nat
  <2> HIDE DEF S, t
  <2> QED
    BY <1>2
<1>5. IsList(t)
  <2> HIDE DEF S, t
  <2> QED
    BY <1>3, <1>4 DEF IsList
<1> QED
  BY <1>2, <1>5

LEMMA EmptyList == IsList(<< >>) /\ Len(<< >>) = 0
  BY DEF IsList

(* While a scenario runs the runner is where it was. *)
Inside == {"start", "head", "called", "saved", "done", "rejected"}

LEMMA RunIsInside ==
  ASSUME RunScenario
  PROVE  /\ pc \in Inside /\ pc' \in Inside
         /\ UNCHANGED <<round, position, traces, roundVars>>
<1>1. BeginAccepted \/ RejectPlan => pc \in Inside /\ pc' \in Inside
  BY DEF BeginAccepted, RejectPlan, Begin, Inside
<1>2. CallServer => pc \in Inside /\ pc' \in Inside
  BY DEF CallServer, CallTool, Inside
<1>3. Proceed => pc \in Inside /\ pc' \in Inside
  BY DEF Proceed, StopOnSuccess, StopOnMaxSteps, StopOnBudget, SaveOutcome, OnSuccess,
     StopNonProgress, StopMaxRetries, PatchAndRetry, ReplanRemaining, SkipStep, Abort,
     Chosen, Decided, Failed, PlanExhausted, Finish, Inside
<1> QED
  BY <1>1, <1>2, <1>3 DEF RunScenario

LEMMA SuiteInvInit == SuiteInit => SuiteInv
<1> SUFFICES ASSUME SuiteInit PROVE SuiteInv
  OBVIOUS
<1>1. /\ pc = "start" /\ round = 1 /\ position = 1 /\ summary.round = 0
      /\ traces = << >> /\ results = << >> /\ rows = << >> /\ DOMAIN exports = {} /\ aborts = 0
  BY DEF SuiteInit, Unstarted, NoCounts, NoSummary
<1>2. Lists
  BY <1>1, EmptyList, SuiteAssumption DEF Lists
<1>3. RowsDiffer /\ SummedUp
  BY <1>1, EmptyList DEF RowsDiffer, SummedUp
<1>4. Ongoing
  BY <1>1, EmptyList DEF Ongoing, Scored, Entered
<1> QED
  BY <1>2, <1>3, <1>4 DEF SuiteInv

(* Nothing the invariant speaks of changes. *)
Idle == UNCHANGED <<round, position, traces, roundVars>>

LEMMA IdleStep ==
  ASSUME SuiteInv, Idle, (pc \in Inside /\ pc' \in Inside) \/ pc' = pc
  PROVE  SuiteInv'
<1>1. UNCHANGED <<round, position, traces, exports, results, rows, summary, aborts>>
  BY DEF Idle, roundVars
<1>2. UNCHANGED <<Scored, Entered>> /\ (pc' = "aborted" <=> pc = "aborted")
      /\ (pc' \in {"kept", "exported", "summed"} => pc' = pc)
      /\ (pc = "summed" => pc' = pc)
  BY <1>1 DEF Scored, Entered, Inside
<1>3. Lists' /\ RowsDiffer'
  BY <1>1, <1>2 DEF SuiteInv, Lists, RowsDiffer
<1>4. pc' # "aborted" => Ongoing'
  BY <1>1, <1>2 DEF SuiteInv, Ongoing, IsResult, HasRow, RowOf
<1>5. SummedUp'
  BY <1>1, <1>2 DEF SuiteInv, SummedUp, IsResult, HasRow, RowOf
<1> QED
  BY <1>3, <1>4, <1>5 DEF SuiteInv

LEMMA KeepTraceStep ==
  ASSUME SuiteInv, KeepTrace
  PROVE  SuiteInv'
<1>1. /\ pc \in Inside /\ pc' = "kept"
      /\ UNCHANGED <<round, position, exports, results, rows, summary, aborts>>
  BY DEF KeepTrace, Over, Inside, runnerUnchanged, roundVars
<1>2. UNCHANGED <<Scored, Entered>>
  BY <1>1 DEF Scored, Entered, Inside
<1> DEFINE t == [round |-> round, position |-> position, status |-> status,
                 reason |-> stopReason, tokens |-> Tokens, texts |-> TraceNotes,
                 mentioned |-> job.mentioned, entry |-> EntryTokens]
<1>3. t.round = round /\ t.position = position /\ traces' = Append(traces, t)
  BY DEF KeepTrace
<1> HIDE DEF t
<1>4. /\ IsList(traces') /\ Len(traces') = Len(traces) + 1 /\ Len(traces) \in Nat
      /\ traces'[Len(traces) + 1] = t
      /\ \A i \in 1..Len(traces) : i \in 1..Len(traces') /\ traces'[i] = traces[i]
  <2>1. IsList(traces)
    BY DEF SuiteInv, Lists
  <2>2. Len(traces) \in Nat
    BY <2>1 DEF IsList
  <2>3. /\ IsList(traces') /\ Len(traces') = Len(traces) + 1
        /\ traces'[Len(traces) + 1] = t
        /\ \A i \in 1..Len(traces) : traces'[i] = traces[i]
    BY <1>3, <2>1, ListAppended
  <2> QED
    BY <2>2, <2>3
<1>5. \A result, r, n : IsResult(result, r, n) => IsResult(result, r, n)'
  BY <1>4 DEF IsResult
<1>6. Lists' /\ RowsDiffer'
  BY <1>1, <1>2, <1>4 DEF SuiteInv, Lists, RowsDiffer, Inside
<1>7. Ongoing'
  BY <1>1, <1>2, <1>3, <1>4, <1>5 DEF SuiteInv, Ongoing, HasRow, RowOf, Inside
<1>8. SummedUp'
  BY <1>1, <1>5 DEF SuiteInv, SummedUp, HasRow, RowOf, Inside
<1> QED
  BY <1>6, <1>7, <1>8 DEF SuiteInv

(* The file of this scenario now holds its newest trace. *)
LEMMA ExportTraceStep ==
  ASSUME SuiteInv, ExportTrace
  PROVE  SuiteInv'
<1>1. /\ pc = "kept" /\ pc' = "exported"
      /\ UNCHANGED <<round, position, traces, results, rows, summary, aborts>>
  BY DEF ExportTrace, runnerUnchanged
<1>2. /\ DOMAIN exports' = DOMAIN exports \cup {position}
      /\ exports'[position] = Len(traces)
      /\ \A n \in DOMAIN exports \ {position} : exports'[n] = exports[n]
  BY DEF ExportTrace, Written
<1>3. UNCHANGED <<Scored, Entered>> /\ Scored = position - 1
  BY <1>1 DEF Scored, Entered
<1>4. Len(traces) \in Nat /\ Len(traces) > 0 /\ position \in 1..Len(Scenarios)
  BY <1>1 DEF SuiteInv, Lists, Ongoing, IsList
<1>5. Lists' /\ RowsDiffer'
  BY <1>1, <1>2, <1>3, <1>4 DEF SuiteInv, Lists, RowsDiffer
<1>6. Ongoing'
  BY <1>1, <1>2, <1>3, <1>4 DEF SuiteInv, Ongoing, IsResult, HasRow, RowOf
<1>7. SummedUp'
  BY <1>1, <1>2, <1>4 DEF SuiteInv, SummedUp, IsResult, HasRow, RowOf
<1> QED
  BY <1>5, <1>6, <1>7 DEF SuiteInv

LEMMA ScoreTraceStep ==
  ASSUME SuiteInv, ScoreTrace
  PROVE  SuiteInv'
<1>1. /\ pc = "exported" /\ pc' = "scored"
      /\ UNCHANGED <<round, position, traces, exports, rows, summary, aborts>>
  BY DEF ScoreTrace, runnerUnchanged
<1>2. PICK r : r.trace = Len(traces) /\ results' = Append(results, r)
  BY DEF ScoreTrace
<1>3. Scored = position - 1 /\ Scored' = position /\ Entered = position - 1 /\ Entered' = Entered
  BY <1>1 DEF Scored, Entered
<1>4. position \in 1..Len(Scenarios) /\ Len(results) = position - 1
  BY <1>1, <1>3 DEF SuiteInv, Lists, Ongoing
<1>5. /\ IsList(results') /\ Len(results') = position /\ results'[position] = r
      /\ \A n \in 1..(position - 1) : results'[n] = results[n]
  BY <1>2, <1>4, ListAppended DEF SuiteInv, Lists
<1>6. Lists' /\ RowsDiffer'
  BY <1>1, <1>3, <1>5 DEF SuiteInv, Lists, RowsDiffer
<1>7. Ongoing'
  <2>1. /\ IsResult(r, round, position) /\ position \in DOMAIN exports
        /\ exports[position] = r.trace
    BY <1>1, <1>2 DEF SuiteInv, Lists, IsList, Ongoing, IsResult
  <2>2. \A n \in 1..(position - 1) : /\ IsResult(results[n], round, n)
                                     /\ n \in DOMAIN exports /\ exports[n] = results[n].trace
                                     /\ HasRow(RowOf(round, n, results[n]))
    BY <1>1, <1>3, <1>4 DEF SuiteInv, Ongoing
  <2>3. \A result, n : IsResult(result, round, n)' <=> IsResult(result, round, n)
    BY <1>1 DEF IsResult
  <2>4. \A n \in 1..position : n = position \/ n \in 1..(position - 1)
    BY <1>4
  <2>5. \A n \in 1..position : IsResult(results'[n], round, n)
                               /\ n \in DOMAIN exports /\ exports[n] = results'[n].trace
    BY <1>5, <2>1, <2>2, <2>4
  <2>6. \A n \in 1..(position - 1) :
          \E i \in 1..Len(rows) : rows[i] = RowOf(round, n, results'[n])
    BY <1>5, <2>2 DEF HasRow, RowOf
  <2> QED
    BY <1>1, <1>3, <1>5, <2>3, <2>5, <2>6 DEF Ongoing, HasRow, RowOf
<1>8. SummedUp'
  BY <1>1 DEF SuiteInv, SummedUp, IsResult, HasRow, RowOf
<1> QED
  BY <1>6, <1>7, <1>8 DEF SuiteInv

LEMMA SaveEvalResultStep ==
  ASSUME SuiteInv, SaveEvalResult
  PROVE  SuiteInv'
<1> DEFINE row == RowOf(round, position, results[Len(results)])
<1>1. /\ pc = "scored" /\ pc' = "recorded"
      /\ UNCHANGED <<round, position, traces, exports, results, summary, aborts>>
      /\ rows' = Append(rows, row)
  BY DEF SaveEvalResult, runnerUnchanged, RowOf
<1>2. Scored = position /\ Scored' = position /\ Entered = position - 1 /\ Entered' = position
  BY <1>1 DEF Scored, Entered
<1>3. /\ position \in 1..Len(Scenarios) /\ round \in Nat \ {0}
      /\ Len(results) = position /\ IsList(rows)
  BY <1>1, <1>2 DEF SuiteInv, Lists, Ongoing
<1>4. Len(rows) \in Nat
  BY <1>3 DEF IsList
<1>5. row.round = round /\ row.position = position /\ row = RowOf(round, position, results[position])
  BY <1>3 DEF RowOf
<1> HIDE DEF row
<1>6. /\ IsList(rows') /\ Len(rows') = Len(rows) + 1 /\ rows'[Len(rows) + 1] = row
      /\ \A i \in 1..Len(rows) : rows'[i] = rows[i]
  BY <1>1, <1>3, ListAppended
<1>7. \A r : HasRow(r) => \E i \in 1..Len(rows') : rows'[i] = r
  BY <1>4, <1>6 DEF HasRow
<1>8. Lists'
  BY <1>1, <1>6 DEF SuiteInv, Lists
<1>9. RowsDiffer'
  <2>1. \A i \in 1..Len(rows) : /\ rows[i].round \in 1..round /\ rows[i].position \in Nat
                                /\ rows[i].round = round => rows[i].position <= position - 1
    BY <1>1, <1>2 DEF SuiteInv, RowsDiffer
  <2>2. \A i \in 1..Len(rows') : i = Len(rows) + 1 \/ i \in 1..Len(rows)
    BY <1>4, <1>6
  <2>3. \A i \in 1..Len(rows') : /\ rows'[i].round \in 1..round /\ rows'[i].position \in Nat
                                 /\ rows'[i].round = round => rows'[i].position <= position
    BY <1>3, <1>5, <1>6, <2>1, <2>2
  <2>4. ASSUME NEW i \in 1..Len(rows'), NEW j \in 1..Len(rows'),
               rows'[i].round = rows'[j].round, rows'[i].position = rows'[j].position
        PROVE  i = j
    <3>1. CASE i \in 1..Len(rows) /\ j \in 1..Len(rows)
      BY <1>6, <2>4, <3>1 DEF SuiteInv, RowsDiffer
    <3>2. CASE i = Len(rows) + 1 \/ j = Len(rows) + 1
      BY <1>3, <1>5, <1>6, <2>1, <2>2, <2>4, <3>2
    <3> QED
      BY <2>2, <3>1, <3>2
  <2> QED
    BY <1>1, <1>2, <2>3, <2>4 DEF RowsDiffer
<1>10. Ongoing'
  <2>1. /\ \A n \in 1..(position - 1) : HasRow(RowOf(round, n, results[n]))
        /\ \A n \in 1..Len(results) :
             /\ IsResult(results[n], round, n)
             /\ n \in DOMAIN exports /\ exports[n] = results[n].trace
    BY <1>1, <1>2 DEF SuiteInv, Ongoing
  <2>2. \A n \in 1..position : \E i \in 1..Len(rows') : rows'[i] = RowOf(round, n, results[n])
    <3>1. TAKE n \in 1..position
    <3>2. CASE n = position
      BY <1>4, <1>5, <1>6, <3>2
    <3>3. CASE n \in 1..(position - 1)
      BY <1>7, <2>1, <3>3
    <3> QED
      BY <1>3, <3>2, <3>3
  <2>3. \A n \in 1..Len(results) : IsResult(results[n], round, n)'
    BY <1>1, <2>1 DEF IsResult
  <2>4. \A n : RowOf(round, n, results[n])' = RowOf(round, n, results[n])
    BY <1>1 DEF RowOf
  <2> QED
    BY <1>1, <1>2, <1>3, <2>1, <2>2, <2>3, <2>4 DEF Ongoing, HasRow
<1>11. SummedUp'
  <2>1. \A r, n, result : HasRow(RowOf(r, n, result)) => HasRow(RowOf(r, n, result))'
    BY <1>7 DEF HasRow, RowOf
  <2> QED
    BY <1>1, <2>1 DEF SuiteInv, SummedUp, IsResult
<1> QED
  BY <1>8, <1>9, <1>10, <1>11 DEF SuiteInv

LEMMA ExportSummaryStep ==
  ASSUME SuiteInv, ExportSummary
  PROVE  SuiteInv'
<1>1. /\ pc = "recorded" /\ pc' = "summed" /\ position = Len(Scenarios)
      /\ UNCHANGED <<round, position, traces, exports, results, rows, aborts>>
      /\ summary'.round = round /\ summary'.results = results
  BY DEF ExportSummary, runnerUnchanged
<1>2. /\ Scored = position /\ Entered = position /\ UNCHANGED <<Scored, Entered>>
  BY <1>1 DEF Scored, Entered
<1>3. Lists' /\ RowsDiffer'
  BY <1>1, <1>2 DEF SuiteInv, Lists, RowsDiffer
<1>4. Ongoing'
  BY <1>1, <1>2 DEF SuiteInv, Ongoing, IsResult, HasRow, RowOf
<1>5. SummedUp'
  <2>1. /\ Len(results) = Len(Scenarios) /\ round \in Nat \ {0} /\ Len(Scenarios) \in Nat
        /\ \A n \in 1..Len(results) :
             /\ IsResult(results[n], round, n)
             /\ n \in DOMAIN exports /\ exports[n] = results[n].trace
             /\ exports[n] \in 0..Len(traces) /\ exports[n] >= results[n].trace
             /\ HasRow(RowOf(round, n, results[n]))
    BY <1>1, <1>2, SuiteAssumption DEF SuiteInv, Lists, Ongoing
  <2>2. \A r, n, result : /\ HasRow(RowOf(r, n, result))' <=> HasRow(RowOf(r, n, result))
                          /\ IsResult(result, r, n)' <=> IsResult(result, r, n)
    BY <1>1 DEF HasRow, RowOf, IsResult
  <2> QED
    BY <1>1, <2>1, <2>2 DEF SummedUp
<1> QED
  BY <1>3, <1>4, <1>5 DEF SuiteInv

LEMMA RunnerRaisesStep ==
  ASSUME SuiteInv, RunnerRaises
  PROVE  SuiteInv'
<1>1. /\ pc \notin {"aborted", "summed"} /\ pc' = "aborted" /\ aborts' = aborts + 1
      /\ UNCHANGED <<round, position, traces, results, rows>>
      /\ summary' = summary \/ summary'.round = 0
  BY DEF RunnerRaises, runnerUnchanged, NoSummary
<1>2. /\ DOMAIN exports \subseteq DOMAIN exports'
      /\ \A n \in DOMAIN exports' :
           (n \in DOMAIN exports /\ exports'[n] = exports[n]) \/ exports'[n] = 0
  BY DEF RunnerRaises, Written
<1>3. aborts \in Nat /\ aborts' > 0 /\ aborts' \in Nat /\ Len(traces) \in Nat
      /\ round \in Nat \ {0}
  BY <1>1 DEF SuiteInv, Lists, IsList
<1>4. Lists'
  BY <1>1, <1>2, <1>3 DEF SuiteInv, Lists
<1>5. RowsDiffer'
  BY <1>1 DEF SuiteInv, RowsDiffer
<1>6. SummedUp'
  <2>1. CASE summary' = summary
    <3>1. summary.round # round
      BY <1>1, <1>3 DEF SuiteInv, SummedUp
    <3>2. ASSUME NEW n \in 1..Len(Scenarios), summary.round > 0
          PROVE  /\ n \in DOMAIN exports'
                 /\ exports'[n] >= summary.results[n].trace \/ (exports'[n] = 0 /\ aborts' > 0)
      <4>1. /\ n \in DOMAIN exports
            /\ exports[n] >= summary.results[n].trace \/ exports[n] = 0
        BY <3>2 DEF SuiteInv, SummedUp
      <4> QED
        BY <1>2, <1>3, <4>1
    <3>3. summary.round \in 0..round /\ UNCHANGED <<summary, round, traces, rows>>
      BY <1>1, <2>1 DEF SuiteInv, SummedUp
    <3>4. summary.round > 0 =>
            /\ Len(summary.results) = Len(Scenarios)
            /\ \A n \in 1..Len(Scenarios) :
                 /\ IsResult(summary.results[n], summary.round, n)'
                 /\ HasRow(RowOf(summary.round, n, summary.results[n]))'
      BY <3>3 DEF SuiteInv, SummedUp, IsResult, HasRow, RowOf
    <3> QED
      BY <3>1, <3>2, <3>3, <3>4 DEF SummedUp
  <2>2. CASE summary'.round = 0
    BY <1>1, <1>3, <2>2 DEF SummedUp
  <2> QED
    BY <1>1, <2>1, <2>2
<1> QED
  BY <1>1, <1>4, <1>5, <1>6 DEF SuiteInv

LEMMA NextScenarioStep ==
  ASSUME SuiteInv, NextScenario
  PROVE  SuiteInv'
<1>1. /\ pc = "recorded" /\ pc' = "start" /\ position < Len(Scenarios)
      /\ position' = position + 1
      /\ UNCHANGED <<round, traces, exports, results, rows, summary, aborts>>
  BY DEF NextScenario, Another, ExecutorAnewFor
<1>2. position \in 1..Len(Scenarios)
  BY DEF SuiteInv, Lists
<1>3. Scored' = Scored /\ Entered' = Entered
  BY <1>1, <1>2 DEF Scored, Entered
<1>4. Lists' /\ RowsDiffer'
  BY <1>1, <1>2, <1>3, SuiteAssumption DEF SuiteInv, Lists, RowsDiffer
<1>5. Ongoing'
  BY <1>1, <1>3 DEF SuiteInv, Ongoing, IsResult, HasRow, RowOf
<1>6. SummedUp'
  BY <1>1 DEF SuiteInv, SummedUp, IsResult, HasRow, RowOf
<1> QED
  BY <1>4, <1>5, <1>6 DEF SuiteInv

LEMMA NextRoundStep ==
  ASSUME SuiteInv, NextRound
  PROVE  SuiteInv'
<1>1. /\ pc' = "start" /\ position' = 1 /\ round' = round + 1 /\ results' = << >>
      /\ UNCHANGED <<traces, exports, rows, summary, aborts>>
  BY DEF NextRound, ExecutorAnewFor
<1>2. Scored' = 0 /\ Entered' = 0 /\ round \in Nat \ {0}
  BY <1>1 DEF Scored, Entered, SuiteInv, Lists
<1>3. Lists'
  BY <1>1, <1>2, EmptyList, SuiteAssumption DEF SuiteInv, Lists
<1>4. RowsDiffer'
  BY <1>1, <1>2 DEF SuiteInv, RowsDiffer
<1>5. Ongoing'
  BY <1>1, <1>2, EmptyList DEF Ongoing
<1>6. SummedUp'
  BY <1>1, <1>2 DEF SuiteInv, SummedUp, IsResult, HasRow, RowOf
<1> QED
  BY <1>3, <1>4, <1>5, <1>6 DEF SuiteInv

LEMMA SuiteInvNext == SuiteInv /\ [SuiteNext]_suiteVars => SuiteInv'
<1> SUFFICES ASSUME SuiteInv, [SuiteNext]_suiteVars PROVE SuiteInv'
  OBVIOUS
<1>1. CASE RunScenario
  BY <1>1, RunIsInside, IdleStep DEF Idle
<1>2. CASE SuiteEnded \/ UNCHANGED suiteVars
  BY <1>2, IdleStep DEF SuiteEnded, suiteVars, pipelineVars, vars, Idle
<1> QED
  BY <1>1, <1>2, KeepTraceStep, ExportTraceStep, ScoreTraceStep, SaveEvalResultStep,
     ExportSummaryStep, RunnerRaisesStep, NextScenarioStep, NextRoundStep DEF SuiteNext

(* A summary is of one whole round: each of its results is of a trace that *)
(* its scenario left in it and has exactly one row in eval_results; trace  *)
(* files are those it was made from until later rounds, aborted ones       *)
(* included, replace them by newer ones or, aborted, cut one off.          *)
THEOREM SummariesAreOfTheirRound == SuiteSpec => []SummaryIsOfItsRound
<1>1. SuiteInv => SummaryIsOfItsRound
  <2> SUFFICES ASSUME SuiteInv, summary.round > 0 PROVE SummaryIsOfItsRound
    BY DEF SummaryIsOfItsRound
  <2>1. ASSUME NEW n \in 1..Len(Scenarios)
        PROVE  Cardinality({i \in 1..Len(rows) :
                 rows[i] = RowOf(summary.round, n, summary.results[n])}) = 1
    <3> DEFINE row == RowOf(summary.round, n, summary.results[n])
    <3>1. PICK k \in 1..Len(rows) : rows[k] = row
      BY DEF SuiteInv, SummedUp, HasRow
    <3>2. \A i \in 1..Len(rows) : rows[i] = row => i = k
      BY <3>1 DEF SuiteInv, RowsDiffer
    <3>3. {i \in 1..Len(rows) : rows[i] = row} = {k}
      BY <3>1, <3>2
    <3> QED
      BY <3>3, FS_Singleton
  <2> QED
    BY <2>1 DEF SuiteInv, SummedUp, SummaryIsOfItsRound, IsResult, RowOf
<1> QED
  BY <1>1, SuiteInvInit, SuiteInvNext, PTL DEF SuiteSpec

-----------------------------------------------------------------------------
(* Scenarios that ask for the same, with the same criteria spelled out,    *)
(* take the same course.                                                   *)

(* The words of the trace of a run that ended in state x. *)
WordsOf(x) ==
  LET events == {x.events[i] : i \in 1..Len(x.events)}
      missed == {x.calls[i].status : i \in 1..Len(x.calls)} \ {"success"}
  IN  {x.status, x.reason}
      \cup {e.status : e \in events} \cup {e.action : e \in events}
      \cup {e.failure : e \in events}
      \cup {Head(EvaluateToolCall(st, FALSE)).type : st \in missed}

(* The course of a run of scenario n that ends in state x. *)
CourseOf(x, n) ==
  [status |-> x.status, reason |-> x.reason, tokens |-> WordsOf(x),
   texts |-> {text \in {"replanned malformed endpoint"} :
                NotesExchange(ScenarioAt(n).goal, ScenarioAt(n).config, "none")}]

(* Each trace is of the one end its scenario's job has, unless the counter *)
(* was spent.                                                              *)
Foreseen ==
  \A m \in 1..Len(traces) :
    LET t == traces[m]
    IN  ~CounterSpent(t) =>
          Course(t) = CourseOf(EndOf(JobOf(t.position, t.mentioned)), t.position)

(* The runner is in a scenario's run, or past it. *)
Conducted ==
  /\ position \in 1..Len(Scenarios) /\ IsList(traces)
  /\ \A m \in 1..Len(traces) : traces[m].position \in 1..Len(Scenarios)
  /\ job = JobOf(position, job.mentioned) /\ run = JobRun(job) /\ IsCounter(hits, Urls)
  /\ pc \in Inside => Underway /\ Sourced

(* Its run is the replay of its job. *)
Repeating == pc \in Inside => Replayed

LEMMA ScenarioBegins ==
  Beginning /\ IsCounter(hits, Urls) => Underway /\ Sourced /\ Replayed
  BY UnderwayStart, SourcedStart, ReplayedStart

LEMMA ConductedInit == SuiteInit => Conducted /\ Repeating
<1> SUFFICES ASSUME SuiteInit PROVE Conducted /\ Repeating
  OBVIOUS
<1>1. 1 \in 1..Len(Scenarios)
  BY SuiteAssumption
<1>2. /\ job = JobOf(1, ScenarioAt(1).spells) /\ job.mentioned = ScenarioAt(1).spells
      /\ position = 1 /\ traces = << >>
  BY DEF SuiteInit, JobOf
<1>3. job \in Jobs
  BY <1>1, <1>2, ScenarioJobs DEF Spelled
<1>4. Beginning /\ IsCounter(hits, Urls)
  BY <1>3, HitsAssumption DEF SuiteInit, Beginning
<1> QED
  BY <1>1, <1>2, <1>4, ScenarioBegins, EmptyList DEF Conducted, Repeating, Beginning

LEMMA ForeseenInit == SuiteInit => Foreseen
  BY EmptyList DEF SuiteInit, Foreseen

(* What is recalled is on record. *)
LEMMA RecalledOnRecord ==
  ASSUME NEW n, IsList(traces)
  PROVE  Recalled(n) \subseteq 1..Len(traces)
<1> DEFINE numbers == [i \in 1..Len(traces) |-> i]
<1>1. Len(numbers) = Len(traces) /\ \A i \in 1..Len(traces) : numbers[i] = i
  BY DEF IsList
<1> HIDE DEF numbers
<1>2. \A score, limit : RetrieveMemory(numbers, score, limit) \subseteq 1..Len(traces)
  BY <1>1 DEF RetrieveMemory, Newest
<1> QED
  BY <1>2 DEF Recalled, numbers

LEMMA JobsAreJobs ==
  ASSUME Conducted, NEW n \in 1..Len(Scenarios)
  PROVE  JobAt(n) \in Jobs /\ JobAt(n) = JobOf(n, JobAt(n).mentioned)
<1>1. \A i \in Recalled(n) : ScenarioAt(traces[i].position).spells \subseteq Spelled
  BY RecalledOnRecord DEF Conducted, Spelled
<1>2. MentionedIn(n, Recalled(n)) \subseteq Spelled
  BY <1>1 DEF MentionedIn, Spelled
<1> QED
  BY <1>2, ScenarioJobs DEF JobAt, JobOf

LEMMA AnotherBegins ==
  ASSUME Conducted, NextScenario \/ NextRound
  PROVE  Beginning' /\ UNCHANGED <<hits, traces>> /\ position' \in 1..Len(Scenarios)
         /\ job' = JobOf(position', job'.mentioned)
<1>1. PICK n \in 1..Len(Scenarios) : ExecutorAnewFor(n) /\ Forgotten
  BY SuiteAssumption DEF NextScenario, NextRound, Another, Conducted
<1>2. /\ position' = n /\ job' = JobAt(n) /\ run' = JobRun(job') /\ UNCHANGED <<hits, traces>>
      /\ Unstarted'
  BY <1>1 DEF ExecutorAnewFor, Forgotten, Unstarted
<1>3. job' \in Jobs /\ job' = JobOf(n, job'.mentioned)
  BY <1>2, JobsAreJobs
<1>4. Beginning'
  BY <1>2, <1>3 DEF Beginning
<1> QED
  BY <1>2, <1>3, <1>4

LEMMA TracesAreOfScenarios ==
  ASSUME SuiteInv', Conducted, [SuiteNext]_suiteVars
  PROVE  /\ position' \in 1..Len(Scenarios) /\ IsList(traces)'
         /\ \A m \in 1..Len(traces') : traces'[m].position \in 1..Len(Scenarios)
<1>1. position' \in 1..Len(Scenarios) /\ IsList(traces)'
  BY DEF SuiteInv, Lists, IsList
<1>2. CASE UNCHANGED traces
  BY <1>1, <1>2 DEF Conducted
<1>3. CASE KeepTrace
  <2>1. PICK t : t.position = position /\ traces' = Append(traces, t)
    BY <1>3 DEF KeepTrace
  <2>2. /\ Len(traces) \in Nat /\ Len(traces') = Len(traces) + 1 /\ traces'[Len(traces) + 1] = t
        /\ \A i \in 1..Len(traces) : traces'[i] = traces[i]
    BY <2>1, ListAppended DEF Conducted, IsList
  <2>3. \A i \in 1..Len(traces') : i = Len(traces) + 1 \/ i \in 1..Len(traces)
    BY <2>2
  <2> QED
    BY <1>1, <2>1, <2>2, <2>3 DEF Conducted
<1> QED
  BY <1>2, <1>3, RunIsInside DEF SuiteNext, ExportTrace, ScoreTrace, SaveEvalResult,
     ExportSummary, RunnerRaises, NextScenario, NextRound, ExecutorAnewFor, SuiteEnded,
     suiteVars

LEMMA ConductedNext ==
  ASSUME SuiteInv, SuiteInv', Conducted, [SuiteNext]_suiteVars
  PROVE  Conducted'
<1>0. position' \in 1..Len(Scenarios) /\ IsList(traces)'
      /\ \A m \in 1..Len(traces') : traces'[m].position \in 1..Len(Scenarios)
  BY TracesAreOfScenarios
<1>1. CASE RunScenario
  <2>1. [PipelineNext]_pipelineVars /\ pc \in Inside /\ UNCHANGED position
    BY <1>1, RunIsInside DEF RunScenario, PipelineNext
  <2>2. Underway /\ Sourced
    BY <2>1 DEF Conducted
  <2>3. Underway' /\ Sourced'
    BY <2>1, <2>2, UnderwayNext, SourcedStep
  <2>4. job' = job /\ IsCounter(hits, Urls)'
    BY <2>1, PipelineSteps, HitsNext DEF Conducted
  <2> QED
    BY <1>0, <2>1, <2>3, <2>4 DEF Conducted, Underway
<1>2. CASE NextScenario \/ NextRound
  <2>1. Beginning' /\ UNCHANGED hits /\ job' = JobOf(position', job'.mentioned)
    BY <1>2, AnotherBegins
  <2>2. IsCounter(hits, Urls)'
    BY <2>1 DEF Conducted, IsCounter
  <2>3. (Beginning /\ IsCounter(hits, Urls))' => (Underway /\ Sourced /\ Replayed)'
    BY ScenarioBegins, PTL
  <2> QED
    BY <1>0, <2>1, <2>2, <2>3 DEF Conducted, Beginning
<1>3. CASE UNCHANGED suiteVars
  <2>1. UNCHANGED <<pipelineVars, position, pc>>
    BY <1>3 DEF suiteVars, pipelineVars, vars
  <2>2. pc \in Inside => Underway' /\ Sourced'
    BY <2>1, UnderwayNext, SourcedStep DEF Conducted
  <2> QED
    BY <1>0, <1>3, <2>1, <2>2 DEF Conducted, suiteVars, pipelineVars, vars, IsCounter
<1>4. ASSUME pc' \notin Inside, UNCHANGED <<run, job, hits, position>>
      PROVE  Conducted'
  BY <1>0, <1>4 DEF Conducted, IsCounter
<1>5. CASE KeepTrace \/ ExportTrace \/ ScoreTrace \/ SaveEvalResult \/ ExportSummary \/ RunnerRaises
  BY <1>4, <1>5 DEF KeepTrace, ExportTrace, ScoreTrace, SaveEvalResult, ExportSummary,
     RunnerRaises, runnerUnchanged, Inside
<1>6. CASE SuiteEnded
  BY <1>3, <1>6 DEF SuiteEnded
<1> QED
  BY <1>1, <1>2, <1>3, <1>5, <1>6 DEF SuiteNext

LEMMA RepeatingNext ==
  ASSUME OnlyLocal, Untied, Conducted, Repeating, [SuiteNext]_suiteVars
  PROVE  Repeating'
<1>1. ASSUME [PipelineNext]_pipelineVars, pc \in Inside
      PROVE  Replayed'
  BY <1>1, ReplayedNext DEF Conducted, Repeating
<1>2. CASE RunScenario
  BY <1>1, <1>2, RunIsInside DEF RunScenario, PipelineNext, Repeating
<1>3. CASE NextScenario \/ NextRound
  <2>1. Beginning' /\ UNCHANGED hits
    BY <1>3, AnotherBegins
  <2>2. IsCounter(hits, Urls)'
    BY <2>1 DEF Conducted, IsCounter
  <2>3. (Beginning /\ IsCounter(hits, Urls))' => (Underway /\ Sourced /\ Replayed)'
    BY ScenarioBegins, PTL
  <2> QED
    BY <2>1, <2>2, <2>3 DEF Repeating
<1>4. CASE UNCHANGED suiteVars
  BY <1>1, <1>4 DEF Repeating, suiteVars, pipelineVars, vars
<1>5. CASE KeepTrace \/ ExportTrace \/ ScoreTrace \/ SaveEvalResult \/ ExportSummary \/ RunnerRaises
  BY <1>5 DEF KeepTrace, ExportTrace, ScoreTrace, SaveEvalResult, ExportSummary,
     RunnerRaises, Inside, Repeating
<1> QED
  BY <1>2, <1>3, <1>4, <1>5 DEF SuiteNext, SuiteEnded

(* The calls on record stay acceptable when the runner is past the run. *)
LEMMA AcceptableNext ==
  ASSUME Conducted', CallsAreAcceptable, [SuiteNext]_suiteVars
  PROVE  CallsAreAcceptable'
<1>1. CASE pc' \in Inside
  <2>1. Underway' /\ Sourced'
    BY <1>1 DEF Conducted
  <2>2. (Underway /\ Sourced)' => CallsAreAcceptable'
    BY CallsAcceptable, PTL
  <2> QED
    BY <2>1, <2>2
<1>2. CASE UNCHANGED <<toolCalls, job>>
  BY <1>2 DEF CallsAreAcceptable
<1> QED
  BY <1>1, <1>2, RunIsInside DEF SuiteNext, KeepTrace, ExportTrace, ScoreTrace, SaveEvalResult,
     ExportSummary, RunnerRaises, runnerUnchanged, NextScenario, NextRound, ExecutorAnewFor,
     SuiteEnded, suiteVars, pipelineVars, vars, traceVars, Inside

(* The server's counters only grow, whatever the runner does. *)
LEMMA HitsGrow ==
  ASSUME Conducted, [SuiteNext]_suiteVars
  PROVE  \A t : CounterSpent(t) => CounterSpent(t)'
<1>1. \A k : CountOf(hits, k)' >= CountOf(hits, k) /\ CountOf(hits, k) \in Nat
             /\ CountOf(hits, k)' \in Nat
  <2>1. CASE RunScenario
    <3>1. [PipelineNext]_pipelineVars
      BY <2>1 DEF RunScenario, PipelineNext
    <3>2. IsCounter(hits, Urls)' /\ \A k : CountOf(hits, k)' >= CountOf(hits, k)
      BY <3>1, HitsNext DEF Conducted
    <3> QED
      BY <3>2 DEF Conducted, IsCounter, CountOf
  <2>2. CASE UNCHANGED hits
    <3>1. \A k : CountOf(hits, k)' = CountOf(hits, k)
      BY <2>2 DEF CountOf
    <3>2. \A k : CountOf(hits, k) \in Nat
      BY DEF Conducted, IsCounter, CountOf
    <3> QED
      BY <3>1, <3>2
  <2> QED
    BY <2>1, <2>2 DEF SuiteNext, KeepTrace, ExportTrace, ScoreTrace, SaveEvalResult,
       ExportSummary, RunnerRaises, runnerUnchanged, NextScenario, NextRound, ExecutorAnewFor,
       SuiteEnded, suiteVars, pipelineVars
<1>2. \A u : FailFirst(u) \in Nat
  BY DEF FailFirst
<1> QED
  BY <1>1, <1>2 DEF CounterSpent

LEMMA ForeseenNext ==
  ASSUME Conducted, Repeating, Foreseen, [SuiteNext]_suiteVars
  PROVE  Foreseen'
<1>1. \A t : CounterSpent(t) => CounterSpent(t)'
  BY HitsGrow
<1>2. CASE KeepTrace
  <2> DEFINE t == [round |-> round, position |-> position, status |-> status,
                   reason |-> stopReason, tokens |-> Tokens, texts |-> TraceNotes,
                   mentioned |-> job.mentioned, entry |-> EntryTokens]
  <2>1. traces' = Append(traces, t) /\ t.position = position /\ UNCHANGED hits
    BY <1>2 DEF KeepTrace, runnerUnchanged
  <2>2. ~CounterSpent(t) =>
          Course(t) = CourseOf(EndOf(JobOf(t.position, t.mentioned)), t.position)
    <3> SUFFICES ASSUME ~CounterSpent(t) PROVE Course(t) = CourseOf(EndOf(job), position)
      BY DEF Conducted
    <3>1. job.goal = ScenarioAt(position).goal /\ job.config = ScenarioAt(position).config
          /\ ~job.lossy /\ job.provider = "heuristic"
      BY DEF Conducted, JobOf
    <3>2. Steady(job) /\ ~Spent
      BY <3>1 DEF Steady, Spent, CounterSpent
    <3>3. Over /\ Now = EndOf(job)
      BY <1>2, <3>2, EndIsReached DEF EndsAlike, KeepTrace, Repeating, Over, Inside
    <3>4. Course(t) = CourseOf(Now, position)
      <4>1. Tokens = WordsOf(Now)
        <5>1. /\ Now.events = stepEvents /\ Now.calls = toolCalls
              /\ Now.status = status /\ Now.reason = stopReason
          BY DEF Now
        <5>2. Handled = Len(toolCalls)
          BY <3>3 DEF Handled, AllButLast, Over
        <5> QED
          BY <5>1, <5>2 DEF Tokens, WordsOf
      <4>2. TraceNotes \ {"Retrieved"} =
              {text \in {"replanned malformed endpoint"} :
                 NotesExchange(ScenarioAt(position).goal, ScenarioAt(position).config, "none")}
        BY <3>1 DEF TraceNotes
      <4> QED
        BY <4>1, <4>2 DEF Course, CourseOf, Now
    <3> QED
      BY <3>3, <3>4
  <2>3. \A s : CounterSpent(s)' <=> CounterSpent(s)
    BY <2>1 DEF CounterSpent
  <2> HIDE DEF t
  <2>4. /\ Len(traces) \in Nat /\ Len(traces') = Len(traces) + 1 /\ traces'[Len(traces) + 1] = t
        /\ \A i \in 1..Len(traces) : traces'[i] = traces[i]
    BY <2>1, ListAppended DEF Conducted, IsList
  <2>5. \A i \in 1..Len(traces') : i = Len(traces) + 1 \/ i \in 1..Len(traces)
    BY <2>4
  <2> QED
    BY <2>2, <2>3, <2>4, <2>5 DEF Foreseen
<1>3. CASE UNCHANGED traces
  BY <1>1, <1>3 DEF Foreseen
<1> QED
  BY <1>2, <1>3, RunIsInside DEF SuiteNext, ExportTrace, ScoreTrace, SaveEvalResult,
     ExportSummary, RunnerRaises, NextScenario, NextRound, ExecutorAnewFor, SuiteEnded,
     suiteVars

LEMMA ForeseenAlike ==
  ASSUME IsList(traces), Foreseen
  PROVE  RoundsAlike
<1> DEFINE n == Len(traces)
<1> SUFFICES ASSUME NEW m \in 1..(n - 1),
                    JobOf(traces[m].position, traces[m].mentioned)
                      = JobOf(traces[n].position, traces[n].mentioned),
                    ~CounterSpent(traces[n])
             PROVE  Course(traces[n]) = Course(traces[m])
  BY DEF RoundsAlike
<1>1. m \in 1..n /\ n \in 1..n
  BY DEF IsList
<1>2. /\ ScenarioAt(traces[m].position).goal = ScenarioAt(traces[n].position).goal
      /\ ScenarioAt(traces[m].position).config = ScenarioAt(traces[n].position).config
  BY DEF JobOf
<1>3. ~CounterSpent(traces[m])
  BY <1>2 DEF CounterSpent
<1> DEFINE x == EndOf(JobOf(traces[n].position, traces[n].mentioned))
<1>4. /\ Course(traces[m]) = CourseOf(x, traces[m].position)
      /\ Course(traces[n]) = CourseOf(x, traces[n].position)
  BY <1>1, <1>3 DEF Foreseen
<1> HIDE DEF x
<1> QED
  BY <1>2, <1>4 DEF CourseOf

LEMMA ConductedAlways == SuiteSpec => []Conducted
<1>1. SuiteInv /\ SuiteInv' /\ Conducted /\ [SuiteNext]_suiteVars => Conducted'
  BY ConductedNext
<1> QED
  BY <1>1, ConductedInit, SuiteInvInit, SuiteInvNext, PTL DEF SuiteSpec

(* No scenario of any round makes a call that validation would have        *)
(* rejected under its own configuration, replanned or not and whatever ran *)
(* before it.                                                              *)
THEOREM ScenariosStayAcceptable == SuiteSpec => []CallsAreAcceptable
<1>1. SuiteInit => CallsAreAcceptable
  BY DEF SuiteInit, Unstarted, CallsAreAcceptable
<1>2. Conducted' /\ CallsAreAcceptable /\ [SuiteNext]_suiteVars => CallsAreAcceptable'
  BY AcceptableNext
<1> QED
  BY <1>1, <1>2, ConductedAlways, PTL DEF SuiteSpec

(* A scenario influences the course of a later one through the counter of  *)
(* a flaky endpoint and through criteria spelled out in recalled memory,   *)
(* and in no other way: for any scenarios and rounds, and exceptions       *)
(* anywhere, a scenario whose endpoint has failures left takes the course  *)
(* of every earlier one that asked for the same with the same criteria     *)
(* spelled out.                                                            *)
THEOREM ScenariosAreReplayed ==
  ASSUME OnlyLocal, Untied
  PROVE  SuiteSpec => []RoundsAlike
<1>1. Conducted /\ Repeating /\ [SuiteNext]_suiteVars => Repeating'
  BY RepeatingNext
<1>2. Conducted /\ Repeating /\ Foreseen /\ [SuiteNext]_suiteVars => Foreseen'
  BY ForeseenNext
<1>3. Conducted /\ Foreseen => RoundsAlike
  BY ForeseenAlike DEF Conducted
<1> QED
  BY <1>1, <1>2, <1>3, ConductedInit, ForeseenInit, ConductedAlways, PTL DEF SuiteSpec
=============================================================================
