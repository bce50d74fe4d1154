--------------------------------- MODULE Suite ---------------------------------
(***************************************************************************)
(* eval/runner.py and eval/scoring.py: the scenarios of a file run one     *)
(* after the other, each with a short-term memory and metrics of its own,  *)
(* all against one mock server, whose hit counters they share, and with    *)
(* one database, where each leaves its trace and an entry that later ones  *)
(* recall.  Each leaves a trace file, a score and a row, too; a round      *)
(* leaves a summary, if no exception ends it.  The file may be run several *)
(* times while the server stays up.  The database is new in the first      *)
(* round, and accepts all but, perhaps, a result.                          *)
(*                                                                         *)
(* A scenario is a record [goal, says, spells, config, status, reason,     *)
(* tokens, texts]: what it asks for, the tokens of its request, and the    *)
(* criteria whose wording the request spells out; and what it expects of   *)
(* the trace ("any" reason is none stated).  Of the texts it may require,  *)
(* two notes of the planner's are modelled: that it recalled entries and   *)
(* that it exchanged an endpoint.  The others are wording and left out.    *)
(*                                                                         *)
(* As in Executor, a definition that nothing uses and that precedes its    *)
(* namesake is a mistake the properties are tried against.                 *)
(***************************************************************************)
EXTENDS Pipeline, Retrieval

CONSTANTS
  Scenarios,   \* the sequence in the file
  Rounds,      \* how often the file is run
  MaxAborts,   \* bounds how many of the rounds end in an exception
  AbortsAt     \* bounds at which scenarios they may

ASSUME SuiteAssumption ==
  /\ Rounds \in Nat \ {0} /\ MaxAborts \in Nat
  /\ Len(Scenarios) \in Nat \ {0}
  /\ AbortsAt \subseteq 1..Len(Scenarios)

VARIABLES
  round,       \* number of the current round
  position,    \* number of the current scenario in it
  traces,      \* what the runs left in the traces table, in order, each with
               \* the tokens of the entry it left in memory_entries
  exports,     \* trace files: per scenario the number of the trace it holds,
               \* 0 when the file was cut off
  results,     \* the results of this round: [trace, passed]
  rows,        \* the eval_results table: [round, position, passed]
  summary,     \* the exported summary: [round, results], of round 0 when
               \* there is none that can be read
  aborts       \* rounds that ended in an exception

roundVars == <<exports, results, rows, summary, aborts>>
suiteVars == <<pipelineVars, round, position, traces, roundVars>>

ScenarioAt(n) == Scenarios[n]

Spelled == UNION {ScenarioAt(n).spells : n \in 1..Len(Scenarios)}

JobOf(n, mentioned) ==
  [goal |-> ScenarioAt(n).goal, config |-> ScenarioAt(n).config,
   provider |-> "heuristic", lossy |-> FALSE, mentioned |-> mentioned]

ASSUME ScenarioJobs ==
  \A n \in 1..Len(Scenarios) : \A m \in SUBSET Spelled : JobOf(n, m) \in Jobs

Lower(st) ==
  CASE st = "COMPLETED" -> "completed" [] st = "STOPPED" -> "stopped" [] OTHER -> "failed"

(* The tokens of the entry a run leaves: its key, the names of what it     *)
(* holds, the request, the verdict, and the message of a run that was      *)
(* executed.                                                               *)
EntryTokens ==
  {"run", "request", "status", "stop_reason", "summary"}
  \cup ScenarioAt(position).says \cup {Lower(status), stopReason}
  \cup (IF stopReason = "validation_failed" THEN {} ELSE {"execution", "finished"})

(* The entries that perception recalls for scenario n: the numbers of the  *)
(* traces they belong to.  The planner recalls the better two of them.     *)
Recalled(n) ==
  RetrieveMemory([i \in 1..Len(traces) |-> i],
                 [i \in 1..Len(traces) |->
                    Cardinality(ScenarioAt(n).says \cap traces[i].entry)], 3)

(* The criteria whose wording is in a state that holds these entries.      *)
MentionedIn(n, entries) ==
  ScenarioAt(n).spells \cup UNION {ScenarioAt(traces[i].position).spells : i \in entries}

(* What the next run is given: the recalled requests become part of its    *)
(* initial state.                                                          *)
JobAt(n) == JobOf(n, MentionedIn(n, Recalled(n)))

(* _trace_event_tokens: the words of the trace that scoring looks at. *)
Tokens ==
  LET events == {stepEvents[i] : i \in 1..Len(stepEvents)}
      missed == {toolCalls[i].status : i \in 1..Handled} \ {"success"}
  IN  {status, stopReason}
      \cup {e.status : e \in events} \cup {e.action : e \in events}
      \cup {e.failure : e \in events}
      \cup {Head(EvaluateToolCall(st, FALSE)).type : st \in missed}

(* The notes in a trace are those of the first plan. *)
TraceNotes ==
  {text \in {"Retrieved", "replanned malformed endpoint"} :
     CASE text = "Retrieved" -> Recalled(position) # {}
       [] OTHER              -> NotesExchange(job.goal, job.config, "none")}

(* score_trace, for what is modelled of an expectation. *)
StatusMatches(t) ==
  LET expected == ScenarioAt(t.position)
  IN  t.status = expected.status /\ expected.reason \in {"any", t.reason}

TextMatches(t) == ScenarioAt(t.position).texts \subseteq t.texts

TokensMatch(t) == ScenarioAt(t.position).tokens \subseteq t.tokens

Passed(t) == StatusMatches(t) /\ TextMatches(t) /\ TokensMatch(t)

NoSummary == [round |-> 0, results |-> << >>]

SuiteInit ==
  /\ round = 1 /\ position = 1
  /\ traces = << >> /\ exports = NoCounts /\ results = << >> /\ rows = << >>
  /\ summary = NoSummary /\ aborts = 0
  /\ job = JobOf(1, ScenarioAt(1).spells) /\ hits \in HitsBefore
  /\ run = JobRun(job)
  /\ Unstarted

runnerUnchanged == UNCHANGED <<run, status, stopReason, loopVars, stmVars, traceVars, metrics,
                               job, hits, round, position>>

RunScenario ==
  /\ BeginAccepted \/ RejectPlan \/ CallServer \/ Proceed
  /\ UNCHANGED <<round, position, traces, roundVars>>

(* The verdict is in: run_orchestration saves the trace and the entry.     *)
KeepTrace ==
  /\ Over /\ pc' = "kept"
  /\ traces' = Append(traces, [round |-> round, position |-> position,
                               status |-> status, reason |-> stopReason,
                               tokens |-> Tokens, texts |-> TraceNotes,
                               mentioned |-> job.mentioned, entry |-> EntryTokens])
  /\ runnerUnchanged /\ UNCHANGED roundVars

(* The trace files once that of scenario n holds trace t.                  *)
Written(n, t) == [m \in DOMAIN exports \cup {n} |-> IF m = n THEN t ELSE exports[m]]

ExportTraceOnce ==
  /\ pc = "kept" /\ pc' = "exported"
  /\ exports' = IF position \in DOMAIN exports THEN exports
                ELSE Written(position, Len(traces))
  /\ runnerUnchanged /\ UNCHANGED <<traces, results, rows, summary, aborts>>

(* The file is named for the scenario and written over in each round.      *)
ExportTrace ==
  /\ pc = "kept" /\ pc' = "exported"
  /\ exports' = Written(position, Len(traces))
  /\ runnerUnchanged /\ UNCHANGED <<traces, results, rows, summary, aborts>>

ScoreTrace ==
  /\ pc = "exported" /\ pc' = "scored"
  /\ results' = Append(results, [trace |-> Len(traces), passed |-> Passed(traces[Len(traces)])])
  /\ runnerUnchanged /\ UNCHANGED <<traces, exports, rows, summary, aborts>>

SaveEvalResult ==
  /\ pc = "scored" /\ pc' = "recorded"
  /\ rows' = Append(rows, [round |-> round, position |-> position,
                           passed |-> results[Len(results)].passed])
  /\ runnerUnchanged /\ UNCHANGED <<traces, exports, results, summary, aborts>>

ExportSummary ==
  /\ pc = "recorded" /\ position = Len(Scenarios)
  /\ pc' = "summed"
  /\ summary' = [round |-> round, results |-> results]
  /\ runnerUnchanged /\ UNCHANGED <<traces, exports, results, rows, aborts>>

(* A configuration that does not load, a file or a row that cannot be      *)
(* written: run_scenarios ends in the exception, with what it did so far.  *)
(* A file is emptied before it is written; it may be left cut off.         *)
RunnerRaises ==
  /\ \/ pc \in {"start", "kept", "scored"}
     \/ pc = "recorded" /\ position = Len(Scenarios)
  /\ aborts < MaxAborts /\ position \in AbortsAt
  /\ pc' = "aborted" /\ aborts' = aborts + 1
  /\ exports' \in {exports} \cup (IF pc = "kept" THEN {Written(position, 0)} ELSE {})
  /\ summary' \in {summary} \cup (IF pc = "recorded" THEN {NoSummary} ELSE {})
  /\ runnerUnchanged /\ UNCHANGED <<traces, results, rows>>

(* run_orchestration makes everything anew but the server, the database    *)
(* and the files.                                                          *)
ExecutorAnewFor(n) ==
  /\ position' = n /\ job' = JobAt(n)
  /\ run' = JobRun(job')
  /\ pc' = "start" /\ status' = "VALIDATED" /\ stopReason' = "none"
  /\ steps' = << >> /\ stepIndex' = 0 /\ completed' = 0 /\ cost' = 0
  /\ toolCalls' = << >> /\ stepEvents' = << >> /\ refinements' = << >>
  /\ outcomes' = << >>
  /\ metrics' = [started |-> 0, completed |-> 0, failed |-> 0]
  /\ UNCHANGED <<hits, traces, exports, rows, summary, aborts>>

MemoryKept == UNCHANGED stmVars

(* A new ShortTermMemory. *)
Forgotten ==
  /\ retries' = NoCounts /\ signatures' = NoCounts
  /\ observations' = << >> /\ achieved' = {} /\ announced' = {}

Another == pc = "recorded" /\ position < Len(Scenarios)

NextScenario ==
  Another /\ ExecutorAnewFor(position + 1) /\ Forgotten /\ UNCHANGED <<round, results>>

AnotherRound == pc \in {"summed", "aborted"} /\ round < Rounds

(* The file is run again against the same server, into the same directory. *)
NextRound ==
  /\ AnotherRound
  /\ round' = round + 1 /\ results' = << >>
  /\ ExecutorAnewFor(1) /\ Forgotten

SuiteEnded ==
  pc \in {"summed", "aborted"} /\ round = Rounds /\ UNCHANGED suiteVars

SuiteNext ==
  \/ RunScenario \/ KeepTrace \/ ExportTrace \/ ScoreTrace \/ SaveEvalResult
  \/ ExportSummary \/ RunnerRaises \/ NextScenario \/ NextRound \/ SuiteEnded

SuiteSpec == SuiteInit /\ [][SuiteNext]_suiteVars /\ WF_suiteVars(SuiteNext)

-----------------------------------------------------------------------------
(* Properties. *)

(* Whether a scenario asks the endpoint whose counter the scenarios share. *)
AsksDemoKey(t) == HttpUrl(ScenarioAt(t.position).goal) = "/flaky"

(* Whether the endpoint it asks was asked too often to go on failing.      *)
CounterSpent(t) ==
  LET url == HttpUrl(ScenarioAt(t.position).goal)
  IN  url \in FlakyEndpoints /\ CountOf(hits, url) > FailFirst(url)

(* What a trace says of its run, but for the planner's note of a recall.   *)
Course(t) ==
  [status |-> t.status, reason |-> t.reason, tokens |-> t.tokens,
   texts |-> t.texts \ {"Retrieved"}]

(* A scenario influences the course of a later one in two ways only, the   *)
(* counter of a flaky endpoint and criteria spelled out in the memory that *)
(* is recalled: while the counter has failures left, and for the same      *)
(* criteria spelled out, a scenario takes the course of every earlier one  *)
(* that asked for the same, whatever ran in between, whatever else it      *)
(* recalls and whatever became of the rounds.                              *)
RoundsAlike ==
  LET latest == traces[Len(traces)]
  IN  \A m \in 1..(Len(traces) - 1) :
        LET t == traces[m]
        IN  /\ JobOf(t.position, t.mentioned) = JobOf(latest.position, latest.mentioned)
            /\ ~CounterSpent(latest)
            => Course(latest) = Course(t)

(* The counter is used up by the first scenario that asks the demo key,    *)
(* though its round may be aborted: that one retries its way to success,   *)
(* and no later one sees a failure.                                        *)
DemoKeyFailsOnce ==
  \A n \in 1..Len(traces) :
    AsksDemoKey(traces[n]) =>
      /\ ("tool_error" \in traces[n].tokens) =
           (\A m \in 1..(n - 1) : ~AsksDemoKey(traces[m]))
      /\ traces[n].reason = "success_criteria_met"

(* A summary is of one whole round, each of its results has its row, and   *)
(* the trace files are those it was made from; a later round, aborted ones *)
(* included, can only replace files by newer ones, or cut one off when it  *)
(* is aborted.                                                             *)
SummaryIsOfItsRound ==
  summary.round > 0 =>
    /\ Len(summary.results) = Len(Scenarios)
    /\ \A n \in 1..Len(Scenarios) :
         LET result == summary.results[n]
         IN  /\ traces[result.trace].round = summary.round
             /\ traces[result.trace].position = n
             /\ Cardinality({i \in 1..Len(rows) :
                  rows[i] = [round |-> summary.round, position |-> n,
                             passed |-> result.passed]}) = 1
             /\ exports[n] >= result.trace \/ (exports[n] = 0 /\ aborts > 0)
             /\ round = summary.round => exports[n] = result.trace

(* Rounds end, aborted or not, and in the end every scenario has passed    *)
(* whose expectation the counters that outlive a run, criteria spelled out *)
(* in recalled memory, the order of the stop rules and the lost notes of a *)
(* replan leave alone.  The one that expects the planner to have recalled  *)
(* an entry passes.                                                        *)
OthersPass ==
  <>(/\ pc \in {"summed", "aborted"} /\ round = Rounds
     /\ \A n \in 1..Len(traces) :
          LET t == traces[n]
          IN  \/ Passed(t)
              \/ CounterSpent(t)
              \/ t.mentioned # ScenarioAt(t.position).spells
              \/ "replanned malformed endpoint" \in ScenarioAt(t.position).texts
              \/ ScenarioAt(t.position).reason = "max_steps"
                   /\ t.reason = "success_criteria_met")

-----------------------------------------------------------------------------
(* What the scenario file expects. *)

(* Every scenario ends with the status and the stop reason it states.      *)
StatusesAsExpected == \A n \in 1..Len(traces) : StatusMatches(traces[n])

(* The trace of a scenario holds the text it requires: "replanned          *)
(* malformed endpoint" after replanning a malformed endpoint.              *)
OutputsAsExpected == \A n \in 1..Len(traces) : TextMatches(traces[n])
=============================================================================
