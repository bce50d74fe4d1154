---------------------------- MODULE Orchestrator ----------------------------
(***************************************************************************)
(* main.run_orchestration and memory/long_term.py: several runs, each a    *)
(* process of its own, that share one SQLite database.  A run goes through *)
(* perception, planning, validation and execution, and leaves behind a row *)
(* of runs, a row of traces and a memory entry that later runs recall.     *)
(*                                                                         *)
(* Each statement LongTermMemory executes is a transaction of its own, so  *)
(* a run that is killed, or whose statement fails (the database is locked, *)
(* the disk is full), may leave any prefix of them.  The executor appears  *)
(* here by what it does to the database and by its verdict; what is behind *)
(* the verdict is the subject of module Executor.                          *)
(*                                                                         *)
(* As in Executor, a definition that nothing uses and that precedes its    *)
(* namesake is a mistake the properties are tried against.                 *)
(***************************************************************************)
EXTENDS Naturals, Sequences, FiniteSets, Retrieval

CONSTANTS
  Procs,       \* the runs
  Past,        \* those that took place before, in the order they ended
  MaxCalls,    \* bound on the tool calls of a run
  Relevance    \* Relevance[p][q]: tokens the goal of p shares with q's entry

ASSUME RelevanceAssumption == Relevance \in [Procs -> [Procs -> Nat]]

ASSUME PastAssumption ==
  Past \in Seq(Procs) /\ \A i, j \in 1..Len(Past) : Past[i] = Past[j] => i = j

ASSUME MaxCallsAssumption == MaxCalls \in Nat

VARIABLES
  pc,           \* where run_orchestration is
  status,       \* trace.status
  reason,       \* trace.stop_reason.type
  finished,     \* trace.finished_at is set
  calls,        \* Len(trace.tool_calls)
  recalled,     \* the runs whose entries perception put in the state
  noted,        \* the runs whose entries made the planner's note
  runsTable,    \* rows of runs: [run, status, reason]
  tracesTable,  \* rows of traces, with the verdict inside the JSON
  memory,       \* rows of memory_entries, oldest first
  outcomes,     \* how many rows of tool_outcomes each run has
  files         \* exported trace files

traceVars == <<status, reason, finished, calls>>
dbVars    == <<runsTable, tracesTable, memory, outcomes>>
vars      == <<pc, traceVars, recalled, noted, dbVars, files>>

Record(p) == [run |-> p, status |-> status[p], reason |-> reason[p]]

Go(p, there) == pc' = [pc EXCEPT ![p] = there]

(* INSERT OR REPLACE on a table whose primary key names the run.           *)
Put(table, row) == {r \in table : r.run # row.run} \cup {row}

Recall(p, limit) ==
  {e.run : e \in RetrieveMemory(memory,
                   [i \in 1..Len(memory) |-> Relevance[p][memory[i].run]], limit)}

-----------------------------------------------------------------------------
PastRuns == {Past[i] : i \in 1..Len(Past)}

PastRecord(p) == [run |-> p, status |-> "COMPLETED", reason |-> "success_criteria_met"]

Init ==
  /\ pc       = [p \in Procs |-> IF p \in PastRuns THEN "returned" ELSE "idle"]
  /\ status   = [p \in Procs |-> IF p \in PastRuns THEN "COMPLETED" ELSE "unborn"]
  /\ reason   = [p \in Procs |-> IF p \in PastRuns THEN "success_criteria_met" ELSE "none"]
  /\ finished = [p \in Procs |-> p \in PastRuns]
  /\ calls = [p \in Procs |-> 0] /\ outcomes = [p \in Procs |-> 0]
  /\ recalled = [p \in Procs |-> {}] /\ noted = [p \in Procs |-> {}]
  /\ runsTable = {PastRecord(p) : p \in PastRuns}
  /\ tracesTable = {PastRecord(p) : p \in PastRuns}
  /\ memory = [i \in 1..Len(Past) |-> PastRecord(Past[i])]
  /\ files = {}

(* Configuration is loaded, the database opened and the trace created.     *)
Start(p) ==
  /\ pc[p] = "idle"
  /\ Go(p, "received")
  /\ status' = [status EXCEPT ![p] = "RECEIVED"]
  /\ UNCHANGED <<reason, finished, calls, recalled, noted, dbVars, files>>

(* This comes before the try: an exception leaves run_orchestration.       *)
StartRaises(p) ==
  /\ pc[p] = "idle"
  /\ Go(p, "raised")
  /\ UNCHANGED <<traceVars, recalled, noted, dbVars, files>>

(* Every phase names itself before it does its work.                       *)
Receive(p) ==
  /\ pc[p] = "received"
  /\ Go(p, "perceive")
  /\ status' = [status EXCEPT ![p] = "PERCEIVED"]
  /\ UNCHANGED <<reason, finished, calls, recalled, noted, dbVars, files>>

Perceive(p) ==
  /\ pc[p] = "perceive"
  /\ Go(p, "plan")
  /\ status' = [status EXCEPT ![p] = "PLANNED"]
  /\ recalled' = [recalled EXCEPT ![p] = Recall(p, 3)]
  /\ UNCHANGED <<reason, finished, calls, noted, dbVars, files>>

(* The planner reads the memory again.                                     *)
BuildPlan(p) ==
  /\ pc[p] = "plan"
  /\ Go(p, "validate")
  /\ status' = [status EXCEPT ![p] = "VALIDATED"]
  /\ noted' = [noted EXCEPT ![p] = Recall(p, 2)]
  /\ UNCHANGED <<reason, finished, calls, recalled, dbVars, files>>

ValidationPasses(p) ==
  /\ pc[p] = "validate"
  /\ Go(p, "execute")
  /\ status' = [status EXCEPT ![p] = "EXECUTING"]
  /\ UNCHANGED <<reason, finished, calls, recalled, noted, dbVars, files>>

FailSwapped(p, why) ==
  /\ Go(p, "excepted")
  /\ status' = [status EXCEPT ![p] = why]
  /\ reason' = [reason EXCEPT ![p] = "FAILED"]
  /\ finished' = [finished EXCEPT ![p] = TRUE]
  /\ UNCHANGED <<calls, recalled, noted, dbVars, files>>

(* Both except branches: the trace fails and is stamped.                   *)
Fail(p, why) ==
  /\ Go(p, "excepted")
  /\ status' = [status EXCEPT ![p] = "FAILED"]
  /\ reason' = [reason EXCEPT ![p] = why]
  /\ finished' = [finished EXCEPT ![p] = TRUE]
  /\ UNCHANGED <<calls, recalled, noted, dbVars, files>>

ValidationRejectsLate(p) ==
  pc[p] \in {"validate", "execute"} /\ Fail(p, "validation_failed")

ValidationRejects(p) == pc[p] = "validate" /\ Fail(p, "validation_failed")

(* Where an exception is turned into a failed run. *)
InTheTry == {"perceive", "plan", "validate", "execute", "called", "executed"}

PhaseRaisesQuietly(p) ==
  /\ pc[p] \in InTheTry
  /\ Go(p, "excepted")
  /\ finished' = [finished EXCEPT ![p] = TRUE]
  /\ UNCHANGED <<status, reason, calls, recalled, noted, dbVars, files>>

PhaseRaisesAndRestarts(p) ==
  /\ pc[p] \in InTheTry
  /\ Go(p, "perceive")
  /\ status' = [status EXCEPT ![p] = "PERCEIVED"]
  /\ UNCHANGED <<reason, finished, calls, recalled, noted, dbVars, files>>

(* Reading the memory, planning, recording a call or asking the planner to *)
(* replan may raise, and so may every log entry: the last of them, of a    *)
(* run that is done, revises its verdict.                                  *)
PhaseRaises(p) == pc[p] \in InTheTry /\ Fail(p, "failed")

(* The executor makes a call, then leaves its row in tool_outcomes.        *)
CallTool(p) ==
  /\ pc[p] = "execute" /\ calls[p] < MaxCalls
  /\ Go(p, "called")
  /\ status' = [status EXCEPT ![p] = "EXECUTING"]
  /\ calls' = [calls EXCEPT ![p] = @ + 1]
  /\ UNCHANGED <<reason, finished, recalled, noted, dbVars, files>>

SaveToolOutcomeIfPossible(p) ==
  /\ pc[p] = "called"
  /\ Go(p, "execute")
  /\ \E saved \in 0..1 : outcomes' = [outcomes EXCEPT ![p] = @ + saved]
  /\ UNCHANGED <<traceVars, recalled, noted, runsTable, tracesTable, memory, files>>

SaveToolOutcome(p) ==
  /\ pc[p] = "called"
  /\ Go(p, "execute")
  /\ outcomes' = [outcomes EXCEPT ![p] = @ + 1]
  /\ \E st \in {"EXECUTING", "REFINING"} : status' = [status EXCEPT ![p] = st]
  /\ UNCHANGED <<reason, finished, calls, recalled, noted,
                 runsTable, tracesTable, memory, files>>

(* What Executor proves of its verdicts: never FAILED, and the verdicts    *)
(* that are about a failed call come after a call.                         *)
Verdicts ==
  ({"COMPLETED"} \X {"success_criteria_met", "none"}) \cup
  ({"STOPPED"} \X {"success_criteria_met", "max_steps", "budget_guard",
                   "max_retries", "non_progress", "policy_blocked"})

ExecutorReturns(p) ==
  /\ pc[p] = "execute"
  /\ \E v \in Verdicts :
       /\ v[2] \in {"max_retries", "non_progress", "policy_blocked"} => calls[p] > 0
       /\ v[1] = "COMPLETED" => status[p] = "EXECUTING"
       /\ status' = [status EXCEPT ![p] = v[1]]
       /\ reason' = [reason EXCEPT ![p] = v[2]]
  /\ finished' = [finished EXCEPT ![p] = TRUE]
  /\ Go(p, "executed")
  /\ UNCHANGED <<calls, recalled, noted, dbVars, files>>

(* The log entry of the verdict, or of the exception. *)
LogVerdict(p) ==
  /\ pc[p] \in {"executed", "excepted"}
  /\ Go(p, "saveRun")
  /\ UNCHANGED <<traceVars, recalled, noted, dbVars, files>>

(* That of an exception is not in the try, nor is that of a failing        *)
(* statement below: if it raises too, run_orchestration ends in it.        *)
ErrorLogRaises(p) ==
  /\ pc[p] \in {"excepted", "saveRun", "saveTrace", "remember"}
  /\ Go(p, "raised")
  /\ UNCHANGED <<traceVars, recalled, noted, dbVars, files>>

-----------------------------------------------------------------------------
(* Persistence: save_trace is two transactions, the memory entry a third.  *)

SaveRun(p) ==
  /\ pc[p] = "saveRun"
  /\ Go(p, "saveTrace")
  /\ runsTable' = Put(runsTable, Record(p))
  /\ UNCHANGED <<traceVars, recalled, noted, tracesTable, memory, outcomes, files>>

SaveTrace(p) ==
  /\ pc[p] = "saveTrace"
  /\ Go(p, "remember")
  /\ tracesTable' = Put(tracesTable, Record(p))
  /\ UNCHANGED <<traceVars, recalled, noted, runsTable, memory, outcomes, files>>

AddMemoryEntryTwice(p) ==
  /\ pc[p] = "remember"
  /\ Go(p, "export")
  /\ memory' = memory \o <<Record(p), Record(p)>>
  /\ UNCHANGED <<traceVars, recalled, noted, runsTable, tracesTable, outcomes, files>>

AddMemoryEntry(p) ==
  /\ pc[p] = "remember"
  /\ Go(p, "export")
  /\ memory' = Append(memory, Record(p))
  /\ UNCHANGED <<traceVars, recalled, noted, runsTable, tracesTable, outcomes, files>>

PersistFailsOneByOne(p) ==
  /\ \/ pc[p] = "saveRun"   /\ Go(p, "saveTrace")
     \/ pc[p] = "saveTrace" /\ Go(p, "remember")
     \/ pc[p] = "remember"  /\ Go(p, "export")
  /\ UNCHANGED <<traceVars, recalled, noted, dbVars, files>>

(* A failing statement is logged and the rest of the persistence skipped.  *)
PersistFails(p) ==
  /\ pc[p] \in {"saveRun", "saveTrace", "remember"}
  /\ Go(p, "export")
  /\ UNCHANGED <<traceVars, recalled, noted, dbVars, files>>

ExportTrace(p) ==
  /\ pc[p] = "export"
  /\ Go(p, "returned")
  /\ files' = Put(files, Record(p))
  /\ UNCHANGED <<traceVars, recalled, noted, dbVars>>

(* export_trace=False                                                      *)
ReturnWithoutExport(p) ==
  /\ pc[p] = "export"
  /\ Go(p, "returned")
  /\ UNCHANGED <<traceVars, recalled, noted, dbVars, files>>

ExportFailsTheRun(p) == pc[p] = "export" /\ Fail(p, "failed")

(* The file cannot be written: a finished run ends in an exception.        *)
ExportRaises(p) ==
  /\ pc[p] = "export"
  /\ Go(p, "raised")
  /\ UNCHANGED <<traceVars, recalled, noted, dbVars, files>>

Over == {"returned", "raised", "killed"}

(* The process is killed.                                                  *)
Kill(p) ==
  /\ pc[p] \notin Over \cup {"idle"}
  /\ Go(p, "killed")
  /\ UNCHANGED <<traceVars, recalled, noted, dbVars, files>>

Step(p) ==
  \/ Start(p) \/ StartRaises(p)
  \/ Receive(p) \/ Perceive(p) \/ BuildPlan(p)
  \/ ValidationPasses(p) \/ ValidationRejects(p) \/ PhaseRaises(p)
  \/ CallTool(p) \/ SaveToolOutcome(p) \/ ExecutorReturns(p)
  \/ LogVerdict(p) \/ ErrorLogRaises(p)
  \/ SaveRun(p) \/ SaveTrace(p) \/ AddMemoryEntry(p) \/ PersistFails(p)
  \/ ExportTrace(p) \/ ReturnWithoutExport(p) \/ ExportRaises(p)

AllOver == (\A p \in Procs : pc[p] \in Over) /\ UNCHANGED vars

Next == (\E p \in Procs : Step(p) \/ Kill(p)) \/ AllOver

Spec == Init /\ [][Next]_vars

(* Every process is scheduled; SQLite gives up on a lock after a while.    *)
FairSpec == Spec /\ \A p \in Procs : WF_vars(Step(p))

-----------------------------------------------------------------------------
(* Properties. *)

Places ==
  {"idle", "received", "perceive", "plan", "validate", "execute", "called",
   "executed", "excepted", "saveRun", "saveTrace", "remember", "export"} \cup Over

Statuses ==
  {"unborn", "RECEIVED", "PERCEIVED", "PLANNED", "VALIDATED", "EXECUTING", "REFINING",
   "COMPLETED", "STOPPED", "FAILED"}

Reasons ==
  {"none", "success_criteria_met", "max_steps", "budget_guard", "max_retries",
   "non_progress", "policy_blocked", "validation_failed", "failed"}

Records == [run: Procs, status: Statuses, reason: Reasons]

(* Every variable of the orchestrator has its type. *)
TypeOK ==
  /\ pc \in [Procs -> Places]
  /\ status \in [Procs -> Statuses]
  /\ reason \in [Procs -> Reasons]
  /\ finished \in [Procs -> BOOLEAN]
  /\ calls \in [Procs -> 0..MaxCalls]
  /\ recalled \in [Procs -> SUBSET Procs] /\ noted \in [Procs -> SUBSET Procs]
  /\ runsTable \subseteq Records /\ tracesTable \subseteq Records
  /\ memory \in Seq(Records)
  /\ outcomes \in [Procs -> Nat]
  /\ files \subseteq Records

MemoryRows == {memory[i] : i \in 1..Len(memory)}

(* However a run is interrupted, what it left is a prefix of what it would *)
(* have left: its memory entry only with its trace, its trace only with    *)
(* its runs row, all three telling the same verdict.                       *)
DurableInOrder == MemoryRows \subseteq tracesTable /\ tracesTable \subseteq runsTable

(* Nothing is persisted or exported of a run that is still going on: every *)
(* row has a terminal status with a reason that goes with it, and is the   *)
(* verdict the run still has in memory.                                    *)
OnlyVerdictsPersist ==
  \A r \in runsTable \cup tracesTable \cup MemoryRows \cup files :
    /\ <<r.status, r.reason>> \in
         Verdicts \cup ({"FAILED"} \X {"failed", "validation_failed"})
    /\ r = Record(r.run) /\ finished[r.run]

(* A memory entry is written at most once per run: the recall limits count *)
(* runs.                                                                   *)
RememberedOnce ==
  \A i, j \in 1..Len(memory) : memory[i].run = memory[j].run => i = j

(* A plan that was not accepted is not executed: a run rejected by         *)
(* validation, or failed before it, made no call and left no outcome.      *)
NoCallWithoutValidation ==
  \A p \in Procs :
    calls[p] > 0 => /\ reason[p] # "validation_failed"
                    /\ status[p] \notin {"RECEIVED", "PERCEIVED", "PLANNED", "VALIDATED"}

(* tool_outcomes lags the calls of a run by the one call in flight, or the *)
(* one whose row could not be written, which then failed the run (or took  *)
(* the process with it).                                                   *)
OutcomesFollowCalls ==
  \A p \in Procs :
    /\ outcomes[p] \in {calls[p], calls[p] - 1}
    /\ outcomes[p] < calls[p] =>
         pc[p] \in {"called", "killed"} \/ <<status[p], reason[p]>> = <<"FAILED", "failed">>

(* What a run recalls is what other runs finished and recorded before: it  *)
(* never recalls itself, and two runs never recall one another.            *)
RecallsOnlyThePast ==
  \A p, q \in Procs :
    q \in recalled[p] \cup noted[p] =>
      /\ \E r \in tracesTable : r.run = q
      /\ p \notin recalled[q] \cup noted[q]

(* A verdict is revised once at most, to a failure, and by nothing but the *)
(* log entry that announces it; from when it is persisted it stands, and   *)
(* what was persisted is neither changed nor lost.                         *)
VerdictIsFinal ==
  [][/\ \A p \in Procs : finished[p] =>
          /\ finished'[p]
          /\ \/ status'[p] = status[p] /\ reason'[p] = reason[p]
             \/ /\ pc[p] = "executed" /\ status[p] # "FAILED"
                /\ \A r \in runsTable' \cup tracesTable' : r.run # p
                /\ status'[p] = "FAILED" /\ reason'[p] = "failed"
     /\ runsTable \subseteq runsTable' /\ tracesTable \subseteq tracesTable'
     /\ SubSeq(memory', 1, Len(memory)) = memory]_vars

(* Whatever fails, a run comes to its end, and one that returns has a      *)
(* verdict.                                                                *)
EveryRunEnds ==
  \A p \in Procs : <>(pc[p] \in Over /\ (pc[p] = "returned" => finished[p]))

-----------------------------------------------------------------------------
(* The runtime state machine of docs/architecture.md: a run gets its       *)
(* terminal status while executing (the loop head's return to EXECUTING    *)
(* before a stop rule applies is part of ExecutorReturns here).            *)
DocumentedPath ==
  [][\A p \in Procs : status'[p] # status[p] =>
       <<status[p], status'[p]>> \in
         {<<"unborn", "RECEIVED">>, <<"RECEIVED", "PERCEIVED">>, <<"PERCEIVED", "PLANNED">>,
          <<"PLANNED", "VALIDATED">>, <<"VALIDATED", "EXECUTING">>,
          <<"EXECUTING", "REFINING">>, <<"REFINING", "EXECUTING">>}
         \cup ({"EXECUTING", "REFINING"} \X {"COMPLETED", "STOPPED", "FAILED"})]_vars
=============================================================================
