-------------------------- MODULE OrchestratorProofs --------------------------
(***************************************************************************)
(* Theorems about the orchestrator that hold for any number of concurrent  *)
(* runs, any history of the database and any recall window: what a run     *)
(* leaves behind is a prefix of what it would have left, tells its         *)
(* verdict, and is final.                                                  *)
(***************************************************************************)
EXTENDS Orchestrator, TLAPS, SequenceTheorems

Early == {"idle", "received", "perceive", "plan", "validate", "execute", "called"}
Judged == {"executed", "excepted"}
Saving == {"saveRun", "saveTrace", "remember", "export"}

Final == Verdicts \cup ({"FAILED"} \X {"failed", "validation_failed"})

Types ==
  /\ pc \in [Procs -> Places]
  /\ status \in [Procs -> Statuses] /\ reason \in [Procs -> Reasons]
  /\ finished \in [Procs -> BOOLEAN]
  /\ memory \in Seq(Records)

AllRows == runsTable \cup tracesTable \cup MemoryRows \cup files

(* A run has its verdict exactly from the end of its execution on, and has *)
(* written the rows that come before the one it is about to write.         *)
Stages ==
  \A p \in Procs :
    /\ pc[p] \in Early => finished[p] = FALSE
    /\ pc[p] \in Judged \cup Saving \cup {"returned"} => finished[p] = TRUE
    /\ finished[p] = TRUE => <<status[p], reason[p]>> \in Final
    /\ pc[p] \in {"saveTrace", "remember"} => Record(p) \in runsTable
    /\ pc[p] = "remember" => Record(p) \in tracesTable

(* A verdict that is still to be announced is the executor's, and nothing  *)
(* of its run is written.                                                  *)
Announcing ==
  \A p \in Procs :
    pc[p] = "executed" => status[p] # "FAILED" /\ \A r \in AllRows : r.run # p

(* Every row anywhere is the present verdict of its run. *)
Current ==
  \A r \in AllRows :
    r.run \in Procs /\ r = Record(r.run) /\ finished[r.run] = TRUE

Inv == Types /\ Stages /\ Announcing /\ Current /\ DurableInOrder

(* The three things a step can do to the verdicts and the rows: run p goes *)
(* on without a verdict, gets its verdict or, announcing it, a failure in  *)
(* its place, or leaves with it.                                           *)
RowsSame == UNCHANGED <<runsTable, tracesTable, memory, files>>

GoesOn(p) ==
  /\ pc[p] \in Early
  /\ \E there \in Early \cup {"raised"} : pc' = [pc EXCEPT ![p] = there]
  /\ \E st \in Statuses : status' = [status EXCEPT ![p] = st]
  /\ UNCHANGED <<reason, finished>> /\ RowsSame

GetsVerdict(p) ==
  /\ pc[p] \in Early \cup {"executed"}
  /\ \E there \in Judged, v \in Final :
       /\ pc[p] = "executed" => v = <<"FAILED", "failed">>
       /\ there = "executed" => v[1] # "FAILED"
       /\ pc' = [pc EXCEPT ![p] = there]
       /\ status' = [status EXCEPT ![p] = v[1]]
       /\ reason' = [reason EXCEPT ![p] = v[2]]
  /\ finished' = [finished EXCEPT ![p] = TRUE]
  /\ RowsSame

VerdictSame == UNCHANGED <<status, reason, finished>>

Leaves(p) ==
  /\ \/ /\ pc[p] \in Judged \cup Saving
        /\ \E there \in {"saveRun", "export"} \cup Over : pc' = [pc EXCEPT ![p] = there]
     \/ pc[p] \in Early /\ pc' = [pc EXCEPT ![p] = "killed"]
  /\ VerdictSame /\ RowsSame

Exports(p) ==
  /\ pc[p] = "export" /\ pc' = [pc EXCEPT ![p] = "returned"]
  /\ files' = Put(files, Record(p))
  /\ VerdictSame /\ UNCHANGED <<runsTable, tracesTable, memory>>

-----------------------------------------------------------------------------
(* Every action does one of them, or writes a row. *)

LEMMA FinalTypes == \A v \in Final : v[1] \in Statuses /\ v[2] \in Reasons /\ v = <<v[1], v[2]>>
  BY DEF Final, Verdicts, Statuses, Reasons

(* An exception fails the run.                                             *)
LEMMA FailGetsVerdict ==
  ASSUME NEW p \in Procs, NEW why \in {"failed", "validation_failed"},
         pc[p] \in Early \/ (pc[p] = "executed" /\ why = "failed"), Fail(p, why)
  PROVE  GetsVerdict(p)
<1>1. <<"FAILED", why>> \in Final BY DEF Final
<1>2. "excepted" \in Judged BY DEF Judged
<1>3. /\ pc' = [pc EXCEPT ![p] = "excepted"] /\ status' = [status EXCEPT ![p] = "FAILED"]
      /\ reason' = [reason EXCEPT ![p] = why] /\ finished' = [finished EXCEPT ![p] = TRUE]
      /\ RowsSame
  BY DEF Fail, Go, RowsSame, dbVars
<1>4. pc[p] \in Early \cup {"executed"} /\ (pc[p] = "executed" => why = "failed")
  BY DEF Early
<1>5. \E there \in Judged, v \in Final :
        /\ pc[p] = "executed" => v = <<"FAILED", "failed">>
        /\ there = "executed" => v[1] # "FAILED"
        /\ pc' = [pc EXCEPT ![p] = there]
        /\ status' = [status EXCEPT ![p] = v[1]]
        /\ reason' = [reason EXCEPT ![p] = v[2]]
  <2> WITNESS "excepted" \in Judged
  <2> WITNESS <<"FAILED", why>> \in Final
  <2> QED BY <1>3, <1>4
<1>6. QED BY <1>3, <1>4, <1>5 DEF GetsVerdict

(* Each step of a run, the three row-writing ones set apart.               *)
LEMMA StepCases ==
  ASSUME Types, NEW p \in Procs, Step(p) \/ Kill(p)
  PROVE  \/ GoesOn(p) \/ GetsVerdict(p) \/ Leaves(p) \/ Exports(p)
         \/ SaveRun(p) \/ SaveTrace(p) \/ AddMemoryEntry(p)
<1> USE DEF Go, traceVars, dbVars, RowsSame, VerdictSame
<1>1. CASE Start(p)
  BY <1>1 DEF Start, GoesOn, Early, Statuses
<1>2. CASE StartRaises(p)
  <2>1. status' = [status EXCEPT ![p] = status[p]] /\ status[p] \in Statuses
    BY <1>2 DEF StartRaises, Types
  <2>2. QED BY <1>2, <2>1 DEF StartRaises, GoesOn, Early
<1>3. CASE Receive(p)
  BY <1>3 DEF Receive, GoesOn, Early, Statuses
<1>4. CASE Perceive(p)
  BY <1>4 DEF Perceive, GoesOn, Early, Statuses
<1>5. CASE BuildPlan(p)
  BY <1>5 DEF BuildPlan, GoesOn, Early, Statuses
<1>6. CASE ValidationPasses(p)
  BY <1>6 DEF ValidationPasses, GoesOn, Early, Statuses
<1>7. CASE ValidationRejects(p)
  BY <1>7, FailGetsVerdict DEF ValidationRejects, Early
<1>8. CASE PhaseRaises(p)
  BY <1>8, FailGetsVerdict DEF PhaseRaises, InTheTry, Early
<1>9. CASE CallTool(p)
  BY <1>9 DEF CallTool, GoesOn, Early, Statuses
<1>10. CASE SaveToolOutcome(p)
  BY <1>10 DEF SaveToolOutcome, GoesOn, Early, Statuses
<1>11. CASE ExecutorReturns(p)
  BY <1>11 DEF ExecutorReturns, GetsVerdict, Early, Judged, Final, Verdicts
<1>12. CASE \/ LogVerdict(p) \/ ErrorLogRaises(p)
            \/ PersistFails(p) \/ ReturnWithoutExport(p) \/ ExportRaises(p)
  BY <1>12 DEF LogVerdict, ErrorLogRaises, PersistFails, ReturnWithoutExport, ExportRaises,
     Leaves, Judged, Saving, Over
<1>13. CASE ExportTrace(p)
  BY <1>13 DEF ExportTrace, Exports
<1>14. CASE Kill(p)
  <2>1. pc[p] \in Early \cup Judged \cup Saving
    BY <1>14 DEF Kill, Types, Places, Over, Early, Judged, Saving
  <2>2. QED BY <1>14, <2>1 DEF Kill, Leaves, Over
<1>15. QED
  BY <1>1, <1>2, <1>3, <1>4, <1>5, <1>6, <1>7, <1>8, <1>9, <1>10, <1>11, <1>12,
     <1>13, <1>14 DEF Step

-----------------------------------------------------------------------------
(* The invariant is inductive. *)

(* The rows of the memory, one more or as before.                          *)
LEMMA MemoryRowsSame ==
  ASSUME memory' = memory PROVE MemoryRows' = MemoryRows
  BY DEF MemoryRows

LEMMA MemoryRowsAppended ==
  ASSUME memory \in Seq(Records), NEW r \in Records, memory' = Append(memory, r)
  PROVE  memory' \in Seq(Records) /\ MemoryRows' = MemoryRows \cup {r}
<1>1. Len(memory) \in Nat BY LenProperties
<1>2. memory' \in Seq(Records) /\ Len(memory') = Len(memory) + 1
  BY AppendProperties
<1>3. \A i \in 1..Len(memory) : memory'[i] = memory[i]
  BY AppendProperties
<1>4. memory'[Len(memory) + 1] = r BY AppendProperties
<1>5. MemoryRows' \subseteq MemoryRows \cup {r}
  <2>1. SUFFICES ASSUME NEW i \in 1..Len(memory') PROVE memory'[i] \in MemoryRows \cup {r}
    BY DEF MemoryRows
  <2>2. CASE i \in 1..Len(memory)
    BY <1>3, <2>2 DEF MemoryRows
  <2>3. CASE i = Len(memory) + 1
    BY <1>4, <2>3
  <2>4. QED BY <1>1, <1>2, <2>2, <2>3
<1>6. MemoryRows \cup {r} \subseteq MemoryRows'
  <2>1. ASSUME NEW i \in 1..Len(memory) PROVE memory[i] \in MemoryRows'
    <3>1. i \in 1..Len(memory') BY <1>1, <1>2
    <3>2. QED BY <3>1, <1>3 DEF MemoryRows
  <2>2. r \in MemoryRows'
    <3>1. Len(memory) + 1 \in 1..Len(memory') BY <1>1, <1>2
    <3>2. QED BY <3>1, <1>4 DEF MemoryRows
  <2>3. QED BY <2>1, <2>2 DEF MemoryRows
<1>7. QED BY <1>2, <1>5, <1>6

(* A run whose verdict is not touched has the record it had.               *)
LEMMA RecordSame ==
  ASSUME NEW p, status'[p] = status[p], reason'[p] = reason[p]
  PROVE  Record(p)' = Record(p)
  BY DEF Record

LEMMA RecordType ==
  ASSUME Types, NEW p \in Procs PROVE Record(p) \in Records
  BY DEF Types, Record, Records

(* Run p goes on, or gets its verdict: it has no row yet that could become *)
(* stale.                                                                  *)
LEMMA UndecidedStep ==
  ASSUME Inv, NEW p \in Procs, GoesOn(p) \/ GetsVerdict(p)
  PROVE  Inv'
<1> USE DEF Inv
<1>1. RowsSame /\ \A r \in AllRows : r.run # p
  <2>1. CASE pc[p] \in Early
    BY <2>1 DEF GoesOn, GetsVerdict, Stages, Current
  <2>2. CASE pc[p] = "executed" /\ GetsVerdict(p)
    BY <2>2 DEF GetsVerdict, Announcing
  <2>3. QED BY <2>1, <2>2 DEF GoesOn, GetsVerdict
<1>2. MemoryRows' = MemoryRows BY <1>1, MemoryRowsSame DEF RowsSame
<1>3. \A q \in Procs : q # p =>
        /\ pc'[q] = pc[q] /\ finished'[q] = finished[q]
        /\ status'[q] = status[q] /\ reason'[q] = reason[q]
        /\ Record(q)' = Record(q)
  BY DEF GoesOn, GetsVerdict, Types, Record
<1>4. Types'
  <2>1. CASE GoesOn(p)
    BY <2>1, <1>1 DEF GoesOn, Types, RowsSame, Places, Early, Over
  <2>2. CASE GetsVerdict(p)
    BY <2>2, <1>1, FinalTypes DEF GetsVerdict, Types, RowsSame, Judged, Places
  <2>3. QED BY <2>1, <2>2
<1>5. DurableInOrder'
  BY <1>1, <1>2 DEF DurableInOrder, RowsSame
<1>6. Current'
  <2>1. AllRows' = AllRows BY <1>1, <1>2 DEF AllRows, RowsSame
  <2>2. QED BY <2>1, <1>1, <1>3 DEF Current
<1>7. Stages'
  <2>1. SUFFICES ASSUME NEW q \in Procs
                 PROVE  (/\ pc[q] \in Early => finished[q] = FALSE
                         /\ pc[q] \in Judged \cup Saving \cup {"returned"} => finished[q] = TRUE
                         /\ finished[q] = TRUE => <<status[q], reason[q]>> \in Final
                         /\ pc[q] \in {"saveTrace", "remember"} => Record(q) \in runsTable
                         /\ pc[q] = "remember" => Record(q) \in tracesTable)'
    BY DEF Stages, Early, Judged, Saving, Final
  <2>2. CASE q # p
    BY <2>2, <1>1, <1>3 DEF Stages, RowsSame
  <2>3. CASE q = p /\ GoesOn(p)
    BY <2>3 DEF GoesOn, Stages, Types, Early, Judged, Saving
  <2>4. CASE q = p /\ GetsVerdict(p)
    BY <2>4, FinalTypes DEF GetsVerdict, Types, Early, Judged, Saving
  <2>5. QED BY <2>2, <2>3, <2>4
<1>8. Announcing'
  <2>1. AllRows' = AllRows BY <1>1, <1>2 DEF AllRows, RowsSame
  <2>2. pc'[p] = "executed" => status'[p] # "FAILED"
    BY FinalTypes DEF GoesOn, GetsVerdict, Types, Early, Judged
  <2>3. QED BY <2>1, <2>2, <1>1, <1>3 DEF Announcing
<1>9. QED BY <1>4, <1>5, <1>6, <1>7, <1>8

(* What does not touch a verdict leaves every record as it is.             *)
LEMMA RecordsSame ==
  ASSUME VerdictSame
  PROVE  \A q : Record(q)' = Record(q) /\ finished'[q] = finished[q]
  BY DEF VerdictSame, Record

LEMMA LeavingStep ==
  ASSUME Inv, NEW p \in Procs, Leaves(p) \/ Exports(p)
  PROVE  Inv'
<1> USE DEF Inv
<1>1. VerdictSame /\ UNCHANGED <<runsTable, tracesTable, memory>>
  BY DEF Leaves, Exports, RowsSame
<1>2. MemoryRows' = MemoryRows BY <1>1, MemoryRowsSame
<1>3. \A q : Record(q)' = Record(q) /\ finished'[q] = finished[q]
  BY <1>1, RecordsSame
<1>4. Types'
  BY <1>1 DEF Leaves, Exports, Types, VerdictSame, Places, Over
<1>5. DurableInOrder' BY <1>1, <1>2 DEF DurableInOrder
<1>6. Current'
  <2>1. CASE Leaves(p)
    BY <2>1, <1>1, <1>2, <1>3 DEF Current, AllRows, Leaves, RowsSame
  <2>2. CASE Exports(p)
    <3>1. finished[p] = TRUE BY <2>2 DEF Exports, Stages, Saving
    <3>2. AllRows' \subseteq AllRows \cup {Record(p)}
      BY <2>2, <1>1, <1>2 DEF AllRows, Exports, Put
    <3>3. Record(p).run = p BY DEF Record
    <3>4. QED BY <3>1, <3>2, <3>3, <1>3 DEF Current
  <2>3. QED BY <2>1, <2>2
<1>7. Stages'
  <2>1. \A q \in Procs : q # p => pc'[q] = pc[q]
    BY DEF Leaves, Exports, Types
  <2>2. /\ pc'[p] \in {"saveRun", "export"} \cup Over
        /\ pc'[p] \in {"saveRun", "export", "returned"} => finished[p] = TRUE
    BY DEF Leaves, Exports, Types, Stages, Judged, Saving, Over
  <2>3. \A q \in Procs :
          <<status'[q], reason'[q]>> = <<status[q], reason[q]>>
    BY <1>1 DEF VerdictSame
  <2>4. QED BY <1>1, <1>3, <2>1, <2>2, <2>3 DEF Stages, Early, Judged, Saving, Over, Final
<1>8. Announcing'
  <2>1. /\ AllRows' \subseteq AllRows \cup {Record(p)} /\ Record(p).run = p
        /\ pc'[p] # "executed" /\ \A q \in Procs : q # p => pc'[q] = pc[q]
    BY <1>1, <1>2 DEF AllRows, Leaves, Exports, RowsSame, Put, Record, Types, Over
  <2>2. QED BY <1>1, <2>1 DEF Announcing, VerdictSame
<1>9. QED BY <1>4, <1>5, <1>6, <1>7, <1>8

(* A row put in a table takes the place of the run's own, which it equals. *)
LEMMA PutCurrent ==
  ASSUME Inv, NEW p \in Procs, NEW table, table \subseteq AllRows
  PROVE  Put(table, Record(p)) = table \cup {Record(p)}
<1>1. \A r \in table : r.run = p => r = Record(p) BY DEF Inv, Current
<1>2. Record(p).run = p BY DEF Record
<1>3. QED BY <1>1, <1>2 DEF Put

(* A row is written: what it is was already decided, and the row before it *)
(* is there.                                                               *)
LEMMA WritingStep ==
  ASSUME Inv, NEW p \in Procs, SaveRun(p) \/ SaveTrace(p) \/ AddMemoryEntry(p)
  PROVE  Inv'
<1> USE DEF Inv
<1>1. VerdictSame /\ files' = files
  BY DEF SaveRun, SaveTrace, AddMemoryEntry, VerdictSame, traceVars
<1>2. \A q : Record(q)' = Record(q) /\ finished'[q] = finished[q]
  BY <1>1, RecordsSame
<1>3. /\ finished[p] = TRUE
      /\ pc[p] \in {"saveTrace", "remember"} => Record(p) \in runsTable
      /\ pc[p] = "remember" => Record(p) \in tracesTable
  BY DEF SaveRun, SaveTrace, AddMemoryEntry, Stages, Saving
<1>4. /\ Put(runsTable, Record(p)) = runsTable \cup {Record(p)}
      /\ Put(tracesTable, Record(p)) = tracesTable \cup {Record(p)}
  BY PutCurrent DEF AllRows
<1>5. \/ /\ pc[p] = "saveRun" /\ pc' = [pc EXCEPT ![p] = "saveTrace"]
         /\ runsTable' = runsTable \cup {Record(p)} /\ tracesTable' = tracesTable
         /\ memory' = memory /\ MemoryRows' = MemoryRows
      \/ /\ pc[p] = "saveTrace" /\ pc' = [pc EXCEPT ![p] = "remember"]
         /\ runsTable' = runsTable /\ tracesTable' = tracesTable \cup {Record(p)}
         /\ memory' = memory /\ MemoryRows' = MemoryRows
      \/ /\ pc[p] = "remember" /\ pc' = [pc EXCEPT ![p] = "export"]
         /\ runsTable' = runsTable /\ tracesTable' = tracesTable
         /\ memory' \in Seq(Records) /\ MemoryRows' = MemoryRows \cup {Record(p)}
  <2>1. CASE SaveRun(p)
    BY <2>1, <1>4, MemoryRowsSame DEF SaveRun, Go
  <2>2. CASE SaveTrace(p)
    BY <2>2, <1>4, MemoryRowsSame DEF SaveTrace, Go
  <2>3. CASE AddMemoryEntry(p)
    <3>1. memory \in Seq(Records) BY DEF Types
    <3>2. Record(p) \in Records BY RecordType
    <3>3. memory' = Append(memory, Record(p)) BY <2>3 DEF AddMemoryEntry
    <3>4. memory' \in Seq(Records) /\ MemoryRows' = MemoryRows \cup {Record(p)}
      BY <3>1, <3>2, <3>3, MemoryRowsAppended
    <3>5. QED BY <2>3, <3>4 DEF AddMemoryEntry, Go
  <2>4. QED BY <2>1, <2>2, <2>3
<1>6. Types'
  BY <1>1, <1>5 DEF Types, VerdictSame, Places
<1>7. DurableInOrder'
  BY <1>3, <1>5 DEF DurableInOrder
<1>8. Current'
  <2>1. AllRows' \subseteq AllRows \cup {Record(p)} BY <1>1, <1>5 DEF AllRows
  <2>2. Record(p).run = p BY DEF Record
  <2>3. QED BY <1>2, <1>3, <2>1, <2>2 DEF Current
<1>9. Stages'
  <2>1. \A q \in Procs : q # p => pc'[q] = pc[q] BY <1>5 DEF Types
  <2>2. /\ pc'[p] \in {"saveTrace", "remember", "export"}
        /\ Record(p) \in runsTable'
        /\ pc'[p] = "remember" => Record(p) \in tracesTable'
    BY <1>3, <1>5 DEF Types
  <2>3. runsTable \subseteq runsTable' /\ tracesTable \subseteq tracesTable'
    BY <1>5
  <2>4. \A q \in Procs : <<status'[q], reason'[q]>> = <<status[q], reason[q]>>
    BY <1>1 DEF VerdictSame
  <2>5. QED BY <1>2, <1>3, <2>1, <2>2, <2>3, <2>4 DEF Stages, Early, Judged, Saving, Final
<1>10. Announcing'
  <2>1. /\ AllRows' \subseteq AllRows \cup {Record(p)} /\ Record(p).run = p
        /\ pc'[p] # "executed" /\ \A q \in Procs : q # p => pc'[q] = pc[q]
    BY <1>1, <1>5 DEF AllRows, Record, Types
  <2>2. QED BY <1>1, <2>1 DEF Announcing, VerdictSame
<1>11. QED BY <1>6, <1>7, <1>8, <1>9, <1>10

(* A run that has not begun is at none of the stages.                      *)
LEMMA IdleHasNoStage ==
  ASSUME NEW p, pc[p] = "idle", finished[p] = FALSE
  PROVE  /\ pc[p] \in Early => finished[p] = FALSE
         /\ pc[p] \in Judged \cup Saving \cup {"returned"} => finished[p] = TRUE
         /\ finished[p] = TRUE => <<status[p], reason[p]>> \in Final
         /\ pc[p] \in {"saveTrace", "remember"} => Record(p) \in runsTable
         /\ pc[p] = "remember" => Record(p) \in tracesTable
<1>1. pc[p] \notin Judged \cup Saving \cup {"returned"} BY DEF Judged, Saving
<1>2. pc[p] \notin {"saveTrace", "remember"} /\ pc[p] # "remember" OBVIOUS
<1>3. ~ (finished[p] = TRUE) OBVIOUS
<1>4. QED BY <1>1, <1>2, <1>3

LEMMA InvInit == Init => Inv
<1> SUFFICES ASSUME Init PROVE Inv
  OBVIOUS
<1>1. PastRuns \subseteq Procs
  BY PastAssumption, ElementOfSeq DEF PastRuns
<1>2. \A p \in PastRuns : PastRecord(p) \in Records
  BY <1>1 DEF PastRecord, Records, Statuses, Reasons
<1>3. Len(Past) \in Nat BY PastAssumption, LenProperties
<1>4. memory \in Seq(Records)
  <2>1. memory \in [1..Len(Past) -> Records] BY <1>2 DEF Init, PastRuns
  <2>2. QED BY <1>3, <2>1, SeqDef
<1>5. Types
  BY <1>4 DEF Init, Types, Places, Over, Statuses, Reasons
<1>6. MemoryRows = {PastRecord(p) : p \in PastRuns}
  <2>1. Len(memory) = Len(Past) BY <1>3, LenProperties, <1>4 DEF Init
  <2>2. QED BY <2>1 DEF Init, MemoryRows, PastRuns
<1>7. AllRows = {PastRecord(p) : p \in PastRuns}
  BY <1>6 DEF Init, AllRows
<1>8. \A p \in PastRuns : Record(p) = PastRecord(p) /\ finished[p] = TRUE
  BY <1>1 DEF Init, Record, PastRecord
<1>9. Current
  <2>1. \A p \in PastRuns : PastRecord(p).run = p BY DEF PastRecord
  <2>2. QED BY <1>1, <1>7, <1>8, <2>1 DEF Current
<1>10. Stages
  <2>1. <<"COMPLETED", "success_criteria_met">> \in Final BY DEF Final, Verdicts
  <2>2. SUFFICES ASSUME NEW p \in Procs
                 PROVE  /\ pc[p] \in Early => finished[p] = FALSE
                        /\ pc[p] \in Judged \cup Saving \cup {"returned"} => finished[p] = TRUE
                        /\ finished[p] = TRUE => <<status[p], reason[p]>> \in Final
                        /\ pc[p] \in {"saveTrace", "remember"} => Record(p) \in runsTable
                        /\ pc[p] = "remember" => Record(p) \in tracesTable
    BY DEF Stages
  <2>3. CASE p \in PastRuns
    BY <2>1, <2>3 DEF Init, Early, Judged
  <2>4. CASE p \notin PastRuns
    <3>1. pc[p] = "idle" BY <2>4 DEF Init
    <3>2. finished[p] = FALSE
      <4>1. finished[p] = (p \in PastRuns) BY DEF Init
      <4>2. (p \in PastRuns) = FALSE BY <2>4
      <4>3. QED BY <4>1, <4>2, Zenon
    <3>3. QED BY <3>1, <3>2, IdleHasNoStage
  <2>5. QED BY <2>3, <2>4
<1>11. DurableInOrder BY <1>6 DEF Init, DurableInOrder
<1>12. Announcing BY DEF Init, Announcing
<1>13. QED BY <1>5, <1>9, <1>10, <1>11, <1>12 DEF Inv

LEMMA InvStutter ==
  ASSUME Inv, UNCHANGED vars
  PROVE  Inv'
  BY DEF Inv, Types, Stages, Announcing, Current, AllRows, MemoryRows, DurableInOrder, Record,
         vars, traceVars, dbVars

LEMMA InvNext == Inv /\ [Next]_vars => Inv'
<1> SUFFICES ASSUME Inv, [Next]_vars PROVE Inv'
  OBVIOUS
<1>1. ASSUME NEW p \in Procs, Step(p) \/ Kill(p) PROVE Inv'
  <2>1. Types BY DEF Inv
  <2>2. \/ GoesOn(p) \/ GetsVerdict(p) \/ Leaves(p) \/ Exports(p)
        \/ SaveRun(p) \/ SaveTrace(p) \/ AddMemoryEntry(p)
    BY <1>1, <2>1, StepCases
  <2>3. QED BY <2>2, UndecidedStep, LeavingStep, WritingStep
<1>2. QED BY <1>1, InvStutter DEF Next, AllOver

LEMMA Invariance == Spec => []Inv
  BY InvInit, InvNext, PTL DEF Spec

-----------------------------------------------------------------------------
(* The theorems. *)

(* However runs interleave, fail or are killed, what a run leaves in the   *)
(* database is a prefix of what it would have left.                        *)
THEOREM PersistsInOrder == Spec => []DurableInOrder
<1>1. Inv => DurableInOrder BY DEF Inv
<1>2. QED BY <1>1, Invariance, PTL

(* Only verdicts are persisted or exported, and they are those of the run. *)
THEOREM PersistsVerdicts == Spec => []OnlyVerdictsPersist
<1>1. ASSUME Inv PROVE OnlyVerdictsPersist
  <2>1. Stages /\ Current BY <1>1 DEF Inv
  <2>2. SUFFICES ASSUME NEW r \in AllRows
                 PROVE  /\ <<r.status, r.reason>> \in Final
                        /\ r = Record(r.run) /\ finished[r.run]
    BY DEF OnlyVerdictsPersist, AllRows, Final
  <2>3. r.run \in Procs /\ r = Record(r.run) /\ finished[r.run] = TRUE
    BY <2>1 DEF Current
  <2>4. r.status = status[r.run] /\ r.reason = reason[r.run]
    BY <2>3 DEF Record
  <2>5. <<status[r.run], reason[r.run]>> \in Final
    BY <2>1, <2>3 DEF Stages
  <2>6. QED BY <2>3, <2>4, <2>5
<1>2. QED BY <1>1, Invariance, PTL

(* A verdict is revised by nothing but an exception while it is announced, *)
(* before anything of it is written, and what was persisted is neither     *)
(* changed nor lost, by whichever run.                                     *)
VerdictKept(p) ==
  /\ finished'[p]
  /\ \/ status'[p] = status[p] /\ reason'[p] = reason[p]
     \/ /\ pc[p] = "executed" /\ status[p] # "FAILED"
        /\ \A r \in runsTable' \cup tracesTable' : r.run # p
        /\ status'[p] = "FAILED" /\ reason'[p] = "failed"

RowsKept ==
  /\ runsTable \subseteq runsTable' /\ tracesTable \subseteq tracesTable'
  /\ SubSeq(memory', 1, Len(memory)) = memory

LEMMA FinalStep ==
  ASSUME Inv, [Next]_vars
  PROVE  (\A p \in Procs : finished[p] => VerdictKept(p)) /\ RowsKept
<1> DEFINE Goal == (\A p \in Procs : finished[p] => VerdictKept(p)) /\ RowsKept
<1>1. memory \in Seq(Records) /\ Types /\ Stages BY DEF Inv, Types
<1>2. SubSeq(memory, 1, Len(memory)) = memory BY <1>1, SubSeqFull
<1>3. CASE UNCHANGED vars
  BY <1>2, <1>3 DEF VerdictKept, RowsKept, vars, traceVars, dbVars
<1>4. ASSUME NEW p \in Procs, Step(p) \/ Kill(p) PROVE Goal
  <2>1. CASE GoesOn(p) \/ GetsVerdict(p)
    <3>1. RowsSame /\ RowsKept
      BY <2>1, <1>2 DEF GoesOn, GetsVerdict, RowsSame, RowsKept
    <3>2. ASSUME NEW q \in Procs, q # p, finished[q] PROVE VerdictKept(q)
      BY <2>1, <3>2, <1>1 DEF GoesOn, GetsVerdict, Types, VerdictKept
    <3>3. finished[p] => pc[p] = "executed" /\ GetsVerdict(p)
      BY <2>1, <1>1 DEF GoesOn, GetsVerdict, Stages
    <3>4. finished[p] => VerdictKept(p)
      <4>1. SUFFICES ASSUME finished[p] PROVE VerdictKept(p)
        OBVIOUS
      <4>2. status[p] # "FAILED" /\ \A r \in runsTable' \cup tracesTable' : r.run # p
        BY <3>1, <3>3, <4>1 DEF Inv, Announcing, AllRows, RowsSame
      <4>3. finished'[p] /\ status'[p] = "FAILED" /\ reason'[p] = "failed"
        BY <3>3, <4>1, <1>1 DEF GetsVerdict, Types
      <4>4. QED BY <3>3, <4>1, <4>2, <4>3 DEF VerdictKept
    <3>5. QED BY <3>1, <3>2, <3>4
  <2>2. CASE Leaves(p) \/ Exports(p)
    BY <2>2, <1>2 DEF Leaves, Exports, RowsSame, VerdictSame, VerdictKept, RowsKept
  <2>3. CASE SaveRun(p) \/ SaveTrace(p)
    <3>1. /\ Put(runsTable, Record(p)) = runsTable \cup {Record(p)}
          /\ Put(tracesTable, Record(p)) = tracesTable \cup {Record(p)}
      BY PutCurrent DEF AllRows
    <3>2. QED BY <2>3, <3>1, <1>2 DEF SaveRun, SaveTrace, traceVars, VerdictKept, RowsKept
  <2>4. CASE AddMemoryEntry(p)
    <3>1. Record(p) \in Records BY <1>1, RecordType
    <3>2. memory' = Append(memory, Record(p)) BY <2>4 DEF AddMemoryEntry
    <3>3. SubSeq(memory', 1, Len(memory)) = memory
      BY <1>1, <3>1, <3>2, AppendProperties, SubSeqProperties
    <3>4. QED BY <2>4, <3>3 DEF AddMemoryEntry, traceVars, VerdictKept, RowsKept
  <2>5. QED BY <1>1, <1>4, <2>1, <2>2, <2>3, <2>4, StepCases
<1>5. QED BY <1>3, <1>4 DEF Next, AllOver

THEOREM VerdictsAreFinal == Spec => VerdictIsFinal
<1>1. Inv /\ [Next]_vars =>
        [/\ \A p \in Procs : finished[p] =>
              /\ finished'[p]
              /\ \/ status'[p] = status[p] /\ reason'[p] = reason[p]
                 \/ /\ pc[p] = "executed" /\ status[p] # "FAILED"
                    /\ \A r \in runsTable' \cup tracesTable' : r.run # p
                    /\ status'[p] = "FAILED" /\ reason'[p] = "failed"
         /\ runsTable \subseteq runsTable' /\ tracesTable \subseteq tracesTable'
         /\ SubSeq(memory', 1, Len(memory)) = memory]_vars
  BY FinalStep DEF VerdictKept, RowsKept
<1>2. QED BY <1>1, Invariance, PTL DEF Spec, VerdictIsFinal
=============================================================================
