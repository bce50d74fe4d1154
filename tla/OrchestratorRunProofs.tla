------------------------ MODULE OrchestratorRunProofs ------------------------
(***************************************************************************)
(* More theorems about the orchestrator, for any number of concurrent      *)
(* runs, any history and any recall window: the types of its variables,    *)
(* the order of validation, calls and outcomes within a run, and what runs *)
(* learn of one another through the shared memory.                         *)
(***************************************************************************)
EXTENDS OrchestratorProofs

Unplanned == {"idle", "received", "perceive", "plan", "validate"}

RunTypes ==
  /\ calls \in [Procs -> 0..MaxCalls] /\ outcomes \in [Procs -> Nat]
  /\ recalled \in [Procs -> SUBSET Procs] /\ noted \in [Procs -> SUBSET Procs]

(* A run makes no call before its plan is accepted, and has a row for each *)
(* call but the one in flight or the one that ended it.                    *)
Ordered(p) ==
  /\ pc[p] \in Unplanned => calls[p] = 0
  /\ pc[p] \in Early => reason[p] = "none"
  /\ pc[p] \in {"execute", "called"} => status[p] \in {"EXECUTING", "REFINING"}
  /\ calls[p] > 0 => /\ reason[p] # "validation_failed"
                     /\ status[p] \notin {"RECEIVED", "PERCEIVED", "PLANNED", "VALIDATED"}
  /\ pc[p] = "called" => outcomes[p] = calls[p] - 1
  /\ pc[p] # "called" /\ outcomes[p] # calls[p] =>
       /\ outcomes[p] = calls[p] - 1
       /\ pc[p] = "killed" \/ (status[p] = "FAILED" /\ reason[p] = "failed")

(* Runs that are remembered have nothing left to remember. *)
Remembered ==
  /\ RememberedOnce
  /\ \A i \in 1..Len(memory) : pc[memory[i].run] \in {"export"} \cup Over

-----------------------------------------------------------------------------
(* What is recalled is in the memory. *)

LEMMA RecalledRows ==
  ASSUME NEW p, NEW limit, NEW q \in Recall(p, limit)
  PROVE  \E r \in MemoryRows : r.run = q
<1>1. PICK e \in RetrieveMemory(memory,
                   [i \in 1..Len(memory) |-> Relevance[p][memory[i].run]], limit) : e.run = q
  BY DEF Recall
<1>2. e \in MemoryRows
  BY <1>1 DEF RetrieveMemory, Newest, MemoryRows
<1> QED
  BY <1>1, <1>2

(* A run that is remembered is another one, which has written its trace.   *)
LEMMA RecalledFinished ==
  ASSUME Inv, NEW p, NEW limit, NEW q \in Recall(p, limit)
  PROVE  /\ q \in Procs /\ finished[q] = TRUE
         /\ \E r \in tracesTable : r.run = q
<1>1. PICK r \in MemoryRows : r.run = q
  BY RecalledRows
<1>2. r \in tracesTable /\ r \in AllRows
  BY <1>1 DEF Inv, DurableInOrder, AllRows
<1> QED
  BY <1>1, <1>2 DEF Inv, Current

-----------------------------------------------------------------------------
(* One run at a time. *)

(* The other runs are left alone. *)
Alone(p) ==
  \A q \in Procs : q # p =>
    /\ pc'[q] = pc[q] /\ status'[q] = status[q] /\ reason'[q] = reason[q]
    /\ calls'[q] = calls[q] /\ outcomes'[q] = outcomes[q]
    /\ recalled'[q] = recalled[q] /\ noted'[q] = noted[q]

(* The steps that neither call, record nor recall. *)
Quiet == UNCHANGED <<calls, outcomes, recalled, noted>>

LEMMA QuietStep ==
  ASSUME Types, RunTypes, NEW p \in Procs, Quiet,
         \E there : pc' = [pc EXCEPT ![p] = there],
         \E st : status' = [status EXCEPT ![p] = st],
         \E why : reason' = [reason EXCEPT ![p] = why]
  PROVE  RunTypes' /\ Alone(p)
  BY DEF Types, RunTypes, Quiet, Alone

LEMMA SameAt ==
  ASSUME NEW f, NEW S, NEW T, f \in [S -> T], NEW x \in S
  PROVE  f = [f EXCEPT ![x] = f[x]]
  OBVIOUS

(* On its way to execution a run has made no call. *)
LEMMA OrderedBefore ==
  ASSUME Types, RunTypes, NEW p \in Procs, Ordered(p),
         Start(p) \/ StartRaises(p) \/ Receive(p) \/ ValidationPasses(p) \/ ValidationRejects(p)
  PROVE  RunTypes' /\ Alone(p) /\ Ordered(p)'
<1> USE DEF Go, dbVars
<1>1. Quiet
  BY DEF Start, StartRaises, Receive, ValidationPasses, ValidationRejects, Fail, Quiet, traceVars
<1>2. reason = [reason EXCEPT ![p] = reason[p]] /\ status = [status EXCEPT ![p] = status[p]]
  BY SameAt DEF Types
<1>3. RunTypes' /\ Alone(p)
  <2>1. \E there : pc' = [pc EXCEPT ![p] = there]
    BY DEF Start, StartRaises, Receive, ValidationPasses, ValidationRejects, Fail
  <2>2. \E st : status' = [status EXCEPT ![p] = st]
    BY <1>2 DEF Start, StartRaises, Receive, ValidationPasses, ValidationRejects, Fail, traceVars
  <2>3. \E why : reason' = [reason EXCEPT ![p] = why]
    BY <1>2 DEF Start, StartRaises, Receive, ValidationPasses, ValidationRejects, Fail, traceVars
  <2> QED
    BY <1>1, <2>1, <2>2, <2>3, QuietStep
<1>4. pc[p] \in Unplanned /\ calls[p] = 0 /\ outcomes[p] = 0 /\ reason[p] = "none"
  <2>1. pc[p] \in Unplanned
    BY DEF Start, StartRaises, Receive, ValidationPasses, ValidationRejects, Unplanned
  <2>2. calls[p] = 0 /\ reason[p] = "none" /\ pc[p] # "called"
    BY <2>1 DEF Ordered, Unplanned, Early
  <2>3. outcomes[p] = 0
    BY <2>2 DEF Ordered, RunTypes
  <2> QED
    BY <2>1, <2>2, <2>3
<1>5. calls'[p] = 0 /\ outcomes'[p] = 0
  BY <1>1, <1>4 DEF Quiet
<1>6. pc'[p] \in {"received", "raised", "perceive", "excepted"} \/
      (pc'[p] = "execute" /\ status'[p] = "EXECUTING")
  BY DEF Start, StartRaises, Receive, ValidationPasses, ValidationRejects, Fail, Types
<1>7. pc'[p] \in Early => reason'[p] = "none"
  BY <1>4 DEF Start, StartRaises, Receive, ValidationPasses, ValidationRejects, Fail, Types,
     Early, traceVars
<1>8. Ordered(p)'
  BY <1>5, <1>6, <1>7 DEF Ordered, Unplanned
<1> QED
  BY <1>3, <1>8

(* Recalling is no call either. *)
LEMMA OrderedRecall ==
  ASSUME Inv, RunTypes, NEW p \in Procs, Ordered(p), Perceive(p) \/ BuildPlan(p)
  PROVE  RunTypes' /\ Alone(p) /\ Ordered(p)'
<1> USE DEF Go, dbVars
<1>0. Types
  BY DEF Inv
<1>1. \A limit : Recall(p, limit) \subseteq Procs
  BY RecalledFinished
<1>2. /\ recalled' \in [Procs -> SUBSET Procs] /\ noted' \in [Procs -> SUBSET Procs]
      /\ UNCHANGED <<calls, outcomes, reason>>
  BY <1>1 DEF Perceive, BuildPlan, RunTypes
<1>3. RunTypes' /\ Alone(p)
  BY <1>0, <1>2 DEF Perceive, BuildPlan, RunTypes, Alone, Types
<1>4. pc[p] \in {"perceive", "plan"} /\ pc'[p] \in {"plan", "validate"}
  BY <1>0 DEF Perceive, BuildPlan, Types
<1>5. Ordered(p)'
  BY <1>2, <1>4 DEF Ordered, Unplanned, Early
<1> QED
  BY <1>3, <1>5

LEMMA OrderedCall ==
  ASSUME Types, RunTypes, NEW p \in Procs, Ordered(p), CallTool(p) \/ SaveToolOutcome(p)
  PROVE  RunTypes' /\ Alone(p) /\ Ordered(p)'
<1> USE DEF Go
<1>1. CASE CallTool(p)
  <2>1. /\ pc[p] = "execute" /\ pc'[p] = "called" /\ calls[p] < MaxCalls
        /\ status'[p] = "EXECUTING" /\ calls'[p] = calls[p] + 1
        /\ UNCHANGED <<reason, outcomes, recalled, noted>>
    BY <1>1 DEF CallTool, Types, RunTypes, dbVars
  <2>2. calls[p] \in 0..MaxCalls /\ MaxCalls \in Nat
    BY MaxCallsAssumption DEF RunTypes
  <2>3. calls' \in [Procs -> 0..MaxCalls]
    BY <1>1, <2>1, <2>2 DEF CallTool, RunTypes
  <2>4. RunTypes' /\ Alone(p)
    BY <1>1, <2>1, <2>3 DEF CallTool, RunTypes, Alone, Types
  <2>5. outcomes[p] = calls[p] /\ reason[p] = "none"
    BY <2>1 DEF Ordered, Early
  <2>6. Ordered(p)'
    BY <2>1, <2>2, <2>5 DEF Ordered, Unplanned
  <2> QED
    BY <2>4, <2>6
<1>2. CASE SaveToolOutcome(p)
  <2>1. /\ pc[p] = "called" /\ pc'[p] = "execute"
        /\ status'[p] \in {"EXECUTING", "REFINING"} /\ outcomes'[p] = outcomes[p] + 1
        /\ UNCHANGED <<reason, calls, recalled, noted>>
    BY <1>2 DEF SaveToolOutcome, Types, RunTypes
  <2>2. outcomes[p] \in Nat /\ outcomes' \in [Procs -> Nat]
    BY <1>2, <2>1 DEF SaveToolOutcome, RunTypes
  <2>3. RunTypes' /\ Alone(p)
    BY <1>2, <2>1, <2>2 DEF SaveToolOutcome, RunTypes, Alone, Types
  <2>4. outcomes[p] = calls[p] - 1 /\ reason[p] = "none" /\ calls[p] \in 0..MaxCalls
    BY <2>1 DEF Ordered, Early, RunTypes
  <2>5. outcomes'[p] = calls'[p]
    BY <2>1, <2>2, <2>4, MaxCallsAssumption
  <2>6. Ordered(p)'
    BY <2>1, <2>4, <2>5 DEF Ordered, Unplanned
  <2> QED
    BY <2>3, <2>6
<1> QED
  BY <1>1, <1>2

(* A verdict after calls is never the rejection of the plan, and an        *)
(* outcome is missing only where an exception ended the run.               *)
LEMMA OrderedVerdict ==
  ASSUME Types, RunTypes, NEW p \in Procs, Ordered(p), PhaseRaises(p) \/ ExecutorReturns(p)
  PROVE  RunTypes' /\ Alone(p) /\ Ordered(p)'
<1> USE DEF Go, dbVars
<1>1. Quiet
  BY DEF PhaseRaises, ExecutorReturns, Fail, Quiet
<1>2. RunTypes' /\ Alone(p)
  <2>1. /\ \E there : pc' = [pc EXCEPT ![p] = there]
        /\ \E st : status' = [status EXCEPT ![p] = st]
        /\ \E why : reason' = [reason EXCEPT ![p] = why]
    BY DEF PhaseRaises, ExecutorReturns, Fail
  <2> QED
    BY <1>1, <2>1, QuietStep
<1>3. pc'[p] \in {"executed", "excepted"}
  BY DEF PhaseRaises, ExecutorReturns, Fail, Types
<1>4. CASE PhaseRaises(p)
  <2>1. status'[p] = "FAILED" /\ reason'[p] = "failed"
    BY <1>4 DEF PhaseRaises, Fail, Types
  <2> QED
    BY <1>1, <1>2, <1>3, <2>1 DEF Ordered, Unplanned, Early, Quiet
<1>5. CASE ExecutorReturns(p)
  <2>1. /\ pc[p] = "execute" /\ status'[p] \in {"COMPLETED", "STOPPED"}
        /\ reason'[p] # "validation_failed"
    BY <1>5 DEF ExecutorReturns, Verdicts, Types
  <2>2. outcomes[p] = calls[p]
    BY <2>1 DEF Ordered
  <2> QED
    BY <1>1, <1>2, <1>3, <2>1, <2>2 DEF Ordered, Unplanned, Early, Quiet
<1> QED
  BY <1>4, <1>5

(* Once the verdict is there neither it nor the counts change.             *)
LEMMA OrderedAfter ==
  ASSUME Types, RunTypes, NEW p \in Procs, Ordered(p),
         \/ LogVerdict(p) \/ ErrorLogRaises(p)
         \/ SaveRun(p) \/ SaveTrace(p) \/ AddMemoryEntry(p) \/ PersistFails(p)
         \/ ExportTrace(p) \/ ReturnWithoutExport(p) \/ ExportRaises(p) \/ Kill(p)
  PROVE  RunTypes' /\ Alone(p) /\ Ordered(p)'
<1> USE DEF Go, dbVars, traceVars
<1>1. Quiet /\ UNCHANGED <<status, reason>>
  BY DEF LogVerdict, ErrorLogRaises, SaveRun, SaveTrace, AddMemoryEntry, PersistFails,
     ExportTrace, ReturnWithoutExport, ExportRaises, Kill, Quiet
<1>2. reason = [reason EXCEPT ![p] = reason[p]] /\ status = [status EXCEPT ![p] = status[p]]
  BY SameAt DEF Types
<1>3. PICK there \in Saving \cup Over : pc' = [pc EXCEPT ![p] = there]
  BY DEF LogVerdict, ErrorLogRaises, SaveRun, SaveTrace, AddMemoryEntry, PersistFails,
     ExportTrace, ReturnWithoutExport, ExportRaises, Kill, Saving, Over
<1>4. RunTypes' /\ Alone(p)
  BY <1>1, <1>2, <1>3, QuietStep
<1>5. \/ pc'[p] = "killed"
      \/ pc[p] \in Judged \cup Saving /\ pc'[p] \in Saving \cup {"returned", "raised"}
  BY DEF LogVerdict, ErrorLogRaises, SaveRun, SaveTrace, AddMemoryEntry, PersistFails,
     ExportTrace, ReturnWithoutExport, ExportRaises, Kill, Judged, Saving, Types
<1>6. Ordered(p)'
  BY <1>1, <1>5 DEF Ordered, Unplanned, Early, Judged, Saving, Quiet
<1> QED
  BY <1>4, <1>6

OrderInv == RunTypes /\ \A p \in Procs : Ordered(p)

LEMMA OrderNext == Inv /\ OrderInv /\ [Next]_vars => OrderInv'
<1> SUFFICES ASSUME Inv, OrderInv, [Next]_vars PROVE OrderInv'
  OBVIOUS
<1>1. Types
  BY DEF Inv
<1>2. ASSUME NEW p \in Procs, Step(p) \/ Kill(p) PROVE OrderInv'
  <2>1. RunTypes' /\ Alone(p) /\ Ordered(p)'
    BY <1>1, <1>2, OrderedBefore, OrderedRecall, OrderedCall, OrderedVerdict, OrderedAfter
       DEF Step, OrderInv
  <2>2. ASSUME NEW q \in Procs, q # p PROVE Ordered(q)'
    <3>1. Ordered(q)
      BY DEF OrderInv
    <3>2. /\ pc'[q] = pc[q] /\ status'[q] = status[q] /\ reason'[q] = reason[q]
          /\ calls'[q] = calls[q] /\ outcomes'[q] = outcomes[q]
      BY <2>1, <2>2 DEF Alone
    <3> QED
      BY <3>1, <3>2 DEF Ordered
  <2> QED
    BY <2>1, <2>2 DEF OrderInv
<1>3. CASE UNCHANGED vars
  BY <1>3 DEF vars, traceVars, dbVars, OrderInv, RunTypes, Ordered
<1> QED
  BY <1>2, <1>3 DEF Next, AllOver

LEMMA OrderInit == Init => OrderInv
<1> SUFFICES ASSUME Init PROVE OrderInv
  OBVIOUS
<1>1. RunTypes
  BY MaxCallsAssumption DEF Init, RunTypes
<1>2. ASSUME NEW p \in Procs PROVE Ordered(p)
  <2>1. calls[p] = 0 /\ outcomes[p] = 0 /\ pc[p] \in {"idle", "returned"}
        /\ (pc[p] = "idle" => reason[p] = "none")
    BY DEF Init
  <2> QED
    BY <2>1 DEF Ordered, Early
<1> QED
  BY <1>1, <1>2 DEF OrderInv

LEMMA OrderAlways == Spec => []OrderInv
  BY OrderInit, OrderNext, Invariance, PTL DEF Spec

(* The variables of the orchestrator have their types. *)
THEOREM TypeCorrect == Spec => []TypeOK
<1>1. ASSUME Inv, OrderInv PROVE TypeOK
  <2>1. \A r \in AllRows : r \in Records
    <3> SUFFICES ASSUME NEW r \in AllRows PROVE r \in Records
      OBVIOUS
    <3>1. r.run \in Procs /\ r = Record(r.run)
      BY <1>1 DEF Inv, Current
    <3> QED
      BY <1>1, <3>1, RecordType DEF Inv
  <2> QED
    BY <1>1, <2>1 DEF TypeOK, Inv, Types, OrderInv, RunTypes, AllRows
<1> QED
  BY <1>1, OrderAlways, Invariance, PTL

(* A plan that validation rejected, or that was never validated, is not    *)
(* executed, whatever raises and wherever.                                 *)
THEOREM ValidationComesFirst == Spec => []NoCallWithoutValidation
<1>1. OrderInv => NoCallWithoutValidation
  BY DEF OrderInv, Ordered, NoCallWithoutValidation
<1> QED
  BY <1>1, OrderAlways, PTL

(* Of the calls of a run at most the last has no outcome row, and then     *)
(* only in flight, killed, or failed by it.                                *)
THEOREM OutcomesKeepUp == Spec => []OutcomesFollowCalls
<1>1. ASSUME OrderInv, NEW p \in Procs
      PROVE  /\ outcomes[p] \in {calls[p], calls[p] - 1}
             /\ outcomes[p] < calls[p] =>
                  pc[p] \in {"called", "killed"} \/ <<status[p], reason[p]>> = <<"FAILED", "failed">>
  <2>1. Ordered(p) /\ calls[p] \in Nat /\ outcomes[p] \in Nat
    BY <1>1, MaxCallsAssumption DEF OrderInv, RunTypes
  <2> QED
    BY <2>1 DEF Ordered
<1>2. OrderInv => OutcomesFollowCalls
  BY <1>1 DEF OutcomesFollowCalls
<1> QED
  BY <1>2, OrderAlways, PTL

-----------------------------------------------------------------------------
(* Memory entries. *)

LEMMA EndsFromExport ==
  ASSUME Types, NEW p \in Procs, Step(p) \/ Kill(p), pc[p] = "export"
  PROVE  pc'[p] \in Over
  BY DEF Step, Start, StartRaises, Receive, Perceive, BuildPlan, ValidationPasses,
     ValidationRejects, PhaseRaises, InTheTry, CallTool, SaveToolOutcome, ExecutorReturns,
     LogVerdict, ErrorLogRaises, SaveRun, SaveTrace, AddMemoryEntry, PersistFails, ExportTrace,
     ReturnWithoutExport, ExportRaises, Kill, Go, Types, Over

(* A run that has exported, or failed to persist, has only to end.         *)
LEMMA EndingStep ==
  ASSUME Types, NEW p \in Procs, Step(p) \/ Kill(p)
  PROVE  /\ pc[p] \notin Over
         /\ pc[p] = "export" => pc'[p] \in Over
         /\ \A q \in Procs : q # p => pc'[q] = pc[q]
<1>1. CASE GoesOn(p) \/ GetsVerdict(p)
  BY <1>1 DEF GoesOn, GetsVerdict, Types, Early, Judged, Over
<1>2. CASE Exports(p)
  BY <1>2 DEF Exports, Types, Over
<1>3. CASE SaveRun(p) \/ SaveTrace(p) \/ AddMemoryEntry(p)
  BY <1>3 DEF SaveRun, SaveTrace, AddMemoryEntry, Go, Types, Over
<1>4. CASE Leaves(p)
  <2>1. pc[p] \notin Over /\ \A q \in Procs : q # p => pc'[q] = pc[q]
    BY <1>4 DEF Leaves, Types, Judged, Saving, Early, Over
  <2>2. CASE pc[p] = "export"
    <3>1. pc'[p] \in Over
      BY <2>2, EndsFromExport
    <3> QED
      BY <2>1, <3>1
  <2> QED
    BY <2>1, <2>2
<1> QED
  BY <1>1, <1>2, <1>3, <1>4, StepCases

LEMMA RememberedNext == Inv /\ Remembered /\ [Next]_vars => Remembered'
<1> SUFFICES ASSUME Inv, Remembered, [Next]_vars PROVE Remembered'
  OBVIOUS
<1>0. /\ Types /\ memory \in Seq(Records) /\ Len(memory) \in Nat
      /\ \A i \in 1..Len(memory) : memory[i].run \in Procs
  <2>1. Types /\ memory \in Seq(Records) /\ Len(memory) \in Nat
    BY LenProperties DEF Inv, Types
  <2>2. \A i \in 1..Len(memory) : memory[i] \in Records
    BY <2>1, ElementOfSeq
  <2> QED
    BY <2>1, <2>2 DEF Records
<1>1. ASSUME NEW p \in Procs, Step(p) \/ Kill(p) PROVE Remembered'
  <2>1. \A i \in 1..Len(memory) : pc'[memory[i].run] \in {"export"} \cup Over
    BY <1>0, <1>1, EndingStep DEF Remembered
  <2>2. CASE AddMemoryEntry(p)
    <3>1. /\ pc[p] = "remember" /\ pc'[p] = "export"
          /\ memory' = Append(memory, Record(p))
      BY <1>0, <2>2 DEF AddMemoryEntry, Go, Types
    <3>2. /\ Len(memory') = Len(memory) + 1 /\ memory'[Len(memory) + 1].run = p
          /\ \A i \in 1..Len(memory) : memory'[i] = memory[i]
      BY <1>0, <3>1, RecordType, AppendProperties DEF Record
    <3>3. \A i \in 1..Len(memory) : memory[i].run # p
      BY <3>1 DEF Remembered, Over
    <3>4. \A i, j \in 1..Len(memory) : memory[i].run = memory[j].run => i = j
      BY DEF Remembered, RememberedOnce
    <3>5. \A i \in 1..Len(memory') : i \in 1..Len(memory) \/ i = Len(memory) + 1
      BY <1>0, <3>2
    <3>6. RememberedOnce'
      BY <3>2, <3>3, <3>4, <3>5 DEF RememberedOnce
    <3>7. \A i \in 1..Len(memory') : pc'[memory'[i].run] \in {"export"} \cup Over
      BY <2>1, <3>1, <3>2, <3>5
    <3> QED
      BY <3>6, <3>7 DEF Remembered
  <2>3. CASE ~AddMemoryEntry(p)
    <3>1. memory' = memory
      BY <1>0, <1>1, <2>3, StepCases DEF GoesOn, GetsVerdict, Leaves, Exports, RowsSame,
         SaveRun, SaveTrace
    <3> QED
      BY <2>1, <3>1 DEF Remembered, RememberedOnce
  <2> QED
    BY <2>2, <2>3
<1>2. CASE UNCHANGED vars
  BY <1>2 DEF vars, dbVars, Remembered, RememberedOnce
<1> QED
  BY <1>1, <1>2 DEF Next, AllOver

(* Runs that ended before are remembered once each; no later run is        *)
(* remembered twice, whatever fails while it is persisted.                 *)
THEOREM RunsAreRememberedOnce == Spec => []RememberedOnce
<1>1. Init => Remembered
  <2> SUFFICES ASSUME Init PROVE Remembered
    OBVIOUS
  <2>1. Past \in Seq(Procs) /\ Len(Past) \in Nat
        /\ \A i \in 1..Len(Past) : Past[i] \in Procs /\ Past[i] \in PastRuns
    BY PastAssumption, LenProperties, ElementOfSeq DEF PastRuns
  <2>2. Len(memory) = Len(Past) /\ \A i \in 1..Len(Past) : memory[i].run = Past[i]
    <3>1. memory = [i \in 1..Len(Past) |-> PastRecord(Past[i])]
      BY DEF Init
    <3>2. DOMAIN memory = 1..Len(Past)
      BY <3>1
    <3>3. memory \in Seq(Records)
      BY InvInit DEF Inv, Types
    <3>4. DOMAIN memory = 1..Len(memory) /\ Len(memory) \in Nat
      BY <3>3, LenProperties
    <3>5. Len(memory) = Len(Past)
      BY <2>1, <3>2, <3>4
    <3> QED
      BY <3>1, <3>5 DEF PastRecord
  <2>3. \A i \in 1..Len(Past) : pc[Past[i]] = "returned"
    BY <2>1 DEF Init
  <2> QED
    BY <2>2, <2>3, PastAssumption DEF Remembered, RememberedOnce, Over
<1>2. Remembered => RememberedOnce
  BY DEF Remembered
<1> QED
  BY <1>1, <1>2, RememberedNext, Invariance, PTL DEF Spec

-----------------------------------------------------------------------------
(* Recall. *)

(* Whom run p has read of. *)
Known(p) == recalled[p] \cup noted[p]

LEMMA RecallNext ==
  Inv /\ OrderInv /\ RecallsOnlyThePast /\ [Next]_vars => RecallsOnlyThePast'
<1> SUFFICES ASSUME Inv, OrderInv, RecallsOnlyThePast, [Next]_vars
             PROVE  RecallsOnlyThePast'
  OBVIOUS
<1>0. Types /\ tracesTable \subseteq tracesTable'
  BY FinalStep DEF Inv, RowsKept
<1>1. ASSUME NEW p \in Procs, NEW q \in Procs, q \in Known(p)
      PROVE  (\E r \in tracesTable : r.run = q) /\ p \notin Known(q)
  BY <1>1 DEF RecallsOnlyThePast, Known
<1>2. CASE UNCHANGED <<recalled, noted>>
  BY <1>0, <1>2 DEF RecallsOnlyThePast
<1>3. ASSUME NEW p \in Procs, Perceive(p) \/ BuildPlan(p)
      PROVE  RecallsOnlyThePast'
  <2>0. recalled \in [Procs -> SUBSET Procs] /\ noted \in [Procs -> SUBSET Procs]
    BY DEF OrderInv, RunTypes
  <2>1. /\ finished[p] = FALSE
        /\ \A q \in Procs : q # p => Known(q)' = Known(q)
    <3>1. finished[p] = FALSE
      BY <1>3 DEF Perceive, BuildPlan, Inv, Stages, Early
    <3>2. \A q \in Procs : q # p => recalled'[q] = recalled[q] /\ noted'[q] = noted[q]
      BY <1>3, <2>0 DEF Perceive, BuildPlan
    <3> QED
      BY <3>1, <3>2 DEF Known
  <2>2. \A q \in Procs : q \in Known(p)' =>
          \/ q \in Known(p)
          \/ finished[q] = TRUE /\ \E r \in tracesTable : r.run = q
    <3>1. Known(p)' \subseteq Known(p) \cup Recall(p, 3) \cup Recall(p, 2)
      <4>1. \/ recalled'[p] = Recall(p, 3) /\ noted'[p] = noted[p]
            \/ recalled'[p] = recalled[p] /\ noted'[p] = Recall(p, 2)
        BY <1>3, <2>0 DEF Perceive, BuildPlan
      <4> QED
        BY <4>1 DEF Known
    <3> QED
      BY <3>1, RecalledFinished
  <2>3. \A q \in Procs : p \notin Known(q)
    <3> SUFFICES ASSUME NEW q \in Procs, p \in Known(q) PROVE FALSE
      OBVIOUS
    <3>1. PICK r \in tracesTable : r.run = p
      BY <1>1
    <3> QED
      BY <2>1, <3>1 DEF Inv, Current, AllRows
  <2>4. \A q \in Procs : q \in Known(p)' => q # p /\ \E r \in tracesTable : r.run = q
    BY <1>1, <2>1, <2>2, <2>3
  <2>5. ASSUME NEW a \in Procs, NEW b \in Procs, b \in Known(a)'
        PROVE  (\E r \in tracesTable' : r.run = b) /\ a \notin Known(b)'
    <3>1. CASE a = p
      BY <1>0, <2>1, <2>3, <2>4, <2>5, <3>1
    <3>2. CASE a # p
      <4>1. b \in Known(a) /\ b # p
        BY <2>1, <2>3, <2>5, <3>2
      <4> QED
        BY <1>0, <1>1, <2>1, <4>1
    <3> QED
      BY <3>1, <3>2
  <2> QED
    BY <2>5 DEF RecallsOnlyThePast, Known
<1>4. ASSUME NEW p \in Procs, Step(p) \/ Kill(p), ~(Perceive(p) \/ BuildPlan(p))
      PROVE  UNCHANGED <<recalled, noted>>
  BY <1>4 DEF Step, Start, StartRaises, Receive, ValidationPasses, ValidationRejects,
     PhaseRaises, Fail, CallTool, SaveToolOutcome, ExecutorReturns, LogVerdict, ErrorLogRaises,
     SaveRun, SaveTrace, AddMemoryEntry, PersistFails, ExportTrace, ReturnWithoutExport, ExportRaises, Kill
<1> QED
  BY <1>2, <1>3, <1>4 DEF Next, AllOver, vars

(* A run learns of runs that had finished and recorded, never of itself;   *)
(* of two concurrent runs at most one learns of the other.                 *)
THEOREM RecallIsOfThePast == Spec => []RecallsOnlyThePast
<1>1. Init => RecallsOnlyThePast
  BY DEF Init, RecallsOnlyThePast
<1> QED
  BY <1>1, RecallNext, OrderAlways, Invariance, PTL DEF Spec
=============================================================================
