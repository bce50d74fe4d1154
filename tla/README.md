# maoo in TLA+

maoo is a small agent orchestrator. It takes a goal in natural language, works
out success criteria and a plan by keyword rules, validates the plan against a
policy, executes it step by step through tools (HTTP, SQLite, files,
calculation, summaries), reacts to failures by retrying, replanning, skipping
or stopping, and records everything in a trace and a SQLite database. It brings
a mock HTTP server with injected faults and an evaluation suite of 24 scenarios.

This directory holds TLA+ modules translated from the source, configurations
that check them with TLC on small instances, and proofs checked by TLAPS. All
paths and line numbers below are relative to the repository (`src/` here).

Contents: [inventory](#1-inventory), [modules](#2-modules-and-how-they-correspond-to-the-code),
[runs](#3-runs-properties-and-bounds), [fairness](#4-fairness),
[proofs](#5-what-is-proved), [disagreements found](#6-disagreements-between-code-and-documentation),
[what is not modelled](#7-what-is-not-modelled), [plan](#8-plan).

## 1. Inventory

| component | state it keeps | operations | what makes it correct | status |
|---|---|---|---|---|
| executor (`execution/executor.py`) | step list, step index, completed steps, cost, trace | `run`: loop-head guards, tool call, outcome row, credit, retry, replan, skip, stop | limits are never passed, accounts agree, verdicts are justified, it terminates | modelled |
| monitors (`execution/monitors.py`) | none | `evaluate_tool_call`, `detect_non_progress` | every failure has one signal, with the right retryability | modelled |
| refinement engine (`execution/refinement.py`) | none | `decide`, `_patch_args` | bounded retries; replanning where it helps | modelled |
| short-term memory (`memory/short_term.py`) | retry counts, signatures, observations, flags | mark, count, record | counts are counts of what happened | partly |
| orchestration (`main.py`) | trace, phase | `run_orchestration` | one final verdict, whatever raises | modelled |
| long-term memory (`memory/long_term.py`, `sql/`) | tables `runs`, `traces`, `tool_outcomes`, `memory_entries`, `eval_results` | save, add, get | rows are those of finished runs, in order | partly |
| retrieval (`memory/retrieval.py`) | none | `retrieve_memory` | recalls the past only | modelled |
| perception (`perception/`) | none | intent, classification, state | criteria that the plan can meet | partly |
| planner (`planning/planner.py`) | none | `build_plan`, `replan_remaining` | plans that validation accepts and that meet the criteria | modelled |
| validation and policy (`planning/plan_validator.py`, `policy.py`) | none | `validate_plan`, `validate_step` | nothing unacceptable is called; the policy and the tools' own guards agree | modelled |
| plan critic (`planning/critic.py`) | none | `critique` | - (nothing calls it) | not modelled |
| tool registry, schemas (`execution/tool_registry.py`, `tool_schemas.py`) | constant catalogue | lookup, argument validation | | partly |
| tools (`execution/tools/`) | none of their own; files, database, requests | one function per tool | each outcome has its status; effects stay where they are allowed; a write is whole | modelled |
| mock API (`mock_api/`) | hit counters | endpoints with faults | faults happen when and only when they are meant to, however many ask | modelled |
| evaluation (`eval/`) | results, trace files, summary, `eval_results` | run, export, score and record scenarios | scenarios influence each other only through counters and recalled memory; a summary is of one round | modelled |
| CLI, scripts | none | arguments, rendering | | not modelled |
| language model providers (`llm/`) | none | `get_provider`, `generate_text` | a remote model is asked only where configured | partly |
| configuration (`core/config.py`) | none | environment to flags, hosts, numbers | defaults are the safe ones | partly |
| logging, metrics, tracing (`core/`) | run counters | count, log | a log entry that cannot be written loses no account | partly |

How they interact. `run_orchestration` opens the database and goes through
perception, planning, validation and execution in one thread, by plain calls;
perception and planner read `memory_entries`; the executor calls tools, writes
a `tool_outcomes` row after each call, asks the monitors and the refinement
engine about failures, and the planner, which reads the memory again, for new
steps; every phase writes log entries to a file and to standard output; afterwards the trace, its
`runs` row and a memory entry are written and the trace is exported. Processes
share the database file; all HTTP calls share the mock server and its counters.

What is hard about it:

* three stop rules, two comparisons of the same retry limit and a textual
  success test are looked at in a fixed order, and every way of handling a
  failure returns to the same loop head: termination and the accounts rest on
  their interplay;
* replanning replaces the list while the index, the retry counts by step id and
  the completed count stay;
* the reads and log entries in between may raise, where a call has been paid for
  but not all of its records are made, or where the verdict is already given;
* persistence is several transactions, each of which may fail or be the last
  before the process dies, with other processes reading in between;
* HTTP requests are retried although an answer may only have been lost;
* the server handles requests in a pool of threads that share its counters, some
  of them sleeping, some of them for clients that have given up; its counters
  outlive everything else but the server itself;
* what a step may do is decided twice, by the policy when the plan is validated
  and by the tool when it is called, in different ways; replanned steps meet only
  the second;
* what policy takes for a read-only statement includes PRAGMAs, which can change
  the database's settings;
* a file is written in four calls to the file system, between which other
  processes write;
* an evaluation round is a loop without a try: rows and files of a round that
  was ended by an exception stay beside those of other rounds, a file perhaps
  cut off; and what earlier scenarios asked for is recalled by later ones, in
  whose success test its wording takes part.

`PROJECT.json` lists each of these hazards at its line with the properties that
are about it.

## 2. Modules and how they correspond to the code

```
Counters, Monitors, Refinement ── Executor ─┬─ ExecutorProofs ── ExecutorTraceProofs
                                     │ ▲    ├─ MCExecutor
                        implemented by │    └─ implements BoundedRun
Policy ─┬─ Planner ──────────────────┤ │
        └─ LocalTools ───────────────┼─┴ Pipeline ─┬─ MCPipeline
Settings ────────────────────────────┤             ├─ PipelineProofs (with ExecutorTraceProofs)
MockApi ─────────────────────────────┘             └─ Suite ─┬─ SuiteProofs
                                                             └─ MCSuite

LocalTools, Settings ── Admission ─┬─ AdmissionProofs
                                   └─ MCAdmission
MockApi ── MockServer ─┬─ MockServerProofs
                       └─ MCMockServer
Retrieval ── Orchestrator ─┬─ OrchestratorProofs ── OrchestratorRunProofs
                           └─ MCOrchestrator
```

Suite uses Retrieval, too.

* **Counters**: the dictionaries that count (retries, signatures, hits).
* **Monitors**, **Refinement**: the decisions of the two classes as operators.
  `MaxTimeout` is the 10 seconds of `_patch_args`; times are in seconds in
  `MCExecutor` and in tenths of a second (`MaxTimeout = 100`) in the pipeline.
* **Executor**: `Executor.run`. `pc` splits one iteration of the loop where it
  can be left: "head" (guards and call), "called" (the outcome row), "saved"
  (handling of the outcome). At each of them an exception can leave `run`:
  `StepStartRaises` is the log entry before the call, `SaveOutcomeRaises` the row,
  and `ReplanRaises` the planner's reading of the memory, after the row is saved
  and the signature counted and before anything else of the failure is recorded
  (`pc` = "unlogged", "unsaved", "undecided"). The guards `StopOnSuccess`,
  `StopOnMaxSteps`, `StopOnBudget`, `CallTool` are in the order of the code, each
  excluding the ones before it; `OnSuccess`, `StopNonProgress`,
  `StopMaxRetries`, `PatchAndRetry`, `ReplanRemaining`, `SkipStep` and `Abort`
  are the other branches that handle an outcome; `PlanExhausted` is what comes after
  the loop. The tool's answer is chosen from the statuses its handler can end
  with. The short-term memory's fields are the executor's variables, because
  nothing else uses them.
* **BoundedRun**: the promise to a caller, without steps, tools or refinement:
  paid attempts while the budget is not spent, credits up to `max_steps`, and
  one verdict that names a limit only when it was reached. `Executor!Promise`
  is the refinement mapping.
* **Retrieval**: the window of newest rows, the ranking, the limit. It is given
  the number of tokens two texts share: a table in the orchestrator, in the suite
  the intersection of the texts' token sets.
* **Orchestrator**: `run_orchestration` of several processes over one database.
  One action per phase, per except branch and per SQL statement that commits.
  "executed" and "excepted" are where a verdict is there and its log entry is to be
  written: the first is still in the try, so that `PhaseRaises` revises the verdict
  to FAILED there; the second is not, nor is the entry about a statement that
  failed, so that `ErrorLogRaises` ends the run in that exception.
  The executor is there by its calls, its rows and its possible verdicts; that it
  gives no others is what `VerdictJustified` is about.
* **Planner**: from the words of a goal to criteria, plan, replanned steps and
  validation, as functions. A goal is the set of words the keyword tests tell
  apart, with a URL and an expression. `Work` is the steps its words ask for,
  `Pieces` those with what frames them, `BuildPlan` numbers them.
* **Policy**: `PolicyEngine` as operators over structured arguments: a URL is
  scheme and host, a path its parts, a statement its verb and the read-only flag,
  an expression its syntax tree.
* **LocalTools**: what the tools decide from their arguments alone: `calc`
  evaluates a tree, where a value is what division and size make of a number;
  `file_write` resolves a path and looks whether it has left its root.
* **Settings**: from the environment to the configuration (what parses as true,
  which texts raise, which hosts are allowed, which may be anybody's), and from
  there to the language model and what `summarize` can end with.
* **MockApi**: the server's answers and counters, and what the HTTP tools make
  of an answer, a late answer, none, or one that got lost (after which the server
  has counted the request, whether the tool reports a timeout or an error). One
  request at a time.
* **MockServer**: the same server with many requests at a time. `TakeRequest`,
  the bump, `WakeUp` and `Answer` are the steps of a handler in its thread;
  `Send` and `GiveUp` those of a client, an executor with one HTTP step, which
  tries again while its old request is still being handled; `Crash` loses the
  counters, and connections are refused until `ComeUp`. `bump` is one action with
  a global interpreter lock, where threads change only at calls and backward
  jumps; without one it is the read, the write and the read again that
  `mock_api/state.py:11` and the line after it consist of.
* **Pipeline**: Executor, Planner, MockApi, LocalTools and Settings together. A
  call's outcome comes from the server or from the tool; `replan_remaining` comes
  from the planner. A job says goal, configuration, language model, whether
  the network loses messages, and which criteria are spelled out in what the run
  begins with, its goal and what it recalls (`mentioned`). `Executes` is the executor
  inside it, for which a rejected run is one that has not started. The database is
  taken to answer and the log to take its entries here: what happens when they do
  not is the executor's and the orchestrator's.
* **Admission**: what is between a step and its effect. `StartRun` loads the
  settings and makes the language model, `Admit` is the policy (which replanned
  steps do not meet), and the calls are the tools with their own guards. `CallDb`
  tells a query from a statement that changes data and from a PRAGMA, which is
  taken for a query and may change the database's settings.
  `file_write_tool` is `MakeDirs`, `Look`, `OpenFile` and `WriteContent`, its
  calls to the file system, so that two processes can write between each other's
  calls, and `Kill` can end one there.
* **Suite**: Pipeline with the loop of `eval/runner.py` around it. `KeepTrace`,
  `ExportTrace`, `ScoreTrace`, `SaveEvalResult` and `ExportSummary` are what it
  does after a run, `RunnerRaises` is an exception in any of them, which may leave
  the file that was being written cut off. Each scenario starts anew but for the
  server, the files and the memory: `KeepTrace` leaves the tokens of the run's entry
  (`EntryTokens`), `Recalled` is the entries that perception finds for the next
  request, and `MentionedIn` the criteria whose wording they bring into its state.

Some definitions precede a namesake and are used by nothing
(`BudgetSpentLate`, then `BudgetSpent`). Each is a mistake the code avoids; with
it in place of the real one some property fails, which shows that the property
does depend on the code. `PROJECT.json` ("mutants") says which.

## 3. Runs, properties and bounds

Every cfg is named after its module and, when it checks a promise the code does
not keep, after the property.

| run | states | what it asks |
|---|---|---|
| `MCExecutor` | 177,605 | nine families of plans under all limits, any answer of the tools, any exception |
| `MCOrchestrator` | 357,771 | two processes, a history of two runs, any failure and kill |
| `MCPipeline` | 239,944 | all goals against the mock server; those that submit or replan also over a lossy network, some with criteria spelled out |
| `MCSuite` | 8,874 | the scenario file and three scenarios more, twice, against one server, fresh or asked before, a round possibly ended by an exception |
| `MCMockServer` | 706,507 | three clients, two threads, a crash, with and without the interpreter lock |
| `MCAdmission` | 100,751 | settings, policy and tools over all small arguments; pairs of writers |

**Executor.** The families in `MCExecutor` are the plans in which one rule
matters: replan then write, submit then replan, skip then timeouts, a timeout
above the cap, no progress, too many steps, early success, an empty plan, and a
replan that does not help. Each has at most three steps and runs under all
combinations of `max_steps` 1 and 4, `max_retries` 0, 2 and 4, budgets 3 and 8,
costs 1 and 2, thresholds 1 and 3. These put each limit first in some run and
last in others: budget 3 is no multiple of cost 2 (overdraft), `max_retries` 0 is
below the first attempt, 4 lets the non-progress rule come first, and the budget
bounds the number of calls to 8. Nothing else is bounded. Checked: the budget is
overdrawn by less than one call and every call is paid for; index, credits,
observations and skips agree; trace, events and table agree, and an exception
leaves them apart by exactly what it came before; attempt numbers stay within the
limit across replans, which go on from where the id was (this bounds the retries
that are marked, not how often an id is called: a replan marks none, and what
bounds calls is the budget and the next property but one); signatures count failures, and one call
fails at most `2 * threshold + 1` times (twice because replanned arguments lack
the defaults that validation spells out, so the same call has two signatures);
a summary is made of all observations so far; each verdict goes with its facts;
only malformed responses are replanned; claimed success has grounds; the past
is not rewritten; it terminates; it is a `BoundedRun`.

**Orchestrator.** Two live processes are the fewest that can recall each other,
overtake each other and die between each other's statements; two earlier
entries with a window of 3 make the window bite when the second run adds its
entry, and `Relevance` makes the ranking matter. `MaxCalls = 1` is enough, as
calls matter here only by "none", "in flight" and "recorded". Checked: rows are
a prefix of what a run would leave, and are its final verdict; one memory entry
per run; no call of a rejected plan; outcome rows lag by at most the call in
flight; recall is never circular; a verdict is revised at most once, to FAILED, by the log
entry that follows it, and before any row is written; rows are never revised; every
run ends.

**Pipeline.** All 2^9 combinations of nine words; all URLs with the subsets of
four words; all expressions; the words that force a rejection; the patient
configuration of the evaluation; and a server that is fresh or has used up the
demo key. Goals and not plans are enumerated, so every plan is one the planner
makes. The goals that submit, and those that replan, also run over a network that
loses requests and answers and refuses connections, with a remote language model
that may fail, for retry limits 0 to 4; and 48 goals run with the criteria for HTTP, file and
summary spelled out beforehand or not (`MentioningJobs`), which lets a run stop
before its work is done. Checked: no call validation would have
rejected, although replanned steps are not validated again; every accepted goal
that can be done is done, with each criterion met by a tool; after a malformed
endpoint the same, except for file writing (section 6); the server counts a
submission at most as often as one was sent, no more often than a step may be
tried, even across a replan, and at least as often as one was acknowledged; a run
replans at most once and leaves the malformed endpoint for good. `Doable` names
what cannot be done: "file" without "write", and "http" alone, set criteria no
planned step works for; two expressions pass the policy and not the tool; the
loop key fails more often than a step is tried; a network may lose everything.

**Suite.** The 24 scenarios in the order of the file, with the tokens of each
request and the configuration each sets, then three more, twice. The three are "Fetch
mock data", a request that spells out a criterion ("until http result captured"), and
the first one again, which recalls that request and finds its criterion met before
its call; no request of the file spells one out. The window of 200 is the code's.
Two rounds compare a scenario with itself once the server has been used, and the
counter of the demo key saturates after the first hit. The other flaky endpoint, the
one of the loop scenario, fails ten times, and a round asks it twice: from the sixth
round on that scenario passes its endpoint and ends otherwise. Since ten requests need
more rounds than two, `HitsBefore` has, besides the fresh server, one that was asked
for the loop eight times already (`FreshOrAsked`), whose counter runs out between the
rounds. One round may end in an exception, at the first and the last scenario, at the
one that uses up the demo key and at the one that relies on it (`AbortsAt`); other
places differ from these only in how much was done. Checked: a scenario takes the
course of every earlier one that asked for the same, as long as the criteria spelled
out in its request and its recalled memory are the same and the counter of the
endpoint it asks has failures left (`CounterSpent` says when it has none; an endpoint
that is not flaky never runs out), whatever ran before it, whatever else it recalls
and whatever became of the rounds in between; the demo key makes exactly the first
scenario that asks it see a failure, even when its round is aborted; a summary is of
one whole round, each of its results has its row in `eval_results`, and the trace
files are those it was made from until a later round replaces them or leaves one cut
off; in the end every scenario whose expectation the counters, the recalled criteria,
the order of the stop rules and the lost notes leave alone has passed, the one that
expects its planner to have recalled an entry included.

**MockServer.** Three clients with two attempts each, and a pool of two threads,
so that a request can wait while both threads sleep. The settings are the
combinations in which clients get in each other's way: three that share a flaky
key, two with a sleeper, a flaky, a slow and a plain one, two that submit with a
sleeper; and, without the lock, two that share a key and two that submit. One
crash gives two lives of the server, which is all that any property compares.
Checked, with the lock: counts are given out once and without gaps, and of the
requests that are answered in a life of the server those counted up to `fail_first`
are failed and no others; a client with more attempts
than that, always answered by a server that never went down, succeeds whatever
the others do. With and without: a life of the server never counts more
submissions than reached it; all clients end and the pool empties, although
nobody waits for some of the handlers. Without the lock the first two are false
(two requests can read the same count), which is why they are stated under it;
the counter of a key can even go back when a slow thread writes.

**Admission.** Single steps: every host, scheme and setting that concerns HTTP, an
allowlist that is absent, empty, of the mock server or of somebody else's included;
every statement and flag; every way to configure the language model; all
expressions up to two operators deep on one side; all paths of up to three parts
out of "..", the workspace's own name, an existing file and a new name, absolute
or not; each validated or, as after a replan, not. Two writers: every pair of
writes to a new file, to a file below it (so that one needs as a directory what
the other needs as a file) and to an existing file, with each setting of
`overwrite` and `create_dirs` and contents of one and two blocks. Two blocks are
the fewest for a mixture of contents. Checked: what the policy let through no
tool blocks, but for `calc` with a constant that is no number, and no expression
the policy refuses ever evaluates; a validated step reaches other servers only where the environment enables real
requests or lists the server, changes data only where it allows writes (a PRAGMA,
which may change the database's settings, passes as read-only), and asks a language
model only where all three settings for it are there;
nothing outside the workspace ever changes; what was written is there, whole,
unless others write the same file at the same time, and a call that may not
overwrite does not, unless the file appears while it runs.

Six more runs are expected to find a violation; they are in section 6.

## 4. Fairness

* The executor, the pipeline and the suite are sequential programs: weak fairness
  on the whole next-state relation says that the process goes on running. It
  includes that tools return. HTTP calls have a timeout (although httpx
  counts it anew for each chunk it reads, so a server that answers in drips
  could hold a call); the others do local work. One expression breaks the
  assumption: a tower of powers such as `9**9**9` is accepted by the policy and
  by calc, and is not bounded by anything. The models do not cover it.
* The mock server: clients send what they have to send, and each handler goes on
  once it is in a thread, sleeping ones included; a queued request is taken when
  a thread stays free. Nobody has to give up, and neither a crash nor the restart
  after it has to happen: clients of a server that stays down fail by themselves.
* Admission states no liveness and no fairness.
* The orchestrator has weak fairness per process on `Step(p)`, which leaves out
  `Kill(p)`: the operating system schedules each process, and SQLite gives up on
  a lock after its timeout and raises, so no statement blocks for ever. Nothing
  is assumed about which process goes first, nor that statements succeed.

## 5. What is proved

TLAPS proves, for every value of the constants (any set of runs, any plans and
answers, any limits; any number of processes, any history and relevance; any
number of clients, attempts, threads and crashes of the mock server; any
environment, paths and expressions of any size; any goals; any scenarios):

| module | theorem | statement |
|---|---|---|
| ExecutorProofs | `TypeCorrect` | `Spec => []TypeOK` of the executor |
| | `SpendingIsGuarded` | `Spec => []SpendWithinGuard` |
| | `VerdictsAreJustified` | `Spec => []VerdictJustified` |
| | `RunsGetShorter` | `Spec => [][Fuel' \in Nat /\ Fuel' < Fuel]_vars`: the loop has no cycle |
| | `ImplementsBoundedRun` | `Spec => Promise!Safety`: each step of the executor is one of `BoundedRun` or a stutter |
| ExecutorTraceProofs | `IndexIsAccounted` | `Spec => []IndexAccounted` |
| | `CallsAreAccounted` | `Spec => []CallsAccounted` |
| | `RetriesStayWithinLimit` | `Spec => []RetriesWithinLimit` |
| | `NonProgressIsCounted` | `Spec => []NonProgressCounted` |
| | `IdenticalFailuresAreBounded` | `Spec => []IdenticalFailuresBounded` |
| | `SummariesAreCurrent` | `Spec => []SummaryIsCurrent` |
| | `ReplansAnswerMalformed` | `Spec => []ReplansOnlyMalformed` |
| | `SuccessIsGrounded` | `Spec => []SuccessHasGrounds` |
| | `PastStaysFrozen` | `Spec => PastIsFrozen` |
| OrchestratorProofs | `PersistsInOrder` | `Spec => []DurableInOrder` of the orchestrator |
| | `PersistsVerdicts` | `Spec => []OnlyVerdictsPersist` |
| | `VerdictsAreFinal` | `Spec => VerdictIsFinal` |
| OrchestratorRunProofs | `TypeCorrect` | `Spec => []TypeOK` of the orchestrator |
| | `ValidationComesFirst` | `Spec => []NoCallWithoutValidation` |
| | `OutcomesKeepUp` | `Spec => []OutcomesFollowCalls` |
| | `RunsAreRememberedOnce` | `Spec => []RememberedOnce` |
| | `RecallIsOfThePast` | `Spec => []RecallsOnlyThePast` |
| MockServerProofs | `ServerTypes` | `Spec => []TypeOK` of the mock server |
| | `FaultsExact` | `Spec => []FaultsAreExact` |
| | `RetriesSucceed` | `Spec => []RetriesOutlastFaults` |
| | `SubmissionsAreCounted` | `Spec => []SubmissionsCounted` |
| AdmissionProofs | `GuardsOfBothAgree` | `Spec => []GuardsAgree` |
| | `DefaultsAreSafe` | `Spec => []SafeByDefault` |
| | `WritesAreKept` | `Spec => []WritesKept` |
| PipelineProofs | `PlansAreRuns` | what the planner makes of a goal and a configuration, with any criteria spelled out beforehand, is a run as the executor's theorems assume it |
| | `ImplementsExecutor` | `PipelineSpec => Executes!Spec`: each step of the pipeline is one of the executor or a stutter |
| | `CallsStayAcceptable` | `PipelineSpec => []CallsAreAcceptable` |
| | `ReplanningLeadsAway` | `PipelineSpec => []ReplanLeadsAway`, where only the mock server is asked |
| | `SubmissionsAreBounded` | `PipelineSpec => []SubmissionsBounded`, from a server without submissions |
| | `RunsAreReplayed` | `PipelineSpec => []EndsAlike`: how a run ends is a function of its job, where only the mock server is asked and no timeout ties |
| | `CallsAreAnswered` | `PipelineSpec => []AnswersExpected`: each call can end with something, and only with what the executor handles |
| SuiteProofs | `SummariesAreOfTheirRound` | `SuiteSpec => []SummaryIsOfItsRound` |
| | `ScenariosAreReplayed` | `SuiteSpec => []RoundsAlike`, under the hypotheses of `RunsAreReplayed` |
| | `ScenariosStayAcceptable` | `SuiteSpec => []CallsAreAcceptable` |

Together these state every safety property of the passing runs but one of the
suite, `DemoKeyFailsOnce` (see the end of this section).

**Assumptions.** TLC evaluates those on constants in every run.

* `RunsAssumption`: a run is a record of the right type, its cost per step is
  positive, replanning never answers with nothing (the planner adds a summarize
  step to an empty plan), and no planned text is a dump of observations.
  `PlansAreRuns` is the proof that the planner's runs are such, for every goal and
  every configuration with numbers where numbers belong. `MaxTimeoutAssumption`:
  the cap of the timeout patch is positive.
* `JobsAssumption`: goals are goals, and the runs made of the jobs are among
  `Runs`.
* `PastAssumption` (a run took place once), `RelevanceAssumption`,
  `MaxCallsAssumption`, `WindowAssumption` of the orchestrator.
* `MockServerAssumption`: there is a thread, and an attempt and an endpoint for
  each client.
* `AdmissionAssumption`: jobs have the shape their tool's schema gives them, an
  expression is a syntax tree whose operands are numbered after their operator,
  and the workspace and all directories above it exist.
* `HitsAssumption`: the server's counters are counters of its endpoints.
* `SuiteAssumption`: there is a scenario and a round. `ScenarioJobs`: what the
  scenarios ask for is among the jobs, with any of the criteria that requests spell
  out found in recalled memory.
* `ReplanningLeadsAway` has the hypothesis `OnlyLocal`: the policy's defaults, with
  real HTTP off and no host of somebody else on the list. It is needed: the planner
  exchanges only its own malformed endpoint, so that a goal which says "malformed"
  and names another server is replanned to ask that server once more, each time it
  answers with no JSON.
* `RunsAreReplayed` and `ScenariosAreReplayed` have that hypothesis, since a foreign
  server answers as it likes, and `Untied`: no configured timeout, nor the cap of the
  timeout patch, is a slow endpoint's delay to the tenth of a second (0.9 and 1.5
  seconds), for then either of the two may come first. It holds of every
  configuration of the scenario file. A lossy network and a remote language model
  are excluded by `Steady`, which is part of what is stated; scenarios have neither.
* `SubmissionsAreBounded` has the hypothesis that the server has not counted a
  submission before, since the property compares its counter with this run's calls.

**Executor.** `TypeOK` is not inductive: the handling actions look at the last
call and the current step, which have to exist. `TypeInv` adds `Handling`: while
a call is being handled there is one, and there is a current step. `Inv` adds
`Limits`: cost is calls times
cost per step and below budget plus one call; credits stay within `max_steps` and
below the calls, strictly so while a call is handled; and a status of REFINING
leaves a current step, since a patched step is still there and replanning never
answers with an empty list. The last part is why the executor itself never ends
FAILED. `VerdictJustified` is preserved by `Inv` (`VerdictNext`): the step that
gives the verdict has just seen its facts, and no later step changes them.

`RunsGetShorter` is the part of termination that can be proved: `Fuel` counts the
steps that what is left of the budget can still pay for, three for each call and
one at the loop head, and every step makes it smaller. A retry or a replan goes back
to the head, which is less than the call it comes from and never pays the budget
back. What the proof leaves to TLC is that some step can be taken.

The other invariants are about the trace, and each question has an inductive
invariant of its own on top of `Inv`. Steps are first sorted by what they do to
the records (`StepCases`): three kinds of stops become one, and so do all ways of
giving up on a failed call.

* `Indexed`: there are as many observations as credits, and the index is the
  credits plus the SKIPPED events.
* `Told`: the events that tell of calls correspond to the calls in order, by their
  rank among such events, and calls, rows and events are as far apart as `pc` says,
  for a run that an exception has left too: with the planner's, the row is there and
  the event is not. The rank is needed because SKIPPED events, which no call
  belongs to, lie between them.
* `Retried`: the retry count of an id is the number of its patch events and
  below the limit. The bound on attempt numbers needs both: replanning keeps the
  counts, so that a step that comes back under an old id goes on from there. It is a
  bound on retries, not on calls: an id that is replanned again and again is called
  again at the same attempt number.
* `Signed`: each signature's count is the number of failed calls under it, one whose
  replan raised included; one may be past the threshold by one, and then the run has
  ended. That a call has at most two signatures (`IdenticalFailuresBounded`) is then
  counting.
* `Fresh`: only the step at hand holds a dump, and it is the dump of now. A
  success moves the index and so leaves the dump behind; a failure adds no
  observation. `IsRun` is needed for the steps of a plan.
* `Grounded`: flags come from successful calls, announcements from a replan and
  only for the file criterion.
* `ReplansOnlyMalformed` and `PastIsFrozen` follow from `Inv` by looking at each
  decision: after a timeout or a tool error that is retryable, the limit stops the
  run before the refinement engine can replan.

**Orchestrator.** `DurableInOrder` is not inductive, because a trace row is
written on the strength of the runs row written before it, and nothing in the
tables says so. The invariant is `Types` (the part of the types the proof needs),
`Stages` (where a process is says whether it has a verdict and which of its rows
are there), `Announcing`, `Current` (each row is the one its run would write now) and
`DurableInOrder`. Steps are first classified: a run goes on, gets its verdict,
leaves, exports, or writes one of three rows (`StepCases`); each class is then
treated once. `Current` is what makes `INSERT OR REPLACE` harmless: a row that is
replaced is replaced by itself (`PutCurrent`). `Announcing` is about the one
verdict that may still be revised: it is not FAILED and no row is written on it yet,
so that what was written is current afterwards. `VerdictsAreFinal` follows from it
with the classification of steps, in which the revising one is "gets its verdict",
too (`FinalStep`).

On top of it, `OrderInv` says where a process is by what it has called and
recorded: nothing before its plan is accepted, and a missing row only while a call
is in flight or after the exception that ended the run. A rejected plan and an
exception both end FAILED; that a run with calls has not the reason
`validation_failed` is what tells them apart. `Remembered` adds to
`RememberedOnce` that a run with a memory entry has gone past the statement that
writes it. For `RecallsOnlyThePast`: what is read was in the memory, whoever is in
the memory has its trace in the database (`Inv`), and whoever has a trace no longer
recalls; so two runs cannot have recalled each other.

**Mock server.** The invariant has five parts besides `TypeOK`. `Attempts`: a
client that is ready has an attempt left, and those it has not made are unsent.
`Phases`: what the phase of a request says of its count and answer. `Failures`:
a request that was failed has a number within `fail_first`. `Numbered`: under the
lock, the numbers a life of the server has given out for a key are distinct and
are all those up to its counter; this is what a bump has to preserve, and what it
does not without the lock. `Tried`: as long as nothing crashed and nobody gave up,
every attempt a client has behind it without success was failed by the server.
`FaultsAreExact` follows by counting, as the numbers of a life are a bijection with
`1..hits`, and from `Failures` and `Phases` for which of the answered ones are failed.
`RetriesOutlastFaults` follows because the failed requests inject into the pairs
of a number up to `fail_first` and a life, and, for the client, because its
attempts all lie in one life. `SubmissionsCounted` holds with and without the lock,
by an invariant (`Submitted`) that also covers a slow thread's half-done bump: what
it has read is no more than others have written in this life of the server, so that
what it writes is at most one more, for its own submission.

**Admission.** `History` says of each call what its status and effect owe to the
guards it went through; it has a part for each way to an effect. `GuardsAgree`
needs besides that the two ways of deciding agree, for paths and expressions of
any size. These are inductions over data, which the provers have no rule for
with an operator as the predicate; they are carried out on the least
counterexample, whose existence is `WFMin`: a path without ".." has no first part
at which its walk leaves the workspace, and an expression with a node that the
policy refuses has no last node, the root included, above such a one that
evaluates. `WritesKept` needs `Outside` (nothing outside the workspace differs from
before, and no file disappears) and `Writing`: a writer that nobody disturbs finds
its file empty when it has opened it, and one that may not overwrite gets past its
look only where nothing was, or where those it waited for failed.

**Pipeline.** `Underway` says that nothing was done before the plan was judged,
and that an accepted run is one of the executor, with its invariants. That is
nearly the refinement: `ImplementsExecutor` adds that a rejected run is to the
executor one that has not started, and that its actions are the same ones
(`SameSteps`). Through it every theorem about the executor is one about every
goal. TLC agrees on the instance of `MCPipeline`.

`CallsAreAcceptable` does not follow from validation, which replanned steps do
not meet. `Sourced` is the strengthening: each remaining step asks of a tool what
a piece planned after the current `Era` asks (before any malformed response, or
after one), each call what some piece asks, and the call at hand belongs to the
step at hand. Retries change timeouts and strictness, and summaries their
text, and none of these matters to the policy. It remains that a replanned piece
asks for what an accepted one asked for, or for `/data` (`WorkStands`,
`PiecesStand`), and that this is acceptable if that was.

`Away` is what makes `ReplanLeadsAway` inductive: only the malformed endpoint
answers with no JSON, and a call with such an answer has ended the run or had it
replanned when it has been handled. From then on the `Era` has no piece that asks
that endpoint, so by `Sourced` no call does.

For `SubmissionsBounded`, `Counted` keeps the counter between the acknowledged and
the sent submissions. The bound by attempts is `FirstOnly`: in a goal that submits,
only the first step posts and nothing is fetched, so that nothing is malformed and
nothing replanned, and all submissions are attempts of the first step's id, which
`Retried` bounds. A goal that posts and fetches posts elsewhere.

`RunsAreReplayed` compares whole runs, which no invariant of one state does. So the
executor is written down a second time, as a function: `After(x, j)` is the state
after `x` in the run for job `j`, where `x` has all that a run decides anything by
(`Now`), the executor's operators are taken from an instance of it (`At`), and a
flaky endpoint answers what it answers first. A lemma for each action says that it
leads from `Now` to `After(Now, job)` (`StepIsReplayed`). For a call that takes more:
what `calc` makes of the planner's expressions is definite (`CalcIsDefinite`), a
timeout never ties (`Patient`, an invariant: plans, patches and answers to a replan
have none that does), and an endpoint whose counter is not spent afterwards was not
spent before (`AnswerIsDefinite`, where `Sourced` says that the endpoint asked is the
one the goal names, or `/data`). So every state of the run is on the path from the
unbegun run by `After` (`Replayed`), whatever the counters were when it began. A path
stands still when it is over; of two paths that are over the shorter one, prolonged,
is the longer one, by the least place at which they differ (`OneEnd`). `EndOf(job)`
is therefore one state, and a run that is over is there.

`CallsAreAnswered` rests on `Sourced` again: a call asks for a planned piece, and the
expressions that are planned have values.

**Suite.** `ScenariosAreReplayed` carries that through the rounds. What a run is given
is its job, in which `mentioned` is all that recalled memory contributes; the entries
recalled are those of traces on record (`RecalledOnRecord`), so that the job is one of
`Jobs` (`JobsAreJobs`). `Conducted`: while the runner is in a run it is a run of the
pipeline, with the invariants of one, for the scenario it is at and what that recalled;
a new scenario begins like a run of its own (`AnotherBegins`), but for the counters.
`Repeating` adds `Replayed`. `Foreseen` says of each trace that its course (`Course`:
verdict, tokens and notes, but for the note of a recall) is the one made of `EndOf` its
job, `JobOf(position, mentioned)`, unless the counter is spent by now; as counters only
grow (`HitsGrow`), what is not spent now was not when the trace was made. Two traces of
the same job are then of one course.

The summary is put together from `results`, which say nothing of the
rows and files made beside them. `Ongoing` says how far a round is with each of the
three, by where the runner is; it holds of rounds that were not aborted.
`RowsDiffer` makes rows of a scenario and a round unique, which is where the
aborted ones matter: their rows stay, and the next round has another number.
`SummedUp` is the property with what keeps it: results are of existing traces, files
only get newer unless an exception cuts one off, and the summary's round is over.

**Only model-checked.** Liveness (`Terminates`, `EveryRunEnds`, `DoableIsDone`,
`ReplanningHeals`, `OthersPass`, `EverythingEnds`, and the fairness part of
`IsBoundedRun`), which is out of the prover's reach. One safety property of the
suite, `DemoKeyFailsOnce`: it says that certain scenarios get to a certain end, which
depends on the words and the limits of each scenario in the file, and of scenarios in
general is not true.

## 6. Disagreements between code and documentation

Each is a run that TLC ends with a counterexample.

1. *A retry after a timeout can get less time*
   (`MCExecutorTimeoutNeverShrinks`). The patch is `min(current * 2, 10.0)`
   (`execution/refinement.py:51`); `default_http_timeout_s` has no bound, and a
   timeout above 10 shrinks. The signal that leads there recommends
   `increase_timeout_and_retry`.
2. *Success can be claimed for a file never written*
   (`MCPipelineSuccessWasAchieved`). The success test searches the dumped state
   for the wording of a criterion (`execution/executor.py:358`); after a replan
   the dump holds the new steps, and the expected observation of a write step is
   that wording. A goal that fetches a malformed endpoint and writes a file ends
   as "Success criteria met" without writing.
3. *Replanning repeats what was done* (`MCPipelineNothingSubmittedTwice`).
   `replan_remaining` plans the whole goal again. A POST that succeeded is sent
   again, without an idempotency key. With the mock server alone no goal reaches
   this; with `enable_real_http` and another server one does.
4. *The documented state machine* (`MCOrchestratorDocumentedPath`). An exception
   takes the status to FAILED from any phase, not only from executing as
   `docs/architecture.md` draws it; so does a rejected plan.
5. *Scenario expectations* (`MCSuiteStatusesAsExpected`). `max_retries_stop`
   relies on the demo key failing, which an earlier scenario has used up;
   `max_steps_stop` has met its criteria before the limit is looked at.
6. *The replanning scenario's required text* (`MCSuiteOutputsAsExpected`) is a
   note of the plan of which only the steps are kept.

Noticed without a run: a run that stops because its criteria are met counts in
`runs_failed_total` (`execution/executor.py:315`); answers in the 400s count as
success, so a goal with "post" and "flaky" posts to an endpoint that answers 405
and is content; the refinement engine's replan after exhausted retries is never
reached (`ReplansOnlyMalformed`); `PlanCritic` is never used; a plan whose
last status is REFINING when the steps run out cannot occur, so that the
executor's own FAILED verdict is dead.

## 7. What is not modelled

* Data: sums, rows, summaries, file contents, response bodies. Properties do not tell
  them apart. No response body is taken to spell out a criterion. Texts are tokens
  where retrieval compares them, and the criteria whose wording they hold where the
  success test searches them.
* The wording of messages, severities, time stamps, log lines, rendering, the
  command line and the scripts (they parse arguments and call `run_orchestration`
  or `run_scenarios`), the plan critic (nothing calls it).
* `generate_structured` of the language model providers (nothing calls it), and
  what a model says: the text of a summary decides nothing.
* Creating the database's tables.
* Symbolic links in the workspace, file permissions, and what a full disk does to
  `file_write_tool`; `create_dirs` making some of its directories and then failing at
  another. (Rows, log entries, trace files and summaries that cannot be written are
  modelled.)
* Numeric settings other than by one of them, as they are parsed alike, and the
  directories derived from `runtime_dir`.
* Endpoints of the mock server that neither count nor sleep are one, `/data`, and
  `/malformed` has one of its three kinds of text.
* A second process, a database that does not answer and a log that cannot be written
  inside the pipeline and the suite; the executor, the orchestrator and the mock server
  have them. So entries recalled in the suite are those of its own runs, in a database
  that was empty at first and without the two rows of the seed commands.

## 8. Plan

Built, in this order: Counters, Monitors, Refinement, Executor with its runs;
BoundedRun; ExecutorProofs; Retrieval, Orchestrator and its proofs; Planner,
MockApi, Pipeline; Suite; then MockServer; Policy, LocalTools, Settings and
Admission, with Planner and Pipeline put on top of them; and the files, rows and
exceptions of Suite; MockServerProofs; then ExecutorTraceProofs,
OrchestratorRunProofs, AdmissionProofs, PipelineProofs and SuiteProofs.

What is left is out of the prover's reach or about particular inputs: liveness, and
`DemoKeyFailsOnce`, which would have to follow the replay of each scenario that asks
the demo key to its end.
