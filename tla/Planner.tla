------------------------------- MODULE Planner -------------------------------
(***************************************************************************)
(* perception/, planning/planner.py and planning/plan_validator.py with    *)
(* planning/policy.py: from a goal to success criteria and to a plan, the  *)
(* answer to a replanning request, and the validation of a plan.           *)
(*                                                                         *)
(* A goal is what the keyword tests tell apart: the set of words that      *)
(* occur in it (each stands for the words every test treats alike: "get"   *)
(* for fetch and get, "post" for post and submit, "db" for db, database    *)
(* and sql, "calc" for calc and calculate, "write" for write and save,     *)
(* "summary" for summary and summarize, "sum" for that word between        *)
(* blanks), the URL it spells out, and the expression found after calc.    *)
(*                                                                         *)
(* A configuration holds the settings that differ between runs: [timeout   *)
(* (tenths of a second), maxSteps, maxRetries, budget, threshold, and what *)
(* the policy asks for: hosts, realHttp, dbWrites].                        *)
(*                                                                         *)
(* As in Executor, a definition that nothing uses and that precedes its    *)
(* namesake is a mistake the properties are tried against.                 *)
(***************************************************************************)
EXTENDS Naturals, Sequences, FiniteSets, Refinement, Policy

HttpWords  == {"get", "post", "flaky", "slow", "malformed"}
ForceWords == {"bad tool", "bad args", "long plan", "early stop",
               "delete row", "../", "__import__"}
Words == HttpWords \cup ForceWords \cup
         {"http", "db", "calc", "multiply", "sum", "write", "file", "summary"}

Urls == {"none", "/data", "/submit", "/flaky", "/flaky?loop", "/slow", "/slow?900",
         "/malformed", "http://example.com"}

(* "" is what is left of blanks after calc; "2 + 2" the planner's default. *)
Expressions == {"2 + 2", "1 / 0", "...", ""}

(* The words a URL puts into the goal that spells it out.                  *)
WordsOfUrl(url) ==
  IF url = "none" THEN {}
  ELSE {"http"} \cup
       CASE url = "/submit"                   -> {"post"}
         [] url \in {"/flaky", "/flaky?loop"} -> {"flaky"}
         [] url \in {"/slow", "/slow?900"}    -> {"slow"}
         [] url = "/malformed"                -> {"malformed"}
         [] OTHER                             -> {}

Goals ==
  {g \in [words: SUBSET Words, url: Urls, expr: Expressions] :
     /\ WordsOfUrl(g.url) \subseteq g.words
     /\ g.expr # "2 + 2" => "calc" \in g.words}

Has(goal, words) == goal.words \cap words # {}

-----------------------------------------------------------------------------
(* Perception. *)

WantsCalc(goal) == Has(goal, {"calc", "multiply", "sum"})

(* classify_task's flags. *)
Themes(goal) ==
  {t \in {"http", "db", "file", "calc", "summary"} :
     CASE t = "http"    -> Has(goal, HttpWords \cup {"http"})
       [] t = "db"      -> Has(goal, {"db"})
       [] t = "file"    -> Has(goal, {"write", "file"})
       [] t = "calc"    -> WantsCalc(goal)
       [] t = "summary" -> Has(goal, {"summary"})}

(* The task is of that one type: composite and unknown tasks are of none.  *)
TaskIs(goal, theme) == Themes(goal) = {theme}

(* build_state: what has to be achieved. *)
SuccessCriteria(goal) ==
  LET asked ==
        {c \in {"http", "db", "calc", "file", "summary"} :
           CASE c = "http"    -> Has(goal, HttpWords \cup {"http"}) \/ goal.url # "none"
                                   \/ TaskIs(goal, "http")
             [] c = "db"      -> Has(goal, {"db"}) \/ TaskIs(goal, "db")
             [] c = "calc"    -> WantsCalc(goal) \/ TaskIs(goal, "calc")
             [] c = "file"    -> Has(goal, {"write"}) \/ TaskIs(goal, "file")
             [] c = "summary" -> Has(goal, {"summary"}) \/ TaskIs(goal, "summary")}
  IN  IF asked = {} THEN {"final"} ELSE asked

-----------------------------------------------------------------------------
(* Planning. *)

(* The mock endpoint a goal without URL is about. *)
MockUrlFor(goal) ==
  IF Has(goal, {"flaky"}) THEN "/flaky"
  ELSE IF Has(goal, {"slow"}) THEN "/slow"
  ELSE IF Has(goal, {"malformed"}) THEN "/malformed"
  ELSE IF Has(goal, {"post"}) THEN "/submit" ELSE "/data"

HttpUrl(goal) ==
  IF goal.url # "none" THEN goal.url
  ELSE IF Has(goal, HttpWords) THEN MockUrlFor(goal) ELSE "none"

(* A step without its id.  `full' says that the planner gives a tool every *)
(* argument of its schema.                                                 *)
Piece(tool, target, timeout, text, full, fallback) ==
  [tool |-> tool, fallback |-> fallback,
   args |-> [target |-> target, timeout |-> timeout, strict |-> tool \in HttpTools,
             text |-> text, full |-> full]]

PostPiece(goal, timeout) == Piece("http_post", HttpUrl(goal), timeout, 1, FALSE, {})

GetPieceSameEndpoint(goal, failure, timeout) ==
  Piece("http_get", HttpUrl(goal), timeout, 1, FALSE,
        IF Has(goal, {"malformed"}) THEN {"replan"} ELSE {})

(* After a malformed response a malformed endpoint gives way to /data.     *)
GetPiece(goal, failure, timeout) ==
  Piece("http_get",
        IF failure = "schema_error" /\ HttpUrl(goal) = "/malformed" THEN "/data"
                                                                    ELSE HttpUrl(goal),
        timeout, 1, FALSE,
        IF Has(goal, {"malformed"}) THEN {"replan"} ELSE {})

DbPiece(goal) ==
  Piece("db_query", IF Has(goal, {"delete row"}) THEN "DELETE" ELSE "SELECT", 0, 1, FALSE, {})

CalcPiece(goal) ==
  Piece("calc", IF Has(goal, {"__import__"}) THEN "__import__" ELSE goal.expr, 0, 1, TRUE, {})

WritePiece(goal) ==
  Piece("file_write", IF Has(goal, {"../"}) THEN "../escape.txt" ELSE "reports/output.txt",
        0, 1, FALSE, {})

SummarizePiece == Piece("summarize", "note", 0, 0, TRUE, {})
LongPlanPiece  == Piece("calc", "1 + 1", 0, 1, TRUE, {})
ExtraPiece     == Piece("summarize", "extra", 0, 1, TRUE, {"skip"})

When(condition, piece) == IF condition THEN <<piece>> ELSE << >>

(* The longest plan has 17 steps. *)
StepId ==
  <<"s1", "s2", "s3", "s4", "s5", "s6", "s7", "s8", "s9", "s10",
    "s11", "s12", "s13", "s14", "s15", "s16", "s17">>

Numbered(pieces) ==
  [i \in 1..Len(pieces) |->
     [id |-> StepId[i], tool |-> pieces[i].tool, args |-> pieces[i].args,
      fallback |-> pieces[i].fallback]]

(* Replanning after a timeout makes the requests more patient.             *)
RequestTimeout(config, failure) ==
  IF failure = "timeout" /\ config.timeout < 35 THEN 35 ELSE config.timeout

(* What the goal's words ask the tools to do; `failure' is the failure     *)
(* replanned after, or "none".                                             *)
Work(goal, config, failure) ==
  LET timeout == RequestTimeout(config, failure)
      posts   == Has(goal, {"post"})
      url     == HttpUrl(goal)
  IN  When(posts, PostPiece(goal, timeout))
      \o When(url # "none" /\ ~(url = "/submit" /\ posts), GetPiece(goal, failure, timeout))
      \o When(Has(goal, {"db"}), DbPiece(goal))
      \o When(WantsCalc(goal), CalcPiece(goal))
      \o When(Has(goal, {"write"}), WritePiece(goal))

(* The steps of a plan without their ids; what validation is to refuse     *)
(* comes alone.                                                            *)
Pieces(goal, config, failure) ==
  LET work == Work(goal, config, failure)
  IN  IF Has(goal, {"bad tool"})
      THEN <<Piece("non_existent_tool", "note", 0, 1, FALSE, {})>>
      ELSE IF Has(goal, {"bad args"})
      THEN <<Piece("calc", "bad shape", 0, 1, FALSE, {})>>
      ELSE work
           \o When(Has(goal, {"summary"}) \/ work = << >>, SummarizePiece)
           \o (IF Has(goal, {"long plan"}) THEN [i \in 1..10 |-> LongPlanPiece] ELSE << >>)
           \o When(Has(goal, {"early stop"}), ExtraPiece)

(* build_plan. *)
BuildPlan(goal, config, failure) == Numbered(Pieces(goal, config, failure))

(* The planner's note that an endpoint was exchanged; the notes of a plan  *)
(* made while replanning stay behind when its steps are taken over.        *)
NotesExchange(goal, config, failure) ==
  \E i \in 1..Len(BuildPlan(goal, config, "none")) :
    BuildPlan(goal, config, failure)[i].args.target
      # BuildPlan(goal, config, "none")[i].args.target

(* replan_remaining: the whole plan for the goal is made again, however    *)
(* much of it is done.                                                     *)
ReplanAnswer(goal, config, failure, remaining) ==
  LET new == BuildPlan(goal, config, failure) IN IF new # << >> THEN new ELSE remaining

-----------------------------------------------------------------------------
(* Validation. *)

KnownTools == {"http_get", "http_post", "db_query", "file_write", "calc", "summarize"}

(* What the target of a step asks of its tool, as the policy sees it.  The *)
(* Ellipsis is a constant; the bad shape, made text, is a dictionary.      *)
Asked(target) ==
  CASE target \in Urls ->
         [url |-> [scheme |-> "http",
                   host |-> IF target = "http://example.com" THEN "example.com" ELSE "127.0.0.1"]]
    [] target \in {"SELECT", "DELETE"} ->
         [sql |-> [verb |-> IF target = "SELECT" THEN "select" ELSE "other", readonly |-> TRUE]]
    [] target \in {"reports/output.txt", "../escape.txt"} ->
         [path |-> [given |-> TRUE, absolute |-> FALSE,
                    parts |-> IF target = "../escape.txt" THEN <<"..", "escape.txt">>
                                                          ELSE <<"reports", "output.txt">>]]
    [] OTHER ->
         [expression |-> CASE target \in {"2 + 2", "1 + 1"} -> <<"+", "some", "some">>
                           [] target = "1 / 0"              -> <<"/", "some", "zero">>
                           [] target = "..."                -> <<"text">>
                           [] target = ""                   -> NoTree
                           [] OTHER                         -> <<"name">>]

PolicyAllows(step, config) == PolicyLetsPass(step.tool, Asked(step.args.target), config)

ArgsAreValid(step) == step.args.target # "bad shape"

Acceptable(step, config) ==
  step.tool \in KnownTools /\ PolicyAllows(step, config) /\ ArgsAreValid(step)

AcceptedByFirst(plan, config) == Acceptable(plan[1], config)

Accepted(plan, config) == \A i \in 1..Len(plan) : Acceptable(plan[i], config)

(* The validated plan: every step's arguments with the schema's defaults.  *)
Validated(plan) == [i \in 1..Len(plan) |-> [plan[i] EXCEPT !.args.full = TRUE]]

-----------------------------------------------------------------------------
(* What plans are made of. *)
StepIds   == {StepId[i] : i \in 1..Len(StepId)}
ToolNames == KnownTools \cup {"non_existent_tool"}
CallTargets ==
  (Urls \ {"none"}) \cup Expressions \cup
  {"__import__", "1 + 1", "SELECT", "DELETE", "reports/output.txt", "../escape.txt",
   "note", "extra", "bad shape"}

(* The run the executor is given for a goal, when these criteria are       *)
(* spelled out in the request or in the memory it recalls.                 *)
RunOf(goal, config, mentioned) ==
  [steps     |-> Validated(BuildPlan(goal, config, "none")),
   answers   |-> [f \in FailureTypes |-> ReplanAnswer(goal, config, f, << >>)],
   criteria  |-> SuccessCriteria(goal),
   mentioned |-> mentioned,
   maxSteps  |-> config.maxSteps, maxRetries |-> config.maxRetries,
   maxCost   |-> config.budget,   costPerStep |-> 1,
   threshold |-> config.threshold]
=============================================================================
