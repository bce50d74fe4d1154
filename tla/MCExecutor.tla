----------------------------- MODULE MCExecutor -----------------------------
(***************************************************************************)
(* Small runs for the executor.  Each is built so that one of its rules    *)
(* matters; the tools answer in every way they can.                        *)
(***************************************************************************)
EXTENDS Executor

MCIds == {"s1", "s2", "s3"}
MCTools == {"http_get", "http_post", "calc", "file_write", "summarize"}
MCTargets == {"/data", "/malformed", "/submit", "1+1", "out.txt", "note"}

Step(id, tool, target, timeout, text, full, fallback) ==
  [id |-> id, tool |-> tool, fallback |-> fallback,
   args |-> [target |-> target, timeout |-> timeout, strict |-> tool \in HttpTools,
             text |-> text, full |-> full]]

Get(id, target, timeout, full, fallback) ==
  Step(id, "http_get", target, timeout, 1, full, fallback)
Post(id, full)      == Step(id, "http_post", "/submit", 2, 1, full, {})
Calc(id, fallback)  == Step(id, "calc", "1+1", 0, 1, TRUE, fallback)
Write(id, full)     == Step(id, "file_write", "out.txt", 0, 1, full, {})
Summarize(id)       == Step(id, "summarize", "note", 0, 0, TRUE, {})

CONSTANTS MaxSteps, MaxRetries, MaxCosts, CostsPerStep, Thresholds   \* the limits to try

(* The runs of one plan, under every combination of the limits.            *)
Under(plan, answer, criteria, mentioned) ==
  {[steps |-> plan, answers |-> [f \in FailureTypes |-> answer],
    criteria |-> criteria, mentioned |-> mentioned,
    maxSteps |-> m, maxRetries |-> r, maxCost |-> b, costPerStep |-> c,
    threshold |-> t] :
     m \in MaxSteps, r \in MaxRetries, b \in MaxCosts, c \in CostsPerStep, t \in Thresholds}

(* A malformed endpoint before a file write: replanned to a healthy one.   *)
ReplanThenWrite ==
  Under(<<Get("s1", "/malformed", 2, TRUE, {"replan"}), Write("s2", TRUE)>>,
      <<Get("s1", "/data", 2, FALSE, {"replan"}), Write("s2", FALSE)>>,
      {"http", "file"}, {})

(* A submission before a malformed endpoint.                               *)
SubmitThenReplan ==
  Under(<<Post("s1", TRUE), Get("s2", "/malformed", 2, TRUE, {"replan"}), Summarize("s3")>>,
      <<Post("s1", FALSE), Get("s2", "/data", 2, FALSE, {"replan"}), Summarize("s3")>>,
      {"http", "summary"}, {})

(* Timeouts patched up to the cap, on a plan whose first step is skipped   *)
(* when the policy blocks it.                                              *)
SkipThenTimeouts ==
  Under(<<Calc("s1", {"skip"}), Get("s2", "/data", 3, TRUE, {})>>,
      <<Get("s1", "/data", 3, FALSE, {})>>,
      {"calc", "http"}, {})

(* The configured timeout is longer than the cap of the patch.             *)
LongTimeout ==
  Under(<<Get("s1", "/data", 12, TRUE, {})>>, <<Get("s1", "/data", 12, FALSE, {})>>,
      {"http"}, {})

(* The same call failing again and again, with many retries allowed.       *)
NoProgress ==
  Under(<<Calc("s1", {}), Summarize("s2")>>, <<Calc("s1", {})>>,
      {"calc", "summary"}, {})

(* More steps than may be completed.                                       *)
TooManySteps ==
  Under(<<Calc("s1", {}), Calc("s2", {"skip"}), Summarize("s3")>>, <<Calc("s1", {})>>,
      {"summary"}, {})

(* All criteria met before the last step; one of them by the goal's own    *)
(* wording.                                                                *)
EarlySuccess ==
  Under(<<Calc("s1", {}), Summarize("s2")>>, <<Calc("s1", {})>>,
      {"calc", "final"}, {"final"})

(* Nothing to do, and nothing to be judged by.                             *)
EmptyPlan == Under(<< >>, <<Summarize("s1")>>, {}, {})

(* A replanned endpoint that stays malformed: the replanning itself has to *)
(* be stopped.                                                             *)
ReplanLoop ==
  Under(<<Get("s1", "/data", 2, TRUE, {"replan"})>>, <<Get("s1", "/data", 2, FALSE, {"replan"})>>,
      {"http"}, {})

MCRuns ==
  UNION {ReplanThenWrite, SubmitThenReplan, SkipThenTimeouts, LongTimeout, NoProgress,
         TooManySteps, EarlySuccess, EmptyPlan, ReplanLoop}
=============================================================================
