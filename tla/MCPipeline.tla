------------------------------ MODULE MCPipeline ------------------------------
(***************************************************************************)
(* Goals for the pipeline: every combination of the words that matter to a *)
(* run, and every URL with a few of them.                                  *)
(***************************************************************************)
EXTENDS Pipeline

Config(timeout, maxRetries, realHttp) ==
  [timeout |-> timeout, maxSteps |-> 12, maxRetries |-> maxRetries, budget |-> 50,
   threshold |-> 3, hosts |-> DefaultHosts, realHttp |-> realHttp, dbWrites |-> FALSE]

Goal(words, url, expr) == [words |-> words \cup WordsOfUrl(url), url |-> url, expr |-> expr]

(* The default configuration, and the patient one of the evaluation.       *)
DefaultConfig == Config(20, 2, FALSE)
PatientConfig == Config(3, 4, FALSE)

(* Where the network loses messages the language model is a remote one.    *)
Job(goal, config, lossy) ==
  [goal |-> goal, config |-> config, lossy |-> lossy, mentioned |-> {},
   provider |-> IF lossy THEN "remote" ELSE "heuristic"]

CONSTANT WordChoices    \* the words to combine

WordGoals == {Goal(words, "none", "2 + 2") : words \in SUBSET WordChoices}

UrlGoals ==
  {Goal(words, url, "2 + 2") :
     words \in SUBSET {"post", "malformed", "summary", "write"}, url \in Urls}

ExpressionGoals == {Goal({"calc", "summary"}, "none", expr) : expr \in Expressions}

RejectedGoals ==
  {Goal({"db", "calc", "write", "summary", word}, "none", "2 + 2") : word \in ForceWords}

DefaultJobs ==
  {Job(g, DefaultConfig, FALSE) :
     g \in WordGoals \cup UrlGoals \cup ExpressionGoals \cup RejectedGoals}

PatientJobs ==
  {Job(Goal({"summary"}, url, "2 + 2"), PatientConfig, FALSE) :
     url \in {"/slow", "/slow?900", "/flaky", "/malformed"}}

FreshOrFlaked == {NoCounts, Bump(NoCounts, "/flaky")}

(* Jobs for the lossy network: those that submit, and those that replan.   *)
LossyJobs ==
  {Job(Goal(words, url, "2 + 2"), Config(20, r, FALSE), TRUE) :
     words \in {{"post"}, {"post", "summary"}, {"post", "malformed"}, {"malformed", "write"}},
     url \in {"none", "/submit", "/malformed", "/data"}, r \in 0..4}

(* Jobs some of whose criteria are spelled out beforehand. *)
MentioningJobs ==
  {[Job(Goal({"get", "summary"} \cup words, url, "2 + 2"), DefaultConfig, FALSE)
      EXCEPT !.mentioned = mentioned] :
     words \in SUBSET {"calc", "write"}, url \in {"none", "/flaky", "/malformed"},
     mentioned \in SUBSET {"http", "file", "summary"}}

AllJobs == DefaultJobs \cup PatientJobs \cup LossyJobs \cup MentioningJobs
AllRuns == {JobRun(j) : j \in AllJobs}

Fresh == {NoCounts}

(* With real HTTP enabled: a submission to a server of somebody else.      *)
ForeignJobs ==
  {Job(Goal({"post", "malformed", "summary"}, "http://example.com", "2 + 2"),
       Config(20, 2, TRUE), FALSE)}
ForeignRuns == {JobRun(j) : j \in ForeignJobs}
=============================================================================
