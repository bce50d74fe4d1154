-------------------------------- MODULE MCSuite --------------------------------
(***************************************************************************)
(* The scenarios of eval/scenarios.json, in its order, and a few more that *)
(* spell out a criterion.                                                  *)
(***************************************************************************)
EXTENDS Suite, TLC

Default ==
  [timeout |-> 20, maxSteps |-> 12, maxRetries |-> 2, budget |-> 50,
   threshold |-> 3, hosts |-> DefaultHosts, realHttp |-> FALSE, dbWrites |-> FALSE]

Goal(words, url) == [words |-> words \cup WordsOfUrl(url), url |-> url, expr |-> "2 + 2"]

Expected(st, reason, tokens, texts) ==
  [status |-> st, reason |-> reason, tokens |-> tokens, texts |-> texts]

(* A scenario that asks for what the words tell the planner, says the      *)
(* tokens, spells out no criterion and has the default configuration.      *)
Scenario(words, url, says, expected) ==
  [goal |-> Goal(words, url), says |-> says, spells |-> {}, config |-> Default] @@ expected

With(config, scenario) == [scenario EXCEPT !.config = config]

Completed     == Expected("COMPLETED", "any", {}, {})
Rejected      == Expected("FAILED", "validation_failed", {}, {})
Stopped(rule) == Expected("STOPPED", rule, {rule}, {})

FileScenarios ==
  <<Scenario({"get", "calc", "summary"}, "none",
      {"fetch", "mock", "data", "calculate", "and", "summarize", "the", "result"}, Completed),
    Scenario({"post", "summary"}, "none",
      {"submit", "data", "to", "mock", "api", "via", "post", "and", "summarize", "response"},
      Completed),
    Scenario({"db", "summary"}, "none",
      {"query", "database", "demo", "table", "and", "summarize", "db", "result"}, Completed),
    Scenario({"write", "file", "summary"}, "none",
      {"write", "file", "with", "the", "result", "and", "summarize"}, Completed),
    Scenario({"calc"}, "none", {"calculate"}, Completed),
    Scenario({"summary"}, "none",
      {"summarize", "this", "note", "about", "autonomous", "execution"}, Completed),
    Scenario({"get", "flaky", "summary"}, "none",
      {"fetch", "flaky", "endpoint", "and", "summarize", "response"},
      Expected("COMPLETED", "any", {"patch_and_retry", "tool_error"}, {})),
    With([Default EXCEPT !.timeout = 3, !.maxRetries = 4],
      Scenario({"get", "summary"}, "/slow?900",
        {"fetch", "slow", "url", "http", "127", "8001", "delay_ms", "900", "and", "summarize",
         "response"},
        Expected("COMPLETED", "any", {"timeout", "patch_and_retry"}, {}))),
    Scenario({"get", "malformed", "summary"}, "none",
      {"fetch", "malformed", "endpoint", "and", "summarize", "result"},
      Expected("COMPLETED", "any", {"schema_error", "replan_remaining"},
               {"replanned malformed endpoint"})),
    Scenario({"get", "summary"}, "http://example.com",
      {"fetch", "http", "example", "com", "and", "summarize", "the", "response"}, Rejected),
    Scenario({"db", "delete row", "summary"}, "none",
      {"query", "db", "and", "delete", "row", "then", "summarize"}, Rejected),
    Scenario({"write", "file", "../", "summary"}, "none",
      {"write", "secrets", "txt", "file", "and", "summarize"}, Rejected),
    Scenario({"calc", "__import__"}, "none",
      {"calculate", "__import__", "os", "system", "echo", "bad"}, Rejected),
    Scenario({"bad tool"}, "none", {"use", "non", "existent", "tool", "in", "plan"}, Rejected),
    Scenario({"bad args"}, "none", {"use", "invalid", "args", "in", "plan"}, Rejected),
    With([Default EXCEPT !.maxRetries = 1],
      Scenario({"get", "flaky", "summary"}, "none",
        {"fetch", "flaky", "endpoint", "and", "summarize", "response"}, Stopped("max_retries"))),
    With([Default EXCEPT !.maxSteps = 2],
      Scenario({"calc", "long plan", "summary"}, "none",
        {"build", "long", "plan", "calculate", "and", "summarize"}, Stopped("max_steps"))),
    With([Default EXCEPT !.budget = 1],
      Scenario({"get", "summary"}, "none",
        {"budget", "test", "fetch", "mock", "data", "and", "summarize"},
        Stopped("budget_guard"))),
    With([Default EXCEPT !.maxRetries = 5, !.threshold = 1],
      Scenario({"get", "summary"}, "/flaky?loop",
        {"fetch", "url", "http", "127", "8001", "flaky", "fail_first", "10", "key", "loop",
         "and", "summarize"},
        Stopped("non_progress"))),
    Scenario({"get", "early stop", "summary"}, "none",
      {"early", "stop", "fetch", "mock", "data", "and", "summarize"},
      Stopped("success_criteria_met")),
    Scenario({"get", "summary"}, "none",
      {"fetch", "mock", "data", "using", "prior", "memory", "and", "summarize"},
      Expected("COMPLETED", "any", {}, {"Retrieved"})),
    Scenario({"get", "summary"}, "none",
      {"fetch", "mock", "data", "and", "summarize", "for", "trace", "export"}, Completed),
    Scenario({"calc", "summary"}, "none",
      {"calculate", "and", "summarize", "metrics"}, Completed),
    Scenario({"calc", "summary"}, "none", {"calculate", "and", "summarize", "result"}, Completed)>>

(* "Fetch mock data", before and after "Fetch mock data until http result  *)
(* captured", which the later of the two recalls.                          *)
FetchScenario == Scenario({"get"}, "none", {"fetch", "mock", "data"}, Completed)

SpellingScenario ==
  [Scenario({"get", "http"}, "none",
            {"fetch", "mock", "data", "until", "http", "result", "captured"},
            Stopped("success_criteria_met"))
     EXCEPT !.spells = {"http"}]

MoreScenarios == FileScenarios \o <<FetchScenario, SpellingScenario, FetchScenario>>

MCJobs == {JobOf(n, m) : n \in 1..Len(Scenarios), m \in SUBSET Spelled}
MCRuns == {JobRun(j) : j \in MCJobs}
Fresh  == {NoCounts}

(* A server that was asked the loop endpoint before, so that its counter   *)
(* runs out between the rounds.                                            *)
FreshOrAsked == Fresh \cup {[endpoint \in {"/flaky?loop"} |-> 8]}
=============================================================================
