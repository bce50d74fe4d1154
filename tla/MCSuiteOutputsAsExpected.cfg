SPECIFICATION SuiteSpec
CONSTANTS
  Ids <- StepIds
  Tools <- ToolNames
  Targets <- CallTargets
  Runs <- MCRuns
  Jobs <- MCJobs
  HitsBefore <- Fresh
  MaxTimeout = 100
  Window = 200
  Scenarios <- FileScenarios
  Rounds = 2
  MaxAborts = 0
  AbortsAt = {}
INVARIANT OutputsAsExpected
