SPECIFICATION SuiteSpec
CONSTANTS
  Ids <- StepIds
  Tools <- ToolNames
  Targets <- CallTargets
  Runs <- MCRuns
  Jobs <- MCJobs
  HitsBefore <- FreshOrAsked
  MaxTimeout = 100
  Window = 200
  Scenarios <- MoreScenarios
  Rounds = 2
  MaxAborts = 1
  AbortsAt = {1, 7, 16, 27}
INVARIANTS
  RoundsAlike
  DemoKeyFailsOnce
  SummaryIsOfItsRound
PROPERTIES
  OthersPass
