SPECIFICATION PipelineSpec
CONSTANTS
  Ids <- StepIds
  Tools <- ToolNames
  Targets <- CallTargets
  Runs <- AllRuns
  Jobs <- AllJobs
  HitsBefore <- FreshOrFlaked
  MaxTimeout = 100
  WordChoices = {"get", "post", "flaky", "slow", "malformed", "db", "calc", "write", "summary"}
INVARIANTS
  CallsAreAcceptable
  SubmissionsBounded
  ReplanLeadsAway
PROPERTIES
  DoableIsDone
  ReplanningHeals
