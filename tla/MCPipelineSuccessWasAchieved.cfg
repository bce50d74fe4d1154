SPECIFICATION PipelineSpec
CONSTANTS
  Ids <- StepIds
  Tools <- ToolNames
  Targets <- CallTargets
  Runs <- AllRuns
  Jobs <- DefaultJobs
  HitsBefore <- FreshOrFlaked
  MaxTimeout = 100
  WordChoices = {"get", "malformed", "write"}
INVARIANT SuccessWasAchieved
