SPECIFICATION PipelineSpec
CONSTANTS
  Ids <- StepIds
  Tools <- ToolNames
  Targets <- CallTargets
  Runs <- ForeignRuns
  Jobs <- ForeignJobs
  HitsBefore <- Fresh
  MaxTimeout = 100
  WordChoices = {}
INVARIANT NothingSubmittedTwice
