SPECIFICATION FairSpec
CONSTANTS
  Ids <- MCIds
  Tools <- MCTools
  Targets <- MCTargets
  Runs <- MCRuns
  MaxTimeout = 10
  MaxSteps = {1, 4}
  MaxRetries = {0, 2, 4}
  MaxCosts = {3, 8}
  CostsPerStep = {1, 2}
  Thresholds = {1, 3}
PROPERTY TimeoutNeverShrinks
