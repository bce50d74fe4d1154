SPECIFICATION Spec
CONSTANTS
  Clients = {"c1", "c2", "c3"}
  Settings <- MCSettings
  Pool = 2
  MaxAttempts = 2
  MaxCrashes = 1
  MaxTimeout = 100
INVARIANTS
  TypeOK
  FaultsAreExact
  RetriesOutlastFaults
  SubmissionsCounted
PROPERTIES
  EverythingEnds
