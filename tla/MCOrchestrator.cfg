SPECIFICATION FairSpec
CONSTANTS
  p1 = p1
  p2 = p2
  old1 = old1
  old2 = old2
  Past <- MCPast
  Procs <- MCProcs
  Relevance <- MCRelevance
  MaxCalls = 1
  Window = 3
INVARIANTS
  TypeOK
  DurableInOrder
  OnlyVerdictsPersist
  RememberedOnce
  NoCallWithoutValidation
  OutcomesFollowCalls
  RecallsOnlyThePast
PROPERTIES
  VerdictIsFinal
  EveryRunEnds
