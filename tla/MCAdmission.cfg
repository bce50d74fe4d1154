SPECIFICATION Spec
CONSTANTS
  Callers = {"c1", "c2"}
  Batches <- MCBatches
  Root <- MCRoot
  FilesBefore <- MCFiles
  DirsBefore <- MCDirs
INVARIANTS
  GuardsAgree
  SafeByDefault
  WritesKept
