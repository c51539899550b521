SPECIFICATION Spec
CONSTANTS
  h1 = h1
  r1 = r1
  r2 = r2
  Nobody = Nobody
  Handles = {h1}
  Records = {r1, r2}
  NumFinal = 2
  MaxCommits = 2
  MaxCrashes = 0
  Faults <- BuildFault
  Creates <- NoCreation
  SavePrevious = TRUE
  Reuse = TRUE
INVARIANTS
  CommitsOwnChanges
