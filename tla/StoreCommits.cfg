SPECIFICATION Spec
CONSTANTS
  h1 = h1
  h2 = h2
  r1 = r1
  Nobody = Nobody
  Handles = {h1, h2}
  Records = {r1}
  NumFinal = 2
  MaxCommits = 2
  MaxCrashes = 0
  Faults <- EarlyFaults
  Creates <- AnyProcess
  SavePrevious = TRUE
  Reuse = FALSE
CONSTRAINT OrphanedBriefly
INVARIANTS
  TypeOK
  Isolated
  ReadsCommitted
  ReadsOwnWrites
  CommitsOwnChanges
  FinalMatchesActive
PROPERTIES
  EveryCallReturns
  SuccessIsCommitted
