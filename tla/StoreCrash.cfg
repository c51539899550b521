SPECIFICATION Spec
CONSTANTS
  h1 = h1
  h2 = h2
  r1 = r1
  Nobody = Nobody
  Handles = {h1, h2}
  Records = {r1}
  NumFinal = 2
  MaxCommits = 2
  MaxCrashes = 1
  Faults <- InstallFaults
  Creates <- AnyProcess
  SavePrevious = FALSE
  Reuse = FALSE
SYMMETRY Interchangeable
CONSTRAINT OrphanedBriefly
INVARIANTS
  Isolated
  NeverLost
PROPERTIES
  FailureIsRecoverable
