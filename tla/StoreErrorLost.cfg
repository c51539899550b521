SPECIFICATION Spec
CONSTANTS
  h1 = h1
  r1 = r1
  Nobody = Nobody
  Handles = {h1}
  Records = {r1}
  NumFinal = 2
  MaxCommits = 1
  MaxCrashes = 0
  Faults <- FlagFault
  Creates <- NoCreation
  SavePrevious = TRUE
  Reuse = FALSE
PROPERTIES
  SuccessIsCommitted
