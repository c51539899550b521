SPECIFICATION Spec
CONSTANTS
  SeqMod = 12
  FirstSeq = 8
  MaxUpdates = 2
  MaxQueue = 0
  Builds <- ReorderingBuild
  OpensAs <- MapsThePage
INVARIANTS
  Snapshot
