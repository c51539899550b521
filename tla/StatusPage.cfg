SPECIFICATION Spec
CONSTANTS
  SeqMod = 12
  FirstSeq = 8
  MaxUpdates = 2
  MaxQueue = 1
  Builds <- AnyBuild
  OpensAs <- PageOrSocket
INVARIANTS
  TypeOK
  OrderedSnapshot
  UpToDate
  NoChangeHidden
  FieldPublished
  FallbackCurrent
PROPERTIES
  EveryCallReturns
CHECK_DEADLOCK FALSE
