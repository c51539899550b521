SPECIFICATION Spec
CONSTANTS
  n1 = n1
  r1 = r1
  n2 = n2
  Nodes <- TwoNodes
  MaxNodes = 2
  NumSlots = 1
  Keys <- TwoKeys
  Hash <- OneSlot
  Perms <- OnePerm
  Decisions <- AnyDecision
  Sids = {}
  Refs <- OneRef
  Seqnos <- Generations
  Wild = Wild
  NoKey = NoKey
  NoNode = NoNode
  NoSid = NoSid
  NoRef = NoRef
  SeqMod = 12
  FirstSeq = 8
  MaxUpdates = 2
  MaxQueue = 0
  Builds <- ReorderingBuild
  OpensAs <- MapsThePage
  Policy <- Alternating
  Opts <- AnyOption
  Failing <- CacheCallbacks
SYMMETRY NodeSymmetry
INVARIANTS
  FreshDecision
  AnswerOfTheMoment
  NeverOutdated
