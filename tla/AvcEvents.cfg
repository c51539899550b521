SPECIFICATION EventSpec
CONSTANTS
  s1 = s1  s2 = s2  t1 = t1  t2 = t2  cls = cls  perm = perm
  Wild = Wild  NoKey = NoKey  NoNode = NoNode  NoSid = NoSid  NoRef = NoRef
  Nodes = {n1, n2}
  MaxNodes = 2
  NumSlots = 1
  Keys <- TwoKeys
  Hash <- OneChain
  Perms = {perm}
  Decisions <- EventDecisions
  Sids = {sid}
  Refs = {}
  Seqnos = {1}
SYMMETRY NodeSymmetry
INVARIANTS NodeConservation NothingForgivenWhenEnforcing OneEntryPerKey
