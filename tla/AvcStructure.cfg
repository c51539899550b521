SPECIFICATION StructureSpec
CONSTANTS
  s1 = s1  s2 = s2  t1 = t1  t2 = t2  cls = cls  perm = perm
  Wild = Wild  NoKey = NoKey  NoNode = NoNode  NoSid = NoSid  NoRef = NoRef
  Nodes = {n1, n2, n3}
  MaxNodes = 3
  NumSlots = 2
  Keys <- ThreeKeys
  Hash <- MCHash
  Perms = {perm}
  Decisions <- StructureDecisions
  Sids = {}
  Refs = {r1}
  Seqnos = {0}
SYMMETRY NodeSymmetry
INVARIANTS TypeOK NodeConservation KeyPlacement ReclaimFindsANode
