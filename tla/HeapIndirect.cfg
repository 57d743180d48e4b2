SPECIFICATION FairSpec
CONSTANTS
  k1 = k1
  k2 = k2
  k3 = k3
  s1 = s1
  Keys = {k1, k2, k3}
  Cells = {}
  Slots = {s1}
  Inline = Inline
  Builtins = {}
  Constants = {}
  BaseThreshold = 1
  IndirectCalls = TRUE
INVARIANTS TypeOK NoDangling HeapBounded
PROPERTIES CollectionEnds
CHECK_DEADLOCK FALSE
