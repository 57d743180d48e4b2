SPECIFICATION Spec
CONSTANTS
  b1 = b1
  k1 = k1
  k2 = k2
  c1 = c1
  s1 = s1
  Keys = {b1, k1, k2}
  Cells = {c1}
  Slots = {s1}
  Inline = Inline
  Builtins = {}
  Constants = {b1}
  BaseThreshold = 1
  IndirectCalls = FALSE
SYMMETRY Symmetry
INVARIANTS EveryReferenceLive Tricolor PinnedLive HeapBounded
PROPERTIES SweepExact ImplementsIdealHeap
CHECK_DEADLOCK FALSE
