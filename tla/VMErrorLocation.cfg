SPECIFICATION Spec
CONSTANTS
  MaxInt = 127
  Programs <- LocatedPrograms
  BuiltinIds <- UsedBuiltins
  StacksKnown <- TablesOf
  BaseThreshold = 4
  Prior <- FromNone
INVARIANTS ErrorLocated
