SPECIFICATION Spec
CONSTANTS
  MaxInt = 127
  Programs <- StoredPrograms
  BuiltinIds <- UsedBuiltins
  StacksKnown <- TablesOf
  BaseThreshold = 4
  Prior <- FromNone
INVARIANTS AbstractStackSound
