SPECIFICATION Spec
CONSTANTS
  MaxInt = 127
  Programs <- MisreadPrograms
  BuiltinIds <- UsedBuiltins
  StacksKnown <- TablesOf
  BaseThreshold = 4
  Prior <- FromNone
INVARIANTS ExpectedOutcome
