SPECIFICATION Spec
CONSTANTS
  MaxInt = 127
  Programs <- LeakedPrograms
  BuiltinIds <- UsedBuiltins
  StacksKnown <- TablesOf
  BaseThreshold = 4
  Prior <- FromNone
INVARIANTS NeverInvalid
