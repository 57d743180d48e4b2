SPECIFICATION Spec
CONSTANTS
  MaxInt = 127
  Programs <- HandedOnPrograms
  BuiltinIds <- UsedBuiltins
  StacksKnown <- TablesOf
  BaseThreshold = 4
  Prior <- FromNone
PROPERTIES AppendExclusive
