SPECIFICATION Spec
CONSTANTS
  MaxInt = 127
  Programs <- CounterPrograms
  BuiltinIds <- UsedBuiltins
  StacksKnown <- TablesOf
  BaseThreshold = 4
  Prior <- FromNone
PROPERTIES CellFollowsCounter
