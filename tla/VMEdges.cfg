SPECIFICATION Spec
CONSTANTS
  MaxInt = 127
  Programs <- EdgePrograms
  BuiltinIds <- UsedBuiltins
  StacksKnown <- TablesOf
  BaseThreshold = 2
  Prior <- FromAny
INVARIANTS DeviatesAsRecorded
