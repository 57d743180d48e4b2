SPECIFICATION Spec
CONSTANTS
  MaxInt = 127
  Programs <- SmallPrograms
  BuiltinIds <- SmallBuiltins
  BaseThreshold = 8
  Prior <- FromNone
INVARIANTS ProgramWellFormed ProgramVerified MeansItsSource
