SPECIFICATION FairSpec
CONSTANTS
  MaxInt = 127
  Programs <- EverydayPrograms
  BuiltinIds <- UsedBuiltins
  StacksKnown <- TablesOf
  BaseThreshold = 4
  Prior <- FromAny
INVARIANTS TypeOK ProgramWellFormed CallerStackIntact EveryReferenceLive BalancedAtEnd ExpectedOutcome KnownConstantsHold ProgramVerified WithinFrame UpvaluesInRange TablesStable CapturedSlotsRest
PROPERTIES Terminates ResultsHandedBack PropagationInvisible
