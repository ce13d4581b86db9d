SPECIFICATION FairSpec
CONSTANTS
  MaxContent = 3
  Names = {f, g}
  NoName = NoName
  NoContent = NoContent
  Broken = Broken
  Faults = {"kill", "disk"}
INVARIANTS TypeOK FlagIsTrue RecoverableWhenQuiet
PROPERTIES RedoReturns SoonRecoverable
CHECK_DEADLOCK FALSE
