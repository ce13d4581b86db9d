SPECIFICATION FairSpec
CONSTANTS
  MaxChanges = 2
  Symbols = {a}
  NoInput = NoInput
INVARIANTS TypeOK RestIsCurrent
PROPERTIES CrashesOnlyOnClosing KillEndsRun GuiReturns EventuallyCurrent
CHECK_DEADLOCK FALSE
