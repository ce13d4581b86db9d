SPECIFICATION FairSpec
CONSTANTS
  MaxAttempts = 2
  MaxResumes = 1
  Faults = {}
  UserActions = {"kill", "disconnect"}
PROPERTY KillInterruptsAnalysis
CHECK_DEADLOCK FALSE
