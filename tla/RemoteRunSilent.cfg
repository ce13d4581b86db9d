SPECIFICATION FairSpec
CONSTANTS
  MaxAttempts = 2
  MaxResumes = 0
  Faults = {"crash"}
  UserActions = {}
PROPERTY SilentServerIsReported
CHECK_DEADLOCK FALSE
