SPECIFICATION FairSpec
CONSTANTS
  MaxAttempts = 2
  MaxResumes = 0
  Faults = {}
  UserActions = {"wnow"}
INVARIANT WriteNowKeepsRun
CHECK_DEADLOCK FALSE
