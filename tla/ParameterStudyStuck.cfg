SPECIFICATION FairSpec
CONSTANTS
  NumThreads = 2
  NumInstances = 2
PROPERTY StudyEnds
CHECK_DEADLOCK FALSE
