SPECIFICATION FairSpec
CONSTANTS
  NumThreads = 3
  NumInstances = 4
INVARIANTS
  TypeOK
  ExactlyOnce
  EvaluatedIsTaken
  LostOnlyByOverlap
PROPERTIES
  WorkIsDone
CHECK_DEADLOCK FALSE
