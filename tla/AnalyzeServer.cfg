\* The process may end: no deadlock check.
SPECIFICATION FairSpec
INVARIANTS
  TypeOK
  OutcomeIsTruthful
  ResultsAfterDetach
  KeepsServing
PROPERTIES
  AnnouncedResultsAreServed
  IsAnalysisJob
  SolvedIsAnnounced
  ExitEndsServer
CHECK_DEADLOCK FALSE
