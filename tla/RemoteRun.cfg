SPECIFICATION FairSpec
CONSTANTS
  MaxAttempts = 1
  MaxResumes = 1
  Faults = {"net", "crash", "ssh"}
  UserActions = {"kill", "disconnect", "wnow"}
INVARIANTS TypeOK WorkspaceOutlivesServer FinishedIsComplete
PROPERTIES OneVerdict StopNeedsReason ResultsBeforeStop FormFindsRun
PROPERTIES OutcomeReachesForm DeletionEnds KillStopsServer
CHECK_DEADLOCK FALSE
