SPECIFICATION Spec
CONSTANTS
  Producers = {p1}
  Handlers = {h1, h2}
  Others = {"Next", "Latest"}
  Made = {"update", "finish"}
  Faults = TRUE
  MaxCalls = 2
  Nobody = Nobody
INVARIANTS
  ReplayedInOrder
CHECK_DEADLOCK FALSE
