SPECIFICATION Spec
CONSTANTS
  Producers = {p1}
  Handlers = {h1}
  Others = {}
  Made = {"update", "finish"}
  Faults = FALSE
  MaxCalls = 3
  Nobody = Nobody
INVARIANTS
  SafeFromDifferentThread
CHECK_DEADLOCK FALSE
