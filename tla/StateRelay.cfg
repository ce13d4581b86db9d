SPECIFICATION FairSpec
CONSTANTS
  Producers = {p1, p2}
  Handlers = {h1}
  Others = {}
  Made = {"update", "progress", "finish", "log", "print"}
  Faults = FALSE
  MaxCalls = 3
  Nobody = Nobody
INVARIANTS
  TypeOK
  ProducersExclude
  NothingVanishes
  AnswersCatchUp
PROPERTIES
  CallsReturn
CHECK_DEADLOCK FALSE
