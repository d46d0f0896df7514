SPECIFICATION LiveSpec
CONSTANTS
  u = u
  v = v
  None = None
  Workers = {u}
  Primary = "primary"
  Target <- TargetOf
  Wanted <- WantsAll
  Ready = {}
  Path <- PathOf
  Faults = {"connect", "get", "create", "chart"}
  MaxFailures = 2
INVARIANTS
  TypeOK
  WholeUnlessCut
CHECK_DEADLOCK FALSE
PROPERTIES
  EachCompleted
