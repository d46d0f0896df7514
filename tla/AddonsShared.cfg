SPECIFICATION LiveSpec
CONSTANTS
  u = u
  v = v
  None = None
  Workers = {u, v}
  Primary = "primary"
  Target <- TargetOf
  Wanted <- OneWants
  Ready = {"cu","cv"}
  Path <- PathOf
  Faults = {"connect", "get", "create", "chart"}
  MaxFailures = 0
INVARIANTS
  WholeUnlessCut
CHECK_DEADLOCK FALSE
PROPERTIES
  InstalledWhereAsked
  EachCompleted
