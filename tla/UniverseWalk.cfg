SPECIFICATION Spec
CONSTANTS
  a = a
  b = b
  c = c
  d = d
  old = old
  new = new
  Blank = Blank
  Names = {a}
  NameOf <- OneNamespace
  Local = {a}
  Vals = {old, new}
  Pipeline <- NetCluster
  Specs <- NetClusterSpecs
  Foreign <- NoForeign
  Annotations = {"repo", "pr"}
  TTL = 0
  Faults = {}
  MaxGeneration = 3
  MaxCrashes = 0
INVARIANTS
  TypeOK
  QuiescentObserved
  QuiescentHealthy
  SyncedUnlessMissed
PROPERTIES
  ObservedAfterWalk
  HealthyAfterReady
CHECK_DEADLOCK FALSE
