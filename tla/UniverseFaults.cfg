SPECIFICATION Spec
CONSTANTS
  a = a
  b = b
  c = c
  d = d
  old = old
  new = new
  Blank = Blank
  Names = {a, b, c, d}
  NameOf <- Namesake
  Local = {a, b, c}
  Vals = {old, new}
  Pipeline <- Buckets
  Specs <- BucketSpecs
  Foreign <- ForeignUnlisted
  Annotations = {}
  TTL = 0
  Faults = {"create", "update", "wait", "finalizer"}
  MaxGeneration = 2
  MaxCrashes = 1
INVARIANTS
  QuiescentObserved
  SyncedUnlessMissed
  ForeignKept
  NoSurplus
PROPERTIES
  ObservedMonotone
  ImplementsLifecycle
CHECK_DEADLOCK FALSE
