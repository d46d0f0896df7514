SPECIFICATION Spec
CONSTANTS
  a = a
  b = b
  c = c
  d = d
  old = old
  new = new
  Blank = Blank
  Names = {a}
  NameOf <- OneNamespace
  Local = {}
  Vals = {old, new}
  Pipeline <- UpToNATs
  Specs <- AllKindsSpecs
  Foreign <- NoForeign
  Annotations = {}
  TTL = 0
  Faults = {}
  MaxGeneration = 2
  MaxCrashes = 0
INVARIANTS
  QuiescentHealthy
PROPERTIES
  ObservedAfterWalk
CHECK_DEADLOCK FALSE
