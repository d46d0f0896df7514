SPECIFICATION Spec
CONSTANTS
  a = a
  b = b
  c = c
  d = d
  old = old
  new = new
  Blank = Blank
  Names = {a, b}
  NameOf <- OneNamespace
  Local = {a, b}
  Vals = {old, new}
  Pipeline <- NetSubnet
  Specs <- NetSubnetSpecs
  Foreign <- NoForeign
  Annotations = {}
  TTL = 0
  Faults = {}
  MaxGeneration = 2
  MaxCrashes = 0
PROPERTIES
  PruneKeepsListed
CHECK_DEADLOCK FALSE
