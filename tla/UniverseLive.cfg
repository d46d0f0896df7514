SPECIFICATION PruneSpec
CONSTANTS
  a = a
  b = b
  c = c
  d = d
  old = old
  new = new
  Blank = Blank
  Names = {a}
  NameOf <- OneNamespace
  Local = {a}
  Vals = {old}
  Pipeline <- Accounts
  Specs <- AccountSpecs
  Foreign <- NoForeign
  Annotations = {}
  TTL = 86400
  Faults = {"get", "delete", "finalizer"}
  MaxGeneration = 3
  MaxCrashes = 0
PROPERTIES
  KeepsPromises
  OwnedDisappear
  SurplusDisappears
  ListedAppear
CHECK_DEADLOCK FALSE
