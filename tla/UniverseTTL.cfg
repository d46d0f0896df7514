SPECIFICATION TTLSpec
CONSTANTS
  a = a
  b = b
  c = c
  d = d
  old = old
  new = new
  Blank = Blank
  Names = {a}
  NameOf <- OneNamespace
  Local = {a}
  Vals = {old, new}
  Pipeline <- Accounts
  Specs <- AccountSpecs
  Foreign <- NoForeign
  Annotations = {}
  TTL = 86400
  Faults = {}
  MaxGeneration = 1
  MaxCrashes = 0
PROPERTIES
  Expires
CHECK_DEADLOCK FALSE
