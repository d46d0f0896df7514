SPECIFICATION LiveSpec
CONSTANTS
  Targets <- TwoClusters
  Services = {"api"}
  Ingresses <- TwoNamespaces
  Faults = {"connect", "get", "create", "deadline", "velero", "annotate", "stages", "ingress"}
  MaxFailures = 2
INVARIANTS
  TypeOK
  RenamedInOrder
PROPERTIES
  RestoredUnlessEarly
  ServicesAnnotated
  HostsRenamed
CHECK_DEADLOCK FALSE
