SPECIFICATION Spec
CONSTANTS
  NoPR = NoPR
  PRs <- RequestInEach
  Repositories <- TwoRepositories
  PageSize = 2
  Minutes = {0, 5}
  AccountExists = FALSE
  Faults = {"list", "account", "universe", "label", "delete"}
  MaxGeneration = 2
  MaxMoves = 3
  MaxCrashes = 1
INVARIANTS
  TypeOK
  MarksExclude
  CronWhole
PROPERTIES
  OpenUntilClosed
CHECK_DEADLOCK FALSE
