SPECIFICATION Spec
CONSTANTS
  NoPR = NoPR
  PRs <- TwoRequests
  Repositories <- OneRepository
  PageSize = 2
  Minutes = {5}
  AccountExists = FALSE
  Faults = {}
  MaxGeneration = 1
  MaxMoves = 1
  MaxCrashes = 0
INVARIANTS
  MarkedCreatedIsLive
CHECK_DEADLOCK FALSE
