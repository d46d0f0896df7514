SPECIFICATION LiveSpec
CONSTANTS
  NoPR = NoPR
  PRs <- TwoRequests
  Repositories <- OneRepository
  PageSize = 1
  Minutes = {5}
  AccountExists = TRUE
  Faults = {"list", "comment"}
  MaxGeneration = 1
  MaxMoves = 5
  MaxCrashes = 0
INVARIANTS
  MarkedCreatedIsLive
  MarkedClosedIsDown
PROPERTIES
  TornDown
  Answered
  UniversesAreLifecycles
CHECK_DEADLOCK FALSE
