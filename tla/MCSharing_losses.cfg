SPECIFICATION FairSpec
CONSTANTS
  NumParts = 3
  UploadConcurrency = 2
  MaxTransientAttempts = 2
  ReadsFail = TRUE
  MaxLosses = 3
CHECK_DEADLOCK FALSE
INVARIANTS SharedIsWhole FailedIsReleased QuietAtTheEnd
PROPERTIES ShareReturns
