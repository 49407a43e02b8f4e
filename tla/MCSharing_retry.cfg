SPECIFICATION Spec
CONSTANTS
  NumParts = 2
  UploadConcurrency = 2
  MaxTransientAttempts = 3
  ReadsFail = FALSE
  MaxLosses = 2
CHECK_DEADLOCK FALSE
INVARIANTS PartRetryIsSafe
