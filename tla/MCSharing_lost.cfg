SPECIFICATION Spec
CONSTANTS
  NumParts = 1
  UploadConcurrency = 1
  MaxTransientAttempts = 3
  ReadsFail = FALSE
  MaxLosses = 3
CHECK_DEADLOCK FALSE
INVARIANTS FailedIsNotPublished
