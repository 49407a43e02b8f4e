SPECIFICATION FairSpec
CONSTANTS
  NumParts = 5
  Concurrency = 3
  Attempts = 3
  MaxLosses = 4
  MaxRefusals = 2
  FilesChange = TRUE
INVARIANTS CompletesWhole
PROPERTIES NoPartAfterTheAbort UploadSettles
