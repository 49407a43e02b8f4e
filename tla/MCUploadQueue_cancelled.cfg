SPECIFICATION Spec
CONSTANTS
  NumParts = 2
  Concurrency = 2
  Attempts = 2
  MaxLosses = 1
  MaxRefusals = 0
  FilesChange = FALSE
INVARIANTS CancelledIsNotPublished
