SPECIFICATION Spec
CONSTANTS
  Senders = {s1, s2}
  Receivers = {r1, r2}
  Words = {acid, rocket}
  WordsOf <- SameWords
  MaxNameplate = 1
  TTL = 1
  Retention = 1
  MaxAttempts = 2
  MaxTroubles = 2
  Rivals = {r2}
  RivalTroubles = 2
  LastStart = 1
  MaxTime = 3
  None = None
CHECK_DEADLOCK FALSE
INVARIANTS CodesAreUnambiguous LinkNeedsTheCode RetriesAreSafe EndedIsTrue
PROPERTIES LegsStay
