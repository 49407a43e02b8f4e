SPECIFICATION FairSpec
CONSTANTS
  Senders = {s1}
  Receivers = {r1}
  Words = {acid, rocket}
  WordsOf <- SameWords
  MaxNameplate = 1
  TTL = 1
  Retention = 1
  MaxAttempts = 2
  MaxTroubles = 2
  Rivals = {}
  RivalTroubles = 0
  LastStart = 1
  MaxTime = 3
  None = None
CHECK_DEADLOCK FALSE
PROPERTIES LegIsReturned
