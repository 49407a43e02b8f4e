SPECIFICATION Spec
CONSTANTS
  Secrets = {p1}
  Tokens = {t1, t2}
  Requests = {r1, r2}
  Workers = {w1}
  Lifetimes = {2}
  TTL = 1
  Retention = 9
  BatchSize = 2
  Faults = {"storage", "statement", "commit", "connection", "request", "worker"}
  MaxFaults = 1
  MaxTime = 3
  None = None
SYMMETRY Symmetric
INVARIANTS OneTimeOpensOnce DownloadSurvives ObjectGoesFirst FirstOutcomeStays RecipientIsRecorded
