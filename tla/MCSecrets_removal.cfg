SPECIFICATION FairSpec
CONSTANTS
  Secrets = {p1}
  Tokens = {t1}
  Requests = {r1}
  Workers = {w1}
  Lifetimes = {1, 2}
  TTL = 1
  Retention = 1
  BatchSize = 1
  Faults = {"storage", "commit", "connection", "worker"}
  MaxFaults = 2
  MaxTime = 3
  None = None
PROPERTY DueIsRemoved
