SPECIFICATION Spec
CONSTANTS
  Secrets = {p1}
  Tokens = {t1}
  Requests = {r1}
  Workers = {w1}
  Lifetimes = {1}
  TTL = 1
  Retention = 9
  BatchSize = 2
  Faults = {}
  MaxFaults = 0
  MaxTime = 2
  None = None
INVARIANT GoneIsExplained
