SPECIFICATION FairSpec
CONSTANTS
  Sessions = {s1}
  ThePublicID = p1
  PublicIDs <- MCPublicIDs
  PublicIDOf <- MCPublicIDOf
  Parts = {1, 2}
  Contents = {x, y}
  Requests = {r1, r2}
  Workers = {w1}
  Faults = {"storage", "commit", "connection"}
  CrashAt = {"assemble", "publish"}
  MaxFaults = 2
  None = None
INVARIANTS SecretHasObject AcknowledgedPartStays
PROPERTIES PendingEnds OrphanReclaimed
