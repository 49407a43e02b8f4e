SPECIFICATION FairSpec
CONSTANTS
  Sessions = {s1}
  ThePublicID = p1
  PublicIDs <- MCPublicIDs
  PublicIDOf <- MCPublicIDOf
  Parts = {1}
  Contents = {x}
  Requests = {r1, r2}
  Workers = {w1}
  Faults = {"commit"}
  CrashAt = {"publish"}
  MaxFaults = 1
  None = None
PROPERTY OrphanAlwaysReclaimed
