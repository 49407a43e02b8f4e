SPECIFICATION Spec
CONSTANTS
  Sessions = {s1, s2}
  ThePublicID = p1
  PublicIDs <- MCPublicIDs
  PublicIDOf <- MCPublicIDOf
  Parts = {1}
  Contents = {x}
  Requests = {r1, r2}
  Workers = {w1, w2}
  Faults = {"storage", "reclaim", "statement", "commit"}
  CrashAt = {"exists", "insert", "undo", "list", "store", "find", "record", "lock", "assemble", "publish", "clear", "discard", "remove", "cancel", "mark", "sweep"}
  MaxFaults = 2
  None = None
SYMMETRY Symmetric
INVARIANTS TypeOK CreatedIsDurable AbortedIsNeverPublished RefusedIsNeverPublished
PROPERTY PublicationSpec
