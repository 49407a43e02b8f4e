SPECIFICATION Spec
CONSTANTS
  Users = {u1, o}
  Owners = {o}
  Ranges = 2
  MaxTransientAttempts = 3
  MaxPasswords = 3
  MaxLosses = 1
CHECK_DEADLOCK FALSE
INVARIANTS NothingIsLeft
