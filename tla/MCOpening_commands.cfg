SPECIFICATION FairSpec
CONSTANTS
  Users = {u1, o}
  Owners = {o}
  Ranges = 2
  MaxTransientAttempts = 2
  MaxPasswords = 1
  MaxLosses = 1
CHECK_DEADLOCK FALSE
INVARIANTS GoneIsTrue OneReader SpenderIsTold DeletedOpensNothing
PROPERTIES CommandsReturn
