SPECIFICATION FairSpec
CONSTANTS
  Users = {o}
  Owners = {o}
  Ranges = 3
  MaxTransientAttempts = 3
  MaxPasswords = 3
  MaxLosses = 4
CHECK_DEADLOCK FALSE
PROPERTIES CommandsReturn
