SPECIFICATION FairEvents
CONSTANTS
  Transfers = {t1, t2}
  Polls = {p1, p2, p3}
  TransferOf <- OneApart
  MaxChanges = 2
  MaxDrops = 2
CHECK_DEADLOCK FALSE
INVARIANTS NoLostWakeup
PROPERTIES PollSeesChange
