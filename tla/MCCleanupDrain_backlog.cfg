SPECIFICATION FairDrain
CONSTANTS
  Workers = {w1, w2}
  Rows <- FourRows
  BatchSize = 2
  BadSets <- OneOrTwo
  MaxSlips = 1
  MaxErrors = 1
  None = None
INVARIANTS BacklogIsWorkedOff
PROPERTIES DrainEnds
