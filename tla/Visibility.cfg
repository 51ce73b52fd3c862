SPECIFICATION FairSpec
CONSTANTS
  p1 = p1
  p2 = p2
  t1 = t1
  t2 = t2
  w1 = w1
  Papers = {p1, p2}
  Tasks = {t1, t2}
  Writers = {w1}
  Stored = {p1}
  BatchSize = 1
  MaxGeneration = 3
  MaxChunk = 2
  MaxWrites = 1
  MaxFaults = 2
INVARIANT TypeOK NothingLeftBehind
PROPERTY RepairIsKept PendingSettles
CHECK_DEADLOCK FALSE
