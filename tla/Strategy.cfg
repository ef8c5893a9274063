SPECIFICATION FairSpec
CONSTANTS
  ShortP = 1
  LongP = 2
  Closes = {1, 3}
  Times = {1, 2, 3, 4}
  RingCapacity = 3
  MaxCandles = 4
  MaxOther = 1
INVARIANTS FoldsRight SignalsAreCrossings
PROPERTY CatchesUp
