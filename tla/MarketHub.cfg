SPECIFICATION FairSpec
CONSTANTS
  RingCap = 2
  MaxCandles = 3
  MayDie = TRUE
INVARIANT HubInv
PROPERTIES SignalsServed ThreadsExit
