SPECIFICATION ClientsFair
CONSTANTS
  Times = {1, 2, 3}
  Capacity = 4
  NoTime = NoTime
  MaxPushes = 6
  DefaultRangeCap = 1
  MaxRangeCap = 3
  Asked <- MCAsked
  Windows <- MCWindows
  MaxFaults = 2
  MaxInFlight = 2
  MaxKlines = 3
  SizeFiles <- MCSizeFiles
  CoreCounts = {1, 2, 8}
  Fractions <- MCFractions
  SymbolCounts = {0, 1, 2, 20}
INVARIANTS HoldsNewest QueriesExact AbiExact KlinesStored SizedRight
PROPERTIES ClientsProgress
CHECK_DEADLOCK FALSE
