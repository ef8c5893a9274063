SPECIFICATION HandlerFair
CONSTANTS
  Items = {0, 1, 2, 3, 4, 5, 6, 7, 8, 9}
  Torn = Torn
  Default = Default
  Capacity = 2
  CursorMod = 4
  MaxItems = 5
  MaxNow = 1
  FlushEvery = 3
INVARIANTS HandlerInv NoSlotRace ExitClean StoredInOrder DepthHonest
PROPERTIES ImplementsFifo LoopsEnd
