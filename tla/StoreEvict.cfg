SPECIFICATION Spec
CONSTANTS
  Symbols = {a, b, c}
  Threads = {t1, t2}
  Readers = {r1}
  NoThread = NoThread
  NoSymbol = NoSymbol
  MaxSymbols = 2
  RingCapacity = 2
  DataDirs = {TRUE}
  MaxAppends = 5
  MaxInvalid = 1
SYMMETRY Interchangeable
INVARIANTS TypeOK Conservation NoPoison RangeComplete CountsRight
PROPERTY EvictedFrozen
