SPECIFICATION WatchFair
CONSTANTS
  Symbols = {a, b}
  Threads = {t1, t2}
  Readers = {}
  NoThread = NoThread
  NoSymbol = NoSymbol
  MaxSymbols = 1
  RingCapacity = 2
  DataDirs = {TRUE, FALSE}
  MaxAppends = 3
  MaxInvalid = 0
  Watched = a
  Window = 1
  Signallers = {g1}
  MaxSignals = 2
INVARIANT WatchInv
PROPERTIES Settles AppendReturns
