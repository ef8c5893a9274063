SPECIFICATION ExecutorSpec
CONSTANTS
  NaN = NaN
  NoFile = NoFile
  Garbage = Garbage
  Quantities = {NaN, 0, 1, 2, 3}
  Persist = TRUE
  MaxAbs = 2
  MaxQty = 2
  MaxRate = 1
  Second = 2
  MaxNow = 4
  MaxSignals = 4
INVARIANTS ExecutorInv CrashWindow
PROPERTY FileStaysValid
