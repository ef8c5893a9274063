SPECIFICATION Spec
CONSTANTS
  Symbols = {"BTC/USDT", "ETH"}
  Escape <- Apart
  Times = {1, 2, 3}
  OldTimes = {2}
  OldDirs = {"BTC_USDT"}
  RingCapacity = 2
  MaxAppends = 3
  MaxFailures = 1
INVARIANTS AnswerRight
PROPERTY FilesStay
