SPECIFICATION EngineSpec
CONSTANTS
  Symbols = {"BTC", "ETH"}
  Prices = {0, 1, 3}
  MaxPrice = 4
  Quantities = {1, 3, 4}
  TolInv = 3
  InitialCash = 10
  MaxSubmits = 2
  MaxCandles = 2
INVARIANTS EngineInv BooksBalance
