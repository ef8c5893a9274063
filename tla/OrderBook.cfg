SPECIFICATION FairSpec
CONSTANTS
  Prices = {0, 1, 6}
  MaxPrice = 8
  Quantities = {1, 4, 5}
  TolInv = 4
  MaxOrders = 3
INVARIANTS BookInv NothingPassedOver
PROPERTY SubmitReturns
