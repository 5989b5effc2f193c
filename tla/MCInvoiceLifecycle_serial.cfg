SPECIFICATION FairSpec
CONSTANTS
  i1 = i1
  t1 = t1
  t2 = t2
  t3 = t3
  request = request
  replay = replay
  None = None
  Invoices = {i1}
  Transfers = {t1, t2}
  Slots = {"worker"}
  Sweepers = {"worker"}
  Pays <- MCPays
  Amount <- MCAmount
  Fee <- MCFee
  AmountOf <- MCAmountOf
  MaxFailures = 1
INVARIANTS
  ClosedFileHoldsNoRial
PROPERTIES
  KeepsPromise
  FundedIsDecided
  AbandonedIsExpired
CHECK_DEADLOCK FALSE
