SPECIFICATION Spec
CONSTANTS
  i1 = i1
  t1 = t1
  t2 = t2
  t3 = t3
  request = request
  replay = replay
  None = None
  Invoices = {i1}
  Transfers = {t2, t3}
  Slots = {request, replay}
  Sweepers = {request, replay}
  Pays <- MCPays
  Amount <- MCAmount
  Fee <- MCFee
  AmountOf <- MCAmountOf
  MaxFailures = 0
SYMMETRY MCSymmetry
INVARIANTS
  RialLegInOrder
  PaidIsBacked
  PayoutAfterBooks
  DecisionsStayTrue
CHECK_DEADLOCK FALSE
