SPECIFICATION Spec
CONSTANTS
  x1 = x1
  m1 = m1
  d1 = d1
  d2 = d2
  d3 = d3
  p1 = p1
  p2 = p2
  r1 = r1
  r2 = r2
  request = request
  replay = replay
  None = None
  BasisPoints = 10000
  Exports = {x1}
  Imports = {}
  Direct = {d1, d2}
  Refunds = {r1}
  RefundOf <- MCRefundOf
  Payments = {p1}
  Slots = {request, replay}
  Sweepers = {request, replay}
  Gross <- MCGross
  Terms <- MCTerms
  DirectFee <- MCDirectFee
  Limit = 4
  Percents = {40, 50}
  MaxHeld = 1
  MaxReleases = 1
  MaxReceipts = 2
  MaxFailures = 0
INVARIANTS
  ReceiptOnce
  WithinDailyLimit
  BooksAgreeWithFiles
  ReleaseClearsShares
  RialAgainstRate
PROPERTIES
  EndsAreFinal
CONSTRAINT Apart
SYMMETRY MCSymmetry
CHECK_DEADLOCK FALSE
