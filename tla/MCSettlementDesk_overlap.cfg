SPECIFICATION Spec
CONSTANTS
  x1 = x1
  m1 = m1
  d1 = d1
  d2 = d2
  d3 = d3
  p1 = p1
  p2 = p2
  r1 = r1
  r2 = r2
  request = request
  replay = replay
  None = None
  BasisPoints = 10000
  Exports = {}
  Imports = {m1}
  Direct = {d1}
  Refunds = {}
  RefundOf <- MCRefundOf
  Payments = {p1, p2}
  Slots = {request, replay}
  Sweepers = {"sweep"}
  Gross <- MCGross
  Terms <- MCTerms
  DirectFee <- MCDirectFee
  Limit = 4
  Percents = {40}
  MaxHeld = 1
  MaxReleases = 1
  MaxReceipts = 2
  MaxFailures = 1
CONSTRAINT Pairwise
SYMMETRY MCSymmetry
INVARIANTS
  RialBacked
  DecisionsHold
  BooksBalance
CHECK_DEADLOCK FALSE
