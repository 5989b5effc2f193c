SPECIFICATION Spec
CONSTANTS
  h1 = h1
  h2 = h2
  daemon = daemon
  cron = cron
  None = None
  Hashes = {h1}
  Logs = {"part"}
  HashOf <- MCHashOf
  AddressOf <- MCAddressOf
  FirstLog <- MCFirstLog
  Deposits = {"deposit"}
  BankWallets = {}
  AmountOf <- MCAmountOf
  Required <- MCRequired
  Sweepers = {daemon, cron}
  Reporters = {"payer"}
  Batch = 2
  MaxRequests = 1
  MinConfirmations = 1
  Take = 2
  MaxBlock = 2
  MaxReorgs = 1
  MaxFailures = 0
CONSTRAINT Pairwise
SYMMETRY MCSymmetry
INVARIANTS
  NothingSkipped
  ConfirmedIsFinal
  PaidIsCovered
CHECK_DEADLOCK FALSE
