SPECIFICATION FairSpec
CONSTANTS
  h1 = h1
  h2 = h2
  daemon = daemon
  cron = cron
  None = None
  Hashes = {h1, h2}
  Logs = {"part", "rest"}
  HashOf <- MCHashOf
  AddressOf <- MCAddressOf
  FirstLog <- MCFirstLog
  Deposits = {"deposit"}
  BankWallets = {}
  AmountOf <- MCAmountOf
  Required <- MCRequired
  Sweepers = {daemon}
  Reporters = {}
  Batch = 1
  MaxRequests = 1
  MinConfirmations = 1
  Take = 1
  MaxBlock = 3
  MaxReorgs = 0
  MaxFailures = 1
INVARIANTS
  PaidIsCovered
PROPERTIES
  FundedIsCredited
CHECK_DEADLOCK FALSE
