SPECIFICATION Spec
CONSTANTS
  BasisPoints = 10000
  Refs <- MCRefs
  Accounts = {"deployer", "operator"}
  Wallets <- MCWallets
  Sellers = {"seller"}
  NoWallet = "none"
  NoAccount = "nobody"
  NoTerms = NoTerms
  TermInputs <- MCTermInputs
  PinInputs <- MCPins
  MaxPaid = 3
INVARIANTS
  NothingStranded
  QuotedSplitHonoured
  PursesMatchTerms
PROPERTIES
  QuotedAddressStable
CHECK_DEADLOCK FALSE
