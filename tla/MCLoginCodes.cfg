SPECIFICATION Spec
CONSTANTS
  ann = ann
  bob = bob
  first = first
  second = second
  c1 = c1
  c2 = c2
  None = None
  Emails = {ann, bob}
  Codes = {c1, c2}
  Slots = {first, second}
  MaxAttempts = 2
  VerifyLimit = 2
  MaxWindows = 2
SYMMETRY MCSymmetry
INVARIANTS
  LiveCodesOverlapped
  RedeemedOnceInTurn
  GuessesBounded
  GuessesRateLimited
CHECK_DEADLOCK FALSE
