SPECIFICATION Spec
CONSTANTS
  buyer = buyer
  seller = seller
  purse = purse
  n1 = n1
  n2 = n2
  first = first
  second = second
  None = None
  Users = {buyer, seller}
  Addresses = {purse}
  Nonces = {n1, n2}
  Slots = {first, second}
SYMMETRY MCSymmetry
INVARIANTS
  VerifiedIsProved
  OpenChallengesOverlapped
  ProvedOnceInTurn
  RivalsAskedBefore
CHECK_DEADLOCK FALSE
