SPECIFICATION Spec
CONSTANTS
  root = root
  clerk = clerk
  office = office
  desk = desk
  request = request
  replay = replay
  None = None
  Emails = {office, desk}
  Users = {root, clerk}
  Root = root
  RootEmail = office
  Slots = {request, replay}
  OpenAccess = TRUE
  Demo <- MCDemo
INVARIANTS
  OnlyTheListGrants
  OperatorsListed
  SomeoneAdministers
CONSTRAINT Apart
SYMMETRY MCSymmetry
CHECK_DEADLOCK FALSE
