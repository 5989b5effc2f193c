SPECIFICATION FairPageSpec
CONSTANTS
  page = page
  t1 = t1
  t2 = t2
  None = None
  Pages = {page}
  Transfers = {t1, t2}
  Amount = 2
  MaxAnswers = 1
  MaxFailures = 1
INVARIANTS
  ShownPaidIsPaid
PROPERTIES
  PagesFollow
  ReportSettles
CHECK_DEADLOCK FALSE
