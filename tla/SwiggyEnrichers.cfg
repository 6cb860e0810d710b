\* Two enrichments of three kinds, two organizations and two cuisines, over two
\* pages of seven neighbours, with any of the calls failing.
CONSTANTS
  e1 = e1
  e2 = e2
  None = None
  Area <- MCArea
  DinnerTimes <- MCDinnerTimes
  Enrichments = {e1, e2}
  Contexts <- MCContexts
  Pages <- MCPages
  MaxMenus = 2
  MaxCoupons = 2
  MaxSlotCalls = 2
  MaxSearchCalls = 2
  TTL = 1
  Patience = 1
  MaxClock = 2
SPECIFICATION Spec
SYMMETRY Symmetry
CHECK_DEADLOCK FALSE
INVARIANTS
  AnswersExplained
  OnlyNeighboursCount
