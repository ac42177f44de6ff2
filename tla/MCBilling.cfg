CONSTANTS
  u1 = u1 u2 = u2 l1 = l1 l2 = l2
  r1 = r1 r2 = r2 r3 = r3 r4 = r4
  e1 = e1 e2 = e2 e3 = e3 e4 = e4 e5 = e5
  Users <- MCUsers
  Lots <- MCLots
  Requests <- MCRequests
  EventUIDs <- MCEvents
  Amounts = {1, 2}
  Width = 100
  WrapAllowed = FALSE
SPECIFICATION BillingSpec
SYMMETRY MCSymmetry
INVARIANTS BillingTypeOK BlockedIsSum BlockedIsCovered
PROPERTIES EventsConserveFunds
CHECK_DEADLOCK FALSE
