CONSTANTS
  u1 = u1 u2 = u2 u3 = u3 l1 = l1
  c1 = c1 c2 = c2 r1 = r1
  q1 = q1 q2 = q2 q3 = q3
  Users <- MCUsers
  Lots = {l1}
  Amounts = {1, 2, 3}
  Width = 100
  Requests = {c1, c2}
  Calls = {c1, c2}
  EventUIDs <- MCUIDs
  WrapAllowed = FALSE
  LotRequests = {q1, q2, q3}
  Bids <- MCBids
  NoBid = NoBid
  Offer <- MCOffer
  Durations = {1}
  Funds <- MCFunds
  Extension = 1
  MaxAttempts = 2
  MaxTime = 2
  MaxReports = 2
  Late = FALSE
  Failures = FALSE
SPECIFICATION Spec
INVARIANTS FailedPaymentBlocksNothing
CHECK_DEADLOCK FALSE
