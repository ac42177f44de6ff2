CONSTANTS
  u1 = u1 u2 = u2 u3 = u3 l1 = l1
  c1 = c1 c2 = c2 r1 = r1
  q1 = q1 q2 = q2 q3 = q3
  Users <- MCUsers
  Lots = {l1}
  Amounts = {1, 2, 3}
  Width = 100
  Requests = {c1, c2}
  Calls = {c1, c2}
  EventUIDs <- MCUIDs
  WrapAllowed = FALSE
  LotRequests = {q1, q2, q3}
  Bids <- TwoBids
  NoBid = NoBid
  Offer <- MCOffer
  Durations = {1}
  Funds <- MCFunds
  Extension = 1
  MaxAttempts = 2
  MaxTime = 3
  MaxReports = 1
  Late = FALSE
  Failures = FALSE
SPECIFICATION FairSpec
INVARIANTS TypeOK RefusedNotCharged
PROPERTIES EndsOnTime PaidBidIsSettled OutbidIsReleased AuctionEnds
CHECK_DEADLOCK FALSE
