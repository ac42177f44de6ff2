SPECIFICATION FairSpec
CONSTANTS
  Calls = {c1, c2, c3}
  Updates = {x1}
  Logins = {l1, l2}
  Emails = {e1, e2}
  Addresses = {a1}
  Requests = {r1}
  None = none

INVARIANTS TypeOK RegisteredCanLogIn EmailsDistinct NoOrphanLogin
PROPERTIES RegistrationEnds
CHECK_DEADLOCK FALSE
