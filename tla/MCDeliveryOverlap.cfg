SPECIFICATION Spec
CONSTANTS
  Calls = {c1, c2, c3}
  Users = {owner, winner, other}
  Owner = owner
  Winner = winner
  NoRequest = none
  Requests = {r1, r2, r3}
SYMMETRY Symmetry
INVARIANTS ReceivedIsPaid
CHECK_DEADLOCK FALSE
