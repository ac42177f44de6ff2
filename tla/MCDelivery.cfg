SPECIFICATION FairSpec
CONSTANTS
  Calls = {c1, c2, c3}
  Users = {owner, winner, other}
  Owner = owner
  Winner = winner
  NoRequest = none
  Requests = {r1, r2, r3, r4}
INVARIANTS ReceivedAfterSent OneEventPerRequest ServicesAgree ReceivedOnce
PROPERTIES HandoverMovesForward ReceivedIsSettled
CHECK_DEADLOCK FALSE
