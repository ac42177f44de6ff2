\* One process of a service, for each endpoint; CHECK_DEADLOCK FALSE because
\* clients that have their answers send nothing more and the clock is bounded.
SPECIFICATION FairSpec
CONSTANTS
  c1 = c1
  c2 = c2
  r1 = r1
  Calls = {c1, c2}
  RequestOf <- MCRequestOf
  MaxPings = 2
  Faults <- MCFaults
  None = none
  Users = {u1}
  Sessions = {s1}
  AuthCalls = {x1}
  SessionTTL = 2
  TokenTTL = 1
  WriteTimeout = 1
  MaxTime = 5
  NoUser = nouser
  Lots = {l1}
  Bidders = {b1, b2}
  Owner = owner
  Readers = {q1, q2}
  MaxBids = 2

INVARIANTS AnswerIsTrue TokenEndsWithSession ListsAreTrue
PROPERTIES RequestIsAnswered
CHECK_DEADLOCK FALSE
