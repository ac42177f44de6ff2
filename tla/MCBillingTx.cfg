CONSTANTS
  u1 = u1 u2 = u2 l1 = l1 l2 = l2
  r1 = r1 r2 = r2 r3 = r3 r4 = r4
  e1 = e1 e2 = e2 e3 = e3 e4 = e4 e5 = e5
  h1 = h1 h2 = h2 c1 = c1 c2 = c2
  Users = {u1, u2}
  Lots = {l1, l2}
  Amounts = {1, 2}
  Width = 100
  Requests = {r1, r2, r3, r4}
  EventUIDs = {e1, e2, e3, e4, e5}
  HttpWorkers = {h1, h2}
  Consumers = {c1, c2}
  Jobs <- MCJobs
  NameRank <- MCNameRank
  LockKey <- DistinctKeys
  NoWorker = NoWorker
SPECIFICATION Spec
INVARIANTS LogsReplay NoWaitCycle
PROPERTIES BillingRefined
SYMMETRY MCSymmetry
