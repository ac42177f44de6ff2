CONSTANTS
  owner = owner winner = winner
  Writers = {w1}
  Ticker = ticker
  MaxEvents = 2
  Backlog = 1
  Losses = 0
  Crashes = 0
  Consumers = {k1, k2}
  Relevant = {1, 2}
  Stops = 1
  Sorted = TRUE
  CountBeforeStorage = 2
  EventOf <- MCEventOf
  Failures = 1
  NoTx = NoTx
SPECIFICATION NotifyFairSpec
INVARIANTS NotifyTypeOK NotifiedOnce ListedInOrder
PROPERTIES StreamRefined EveryEventHandled
CHECK_DEADLOCK FALSE
