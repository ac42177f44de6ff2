CONSTANTS
  Writers = {w1, w2}
  Ticker = ticker
  MaxEvents = 2
  Backlog = 0
  Losses = 1
  Crashes = 1
  Consumers = {k1}
  Relevant = {1, 2}
  Stops = 1
  Sorted = FALSE
  CountBeforeStorage = 2
SPECIFICATION Spec
SYMMETRY MCSymmetry
INVARIANTS PublishedIsCommitted AppliedInOrder NothingSkipped
CHECK_DEADLOCK FALSE
