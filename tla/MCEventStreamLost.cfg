CONSTANTS
  Writers = {w1, w2}
  Ticker = ticker
  MaxEvents = 2
  Backlog = 0
  Losses = 0
  Crashes = 0
  Consumers = {k1}
  Relevant = {1, 2}
  Stops = 0
  Sorted = TRUE
  CountBeforeStorage = 2
SPECIFICATION Spec
INVARIANTS ConfirmedIsPublished
CHECK_DEADLOCK FALSE
