\* A connection that has ended stays registered.
SPECIFICATION FairSpec
CONSTANTS
  Conns = {c1, c2}
  QueueLimit = 1
  WireLimit = 0
  WaitsForAll = FALSE
  MaxCalls = 2
  MaxEvents = 2
  Wordy = {c1}
CHECK_DEADLOCK FALSE
INVARIANTS
  EndedIsReleased
