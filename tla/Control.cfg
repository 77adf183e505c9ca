\* Two connections that call, stall, give up and go, and an orderly stop.
SPECIFICATION FairSpec
CONSTANTS
  Conns = {c1, c2}
  QueueLimit = 1
  WireLimit = 0
  WaitsForAll = TRUE
  MaxCalls = 2
  MaxEvents = 2
  Wordy = {c1}
CHECK_DEADLOCK FALSE
INVARIANTS
  ReplyIsItsOwn
  EventsUnbroken
PROPERTIES
  NobodyHeldUp
  StopEnds
