\* A terminal that stays connected keeps an orderly stop from ending (StopEndsAlone);
\* TypeOK and NoneForgotten hold.
SPECIFICATION FairSpec
CONSTANTS
  Conns = {c1, c2}
  QueueLimit = 1
  WireLimit = 0
  WaitsForAll = TRUE
  MaxCalls = 2
  MaxEvents = 2
  Wordy = {c1}
CHECK_DEADLOCK FALSE
INVARIANTS
  TypeOK
  NoneForgotten
PROPERTIES
  StopEndsAlone
