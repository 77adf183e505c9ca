\* Two instances that make, load and keep the key, start, stop, are killed and lose
\* power at any point.
SPECIFICATION StartupSpec
CONSTANTS
  Processes = {p1, p2}
  NoProcess = NoProcess
  Absent = Absent
  Empty = Empty
  MaxKeys = 3
INVARIANTS
  AloneSucceeds
  StoppedHoldsNothing
  KeyKept
  WholeKey
