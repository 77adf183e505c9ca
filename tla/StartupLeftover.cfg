\* An instance killed while it writes its key leaves a file that no later start passes.
SPECIFICATION StartupSpec
CONSTANTS
  Processes = {p1, p2}
  NoProcess = NoProcess
  Absent = Absent
  Empty = Empty
  MaxKeys = 3
PROPERTY
  FirstRunSucceeds
