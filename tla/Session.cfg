\* A request among two graphical sessions of ours, the manager session and another
\* user's, while users change the sessions twice.
SPECIFICATION FairSpec
CONSTANTS
  s1 = s1
  s2 = s2
  m = m
  o = o
  Sessions = {s1, s2, m, o}
  Kind <- KindValue
  Num <- NumValue
  Heeds = {s1}
  Requests = {r1}
  AnySession = AnySession
  Status = Status
  NoSession = NoSession
  MaxChanges = 2
CHECK_DEADLOCK FALSE
PROPERTIES
  NothingSteadyMissed
  ConfirmedMeansCleared
  SignalsWereWanted
  EveryoneAnswered
