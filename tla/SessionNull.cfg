\* A status report answers null although a graphical session exists.
SPECIFICATION Spec
CONSTANTS
  s1 = s1
  s2 = s2
  m = m
  o = o
  Sessions = {s1, s2, m, o}
  Kind <- KindValue
  Num <- NumValue
  Heeds = {s1}
  Requests = {r1}
  AnySession = AnySession
  Status = Status
  NoSession = NoSession
  MaxChanges = 1
CHECK_DEADLOCK FALSE
PROPERTY
  NullMeansNone
