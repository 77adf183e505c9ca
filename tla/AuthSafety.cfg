\* One message delivered twice around a window of one second.
SPECIFICATION Spec
CONSTANTS
  Devices = {d1}
  Messages = {m1}
  Owner <- OneOwner
  NoMsg = NoMsg
  Deliveries = {r1, r2}
  Skew = 1
  StoreMayFail = TRUE
  MaxTime = 4
SYMMETRY Symmetry
INVARIANTS
  AcceptedAgainOnlyLate
  PromptAcceptedOnce
  ReplayedMeansAccepted
  RevokedIsCutOff
CHECK_DEADLOCK FALSE
