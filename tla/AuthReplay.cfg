\* A message is accepted a second time.
SPECIFICATION Spec
CONSTANTS
  Devices = {d1}
  Messages = {m1}
  Owner <- OneOwner
  NoMsg = NoMsg
  Deliveries = {r1, r2}
  Skew = 1
  StoreMayFail = FALSE
  MaxTime = 4
INVARIANTS
  NonceSingleUse
CHECK_DEADLOCK FALSE
