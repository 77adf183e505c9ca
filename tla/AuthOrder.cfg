\* The order in which nonce and signature are checked.
SPECIFICATION FairSpec
CONSTANTS
  Devices = {d1}
  Messages = {m1}
  Owner <- OneOwner
  NoMsg = NoMsg
  Deliveries = {r1, r2}
  Skew = 1
  StoreMayFail = FALSE
  MaxTime = 4
PROPERTIES
  NonceCheckedFirst
CHECK_DEADLOCK FALSE
