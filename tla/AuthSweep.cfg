\* Expired rows leave the nonce table.
SPECIFICATION FairSpec
CONSTANTS
  Devices = {d1}
  Messages = {m1}
  Owner <- OneOwner
  NoMsg = NoMsg
  Deliveries = {r1}
  Skew = 1
  StoreMayFail = FALSE
  MaxTime = 4
PROPERTIES
  ExpiredRowsSwept
CHECK_DEADLOCK FALSE
