\* The instance of Phone.cfg with what does not hold; TLC stops at the first violation,
\* so keep one of the last four lines at a time:
\*   UnpairedLeavesNoKey  a request in flight puts back the key that a removal has deleted
\*   KeyDiesWithPairing   pairing the same PC again leaves the old key in the keychain
\*   NeverBlank           a start publishes an empty list before the disk has been read
\*   RemovesWhatItRead    the end of a removal drops the row of a newer pairing
\* TypeOK and FailedLeavesNoKey hold.
SPECIFICATION Spec
CONSTANTS
  Calls = {c1}
  MaxPairings = 1
  MaxLaunches = 2
  NoRow = NoRow
  NoStatus = NoStatus
CHECK_DEADLOCK FALSE
INVARIANT TypeOK
INVARIANT FailedLeavesNoKey
INVARIANT UnpairedLeavesNoKey
INVARIANT KeyDiesWithPairing
INVARIANT NeverBlank
PROPERTY RemovesWhatItRead
