\* One PC, paired earlier or not at all: an enrolment, removals, a status request or an unlock
\* at a time, and a second start of the app.
SPECIFICATION FairSpec
CONSTANTS
  Calls = {c1}
  MaxPairings = 1
  MaxLaunches = 2
  NoRow = NoRow
  NoStatus = NoStatus
CHECK_DEADLOCK FALSE
INVARIANTS
  RowHasKey
  DeletedIsGone
PROPERTIES
  WidgetCatchesUp
