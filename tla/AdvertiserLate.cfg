\* A window opened while the record is being registered is never advertised.
SPECIFICATION AdvSpec
CONSTANTS
  Submissions = {s1, s2}
  NoSub = NoSub
  MaxAttempts = 1
  RequireApproval = TRUE
  StoreMayFail = TRUE
  MaxWindows = 2
  MaxTasks = 2
SYMMETRY Symmetry
INVARIANT
  FlagCurrent
