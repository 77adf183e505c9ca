\* Three terminals, one after the other; a database call may fail.
SPECIFICATION CLISpec
CONSTANTS
  Submissions = {s1, s2, s3}
  NoSub = NoSub
  MaxAttempts = 1
  RequireApproval = TRUE
  StoreMayFail = TRUE
  MaxWindows = 3
  Terminals = {t1, t2, t3}
  Shared = FALSE
SYMMETRY Symmetry
INVARIANTS
  ApprovedWasShown
PROPERTY
  CommandsMeetTheirWindow
