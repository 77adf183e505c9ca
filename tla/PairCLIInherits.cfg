\* A run that inherits the last events of the previous window.
SPECIFICATION CLISpec
CONSTANTS
  Submissions = {s1, s2}
  NoSub = NoSub
  MaxAttempts = 1
  RequireApproval = TRUE
  StoreMayFail = FALSE
  MaxWindows = 2
  Terminals = {t1, t2}
  Shared = FALSE
PROPERTY
  WatchesItsWindow
