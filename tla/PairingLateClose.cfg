\* A submission of a cancelled window ends after the next window has opened.
SPECIFICATION FairSpec
CONSTANTS
  Submissions = {s1, s2}
  NoSub = NoSub
  MaxAttempts = 1
  RequireApproval = TRUE
  StoreMayFail = FALSE
  MaxWindows = 2
PROPERTIES
  ClosesOnlyItsOwnWindow
