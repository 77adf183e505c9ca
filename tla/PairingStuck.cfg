\* A failed database call leaves the manager waiting for approval.
SPECIFICATION FairSpec
CONSTANTS
  Submissions = {s1}
  NoSub = NoSub
  MaxAttempts = 1
  RequireApproval = TRUE
  StoreMayFail = TRUE
  MaxWindows = 1
PROPERTIES
  WindowCloses
