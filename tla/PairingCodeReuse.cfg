\* The audit row fails after the device row is written, without approval.
SPECIFICATION Spec
CONSTANTS
  Submissions = {s1, s2}
  NoSub = NoSub
  MaxAttempts = 1
  RequireApproval = FALSE
  StoreMayFail = TRUE
  MaxWindows = 1
INVARIANTS
  CodeSingleUse
