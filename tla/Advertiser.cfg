\* The flag, and the single use of a code when no approval is required.
SPECIFICATION AdvSpec
CONSTANTS
  Submissions = {s1, s2, s3}
  NoSub = NoSub
  MaxAttempts = 2
  RequireApproval = FALSE
  StoreMayFail = FALSE
  MaxWindows = 2
  MaxTasks = 2
SYMMETRY Symmetry
INVARIANTS
  FlagSettles
  CodeSingleUse
