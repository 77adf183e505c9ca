\* Two terminals at once: the prompt of one answers for the phone of the other.
SPECIFICATION CLISpec
CONSTANTS
  Submissions = {s1, s2}
  NoSub = NoSub
  MaxAttempts = 1
  RequireApproval = TRUE
  StoreMayFail = FALSE
  MaxWindows = 2
  Terminals = {t1, t2}
  Shared = TRUE
SYMMETRY Symmetry
INVARIANTS
  ApprovedWasShown
