\* Operator approval required, database calls may fail: what the manager never does,
\* that windows close by themselves and phones are answered, and that it is an
\* Enrollment.
SPECIFICATION FairSpec
CONSTANTS
  Submissions = {s1, s2, s3}
  NoSub = NoSub
  MaxAttempts = 2
  RequireApproval = TRUE
  StoreMayFail = TRUE
  MaxWindows = 2
INVARIANTS
  EnrolledWasApproved
  CodeSingleUse
  NoOrphanedWaiter
  ReplyMatchesStore
  AttemptsBound
  DeniedMeansDeclined
PROPERTIES
  ImplementsEnrollment
  WindowClosesUnlessFailed
  EveryoneAnswered
