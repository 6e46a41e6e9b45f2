SPECIFICATION Spec
CONSTANTS
  Requests <- MCRequests
  UserOf <- MCUserOf
  Expires <- MCExpires
  Garbled <- MCGarbled
  Timeframe = 0
  MaxTime = 1
  MaxPosts = 3
  MaxExecs = 3
  MaxCrashes = 1
  MayFail = TRUE
  MayMisread = FALSE
INVARIANTS TypeOK AnswersTrue
PROPERTIES PromiseSpec PostTakenUp
