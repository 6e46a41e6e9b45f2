SPECIFICATION Spec
CONSTANTS
  Values <- MCValues
  Malformed <- MCMalformed
  Files <- MCFiles
  Secrets <- MCSecrets
  Wanted <- MCWanted
  MaxPosts = 3
  MaxCrashes = 0
  MayFail = TRUE
INVARIANT SkippedIsInFiles
