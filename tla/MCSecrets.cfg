SPECIFICATION Spec
CONSTANTS
  Values <- MCValues
  Malformed <- MCMalformed
  Files <- MCFiles
  Secrets <- MCSecrets
  Wanted <- MCWanted
  MaxPosts = 3
  MaxCrashes = 2
  MayFail = TRUE
INVARIANTS TypeOK PromisesKept
PROPERTY ValueSettled
