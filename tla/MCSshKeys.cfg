SPECIFICATION Spec
CONSTANTS
  Values <- MCValues
  Entries <- MCEntries
  Malformed <- MCMalformed
  BadNames <- MCBadNames
  Restricted <- MCRestricted
  OwnKeys <- MCOwnKeys
  MaxPosts = 2
  MaxCrashes = 1
  MaxEdits = 1
  MayFail = TRUE
  MayMisread = TRUE
INVARIANTS TypeOK SuccessTrue OnlyAsked RememberedAnswered
PROPERTIES LinesKept ValueAnswered
