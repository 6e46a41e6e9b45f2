SPECIFICATION Spec
CONSTANTS
  Names <- MCNames
  SemVer <- MCSemVer
  Prec <- MCPrec
  NumVersionsToCache = 2
  MayFail = FALSE
  Rotting = {}
INVARIANT InitListsOnlyStored
