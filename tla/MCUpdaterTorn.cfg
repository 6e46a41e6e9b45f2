SPECIFICATION Spec
CONSTANTS
  Names <- MCNames
  SemVer <- MCNames
  Prec <- MCPrec
  NumVersionsToCache = 5
  MayFail = FALSE
  Rotting = {}
  Sound <- MCNames
INVARIANT RemoveNotBlocked
