SPECIFICATION Spec
CONSTANTS
  Names <- MCNames
  SemVer <- MCNames
  Prec <- MCPrec
  NumVersionsToCache = 2
  MayFail = TRUE
  Rotting <- MCNames
  Sound <- MCSound
INVARIANTS TypeOK RunsOnlyInstalled UpdateInstalls NoDowngrade RollbackTried RemoveRemoves CheckPredictsUpdate
PROPERTY CommandEnds LifecycleSpec
