SPECIFICATION Spec
CONSTANTS
  Names <- MCNames
  SemVer <- MCSemVer
  Prec <- MCPrec
  NumVersionsToCache = 2
  MayFail = TRUE
  Rotting = {"v2"}
INVARIANTS TypeOK StoredListed InitCleansDisk
PROPERTIES LoadTerminates StoreSpec
