\* names longer than one 64-byte field
SPECIFICATION FairSpec
CONSTANTS
  Final <- MCFinal
  Full <- MCFullOne
  Blank <- MCBlank
  Cuts <- MCCuts
  Programs <- MCLongPrograms
  NLAB = 4
  OUT_BASE = 4194304
  MaxItems = 3
INVARIANTS
  UndefinedIsFatal
CHECK_DEADLOCK FALSE
