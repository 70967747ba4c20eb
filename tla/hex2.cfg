\* hex2 against its simulator, every input of at most four items; the image
\* base is the code's, the table is cut to three fields.
SPECIFICATION FairSpec
CONSTANTS
  Final <- MCFinal
  Full <- MCFull
  Blank <- MCBlank
  Cuts <- MCCuts
  Programs <- MCPrograms
  NLAB = 3
  OUT_BASE = 4194304
  MaxItems = 4
INVARIANTS
  TypeOK
  IpIsFilePosition
  LabelLands
  UndefinedIsFatal
  FailureIsDeserved
  AgreesOnPlain
PROPERTIES
  Termination
\* The program stops when it exits.
CHECK_DEADLOCK FALSE
