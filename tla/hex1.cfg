\* hex0 and hex1: every input of at most four pieces, either file failing
\* to open or lost at any time.
SPECIFICATION OneSpec
CONSTANTS
  MaxPieces = 4
  Byte <- MCByte
  Inputs <- MCInputs
INVARIANTS
  TypeOK
  PointersHit
  SeedAsSimulated
  AsSimulated
PROPERTIES
  Termination
CHECK_DEADLOCK FALSE
