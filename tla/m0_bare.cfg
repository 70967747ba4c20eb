\* tokens that are no immediates and that M0 reads as numbers
SPECIFICATION ArenaSpec
CONSTANTS
  Sources <- MCBare
  LONG = 3
  STRSZ = 8
  arena = 100
  MaxChunks = 4
  MaxDigits = 4
INVARIANTS
  PassedThrough
\* M0 exits.
CHECK_DEADLOCK FALSE
