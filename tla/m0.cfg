\* files of four pieces or fewer, the numbers of four characters or fewer,
\* and texts longer than their room
SPECIFICATION ArenaSpec
CONSTANTS
  Sources <- MCSources
  LONG = 3
  STRSZ = 8
  arena = 100
  MaxChunks = 4
  MaxDigits = 4
INVARIANTS
  TypeOK
  ListIsKept
  MacroScope
  OneReading
  ImmediateIsExact
\* M0 exits.
CHECK_DEADLOCK FALSE
