\* the docstring of assemble_hex2 over every input
SPECIFICATION FairSpec
CONSTANTS
  Final <- MCFinal
  Full <- MCFull
  Blank <- MCBlank
  Cuts <- MCCuts
  Programs <- MCPrograms
  NLAB = 4
  OUT_BASE = 4194304
  MaxItems = 3
INVARIANTS
  SimulatorIsExact
CHECK_DEADLOCK FALSE
