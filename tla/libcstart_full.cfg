\* an argument array and an environment array that are full
SPECIFICATION Spec
CONSTANTS
  STRINGS = 12
  PATH = 18
  ENVP = 24
  ENVSTRINGS = 36
  HEAP = 42
  Top = 53
  CommandLines <- MCCommandLines
  Environments <- MCEnvironments
  Paths <- MCPaths
  Blocks <- MCBlocks
  MaxArgs = 3
  MaxEntries = 3
INVARIANTS
  LimitsSuffice
\* malloc stops at the bound.
CHECK_DEADLOCK FALSE
