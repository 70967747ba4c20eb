\* three argument slots (two arguments and a NULL), as many for the environment,
\* a path of two characters
SPECIFICATION Spec
CONSTANTS
  STRINGS = 12
  PATH = 18
  ENVP = 24
  ENVSTRINGS = 36
  HEAP = 42
  Top = 53
  CommandLines <- MCCommandLines
  Environments <- MCEnvironments
  Paths <- MCPaths
  Blocks <- MCBlocks
  MaxArgs = 4
  MaxEntries = 3
INVARIANTS
  ArgumentsIntact
  EnvironmentIntact
  HeapIntact
\* malloc stops at the bound.
CHECK_DEADLOCK FALSE
