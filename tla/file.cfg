\* two processes and two files in common, one of which may fail
SPECIFICATION Spec
CONSTANTS
  Proc = {1, 2}
  File = {3, 4}
  Failing = {4}
  Contents <- MCContents
  Slots <- MCSlots
  Used = {0, 4}
  Count = {1, 2}
  Data <- MCData
  Offset <- MCOffset
  Word = 6
  MaxCalls = 3
INVARIANTS
  TypeOK
PROPERTIES
  ImplementsFile
CHECK_DEADLOCK FALSE
