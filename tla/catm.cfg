\* catm: at most three inputs of three files, each missing or present and the
\* output among them, arguments that cannot be converted, two handles, up to two
\* failing reads or writes.
SPECIFICATION FairSpec
CONSTANTS
  MaxInputs = 3
  Path <- MCPath
  NoPath = NoPath
  Datum <- MCDatum
  Handle <- MCHandle
  NoHandle = 0
  BUFSZ = 2
  Disks <- MCDisks
  Args <- MCArgs
  MaxFails = 2
INVARIANTS
  WhatMissingCosts
PROPERTIES
  OnlyTheOutput
  ImplementsConcat
  Termination
CHECK_DEADLOCK FALSE
