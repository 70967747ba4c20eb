\* every line of six characters or fewer, and what __spawn writes for
\* arguments of three or fewer, read by the three versions of next_token
SPECIFICATION FairSpec
CONSTANTS
  Plain <- MCPlain
  Lines <- MCLines
  ArgLists <- MCArgLists
  MaxLine = 6
  MaxArg = 3
INVARIANTS
  TypeOK
  UnreadIntact
  ArgvIsRight
  SpawnRoundTrip
  PlainAgrees
PROPERTIES
  Termination
\* The splitting ends.
CHECK_DEADLOCK FALSE
