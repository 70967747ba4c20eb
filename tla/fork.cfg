\* Three processes, two forks deep or two in a row, any call failing and any
\* process killed.
SPECIFICATION FairSpec
CONSTANTS
  Proc <- MCProc
  Root = 1
  Handle = {h1}
  Pages = 3
  MaxForks = 2
  Unsteady = TRUE
INVARIANTS
  TypeOK
  OnlyReleasedRunMain
  StillWhileCopied
  HalvesAgree
  DescriptorsOpen
  StackGrows
PROPERTIES
  ForkComesBack
  ImplementsFork
\* Programs end.
CHECK_DEADLOCK FALSE
