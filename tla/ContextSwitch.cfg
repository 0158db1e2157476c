\* Three processes, any nesting of entry points and signal frames up to seven
\* contexts on all stacks together.
SPECIFICATION Spec
CONSTANTS
  NProc = 3
  Call = {0, 3, 8, 13, 20}
  Eax = {7}
  MaxDepth = 3
  MaxFrames = 1
CONSTRAINT FewContexts
INVARIANTS
  TypeOK
  EaxLostBySigreturnOnly
  TimerPrompt
PROPERTIES
  ReturnsWhereSignalled
