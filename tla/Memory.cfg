\* A hole of 8 paragraphs and one of 12; blocks of 2, 3, 8, 9 and 12 of them.
\* CHECK_DEADLOCK FALSE: the model ends where a hole has been overrun.
SPECIFICATION Spec
CONSTANTS
  PARA = 4
  HEADER = 3
  FREEMEM = 5
  HOLESTART = 40
  HOLEEND = 80
  MEMEND = 128
  PROC_STACK = 4
  Stack = {1, 5, 16, 18, 24, 30}
  MaxBlocks = 7
CHECK_DEADLOCK FALSE
INVARIANTS
  TypeOK
  BlocksApart
  OverrunWhenFull
