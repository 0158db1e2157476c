\* A process that is interrupted and signalled.  Every program holds 0 in eax, so
\* that sigreturn's 0 does no harm to a register the program itself had set, and the
\* trace is that of a request stopped before the cli of its entry.
SPECIFICATION Spec
CONSTANTS
  NProc = 3
  Call = {0, 3, 8, 13, 20}
  Eax = {0}
  MaxDepth = 3
  MaxFrames = 1
PROPERTIES
  ReturnCodeRecovered
