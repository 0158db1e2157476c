\* Two programs and the kernel print on a screen of three rows of four columns.
SPECIFICATION Spec
CONSTANTS
  COL = 4
  ROW = 3
  TAB = 2
  Char <- MCChar
  Printer = {p, q}
  p = p
  q = q
  UserText <- MCUserText
  KernelText <- MCKernelText
  BootText <- MCBootText
  HwCursor = {8}
  BYTE = 4
  MaxPrints = 2
  MaxAt = 17
SYMMETRY Symmetric
CHECK_DEADLOCK FALSE
INVARIANTS
  TypeOK
  PutsShown
PROPERTIES
  PrintShown
