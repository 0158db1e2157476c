\* The calling process after sysread().
SPECIFICATION Spec
CONSTANTS
  Proc = {p, q}
  p = p
  q = q
  Modifier = {42}
  Key = {32}
  Fd = {0, 1}
  MaxQueue = 1
CHECK_DEADLOCK FALSE
PROPERTY ReadReturns
