\* CHECK_DEADLOCK FALSE: the machine stops when a null driver entry is called.
\* Keys: left shift, caps lock, control and D.
SPECIFICATION Spec
CONSTANTS
  Proc = {p, q}
  p = p
  q = q
  Modifier = {42, 58, 29}
  Key = {32}
  Fd = {0, 1, 2, 20}
  MaxQueue = 2
SYMMETRY Symmetric
CHECK_DEADLOCK FALSE
INVARIANTS
  TypeOK
  OneKeyboard
  ModifiersMatch
PROPERTY KeyTranslated
