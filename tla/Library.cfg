SPECIFICATION Spec
CONSTANTS
  p1 = p1
  p2 = p2
  Programs = {p1, p2}
  Jobs <- MCJobs
  Alphabet <- MCAlphabet
INVARIANTS
  TypeOK
  PrintedRight
  ScannedBack
  SortedRight
PROPERTIES
  ClassRight
\* The programs end.
CHECK_DEADLOCK FALSE
