\* Five pcbs, up to four asleep at once, for one, two or three ticks.
SPECIFICATION Spec
CONSTANTS
  NProc = 5
  NULL = NULL
  SleepTicks = {1, 2, 3}
  MaxLate = 0
INVARIANTS
  TypeOK
  ListsApart
  DeltasPositive
PROPERTIES
  ImplementsScheduler
