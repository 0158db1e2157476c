\* Four slots, no signals, a fair timer: the queues, the process table, the
\* sleepers, and that all of them are served.
\* No property is about eax, so programs hold 0 there when they are interrupted.
SPECIFICATION FairSpec
CONSTANTS
  NProc = 4
  Call <- MCPlainCall
  SigNum = {}
  BadSig <- MCBadSig
  Handler = {}
  NULL = NULL
  SleepLen <- MCSleepLen
  Eax = {0}
  MaxPid = 4
  MaxFrames = 0
  MaxLate = 0
INVARIANTS
  TypeOK
  OnePlace
  NeverSpins
  PidsUnique
  SleepSorted
PROPERTIES
  Fifo
  ImplementsScheduler
  Served
  SleepersWake
