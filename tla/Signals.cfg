\* Three slots and signals to every pid: delivery, sigwait, sleep, slot reuse,
\* and a second frame on a stack, or one on each of two.
SPECIFICATION Spec
CONSTANTS
  NProc = 3
  Call = {"create", "stop", "sleep", "sighandler", "sigwait", "sigreturn",
          "kill"}
  SigNum = {1}
  BadSig = {}
  Handler = {h}
  NULL = NULL
  SleepLen = {10}
  Eax <- MCEax
  MaxPid = 4
  MaxFrames = 2
  MaxLate = 0
CONSTRAINT FewFrames
INVARIANTS
  DueLostBySigreturnOnly
PROPERTIES
  SigwaitEndsOnSignal
  SleepEndsOnTime
