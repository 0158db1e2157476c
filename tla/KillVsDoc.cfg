\* A signal to a process that has stopped, or to pid 0, which no process has.
SPECIFICATION Spec
CONSTANTS
  NProc = 3
  Call = {"create", "stop", "sighandler", "kill"}
  SigNum = {1}
  BadSig = {}
  Handler = {h}
  NULL = NULL
  SleepLen = {10}
  Eax <- MCEax
  MaxPid = 3
  MaxFrames = 2
  MaxLate = 0
PROPERTY KillNeedsTarget
