------------------------------ MODULE Dispatcher ------------------------------
(***************************************************************************)
(* The Xeros dispatcher: process table, ready queue, sleep queue, signals. *)
(*                                                                         *)
(* The kernel runs with interrupts disabled from the trap into it until    *)
(* the iret out of it, so one turn of the loop of dispatch() (c/disp.c) -  *)
(* the request of the running process, its case of the switch, the calls   *)
(* the case makes, and the choice of the next process - is one action.     *)
(* Between two turns the process `cur' runs user code, of which only the   *)
(* request it makes next, or the interrupt that stops it, matters here.    *)
(*                                                                         *)
(* The two linked lists are sequences of slots of proctab.  A sleeper's    *)
(* place in the delta list is kept as `left', the ticks it still has to    *)
(* wait: the sum of the sleepdiff fields up to and including its own.      *)
(* Module KernelLists has both lists as the code lays them out in memory.  *)
(***************************************************************************)
EXTENDS Integers, FiniteSets, SequencesExt

CONSTANTS
  NProc,       \* MAX_PROC, the number of slots of proctab
  Call,        \* the requests the programs make (all, but in small instances)
  SigNum,      \* the signal numbers isValidSignalNumber accepts (0..31)
  BadSig,      \* numbers it refuses
  Handler,     \* addresses of signal handlers in the programs
  NULL,        \* the null handler, which every signalTable starts with
  SleepLen,    \* the arguments of syssleep, in milliseconds
  Eax,         \* values the program may hold in eax when it is interrupted
  MaxPid,      \* bound: no process is created beyond this pid
  MaxFrames,   \* bound: unreturned signal frames on one stack
  MaxLate      \* bound: ticks counted for a sleeper past its time

ASSUME NProcAssumption   == NProc \in Nat /\ NProc >= 2
ASSUME CallAssumption    == Call \subseteq
  {"create", "yield", "stop", "getpid", "puts", "sleep", "sighandler", "sigwait",
   "sigreturn", "kill", "device", "timer", "keyboard", "bad"}
ASSUME SignalAssumption  == SigNum \cap BadSig = {} /\ NULL \notin Handler
ASSUME ValueAssumption   == SleepLen \subseteq Int /\ Eax \subseteq Int
ASSUME BoundAssumption   == MaxPid \in Nat /\ MaxFrames \in Nat /\ MaxLate \in Nat

VARIABLES
  cur,         \* p of dispatch(): the slot whose process runs
  pstate,      \* pcb.state
  pid,         \* pcb.pid
  nextpid,     \* nextpid of create.c
  ret,         \* pcb.ret, what eax holds when the process is resumed
  readyQ,      \* the list from head to tail in disp.c
  sleepQ,      \* the list from sleepQ in sleep.c
  left,        \* ticks a sleeper still waits
  sigTable,    \* pcb.signalTable
  frames,      \* signal frames on a stack that have not been returned from
  due,         \* history: what eax must be when the process runs on (a set
               \* of one value, or empty where the code promises none)
  returned,    \* history: sigreturn has put 0 in eax for what was due to cur
  mode         \* "up", or how the machine was lost

procVars  == <<pstate, pid, nextpid>>
sleepVars == <<sleepQ, left>>
sigVars   == <<sigTable, frames>>
histVars  == <<due, returned>>
vars == <<cur, procVars, ret, readyQ, sleepVars, sigVars, histVars, mode>>

Slot     == 0 .. NProc - 1
Idle     == 0                              \* idleproc, the first process created
SigEntry == Handler \cup {NULL}
ProcState == {"STOPPED", "READY", "SLEEP", "SIGWAIT"}

(***************************************************************************)
(* What signal() pushes on the receiver's stack: the handler sigtramp will *)
(* call, and old_sp, the address of the context the frame covers, which is *)
(* the place of the frame in the sequence.  The return value saved beside  *)
(* them is never read again, and is left out; what is due to the covered   *)
(* context is kept, as history.                                            *)
(***************************************************************************)
Frame == [handler : SigEntry, due : SUBSET Int]

Live(s)    == pstate[s] # "STOPPED"
Runnable(s) == s = cur \/ s \in Range(readyQ)

(***************************************************************************)
(* After initproc() and the first next(): idle runs, root is ready.        *)
(***************************************************************************)
Init ==
  /\ cur = Idle
  /\ pstate = [s \in Slot |-> IF s < 2 THEN "READY" ELSE "STOPPED"]
  /\ pid = [s \in Slot |-> IF s < 2 THEN s + 1 ELSE 0]
  /\ nextpid = 3
  /\ ret = [s \in Slot |-> 0]
  /\ readyQ = <<1>>
  /\ sleepQ = <<>>
  /\ left = [s \in Slot |-> 0]
  /\ sigTable = [s \in Slot |-> [n \in SigNum |-> NULL]]
  /\ frames = [s \in Slot |-> <<>>]
  /\ due = [s \in Slot |-> {}]
  /\ returned = FALSE
  /\ mode = "up"

-----------------------------------------------------------------------------
(***************************************************************************)
(* ready(): the process goes to the end of the queue.  The Bug* operators, *)
(* here and below, are slips the properties must notice.                   *)
(***************************************************************************)
BugReadyAtHead(q, s) == <<s>> \o q
BugReadyBehindHead(q, s) == IF q = <<>> THEN <<s>> ELSE InsertAt(q, 2, s)
BugReadyNoHead(q, s) == IF q = <<>> THEN q ELSE Append(q, s)

Ready(q, s) == Append(q, s)

(***************************************************************************)
(* next(): take the first process of the queue q.  On an empty queue the   *)
(* kernel prints BAD and spins with interrupts off.                        *)
(***************************************************************************)
RunNext(q) ==
  IF q = <<>>
  THEN mode' = "spin" /\ readyQ' = q /\ UNCHANGED cur
  ELSE mode' = mode /\ readyQ' = Tail(q) /\ cur' = Head(q)

(***************************************************************************)
(* A program whose topmost frame is a trampoline with a null handler jumps *)
(* to address 0 before it can make a request.                              *)
(***************************************************************************)
InNullHandler == frames[cur] # <<>> /\ Last(frames[cur]).handler = NULL

\* The running program can make a request.
Program == mode = "up" /\ ~InNullHandler

\* A process other than idle can make any request; idleproc only yields.
User(call) == Program /\ cur # Idle /\ call \in Call

\* History: d is due to each process, and the caller has not come by sigreturn.
Promise(d) == due' = d /\ returned' = FALSE

\* A request that leaves the caller running with v in eax.
Reply(v) ==
  /\ ret' = [ret EXCEPT ![cur] = v]
  /\ Promise([due EXCEPT ![cur] = {v}])
  /\ UNCHANGED <<cur, readyQ, mode>>

-----------------------------------------------------------------------------
\* The loop of create() stops at slot i.
BugNotReady(i) == pstate[i] # "READY" /\ \A j \in Slot : j < i => pstate[j] = "READY"

FirstStopped(i) ==
  pstate[i] = "STOPPED" /\ \A j \in Slot : j < i => pstate[j] # "STOPPED"

BugPidNotAdvanced(n) == n
BugPidWraps(n) == IF n = MaxPid THEN 1 ELSE n + 1

NextPid(n) == n + 1

(***************************************************************************)
(* create(): the first stopped slot gets a fresh stack and the next pid.   *)
(* Its signal table and its return value stay what the last owner of the   *)
(* slot left there.                                                        *)
(***************************************************************************)
Create ==
  /\ User("create")
  /\ nextpid <= MaxPid
  /\ \E i \in Slot :
       /\ FirstStopped(i)
       /\ pstate' = [pstate EXCEPT ![i] = "READY"]
       /\ pid' = [pid EXCEPT ![i] = nextpid]
       /\ frames' = [frames EXCEPT ![i] = <<>>]
       /\ readyQ' = Ready(readyQ, i)
       /\ Promise([due EXCEPT ![i] = {}, ![cur] = {nextpid}])
  /\ nextpid' = NextPid(nextpid)
  /\ ret' = [ret EXCEPT ![cur] = nextpid]
  /\ UNCHANGED <<cur, sleepVars, sigTable, mode>>

(***************************************************************************)
(* create() finds every slot taken, or kmalloc() finds no hole that holds  *)
(* the stack (a large enough stack argument does that at any time).        *)
(***************************************************************************)
CreateFails ==
  /\ User("create")
  /\ Reply(-1)
  /\ UNCHANGED <<procVars, sleepVars, sigVars>>

\* sysyield(): pcb.ret is not assigned, the caller gets its last result again.
Yield ==
  /\ Program
  /\ cur = Idle \/ "yield" \in Call
  /\ RunNext(Ready(readyQ, cur))
  /\ Promise([due EXCEPT ![cur] = {}])
  /\ UNCHANGED <<procVars, ret, sleepVars, sigVars>>

\* sysstop(): the slot may be reused; its pid and its stack are left behind.
Stop ==
  /\ User("stop")
  /\ pstate' = [pstate EXCEPT ![cur] = "STOPPED"]
  /\ RunNext(readyQ)
  /\ Promise([due EXCEPT ![cur] = {}])
  /\ UNCHANGED <<pid, nextpid, ret, sleepVars, sigVars>>

\* sysgetpid()
GetPid ==
  /\ User("getpid")
  /\ Reply(pid[cur])
  /\ UNCHANGED <<procVars, sleepVars, sigVars>>

\* sysputs()
Puts ==
  /\ User("puts")
  /\ Reply(0)
  /\ UNCHANGED <<procVars, sleepVars, sigVars>>

(***************************************************************************)
(* sysopen(), sysclose(), syswrite(): the caller is answered at once.  What*)
(* they do to the devices is outside this module.                          *)
(***************************************************************************)
Device ==
  /\ User("device")
  /\ \E v \in {-3, -1, 0} : Reply(v)
  /\ UNCHANGED <<procVars, sleepVars, sigVars>>

\* A request whose case of the switch does not assign pcb.ret.
Unanswered(call) ==
  /\ User(call)
  /\ Promise([due EXCEPT ![cur] = {}])
  /\ UNCHANGED <<cur, procVars, ret, readyQ, sleepVars, sigVars, mode>>

\* The default case: nothing changes but the message printed.
BadRequest == Unanswered("bad")

(***************************************************************************)
(* SYS_KEYBOARD as a request, which sysread(20, ...) makes.  Its effect on *)
(* the keyboard is outside this module, that of its end_of_intr() is in    *)
(* ContextSwitch.                                                          *)
(***************************************************************************)
KeyboardRequest == Unanswered("keyboard")

-----------------------------------------------------------------------------
\* sleep() with less than 1 ms to sleep: the caller goes to the back of the queue.
SleepNot(len) ==
  /\ User("sleep")
  /\ len < 1
  /\ RunNext(Ready(readyQ, cur))
  /\ Promise([due EXCEPT ![cur] = {}])
  /\ UNCHANGED <<procVars, ret, sleepVars, sigVars>>

(***************************************************************************)
(* sleep() puts a process with t ticks to wait behind the first k sleepers:*)
(* those that wait at most as long.                                        *)
(***************************************************************************)
BugSleepLast(k, t) == k = Len(sleepQ)

SleepBehind(k, t) ==
  /\ \A i \in 1 .. k : left[sleepQ[i]] <= t
  /\ k < Len(sleepQ) => left[sleepQ[k + 1]] > t

\* len / MILLISECONDS_TICK
TicksOf(len) == len \div 10

\* syssleep() with at least 1 ms.
Sleep(len) ==
  /\ User("sleep")
  /\ len >= 1
  /\ \E k \in 0 .. Len(sleepQ) :
       /\ SleepBehind(k, TicksOf(len))
       /\ sleepQ' = InsertAt(sleepQ, k + 1, cur)
  /\ left' = [left EXCEPT ![cur] = TicksOf(len)]
  /\ pstate' = [pstate EXCEPT ![cur] = "SLEEP"]
  /\ RunNext(readyQ)
  /\ Promise([due EXCEPT ![cur] = {0}])
  /\ UNCHANGED <<pid, nextpid, ret, sigVars>>

\* One tick less to wait.  The count goes on below zero, to the bound MaxLate.
Less(t) == IF t > -MaxLate THEN t - 1 ELSE t

\* tick() wakes the first k sleepers: those whose last tick this is.
BugWakeOne(k) == k = IF sleepQ # <<>> /\ left[Head(sleepQ)] = 1 THEN 1 ELSE 0

TimeUp(k) ==
  /\ \A i \in 1 .. k : left[sleepQ[i]] = 1
  /\ k < Len(sleepQ) => left[sleepQ[k + 1]] # 1

\* The return values after a tick that wakes `woken' and finds v in eax.
BugEaxNotSaved(woken, v) ==
  [s \in Slot |-> IF s \in Range(woken) THEN 0 ELSE ret[s]]

RetAfterTick(woken, v) ==
  [s \in Slot |-> IF s \in Range(woken) THEN 0 ELSE IF s = cur THEN v ELSE ret[s]]

(***************************************************************************)
(* tick() and the rest of the SYS_TIMER case: the sleepers at the front of *)
(* the list whose time is up become ready with return value 0, in order,   *)
(* then the interrupted process goes behind them with v to be put in eax.  *)
(***************************************************************************)
Tick(v) ==
  /\ \E k \in 0 .. Len(sleepQ) :
       /\ TimeUp(k)
       /\ LET woken == SubSeq(sleepQ, 1, k)
          IN /\ sleepQ' = SubSeq(sleepQ, k + 1, Len(sleepQ))
             /\ pstate' = [s \in Slot |->
                             IF s \in Range(woken) THEN "READY" ELSE pstate[s]]
             /\ ret' = RetAfterTick(woken, v)
             /\ RunNext(Ready(readyQ \o woken, cur))
  /\ left' = [s \in Slot |-> IF pstate[s] = "SLEEP" THEN Less(left[s]) ELSE left[s]]
  /\ UNCHANGED <<pid, nextpid, sigVars>>

\* The timer interrupt: contextswitch() saves eax in pcb.ret.
Timer(eax) ==
  /\ mode = "up"
  /\ Tick(eax)
  /\ Promise([due EXCEPT ![cur] = {eax}])

\* SYS_TIMER as a request, which sysread(3, ...) and sysioctl(3, ...) make.
TimerRequest ==
  /\ User("timer")
  /\ Tick(ret[cur])
  /\ Promise([due EXCEPT ![cur] = {}])

\* The keyboard interrupt: the interrupted process goes on at once.
Keyboard(eax) ==
  /\ mode = "up"
  /\ Reply(eax)
  /\ UNCHANGED <<procVars, sleepVars, sigVars>>

-----------------------------------------------------------------------------
\* syssighandler() with a valid number; every address is taken for valid.
SigHandler(n, h) ==
  /\ User("sighandler")
  /\ sigTable' = [sigTable EXCEPT ![cur][n] = h]
  /\ Reply(0)
  /\ UNCHANGED <<procVars, sleepVars, frames>>

SigHandlerRefused ==
  /\ User("sighandler")
  /\ Reply(-1)
  /\ UNCHANGED <<procVars, sleepVars, sigVars>>

SigWait ==
  /\ User("sigwait")
  /\ pstate' = [pstate EXCEPT ![cur] = "SIGWAIT"]
  /\ RunNext(readyQ)
  /\ Promise([due EXCEPT ![cur] = {}])
  /\ UNCHANGED <<pid, nextpid, ret, sleepVars, sigVars>>

\* findPCB(t) returns slot r: the first one with that pid, live or not.
FindPCB(t, r) ==
  /\ pid[r] = t
  /\ \A i \in Slot : i < r => pid[i] # t

\* syskill() with a signal number out of range, or for a pid no slot holds.
KillRefused(t, n) ==
  /\ User("kill")
  /\ \/ n \in BadSig /\ Reply(-3)
     \/ n \in SigNum /\ (\A r \in Slot : pid[r] # t) /\ Reply(-18)
  /\ UNCHANGED <<procVars, sleepVars, sigVars>>

\* The receiver is put in the ready queue by the signal.
BugWakesNone(s) == FALSE
BugWakesSleeper(s) == pstate[s] \in {"SLEEP", "SIGWAIT"}

SignalWakes(s) == pstate[s] = "SIGWAIT"

\* signal() puts the frame f on top of the frames fs.
Push(fs, f) == Append(fs, f)

(***************************************************************************)
(* syskill() that reaches signal(): a trampoline frame goes on top of the  *)
(* receiver's saved context.  A receiver in sigwait becomes ready; one     *)
(* that is ready, asleep or even stopped stays so.                         *)
(***************************************************************************)
Kill(t, n) ==
  /\ User("kill")
  /\ n \in SigNum
  /\ t # 0
  /\ \E r \in Slot :
       /\ FindPCB(t, r)
       /\ Len(frames[r]) < MaxFrames
       /\ frames' = [frames EXCEPT ![r] = Push(@,
                       [handler |-> sigTable[r][n],
                        due |-> IF r = cur THEN {0} ELSE due[r]])]
       /\ Promise([due EXCEPT ![cur] = {0}, ![r] = {}])
       /\ IF SignalWakes(r)
          THEN /\ pstate' = [pstate EXCEPT ![r] = "READY"]
               /\ readyQ' = Ready(readyQ, r)
          ELSE UNCHANGED <<pstate, readyQ>>
  /\ ret' = [ret EXCEPT ![cur] = 0]
  /\ UNCHANGED <<cur, pid, nextpid, sleepVars, sigTable, mode>>

\* trap(): the registers are printed, and the machine halts.
Trap == mode' = "trap"

(***************************************************************************)
(* syskill(0, n) finds a slot no process has used yet, whose esp is 0: the *)
(* kernel's store below address 0 faults.                                  *)
(***************************************************************************)
KillUnused(n) ==
  /\ User("kill")
  /\ n \in SigNum
  /\ \E r \in Slot : pid[r] = 0
  /\ Trap
  /\ UNCHANGED <<cur, procVars, ret, readyQ, sleepVars, sigVars, histVars>>

(***************************************************************************)
(* sigreturn(): on with the context at old_sp, the sp-th that a frame      *)
(* covers, and 0 in eax whatever was due there.  sigtramp() passes the     *)
(* old_sp of its own frame, the topmost; a program that makes the request  *)
(* itself may name any.                                                    *)
(***************************************************************************)
SigReturn(sp) ==
  /\ Program
  /\ sp < Len(frames[cur])
  /\ sp = Len(frames[cur]) - 1 \/ User("sigreturn")
  /\ frames' = [frames EXCEPT ![cur] = SubSeq(@, 1, sp)]
  /\ ret' = [ret EXCEPT ![cur] = 0]
  /\ due' = [due EXCEPT ![cur] = frames[cur][sp + 1].due]
  /\ returned' = TRUE
  /\ UNCHANGED <<cur, procVars, readyQ, sleepVars, sigTable, mode>>

(***************************************************************************)
(* sigreturn() by a program with a pointer to anything else: the words     *)
(* there are popped and iret taken to them, which runs on in a context the *)
(* program has made up, jumps anywhere, or faults.                         *)
(***************************************************************************)
SigReturnElsewhere ==
  /\ User("sigreturn")
  /\ ret' = [ret EXCEPT ![cur] = 0]
  /\ Promise([due EXCEPT ![cur] = {}])
  /\ mode' \in {"up", "wild", "trap"}
  /\ UNCHANGED <<cur, procVars, readyQ, sleepVars, sigVars>>

\* sigtramp() calls a null handler: the kernel image is entered at address 0.
CallNull ==
  /\ mode = "up"
  /\ InNullHandler
  /\ mode' = "wild"
  /\ UNCHANGED <<cur, procVars, ret, readyQ, sleepVars, sigVars, histVars>>

\* The machine is lost; what it does from here on is not modelled.
Lost == mode # "up" /\ UNCHANGED vars

-----------------------------------------------------------------------------
Request ==
  \/ Create \/ CreateFails \/ Yield \/ Stop \/ GetPid \/ Puts \/ Device
  \/ BadRequest \/ KeyboardRequest
  \/ \E len \in SleepLen : SleepNot(len) \/ Sleep(len)
  \/ \E n \in SigNum, h \in SigEntry : SigHandler(n, h)
  \/ SigHandlerRefused \/ SigWait \/ TimerRequest
  \/ SigReturnElsewhere \/ \E sp \in 0 .. MaxFrames - 1 : SigReturn(sp)
  \/ \E t \in 0 .. MaxPid + 1, n \in SigNum \cup BadSig : KillRefused(t, n) \/ Kill(t, n)
  \/ \E n \in SigNum : KillUnused(n)

Interrupt == \E eax \in Eax : Timer(eax) \/ Keyboard(eax)

Next == Request \/ Interrupt \/ CallNull \/ Lost

Spec == Init /\ [][Next]_vars

\* The timer is programmed once, in contextinit(), and never masked again.
FairSpec == Spec /\ WF_vars(\E eax \in Eax : Timer(eax))
-----------------------------------------------------------------------------
(***************************************************************************)
(* The type of the variables; a pid in use is below nextpid.               *)
(***************************************************************************)
TypeOK ==
  /\ cur \in Slot
  /\ pstate \in [Slot -> ProcState]
  /\ nextpid \in Nat
  /\ pid \in [Slot -> 0 .. nextpid - 1]
  /\ ret \in [Slot -> Int]
  /\ readyQ \in Seq(Slot)
  /\ sleepQ \in Seq(Slot)
  /\ left \in [Slot -> Int]
  /\ sigTable \in [Slot -> [SigNum -> SigEntry]]
  /\ frames \in [Slot -> Seq(Frame)]
  /\ due \in [Slot -> SUBSET Int]
  /\ returned \in BOOLEAN
  /\ mode \in {"up", "spin", "trap", "wild"}

\* A ready process is the running one or waits in the ready queue, never both.
ReadyPlace ==
  /\ IsInjective(readyQ)
  /\ cur \notin Range(readyQ)
  /\ \A s \in Slot : pstate[s] = "READY" <=> Runnable(s)

\* A sleeping process is in the sleep queue, once, and nothing else is.
SleepPlace ==
  /\ IsInjective(sleepQ)
  /\ \A s \in Slot : pstate[s] = "SLEEP" <=> s \in Range(sleepQ)

(***************************************************************************)
(* The two lists of disp.c and sleep.c and the variable p of dispatch()    *)
(* share the next field of the pcbs: a process that was in two of these    *)
(* places, or twice in one, would splice the lists into each other, and    *)
(* one in none of them while it is ready or asleep would never run again.  *)
(***************************************************************************)
OnePlace == ReadyPlace /\ SleepPlace

(***************************************************************************)
(* next() never meets an empty queue: idle is always running or queued, as *)
(* the BAD branch of next() takes for granted.                             *)
(***************************************************************************)
NeverSpins == mode # "spin" /\ pstate[Idle] = "READY"

(***************************************************************************)
(* findPCB() takes the first slot that holds a pid for the process of that *)
(* pid: no two slots hold the same one, also when slots are used again.    *)
(***************************************************************************)
PidsUnique == \A s, t \in Slot : pid[s] = pid[t] /\ pid[s] # 0 => s = t

(***************************************************************************)
(* The sleepers are in the order of the ticks they wait, as both loops of  *)
(* sleep.c need it: those whose time comes together are at the front.      *)
(***************************************************************************)
SleepSorted ==
  \A i, j \in DOMAIN sleepQ : i < j => left[sleepQ[i]] <= left[sleepQ[j]]

(***************************************************************************)
(* A process that was interrupted, answered or woken finds in eax what it  *)
(* held, the answer, or 0, whatever others do before it runs again, also   *)
(* to the contexts that signals have covered.  Only sigreturn() loses it:  *)
(* the context it goes back to finds 0, until its next turn.               *)
(***************************************************************************)
DueLostBySigreturnOnly ==
  \A s \in Slot : Runnable(s) => \A v \in due[s] :
    ret[s] = IF returned /\ s = cur THEN 0 ELSE v

\* a is somewhere before b in the queue q.
Before(q, a, b) == \E i, j \in DOMAIN q : i < j /\ q[i] = a /\ q[j] = b

(***************************************************************************)
(* ready() and next() keep the queue first in, first out: a process that   *)
(* is queued is overtaken by none that was queued behind it or not at all. *)
(***************************************************************************)
Fifo ==
  [][\A a, b \in Slot :
       a # b /\ a \in Range(readyQ) /\ (b \in Range(readyQ) => Before(readyQ, a, b)) =>
         /\ b = cur' => b = cur
         /\ b \in Range(readyQ') => a = cur' \/ Before(readyQ', a, b)]_vars

(***************************************************************************)
(* sigwait ends with the first signal that is delivered to the process,    *)
(* and with nothing else.                                                  *)
(***************************************************************************)
SigwaitEndsOnSignal ==
  [][\A s \in Slot : pstate[s] = "SIGWAIT" =>
       (pstate'[s] # "SIGWAIT" <=> Len(frames'[s]) > Len(frames[s]))]_vars

(***************************************************************************)
(* A signal does not end a sleep: only the tick at which its time is up    *)
(* takes a process from the sleep queue.                                   *)
(***************************************************************************)
SleepEndsOnTime ==
  [][\A s \in Slot : pstate[s] = "SLEEP" /\ pstate'[s] # "SLEEP" =>
       left[s] = 1 /\ left'[s] = 0 /\ pstate'[s] = "READY"]_vars

(***************************************************************************)
(* Every ready process gets the processor, whatever the others do.         *)
(***************************************************************************)
Served == \A s \in Slot : pstate[s] = "READY" ~> cur = s \/ mode # "up"

(***************************************************************************)
(* A process that sleeps is woken.  It holds as long as no process sleeps  *)
(* for less than the 10 ms of a tick.                                      *)
(***************************************************************************)
SleepersWake == \A s \in Slot : pstate[s] = "SLEEP" ~> pstate[s] # "SLEEP" \/ mode # "up"

-----------------------------------------------------------------------------
(***************************************************************************)
(* Dispatcher implements Scheduler: among the processes with all their     *)
(* requests, signals and interrupts, the processor goes round first come,  *)
(* first served, and every sleep ends at its tick.  It holds as long as    *)
(* no process sleeps for less than the 10 ms of a tick.                    *)
(***************************************************************************)
Sched == INSTANCE Scheduler WITH
           ready <- readyQ,
           wait  <- [s \in Slot |-> IF pstate[s] = "SLEEP" THEN left[s] ELSE 0],
           Ticks <- {TicksOf(len) : len \in SleepLen} \cap (Nat \ {0})

ImplementsScheduler == Sched!Spec

-----------------------------------------------------------------------------
(***************************************************************************)
(* What the comments say and the code does not do.                         *)
(***************************************************************************)

(***************************************************************************)
(* syscall.c:115: syskill reports a target that does not exist with -18;   *)
(* having failed, it delivers no signal and does not bring the machine     *)
(* down.                                                                   *)
(***************************************************************************)
KillNeedsTarget ==
  [][/\ \A s \in Slot : Len(frames'[s]) > Len(frames[s]) => Live(s)
     /\ mode' # "trap"]_vars
=============================================================================
