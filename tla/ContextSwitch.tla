---------------------------- MODULE ContextSwitch ----------------------------
(***************************************************************************)
(* The way into the kernel and out of it (c/ctsw.c), with the interrupt    *)
(* controller (c/i386.c), instruction by instruction where it matters.     *)
(*                                                                         *)
(* set_evec() makes every vector a trap gate, which leaves interrupts      *)
(* enabled.  The first instruction of each entry point, `cli', disables    *)
(* them: until it is executed, a process that has issued a request, or has *)
(* been interrupted, can be interrupted once more, and other processes may *)
(* run before it gets to the `cli'.  From there to the iret that resumes a *)
(* process nothing else happens, so that stretch is one action, a turn of  *)
(* dispatch().  Dispatcher has the requests in full; here is one of each   *)
(* kind that acts differently on the saved contexts, and no process is     *)
(* created after the first ones.                                           *)
(***************************************************************************)
EXTENDS Integers, SequencesExt

CONSTANTS
  NProc,       \* MAX_PROC
  Call,        \* the requests the programs make
  Eax,         \* values a program may hold in eax when it is interrupted
  MaxDepth,    \* bound: contexts saved on one stack
  MaxFrames    \* bound: signal frames on one stack

\* The request numbers of xeroskernel.h.
STOP == 0
YIELD == 1
TIMER == 3
GETPID == 8
SIGRETURN == 12
KILL == 13
KEYBOARD == 20

ASSUME ProcAssumption  == NProc \in Nat /\ NProc >= 2
ASSUME CallAssumption  == Call \subseteq {STOP, TIMER, GETPID, KILL, KEYBOARD}
ASSUME EaxAssumption   == Eax \subseteq Int
ASSUME BoundAssumption == MaxDepth \in Nat /\ MaxFrames \in Nat

VARIABLES
  cur,         \* p of dispatch()
  at,          \* what the processor executes: user code, or an entry point
  eax,         \* the register
  stack,       \* the contexts saved on each stack: where each goes on
  ret,         \* pcb.ret
  readyQ,      \* the ready list
  isr,         \* the interrupts in service in the controller
  frames,      \* old_sp of the signal frames on each stack, in its contexts
  owed,        \* history: what eax must be in the context a process is in
  zeroed,      \* history: whether sigreturn has put 0 there instead
  under        \* history: what each signal frame covers, as the signal found it

procVars == <<stack, ret, frames, owed, zeroed, under>>
vars == <<cur, at, eax, readyQ, isr, procVars>>

Proc == 0 .. NProc - 1
Idle == 0
Irq  == {0, 1}                      \* TIMER_IRQ and that of the keyboard
Entry == {"call", "timer", "keyboard"}
Point == {"user"} \cup Entry

Init ==
  /\ cur = Idle /\ at = "user" /\ eax = 0
  /\ stack = [p \in Proc |-> IF p = Idle THEN <<>> ELSE <<"user">>]
  /\ ret = [p \in Proc |-> 0]
  /\ readyQ = [i \in 1 .. NProc - 1 |-> i]
  /\ isr = {}
  /\ frames = [p \in Proc |-> <<>>]
  /\ owed = [p \in Proc |-> {}]
  /\ zeroed = [p \in Proc |-> FALSE]
  /\ under = [p \in Proc |-> <<>>]

-----------------------------------------------------------------------------
\* History: the context that p is in, or will be in, owes v, or nothing known.
Promise(p, v) ==
  /\ owed' = [owed EXCEPT ![p] = v]
  /\ zeroed' = [zeroed EXCEPT ![p] = FALSE]

\* The entry point of an interrupt.
EntryOf(i) == IF i = 0 THEN "timer" ELSE "keyboard"

(***************************************************************************)
(* An interrupt the controller lets through is taken in user code, or at   *)
(* an entry point before its cli.                                          *)
(***************************************************************************)
Interrupt(i, v) ==
  /\ \A j \in isr : i < j
  /\ Len(stack[cur]) < MaxDepth
  /\ isr' = isr \cup {i}
  /\ stack' = [stack EXCEPT ![cur] = Append(@, at)]
  /\ at' = EntryOf(i)
  /\ eax' = IF at = "user" THEN v ELSE eax
  /\ IF at = "user" THEN Promise(cur, {v}) ELSE UNCHANGED <<owed, zeroed>>
  /\ UNCHANGED <<cur, readyQ, ret, frames, under>>

\* syscall(): the number of the request goes into eax, then int.
IntCall(n) ==
  /\ at = "user"
  /\ n # YIELD => cur # Idle
  /\ n = SIGRETURN => frames[cur] # <<>>
  /\ eax' = n
  /\ Promise(cur, {n})
  /\ stack' = [stack EXCEPT ![cur] = Append(@, "user")]
  /\ at' = "call"
  /\ UNCHANGED <<cur, readyQ, isr, ret, frames, under>>

-----------------------------------------------------------------------------
(***************************************************************************)
(* contextswitch() resumes the process that next() took from queue q, or   *)
(* the caller: r are the values of pcb.ret, st the stacks.                 *)
(***************************************************************************)
Resume(p, q, r, st) ==
  /\ cur' = p /\ readyQ' = q
  /\ ret' = r
  /\ eax' = r[p]
  /\ at' = Last(st[p])
  /\ stack' = [st EXCEPT ![p] = Front(@)]

RunNext(q, r, st) == q # <<>> /\ Resume(Head(q), Tail(q), r, st)

Rotate(r) == RunNext(Append(readyQ, cur), r, stack)

\* The interrupted process finds its eax again: contextswitch() keeps it in pcb.ret.
BugEaxLost == ret

EaxSaved == [ret EXCEPT ![cur] = eax]

\* end_of_intr(): the controller drops the foremost interrupt in service.
BugNoEoi(s) == s

EndOfIntr(s) == {j \in s : \E i \in s : i < j}

\* The timer's entry, executed from its cli: SYS_TIMER.
TimerTurn ==
  /\ at = "timer"
  /\ Rotate(EaxSaved)
  /\ isr' = EndOfIntr(isr)
  /\ UNCHANGED <<frames, owed, zeroed, under>>

\* The keyboard's entry: SYS_KEYBOARD.
KeyboardTurn ==
  /\ at = "keyboard"
  /\ Resume(cur, readyQ, EaxSaved, stack)
  /\ isr' = EndOfIntr(isr)
  /\ UNCHANGED <<frames, owed, zeroed, under>>

-----------------------------------------------------------------------------
\* The entry of int, with request n in eax.
Dispatched(n) == at = "call" /\ eax = n

\* The caller goes on with v in eax.
Answer(v, st) == Resume(cur, readyQ, [ret EXCEPT ![cur] = v], st)

Stop ==
  /\ Dispatched(STOP)
  /\ RunNext(readyQ, ret, [stack EXCEPT ![cur] = <<>>])
  /\ frames' = [frames EXCEPT ![cur] = <<>>]
  /\ Promise(cur, {})
  /\ under' = [under EXCEPT ![cur] = <<>>]
  /\ UNCHANGED isr

Yield ==
  /\ Dispatched(YIELD)
  /\ Rotate(ret)
  /\ Promise(cur, {})
  /\ UNCHANGED <<isr, frames, under>>

\* A request that is answered at once.
GetPid ==
  /\ Dispatched(GETPID)
  /\ Answer(cur + 1, stack)
  /\ Promise(cur, {cur + 1})
  /\ UNCHANGED <<isr, frames, under>>

\* SYS_TIMER as a request: it ends an interrupt that was never raised.
Timer ==
  /\ Dispatched(TIMER)
  /\ Rotate(ret)
  /\ isr' = EndOfIntr(isr)
  /\ Promise(cur, {})
  /\ UNCHANGED <<frames, under>>

\* SYS_KEYBOARD as a request, which sysread() makes of descriptor 20: unlike the
\* interrupt it leaves in eax what pcb.ret held.
Keyboard ==
  /\ Dispatched(KEYBOARD)
  /\ Resume(cur, readyQ, ret, stack)
  /\ isr' = EndOfIntr(isr)
  /\ Promise(cur, {})
  /\ UNCHANGED <<frames, under>>

\* The stack s with a context of sigtramp() on top.
BugOverwrites(s) == Append(Front(s), "user")

Framed(s) == Append(s, "user")

(***************************************************************************)
(* signal() puts a context of sigtramp() over the one the receiver is in,  *)
(* which the frame's old_sp points to.  For the caller that is the context *)
(* of its int, about to be answered with 0.  Left to Dispatcher are        *)
(* receivers that are not ready, and those with no handler, as idle is.    *)
(***************************************************************************)
Kill ==
  /\ Dispatched(KILL)
  /\ \E p \in ({cur} \cup Range(readyQ)) \ {Idle} :
       /\ Len(frames[p]) < MaxFrames
       /\ Answer(0, [stack EXCEPT ![p] = Framed(@)])
       /\ frames' = [frames EXCEPT ![p] = Append(@, Len(stack[p]))]
       /\ under' = [under EXCEPT ![p] = Append(@,
                      [owed |-> IF p = cur THEN {0} ELSE owed[p], stack |-> stack[p]])]
       /\ owed' = [owed EXCEPT ![cur] = {0}, ![p] = {}]
       /\ zeroed' = [zeroed EXCEPT ![cur] = FALSE, ![p] = FALSE]
  /\ UNCHANGED isr

\* A pid that no slot holds.
KillRefused ==
  /\ Dispatched(KILL)
  /\ Answer(-18, stack)
  /\ Promise(cur, {-18})
  /\ UNCHANGED <<isr, frames, under>>

\* The contexts that are on the stack s when esp is sp.
BugForgetsOldSp(s, sp) == s

Unwound(s, sp) == SubSeq(s, 1, sp)

(***************************************************************************)
(* sigtramp() calls sigreturn() with the old_sp of its frame when the      *)
(* handler has returned.  The context there goes on, with 0 in eax,        *)
(* whatever it was owed.  A program that calls sigreturn() itself, with a  *)
(* pointer of its own, is left to Dispatcher.                              *)
(***************************************************************************)
SigReturn ==
  /\ Dispatched(SIGRETURN)
  /\ Answer(0, [stack EXCEPT ![cur] = Unwound(@, Last(frames[cur]))])
  /\ frames' = [frames EXCEPT ![cur] = Front(@)]
  /\ owed' = [owed EXCEPT ![cur] = Last(under[cur]).owed]
  /\ zeroed' = [zeroed EXCEPT ![cur] = TRUE]
  /\ under' = [under EXCEPT ![cur] = Front(@)]
  /\ UNCHANGED isr

-----------------------------------------------------------------------------
User ==
  \/ \E n \in Call \cup {YIELD} : IntCall(n)
  \/ IntCall(SIGRETURN)

Kernel ==
  \/ TimerTurn \/ KeyboardTurn \/ Stop \/ Yield \/ GetPid \/ Timer \/ Keyboard
  \/ Kill \/ KillRefused \/ SigReturn

Next ==
  \/ User \/ Kernel
  \/ \E i \in Irq, v \in Eax : Interrupt(i, v)

Spec == Init /\ [][Next]_vars

-----------------------------------------------------------------------------
(***************************************************************************)
(* The types; a process that is ready has a context saved, and a handler   *)
(* one under its own.                                                      *)
(***************************************************************************)
TypeOK ==
  /\ cur \in Proc
  /\ at \in Point
  /\ stack \in [Proc -> Seq(Point)]
  /\ eax \in Int /\ ret \in [Proc -> Int]
  /\ readyQ \in Seq(Proc)
  /\ isr \subseteq Irq
  /\ frames \in [Proc -> Seq(Nat)]
  /\ owed \in [Proc -> SUBSET Int] /\ zeroed \in [Proc -> BOOLEAN]
  /\ under \in [Proc -> Seq([owed : SUBSET Int, stack : Seq(Point)])]
  /\ \A p \in Range(readyQ) : Len(stack[p]) > Len(frames[p])

\* eax, as the process p has it or will have it when it is resumed.
Register(p) == IF p = cur THEN eax ELSE ret[p]

\* What eax is to be for p: 0 in a context that a handler has returned to, else
\* what is owed.
EaxFor(p, v) == IF zeroed[p] THEN 0 ELSE v

(***************************************************************************)
(* Whenever an interrupt comes, at an entry point of an earlier one too,   *)
(* whoever runs before the process goes on, and whatever signals it gets:  *)
(* its eax then holds the number of the request it was about to make, the  *)
(* answer to the last one, or what the program had put there.  The one     *)
(* exception is sigreturn, which leaves 0 (disp.c:130) in the context it   *)
(* returns to in place of any of these.                                    *)
(***************************************************************************)
EaxLostBySigreturnOnly ==
  \A p \in {cur} \cup Range(readyQ) : \A v \in owed[p] : Register(p) = EaxFor(p, v)

(***************************************************************************)
(* The timer is in service exactly while the processor is at its entry     *)
(* point: no order of interrupts leaves it in service when another process *)
(* runs, which would stop the clock, and none of the end_of_intr() of the  *)
(* keyboard takes it out of service early.                                 *)
(***************************************************************************)
TimerPrompt ==
  /\ 0 \in isr <=> at = "timer"
  /\ \A p \in Proc : "timer" \notin Range(stack[p])

(***************************************************************************)
(* A handler that returns takes the process back to the very context the   *)
(* signal found it in, with the contexts below that one untouched: no      *)
(* interrupt, request or further signal that came while the handler ran,   *)
(* at its entry points too, has left a context behind or taken one away.   *)
(***************************************************************************)
ReturnsWhereSignalled ==
  [][SigReturn => Append(stack'[cur], at') = Last(under[cur]).stack]_vars

-----------------------------------------------------------------------------
(***************************************************************************)
(* syscall.c:100: sigreturn recovers any return code pushed on the stack,   *)
(* where signal() puts pcb.ret.  That is the register of an interrupted    *)
(* process, or, when it was stopped between its int and the cli, the       *)
(* number of the request it is about to make.                              *)
(***************************************************************************)
ReturnCodeRecovered ==
  [][SigReturn => \A v \in Last(under[cur]).owed : eax' = v]_vars
=============================================================================
