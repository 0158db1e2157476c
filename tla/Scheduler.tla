------------------------------ MODULE Scheduler ------------------------------
(***************************************************************************)
(* What the ready list of disp.c and the sleep list of sleep.c promise     *)
(* together: the ready processes run first come, first served, and a       *)
(* process that sleeps n ticks becomes ready at the n-th tick from then,   *)
(* whoever else sleeps.  Nothing is said here of how the lists are laid    *)
(* out, and of two processes whose sleep ends at the same tick either may  *)
(* come first.                                                             *)
(***************************************************************************)
EXTENDS Integers, Sequences, FiniteSets, Functions

CONSTANTS
  NProc,       \* MAX_PROC
  Ticks        \* the lengths of the sleeps that are made, 1 or more

VARIABLES
  cur,         \* the process that runs
  ready,       \* the ready processes, first the one to run next
  wait         \* the ticks a process still sleeps, 0 if it does not

vars == <<cur, ready, wait>>

Proc == 0 .. NProc - 1
Idle == 0

Awake(p) == wait[p] = 0

\* The process at the head of q runs.
Run(q) == q # <<>> /\ cur' = Head(q) /\ ready' = Tail(q)

Init ==
  /\ cur = Idle
  /\ ready = <<1>>
  /\ wait = [p \in Proc |-> 0]

Yield == Run(Append(ready, cur)) /\ UNCHANGED wait

\* The running process stops, or waits for a signal.
Block == cur # Idle /\ Run(ready) /\ UNCHANGED wait

Sleep(n) ==
  /\ cur # Idle
  /\ Run(ready)
  /\ wait' = [wait EXCEPT ![cur] = n]

\* A process that was created, or signalled, becomes ready.
Wake(p) ==
  /\ p # cur /\ p \notin Range(ready) /\ Awake(p)
  /\ ready' = Append(ready, p)
  /\ UNCHANGED <<cur, wait>>

\* The orders in which the elements of S may be taken.
Orders(S) == {w \in [1 .. Cardinality(S) -> S] : IsInjective(w)}

\* The processes whose time is up become ready, then the one that ran.
Tick ==
  /\ \E w \in Orders({p \in Proc : wait[p] = 1}) : Run(Append(ready \o w, cur))
  /\ wait' = [p \in Proc |-> IF Awake(p) THEN 0 ELSE wait[p] - 1]

Next ==
  \/ Yield \/ Block \/ Tick
  \/ \E n \in Ticks : Sleep(n)
  \/ \E p \in Proc : Wake(p)

Spec == Init /\ [][Next]_vars
=============================================================================
