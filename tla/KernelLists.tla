----------------------------- MODULE KernelLists -----------------------------
(***************************************************************************)
(* The ready list of disp.c and the sleep list of sleep.c in memory.       *)
(*                                                                         *)
(* Both lists are threaded through the one `next' field of the pcbs.  The  *)
(* ready list has a head and a tail; the sleep list is a delta list, each  *)
(* sleepdiff counting the ticks after the sleeper before.  What dispatch() *)
(* does with a process in one turn is one or several actions here: one for *)
(* each iteration of the loops of sleep() and tick(), and one for each     *)
(* straight run of assignments between them.  The kernel is not            *)
(* interrupted in between, so no other step comes between those of a turn. *)
(***************************************************************************)
EXTENDS Integers, SequencesExt

CONSTANTS
  NProc,       \* MAX_PROC
  NULL,        \* the null pointer
  SleepTicks,  \* len / MILLISECONDS_TICK, for the sleeps that are made
  MaxLate      \* bound: how far below zero a sleepdiff is counted

ASSUME ListAssumption ==
  /\ NProc \in Nat /\ NProc >= 2 /\ NULL \notin 0 .. NProc - 1
  /\ SleepTicks \subseteq Nat /\ MaxLate \in Nat

VARIABLES
  p,           \* the process whose turn it is
  head, tail,  \* of the ready list
  sleepQ,      \* head of the sleep list
  next,        \* pcb.next
  sleepdiff,   \* pcb.sleepdiff
  pc,          \* where the kernel is in the turn
  tmp,         \* tmp of sleep()
  len          \* len of sleep()

readyVars == <<head, tail>>
vars == <<p, readyVars, sleepQ, next, sleepdiff, pc, tmp, len>>

Proc == 0 .. NProc - 1
Ptr  == Proc \cup {NULL}
Idle == 0

Init ==
  /\ p = Idle
  /\ head = 1 /\ tail = 1
  /\ sleepQ = NULL
  /\ next = [q \in Proc |-> NULL]
  /\ sleepdiff = [q \in Proc |-> 0]
  /\ pc = "run"
  /\ tmp = NULL /\ len = 0

(***************************************************************************)
(* ready(q) and next() as functions of the fields they change: `l' is a    *)
(* record of the head, the tail and the next pointers.                     *)
(***************************************************************************)
BugTailKept(l, q) ==
  [head |-> IF l.tail = NULL THEN q ELSE l.head,
   tail |-> IF l.tail = NULL THEN q ELSE l.tail,
   next |-> [x \in Proc |-> IF x = q THEN NULL ELSE IF x = l.tail THEN q ELSE l.next[x]]]

ReadyList(l, q) ==
  [head |-> IF l.tail = NULL THEN q ELSE l.head,
   tail |-> q,
   next |-> [x \in Proc |-> IF x = q THEN NULL ELSE IF x = l.tail THEN q ELSE l.next[x]]]

NextList(l) ==
  [head |-> l.next[l.head],
   tail |-> IF l.next[l.head] = NULL THEN NULL ELSE l.tail,
   next |-> [l.next EXCEPT ![l.head] = NULL]]

\* The lists as they are, but for the next pointers nx.
Now(nx) == [head |-> head, tail |-> tail, next |-> nx]

SetLists(l) == head' = l.head /\ tail' = l.tail /\ next' = l.next

\* p = next(): the turn goes to the head of the ready list of l.
Turn(l) ==
  /\ l.head # NULL
  /\ SetLists(NextList(l))
  /\ p' = l.head
  /\ pc' = "run"

-----------------------------------------------------------------------------
\* SYS_YIELD, and sleep() with less than 1 ms.
Yield ==
  /\ pc = "run"
  /\ Turn(ReadyList(Now(next), p))
  /\ UNCHANGED <<sleepQ, sleepdiff, tmp, len>>

\* SYS_STOP and SYS_SIGWAIT: the process is in no list.
Block ==
  /\ pc = "run" /\ p # Idle
  /\ Turn(Now(next))
  /\ UNCHANGED <<sleepQ, sleepdiff, tmp, len>>

\* The list that starts at q, read along the pointers nx.
Along(q, nx) ==
  LET after == [x \in Ptr |-> IF x = NULL THEN NULL ELSE nx[x]]
      at[n \in 0 .. NProc] == IF n = 0 THEN q ELSE after[at[n - 1]]
      length == Cardinality({n \in 0 .. NProc : at[n] # NULL})
  IN  SubSeq([i \in 1 .. NProc + 1 |-> at[i - 1]], 1, length)

ListFrom(q) == Along(q, next)

Listed == Range(ListFrom(head)) \cup Range(ListFrom(sleepQ))

\* create() and a signal to a process in sigwait: ready(q), and p goes on.
Wake(q) ==
  /\ pc = "run"
  /\ q # p /\ q \notin Listed
  /\ SetLists(ReadyList(Now(next), q))
  /\ UNCHANGED <<p, sleepQ, sleepdiff, pc, tmp, len>>

-----------------------------------------------------------------------------
\* sleep(p, .) into an empty list, or before its first sleeper.
BugHeadDiffKept(n) == [sleepdiff EXCEPT ![p] = n]

HeadDiff(n) ==
  IF sleepQ = NULL THEN [sleepdiff EXCEPT ![p] = n]
  ELSE [sleepdiff EXCEPT ![sleepQ] = @ - n, ![p] = n]

SleepFirst(n) ==
  /\ pc = "run" /\ p # Idle
  /\ sleepQ # NULL => sleepdiff[sleepQ] > n
  /\ sleepdiff' = HeadDiff(n)
  /\ sleepQ' = p
  /\ Turn(Now([next EXCEPT ![p] = sleepQ]))
  /\ UNCHANGED <<tmp, len>>

\* sleep(p, .) behind the first sleeper: the search starts there.
SleepSearch(n) ==
  /\ pc = "run" /\ p # Idle
  /\ sleepQ # NULL /\ sleepdiff[sleepQ] <= n
  /\ len' = n - sleepdiff[sleepQ]
  /\ tmp' = sleepQ
  /\ pc' = "search"
  /\ UNCHANGED <<p, readyVars, sleepQ, next, sleepdiff>>

\* The loop of sleep() stops at tmp.
BugStopsAtEnd(t, n) == next[t] = NULL

Stops(t, n) == next[t] # NULL => n < sleepdiff[next[t]]

Search ==
  /\ pc = "search" /\ ~Stops(tmp, len)
  /\ len' = len - sleepdiff[next[tmp]]
  /\ tmp' = next[tmp]
  /\ UNCHANGED <<p, readyVars, sleepQ, next, sleepdiff, pc>>

\* The process is linked in behind tmp, and its follower waits from it on.
Link ==
  /\ pc = "search" /\ Stops(tmp, len)
  /\ sleepdiff' = [q \in Proc |-> IF q = p THEN len
                                  ELSE IF q = next[tmp] THEN sleepdiff[q] - len
                                  ELSE sleepdiff[q]]
  /\ Turn(Now([next EXCEPT ![p] = next[tmp], ![tmp] = p]))
  /\ tmp' = NULL /\ len' = 0
  /\ UNCHANGED sleepQ

-----------------------------------------------------------------------------
\* tick() with nobody asleep, then ready(p) and next().
TickIdle ==
  /\ pc = "run" /\ sleepQ = NULL
  /\ Turn(ReadyList(Now(next), p))
  /\ UNCHANGED <<sleepQ, sleepdiff, tmp, len>>

\* tick() counts the first sleeper down.
Tick ==
  /\ pc = "run" /\ sleepQ # NULL
  /\ sleepdiff[sleepQ] > -MaxLate
  /\ sleepdiff' = [sleepdiff EXCEPT ![sleepQ] = @ - 1]
  /\ pc' = "tick"
  /\ UNCHANGED <<p, readyVars, sleepQ, next, tmp, len>>

\* The loop of tick() goes on: the first sleeper has nothing left to wait.
TimeUp(q) == sleepdiff[q] = 0

\* One iteration: the first sleeper moves to the end of the ready list.
WakeOne ==
  /\ pc = "tick"
  /\ sleepQ # NULL /\ TimeUp(sleepQ)
  /\ sleepQ' = next[sleepQ]
  /\ SetLists(ReadyList(Now(next), sleepQ))
  /\ UNCHANGED <<p, sleepdiff, pc, tmp, len>>

\* The loop ends; the interrupted process goes behind those that were woken.
TickDone ==
  /\ pc = "tick"
  /\ sleepQ # NULL => ~TimeUp(sleepQ)
  /\ Turn(ReadyList(Now(next), p))
  /\ UNCHANGED <<sleepQ, sleepdiff, tmp, len>>

Next ==
  \/ Yield \/ Block \/ TickIdle \/ Tick \/ WakeOne \/ TickDone \/ Search \/ Link
  \/ \E q \in Proc : Wake(q)
  \/ \E n \in SleepTicks : SleepFirst(n) \/ SleepSearch(n)

Spec == Init /\ [][Next]_vars

-----------------------------------------------------------------------------
(***************************************************************************)
(* The types; the search position is set only during a search.             *)
(***************************************************************************)
TypeOK ==
  /\ p \in Proc
  /\ {head, tail, sleepQ, tmp} \subseteq Ptr
  /\ next \in [Proc -> Ptr]
  /\ sleepdiff \in [Proc -> Int]
  /\ pc \in {"run", "search", "tick"}
  /\ len \in Nat
  /\ pc = "search" <=> tmp # NULL

(***************************************************************************)
(* The two lists and the running process share no pcb, the tail is the     *)
(* last of the ready list, and a pcb that is in no list points nowhere.    *)
(***************************************************************************)
ListsApart ==
  LET ready  == ListFrom(head)
      asleep == ListFrom(sleepQ)
  IN  /\ IsInjective(<<p>> \o ready \o asleep)
      /\ IF ready = <<>> THEN tail = NULL ELSE tail = Last(ready) /\ next[tail] = NULL
      /\ \A q \in Proc \ Range(ready \o asleep) : next[q] = NULL

(***************************************************************************)
(* In the delta list only the first difference counts down: no other one   *)
(* is ever negative, so a sleeper waits at least as long as those before.  *)
(***************************************************************************)
DeltasPositive ==
  \A q \in Range(ListFrom(sleepQ)) \ {sleepQ} : sleepdiff[q] >= 0

-----------------------------------------------------------------------------
(***************************************************************************)
(* The lists implement Scheduler.  A list is read off along its pointers;  *)
(* a sleeper waits the sum of the differences up to its own.  During a     *)
(* tick the turn is already decided: the sleepers still to be moved count  *)
(* as ready, and the head of it all as the process that runs.              *)
(***************************************************************************)
Sleepers == ListFrom(sleepQ)

\* The differences d up to each sleeper of s, summed.
Sums(s, d) ==
  LET sum[n \in 0 .. Len(s)] == IF n = 0 THEN 0 ELSE sum[n - 1] + d[s[n]]
  IN  sum

\* How many sleepers at the front the loop of tick() has still to move.
Pending(s) ==
  IF pc # "tick" THEN 0
  ELSE Cardinality({i \in DOMAIN s : \A j \in 1 .. i : sleepdiff[s[j]] = 0})

\* The running process and the ready ones, as they are when a tick is over.
Line ==
  LET s == Sleepers
  IN  IF pc = "tick" THEN Append(ListFrom(head) \o SubSeq(s, 1, Pending(s)), p)
      ELSE <<p>> \o ListFrom(head)

\* The ticks each process sleeps on.
Waits ==
  LET s == Sleepers
      sum == Sums(s, sleepdiff)
      asleep == SubSeq(s, Pending(s) + 1, Len(s))
  IN  [q \in Proc |-> IF Contains(asleep, q)
                      THEN sum[CHOOSE i \in DOMAIN s : s[i] = q] ELSE 0]

S == INSTANCE Scheduler WITH cur <- Head(Line), ready <- Tail(Line), wait <- Waits,
                             Ticks <- SleepTicks \ {0}

(***************************************************************************)
(* Every turn the pointers take is a turn Scheduler allows: first come,    *)
(* first served, and no sleeper early or late.  It holds for sleeps of a   *)
(* tick or more.                                                           *)
(***************************************************************************)
ImplementsScheduler == S!Spec
=============================================================================
