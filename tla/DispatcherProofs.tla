-------------------------- MODULE DispatcherProofs --------------------------
(***************************************************************************)
(* What TLAPS proves about Dispatcher, for every number of slots, signal   *)
(* numbers, handlers, lengths of sleep and bounds: the types, that every   *)
(* process stands in exactly one queue, that the ready queue never runs    *)
(* dry, and that pids stay apart; the order of the two queues, how sleep   *)
(* and sigwait end, and that only sigreturn loses what is due in eax; and  *)
(* that all of it implements Scheduler.                                    *)
(***************************************************************************)
EXTENDS Dispatcher, QueueLemmas

USE NProcAssumption, ValueAssumption, BoundAssumption
USE DEF Promise, Unanswered, histVars

-----------------------------------------------------------------------------
\* next() keeps the types, whatever queue of slots it is called on.
LEMMA RunNextType ==
  ASSUME TypeOK, NEW q \in Seq(Slot), RunNext(q)
  PROVE  cur' \in Slot /\ readyQ' \in Seq(Slot)
         /\ mode' \in {"up", "spin", "trap", "wild"}
<1>1. CASE q = <<>>
  BY <1>1 DEF RunNext, TypeOK
<1>2. CASE q # <<>>
  <2>1. Head(q) \in Slot /\ Tail(q) \in Seq(Slot)
    BY <1>2, HeadTailProperties
  <2> QED BY <2>1, <1>2 DEF RunNext, TypeOK
<1> QED BY <1>1, <1>2

\* ready() makes a queue of slots.
LEMMA ReadyType ==
  ASSUME NEW q \in Seq(Slot), NEW s \in Slot
  PROVE  Ready(q, s) \in Seq(Slot)
BY AppendProperties DEF Ready

\* What sleep() and tick() make of the sleep queue is a queue of slots.
LEMMA SplitType ==
  ASSUME NEW q \in Seq(Slot), NEW k \in 0 .. Len(q)
  PROVE  SubSeq(q, 1, k) \in Seq(Slot) /\ SubSeq(q, k + 1, Len(q)) \in Seq(Slot)
<1>1. Len(q) \in Nat /\ \A i \in 1 .. Len(q) : q[i] \in Slot
  OBVIOUS
<1>2. (\A i \in 1 .. k : q[i] \in Slot) /\ (\A i \in k + 1 .. Len(q) : q[i] \in Slot)
  BY <1>1
<1>3. k \in Int /\ k + 1 \in Int /\ Len(q) \in Int /\ 1 \in Int
  BY <1>1
<1>4. SubSeq(q, 1, k) \in Seq(Slot)
  BY <1>2, <1>3, SubSeqProperties
<1>5. SubSeq(q, k + 1, Len(q)) \in Seq(Slot)
  BY <1>2, <1>3, SubSeqProperties
<1> QED BY <1>4, <1>5

\* Insertion makes a queue of slots.
LEMMA InsertType ==
  ASSUME NEW q \in Seq(Slot), NEW k \in 0 .. Len(q), NEW s \in Slot
  PROVE  InsertAt(q, k + 1, s) \in Seq(Slot)
<1>1. SubSeq(q, 1, k) \in Seq(Slot) /\ SubSeq(q, k + 1, Len(q)) \in Seq(Slot)
  BY SplitType
<1>2. InsertAt(q, k + 1, s) = SubSeq(q, 1, k) \o <<s>> \o SubSeq(q, k + 1, Len(q))
  <2>1. k \in Int
    OBVIOUS
  <2> QED BY <2>1, InsertIsConcat
<1>3. <<s>> \in Seq(Slot)
  OBVIOUS
<1>4. SubSeq(q, 1, k) \o <<s>> \in Seq(Slot)
  BY <1>1, <1>3, ConcatProperties
<1>5. (SubSeq(q, 1, k) \o <<s>>) \o SubSeq(q, k + 1, Len(q)) \in Seq(Slot)
  BY <1>1, <1>4, ConcatProperties
<1> QED BY <1>2, <1>5

\* sigreturn takes frames off, down to the one it returns from.
LEMMA PrefixType ==
  ASSUME NEW S, NEW q \in Seq(S), NEW sp \in Nat, sp < Len(q)
  PROVE  SubSeq(q, 1, sp) \in Seq(S) /\ q[sp + 1] \in S
<1>1. sp \in Int /\ \A i \in 1 .. sp : q[i] \in S
  OBVIOUS
<1>2. SubSeq(q, 1, sp) \in Seq(S)
  BY <1>1, SubSeqProperties
<1>3. sp + 1 \in 1 .. Len(q)
  OBVIOUS
<1> QED BY <1>2, <1>3

\* The types hold at the start.
LEMMA InitTypeOK == Init => TypeOK
<1> SUFFICES ASSUME Init PROVE TypeOK
  OBVIOUS
<1>1. cur \in Slot /\ 1 \in Slot
  BY DEF Init, Slot, Idle
<1>2. readyQ \in Seq(Slot) /\ sleepQ \in Seq(Slot)
  BY <1>1 DEF Init
<1>3. pid \in [Slot -> 0 .. nextpid - 1] /\ nextpid \in Nat
  <2>1. \A s \in Slot : (IF s < 2 THEN s + 1 ELSE 0) \in 0 .. 2
    BY DEF Slot
  <2> QED BY <2>1 DEF Init
<1>4. sigTable \in [Slot -> [SigNum -> SigEntry]]
  BY DEF Init, SigEntry
<1>5. frames \in [Slot -> Seq(Frame)]
  BY DEF Init
<1>6. /\ pstate \in [Slot -> ProcState] /\ ret \in [Slot -> Int]
      /\ left \in [Slot -> Int] /\ due \in [Slot -> SUBSET Int] /\ mode = "up"
  BY DEF Init, ProcState
<1>7. returned \in BOOLEAN
  BY DEF Init
<1> QED BY <1>1, <1>2, <1>3, <1>4, <1>5, <1>6, <1>7 DEF TypeOK

\* A request answered at once changes only ret and due.
LEMMA ReplyType ==
  ASSUME TypeOK, NEW v \in Int, Reply(v)
  PROVE  /\ cur' \in Slot /\ ret' \in [Slot -> Int] /\ readyQ' \in Seq(Slot)
         /\ due' \in [Slot -> SUBSET Int] /\ mode' \in {"up", "spin", "trap", "wild"}
         /\ returned' \in BOOLEAN
BY DEF TypeOK, Reply

\* Every step keeps the types.
LEMMA NextTypeOK == TypeOK /\ [Next]_vars => TypeOK'
<1> SUFFICES ASSUME TypeOK, [Next]_vars PROVE TypeOK'
  OBVIOUS
<1> USE DEF procVars, sleepVars, sigVars
<1>0. /\ cur \in Slot /\ pstate \in [Slot -> ProcState] /\ nextpid \in Nat
      /\ pid \in [Slot -> 0 .. nextpid - 1] /\ ret \in [Slot -> Int]
      /\ readyQ \in Seq(Slot) /\ sleepQ \in Seq(Slot) /\ left \in [Slot -> Int]
      /\ sigTable \in [Slot -> [SigNum -> SigEntry]] /\ frames \in [Slot -> Seq(Frame)]
      /\ due \in [Slot -> SUBSET Int] /\ mode \in {"up", "spin", "trap", "wild"}
      /\ returned \in BOOLEAN
  BY DEF TypeOK
<1>R. Ready(readyQ, cur) \in Seq(Slot)
  BY <1>0, ReadyType
<1>1. CASE Create
  <2>1. PICK i \in Slot :
          /\ pstate' = [pstate EXCEPT ![i] = "READY"]
          /\ pid' = [pid EXCEPT ![i] = nextpid]
          /\ frames' = [frames EXCEPT ![i] = <<>>]
          /\ readyQ' = Ready(readyQ, i)
          /\ due' = [due EXCEPT ![i] = {}, ![cur] = {nextpid}]
    BY <1>1 DEF Create
  <2>2. /\ nextpid' = nextpid + 1 /\ ret' = [ret EXCEPT ![cur] = nextpid]
        /\ UNCHANGED <<cur, sleepQ, left, sigTable, mode>> /\ returned' = FALSE
    BY <1>1 DEF Create, NextPid
  <2>3. pid' \in [Slot -> 0 .. nextpid' - 1] /\ nextpid' \in Nat
    BY <1>0, <2>1, <2>2
  <2>4. readyQ' \in Seq(Slot)
    BY <1>0, <2>1, ReadyType
  <2>5. frames' \in [Slot -> Seq(Frame)] /\ due' \in [Slot -> SUBSET Int]
    <3>1. {} \in SUBSET Int /\ {nextpid} \in SUBSET Int
      BY <1>0
    <3>2. due' \in [Slot -> SUBSET Int]
      BY <1>0, <2>1, <3>1
    <3>3. <<>> \in Seq(Frame)
      OBVIOUS
    <3> QED BY <1>0, <2>1, <3>2, <3>3
  <2>6. pstate' \in [Slot -> ProcState] /\ ret' \in [Slot -> Int]
    BY <1>0, <2>1, <2>2 DEF ProcState
  <2> QED BY <1>0, <2>2, <2>3, <2>4, <2>5, <2>6 DEF TypeOK
<1>2. CASE CreateFails \/ SigHandlerRefused \/ GetPid \/ Puts \/ Device
  <2>1. PICK v \in Int : Reply(v)
    <3>1. pid[cur] \in Int /\ -1 \in Int /\ 0 \in Int /\ -3 \in Int
      BY <1>0
    <3> QED BY <3>1, <1>2 DEF CreateFails, SigHandlerRefused, GetPid, Puts, Device
  <2>2. UNCHANGED <<pstate, pid, nextpid, sleepQ, left, sigTable, frames>>
    BY <1>2 DEF CreateFails, SigHandlerRefused, GetPid, Puts, Device
  <2> QED BY <1>0, <2>1, <2>2, ReplyType DEF TypeOK
<1>3. CASE Yield
  <2>1. RunNext(Ready(readyQ, cur)) /\ Promise([due EXCEPT ![cur] = {}])
        /\ UNCHANGED <<pstate, pid, nextpid, ret, sleepQ, left, sigTable, frames>>
    BY <1>3 DEF Yield
  <2>2. due' \in [Slot -> SUBSET Int]
    BY <1>0, <2>1
  <2> QED BY <1>0, <1>R, <2>1, <2>2, RunNextType DEF TypeOK
<1>4. CASE Stop \/ SigWait
  <2>1. /\ RunNext(readyQ) /\ Promise([due EXCEPT ![cur] = {}])
        /\ \/ pstate' = [pstate EXCEPT ![cur] = "STOPPED"]
           \/ pstate' = [pstate EXCEPT ![cur] = "SIGWAIT"]
        /\ UNCHANGED <<pid, nextpid, ret, sleepQ, left, sigTable, frames>>
    BY <1>4 DEF Stop, SigWait
  <2>2. due' \in [Slot -> SUBSET Int] /\ pstate' \in [Slot -> ProcState]
    BY <1>0, <2>1 DEF ProcState
  <2> QED BY <1>0, <2>1, <2>2, RunNextType DEF TypeOK
<1>5. CASE BadRequest \/ KeyboardRequest
  BY <1>0, <1>5 DEF BadRequest, KeyboardRequest, TypeOK
<1>6. ASSUME NEW len \in SleepLen, SleepNot(len) PROVE TypeOK'
  <2>1. RunNext(Ready(readyQ, cur)) /\ Promise([due EXCEPT ![cur] = {}])
        /\ UNCHANGED <<pstate, pid, nextpid, ret, sleepQ, left, sigTable, frames>>
    BY <1>6 DEF SleepNot
  <2>2. due' \in [Slot -> SUBSET Int]
    BY <1>0, <2>1
  <2> QED BY <1>0, <1>R, <2>1, <2>2, RunNextType DEF TypeOK
<1>7. ASSUME NEW len \in SleepLen, Sleep(len) PROVE TypeOK'
  <2>1. /\ RunNext(readyQ) /\ Promise([due EXCEPT ![cur] = {0}])
        /\ pstate' = [pstate EXCEPT ![cur] = "SLEEP"]
        /\ left' = [left EXCEPT ![cur] = TicksOf(len)]
        /\ UNCHANGED <<pid, nextpid, ret, sigTable, frames>>
    BY <1>7 DEF Sleep
  <2>2. PICK k \in 0 .. Len(sleepQ) : sleepQ' = InsertAt(sleepQ, k + 1, cur)
    BY <1>7 DEF Sleep
  <2>3. sleepQ' \in Seq(Slot)
    BY <1>0, <2>2, InsertType
  <2>4. due' \in [Slot -> SUBSET Int] /\ pstate' \in [Slot -> ProcState]
    BY <1>0, <2>1 DEF ProcState
  <2>5. left' \in [Slot -> Int]
    <3>1. TicksOf(len) \in Int
      BY SMT DEF TicksOf
    <3> QED BY <1>0, <2>1, <3>1
  <2> QED BY <1>0, <2>1, <2>3, <2>4, <2>5, RunNextType DEF TypeOK
<1>8. ASSUME NEW v \in Int, Tick(v) PROVE
        /\ cur' \in Slot /\ readyQ' \in Seq(Slot) /\ sleepQ' \in Seq(Slot)
        /\ pstate' \in [Slot -> ProcState] /\ ret' \in [Slot -> Int]
        /\ left' \in [Slot -> Int] /\ mode' \in {"up", "spin", "trap", "wild"}
        /\ UNCHANGED <<pid, nextpid, sigTable, frames>>
  <2>1. PICK k \in 0 .. Len(sleepQ) :
          /\ sleepQ' = SubSeq(sleepQ, k + 1, Len(sleepQ))
          /\ pstate' = [s \in Slot |-> IF s \in Range(SubSeq(sleepQ, 1, k))
                                       THEN "READY" ELSE pstate[s]]
          /\ ret' = RetAfterTick(SubSeq(sleepQ, 1, k), v)
          /\ RunNext(Ready(readyQ \o SubSeq(sleepQ, 1, k), cur))
    BY <1>8 DEF Tick
  <2>2. /\ SubSeq(sleepQ, 1, k) \in Seq(Slot)
        /\ SubSeq(sleepQ, k + 1, Len(sleepQ)) \in Seq(Slot)
    BY <1>0, SplitType
  <2>3. Ready(readyQ \o SubSeq(sleepQ, 1, k), cur) \in Seq(Slot)
    <3>1. readyQ \o SubSeq(sleepQ, 1, k) \in Seq(Slot)
      BY <1>0, <2>2, ConcatProperties
    <3> QED BY <1>0, <3>1, ReadyType
  <2>4. cur' \in Slot /\ readyQ' \in Seq(Slot)
        /\ mode' \in {"up", "spin", "trap", "wild"}
    BY <2>1, <2>3, RunNextType
  <2>5. pstate' \in [Slot -> ProcState]
    BY <1>0, <2>1 DEF ProcState
  <2>6. ret' \in [Slot -> Int]
    BY <1>0, <1>8, <2>1 DEF RetAfterTick
  <2>7. left' \in [Slot -> Int]
    BY <1>0, <1>8 DEF Tick, Less
  <2> QED BY <1>8, <2>1, <2>2, <2>4, <2>5, <2>6, <2>7 DEF Tick
<1>9. CASE TimerRequest
  <2>1. Tick(ret[cur]) /\ ret[cur] \in Int
    BY <1>0, <1>9 DEF TimerRequest
  <2>2. due' \in [Slot -> SUBSET Int] /\ returned' \in BOOLEAN
    BY <1>0, <1>9 DEF TimerRequest
  <2> QED BY <1>0, <1>8, <2>1, <2>2 DEF TypeOK
<1>10. ASSUME NEW eax \in Eax, Timer(eax) PROVE TypeOK'
  <2>1. Tick(eax) /\ eax \in Int
    BY <1>10 DEF Timer
  <2>2. due' \in [Slot -> SUBSET Int] /\ returned' \in BOOLEAN
    BY <1>0, <1>10 DEF Timer
  <2> QED BY <1>0, <1>8, <2>1, <2>2 DEF TypeOK
<1>11. ASSUME NEW eax \in Eax, Keyboard(eax) PROVE TypeOK'
  <2>1. Reply(eax) /\ eax \in Int
    BY <1>11 DEF Keyboard
  <2> QED BY <1>0, <1>11, <2>1, ReplyType DEF Keyboard, TypeOK
<1>12. ASSUME NEW n \in SigNum, NEW h \in SigEntry, SigHandler(n, h) PROVE TypeOK'
  <2>1. /\ Reply(0) /\ 0 \in Int /\ sigTable' = [sigTable EXCEPT ![cur][n] = h]
        /\ UNCHANGED <<pstate, pid, nextpid, sleepQ, left, frames>>
    BY <1>12 DEF SigHandler
  <2>2. sigTable' \in [Slot -> [SigNum -> SigEntry]]
    BY <1>0, <2>1
  <2> QED BY <1>0, <2>1, <2>2, ReplyType DEF TypeOK
<1>13. ASSUME NEW t, NEW n, KillRefused(t, n) PROVE TypeOK'
  <2>1. PICK v \in Int : Reply(v)
    BY <1>13 DEF KillRefused
  <2>2. UNCHANGED <<pstate, pid, nextpid, sleepQ, left, sigTable, frames>>
    BY <1>13 DEF KillRefused
  <2> QED BY <1>0, <2>1, <2>2, ReplyType DEF TypeOK
<1>14. ASSUME NEW t, NEW n, Kill(t, n) PROVE TypeOK'
  <2>1. PICK r \in Slot :
          /\ frames' = [frames EXCEPT ![r] = Push(@,
                 [handler |-> sigTable[r][n],
                  due |-> IF r = cur THEN {0} ELSE due[r]])]
          /\ due' = [due EXCEPT ![cur] = {0}, ![r] = {}]
          /\ IF SignalWakes(r)
             THEN /\ pstate' = [pstate EXCEPT ![r] = "READY"]
                  /\ readyQ' = Ready(readyQ, r)
             ELSE UNCHANGED <<pstate, readyQ>>
    BY <1>14 DEF Kill
  <2>2. /\ n \in SigNum /\ ret' = [ret EXCEPT ![cur] = 0]
        /\ UNCHANGED <<cur, pid, nextpid, sleepQ, left, sigTable, mode>>
        /\ returned' = FALSE
    BY <1>14 DEF Kill
  <2>3. frames' \in [Slot -> Seq(Frame)]
    <3> DEFINE f == [handler |-> sigTable[r][n],
                     due |-> IF r = cur THEN {0} ELSE due[r]]
    <3>1. f \in Frame
      BY <1>0, <2>2 DEF Frame
    <3>2. Append(frames[r], f) \in Seq(Frame)
      BY <1>0, <3>1, AppendProperties
    <3>3. frames' = [frames EXCEPT ![r] = Append(frames[r], f)]
      BY <1>0, <2>1 DEF Push
    <3> HIDE DEF f
    <3> QED BY <1>0, <3>2, <3>3
  <2>4. due' \in [Slot -> SUBSET Int] /\ ret' \in [Slot -> Int]
    <3>1. {} \in SUBSET Int /\ {0} \in SUBSET Int
      OBVIOUS
    <3>2. due' \in [Slot -> SUBSET Int]
      BY <1>0, <2>1, <3>1
    <3>3. ret' \in [Slot -> Int]
      BY <1>0, <2>2
    <3> QED BY <3>2, <3>3
  <2>5. pstate' \in [Slot -> ProcState] /\ readyQ' \in Seq(Slot)
    <3>1. CASE SignalWakes(r)
      <4>1. readyQ' \in Seq(Slot)
        BY <1>0, <2>1, <3>1, ReadyType
      <4> QED BY <1>0, <2>1, <3>1, <4>1 DEF ProcState
    <3>2. CASE ~SignalWakes(r)
      BY <1>0, <2>1, <3>2
    <3> QED BY <3>1, <3>2
  <2> QED BY <1>0, <2>2, <2>3, <2>4, <2>5 DEF TypeOK
<1>15. ASSUME NEW n, KillUnused(n) PROVE TypeOK'
  BY <1>0, <1>15 DEF KillUnused, Trap, TypeOK
<1>16. ASSUME NEW sp \in 0 .. MaxFrames - 1, SigReturn(sp) PROVE TypeOK'
  <2>1. /\ frames' = [frames EXCEPT ![cur] = SubSeq(frames[cur], 1, sp)]
        /\ due' = [due EXCEPT ![cur] = frames[cur][sp + 1].due]
        /\ ret' = [ret EXCEPT ![cur] = 0] /\ returned' = TRUE
    BY <1>0, <1>16 DEF SigReturn
  <2>2. SubSeq(frames[cur], 1, sp) \in Seq(Frame) /\ frames[cur][sp + 1] \in Frame
    <3>1. frames[cur] \in Seq(Frame) /\ sp \in Nat /\ sp < Len(frames[cur])
      BY <1>0, <1>16 DEF SigReturn
    <3> QED BY <3>1, PrefixType
  <2>3. frames[cur][sp + 1].due \in SUBSET Int
    BY <2>2 DEF Frame
  <2>4. frames' \in [Slot -> Seq(Frame)]
    BY <1>0, <2>1, <2>2
  <2>5. ret' \in [Slot -> Int] /\ due' \in [Slot -> SUBSET Int]
    BY <1>0, <2>1, <2>3
  <2> QED BY <1>0, <1>16, <2>1, <2>4, <2>5 DEF SigReturn, TypeOK
<1>19. CASE SigReturnElsewhere
  <2>1. /\ ret' = [ret EXCEPT ![cur] = 0] /\ due' = [due EXCEPT ![cur] = {}]
        /\ returned' = FALSE /\ mode' \in {"up", "wild", "trap"}
        /\ UNCHANGED <<cur, procVars, readyQ, sleepVars, sigVars>>
    BY <1>19 DEF SigReturnElsewhere
  <2>2. ret' \in [Slot -> Int] /\ due' \in [Slot -> SUBSET Int]
    BY <1>0, <2>1
  <2> QED BY <1>0, <2>1, <2>2 DEF TypeOK
<1>17. CASE CallNull
  BY <1>0, <1>17 DEF CallNull, TypeOK
<1>18. CASE Lost \/ UNCHANGED vars
  BY <1>0, <1>18 DEF Lost, vars, TypeOK
<1> QED
  BY <1>1, <1>2, <1>3, <1>4, <1>5, <1>6, <1>7, <1>9, <1>10, <1>11, <1>12, <1>13,
     <1>14, <1>15, <1>16, <1>17, <1>18, <1>19
  DEF Next, Request, Interrupt

(***************************************************************************)
(* The variables keep their types in every behaviour.                      *)
(***************************************************************************)
THEOREM TypeCorrect == Spec => []TypeOK
  BY InitTypeOK, NextTypeOK, PTL DEF Spec

-----------------------------------------------------------------------------
(***************************************************************************)
(* The invariant that carries the proof that every process stands in one   *)
(* place: the ready queue lists the ready processes but the running one,   *)
(* the sleep queue the sleeping ones.                                      *)
(***************************************************************************)
In(state) == {s \in Slot : pstate[s] = state}

Queues ==
  /\ cur \in In("READY") /\ Idle \in In("READY")
  /\ Lists(readyQ, In("READY") \ {cur})
  /\ Lists(sleepQ, In("SLEEP"))
  /\ mode # "spin"

\* It says what the invariants of Dispatcher say.
LEMMA QueuesImply == TypeOK /\ Queues => OnePlace /\ NeverSpins
<1> SUFFICES ASSUME TypeOK, Queues PROVE OnePlace /\ NeverSpins
  OBVIOUS
<1>1. /\ IsInjective(readyQ) /\ Range(readyQ) = In("READY") \ {cur}
      /\ IsInjective(sleepQ) /\ Range(sleepQ) = In("SLEEP")
  BY DEF Queues, Lists
<1>2. cur \in In("READY") /\ Idle \in In("READY") /\ mode # "spin"
  BY DEF Queues
<1>3. ReadyPlace
  BY <1>1, <1>2 DEF ReadyPlace, Runnable, In
<1>4. SleepPlace
  BY <1>1 DEF SleepPlace, In
<1> QED BY <1>2, <1>3, <1>4 DEF OnePlace, NeverSpins, In

\* The invariant holds at the start.
LEMMA InitQueues == Init => Queues
<1> SUFFICES ASSUME Init PROVE Queues
  OBVIOUS
<1>1. In("READY") = {0, 1} /\ In("SLEEP") = {}
  BY DEF Init, In, Slot
<1>2. cur = 0 /\ Idle = 0 /\ readyQ = <<1>> /\ sleepQ = <<>> /\ mode = "up"
  BY DEF Init, Idle
<1>3. Lists(<<>>, {})
  BY DEF Lists, IsInjective, Range
<1>4. Lists(readyQ, {1})
  <2>1. Lists(Append(<<>>, 1), {} \cup {1})
    BY <1>3, ListsAppend
  <2>2. Append(<<>>, 1) = <<1>> /\ {} \cup {1} = {1}
    OBVIOUS
  <2> QED BY <1>2, <2>1, <2>2
<1>5. {0, 1} \ {0} = {1}
  OBVIOUS
<1> QED BY <1>1, <1>2, <1>3, <1>4, <1>5 DEF Queues

(***************************************************************************)
(* next() on a queue that lists T, with idle in it or about to be: it does *)
(* not spin, and leaves T without the process it took.                     *)
(***************************************************************************)
LEMMA RunNextLists ==
  ASSUME NEW T, NEW q, Lists(q, T), Idle \in T, mode # "spin", RunNext(q)
  PROVE  cur' \in T /\ Lists(readyQ', T \ {cur'}) /\ mode' # "spin"
<1>1. q # <<>>
  <2> SUFFICES ASSUME q = <<>> PROVE FALSE
    OBVIOUS
  <2>1. PICK i \in 1 .. Len(q) : q[i] = Idle
    BY ListsFacts
  <2>2. Len(q) = 0
    OBVIOUS
  <2> QED BY <2>1, <2>2
<1>2. cur' = Head(q) /\ readyQ' = Tail(q) /\ mode' = mode
  BY <1>1 DEF RunNext
<1> QED BY <1>1, <1>2, ListsTail

\* The steps after which the caller runs on and no state changes.
LEMMA QueuesKept ==
  ASSUME Queues, UNCHANGED <<cur, pstate, readyQ, sleepQ>>, mode' # "spin"
  PROVE  Queues'
BY DEF Queues, In

\* A ready process that runs goes to the back of the queue: any may be next.
LEMMA QueuesYield ==
  ASSUME TypeOK, Queues, RunNext(Ready(readyQ, cur)), UNCHANGED <<pstate, sleepQ>>
  PROVE  Queues'
<1>1. Lists(Ready(readyQ, cur), (In("READY") \ {cur}) \cup {cur})
  BY ListsAppend DEF Queues, Ready
<1>2. (In("READY") \ {cur}) \cup {cur} = In("READY")
  BY DEF Queues
<1>3. Lists(Ready(readyQ, cur), In("READY"))
  BY <1>1, <1>2
<1>4. cur' \in In("READY") /\ Lists(readyQ', In("READY") \ {cur'}) /\ mode' # "spin"
  BY <1>3, RunNextLists DEF Queues
<1>5. In("READY")' = In("READY") /\ In("SLEEP")' = In("SLEEP")
  BY DEF In
<1> QED BY <1>4, <1>5 DEF Queues

\* A process that blocks leaves the ready processes; idle stays.
LEMMA QueuesBlock ==
  ASSUME TypeOK, Queues, RunNext(readyQ), cur # Idle, NEW st, st # "READY",
         pstate' = [pstate EXCEPT ![cur] = st]
  PROVE  /\ cur' \in In("READY")' /\ Idle \in In("READY")'
         /\ Lists(readyQ', In("READY")' \ {cur'}) /\ mode' # "spin"
<1>1. In("READY")' = In("READY") \ {cur}
  BY DEF In, TypeOK
<1>2. Idle \in In("READY") \ {cur} /\ Lists(readyQ, In("READY") \ {cur}) /\ mode # "spin"
  BY DEF Queues
<1>3. /\ cur' \in In("READY") \ {cur}
      /\ Lists(readyQ', (In("READY") \ {cur}) \ {cur'}) /\ mode' # "spin"
  BY <1>2, RunNextLists
<1> QED BY <1>1, <1>2, <1>3

\* A process that becomes ready while another runs joins the ready queue.
LEMMA QueuesWake ==
  ASSUME TypeOK, Queues, NEW s \in Slot, pstate[s] \notin {"READY", "SLEEP"},
         pstate' = [pstate EXCEPT ![s] = "READY"],
         readyQ' = Ready(readyQ, s), UNCHANGED <<cur, sleepQ, mode>>
  PROVE  Queues'
<1>1. In("READY")' = In("READY") \cup {s} /\ In("SLEEP")' = In("SLEEP")
  BY DEF In, TypeOK
<1>2. s \notin In("READY") /\ cur \in In("READY")
  BY DEF In, Queues
<1>3. Lists(readyQ', (In("READY") \ {cur}) \cup {s})
  BY <1>2, ListsAppend DEF Queues, Ready
<1>4. (In("READY") \ {cur}) \cup {s} = (In("READY") \cup {s}) \ {cur}
  BY <1>2
<1> QED BY <1>1, <1>2, <1>3, <1>4 DEF Queues

(***************************************************************************)
(* A tick takes the woken sleepers from the sleep queue to the ready queue,*)
(* and the running process behind them.                                    *)
(***************************************************************************)
LEMMA QueuesTick ==
  ASSUME TypeOK, Queues, NEW v, Tick(v)
  PROVE  Queues'
<1>1. PICK k \in 0 .. Len(sleepQ) :
        /\ sleepQ' = SubSeq(sleepQ, k + 1, Len(sleepQ))
        /\ pstate' = [s \in Slot |-> IF s \in Range(SubSeq(sleepQ, 1, k))
                                     THEN "READY" ELSE pstate[s]]
        /\ RunNext(Ready(readyQ \o SubSeq(sleepQ, 1, k), cur))
  BY DEF Tick
<1> DEFINE a == SubSeq(sleepQ, 1, k)
           b == SubSeq(sleepQ, k + 1, Len(sleepQ))
           R == In("READY")
           W == Range(a)
<1>2. /\ Lists(a, W) /\ Lists(b, Range(b)) /\ W \cap Range(b) = {}
      /\ W \cup Range(b) = In("SLEEP")
  BY ListsSplit DEF Queues
<1>3. /\ sleepQ' = b /\ RunNext(Ready(readyQ \o a, cur))
      /\ pstate' = [s \in Slot |-> IF s \in W THEN "READY" ELSE pstate[s]]
  BY <1>1
<1> HIDE DEF a, b, W
<1>4. /\ W \subseteq Slot /\ R \cap W = {}
      /\ In("READY")' = R \cup W /\ In("SLEEP")' = In("SLEEP") \ W
  BY <1>2, <1>3 DEF In
<1>5. In("SLEEP")' = Range(b)
  BY <1>2, <1>4
<1>6. /\ Lists(readyQ, R \ {cur}) /\ cur \in R /\ Idle \in R /\ mode # "spin"
  BY DEF Queues
<1>7. Lists(readyQ \o a, (R \ {cur}) \cup W)
  <2>1. (R \ {cur}) \cap W = {}
    BY <1>4
  <2> HIDE DEF R
  <2> QED BY <1>2, <1>6, <2>1, ListsConcat
<1>8. Lists(Ready(readyQ \o a, cur), R \cup W)
  <2>1. cur \notin (R \ {cur}) \cup W /\ ((R \ {cur}) \cup W) \cup {cur} = R \cup W
    BY <1>4, <1>6
  <2> HIDE DEF R
  <2>2. Lists(Append(readyQ \o a, cur), ((R \ {cur}) \cup W) \cup {cur})
    BY <1>7, <2>1, ListsAppend
  <2> QED BY <2>1, <2>2 DEF Ready
<1>9. cur' \in R \cup W /\ Lists(readyQ', (R \cup W) \ {cur'}) /\ mode' # "spin"
  <2> HIDE DEF R
  <2>1. Idle \in R \cup W
    BY <1>6
  <2> QED BY <1>3, <1>6, <1>8, <2>1, RunNextLists
<1> QED BY <1>2, <1>3, <1>4, <1>5, <1>6, <1>9 DEF Queues

\* Every step keeps it.
LEMMA NextQueues == TypeOK /\ Queues /\ [Next]_vars => Queues'
<1> SUFFICES ASSUME TypeOK, Queues, [Next]_vars PROVE Queues'
  OBVIOUS
<1> USE DEF procVars, sleepVars, sigVars
<1>1. CASE Create
  <2>1. PICK i \in Slot :
          /\ FirstStopped(i)
          /\ pstate' = [pstate EXCEPT ![i] = "READY"]
          /\ readyQ' = Ready(readyQ, i)
    BY <1>1 DEF Create
  <2>2. UNCHANGED <<cur, sleepQ, mode>>
    BY <1>1 DEF Create
  <2>3. pstate[i] \notin {"READY", "SLEEP"}
    BY <2>1 DEF FirstStopped
  <2> QED BY <2>1, <2>2, <2>3, QueuesWake
<1>2. CASE \/ CreateFails \/ SigHandlerRefused \/ GetPid \/ Puts \/ Device
           \/ BadRequest \/ KeyboardRequest
  <2>1. UNCHANGED <<cur, pstate, readyQ, sleepQ, mode>>
    BY <1>2 DEF CreateFails, SigHandlerRefused, GetPid, Puts, Device, BadRequest,
                KeyboardRequest, Reply
  <2> QED BY <2>1, QueuesKept DEF Queues
<1>3. CASE Yield
  BY <1>3, QueuesYield DEF Yield
<1>4. CASE Stop \/ SigWait
  <2>1. PICK st \in {"STOPPED", "SIGWAIT"} : pstate' = [pstate EXCEPT ![cur] = st]
    BY <1>4 DEF Stop, SigWait
  <2>2. RunNext(readyQ) /\ cur # Idle /\ UNCHANGED sleepQ
    BY <1>4 DEF Stop, SigWait, User
  <2>3. /\ cur' \in In("READY")' /\ Idle \in In("READY")'
        /\ Lists(readyQ', In("READY")' \ {cur'}) /\ mode' # "spin"
    BY <2>1, <2>2, QueuesBlock
  <2>4. In("SLEEP")' = In("SLEEP")
    BY <2>1 DEF In, Queues, TypeOK
  <2> QED BY <2>2, <2>3, <2>4 DEF Queues
<1>5. ASSUME NEW len \in SleepLen, SleepNot(len) PROVE Queues'
  BY <1>5, QueuesYield DEF SleepNot
<1>6. ASSUME NEW len \in SleepLen, Sleep(len) PROVE Queues'
  <2>1. /\ RunNext(readyQ) /\ cur # Idle
        /\ pstate' = [pstate EXCEPT ![cur] = "SLEEP"]
    BY <1>6 DEF Sleep, User
  <2>2. PICK k \in 0 .. Len(sleepQ) : sleepQ' = InsertAt(sleepQ, k + 1, cur)
    BY <1>6 DEF Sleep
  <2>3. /\ cur' \in In("READY")' /\ Idle \in In("READY")'
        /\ Lists(readyQ', In("READY")' \ {cur'}) /\ mode' # "spin"
    BY <2>1, QueuesBlock
  <2>4. In("SLEEP")' = In("SLEEP") \cup {cur} /\ cur \notin In("SLEEP")
    BY <2>1 DEF In, Queues, TypeOK
  <2>5. Lists(sleepQ', In("SLEEP") \cup {cur})
    BY <2>2, <2>4, ListsInsert DEF Queues
  <2> QED BY <2>3, <2>4, <2>5 DEF Queues
<1>7. CASE TimerRequest \/ \E eax \in Eax : Timer(eax)
  BY <1>7, QueuesTick DEF TimerRequest, Timer
<1>8. ASSUME NEW eax \in Eax, Keyboard(eax) PROVE Queues'
  <2>1. UNCHANGED <<cur, pstate, readyQ, sleepQ, mode>>
    BY <1>8 DEF Keyboard, Reply
  <2> QED BY <2>1, QueuesKept DEF Queues
<1>9. ASSUME NEW n \in SigNum, NEW h \in SigEntry, SigHandler(n, h) PROVE Queues'
  <2>1. UNCHANGED <<cur, pstate, readyQ, sleepQ, mode>>
    BY <1>9 DEF SigHandler, Reply
  <2> QED BY <2>1, QueuesKept DEF Queues
<1>10. ASSUME NEW t, NEW n, KillRefused(t, n) PROVE Queues'
  <2>1. UNCHANGED <<cur, pstate, readyQ, sleepQ, mode>>
    BY <1>10 DEF KillRefused, Reply
  <2> QED BY <2>1, QueuesKept DEF Queues
<1>11. ASSUME NEW t, NEW n, Kill(t, n) PROVE Queues'
  <2>1. PICK r \in Slot :
          IF SignalWakes(r)
          THEN /\ pstate' = [pstate EXCEPT ![r] = "READY"]
               /\ readyQ' = Ready(readyQ, r)
          ELSE UNCHANGED <<pstate, readyQ>>
    BY <1>11 DEF Kill
  <2>2. UNCHANGED <<cur, sleepQ, mode>>
    BY <1>11 DEF Kill
  <2>3. CASE SignalWakes(r)
    <3>1. pstate[r] \notin {"READY", "SLEEP"}
      BY <2>3 DEF SignalWakes
    <3> QED BY <2>1, <2>2, <2>3, <3>1, QueuesWake
  <2>4. CASE ~SignalWakes(r)
    BY <2>1, <2>2, <2>4, QueuesKept DEF Queues
  <2> QED BY <2>3, <2>4
<1>12. ASSUME NEW n, KillUnused(n) PROVE Queues'
  BY <1>12, QueuesKept DEF KillUnused, Trap
<1>13. CASE SigReturnElsewhere \/ \E sp \in 0 .. MaxFrames - 1 : SigReturn(sp)
  BY <1>13, QueuesKept DEF SigReturn, SigReturnElsewhere, Queues
<1>14. CASE CallNull
  BY <1>14, QueuesKept DEF CallNull
<1>15. CASE Lost \/ UNCHANGED vars
  BY <1>15, QueuesKept DEF Lost, vars, Queues
<1> QED
  BY <1>1, <1>2, <1>3, <1>4, <1>5, <1>6, <1>7, <1>8, <1>9, <1>10, <1>11, <1>12,
     <1>13, <1>14, <1>15
  DEF Next, Request, Interrupt

(***************************************************************************)
(* Every process stands in exactly one of the places for its state: the    *)
(* lists of disp.c and sleep.c never share or lose a pcb.                  *)
(***************************************************************************)
THEOREM OnePlaceHolds == Spec => []OnePlace
<1>1. Init => TypeOK /\ Queues
  BY InitTypeOK, InitQueues
<1>2. TypeOK /\ Queues /\ [Next]_vars => (TypeOK /\ Queues)'
  BY NextTypeOK, NextQueues
<1>3. TypeOK /\ Queues => OnePlace
  BY QueuesImply
<1> QED BY <1>1, <1>2, <1>3, PTL DEF Spec

(***************************************************************************)
(* next() is never called on an empty queue, and idle is always ready.     *)
(***************************************************************************)
THEOREM NeverSpinsHolds == Spec => []NeverSpins
<1>1. Init => TypeOK /\ Queues
  BY InitTypeOK, InitQueues
<1>2. TypeOK /\ Queues /\ [Next]_vars => (TypeOK /\ Queues)'
  BY NextTypeOK, NextQueues
<1>3. TypeOK /\ Queues => NeverSpins
  BY QueuesImply
<1> QED BY <1>1, <1>2, <1>3, PTL DEF Spec

-----------------------------------------------------------------------------
\* Only create() writes a pid, and nextpid is above all of them.
LEMMA NextPidsUnique == TypeOK /\ PidsUnique /\ [Next]_vars => PidsUnique'
<1> SUFFICES ASSUME TypeOK, PidsUnique, [Next]_vars PROVE PidsUnique'
  OBVIOUS
<1> USE DEF procVars, sleepVars, sigVars
<1>1. CASE Create
  <2>1. PICK i \in Slot : pid' = [pid EXCEPT ![i] = nextpid]
    BY <1>1 DEF Create
  <2>2. nextpid \in Nat /\ pid \in [Slot -> 0 .. nextpid - 1]
    BY DEF TypeOK
  <2>3. \A s \in Slot : pid[s] # nextpid
    BY <2>2
  <2> QED BY <2>1, <2>2, <2>3 DEF PidsUnique
<1>2. CASE UNCHANGED pid
  BY <1>2 DEF PidsUnique
<1>3. ~Create => UNCHANGED pid
  BY DEF Next, Request, Interrupt, CreateFails, Yield, Stop, GetPid, Puts, Device,
         BadRequest, KeyboardRequest, SleepNot, Sleep, SigHandler, SigHandlerRefused,
         SigWait, SigReturn, SigReturnElsewhere, TimerRequest, KillRefused, Kill, KillUnused, Timer, Keyboard,
         Tick, CallNull, Lost, vars
<1> QED BY <1>1, <1>2, <1>3

(***************************************************************************)
(* No two slots hold the same pid, so findPCB() finds the one it means.    *)
(***************************************************************************)
THEOREM PidsUniqueHolds == Spec => []PidsUnique
<1>1. Init => TypeOK /\ PidsUnique
  BY InitTypeOK DEF Init, PidsUnique, Slot
<1>2. TypeOK /\ PidsUnique /\ [Next]_vars => (TypeOK /\ PidsUnique)'
  BY NextTypeOK, NextPidsUnique
<1> QED BY <1>1, <1>2, PTL DEF Spec

-----------------------------------------------------------------------------
(* The steps of Dispatcher.                                                 *)
USE DEF procVars, sleepVars, sigVars

\* The invariants proved so far, for the theorems of this module.
LEMMA QueuesHold == Spec => [](TypeOK /\ Queues)
<1>1. Init => TypeOK /\ Queues
  BY InitTypeOK, InitQueues
<1>2. TypeOK /\ Queues /\ [Next]_vars => (TypeOK /\ Queues)'
  BY NextTypeOK, NextQueues
<1> QED BY <1>1, <1>2, PTL DEF Spec

-----------------------------------------------------------------------------
(***************************************************************************)
(* Only syssleep() and a tick touch the sleep queue and the ticks left.    *)
(***************************************************************************)
LEMMA SleepersKept ==
  ASSUME [Next]_vars,
         ~ \E len \in SleepLen : Sleep(len), ~ \E v : Tick(v)
  PROVE  UNCHANGED <<sleepQ, left>>
BY DEF Next, Request, Interrupt, Create, CreateFails, Yield, Stop, GetPid, Puts, Device,
       BadRequest, KeyboardRequest, SleepNot, SigHandler, SigHandlerRefused, SigWait,
       SigReturn, SigReturnElsewhere, TimerRequest, KillRefused, Kill, KillUnused, Timer, Keyboard,
       CallNull, Lost, vars

\* The loop of sleep() finds the place that keeps the queue in order.
LEMMA SleepKeepsOrder ==
  ASSUME TypeOK, Queues, SleepSorted, NEW len \in SleepLen, Sleep(len)
  PROVE  SleepSorted'
<1> DEFINE t == TicksOf(len)
           n == Len(sleepQ)
           q == sleepQ'
<1>1. PICK k \in 0 .. n :
        /\ \A i \in 1 .. k : left[sleepQ[i]] <= t
        /\ k < n => left[sleepQ[k + 1]] > t
        /\ q = InsertAt(sleepQ, k + 1, cur)
  BY DEF Sleep, SleepBehind
<1>2. /\ sleepQ \in Seq(Slot) /\ n \in Nat /\ cur \in Slot
      /\ left \in [Slot -> Int] /\ left' = [left EXCEPT ![cur] = t]
  BY DEF TypeOK, Sleep
<1>3. t \in Int
  BY DEF TicksOf
<1>4. /\ q \in Seq(Slot) /\ Len(q) = n + 1
      /\ \A i \in 1 .. k : q[i] = sleepQ[i]
      /\ q[k + 1] = cur
      /\ \A i \in k + 2 .. n + 1 : q[i] = sleepQ[i - 1]
  <2>1. sleepQ \in Seq(Slot) /\ k \in 0 .. Len(sleepQ) /\ cur \in Slot
    BY <1>2
  <2>2. q \in Seq(Slot) /\ Inserted(q, sleepQ, k, cur)
    BY <1>1, <2>1, InsertElements
  <2> QED BY <2>2 DEF Inserted
<1>5. \A i \in 1 .. n : sleepQ[i] \in Slot /\ sleepQ[i] # cur
  BY ListsFacts DEF Queues, In
<1>6. \A i, j \in 1 .. n : i < j => left[sleepQ[i]] <= left[sleepQ[j]]
  BY <1>2 DEF SleepSorted
<1>7. \A i \in 1 .. n : left'[sleepQ[i]] = left[sleepQ[i]] /\ left[sleepQ[i]] \in Int
  BY <1>2, <1>5
<1>8. left'[cur] = t
  BY <1>2
<1> HIDE DEF t, n, q
<1>9. \A j \in 1 .. n : j > k => left[sleepQ[j]] > t
  <2> SUFFICES ASSUME NEW j \in 1 .. n, j > k PROVE left[sleepQ[j]] > t
    OBVIOUS
  <2>1. k \in Nat /\ k + 1 \in 1 .. n /\ k < n
    BY <1>2
  <2>2. j = k + 1 \/ k + 1 < j
    BY <2>1
  <2> QED BY <1>1, <1>3, <1>6, <1>7, <2>1, <2>2
<1>10. \A i, j \in 1 .. n + 1 : i < j => left'[q[i]] <= left'[q[j]]
  <2> SUFFICES ASSUME NEW i \in 1 .. n + 1, NEW j \in 1 .. n + 1, i < j
               PROVE  left'[q[i]] <= left'[q[j]]
    OBVIOUS
  <2>0. k \in Nat /\ k <= n /\ i \in Int /\ j \in Int
    BY <1>2
  <2>1. CASE j <= k
    <3>1. i \in 1 .. k /\ j \in 1 .. k /\ i \in 1 .. n /\ j \in 1 .. n
      BY <2>0, <2>1, <1>2
    <3> QED BY <3>1, <1>4, <1>6, <1>7
  <2>2. CASE j = k + 1
    <3>1. i \in 1 .. k /\ i \in 1 .. n
      BY <2>0, <2>2, <1>2
    <3> QED BY <2>2, <3>1, <1>1, <1>4, <1>7, <1>8
  <2>3. CASE j > k + 1
    <3>1. j \in k + 2 .. n + 1 /\ j - 1 \in 1 .. n /\ j - 1 > k
      BY <2>0, <2>3, <1>2
    <3>2. q[j] = sleepQ[j - 1]
      BY <3>1, <1>4
    <3>3. CASE i <= k
      <4>1. i \in 1 .. k /\ i \in 1 .. n /\ i < j - 1
        BY <2>0, <3>1, <3>3, <1>2
      <4> QED BY <3>1, <3>2, <4>1, <1>4, <1>6, <1>7
    <3>4. CASE i = k + 1
      BY <3>1, <3>2, <3>4, <1>3, <1>4, <1>7, <1>8, <1>9
    <3>5. CASE i > k + 1
      <4>1. i \in k + 2 .. n + 1 /\ i - 1 \in 1 .. n /\ i - 1 < j - 1
        BY <2>0, <3>5, <1>2
      <4>2. q[i] = sleepQ[i - 1]
        BY <4>1, <1>4
      <4> QED BY <3>1, <3>2, <4>1, <4>2, <1>6, <1>7
    <3> QED BY <2>0, <3>3, <3>4, <3>5
  <2> QED BY <2>0, <2>1, <2>2, <2>3
<1> QED BY <1>4, <1>10 DEF SleepSorted, q

\* A tick takes one from every sleeper: what was in order stays so.
LEMMA TickKeepsOrder ==
  ASSUME TypeOK, Queues, SleepSorted, NEW v, Tick(v)
  PROVE  SleepSorted'
<1> DEFINE n == Len(sleepQ)
           q == sleepQ'
<1>1. PICK k \in 0 .. n : q = SubSeq(sleepQ, k + 1, n)
  BY DEF Tick
<1>2. sleepQ \in Seq(Slot) /\ n \in Nat /\ left \in [Slot -> Int]
  BY DEF TypeOK
<1>3. q \in Seq(Slot) /\ Len(q) = n - k /\ \A i \in 1 .. n - k : q[i] = sleepQ[k + i]
  BY <1>1, <1>2, SplitElements
<1>4. \A i \in 1 .. n : sleepQ[i] \in Slot /\ pstate[sleepQ[i]] = "SLEEP"
  BY ListsFacts DEF Queues, In
<1>5. \A i, j \in 1 .. n : i < j => left[sleepQ[i]] <= left[sleepQ[j]]
  BY <1>2 DEF SleepSorted
<1>6. left' = [s \in Slot |-> IF pstate[s] = "SLEEP" THEN Less(left[s]) ELSE left[s]]
  BY DEF Tick
<1>7. \A i \in 1 .. n :
        left'[sleepQ[i]] = Less(left[sleepQ[i]]) /\ left[sleepQ[i]] \in Int
  BY <1>2, <1>4, <1>6
<1>8. \A x, y \in Int : x <= y => Less(x) <= Less(y)
  BY DEF Less
<1> HIDE DEF n, q
<1>9. ASSUME NEW i \in 1 .. n - k, NEW j \in 1 .. n - k, i < j
      PROVE  left'[q[i]] <= left'[q[j]]
  <2>1. k + i \in 1 .. n /\ k + j \in 1 .. n /\ k + i < k + j
    BY <1>2, <1>9
  <2>2. left[sleepQ[k + i]] <= left[sleepQ[k + j]]
    BY <2>1, <1>5
  <2> QED BY <2>1, <2>2, <1>3, <1>7, <1>8
<1> QED BY <1>3, <1>9 DEF SleepSorted, q

(***************************************************************************)
(* Both loops of sleep.c find the sleep queue in the order they rely on.   *)
(***************************************************************************)
THEOREM SleepSortedHolds == Spec => []SleepSorted
<1>1. Init => SleepSorted
  BY DEF Init, SleepSorted
<1>2. TypeOK /\ Queues /\ SleepSorted /\ [Next]_vars => SleepSorted'
  <2> SUFFICES ASSUME TypeOK, Queues, SleepSorted, [Next]_vars PROVE SleepSorted'
    OBVIOUS
  <2>1. CASE \E len \in SleepLen : Sleep(len)
    BY <2>1, SleepKeepsOrder
  <2>2. CASE \E v : Tick(v)
    BY <2>2, TickKeepsOrder
  <2>3. CASE ~(\E len \in SleepLen : Sleep(len)) /\ ~(\E v : Tick(v))
    <3>1. UNCHANGED <<sleepQ, left>>
      BY <2>3, SleepersKept
    <3> QED BY <3>1 DEF SleepSorted
  <2> QED BY <2>1, <2>2, <2>3
<1> QED BY <1>1, <1>2, QueuesHold, PTL DEF Spec
-----------------------------------------------------------------------------
(***************************************************************************)
(* What is put in behind a queue, and the head taken from it, overtake     *)
(* nobody: this is next() after ready() of the processes of w, none or     *)
(* more.                                                                   *)
(***************************************************************************)
LEMMA NoneOvertaken ==
  ASSUME NEW T, NEW q \in Seq(T), NEW w \in Seq(T), IsInjective(q),
         NEW a, NEW b, a # b, a \in Range(q), b \in Range(q) => Before(q, a, b)
  PROVE  LET r == q \o w
         IN  /\ r # <<>> /\ b # Head(r)
             /\ b \in Range(r) => Before(r, a, b)
             /\ b \in Range(Tail(r)) => a = Head(r) \/ Before(Tail(r), a, b)
<1> DEFINE r == q \o w
           n == Len(q)
           m == Len(r)
<1>1. n \in Nat /\ DOMAIN q = 1 .. n /\ Len(w) \in Nat
  OBVIOUS
<1>2. PICK i \in 1 .. n : q[i] = a
  BY <1>1 DEF Range
<1>3. /\ r \in Seq(T) /\ m = n + Len(w)
      /\ \A x \in 1 .. n : r[x] = q[x]
  BY ConcatElements
<1> HIDE DEF r, n
<1>4. m \in Nat /\ DOMAIN r = 1 .. m /\ r # <<>> /\ m >= n /\ n >= 1
  BY <1>1, <1>2, <1>3
<1>5. r[i] = a /\ i \in 1 .. m
  BY <1>1, <1>2, <1>3, <1>4
<1>6. ASSUME NEW j \in 1 .. m, r[j] = b PROVE i < j
  <2>1. CASE j <= n
    <3>1. j \in 1 .. n /\ q[j] = b
      BY <1>1, <1>3, <1>4, <1>6, <2>1
    <3>2. PICK x \in 1 .. n, y \in 1 .. n : x < y /\ q[x] = a /\ q[y] = b
      BY <3>1, <1>1 DEF Range, Before
    <3>3. x = i /\ y = j
      BY <3>1, <3>2, <1>1, <1>2 DEF IsInjective
    <3> QED BY <3>2, <3>3
  <2>2. CASE j > n
    BY <2>2, <1>1, <1>2
  <2> QED BY <2>1, <2>2, <1>1, <1>4
<1>7. b \in Range(r) => Before(r, a, b)
  BY <1>4, <1>5, <1>6 DEF Range, Before
<1>8. Head(r) = r[1] /\ 1 \in 1 .. m
  BY <1>3, <1>4
<1>9. b # Head(r)
  BY <1>6, <1>8, <1>2, <1>1
<1> DEFINE t == Tail(r)
<1>10. /\ t \in Seq(T) /\ Len(t) = m - 1
       /\ \A x \in 1 .. m - 1 : t[x] = r[x + 1]
  BY <1>3, <1>4, HeadTailProperties
<1> HIDE DEF t, m
<1>11. b \in Range(t) => a = Head(r) \/ Before(t, a, b)
  <2> SUFFICES ASSUME b \in Range(t), a # Head(r) PROVE Before(t, a, b)
    OBVIOUS
  <2>1. DOMAIN t = 1 .. m - 1
    BY <1>4, <1>10
  <2>2. PICK j \in 1 .. m - 1 : t[j] = b
    BY <2>1 DEF Range
  <2>3. j + 1 \in 1 .. m /\ r[j + 1] = b
    BY <2>2, <1>4, <1>10
  <2>4. i < j + 1 /\ i # 1
    BY <2>3, <1>5, <1>6, <1>8
  <2>5. i - 1 \in 1 .. m - 1 /\ (i - 1) + 1 = i /\ i - 1 < j
    BY <2>2, <2>3, <2>4, <1>4, <1>5
  <2>6. t[i - 1] = a
    BY <2>5, <1>5, <1>10
  <2> QED BY <2>1, <2>2, <2>5, <2>6 DEF Before
<1> QED BY <1>4, <1>7, <1>9, <1>11 DEF r, t

\* What a step does to the ready queue and the running process: the processes
\* of a sequence w join at the end, and it goes on with the next one or not.
ReadyStep ==
  \/ UNCHANGED <<cur, readyQ>>
  \/ \E w \in Seq(Slot) :
       \/ readyQ' = readyQ \o w /\ UNCHANGED cur
       \/ RunNext(readyQ \o w)

\* Every step changes the ready list as ReadyStep says.
LEMMA NextReadyStep == TypeOK /\ [Next]_vars => ReadyStep
<1> SUFFICES ASSUME TypeOK, [Next]_vars PROVE ReadyStep
  OBVIOUS
<1>0. cur \in Slot /\ readyQ \in Seq(Slot) /\ sleepQ \in Seq(Slot)
  BY DEF TypeOK
<1>1. \A s \in Slot : <<s>> \in Seq(Slot) /\ Ready(readyQ, s) = readyQ \o <<s>>
  BY <1>0, AppendIsConcat DEF Ready
<1>2. CASE RunNext(Ready(readyQ, cur))
  BY <1>0, <1>1, <1>2 DEF ReadyStep
<1>3. CASE RunNext(readyQ)
  <2>1. <<>> \in Seq(Slot) /\ readyQ \o <<>> = readyQ
    BY <1>0, ConcatEmptySeq
  <2> QED BY <1>3, <2>1 DEF ReadyStep
<1>4. CASE \E s \in Slot : readyQ' = Ready(readyQ, s) /\ UNCHANGED cur
  BY <1>1, <1>4 DEF ReadyStep
<1>5. CASE \E v : Tick(v)
  <2>1. PICK k \in 0 .. Len(sleepQ) :
          RunNext(Ready(readyQ \o SubSeq(sleepQ, 1, k), cur))
    BY <1>5 DEF Tick
  <2> DEFINE a == SubSeq(sleepQ, 1, k)
  <2>2. a \in Seq(Slot)
    BY <1>0, SplitElements
  <2> HIDE DEF a
  <2>3. Ready(readyQ \o a, cur) = readyQ \o (a \o <<cur>>)
    <3>1. readyQ \o a \in Seq(Slot) /\ <<cur>> \in Seq(Slot)
      BY <1>0, <2>2, ConcatProperties
    <3>2. Append(readyQ \o a, cur) = (readyQ \o a) \o <<cur>>
      BY <1>0, <3>1, AppendIsConcat
    <3>3. (readyQ \o a) \o <<cur>> = readyQ \o (a \o <<cur>>)
      BY <1>0, <2>2, <3>1, ConcatAssociative
    <3> QED BY <3>2, <3>3 DEF Ready
  <2>4. a \o <<cur>> \in Seq(Slot)
    BY <1>0, <1>1, <2>2, ConcatProperties
  <2> QED BY <2>1, <2>3, <2>4 DEF ReadyStep, a
<1>6. CASE UNCHANGED <<cur, readyQ>>
  BY <1>6 DEF ReadyStep
<1>7. CASE Create
  BY <1>4, <1>7 DEF Create
<1>8. ASSUME NEW t, NEW n, Kill(t, n) PROVE ReadyStep
  BY <1>4, <1>6, <1>8 DEF Kill
<1>9. CASE Yield \/ Stop \/ SigWait \/ \E len \in SleepLen : SleepNot(len) \/ Sleep(len)
  BY <1>2, <1>3, <1>9 DEF Yield, Stop, SigWait, SleepNot, Sleep
<1>10. CASE TimerRequest \/ \E eax \in Eax : Timer(eax)
  BY <1>5, <1>10 DEF TimerRequest, Timer
<1>11. CASE CreateFails \/ GetPid \/ Puts \/ Device \/ BadRequest \/ SigHandlerRefused
            \/ KeyboardRequest \/ SigReturnElsewhere \/ CallNull \/ Lost \/ UNCHANGED vars
            \/ \E sp \in 0 .. MaxFrames - 1 : SigReturn(sp)
  BY <1>6, <1>11 DEF CreateFails, GetPid, Puts, Device, BadRequest, SigHandlerRefused,
                     KeyboardRequest, SigReturnElsewhere, SigReturn, CallNull, Lost,
                     vars, Reply
<1>12. ASSUME NEW n, NEW h, SigHandler(n, h) PROVE ReadyStep
  BY <1>6, <1>12 DEF SigHandler, Reply
<1>13. ASSUME NEW t, NEW n, KillRefused(t, n) \/ KillUnused(n) PROVE ReadyStep
  BY <1>6, <1>13 DEF KillRefused, KillUnused, Reply
<1>14. ASSUME NEW eax, Keyboard(eax) PROVE ReadyStep
  BY <1>6, <1>14 DEF Keyboard, Reply
<1> QED
  BY <1>7, <1>8, <1>9, <1>10, <1>11, <1>12, <1>13, <1>14 DEF Next, Request, Interrupt

\* The step that Fifo is about, for two processes.
InTurn(a, b) ==
  a # b /\ a \in Range(readyQ) /\ (b \in Range(readyQ) => Before(readyQ, a, b)) =>
    /\ b = cur' => b = cur
    /\ b \in Range(readyQ') => a = cur' \/ Before(readyQ', a, b)

\* No step lets a process overtake one that is in line before it.
LEMMA NextInTurn ==
  TypeOK /\ Queues /\ [Next]_vars => \A a, b \in Slot : InTurn(a, b)
<1> SUFFICES ASSUME TypeOK, Queues, [Next]_vars, NEW a \in Slot, NEW b \in Slot,
                    a # b, a \in Range(readyQ),
                    b \in Range(readyQ) => Before(readyQ, a, b)
             PROVE  /\ b = cur' => b = cur
                    /\ b \in Range(readyQ') => a = cur' \/ Before(readyQ', a, b)
  BY DEF InTurn
<1>1. readyQ \in Seq(Slot) /\ IsInjective(readyQ)
  BY DEF TypeOK, Queues, Lists
<1>2. CASE UNCHANGED <<cur, readyQ>>
  BY <1>2
<1>3. ASSUME NEW w \in Seq(Slot), readyQ' = readyQ \o w /\ UNCHANGED cur
      PROVE  /\ b = cur' => b = cur
             /\ b \in Range(readyQ') => a = cur' \/ Before(readyQ', a, b)
  BY <1>1, <1>3, NoneOvertaken
<1>4. ASSUME NEW w \in Seq(Slot), RunNext(readyQ \o w)
      PROVE  /\ b = cur' => b = cur
             /\ b \in Range(readyQ') => a = cur' \/ Before(readyQ', a, b)
  <2> DEFINE r == readyQ \o w
  <2>1. /\ r # <<>> /\ b # Head(r)
        /\ b \in Range(Tail(r)) => a = Head(r) \/ Before(Tail(r), a, b)
    BY <1>1, NoneOvertaken
  <2>2. cur' = Head(r) /\ readyQ' = Tail(r)
    BY <1>4, <2>1 DEF RunNext
  <2> HIDE DEF r
  <2> QED BY <2>1, <2>2
<1> QED BY <1>2, <1>3, <1>4, NextReadyStep DEF ReadyStep

(***************************************************************************)
(* The ready queue is first in, first out: nobody is overtaken, whichever  *)
(* request, tick or signal puts another process in the queue.              *)
(***************************************************************************)
THEOREM FifoHolds == Spec => Fifo
<1>1. TypeOK /\ Queues /\ [Next]_vars => [\A a, b \in Slot : InTurn(a, b)]_vars
  BY NextInTurn
<1>2. Spec => [][\A a, b \in Slot : InTurn(a, b)]_vars
  BY <1>1, QueuesHold, PTL DEF Spec
<1> QED BY <1>2 DEF Fifo, InTurn
-----------------------------------------------------------------------------
(***************************************************************************)
(* How a process may leave its state: it runs, or its slot is free, or a   *)
(* signal ends its sigwait, or the tick of its time its sleep.             *)
(***************************************************************************)
StateStep(s) ==
  \/ pstate'[s] = pstate[s]
  \/ s = cur
  \/ pstate[s] = "STOPPED"
  \/ pstate[s] = "SIGWAIT" /\ pstate'[s] = "READY" /\ Len(frames'[s]) > Len(frames[s])
  \/ pstate[s] = "SLEEP" /\ pstate'[s] = "READY" /\ left[s] = 1 /\ left'[s] = 0

(***************************************************************************)
(* What may become of the frames of a process: they stay, its slot is made *)
(* new, it runs and returns, or a signal puts one on top, which ends its   *)
(* sigwait.                                                                *)
(***************************************************************************)
FrameStep(s) ==
  \/ frames'[s] = frames[s]
  \/ pstate[s] = "STOPPED"
  \/ s = cur
  \/ /\ \E f \in Frame : frames'[s] = Append(frames[s], f)
     /\ pstate[s] = "SIGWAIT" => pstate'[s] = "READY"

\* A tick wakes sleepers whose time is up and changes no other state and no frame.
LEMMA TickStates ==
  ASSUME TypeOK, Queues, NEW v, Tick(v), NEW s \in Slot
  PROVE  StateStep(s) /\ frames' = frames
<1>1. PICK k \in 0 .. Len(sleepQ) :
        /\ TimeUp(k)
        /\ pstate' = [x \in Slot |-> IF x \in Range(SubSeq(sleepQ, 1, k))
                                     THEN "READY" ELSE pstate[x]]
  BY DEF Tick
<1> DEFINE W == Range(SubSeq(sleepQ, 1, k))
<1>2. W = {sleepQ[i] : i \in 1 .. k}
  BY ListsSplit DEF Queues
<1>3. pstate'[s] = IF s \in W THEN "READY" ELSE pstate[s]
  BY <1>1
<1>4. left' = [x \in Slot |-> IF pstate[x] = "SLEEP" THEN Less(left[x]) ELSE left[x]]
      /\ frames' = frames
  BY DEF Tick
<1> HIDE DEF W
<1>5. CASE s \notin W
  BY <1>3, <1>4, <1>5 DEF StateStep
<1>6. CASE s \in W
  <2>1. PICK i \in 1 .. k : s = sleepQ[i]
    BY <1>2, <1>6
  <2>2. left[s] = 1
    BY <1>1, <2>1 DEF TimeUp
  <2>3. pstate[s] = "SLEEP"
    <3>1. i \in 1 .. Len(sleepQ)
      BY <2>1 DEF TypeOK
    <3> QED BY <2>1, <3>1, ListsFacts DEF Queues, In
  <2>4. left'[s] = 0
    BY <1>4, <2>2, <2>3 DEF Less
  <2> QED BY <1>3, <1>4, <1>6, <2>2, <2>3, <2>4 DEF StateStep
<1> QED BY <1>5, <1>6

\* A signal puts a frame on its target and wakes it from sigwait only.
LEMMA KillStates ==
  ASSUME TypeOK, Queues, NEW t, NEW n \in SigNum, Kill(t, n), NEW s \in Slot
  PROVE  StateStep(s) /\ FrameStep(s)
<1>1. PICK r \in Slot :
        /\ frames' = [frames EXCEPT ![r] = Append(frames[r],
                        [handler |-> sigTable[r][n],
                         due |-> IF r = cur THEN {0} ELSE due[r]])]
        /\ IF SignalWakes(r) THEN pstate' = [pstate EXCEPT ![r] = "READY"]
                             ELSE pstate' = pstate
  BY DEF Kill, Push
<1> DEFINE f == [handler |-> sigTable[r][n], due |-> IF r = cur THEN {0} ELSE due[r]]
<1>2. /\ pstate \in [Slot -> ProcState] /\ frames \in [Slot -> Seq(Frame)]
      /\ due \in [Slot -> SUBSET Int] /\ sigTable \in [Slot -> [SigNum -> SigEntry]]
  BY DEF TypeOK
<1>3. f \in Frame
  BY <1>2 DEF Frame
<1>4. frames' = [frames EXCEPT ![r] = Append(frames[r], f)]
  BY <1>1
<1> HIDE DEF f
<1>5. CASE s # r
  BY <1>1, <1>2, <1>4, <1>5 DEF StateStep, FrameStep
<1>6. CASE s = r
  <2>1. frames'[s] = Append(frames[s], f) /\ frames[s] \in Seq(Frame)
    BY <1>2, <1>4, <1>6
  <2>2. Len(frames'[s]) > Len(frames[s])
    <3>1. Len(Append(frames[s], f)) = Len(frames[s]) + 1 /\ Len(frames[s]) \in Nat
      BY <1>3, <2>1, AppendProperties
    <3> QED BY <2>1, <3>1
  <2>3. IF pstate[s] = "SIGWAIT" THEN pstate'[s] = "READY" ELSE pstate'[s] = pstate[s]
    BY <1>1, <1>2, <1>6 DEF SignalWakes
  <2> QED BY <1>3, <2>1, <2>2, <2>3 DEF StateStep, FrameStep
<1> QED BY <1>5, <1>6

\* Every step changes states and frames as the two predicates say.
LEMMA NextStates ==
  TypeOK /\ Queues /\ [Next]_vars => \A s \in Slot : StateStep(s) /\ FrameStep(s)
<1> SUFFICES ASSUME TypeOK, Queues, [Next]_vars, NEW s \in Slot
             PROVE  StateStep(s) /\ FrameStep(s)
  OBVIOUS
<1>0. pstate \in [Slot -> ProcState] /\ frames \in [Slot -> Seq(Frame)] /\ cur \in Slot
  BY DEF TypeOK
<1>1. CASE UNCHANGED <<pstate, frames>>
  BY <1>1 DEF StateStep, FrameStep
<1>2. CASE Create
  <2>1. PICK i \in Slot : /\ pstate[i] = "STOPPED"
                          /\ pstate' = [pstate EXCEPT ![i] = "READY"]
                          /\ frames' = [frames EXCEPT ![i] = <<>>]
    BY <1>2 DEF Create, FirstStopped
  <2> QED BY <1>0, <2>1 DEF StateStep, FrameStep
<1>3. CASE \/ Stop \/ SigWait \/ \E len \in SleepLen : Sleep(len)
  <2>1. PICK st : pstate' = [pstate EXCEPT ![cur] = st] /\ frames' = frames
    BY <1>3 DEF Stop, SigWait, Sleep
  <2> QED BY <1>0, <2>1 DEF StateStep, FrameStep
<1>4. CASE TimerRequest \/ \E eax \in Eax : Timer(eax)
  BY <1>4, TickStates DEF TimerRequest, Timer, FrameStep
<1>5. ASSUME NEW t, NEW n, Kill(t, n) PROVE StateStep(s) /\ FrameStep(s)
  BY <1>5, KillStates DEF Kill
<1>6. CASE \E sp \in 0 .. MaxFrames - 1 : SigReturn(sp)
  BY <1>0, <1>6 DEF SigReturn, StateStep, FrameStep
<1>7. CASE \/ CreateFails \/ Yield \/ GetPid \/ Puts \/ Device \/ BadRequest
           \/ KeyboardRequest \/ SigReturnElsewhere
           \/ SigHandlerRefused \/ CallNull \/ Lost \/ UNCHANGED vars
           \/ \E len \in SleepLen : SleepNot(len)
           \/ \E n \in SigNum, h \in SigEntry : SigHandler(n, h)
  BY <1>1, <1>7 DEF CreateFails, Yield, GetPid, Puts, Device, BadRequest,
                    KeyboardRequest, SigReturnElsewhere, SigHandlerRefused, SleepNot, CallNull, Lost, SigHandler, vars
<1>8. ASSUME NEW t, NEW n, KillRefused(t, n) \/ KillUnused(n)
      PROVE  StateStep(s) /\ FrameStep(s)
  BY <1>1, <1>8 DEF KillRefused, KillUnused
<1>9. ASSUME NEW eax, Keyboard(eax) PROVE StateStep(s) /\ FrameStep(s)
  BY <1>1, <1>9 DEF Keyboard
<1> QED
  BY <1>2, <1>3, <1>4, <1>5, <1>6, <1>7, <1>8, <1>9 DEF Next, Request, Interrupt
(***************************************************************************)
(* sigwait ends with the first signal that reaches the process, and with   *)
(* nothing else: no tick, no request of another process.                   *)
(***************************************************************************)
THEOREM SigwaitEndsOnSignalHolds == Spec => SigwaitEndsOnSignal
<1> DEFINE Step == \A s \in Slot : pstate[s] = "SIGWAIT" =>
                     (pstate'[s] # "SIGWAIT" <=> Len(frames'[s]) > Len(frames[s]))
<1>1. TypeOK /\ Queues /\ [Next]_vars => Step
  <2> SUFFICES ASSUME TypeOK, Queues, [Next]_vars,
                      NEW s \in Slot, pstate[s] = "SIGWAIT"
               PROVE  pstate'[s] # "SIGWAIT" <=> Len(frames'[s]) > Len(frames[s])
    OBVIOUS
  <2>1. s # cur
    BY DEF Queues, In
  <2>2. Len(frames[s]) \in Nat
    BY DEF TypeOK
  <2>3. \/ pstate'[s] = pstate[s]
        \/ pstate'[s] = "READY" /\ Len(frames'[s]) > Len(frames[s])
    BY <2>1, NextStates DEF StateStep
  <2>4. \/ frames'[s] = frames[s]
        \/ pstate'[s] = "READY"
    BY <2>1, NextStates DEF FrameStep
  <2> QED BY <2>2, <2>3, <2>4
<1> HIDE DEF Step
<1>2. Spec => [][Step]_vars
  BY <1>1, QueuesHold, PTL DEF Spec
<1> QED BY <1>2 DEF SigwaitEndsOnSignal, Step

(***************************************************************************)
(* A sleep ends at the tick that finds one tick left, and in no other way: *)
(* a signal to a sleeper does not wake it.                                 *)
(***************************************************************************)
THEOREM SleepEndsOnTimeHolds == Spec => SleepEndsOnTime
<1> DEFINE Step == \A s \in Slot : pstate[s] = "SLEEP" /\ pstate'[s] # "SLEEP" =>
                     left[s] = 1 /\ left'[s] = 0 /\ pstate'[s] = "READY"
<1>1. TypeOK /\ Queues /\ [Next]_vars => Step
  <2> SUFFICES ASSUME TypeOK, Queues, [Next]_vars,
                      NEW s \in Slot, pstate[s] = "SLEEP", pstate'[s] # "SLEEP"
               PROVE  left[s] = 1 /\ left'[s] = 0 /\ pstate'[s] = "READY"
    OBVIOUS
  <2>1. s # cur
    BY DEF Queues, In
  <2> QED BY <2>1, NextStates DEF StateStep
<1> HIDE DEF Step
<1>2. Spec => [][Step]_vars
  BY <1>1, QueuesHold, PTL DEF Spec
<1> QED BY <1>2 DEF SleepEndsOnTime, Step
-----------------------------------------------------------------------------
(***************************************************************************)
(* DueLostBySigreturnOnly is not inductive: a process that does not run    *)
(* may still be owed a value when it is woken.  What carries it over the   *)
(* wait is that only a sleeper is owed one, 0, which tick() gives it; a    *)
(* process in sigwait is owed none (signal() and sigreturn() write its     *)
(* eax), and a stopped one must not be, as create() leaves pcb.ret to the  *)
(* next owner of the slot.                                                 *)
(***************************************************************************)
Found(s, v) == IF returned /\ s = cur THEN 0 ELSE v

DueKept ==
  \A s \in Slot : \A v \in due[s] :
    \/ pstate[s] = "READY" /\ ret[s] = Found(s, v)
    \/ pstate[s] = "SLEEP" /\ v = 0

\* The steps that leave the caller running with its answer, or owed none.
LEMMA DueOfCaller ==
  ASSUME TypeOK, Queues, DueKept, UNCHANGED pstate,
         \/ \E v \in Int : /\ ret' = [ret EXCEPT ![cur] = v]
                            /\ Promise([due EXCEPT ![cur] = {v}])
         \/ /\ Promise([due EXCEPT ![cur] = {}])
            /\ ret' = ret \/ \E v : ret' = [ret EXCEPT ![cur] = v]
  PROVE  DueKept'
<1>1. /\ cur \in Slot /\ pstate[cur] = "READY" /\ pstate' = pstate
      /\ ret \in [Slot -> Int] /\ due \in [Slot -> SUBSET Int]
  BY DEF TypeOK, Queues, In
<1> QED BY <1>1 DEF DueKept, Found

\* A tick gives the woken sleepers 0 and the process it stopped its eax.
LEMMA DueAfterTick ==
  ASSUME TypeOK, Queues, DueKept, NEW v \in Int, Tick(v),
         NEW d \in {{v}, {}}, Promise([due EXCEPT ![cur] = d])
  PROVE  DueKept'
<1>1. PICK k \in 0 .. Len(sleepQ) :
        /\ pstate' = [s \in Slot |-> IF s \in Range(SubSeq(sleepQ, 1, k))
                                     THEN "READY" ELSE pstate[s]]
        /\ ret' = RetAfterTick(SubSeq(sleepQ, 1, k), v)
  BY DEF Tick
<1> DEFINE W == Range(SubSeq(sleepQ, 1, k))
<1>2. W = {sleepQ[i] : i \in 1 .. k}
  BY ListsSplit DEF Queues
<1>3. \A s \in W : pstate[s] = "SLEEP"
  <2> SUFFICES ASSUME NEW i \in 1 .. k PROVE pstate[sleepQ[i]] = "SLEEP"
    BY <1>2
  <2>1. i \in 1 .. Len(sleepQ)
    BY DEF TypeOK
  <2> QED BY <2>1, ListsFacts DEF Queues, In
<1>4. /\ pstate' = [s \in Slot |-> IF s \in W THEN "READY" ELSE pstate[s]]
      /\ ret' = [s \in Slot |-> IF s \in W THEN 0 ELSE IF s = cur THEN v ELSE ret[s]]
  BY <1>1 DEF RetAfterTick
<1>5. /\ cur \in Slot /\ pstate[cur] = "READY"
      /\ ret \in [Slot -> Int] /\ due \in [Slot -> SUBSET Int]
  BY DEF TypeOK, Queues, In
<1> HIDE DEF W
<1> SUFFICES ASSUME NEW s \in Slot, NEW u \in due'[s]
             PROVE  \/ pstate'[s] = "READY" /\ ret'[s] = u
                    \/ pstate'[s] = "SLEEP" /\ u = 0
  BY DEF DueKept, Found
<1>6. CASE s = cur
  BY <1>3, <1>4, <1>5, <1>6
<1>7. CASE s # cur
  <2>1. u \in due[s]
    BY <1>5, <1>7
  <2> QED BY <1>3, <1>4, <1>5, <1>7, <2>1 DEF DueKept, Found
<1> QED BY <1>6, <1>7

\* Every step keeps what each process is owed.
LEMMA NextDueKept == TypeOK /\ Queues /\ DueKept /\ [Next]_vars => DueKept'
<1> SUFFICES ASSUME TypeOK, Queues, DueKept, [Next]_vars PROVE DueKept'
  OBVIOUS
<1>0. /\ cur \in Slot /\ pstate[cur] = "READY" /\ nextpid \in Int
      /\ pstate \in [Slot -> ProcState] /\ pid \in [Slot -> Int]
      /\ ret \in [Slot -> Int] /\ due \in [Slot -> SUBSET Int]
  BY DEF TypeOK, Queues, In
<1>1. CASE Create
  <2>1. PICK i \in Slot :
          /\ pstate[i] = "STOPPED"
          /\ pstate' = [pstate EXCEPT ![i] = "READY"]
          /\ due' = [due EXCEPT ![i] = {}, ![cur] = {nextpid}]
    BY <1>1 DEF Create, FirstStopped
  <2>2. ret' = [ret EXCEPT ![cur] = nextpid] /\ returned' = FALSE
    BY <1>1 DEF Create
  <2> QED BY <1>0, <2>1, <2>2 DEF DueKept, Found
<1>2. CASE CreateFails \/ GetPid \/ Puts \/ Device \/ SigHandlerRefused
  <2>1. UNCHANGED pstate /\ \E v \in Int : Reply(v)
    BY <1>0, <1>2 DEF CreateFails, GetPid, Puts, Device, SigHandlerRefused
  <2> QED BY <2>1, DueOfCaller DEF Reply
<1>3. CASE \/ Yield \/ BadRequest \/ KeyboardRequest \/ SigReturnElsewhere
           \/ \E len \in SleepLen : SleepNot(len)
  <2>1. /\ UNCHANGED pstate /\ Promise([due EXCEPT ![cur] = {}])
        /\ ret' = ret \/ \E v : ret' = [ret EXCEPT ![cur] = v]
    BY <1>3 DEF Yield, BadRequest, KeyboardRequest, SigReturnElsewhere, SleepNot
  <2> QED BY <2>1, DueOfCaller
<1>4. CASE Stop \/ SigWait
  <2>1. PICK st : pstate' = [pstate EXCEPT ![cur] = st]
    BY <1>4 DEF Stop, SigWait
  <2>2. Promise([due EXCEPT ![cur] = {}]) /\ ret' = ret
    BY <1>4 DEF Stop, SigWait
  <2> QED BY <1>0, <2>1, <2>2 DEF DueKept, Found
<1>5. ASSUME NEW len, Sleep(len) PROVE DueKept'
  <2>1. /\ pstate' = [pstate EXCEPT ![cur] = "SLEEP"]
        /\ Promise([due EXCEPT ![cur] = {0}]) /\ ret' = ret
    BY <1>5 DEF Sleep
  <2> QED BY <1>0, <2>1 DEF DueKept, Found
<1>6. CASE TimerRequest
  <2>1. ret[cur] \in Int /\ Tick(ret[cur]) /\ Promise([due EXCEPT ![cur] = {}])
    BY <1>0, <1>6 DEF TimerRequest
  <2> QED BY <2>1, DueAfterTick
<1>7. ASSUME NEW eax \in Eax, Timer(eax) PROVE DueKept'
  <2>1. eax \in Int /\ Tick(eax) /\ Promise([due EXCEPT ![cur] = {eax}])
    BY <1>7 DEF Timer
  <2> QED BY <2>1, DueAfterTick
<1>8. ASSUME NEW eax \in Eax, Keyboard(eax) PROVE DueKept'
  <2>1. UNCHANGED pstate /\ \E v \in Int : Reply(v)
    BY <1>8 DEF Keyboard
  <2> QED BY <2>1, DueOfCaller DEF Reply
<1>9. ASSUME NEW n, NEW h, SigHandler(n, h) PROVE DueKept'
  <2>1. UNCHANGED pstate /\ \E v \in Int : Reply(v)
    BY <1>9 DEF SigHandler
  <2> QED BY <2>1, DueOfCaller DEF Reply
<1>10. ASSUME NEW t, NEW n, KillRefused(t, n) PROVE DueKept'
  <2>1. UNCHANGED pstate /\ \E v \in Int : Reply(v)
    BY <1>10 DEF KillRefused
  <2> QED BY <2>1, DueOfCaller DEF Reply
<1>11. ASSUME NEW t, NEW n, Kill(t, n) PROVE DueKept'
  <2>1. PICK r \in Slot :
          /\ due' = [due EXCEPT ![cur] = {0}, ![r] = {}]
          /\ IF SignalWakes(r) THEN pstate' = [pstate EXCEPT ![r] = "READY"]
                               ELSE pstate' = pstate
    BY <1>11 DEF Kill
  <2>2. ret' = [ret EXCEPT ![cur] = 0] /\ returned' = FALSE
    BY <1>11 DEF Kill
  <2>3. pstate' \in {pstate, [pstate EXCEPT ![r] = "READY"]}
    BY <2>1
  <2> QED BY <1>0, <2>1, <2>2, <2>3 DEF DueKept, Found
<1>12. ASSUME NEW n, KillUnused(n) PROVE DueKept'
  BY <1>12 DEF KillUnused, DueKept, Found
<1>13. CASE CallNull \/ Lost \/ UNCHANGED vars
  BY <1>13 DEF CallNull, Lost, vars, DueKept, Found
<1>14. ASSUME NEW sp, SigReturn(sp) PROVE DueKept'
  <2>1. PICK d : due' = [due EXCEPT ![cur] = d]
    BY <1>14 DEF SigReturn
  <2>2. ret' = [ret EXCEPT ![cur] = 0] /\ returned' = TRUE /\ UNCHANGED <<cur, pstate>>
    BY <1>14 DEF SigReturn
  <2> QED BY <1>0, <2>1, <2>2 DEF DueKept, Found
<1> QED
  BY <1>1, <1>2, <1>3, <1>4, <1>5, <1>6, <1>7, <1>8, <1>9, <1>10, <1>11, <1>12, <1>13,
     <1>14
  DEF Next, Request, Interrupt

(***************************************************************************)
(* A process that was interrupted, answered or woken finds in eax what it  *)
(* must, whatever ran, ticked or signalled in between, and also in the     *)
(* contexts that signals cover; the exception is the context sigreturn     *)
(* went back to, which finds 0.                                            *)
(***************************************************************************)
THEOREM DueLostBySigreturnOnlyHolds == Spec => []DueLostBySigreturnOnly
<1>1. Init => DueKept
  BY DEF Init, DueKept
<1>2. TypeOK /\ Queues /\ DueKept => DueLostBySigreturnOnly
  <2> SUFFICES ASSUME TypeOK, Queues, DueKept,
                      NEW s \in Slot, Runnable(s), NEW v \in due[s]
               PROVE  ret[s] = Found(s, v)
    BY DEF DueLostBySigreturnOnly, Found
  <2>1. pstate[s] = "READY"
    BY QueuesImply DEF OnePlace, ReadyPlace
  <2> QED BY <2>1 DEF DueKept
<1> QED BY <1>1, <1>2, QueuesHold, NextDueKept, PTL DEF Spec

-----------------------------------------------------------------------------
(***************************************************************************)
(* Dispatcher implements Scheduler, step by step, where no process sleeps  *)
(* for less than the 10 ms of a tick: such a sleep is entered in the delta *)
(* list with nothing to wait, which the next tick takes below zero, and it *)
(* never ends.                                                             *)
(***************************************************************************)

\* No sleep that is long enough to block is shorter than a tick.
NoShortSleep == \A len \in SleepLen : len >= 1 => len >= 10

\* The wait of Scheduler's processes, in terms of Dispatcher.
Wait == [s \in Slot |-> IF pstate[s] = "SLEEP" THEN left[s] ELSE 0]

\* Every sleeper has at least one tick to wait.
TicksLeft == \A s \in Slot : pstate[s] = "SLEEP" => left[s] >= 1

(***************************************************************************)
(* A tick wakes exactly the sleepers with one tick to wait: the queue is   *)
(* in order and nobody waits for less, so they are all at its front.       *)
(***************************************************************************)
LEMMA TickWakes ==
  ASSUME TypeOK, Queues, SleepSorted, TicksLeft, NEW k \in 0 .. Len(sleepQ), TimeUp(k)
  PROVE  LET w == SubSeq(sleepQ, 1, k)
         IN  /\ Range(w) = {s \in Slot : Wait[s] = 1}
             /\ Lists(w, Range(w))
<1> DEFINE n == Len(sleepQ)
           w == SubSeq(sleepQ, 1, k)
<1>1. sleepQ \in Seq(Slot) /\ n \in Nat /\ left \in [Slot -> Int]
  BY DEF TypeOK
<1>2. Range(w) = {sleepQ[i] : i \in 1 .. k}
  BY ListsSplit DEF Queues
<1>3. Lists(w, Range(w))
  BY ListsSplit DEF Queues
<1>4. /\ \A i \in 1 .. n : sleepQ[i] \in Slot /\ pstate[sleepQ[i]] = "SLEEP"
      /\ \A s \in Slot : pstate[s] = "SLEEP" => \E i \in 1 .. n : sleepQ[i] = s
  <2>1. Lists(sleepQ, In("SLEEP"))
    BY DEF Queues
  <2>2. /\ \A i \in 1 .. n : sleepQ[i] \in In("SLEEP")
        /\ \A s \in In("SLEEP") : \E i \in 1 .. n : sleepQ[i] = s
    BY <2>1, ListsFacts
  <2> QED BY <2>2 DEF In
<1>5. \A i, j \in 1 .. n : i < j => left[sleepQ[i]] <= left[sleepQ[j]]
  BY <1>1 DEF SleepSorted
<1>6. /\ \A i \in 1 .. k : left[sleepQ[i]] = 1
      /\ k < n => left[sleepQ[k + 1]] # 1
  BY DEF TimeUp
<1> HIDE DEF n, w
<1>7. ASSUME NEW i \in 1 .. k PROVE sleepQ[i] \in Slot /\ Wait[sleepQ[i]] = 1
  <2>1. i \in 1 .. n
    BY <1>1 DEF n
  <2> QED BY <2>1, <1>4, <1>6 DEF Wait
<1>8. ASSUME NEW s \in Slot, Wait[s] = 1 PROVE \E i \in 1 .. k : s = sleepQ[i]
  <2>1. pstate[s] = "SLEEP" /\ left[s] = 1
    BY <1>8 DEF Wait
  <2>2. PICK j \in 1 .. n : sleepQ[j] = s
    BY <2>1, <1>4
  <2>3. CASE j <= k
    BY <2>2, <2>3, <1>1
  <2>4. CASE j > k
    <3>1. k + 1 \in 1 .. n /\ k < n /\ (k + 1 = j \/ k + 1 < j)
      BY <2>2, <2>4, <1>1 DEF n
    <3>2. left[sleepQ[k + 1]] <= 1
      BY <3>1, <2>1, <2>2, <1>1, <1>5
    <3>3. left[sleepQ[k + 1]] >= 1 /\ left[sleepQ[k + 1]] \in Int
      BY <3>1, <1>1, <1>4 DEF TicksLeft
    <3>4. left[sleepQ[k + 1]] = 1
      BY <3>2, <3>3
    <3> QED BY <3>1, <3>4, <1>6
  <2> QED BY <2>2, <2>3, <2>4, <1>1
<1> QED BY <1>2, <1>3, <1>7, <1>8 DEF w

\* What a tick does to the ready queue and to the waits.
LEMMA TickWaits ==
  ASSUME TypeOK, Queues, SleepSorted, TicksLeft, NEW v, Tick(v)
  PROVE  /\ \E w \in Seq(Slot) : /\ Lists(w, {s \in Slot : Wait[s] = 1})
                                 /\ RunNext(Append(readyQ \o w, cur))
         /\ Wait' = [s \in Slot |-> IF Wait[s] = 0 THEN 0 ELSE Wait[s] - 1]
         /\ TicksLeft'
<1>1. PICK k \in 0 .. Len(sleepQ) :
        /\ TimeUp(k)
        /\ pstate' = [s \in Slot |-> IF s \in Range(SubSeq(sleepQ, 1, k))
                                     THEN "READY" ELSE pstate[s]]
        /\ RunNext(Ready(readyQ \o SubSeq(sleepQ, 1, k), cur))
  BY DEF Tick
<1> DEFINE w == SubSeq(sleepQ, 1, k)
           W == {s \in Slot : Wait[s] = 1}
<1>2. Lists(w, W)
  BY <1>1, TickWakes
<1>3. Range(w) = W
  BY <1>1, TickWakes
<1>4. w \in Seq(Slot)
  BY SplitElements DEF TypeOK
<1>5. pstate' = [s \in Slot |-> IF s \in W THEN "READY" ELSE pstate[s]]
      /\ RunNext(Append(readyQ \o w, cur))
  BY <1>1, <1>3 DEF Ready
<1>6. /\ left \in [Slot -> Int]
      /\ left' = [s \in Slot |-> IF pstate[s] = "SLEEP" THEN Less(left[s]) ELSE left[s]]
  BY DEF Tick, TypeOK
<1> HIDE DEF w
<1>7. ASSUME NEW s \in Slot
      PROVE  /\ Wait'[s] = IF Wait[s] = 0 THEN 0 ELSE Wait[s] - 1
             /\ pstate'[s] = "SLEEP" => left'[s] >= 1
  <2>1. left[s] \in Int
    BY <1>6
  <2>2. CASE pstate[s] # "SLEEP"
    BY <1>5, <2>2 DEF Wait
  <2>3. CASE pstate[s] = "SLEEP" /\ left[s] = 1
    BY <1>5, <2>3 DEF Wait
  <2>4. CASE pstate[s] = "SLEEP" /\ left[s] # 1
    <3>1. left[s] >= 2 /\ Wait[s] = left[s]
      BY <2>1, <2>4 DEF TicksLeft, Wait
    <3>2. pstate'[s] = "SLEEP" /\ left'[s] = left[s] - 1
      BY <1>5, <1>6, <2>4, <3>1 DEF Less
    <3> QED BY <2>1, <3>1, <3>2 DEF Wait
  <2> QED BY <2>2, <2>3, <2>4
<1>8. Wait' = [s \in Slot |-> IF Wait[s] = 0 THEN 0 ELSE Wait[s] - 1]
  BY <1>7 DEF Wait
<1> QED BY <1>2, <1>4, <1>5, <1>7, <1>8 DEF TicksLeft

\* A sequence that lists a set takes its elements in one of their orders.
LEMMA ListsInOrder ==
  ASSUME NEW T, NEW q, Lists(q, T)
  PROVE  q \in Sched!Orders(T)
<1>1. q \in [1 .. Cardinality(T) -> T] /\ IsInjective(q)
  BY ListsOrder
<1>2. Sched!Cardinality(T) = Cardinality(T)
  BY DEF Sched!Cardinality, Cardinality
<1>3. Sched!IsInjective(q)
  BY <1>1 DEF IsInjective, Sched!IsInjective
<1> QED BY <1>1, <1>2, <1>3 DEF Sched!Orders
-----------------------------------------------------------------------------
\* The invariants under which a step of Dispatcher maps to one of Scheduler.
SchedInv == TypeOK /\ Queues /\ SleepSorted /\ TicksLeft

\* Among the steps of Dispatcher, a tick alone changes what a sleeper waits.
LEMMA NextTicksLeft ==
  ASSUME NoShortSleep
  PROVE  SchedInv /\ [Next]_vars => TicksLeft'
<1> SUFFICES ASSUME SchedInv, [Next]_vars PROVE TicksLeft'
  OBVIOUS
<1>0. TypeOK /\ Queues /\ SleepSorted /\ TicksLeft
  BY DEF SchedInv
<1>1. pstate \in [Slot -> ProcState] /\ left \in [Slot -> Int] /\ cur \in Slot
  BY <1>0 DEF TypeOK
<1>2. CASE \E v : Tick(v)
  BY <1>0, <1>2, TickWaits
<1>3. CASE \E len \in SleepLen : Sleep(len)
  <2>1. PICK len \in SleepLen : /\ len >= 1
                                /\ left' = [left EXCEPT ![cur] = TicksOf(len)]
                                /\ pstate' = [pstate EXCEPT ![cur] = "SLEEP"]
    BY <1>3 DEF Sleep
  <2>2. TicksOf(len) >= 1
    BY <2>1 DEF TicksOf, NoShortSleep
  <2> QED BY <1>0, <1>1, <2>1, <2>2 DEF TicksLeft
<1>4. CASE ~(\E len \in SleepLen : Sleep(len)) /\ ~(\E v : Tick(v))
  <2>1. left' = left
    BY <1>4, SleepersKept
  <2>2. \A s \in Slot : pstate'[s] = "SLEEP" => pstate[s] = "SLEEP"
    <3>1. CASE UNCHANGED pstate
      BY <3>1
    <3>2. CASE \E i \in Slot, st \in {"READY", "STOPPED", "SIGWAIT"} :
                 pstate' = [pstate EXCEPT ![i] = st]
      BY <1>1, <3>2
    <3>3. ASSUME NEW t, NEW n, Kill(t, n)
          PROVE  \/ UNCHANGED pstate
                 \/ \E i \in Slot : pstate' = [pstate EXCEPT ![i] = "READY"]
      BY <3>3 DEF Kill
    <3>4. CASE Create
      BY <3>2, <3>4 DEF Create
    <3>5. CASE Stop \/ SigWait
      BY <1>1, <3>2, <3>5 DEF Stop, SigWait
    <3>6. CASE \/ CreateFails \/ Yield \/ GetPid \/ Puts \/ Device \/ BadRequest
               \/ KeyboardRequest \/ SigReturnElsewhere
               \/ \E sp \in 0 .. MaxFrames - 1 : SigReturn(sp)
               \/ SigHandlerRefused \/ CallNull \/ Lost \/ UNCHANGED vars
               \/ \E len \in SleepLen : SleepNot(len)
               \/ \E n \in SigNum, h \in SigEntry : SigHandler(n, h)
               \/ \E eax \in Eax : Keyboard(eax)
      BY <3>1, <3>6 DEF CreateFails, Yield, GetPid, Puts, Device, BadRequest,
           KeyboardRequest, SigReturnElsewhere, SigReturn, SigHandlerRefused,
           SleepNot, CallNull, Lost, SigHandler, Keyboard, vars
    <3>7. ASSUME NEW t, NEW n, KillRefused(t, n) \/ KillUnused(n)
          PROVE  UNCHANGED pstate
      BY <3>7 DEF KillRefused, KillUnused
    <3> QED
      BY <1>4, <3>1, <3>2, <3>3, <3>4, <3>5, <3>6, <3>7
      DEF Next, Request, Interrupt, TimerRequest, Timer
  <2> QED BY <1>0, <2>1, <2>2 DEF TicksLeft
<1> QED BY <1>2, <1>3, <1>4

-----------------------------------------------------------------------------
\* The names of Scheduler, read in Dispatcher.
LEMMA SchedNames ==
  /\ Sched!Proc = Slot /\ Sched!Idle = Idle
  /\ \A p : Sched!Awake(p) = (Wait[p] = 0)
BY DEF Sched!Proc, Sched!Idle, Sched!Awake, Slot, Idle, Wait

\* next() on a queue that is not empty is Run of Scheduler.
LEMMA RunNextIsRun ==
  ASSUME NEW q, RunNext(q), mode' # "spin"
  PROVE  Sched!Run(q)
BY DEF RunNext, Sched!Run

\* A change of state into or out of sleep aside, the waits stay.
LEMMA WaitKept ==
  ASSUME TypeOK, NEW i \in Slot, NEW st \in ProcState, pstate[i] # "SLEEP", st # "SLEEP",
         pstate' = [pstate EXCEPT ![i] = st], left' = left
  PROVE  Wait' = Wait
BY DEF Wait, TypeOK

\* The requests, the interrupts and the end of the machine, one by one.
LEMMA NextImplements ==
  ASSUME NoShortSleep
  PROVE  SchedInv /\ SchedInv' /\ [Next]_vars => [Sched!Next]_(Sched!vars)
<1> SUFFICES ASSUME SchedInv, SchedInv', [Next]_vars
             PROVE  Sched!Next \/ UNCHANGED <<cur, readyQ, Wait>>
  BY DEF Sched!vars, Wait
<1>0. TypeOK /\ Queues /\ SleepSorted /\ TicksLeft /\ mode' # "spin"
  BY DEF SchedInv, Queues
<1>1. /\ pstate \in [Slot -> ProcState] /\ left \in [Slot -> Int] /\ cur \in Slot
      /\ pstate[cur] = "READY" /\ pstate[Idle] = "READY"
      /\ Range(readyQ) = In("READY") \ {cur}
  BY <1>0 DEF TypeOK, Queues, In, Lists
<1>2. ASSUME UNCHANGED <<cur, readyQ, pstate, left>>
      PROVE  UNCHANGED <<cur, readyQ, Wait>>
  BY <1>2 DEF Wait
<1>3. ASSUME NEW i \in Slot, pstate[i] \in {"STOPPED", "SIGWAIT"},
             pstate' = [pstate EXCEPT ![i] = "READY"], readyQ' = Ready(readyQ, i),
             UNCHANGED <<cur, left>>
      PROVE  Sched!Wake(i)
  <2>1. Wait' = Wait
    BY <1>0, <1>3, WaitKept DEF ProcState
  <2>2. i # cur /\ i \notin Range(readyQ) /\ Wait[i] = 0
    BY <1>1, <1>3 DEF In, Wait
  <2>3. i \notin Sched!Range(readyQ)
    BY <2>2 DEF Range, Sched!Range
  <2> QED BY <1>3, <2>1, <2>2, <2>3, SchedNames DEF Sched!Wake, Ready, Wait
<1>4. ASSUME RunNext(Ready(readyQ, cur)), UNCHANGED <<pstate, left>>
      PROVE  Sched!Yield
  <2>1. Sched!Run(Append(readyQ, cur))
    BY <1>0, <1>4, RunNextIsRun DEF Ready
  <2>2. Wait' = Wait
    BY <1>4 DEF Wait
  <2> QED BY <2>1, <2>2 DEF Sched!Yield, Wait
<1>5. CASE Create
  <2>1. PICK i \in Slot : /\ pstate[i] = "STOPPED"
                          /\ pstate' = [pstate EXCEPT ![i] = "READY"]
                          /\ readyQ' = Ready(readyQ, i)
    BY <1>5 DEF Create, FirstStopped
  <2>2. UNCHANGED <<cur, left>>
    BY <1>5 DEF Create
  <2>3. Sched!Wake(i)
    BY <1>3, <2>1, <2>2
  <2> QED BY <2>3, SchedNames DEF Sched!Next
<1>6. CASE Yield \/ \E len \in SleepLen : SleepNot(len)
  <2>1. RunNext(Ready(readyQ, cur)) /\ UNCHANGED <<pstate, left>>
    BY <1>6 DEF Yield, SleepNot
  <2> QED BY <1>4, <2>1 DEF Sched!Next
<1>7. CASE Stop \/ SigWait
  <2>1. PICK st \in {"STOPPED", "SIGWAIT"} : pstate' = [pstate EXCEPT ![cur] = st]
    BY <1>7 DEF Stop, SigWait
  <2>2. RunNext(readyQ) /\ cur # Idle /\ left' = left
    BY <1>7 DEF Stop, SigWait, User
  <2>3. Wait' = Wait
    BY <1>0, <1>1, <2>1, <2>2, WaitKept DEF ProcState
  <2>4. Sched!Run(readyQ)
    BY <1>0, <2>2, RunNextIsRun
  <2>5. Sched!Block
    BY <2>2, <2>3, <2>4, SchedNames DEF Sched!Block, Wait
  <2> QED BY <2>5 DEF Sched!Next
<1>8. ASSUME NEW len \in SleepLen, Sleep(len) PROVE Sched!Next
  <2>1. /\ RunNext(readyQ) /\ cur # Idle /\ len >= 1
        /\ left' = [left EXCEPT ![cur] = TicksOf(len)]
        /\ pstate' = [pstate EXCEPT ![cur] = "SLEEP"]
    BY <1>8 DEF Sleep, User
  <2> DEFINE n == TicksOf(len)
             Lengths == {TicksOf(l) : l \in SleepLen} \cap (Nat \ {0})
  <2>2. n \in Lengths
    <3>1. len \in Int /\ len >= 10
      BY <2>1 DEF NoShortSleep
    <3>2. n \in Nat \ {0}
      BY <3>1 DEF TicksOf
    <3> QED BY <3>2
  <2> HIDE DEF n
  <2>3. Wait' = [Wait EXCEPT ![cur] = n]
    BY <1>1, <2>1 DEF Wait, n
  <2>4. Sched!Run(readyQ)
    BY <1>0, <2>1, RunNextIsRun
  <2>5. Sched!Sleep(n)
    BY <2>1, <2>3, <2>4, SchedNames DEF Sched!Sleep, Wait
  <2> QED BY <2>2, <2>5 DEF Sched!Next
<1>9. ASSUME NEW v, Tick(v) PROVE Sched!Next
  <2> DEFINE S == {s \in Slot : Wait[s] = 1}
  <2>1. PICK w \in Seq(Slot) : Lists(w, S) /\ RunNext(Append(readyQ \o w, cur))
    BY <1>0, <1>9, TickWaits
  <2>2. Wait' = [s \in Slot |-> IF Wait[s] = 0 THEN 0 ELSE Wait[s] - 1]
    BY <1>0, <1>9, TickWaits
  <2>3. Sched!Run(Append(readyQ \o w, cur))
    BY <1>0, <2>1, RunNextIsRun
  <2>4. w \in Sched!Orders(S)
    BY <2>1, ListsInOrder
  <2>5. S = {p \in Sched!Proc : Wait[p] = 1}
    BY SchedNames
  <2>6. Sched!Tick
    BY <2>2, <2>3, <2>4, <2>5, SchedNames DEF Sched!Tick, Wait
  <2> QED BY <2>6 DEF Sched!Next
<1>10. CASE TimerRequest \/ \E eax \in Eax : Timer(eax)
  BY <1>9, <1>10 DEF TimerRequest, Timer
<1>11. ASSUME NEW t, NEW n, Kill(t, n)
       PROVE  Sched!Next \/ UNCHANGED <<cur, readyQ, Wait>>
  <2>1. PICK r \in Slot :
          IF SignalWakes(r)
          THEN /\ pstate' = [pstate EXCEPT ![r] = "READY"]
               /\ readyQ' = Ready(readyQ, r)
          ELSE UNCHANGED <<pstate, readyQ>>
    BY <1>11 DEF Kill
  <2>2. UNCHANGED <<cur, left>>
    BY <1>11 DEF Kill
  <2>3. CASE SignalWakes(r)
    <3>1. Sched!Wake(r)
      BY <1>3, <2>1, <2>2, <2>3 DEF SignalWakes
    <3> QED BY <3>1, SchedNames DEF Sched!Next
  <2>4. CASE ~SignalWakes(r)
    BY <1>2, <2>1, <2>2, <2>4
  <2> QED BY <2>3, <2>4
<1>12. ASSUME NEW t, NEW n, KillRefused(t, n) \/ KillUnused(n)
       PROVE  UNCHANGED <<cur, readyQ, Wait>>
  BY <1>2, <1>12 DEF KillRefused, KillUnused, Reply
<1>13. CASE \/ CreateFails \/ GetPid \/ Puts \/ Device \/ BadRequest \/ SigHandlerRefused
            \/ KeyboardRequest \/ SigReturnElsewhere \/ CallNull \/ Lost \/ UNCHANGED vars
            \/ \E sp \in 0 .. MaxFrames - 1 : SigReturn(sp)
            \/ \E n \in SigNum, h \in SigEntry : SigHandler(n, h)
            \/ \E eax \in Eax : Keyboard(eax)
  BY <1>2, <1>13 DEF CreateFails, GetPid, Puts, Device, BadRequest, SigHandlerRefused,
                     KeyboardRequest, SigReturnElsewhere, SigReturn, CallNull, Lost,
                     SigHandler, Keyboard, Reply, vars
<1> QED
  BY <1>5, <1>6, <1>7, <1>8, <1>10, <1>11, <1>12, <1>13 DEF Next, Request, Interrupt

(***************************************************************************)
(* Whatever the programs request and whenever the interrupts come, the     *)
(* processor goes round first come, first served, and every sleep ends at  *)
(* its tick, as long as no program sleeps for less than a tick.            *)
(***************************************************************************)
THEOREM DispatcherImplementsScheduler ==
  ASSUME NoShortSleep
  PROVE  Spec => ImplementsScheduler
<1>1. Init => TicksLeft /\ Sched!Init
  <2> SUFFICES ASSUME Init PROVE TicksLeft /\ Sched!Init
    OBVIOUS
  <2>1. cur = Idle /\ readyQ = <<1>> /\ \A s \in Slot : pstate[s] # "SLEEP"
    BY DEF Init
  <2>2. Wait = [s \in Slot |-> 0]
    BY <2>1 DEF Wait
  <2> QED BY <2>1, <2>2, SchedNames DEF TicksLeft, Sched!Init, Wait
<1>2. SchedInv /\ [Next]_vars => TicksLeft'
  BY NextTicksLeft
<1>3. SchedInv /\ SchedInv' /\ [Next]_vars => [Sched!Next]_(Sched!vars)
  BY NextImplements
<1>4. SchedInv <=> (TypeOK /\ Queues) /\ SleepSorted /\ TicksLeft
  BY DEF SchedInv
<1>5. Spec => Sched!Init /\ [][Sched!Next]_(Sched!vars)
  BY <1>1, <1>2, <1>3, <1>4, QueuesHold, SleepSortedHolds, PTL DEF Spec
<1> QED BY <1>5 DEF ImplementsScheduler, Sched!Spec
=============================================================================
