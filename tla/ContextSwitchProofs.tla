------------------------ MODULE ContextSwitchProofs -------------------------
(***************************************************************************)
(* What TLAPS proves about ContextSwitch, for any number of processes, any *)
(* nesting of entry points and any number of signal frames: its types,     *)
(* that nothing but sigreturn loses an eax, that a handler returns to the  *)
(* context the signal found, and that the timer never stays in service.    *)
(***************************************************************************)
EXTENDS ContextSwitch, QueueLemmas

USE ProcAssumption, CallAssumption, EaxAssumption, BoundAssumption
USE DEF procVars

\* Where the process p is or goes on, from the outermost context inwards.
Contexts(p) == IF p = cur THEN Append(stack[p], at) ELSE stack[p]

\* The processes that run or wait to run.
ReadyProc == {cur} \cup Range(readyQ)

(***************************************************************************)
(* s has one context of user code for the program and one for each of n    *)
(* signal frames, at the places b, and every request that waits for its    *)
(* cli was made by the context just below.                                 *)
(***************************************************************************)
Nested(s, n) ==
  /\ \A i \in 1 .. Len(s) : s[i] = "call" => i > 1 /\ s[i - 1] = "user"
  /\ \E b \in [0 .. n -> 1 .. Len(s)] :
       /\ b[0] = 1
       /\ \A j \in 0 .. n : b[j] > j /\ s[b[j]] = "user"
       /\ \A j, k \in 0 .. n : j < k => b[j] < b[k]
       /\ \A i \in 1 .. Len(s) : s[i] = "user" => \E j \in 0 .. n : b[j] = i

\* What a signal frame covers.
Cover == [owed : SUBSET Int, stack : Seq(Point)]

\* The contexts c are those of s with more on top, a frame's own first of all.
Above(c, s) ==
  Len(s) < Len(c) /\ c[Len(s) + 1] = "user" /\ \A i \in 1 .. Len(s) : c[i] = s[i]

(***************************************************************************)
(* Of a process with the contexts c: each of its frames, with the old_sp   *)
(* in f, still has what it covered, u, right below it, and below that what *)
(* the earlier frames cover.                                               *)
(***************************************************************************)
Kept(c, f, u) ==
  /\ Nested(c, Len(u)) /\ Len(f) = Len(u)
  /\ \A k \in 1 .. Len(u) :
       f[k] = Len(u[k].stack) /\ Nested(u[k].stack, k - 1) /\ Above(c, u[k].stack)
  /\ \A j, k \in 1 .. Len(u) : j < k => Above(u[k].stack, u[j].stack)

(***************************************************************************)
(* A process without a signal frame has not made a sigreturn: that would   *)
(* take from its stack what is not there.  A program's own eax may hold    *)
(* the number too, so it matters that an interrupted request is the only   *)
(* one under way.                                                          *)
(***************************************************************************)
ReturnHasFrame ==
  \A p \in ReadyProc :
    frames[p] = <<>> /\ "call" \in Range(Contexts(p)) => Register(p) # SIGRETURN

\* The inductive invariant.
Saved ==
  /\ cur \in Proc /\ at \in Point /\ stack \in [Proc -> Seq(Point)]
  /\ eax \in Int /\ ret \in [Proc -> Int]
  /\ isr \subseteq Irq
  /\ frames \in [Proc -> Seq(Nat)] /\ under \in [Proc -> Seq(Cover)]
  /\ owed \in [Proc -> SUBSET Int] /\ zeroed \in [Proc -> BOOLEAN]
  /\ readyQ \in Seq(Proc) /\ Lists(readyQ, Range(readyQ)) /\ cur \notin Range(readyQ)
  /\ \A p \in ReadyProc : Kept(Contexts(p), frames[p], under[p])
  /\ ReturnHasFrame
  /\ EaxLostBySigreturnOnly
  /\ TimerPrompt
-----------------------------------------------------------------------------
\* Stacks of contexts: what is put on one, and taken off.
LEMMA AppendContext ==
  ASSUME NEW s \in Seq(Point), NEW e \in Point
  PROVE  /\ Append(s, e) \in Seq(Point) /\ Len(Append(s, e)) = Len(s) + 1
         /\ \A i \in 1 .. Len(s) : Append(s, e)[i] = s[i]
         /\ Append(s, e)[Len(s) + 1] = e
         /\ Len(s) \in Nat
BY AppendProperties

\* The places of the user contexts, one above the other.
LEMMA NestedHeight ==
  ASSUME NEW n \in Nat, NEW s \in Seq(Point), Nested(s, n)
  PROVE  Len(s) > n
<1>1. PICK b \in [0 .. n -> 1 .. Len(s)] : \A j \in 0 .. n : b[j] > j
  BY DEF Nested
<1>2. n \in 0 .. n /\ Len(s) \in Nat
  OBVIOUS
<1> QED BY <1>1, <1>2

\* An interrupt, or a request made by user code.
LEMMA NestedEntry ==
  ASSUME NEW n \in Nat, NEW s \in Seq(Point), Nested(s, n), NEW e \in Entry,
         e = "call" => s[Len(s)] = "user"
  PROVE  Nested(Append(s, e), n)
<1> DEFINE m == Len(s)
           t == Append(s, e)
<1>1. /\ \A i \in 1 .. m : s[i] = "call" => i > 1 /\ s[i - 1] = "user"
      /\ m \in Nat
  BY DEF Nested
<1>2. PICK b \in [0 .. n -> 1 .. m] :
        /\ b[0] = 1
        /\ \A j \in 0 .. n : b[j] > j /\ s[b[j]] = "user"
        /\ \A j, k \in 0 .. n : j < k => b[j] < b[k]
        /\ \A i \in 1 .. m : s[i] = "user" => \E j \in 0 .. n : b[j] = i
  BY DEF Nested
<1>3. e \in Point /\ e # "user"
  BY DEF Point, Entry
<1>4. /\ Len(t) = m + 1 /\ \A i \in 1 .. m : t[i] = s[i]
      /\ t[m + 1] = e
  BY <1>3, AppendContext
<1>5. m > n
  BY NestedHeight
<1>e. e = "call" => s[m] = "user"
  OBVIOUS
<1> HIDE DEF m, t
<1>6. \A i \in 1 .. m + 1 : t[i] = "call" => i > 1 /\ t[i - 1] = "user"
  <2> SUFFICES ASSUME NEW i \in 1 .. m + 1, t[i] = "call"
               PROVE  i > 1 /\ t[i - 1] = "user"
    OBVIOUS
  <2>1. CASE i \in 1 .. m
    <3>1. i > 1 /\ s[i - 1] = "user" /\ i - 1 \in 1 .. m
      BY <2>1, <1>1, <1>4
    <3> QED BY <3>1, <1>4
  <2>2. CASE i = m + 1
    <3>1. m \in 1 .. m /\ i - 1 = m /\ i > 1
      BY <2>2, <1>1, <1>5
    <3> QED BY <2>2, <3>1, <1>4, <1>e
  <2> QED BY <2>1, <2>2, <1>1
<1>7. b \in [0 .. n -> 1 .. m + 1]
  BY <1>1
<1>8. \A j \in 0 .. n : b[j] > j /\ t[b[j]] = "user"
  BY <1>2, <1>4
<1>9. \A i \in 1 .. m + 1 : t[i] = "user" => \E j \in 0 .. n : b[j] = i
  <2> SUFFICES ASSUME NEW i \in 1 .. m + 1, t[i] = "user" PROVE \E j \in 0 .. n : b[j] = i
    OBVIOUS
  <2>1. i \in 1 .. m
    BY <1>1, <1>3, <1>4
  <2> QED BY <2>1, <1>2, <1>4
<1>10. Nested(t, n)
  <2>1. /\ \A i \in 1 .. Len(t) : t[i] = "call" => i > 1 /\ t[i - 1] = "user"
        /\ b \in [0 .. n -> 1 .. Len(t)]
        /\ \A i \in 1 .. Len(t) : t[i] = "user" => \E j \in 0 .. n : b[j] = i
    BY <1>4, <1>6, <1>7, <1>9
  <2> QED BY <1>2, <1>8, <2>1, Zenon DEF Nested
<1> QED BY <1>10 DEF t

\* signal(): a frame goes on top.
LEMMA NestedFrame ==
  ASSUME NEW n \in Nat, NEW s \in Seq(Point), Nested(s, n)
  PROVE  Nested(Framed(s), n + 1)
<1> DEFINE m == Len(s)
           t == Framed(s)
<1>1. /\ \A i \in 1 .. m : s[i] = "call" => i > 1 /\ s[i - 1] = "user"
      /\ m \in Nat
  BY DEF Nested
<1>2. PICK b \in [0 .. n -> 1 .. m] :
        /\ b[0] = 1
        /\ \A j \in 0 .. n : b[j] > j /\ s[b[j]] = "user"
        /\ \A j, k \in 0 .. n : j < k => b[j] < b[k]
        /\ \A i \in 1 .. m : s[i] = "user" => \E j \in 0 .. n : b[j] = i
  BY DEF Nested
<1>3. "user" \in Point
  BY DEF Point
<1>4. /\ Len(t) = m + 1 /\ \A i \in 1 .. m : t[i] = s[i]
      /\ t[m + 1] = "user"
  BY <1>3, AppendContext DEF Framed
<1>5. m > n
  BY NestedHeight
<1> DEFINE c == [j \in 0 .. n + 1 |-> IF j = n + 1 THEN m + 1 ELSE b[j]]
<1> HIDE DEF m, t
<1>6. \A i \in 1 .. m + 1 : t[i] = "call" => i > 1 /\ t[i - 1] = "user"
  <2> SUFFICES ASSUME NEW i \in 1 .. m + 1, t[i] = "call"
               PROVE  i > 1 /\ t[i - 1] = "user"
    OBVIOUS
  <2>0. i # m + 1
    BY <1>4
  <2>1. i \in 1 .. m
    BY <2>0, <1>1
  <2>2. i > 1 /\ s[i - 1] = "user" /\ i - 1 \in 1 .. m
    BY <2>1, <1>1, <1>4
  <2> QED BY <2>2, <1>4
<1>7. /\ \A j \in 0 .. n : c[j] = b[j] /\ c[j] \in 1 .. m
      /\ c[n + 1] = m + 1
      /\ \A j \in 0 .. n + 1 : j \in 0 .. n \/ j = n + 1
  OBVIOUS
<1>8. c \in [0 .. n + 1 -> 1 .. m + 1]
  BY <1>1
<1> HIDE DEF c
<1>9. c[0] = 1
  BY <1>2, <1>7
<1>10. \A j \in 0 .. n + 1 : c[j] > j /\ t[c[j]] = "user"
  <2> SUFFICES ASSUME NEW j \in 0 .. n + 1 PROVE c[j] > j /\ t[c[j]] = "user"
    OBVIOUS
  <2>1. CASE j \in 0 .. n
    BY <2>1, <1>2, <1>4, <1>7
  <2>2. CASE j = n + 1
    BY <2>2, <1>1, <1>4, <1>5, <1>7
  <2> QED BY <2>1, <2>2, <1>7
<1>11. \A j, k \in 0 .. n + 1 : j < k => c[j] < c[k]
  <2> SUFFICES ASSUME NEW j \in 0 .. n + 1, NEW k \in 0 .. n + 1, j < k
               PROVE  c[j] < c[k]
    OBVIOUS
  <2>1. j \in 0 .. n
    OBVIOUS
  <2>2. CASE k \in 0 .. n
    BY <2>1, <2>2, <1>2, <1>7
  <2>3. CASE k = n + 1
    BY <2>1, <2>3, <1>1, <1>7
  <2> QED BY <2>2, <2>3, <1>7
<1>12. \A i \in 1 .. m + 1 : t[i] = "user" => \E j \in 0 .. n + 1 : c[j] = i
  <2> SUFFICES ASSUME NEW i \in 1 .. m + 1, t[i] = "user"
               PROVE  \E j \in 0 .. n + 1 : c[j] = i
    OBVIOUS
  <2>1. CASE i = m + 1
    BY <2>1, <1>7
  <2>2. CASE i \in 1 .. m
    <3>1. PICK j \in 0 .. n : b[j] = i
      BY <2>2, <1>2, <1>4
    <3> QED BY <3>1, <1>7
  <2> QED BY <2>1, <2>2, <1>1
<1>13. Nested(t, n + 1)
  <2>1. /\ \A i \in 1 .. Len(t) : t[i] = "call" => i > 1 /\ t[i - 1] = "user"
        /\ c \in [0 .. n + 1 -> 1 .. Len(t)]
        /\ \A i \in 1 .. Len(t) : t[i] = "user" => \E j \in 0 .. n + 1 : c[j] = i
    BY <1>4, <1>6, <1>8, <1>12
  <2> QED BY <1>9, <1>10, <1>11, <2>1, Zenon DEF Nested
<1> QED BY <1>13 DEF t

\* An entry point is left.
LEMMA NestedPop ==
  ASSUME NEW n \in Nat, NEW s \in Seq(Point), NEW e \in Entry, Nested(Append(s, e), n)
  PROVE  Nested(s, n)
<1> DEFINE m == Len(s)
           t == Append(s, e)
<1>1. e \in Point /\ e # "user"
  BY DEF Point, Entry
<1>2. /\ Len(t) = m + 1 /\ \A i \in 1 .. m : t[i] = s[i]
      /\ t[m + 1] = e /\ m \in Nat
  BY <1>1, AppendContext
<1> HIDE DEF m, t
<1>n. Nested(t, n)
  BY DEF t
<1>3. \A i \in 1 .. m + 1 : t[i] = "call" => i > 1 /\ t[i - 1] = "user"
  BY <1>2, <1>n DEF Nested
<1>p. PICK b \in [0 .. n -> 1 .. Len(t)] :
        /\ b[0] = 1
        /\ \A j \in 0 .. n : b[j] > j /\ t[b[j]] = "user"
        /\ \A j, k \in 0 .. n : j < k => b[j] < b[k]
        /\ \A i \in 1 .. Len(t) : t[i] = "user" => \E j \in 0 .. n : b[j] = i
  BY <1>n, Zenon DEF Nested
<1>4. /\ b \in [0 .. n -> 1 .. m + 1] /\ b[0] = 1
      /\ \A j \in 0 .. n : b[j] > j /\ t[b[j]] = "user"
      /\ \A j, k \in 0 .. n : j < k => b[j] < b[k]
      /\ \A i \in 1 .. m + 1 : t[i] = "user" => \E j \in 0 .. n : b[j] = i
  BY <1>2, <1>p
<1>5. \A i \in 1 .. m : s[i] = "call" => i > 1 /\ s[i - 1] = "user"
  <2> SUFFICES ASSUME NEW i \in 1 .. m, s[i] = "call" PROVE i > 1 /\ s[i - 1] = "user"
    OBVIOUS
  <2>1. i \in 1 .. m + 1
    BY <1>2
  <2>2. i > 1 /\ t[i - 1] = "user"
    BY <2>1, <1>2, <1>3
  <2>3. i - 1 \in 1 .. m
    BY <2>2, <1>2
  <2> QED BY <2>2, <2>3, <1>2
<1>6. \A j \in 0 .. n : b[j] \in 1 .. m /\ b[j] > j /\ s[b[j]] = "user"
  <2> SUFFICES ASSUME NEW j \in 0 .. n
               PROVE  b[j] \in 1 .. m /\ b[j] > j /\ s[b[j]] = "user"
    OBVIOUS
  <2>1. b[j] \in 1 .. m + 1 /\ b[j] > j /\ t[b[j]] = "user"
    BY <1>4
  <2>2. b[j] # m + 1
    BY <2>1, <1>1, <1>2
  <2>3. b[j] \in 1 .. m
    BY <2>1, <2>2, <1>2
  <2> QED BY <2>1, <2>3, <1>2
<1>7. \A i \in 1 .. m : s[i] = "user" => \E j \in 0 .. n : b[j] = i
  <2> SUFFICES ASSUME NEW i \in 1 .. m, s[i] = "user" PROVE \E j \in 0 .. n : b[j] = i
    OBVIOUS
  <2>1. i \in 1 .. m + 1 /\ t[i] = "user"
    BY <1>2
  <2> QED BY <2>1, <1>4
<1>8. b \in [0 .. n -> 1 .. m]
  BY <1>4, <1>6
<1>9. /\ \A i \in 1 .. Len(s) : s[i] = "call" => i > 1 /\ s[i - 1] = "user"
      /\ b \in [0 .. n -> 1 .. Len(s)]
      /\ \A i \in 1 .. Len(s) : s[i] = "user" => \E j \in 0 .. n : b[j] = i
  BY <1>5, <1>7, <1>8 DEF m
<1>10. \A j \in 0 .. n : b[j] > j /\ s[b[j]] = "user"
  BY <1>6
<1> QED BY <1>4, <1>9, <1>10, Zenon DEF Nested

\* What is below a context stays below it when an entry point is entered,
LEMMA AboveEntry ==
  ASSUME NEW c \in Seq(Point), NEW s \in Seq(Point), Above(c, s), NEW e \in Point
  PROVE  Above(Append(c, e), s)
<1>1. /\ Len(Append(c, e)) = Len(c) + 1 /\ \A i \in 1 .. Len(c) : Append(c, e)[i] = c[i]
      /\ Len(c) \in Nat /\ Len(s) \in Nat
  BY AppendContext
<1> DEFINE t == Append(c, e)
<1>2. /\ Len(s) < Len(c) /\ c[Len(s) + 1] = "user"
      /\ \A i \in 1 .. Len(s) : c[i] = s[i]
  BY DEF Above
<1>3. Len(s) + 1 \in 1 .. Len(c) /\ \A i \in 1 .. Len(s) : i \in 1 .. Len(c)
  BY <1>1, <1>2
<1> QED BY <1>1, <1>2, <1>3 DEF Above

\* and when it is left: a frame's own context is one of user code.
LEMMA AbovePop ==
  ASSUME NEW c \in Seq(Point), NEW s \in Seq(Point), NEW e \in Entry,
         Above(Append(c, e), s)
  PROVE  Above(c, s)
<1>0. e \in Point /\ e # "user"
  BY DEF Point, Entry
<1> DEFINE t == Append(c, e)
<1>1. /\ Len(t) = Len(c) + 1 /\ \A i \in 1 .. Len(c) : t[i] = c[i]
      /\ t[Len(c) + 1] = e /\ Len(c) \in Nat /\ Len(s) \in Nat
  BY <1>0, AppendContext
<1>2. /\ Len(s) < Len(t) /\ t[Len(s) + 1] = "user"
      /\ \A i \in 1 .. Len(s) : t[i] = s[i]
  BY DEF Above
<1> HIDE DEF t
<1>3. Len(s) # Len(c)
  BY <1>0, <1>1, <1>2
<1>4. Len(s) < Len(c)
  BY <1>1, <1>2, <1>3
<1>5. Len(s) + 1 \in 1 .. Len(c) /\ \A i \in 1 .. Len(s) : i \in 1 .. Len(c)
  BY <1>1, <1>4
<1> QED BY <1>1, <1>2, <1>4, <1>5 DEF Above

\* What the frames of a process cover, one by one.
LEMMA Covers ==
  ASSUME NEW u \in Seq(Cover)
  PROVE  /\ Len(u) \in Nat
         /\ \A k \in 1 .. Len(u) : u[k] \in Cover /\ u[k].stack \in Seq(Point)
<1>1. \A c \in Cover : c.stack \in Seq(Point)
  BY DEF Cover
<1>2. Len(u) \in Nat /\ \A k \in 1 .. Len(u) : u[k] \in Cover
  OBVIOUS
<1> QED BY <1>1, <1>2

\* An interrupt, or a request made by user code.
LEMMA KeptEntry ==
  ASSUME NEW s \in Seq(Point), NEW f \in Seq(Nat), NEW u \in Seq(Cover), Kept(s, f, u),
         NEW e \in Entry, e = "call" => s[Len(s)] = "user"
  PROVE  Kept(Append(s, e), f, u)
<1>1. Len(u) \in Nat /\ e \in Point /\ \A k \in 1 .. Len(u) : u[k].stack \in Seq(Point)
  BY Covers DEF Point, Entry
<1>2. Nested(Append(s, e), Len(u))
  BY <1>1, NestedEntry DEF Kept
<1>3. \A k \in 1 .. Len(u) : Above(Append(s, e), u[k].stack)
  BY <1>1, AboveEntry DEF Kept
<1> QED BY <1>2, <1>3 DEF Kept

\* An entry point is left.
LEMMA KeptPop ==
  ASSUME NEW s \in Seq(Point), NEW f \in Seq(Nat), NEW u \in Seq(Cover), NEW e \in Entry,
         Kept(Append(s, e), f, u)
  PROVE  Kept(s, f, u)
<1>1. Len(u) \in Nat /\ \A k \in 1 .. Len(u) : u[k].stack \in Seq(Point)
  BY Covers
<1>2. Nested(s, Len(u))
  BY <1>1, NestedPop DEF Kept
<1>3. \A k \in 1 .. Len(u) : Above(s, u[k].stack)
  BY <1>1, AbovePop DEF Kept
<1> QED BY <1>2, <1>3 DEF Kept

\* signal(): a frame goes on top of the contexts s, and covers them.
LEMMA KeptFrame ==
  ASSUME NEW s \in Seq(Point), NEW f \in Seq(Nat), NEW u \in Seq(Cover), Kept(s, f, u),
         NEW c \in Cover, c.stack = s
  PROVE  /\ Kept(Framed(s), Append(f, Len(s)), Append(u, c))
         /\ Append(f, Len(s)) \in Seq(Nat) /\ Append(u, c) \in Seq(Cover)
         /\ Append(f, Len(s)) # <<>>
<1> DEFINE n == Len(u)
           t == Framed(s)
           g == Append(f, Len(s))
           w == Append(u, c)
<1>1. /\ Nested(s, n) /\ Len(f) = n /\ n \in Nat /\ Len(s) \in Nat
      /\ \A k \in 1 .. n : f[k] = Len(u[k].stack) /\ Nested(u[k].stack, k - 1)
                           /\ Above(s, u[k].stack) /\ u[k].stack \in Seq(Point)
      /\ \A j, k \in 1 .. n : j < k => Above(u[k].stack, u[j].stack)
  BY Covers DEF Kept
<1>2. Nested(t, n + 1)
  BY <1>1, NestedFrame
<1>3. /\ g \in Seq(Nat) /\ Len(g) = n + 1 /\ g[n + 1] = Len(s)
      /\ \A k \in 1 .. n : g[k] = f[k]
  BY <1>1, AppendProperties
<1>4. /\ w \in Seq(Cover) /\ Len(w) = n + 1 /\ w[n + 1] = c
      /\ \A k \in 1 .. n : w[k] = u[k]
  BY <1>1, AppendProperties
<1>5. "user" \in Point
  BY DEF Point
<1>6. \A k \in 1 .. n : Above(t, u[k].stack)
  BY <1>1, <1>5, AboveEntry DEF Framed
<1>7. Above(t, s)
  BY <1>5, AppendContext DEF Above, Framed
<1> HIDE DEF n, t, g, w
<1>8. \A k \in 1 .. n + 1 : k \in 1 .. n \/ k = n + 1
  BY <1>1
<1>9. \A k \in 1 .. n + 1 :
        g[k] = Len(w[k].stack) /\ Nested(w[k].stack, k - 1) /\ Above(t, w[k].stack)
  <2> TAKE k \in 1 .. n + 1
  <2>1. CASE k \in 1 .. n
    BY <1>1, <1>3, <1>4, <1>6, <2>1
  <2>2. CASE k = n + 1
    <3>1. k - 1 = n
      BY <1>1, <2>2
    <3> QED BY <1>1, <1>3, <1>4, <1>7, <2>2, <3>1
  <2> QED BY <1>8, <2>1, <2>2
<1>10. \A j, k \in 1 .. n + 1 : j < k => Above(w[k].stack, w[j].stack)
  <2> SUFFICES ASSUME NEW j \in 1 .. n + 1, NEW k \in 1 .. n + 1, j < k
               PROVE  Above(w[k].stack, w[j].stack)
    OBVIOUS
  <2>1. j \in 1 .. n
    BY <1>1
  <2>2. CASE k \in 1 .. n
    BY <1>1, <1>4, <2>1, <2>2
  <2>3. CASE k = n + 1
    BY <1>1, <1>4, <2>1, <2>3
  <2> QED BY <1>8, <2>2, <2>3
<1>11. Kept(t, g, w)
  BY <1>2, <1>3, <1>4, <1>9, <1>10 DEF Kept
<1>12. g # <<>>
  BY <1>1, <1>3
<1> QED BY <1>3, <1>4, <1>11, <1>12 DEF t, g, w

\* sigreturn: at the old_sp of the topmost frame is what the frame covers.
LEMMA KeptUnframe ==
  ASSUME NEW s \in Seq(Point), NEW f \in Seq(Nat), NEW u \in Seq(Cover), Kept(s, f, u),
         f # <<>>
  PROVE  /\ u # <<>> /\ Last(u) \in Cover
         /\ Unwound(s, Last(f)) = Last(u).stack
         /\ Kept(Last(u).stack, Front(f), Front(u))
         /\ Front(f) \in Seq(Nat) /\ Front(u) \in Seq(Cover)
         /\ Range(Last(u).stack) \subseteq Range(s)
<1> DEFINE n == Len(u)
           c == u[n].stack
           h == Len(c)
           g == Front(f)
           w == Front(u)
<1>1. /\ Len(f) = n /\ n \in Nat /\ Len(f) # 0 /\ Len(s) \in Nat
      /\ \A k \in 1 .. n : /\ f[k] = Len(u[k].stack) /\ Nested(u[k].stack, k - 1)
                           /\ Above(s, u[k].stack) /\ u[k].stack \in Seq(Point)
                           /\ u[k] \in Cover
      /\ \A j, k \in 1 .. n : j < k => Above(u[k].stack, u[j].stack)
  <2>1. n \in Nat /\ \A k \in 1 .. n : u[k] \in Cover /\ u[k].stack \in Seq(Point)
    BY Covers
  <2>2. /\ Len(f) = n
        /\ \A k \in 1 .. n :
             f[k] = Len(u[k].stack) /\ Nested(u[k].stack, k - 1) /\ Above(s, u[k].stack)
        /\ \A j, k \in 1 .. n : j < k => Above(u[k].stack, u[j].stack)
    BY Zenon DEF Kept
  <2>3. Len(f) # 0 /\ Len(s) \in Nat
    OBVIOUS
  <2> QED BY <2>1, <2>2, <2>3, Zenon
<1>2. n \in 1 .. n /\ n - 1 \in 0 .. n /\ n - 1 \in Nat
  BY <1>1
<1>3. /\ u # <<>> /\ Last(u) = u[n] /\ Last(f) = h /\ c \in Seq(Point) /\ u[n] \in Cover
      /\ Above(s, c) /\ Nested(c, n - 1) /\ h \in Nat
  BY <1>1, <1>2 DEF Last
<1>4. h \in 0 .. Len(s) /\ \A i \in 1 .. h : s[i] = c[i]
  BY <1>1, <1>3 DEF Above
<1>5. Unwound(s, h) = c
  <2> HIDE DEF h, c
  <2>1. /\ SubSeq(s, 1, h) \in Seq(Point) /\ Len(SubSeq(s, 1, h)) = h
        /\ \A i \in 1 .. h : SubSeq(s, 1, h)[i] = s[i]
    BY <1>4, SplitElements
  <2>2. \A i \in 1 .. h : SubSeq(s, 1, h)[i] = c[i]
    BY <1>4, <2>1
  <2>3. Len(c) = h
    BY DEF h
  <2> QED BY <1>3, <2>1, <2>2, <2>3 DEF Unwound
<1>6. /\ g \in Seq(Nat) /\ Len(g) = n - 1 /\ \A k \in 1 .. n - 1 : g[k] = f[k]
  <2> DEFINE k == n - 1
  <2>1. k \in 0 .. Len(f)
    BY <1>1, <1>2
  <2> HIDE DEF k
  <2>2. /\ SubSeq(f, 1, k) \in Seq(Nat) /\ Len(SubSeq(f, 1, k)) = k
        /\ \A i \in 1 .. k : SubSeq(f, 1, k)[i] = f[i]
    BY <2>1, SplitElements
  <2> QED BY <1>1, <2>2 DEF Front, k
<1>7. /\ w \in Seq(Cover) /\ Len(w) = n - 1 /\ \A k \in 1 .. n - 1 : w[k] = u[k]
  <2> DEFINE k == n - 1
  <2>1. k \in 0 .. Len(u)
    BY <1>1, <1>2
  <2> HIDE DEF k
  <2>2. /\ SubSeq(u, 1, k) \in Seq(Cover) /\ Len(SubSeq(u, 1, k)) = k
        /\ \A i \in 1 .. k : SubSeq(u, 1, k)[i] = u[i]
    BY <2>1, SplitElements
  <2> QED BY <2>2 DEF Front, k
<1>8. Range(c) \subseteq Range(s)
  <2>1. \A i \in 1 .. h : i \in 1 .. Len(s) /\ s[i] = c[i]
    BY <1>1, <1>3, <1>4
  <2>2. DOMAIN c = 1 .. h /\ DOMAIN s = 1 .. Len(s)
    BY <1>3
  <2> HIDE DEF h, c
  <2> QED BY <2>1, <2>2 DEF Range
<1> HIDE DEF n, h, c, g, w
<1>9. \A k \in 1 .. n - 1 : k \in 1 .. n /\ k < n
  BY <1>1
<1>10. \A k \in 1 .. n - 1 :
         g[k] = Len(w[k].stack) /\ Nested(w[k].stack, k - 1) /\ Above(c, w[k].stack)
  BY <1>1, <1>2, <1>6, <1>7, <1>9 DEF c
<1>11. \A j, k \in 1 .. n - 1 : j < k => Above(w[k].stack, w[j].stack)
  BY <1>1, <1>7, <1>9
<1>12. Kept(c, g, w)
  BY <1>3, <1>6, <1>7, <1>10, <1>11 DEF Kept
<1> QED BY <1>3, <1>5, <1>6, <1>7, <1>8, <1>12 DEF c, g, w

\* Without a frame, the only context of user code is the outermost.
LEMMA NestedBottom ==
  ASSUME NEW s \in Seq(Point), Nested(s, 0)
  PROVE  \A i \in 1 .. Len(s) : s[i] = "user" => i = 1
BY DEF Nested

\* The place below a request is the user code that made it.
LEMMA NestedCall ==
  ASSUME NEW n \in Nat, NEW s \in Seq(Point), Nested(Append(s, "call"), n)
  PROVE  /\ Nested(s, n) /\ Len(s) > n /\ s[Len(s)] = "user"
         /\ n = 0 => "call" \notin Range(s)
<1>1. "call" \in Entry /\ "call" \in Point
  BY DEF Entry, Point
<1>2. Nested(s, n)
  BY <1>1, NestedPop
<1>3. Len(s) > n
  BY <1>2, NestedHeight
<1>4. s[Len(s)] = "user"
  <2> DEFINE m == Len(s)
             t == Append(s, "call")
  <2>1. /\ Len(t) = m + 1 /\ \A i \in 1 .. m : t[i] = s[i]
        /\ t[m + 1] = "call" /\ m \in Nat
    BY <1>1, AppendContext
  <2> HIDE DEF m, t
  <2>2. \A i \in 1 .. m + 1 : t[i] = "call" => i > 1 /\ t[i - 1] = "user"
    BY <2>1 DEF Nested, t
  <2>3. m + 1 \in 1 .. m + 1 /\ (m + 1) - 1 = m /\ m \in 1 .. m
    BY <1>3, <2>1 DEF m
  <2>4. t[m] = "user"
    BY <2>1, <2>2, <2>3
  <2>5. s[m] = "user"
    BY <2>1, <2>3, <2>4
  <2> QED BY <2>5 DEF m
<1>5. ASSUME n = 0 PROVE "call" \notin Range(s)
  <2> SUFFICES ASSUME NEW i \in 1 .. Len(s), s[i] = "call" PROVE FALSE
    BY DEF Range
  <2>0. Len(s) \in Nat
    OBVIOUS
  <2>1. i > 1 /\ s[i - 1] = "user"
    BY <1>2 DEF Nested
  <2>2. Len(s) \in 1 .. Len(s)
    BY <1>3, <2>0
  <2>3. Len(s) = 1
    BY <1>2, <1>4, <1>5, <2>2, NestedBottom
  <2> QED BY <2>1, <2>3
<1> QED BY <1>2, <1>3, <1>4, <1>5
-----------------------------------------------------------------------------
(***************************************************************************)
(* contextswitch(): the process p goes on in the context on top of its     *)
(* stack, and every process is, or will be, where its stack in st says,    *)
(* with eax as r says.                                                     *)
(***************************************************************************)
LEMMA ResumedContexts ==
  ASSUME NEW p \in Proc, NEW q, NEW r \in [Proc -> Int],
         NEW st \in [Proc -> Seq(Point)], st[p] # <<>>, Resume(p, q, r, st)
  PROVE  /\ cur' = p /\ readyQ' = q /\ ret' = r /\ eax' \in Int
         /\ stack' \in [Proc -> Seq(Point)] /\ at' \in Point
         /\ at' \in Range(st[p])
         /\ \A x \in Proc : /\ Contexts(x)' = st[x]
                            /\ Register(x)' = r[x]
                            /\ Range(stack'[x]) \subseteq Range(st[x])
<1>1. /\ cur' = p /\ readyQ' = q /\ ret' = r /\ eax' = r[p]
      /\ at' = Last(st[p])
      /\ stack' = [st EXCEPT ![p] = Front(st[p])]
  BY DEF Resume
<1>2. st[p] \in Seq(Point)
  OBVIOUS
<1>3. /\ Front(st[p]) \in Seq(Point) /\ Last(st[p]) \in Point
      /\ Append(Front(st[p]), Last(st[p])) = st[p]
      /\ Last(st[p]) \in Range(st[p]) /\ Range(Front(st[p])) \subseteq Range(st[p])
  BY <1>2, FrontLast
<1>4. stack' \in [Proc -> Seq(Point)]
  BY <1>1, <1>3
<1>5. ASSUME NEW x \in Proc
      PROVE  /\ Contexts(x)' = st[x]
             /\ Register(x)' = r[x]
             /\ Range(stack'[x]) \subseteq Range(st[x])
  <2>1. CASE x = p
    <3>1. stack'[x] = Front(st[p])
      BY <1>1, <2>1
    <3>2. Contexts(x)' = Append(Front(st[p]), Last(st[p]))
      BY <1>1, <2>1, <3>1 DEF Contexts
    <3> QED BY <1>1, <1>3, <2>1, <3>1, <3>2 DEF Register
  <2>2. CASE x # p
    <3>1. stack'[x] = st[x]
      BY <1>1, <2>2
    <3> QED BY <1>1, <2>2, <3>1 DEF Contexts, Register
  <2> QED BY <2>1, <2>2
<1>6. eax' \in Int
  BY <1>1
<1> QED BY <1>1, <1>3, <1>4, <1>5, <1>6

(***************************************************************************)
(* What a turn of dispatch() has to see to: it leaves the contexts st,     *)
(* resumes p and lets the processes of q wait, with r in pcb.ret.          *)
(***************************************************************************)
Turned(p, q, r, st) ==
  /\ Resume(p, q, r, st)
  /\ p \in Proc /\ p \notin Range(q) /\ Lists(q, Range(q)) /\ Range(q) \subseteq Proc
  /\ r \in [Proc -> Int] /\ st \in [Proc -> Seq(Point)]
  /\ isr' \subseteq Irq /\ 0 \notin isr'
  /\ frames' \in [Proc -> Seq(Nat)] /\ under' \in [Proc -> Seq(Cover)]
  /\ owed' \in [Proc -> SUBSET Int] /\ zeroed' \in [Proc -> BOOLEAN]
  /\ \A x \in Proc : "timer" \notin Range(st[x])
  /\ \A x \in {p} \cup Range(q) :
       /\ Kept(st[x], frames'[x], under'[x])
       /\ frames'[x] = <<>> /\ "call" \in Range(st[x]) => r[x] # SIGRETURN
       /\ \A v \in owed'[x] : r[x] = IF zeroed'[x] THEN 0 ELSE v

\* A turn that ends in Turned keeps the invariant.
LEMMA TurnSaves ==
  ASSUME NEW p, NEW q, NEW r, NEW st, Turned(p, q, r, st)
  PROVE  Saved'
<1>1. /\ Resume(p, q, r, st)
      /\ p \in Proc /\ p \notin Range(q) /\ Lists(q, Range(q)) /\ Range(q) \subseteq Proc
      /\ r \in [Proc -> Int] /\ st \in [Proc -> Seq(Point)]
      /\ isr' \subseteq Irq /\ 0 \notin isr'
      /\ frames' \in [Proc -> Seq(Nat)] /\ under' \in [Proc -> Seq(Cover)]
      /\ owed' \in [Proc -> SUBSET Int] /\ zeroed' \in [Proc -> BOOLEAN]
      /\ \A x \in Proc : "timer" \notin Range(st[x])
  BY DEF Turned
<1>2. \A x \in {p} \cup Range(q) :
        /\ Kept(st[x], frames'[x], under'[x])
        /\ frames'[x] = <<>> /\ "call" \in Range(st[x]) => r[x] # SIGRETURN
        /\ \A v \in owed'[x] : r[x] = IF zeroed'[x] THEN 0 ELSE v
  BY DEF Turned
<1>3. st[p] # <<>>
  <2>1. /\ st[p] \in Seq(Point) /\ Nested(st[p], Len(under'[p]))
        /\ Len(under'[p]) \in Nat
    BY <1>1, <1>2 DEF Kept
  <2>2. Len(st[p]) > Len(under'[p])
    BY <2>1, NestedHeight
  <2> QED BY <2>1, <2>2
<1>4. /\ cur' = p /\ readyQ' = q /\ ret' = r /\ eax' \in Int
      /\ stack' \in [Proc -> Seq(Point)] /\ at' \in Point
      /\ at' \in Range(st[p])
      /\ \A x \in Proc : /\ Contexts(x)' = st[x]
                         /\ Register(x)' = r[x]
                         /\ Range(stack'[x]) \subseteq Range(st[x])
  BY <1>1, <1>3, ResumedContexts
<1>5. readyQ' \in Seq(Proc)
  <2>1. q \in Seq(Range(q))
    BY <1>1, ListsFacts
  <2>2. q \in Seq(Proc)
    BY <1>1, <2>1, SeqMonotonic
  <2> QED BY <1>4, <2>2
<1>6. ReadyProc' = {p} \cup Range(q) /\ ReadyProc' \subseteq Proc
  BY <1>1, <1>4 DEF ReadyProc
<1>7. \A x \in ReadyProc' : Kept(Contexts(x)', frames'[x], under'[x])
  BY <1>2, <1>4, <1>6
<1>8. ReturnHasFrame'
  BY <1>2, <1>4, <1>6 DEF ReturnHasFrame
<1>9. EaxLostBySigreturnOnly'
  BY <1>2, <1>4, <1>6 DEF EaxLostBySigreturnOnly, EaxFor, ReadyProc
<1>10. TimerPrompt'
  BY <1>1, <1>4 DEF TimerPrompt
<1> QED BY <1>1, <1>4, <1>5, <1>7, <1>8, <1>9, <1>10 DEF Saved
-----------------------------------------------------------------------------
\* What one more context adds to those on a stack.
LEMMA AppendRange ==
  ASSUME NEW s \in Seq(Point), NEW e \in Point
  PROVE  Range(Append(s, e)) = Range(s) \cup {e}
<1> DEFINE m == Len(s)
           t == Append(s, e)
<1>1. /\ t \in Seq(Point) /\ Len(t) = m + 1 /\ \A i \in 1 .. m : t[i] = s[i]
      /\ t[m + 1] = e /\ m \in Nat
  BY AppendContext
<1>2. DOMAIN s = 1 .. m /\ DOMAIN t = 1 .. m + 1
  BY <1>1
<1> HIDE DEF m, t
<1>3. \A i \in 1 .. m : i \in 1 .. m + 1
  BY <1>1
<1>4. m + 1 \in 1 .. m + 1 /\ \A i \in 1 .. m + 1 : i \in 1 .. m \/ i = m + 1
  BY <1>1
<1>5. Range(s) \cup {e} \subseteq Range(t)
  BY <1>1, <1>2, <1>3, <1>4 DEF Range
<1>6. Range(t) \subseteq Range(s) \cup {e}
  BY <1>1, <1>2, <1>4 DEF Range
<1> QED BY <1>5, <1>6 DEF t

\* The processes that wait: they stay as they are while another one runs.
LEMMA WaitersSaved ==
  ASSUME Saved, NEW x \in Range(readyQ)
  PROVE  /\ x \in Proc /\ x # cur
         /\ Kept(stack[x], frames[x], under[x])
         /\ frames[x] = <<>> /\ "call" \in Range(stack[x]) => ret[x] # SIGRETURN
         /\ \A v \in owed[x] : ret[x] = IF zeroed[x] THEN 0 ELSE v
<1>1. x \in Proc
  BY RangeOfSeq DEF Saved
<1>2. x # cur /\ x \in ReadyProc
  BY DEF Saved, ReadyProc
<1>3. Contexts(x) = stack[x] /\ Register(x) = ret[x]
  BY <1>2 DEF Contexts, Register
<1>4. Kept(Contexts(x), frames[x], under[x])
  BY <1>2 DEF Saved
<1>5. frames[x] = <<>> /\ "call" \in Range(Contexts(x)) => Register(x) # SIGRETURN
  BY <1>2 DEF Saved, ReturnHasFrame
<1>6. \A v \in owed[x] : Register(x) = IF zeroed[x] THEN 0 ELSE v
  BY DEF Saved, EaxLostBySigreturnOnly, EaxFor
<1> QED BY <1>1, <1>2, <1>3, <1>4, <1>5, <1>6

\* The process that runs, at an entry point it is about to leave.
LEMMA RunnerSaved ==
  ASSUME Saved, at \in Entry
  PROVE  /\ cur \in Proc /\ stack[cur] \in Seq(Point)
         /\ Kept(stack[cur], frames[cur], under[cur])
         /\ frames[cur] = <<>> /\ "call" \in Range(stack[cur]) => eax # SIGRETURN
         /\ \A v \in owed[cur] : eax = IF zeroed[cur] THEN 0 ELSE v
<1>1. /\ cur \in Proc /\ stack[cur] \in Seq(Point) /\ at \in Point
      /\ cur \in ReadyProc /\ frames[cur] \in Seq(Nat) /\ under[cur] \in Seq(Cover)
  BY DEF Saved, ReadyProc
<1>2. Contexts(cur) = Append(stack[cur], at) /\ Register(cur) = eax
  BY DEF Contexts, Register
<1>3. Kept(Contexts(cur), frames[cur], under[cur])
  BY <1>1 DEF Saved
<1>4. Kept(Append(stack[cur], at), frames[cur], under[cur])
  BY <1>2, <1>3
<1>5. Kept(stack[cur], frames[cur], under[cur])
  BY <1>1, <1>4, KeptPop
<1>6. Range(stack[cur]) \subseteq Range(Contexts(cur))
  BY <1>1, <1>2, AppendRange
<1>7. frames[cur] = <<>> /\ "call" \in Range(Contexts(cur)) => Register(cur) # SIGRETURN
  BY <1>1 DEF Saved, ReturnHasFrame
<1>8. \A v \in owed[cur] : Register(cur) = IF zeroed[cur] THEN 0 ELSE v
  BY DEF Saved, EaxLostBySigreturnOnly, EaxFor
<1> QED BY <1>1, <1>2, <1>5, <1>6, <1>7, <1>8

\* A request is dispatched: it was made by user code, and is the only one
\* under way if there is no signal frame.
LEMMA RequestSaved ==
  ASSUME Saved, at = "call"
  PROVE  /\ frames[cur] = <<>> => "call" \notin Range(stack[cur])
         /\ frames[cur] = <<>> => eax # SIGRETURN
         /\ 0 \notin isr
<1>1. /\ cur \in Proc /\ stack[cur] \in Seq(Point)
      /\ cur \in ReadyProc /\ Len(under[cur]) \in Nat /\ frames[cur] \in Seq(Nat)
      /\ "call" \in Point
  BY DEF Saved, ReadyProc, Point, Entry
<1>2. Contexts(cur) = Append(stack[cur], "call") /\ Register(cur) = eax
  BY DEF Contexts, Register
<1>3. Nested(Contexts(cur), Len(under[cur])) /\ Len(frames[cur]) = Len(under[cur])
  BY <1>1 DEF Saved, Kept
<1>4. Nested(Append(stack[cur], "call"), Len(under[cur]))
  BY <1>2, <1>3
<1>5. Len(under[cur]) = 0 => "call" \notin Range(stack[cur])
  BY <1>1, <1>4, NestedCall
<1>6. "call" \in Range(Contexts(cur))
  BY <1>1, <1>2, AppendRange
<1>7. frames[cur] = <<>> /\ "call" \in Range(Contexts(cur)) => Register(cur) # SIGRETURN
  BY <1>1 DEF Saved, ReturnHasFrame
<1>8. frames[cur] = <<>> => Len(under[cur]) = 0
  BY <1>1, <1>3
<1>9. 0 \notin isr
  BY DEF Saved, TimerPrompt
<1> QED BY <1>2, <1>5, <1>6, <1>7, <1>8, <1>9

\* ready(p) and next(): everyone who ran or waited runs or waits.
LEMMA Rotated ==
  ASSUME Saved
  PROVE  LET q == Append(readyQ, cur)
         IN  /\ q # <<>>
             /\ Head(q) \in Proc /\ Head(q) \notin Range(Tail(q))
             /\ Lists(Tail(q), Range(Tail(q))) /\ Range(Tail(q)) \subseteq Proc
             /\ {Head(q)} \cup Range(Tail(q)) = ReadyProc
<1> DEFINE q == Append(readyQ, cur)
<1>1. /\ readyQ \in Seq(Proc) /\ cur \in Proc /\ cur \notin Range(readyQ)
      /\ Lists(readyQ, Range(readyQ))
  BY DEF Saved
<1>2. q # <<>>
  BY <1>1, AppendProperties
<1>3. Lists(q, Range(readyQ) \cup {cur})
  BY <1>1, ListsAppend
<1>4. Lists(q, ReadyProc)
  <2>1. Range(readyQ) \cup {cur} = ReadyProc
    BY DEF ReadyProc
  <2> QED BY <1>3, <2>1
<1>5. Head(q) \in ReadyProc /\ Lists(Tail(q), ReadyProc \ {Head(q)})
  BY <1>2, <1>4, ListsTail
<1>6. Range(Tail(q)) = ReadyProc \ {Head(q)}
  BY <1>5 DEF Lists
<1>7. ReadyProc \subseteq Proc
  BY <1>1, RangeOfSeq DEF ReadyProc
<1> QED BY <1>2, <1>5, <1>6, <1>7
-----------------------------------------------------------------------------
\* The turns of dispatch(), one by one.
LEMMA SavedTypes ==
  ASSUME Saved
  PROVE  /\ cur \in Proc /\ stack \in [Proc -> Seq(Point)]
         /\ eax \in Int /\ ret \in [Proc -> Int] /\ isr \subseteq Irq
         /\ frames \in [Proc -> Seq(Nat)] /\ under \in [Proc -> Seq(Cover)]
         /\ owed \in [Proc -> SUBSET Int] /\ zeroed \in [Proc -> BOOLEAN]
         /\ Range(readyQ) \subseteq Proc /\ Lists(readyQ, Range(readyQ))
         /\ cur \notin Range(readyQ)
         /\ \A x \in Proc : "timer" \notin Range(stack[x])
BY RangeOfSeq DEF Saved, TimerPrompt

\* The timer's turn: the process it stopped queues with its eax in ret.
LEMMA TimerTurnSaved ==
  ASSUME Saved, TimerTurn
  PROVE  Saved'
<1> DEFINE q == Append(readyQ, cur)
           r == EaxSaved
<1>1. /\ q # <<>>
      /\ Head(q) \in Proc /\ Head(q) \notin Range(Tail(q))
      /\ Lists(Tail(q), Range(Tail(q))) /\ Range(Tail(q)) \subseteq Proc
      /\ {Head(q)} \cup Range(Tail(q)) = ReadyProc
  BY Rotated
<1>2. at = "timer" /\ Resume(Head(q), Tail(q), r, stack)
      /\ isr' = EndOfIntr(isr) /\ UNCHANGED <<frames, owed, zeroed, under>>
  BY DEF TimerTurn, Rotate, RunNext
<1>3. at \in Entry
  BY <1>2 DEF Entry
<1>4. r \in [Proc -> Int] /\ r[cur] = eax /\ \A x \in Proc \ {cur} : r[x] = ret[x]
  BY SavedTypes DEF EaxSaved
<1>5. isr' \subseteq Irq /\ 0 \notin isr'
  <2>1. isr' = {j \in isr : \E i \in isr : i < j}
    BY <1>2 DEF EndOfIntr
  <2>2. \A i \in isr : i \in {0, 1}
    BY SavedTypes DEF Irq
  <2>3. 0 \notin isr'
    BY <2>1, <2>2
  <2> QED BY <2>1, <2>3, SavedTypes
<1> HIDE DEF q, r
<1>6. \A x \in ReadyProc :
        /\ Kept(stack[x], frames'[x], under'[x])
        /\ frames'[x] = <<>> /\ "call" \in Range(stack[x]) => r[x] # SIGRETURN
        /\ \A v \in owed'[x] : r[x] = IF zeroed'[x] THEN 0 ELSE v
  <2> TAKE x \in ReadyProc
  <2>1. CASE x = cur
    BY <1>2, <1>3, <1>4, <2>1, RunnerSaved
  <2>2. CASE x \in Range(readyQ)
    BY <1>2, <1>4, <2>2, WaitersSaved
  <2> QED BY <2>1, <2>2 DEF ReadyProc
<1>7. Turned(Head(q), Tail(q), r, stack)
  BY <1>1, <1>2, <1>4, <1>5, <1>6, SavedTypes DEF Turned
<1> QED BY <1>7, TurnSaves

\* The interrupted process goes on at once.
LEMMA KeyboardTurnSaved ==
  ASSUME Saved, KeyboardTurn
  PROVE  Saved'
<1> DEFINE r == EaxSaved
<1>2. at = "keyboard" /\ Resume(cur, readyQ, r, stack)
      /\ isr' = EndOfIntr(isr) /\ UNCHANGED <<frames, owed, zeroed, under>>
  BY DEF KeyboardTurn
<1>3. at \in Entry
  BY <1>2 DEF Entry
<1>4. r \in [Proc -> Int] /\ r[cur] = eax /\ \A x \in Proc \ {cur} : r[x] = ret[x]
  BY SavedTypes DEF EaxSaved
<1>5. isr' \subseteq Irq /\ 0 \notin isr'
  BY <1>2 DEF Saved, TimerPrompt, EndOfIntr
<1> HIDE DEF r
<1>6. \A x \in {cur} \cup Range(readyQ) :
        /\ Kept(stack[x], frames'[x], under'[x])
        /\ frames'[x] = <<>> /\ "call" \in Range(stack[x]) => r[x] # SIGRETURN
        /\ \A v \in owed'[x] : r[x] = IF zeroed'[x] THEN 0 ELSE v
  <2> TAKE x \in {cur} \cup Range(readyQ)
  <2>1. CASE x = cur
    BY <1>2, <1>3, <1>4, <2>1, RunnerSaved
  <2>2. CASE x \in Range(readyQ)
    BY <1>2, <1>4, <2>2, WaitersSaved
  <2> QED BY <2>1, <2>2
<1>7. Turned(cur, readyQ, r, stack)
  BY <1>2, <1>4, <1>5, <1>6, SavedTypes DEF Turned
<1> QED BY <1>7, TurnSaves

\* A request that lets the next process run: yield, and SYS_TIMER.
LEMMA RotateSaved ==
  ASSUME Saved, at = "call", Rotate(ret), isr' \subseteq isr,
         Promise(cur, {}), UNCHANGED <<frames, under>>
  PROVE  Saved'
<1> DEFINE q == Append(readyQ, cur)
<1>1. /\ q # <<>>
      /\ Head(q) \in Proc /\ Head(q) \notin Range(Tail(q))
      /\ Lists(Tail(q), Range(Tail(q))) /\ Range(Tail(q)) \subseteq Proc
      /\ {Head(q)} \cup Range(Tail(q)) = ReadyProc
  BY Rotated
<1>2. Resume(Head(q), Tail(q), ret, stack)
  BY DEF Rotate, RunNext
<1>3. at \in Entry
  BY DEF Entry
<1>5. isr' \subseteq Irq /\ 0 \notin isr'
  BY RequestSaved, SavedTypes
<1> HIDE DEF q
<1>7. /\ owed' \in [Proc -> SUBSET Int] /\ owed'[cur] = {} /\ zeroed' \in [Proc -> BOOLEAN]
      /\ \A x \in Proc \ {cur} : owed'[x] = owed[x] /\ zeroed'[x] = zeroed[x]
  BY SavedTypes DEF Promise
<1>6. \A x \in ReadyProc :
        /\ Kept(stack[x], frames'[x], under'[x])
        /\ frames'[x] = <<>> /\ "call" \in Range(stack[x]) => ret[x] # SIGRETURN
        /\ \A v \in owed'[x] : ret[x] = IF zeroed'[x] THEN 0 ELSE v
  <2> TAKE x \in ReadyProc
  <2>1. CASE x = cur
    <3>1. owed'[x] = {}
      BY <2>1, <1>7
    <3> QED BY <1>3, <2>1, <3>1, RunnerSaved, RequestSaved
  <2>2. CASE x \in Range(readyQ)
    <3>1. owed'[x] = owed[x] /\ zeroed'[x] = zeroed[x]
      BY <2>2, <1>7, WaitersSaved
    <3> QED BY <2>2, <3>1, WaitersSaved
  <2> QED BY <2>1, <2>2 DEF ReadyProc
<1>8. Turned(Head(q), Tail(q), ret, stack)
  BY <1>1, <1>2, <1>5, <1>6, <1>7, SavedTypes DEF Turned
<1> QED BY <1>8, TurnSaves

\* A request after which the caller goes on, with r in pcb.ret.
LEMMA AnswerSaved ==
  ASSUME Saved, at = "call", NEW r \in [Proc -> Int], Resume(cur, readyQ, r, stack),
         \A x \in Proc \ {cur} : r[x] = ret[x],
         NEW o \in SUBSET Int, \A v \in o : r[cur] = v, isr' \subseteq isr,
         Promise(cur, o), UNCHANGED <<frames, under>>
  PROVE  Saved'
<1>3. at \in Entry
  BY DEF Entry
<1>5. isr' \subseteq Irq /\ 0 \notin isr'
  BY RequestSaved, SavedTypes
<1>6. /\ owed' \in [Proc -> SUBSET Int] /\ owed'[cur] = o
      /\ zeroed' \in [Proc -> BOOLEAN] /\ zeroed'[cur] = FALSE
      /\ \A x \in Proc \ {cur} : owed'[x] = owed[x] /\ zeroed'[x] = zeroed[x]
  BY SavedTypes DEF Promise
<1>7. \A x \in {cur} \cup Range(readyQ) :
        /\ Kept(stack[x], frames'[x], under'[x])
        /\ frames'[x] = <<>> /\ "call" \in Range(stack[x]) => r[x] # SIGRETURN
        /\ \A w \in owed'[x] : r[x] = IF zeroed'[x] THEN 0 ELSE w
  <2> TAKE x \in {cur} \cup Range(readyQ)
  <2>1. CASE x = cur
    BY <1>3, <1>6, <2>1, RunnerSaved, RequestSaved
  <2>2. CASE x \in Range(readyQ)
    BY <1>6, <2>2, WaitersSaved
  <2> QED BY <2>1, <2>2
<1>8. Turned(cur, readyQ, r, stack)
  BY <1>5, <1>6, <1>7, SavedTypes DEF Turned
<1> QED BY <1>8, TurnSaves

\* sysstop(): nothing of the caller is left to be resumed.
LEMMA StopSaved ==
  ASSUME Saved, Stop
  PROVE  Saved'
<1> DEFINE st == [stack EXCEPT ![cur] = <<>>]
           p == Head(readyQ)
           q == Tail(readyQ)
<1>1. /\ at = "call" /\ readyQ # <<>> /\ Resume(p, q, ret, st)
      /\ owed' = [owed EXCEPT ![cur] = {}]
      /\ zeroed' = [zeroed EXCEPT ![cur] = FALSE]
      /\ frames' = [frames EXCEPT ![cur] = <<>>]
      /\ under' = [under EXCEPT ![cur] = <<>>]
      /\ isr' = isr
  BY DEF Stop, Dispatched, RunNext, Promise
<1>2. isr' \subseteq Irq /\ 0 \notin isr'
  BY <1>1, RequestSaved, SavedTypes
<1>3. p \in Range(readyQ) /\ Lists(q, Range(readyQ) \ {p})
  BY <1>1, SavedTypes, ListsTail
<1>4. Range(q) = Range(readyQ) \ {p}
  BY <1>3 DEF Lists
<1>5. /\ \A x \in Range(readyQ) :
           /\ st[x] = stack[x] /\ owed'[x] = owed[x] /\ zeroed'[x] = zeroed[x]
           /\ frames'[x] = frames[x] /\ under'[x] = under[x]
      /\ owed' \in [Proc -> SUBSET Int] /\ zeroed' \in [Proc -> BOOLEAN]
      /\ frames' \in [Proc -> Seq(Nat)] /\ under' \in [Proc -> Seq(Cover)]
  <2>1. <<>> \in Seq(Nat) /\ <<>> \in Seq(Cover)
    OBVIOUS
  <2>2. \A x \in Range(readyQ) : x \in Proc /\ x # cur
    BY SavedTypes
  <2>3. \A x \in Range(readyQ) :
           /\ st[x] = stack[x] /\ owed'[x] = owed[x] /\ zeroed'[x] = zeroed[x]
           /\ frames'[x] = frames[x] /\ under'[x] = under[x]
    BY <1>1, <2>2, SavedTypes
  <2>4. owed' \in [Proc -> SUBSET Int] /\ zeroed' \in [Proc -> BOOLEAN]
    BY <1>1, SavedTypes
  <2>5. frames' \in [Proc -> Seq(Nat)]
    BY <1>1, <2>1, SavedTypes
  <2>6. under' \in [Proc -> Seq(Cover)]
    BY <1>1, <2>1, SavedTypes
  <2> QED BY <2>3, <2>4, <2>5, <2>6
<1>6. st \in [Proc -> Seq(Point)] /\ \A x \in Proc : "timer" \notin Range(st[x])
  <2>1. Range(<<>>) = {}
    BY DEF Range
  <2>2. \A x \in Proc : st[x] = IF x = cur THEN <<>> ELSE stack[x]
    BY SavedTypes
  <2>3. <<>> \in Seq(Point)
    OBVIOUS
  <2>4. st \in [Proc -> Seq(Point)]
    BY <2>3, SavedTypes
  <2> QED BY <2>1, <2>2, <2>4, SavedTypes
<1> HIDE DEF st, p, q
<1>7. \A x \in {p} \cup Range(q) :
        /\ Kept(st[x], frames'[x], under'[x])
        /\ frames'[x] = <<>> /\ "call" \in Range(st[x]) => ret[x] # SIGRETURN
        /\ \A v \in owed'[x] : ret[x] = IF zeroed'[x] THEN 0 ELSE v
  <2> TAKE x \in {p} \cup Range(q)
  <2>1. x \in Range(readyQ)
    BY <1>3, <1>4
  <2> QED BY <1>5, <2>1, WaitersSaved
<1>8. Turned(p, q, ret, st)
  BY <1>1, <1>2, <1>3, <1>4, <1>5, <1>6, <1>7, SavedTypes DEF Turned
<1> QED BY <1>8, TurnSaves

\* signal(): the receiver p goes on in its frame when it is resumed.
LEMMA KillSaved ==
  ASSUME Saved, Kill
  PROVE  Saved'
<1>1. at = "call" /\ isr' = isr
  BY DEF Kill, Dispatched
<1>2. PICK p \in ({cur} \cup Range(readyQ)) \ {Idle} :
        /\ Answer(0, [stack EXCEPT ![p] = Framed(@)])
        /\ frames' = [frames EXCEPT ![p] = Append(@, Len(stack[p]))]
        /\ under' = [under EXCEPT ![p] = Append(@,
                       [owed |-> IF p = cur THEN {0} ELSE owed[p], stack |-> stack[p]])]
        /\ owed' = [owed EXCEPT ![cur] = {0}, ![p] = {}]
        /\ zeroed' = [zeroed EXCEPT ![cur] = FALSE, ![p] = FALSE]
  BY DEF Kill
<1> DEFINE st == [stack EXCEPT ![p] = Framed(@)]
           r == [ret EXCEPT ![cur] = 0]
           c == [owed |-> IF p = cur THEN {0} ELSE owed[p], stack |-> stack[p]]
<1>3. p \in Proc /\ cur \in Proc /\ p \in ReadyProc
  BY <1>2, SavedTypes DEF ReadyProc
<1>4. Resume(cur, readyQ, r, st)
  BY <1>2 DEF Answer
<1>5. at \in Entry
  BY <1>1 DEF Entry
<1>6. r \in [Proc -> Int] /\ r[cur] = 0 /\ \A x \in Proc \ {cur} : r[x] = ret[x]
  BY SavedTypes
<1>7. isr' \subseteq Irq /\ 0 \notin isr'
  BY <1>1, RequestSaved, SavedTypes
<1>8. /\ owed' \in [Proc -> SUBSET Int] /\ owed'[p] = {}
      /\ p # cur => owed'[cur] = {0}
      /\ \A x \in Proc \ {cur, p} : owed'[x] = owed[x]
  <2> DEFINE o == [owed EXCEPT ![cur] = {0}]
  <2>1. /\ o \in [Proc -> SUBSET Int] /\ o[cur] = {0}
        /\ \A x \in Proc \ {cur} : o[x] = owed[x]
    BY <1>3, SavedTypes
  <2>2. owed' = [o EXCEPT ![p] = {}]
    BY <1>2
  <2> HIDE DEF o
  <2>3. /\ owed' \in [Proc -> SUBSET Int] /\ owed'[p] = {}
        /\ \A x \in Proc \ {p} : owed'[x] = o[x]
    BY <1>3, <2>1, <2>2
  <2> QED BY <1>3, <2>1, <2>3
<1>9. /\ zeroed' \in [Proc -> BOOLEAN] /\ zeroed'[cur] = FALSE
      /\ \A x \in Proc \ {cur, p} : zeroed'[x] = zeroed[x]
  <2> DEFINE z == [zeroed EXCEPT ![cur] = FALSE]
  <2>1. /\ z \in [Proc -> BOOLEAN] /\ z[cur] = FALSE
        /\ \A x \in Proc \ {cur} : z[x] = zeroed[x]
    BY <1>3, SavedTypes
  <2>2. zeroed' = [z EXCEPT ![p] = FALSE]
    BY <1>2
  <2> HIDE DEF z
  <2>3. /\ zeroed' \in [Proc -> BOOLEAN] /\ zeroed'[p] = FALSE
        /\ \A x \in Proc \ {p} : zeroed'[x] = z[x]
    BY <1>3, <2>1, <2>2
  <2> QED BY <1>3, <2>1, <2>3
<1>10. /\ stack[p] \in Seq(Point) /\ frames[p] \in Seq(Nat) /\ under[p] \in Seq(Cover)
       /\ c \in Cover /\ c.stack = stack[p]
  <2>1. stack[p] \in Seq(Point) /\ frames[p] \in Seq(Nat) /\ under[p] \in Seq(Cover)
    BY <1>3, SavedTypes
  <2>2. (IF p = cur THEN {0} ELSE owed[p]) \in SUBSET Int
    <3>1. owed[p] \in SUBSET Int /\ {0} \in SUBSET Int
      BY <1>3, SavedTypes
    <3> QED BY <3>1
  <2> QED BY <2>1, <2>2 DEF Cover
<1>15. Kept(stack[p], frames[p], under[p])
  <2>1. CASE p = cur
    BY <1>5, <2>1, RunnerSaved
  <2>2. CASE p \in Range(readyQ)
    BY <2>2, WaitersSaved
  <2> QED BY <1>2, <2>1, <2>2
<1> HIDE DEF c
<1>16. /\ Kept(Framed(stack[p]), Append(frames[p], Len(stack[p])), Append(under[p], c))
       /\ Append(frames[p], Len(stack[p])) \in Seq(Nat)
       /\ Append(under[p], c) \in Seq(Cover)
       /\ Append(frames[p], Len(stack[p])) # <<>>
  BY <1>10, <1>15, KeptFrame
<1>11. /\ frames' \in [Proc -> Seq(Nat)] /\ frames'[p] = Append(frames[p], Len(stack[p]))
       /\ under' \in [Proc -> Seq(Cover)] /\ under'[p] = Append(under[p], c)
       /\ \A x \in Proc \ {p} : frames'[x] = frames[x] /\ under'[x] = under[x]
  BY <1>2, <1>3, <1>16, SavedTypes DEF c
<1>12. /\ Framed(stack[p]) \in Seq(Point)
       /\ Range(Framed(stack[p])) = Range(stack[p]) \cup {"user"}
  <2>1. "user" \in Point
    BY DEF Point
  <2> QED BY <1>10, <2>1, AppendContext, AppendRange DEF Framed
<1>13. /\ st \in [Proc -> Seq(Point)] /\ st[p] = Framed(stack[p])
       /\ \A x \in Proc \ {p} : st[x] = stack[x]
  BY <1>3, <1>12, SavedTypes
<1> HIDE DEF st, r
<1>14. \A x \in Proc : "timer" \notin Range(st[x])
  <2> TAKE x \in Proc
  <2>1. CASE x = p
    BY <1>3, <1>12, <1>13, <2>1, SavedTypes
  <2>2. CASE x # p
    BY <1>13, <2>2, SavedTypes
  <2> QED BY <2>1, <2>2
<1>17. \A x \in {cur} \cup Range(readyQ) :
        /\ Kept(st[x], frames'[x], under'[x])
        /\ frames'[x] = <<>> /\ "call" \in Range(st[x]) => r[x] # SIGRETURN
        /\ \A v \in owed'[x] : r[x] = IF zeroed'[x] THEN 0 ELSE v
  <2> TAKE x \in {cur} \cup Range(readyQ)
  <2>1. CASE x = p
    BY <1>8, <1>11, <1>13, <1>16, <2>1
  <2>2. CASE x = cur /\ x # p
    <3>1. x \in Proc \ {p} /\ st[x] = stack[x]
      BY <1>3, <1>13, <2>2
    <3>2. frames'[x] = frames[x] /\ under'[x] = under[x]
      BY <1>11, <3>1
    <3>3. Kept(stack[x], frames[x], under[x])
      BY <1>5, <2>2, RunnerSaved
    <3>4. r[x] = 0 /\ owed'[x] = {0} /\ zeroed'[x] = FALSE
      BY <1>6, <1>8, <1>9, <2>2
    <3>5. frames[x] = <<>> => "call" \notin Range(stack[x])
      BY <1>1, <2>2, RequestSaved
    <3> QED BY <3>1, <3>2, <3>3, <3>4, <3>5
  <2>3. CASE x \in Range(readyQ) /\ x # p
    BY <1>6, <1>8, <1>9, <1>11, <1>13, <2>3, WaitersSaved
  <2> QED BY <2>1, <2>2, <2>3
<1>18. Turned(cur, readyQ, r, st)
  BY <1>4, <1>6, <1>7, <1>8, <1>9, <1>11, <1>13, <1>14, <1>17, SavedTypes DEF Turned
<1> QED BY <1>18, TurnSaves

\* sigreturn: there is a frame to take, and the contexts it covers are there.
LEMMA Returned ==
  ASSUME Saved, SigReturn
  PROVE  /\ cur \in Proc /\ stack[cur] \in Seq(Point)
         /\ Last(under[cur]) \in Cover
         /\ Unwound(stack[cur], Last(frames[cur])) = Last(under[cur]).stack
         /\ Kept(Last(under[cur]).stack, Front(frames[cur]), Front(under[cur]))
         /\ Front(frames[cur]) \in Seq(Nat) /\ Front(under[cur]) \in Seq(Cover)
         /\ Range(Last(under[cur]).stack) \subseteq Range(stack[cur])
<1>1. at = "call" /\ eax = SIGRETURN
  BY DEF SigReturn, Dispatched
<1>2. frames[cur] # <<>>
  BY <1>1, RequestSaved
<1>3. /\ cur \in Proc /\ stack[cur] \in Seq(Point)
      /\ frames[cur] \in Seq(Nat) /\ under[cur] \in Seq(Cover)
  BY SavedTypes
<1>4. Kept(stack[cur], frames[cur], under[cur])
  BY <1>1, RunnerSaved DEF Entry
<1> QED BY <1>2, <1>3, <1>4, KeptUnframe

\* sigreturn: the process goes on in what the frame covers.
LEMMA SigReturnSaved ==
  ASSUME Saved, SigReturn
  PROVE  Saved'
<1> DEFINE c == Last(under[cur])
           st == [stack EXCEPT ![cur] = Unwound(@, Last(frames[cur]))]
           r == [ret EXCEPT ![cur] = 0]
<1>1. /\ at = "call" /\ isr' = isr
      /\ Resume(cur, readyQ, r, st)
      /\ frames' = [frames EXCEPT ![cur] = Front(@)]
      /\ owed' = [owed EXCEPT ![cur] = c.owed]
      /\ zeroed' = [zeroed EXCEPT ![cur] = TRUE]
      /\ under' = [under EXCEPT ![cur] = Front(@)]
  BY DEF SigReturn, Dispatched, Answer
<1>2. /\ cur \in Proc /\ stack[cur] \in Seq(Point) /\ c \in Cover
      /\ Unwound(stack[cur], Last(frames[cur])) = c.stack
      /\ Kept(c.stack, Front(frames[cur]), Front(under[cur]))
      /\ Front(frames[cur]) \in Seq(Nat) /\ Front(under[cur]) \in Seq(Cover)
      /\ Range(c.stack) \subseteq Range(stack[cur])
  BY Returned
<1> HIDE DEF c
<1>3. r \in [Proc -> Int] /\ r[cur] = 0 /\ \A x \in Proc \ {cur} : r[x] = ret[x]
  BY SavedTypes
<1>4. isr' \subseteq Irq /\ 0 \notin isr'
  BY <1>1, RequestSaved, SavedTypes
<1>5. c.owed \in SUBSET Int /\ c.stack \in Seq(Point)
  BY <1>2 DEF Cover
<1>6. /\ owed' \in [Proc -> SUBSET Int]
      /\ zeroed' \in [Proc -> BOOLEAN] /\ zeroed'[cur] = TRUE
      /\ \A x \in Proc \ {cur} : owed'[x] = owed[x] /\ zeroed'[x] = zeroed[x]
  BY <1>1, <1>2, <1>5, SavedTypes
<1>7. /\ frames' \in [Proc -> Seq(Nat)] /\ frames'[cur] = Front(frames[cur])
      /\ under' \in [Proc -> Seq(Cover)] /\ under'[cur] = Front(under[cur])
      /\ \A x \in Proc \ {cur} : frames'[x] = frames[x] /\ under'[x] = under[x]
  BY <1>1, <1>2, SavedTypes
<1>8. /\ st \in [Proc -> Seq(Point)] /\ st[cur] = c.stack
      /\ \A x \in Proc \ {cur} : st[x] = stack[x]
  BY <1>2, <1>5, SavedTypes
<1> HIDE DEF st, r
<1>9. \A x \in Proc : "timer" \notin Range(st[x])
  BY <1>2, <1>8, SavedTypes
<1>10. \A x \in {cur} \cup Range(readyQ) :
        /\ Kept(st[x], frames'[x], under'[x])
        /\ frames'[x] = <<>> /\ "call" \in Range(st[x]) => r[x] # SIGRETURN
        /\ \A v \in owed'[x] : r[x] = IF zeroed'[x] THEN 0 ELSE v
  <2> TAKE x \in {cur} \cup Range(readyQ)
  <2>1. CASE x = cur
    BY <1>2, <1>3, <1>6, <1>7, <1>8, <2>1 DEF SIGRETURN
  <2>2. CASE x \in Range(readyQ)
    BY <1>3, <1>6, <1>7, <1>8, <2>2, WaitersSaved
  <2> QED BY <2>1, <2>2
<1>11. Turned(cur, readyQ, r, st)
  BY <1>1, <1>3, <1>4, <1>6, <1>7, <1>8, <1>9, <1>10, SavedTypes DEF Turned
<1> QED BY <1>11, TurnSaves
-----------------------------------------------------------------------------
(***************************************************************************)
(* The way in: the processor goes from at to the entry point e, and the    *)
(* process's contexts are those it had, with e on top.                     *)
(***************************************************************************)
LEMMA EnteredContexts ==
  ASSUME Saved, NEW e \in Entry, e = "call" => at = "user",
         stack' = [stack EXCEPT ![cur] = Append(@, at)], at' = e, cur' = cur
  PROVE  /\ stack' \in [Proc -> Seq(Point)] /\ at' \in Point
         /\ Contexts(cur)' = Append(Contexts(cur), e)
         /\ Range(Contexts(cur)') = Range(Contexts(cur)) \cup {e}
         /\ Kept(Contexts(cur)', frames[cur], under[cur])
         /\ \A x \in Proc \ {cur} : Contexts(x)' = Contexts(x) /\ stack'[x] = stack[x]
         /\ Range(stack'[cur]) = Range(stack[cur]) \cup {at}
<1>1. /\ cur \in Proc /\ stack \in [Proc -> Seq(Point)] /\ at \in Point
      /\ cur \in ReadyProc /\ frames[cur] \in Seq(Nat) /\ under[cur] \in Seq(Cover)
      /\ e \in Point /\ Kept(Contexts(cur), frames[cur], under[cur])
  BY DEF Saved, ReadyProc, Point
<1> DEFINE c == Append(stack[cur], at)
<1>2. /\ c \in Seq(Point) /\ Len(c) = Len(stack[cur]) + 1
      /\ c[Len(stack[cur]) + 1] = at
      /\ Range(c) = Range(stack[cur]) \cup {at}
  <2>1. stack[cur] \in Seq(Point)
    BY <1>1
  <2> QED BY <1>1, <2>1, AppendContext, AppendRange
<1>3. Contexts(cur) = c
  BY DEF Contexts
<1>4. c[Len(c)] = at
  BY <1>2
<1>5. /\ stack' \in [Proc -> Seq(Point)] /\ stack'[cur] = c
      /\ \A x \in Proc \ {cur} : stack'[x] = stack[x]
  BY <1>1, <1>2
<1> HIDE DEF c
<1>6. Kept(Append(c, e), frames[cur], under[cur])
  BY <1>1, <1>2, <1>3, <1>4, KeptEntry
<1>7. Contexts(cur)' = Append(c, e)
  BY <1>5 DEF Contexts
<1>8. Range(Append(c, e)) = Range(c) \cup {e}
  BY <1>1, <1>2, AppendRange
<1>9. \A x \in Proc \ {cur} : Contexts(x)' = Contexts(x)
  BY <1>5 DEF Contexts
<1> QED BY <1>1, <1>2, <1>3, <1>5, <1>6, <1>7, <1>8, <1>9

\* What is left to see to: the register, and the controller.
LEMMA EnterSaves ==
  ASSUME Saved, NEW e \in Entry, e = "call" => at = "user",
         stack' = [stack EXCEPT ![cur] = Append(@, at)], at' = e, cur' = cur,
         UNCHANGED <<readyQ, ret, frames, under>>,
         isr' \subseteq Irq, 0 \in isr' <=> e = "timer", at # "timer",
         eax' \in Int, owed' \in [Proc -> SUBSET Int], zeroed' \in [Proc -> BOOLEAN],
         \A v \in owed'[cur] : eax' = IF zeroed'[cur] THEN 0 ELSE v,
         \A x \in Proc \ {cur} : owed'[x] = owed[x] /\ zeroed'[x] = zeroed[x],
         frames[cur] = <<>> /\ "call" \in Range(Contexts(cur)) \cup {e} => eax' # SIGRETURN
  PROVE  Saved'
<1>1. /\ stack' \in [Proc -> Seq(Point)] /\ at' \in Point
      /\ Range(Contexts(cur)') = Range(Contexts(cur)) \cup {e}
      /\ Kept(Contexts(cur)', frames[cur], under[cur])
      /\ \A x \in Proc \ {cur} : Contexts(x)' = Contexts(x) /\ stack'[x] = stack[x]
      /\ Range(stack'[cur]) = Range(stack[cur]) \cup {at}
  BY EnteredContexts
<1>2. ReadyProc' = ReadyProc /\ ReadyProc \subseteq Proc
  BY SavedTypes DEF ReadyProc
<1>3. /\ Register(cur)' = eax'
      /\ \A x \in Proc \ {cur} : Register(x)' = Register(x)
  BY DEF Register
<1>4. \A x \in ReadyProc' : Kept(Contexts(x)', frames'[x], under'[x])
  <2> TAKE x \in ReadyProc'
  <2>1. CASE x = cur
    BY <1>1, <2>1
  <2>2. CASE x # cur
    <3>1. Kept(Contexts(x), frames[x], under[x])
      BY <1>2 DEF Saved
    <3>2. Contexts(x)' = Contexts(x)
      BY <1>1, <1>2, <2>2
    <3> QED BY <3>1, <3>2
  <2> QED BY <2>1, <2>2
<1>5. ReturnHasFrame'
  <2> SUFFICES ASSUME NEW x \in ReadyProc',
                      frames'[x] = <<>>, "call" \in Range(Contexts(x)')
               PROVE  Register(x)' # SIGRETURN
    BY DEF ReturnHasFrame
  <2>1. CASE x = cur
    BY <1>1, <1>3, <2>1
  <2>2. CASE x # cur
    <3>1. x \in ReadyProc /\ Contexts(x)' = Contexts(x) /\ Register(x)' = Register(x)
      BY <1>1, <1>2, <1>3, <2>2
    <3> QED BY <3>1 DEF Saved, ReturnHasFrame
  <2> QED BY <2>1, <2>2
<1>6. EaxLostBySigreturnOnly'
  <2> SUFFICES ASSUME NEW x \in {cur'} \cup Range(readyQ'), NEW v \in owed'[x]
               PROVE  Register(x)' = IF zeroed'[x] THEN 0 ELSE v
    BY DEF EaxLostBySigreturnOnly, EaxFor
  <2>1. CASE x = cur
    BY <1>3, <2>1
  <2>2. CASE x # cur
    <3>1. x \in {cur} \cup Range(readyQ) /\ x \in Proc \ {cur}
      BY <1>2, <2>2 DEF ReadyProc
    <3> QED BY <1>3, <3>1 DEF Saved, EaxLostBySigreturnOnly, EaxFor
  <2> QED BY <2>1, <2>2
<1>7. TimerPrompt'
  <2>1. \A p \in Proc : "timer" \notin Range(stack'[p])
    <3> TAKE p \in Proc
    <3>1. CASE p = cur
      BY <1>1, <3>1, SavedTypes
    <3>2. CASE p # cur
      BY <1>1, <3>2, SavedTypes
    <3> QED BY <3>1, <3>2
  <2> QED BY <2>1 DEF TimerPrompt
<1>8. /\ cur' \in Proc /\ ret' \in [Proc -> Int]
      /\ frames' \in [Proc -> Seq(Nat)] /\ under' \in [Proc -> Seq(Cover)]
      /\ readyQ' \in Seq(Proc) /\ Lists(readyQ', Range(readyQ')) /\ cur' \notin Range(readyQ')
  BY DEF Saved
<1> QED BY <1>1, <1>4, <1>5, <1>6, <1>7, <1>8 DEF Saved

\* A process issues its int.
LEMMA IntCallSaved ==
  ASSUME Saved, NEW n \in Call \cup {YIELD, SIGRETURN}, IntCall(n)
  PROVE  Saved'
<1>1. /\ at = "user" /\ at' = "call" /\ cur' = cur /\ isr' = isr
      /\ n = SIGRETURN => frames[cur] # <<>>
      /\ eax' = n
      /\ owed' = [owed EXCEPT ![cur] = {n}]
      /\ zeroed' = [zeroed EXCEPT ![cur] = FALSE]
      /\ stack' = [stack EXCEPT ![cur] = Append(@, at)]
      /\ UNCHANGED <<readyQ, ret, frames, under>>
  BY DEF IntCall, Promise
<1>2. n \in Int
  BY DEF STOP, TIMER, GETPID, KILL, KEYBOARD, YIELD, SIGRETURN
<1>3. "call" \in Entry /\ "call" # "timer" /\ at # "timer"
  BY <1>1 DEF Entry
<1>4. 0 \notin isr' /\ isr' \subseteq Irq
  BY <1>1 DEF Saved, TimerPrompt
<1>5. /\ owed' \in [Proc -> SUBSET Int] /\ owed'[cur] = {n}
      /\ zeroed' \in [Proc -> BOOLEAN] /\ zeroed'[cur] = FALSE
      /\ \A x \in Proc \ {cur} : owed'[x] = owed[x] /\ zeroed'[x] = zeroed[x]
  BY <1>1, <1>2, SavedTypes
<1>6. \A v \in owed'[cur] : eax' = IF zeroed'[cur] THEN 0 ELSE v
  BY <1>1, <1>5
<1>7. frames[cur] = <<>> => eax' # SIGRETURN
  BY <1>1
<1> QED BY <1>1, <1>2, <1>3, <1>4, <1>5, <1>6, <1>7, EnterSaves

\* An interrupt comes, in user code or at an entry point before its cli.
LEMMA InterruptSaved ==
  ASSUME Saved, NEW i \in Irq, NEW v \in Eax, Interrupt(i, v)
  PROVE  Saved'
<1> DEFINE e == EntryOf(i)
<1>1. /\ \A j \in isr : i < j
      /\ isr' = isr \cup {i}
      /\ stack' = [stack EXCEPT ![cur] = Append(@, at)]
      /\ at' = e
      /\ eax' = IF at = "user" THEN v ELSE eax
      /\ IF at = "user" THEN Promise(cur, {v}) ELSE UNCHANGED <<owed, zeroed>>
      /\ cur' = cur /\ UNCHANGED <<readyQ, ret, frames, under>>
  BY DEF Interrupt
<1>2. /\ e \in Entry /\ e # "call" /\ e \in Point
      /\ e = "timer" <=> i = 0
      /\ i \in {0, 1}
  BY DEF EntryOf, Entry, Irq, Point
<1> HIDE DEF e
<1>3. v \in Int
  OBVIOUS
<1>4. 0 \notin isr
  BY <1>1, <1>2
<1>5. at # "timer"
  BY <1>4 DEF Saved, TimerPrompt
<1>6. isr' \subseteq Irq /\ (0 \in isr' <=> e = "timer")
  BY <1>1, <1>2, <1>4, SavedTypes
<1>7. eax' \in Int
  BY <1>1, <1>3, SavedTypes
<1>8. /\ owed' \in [Proc -> SUBSET Int] /\ zeroed' \in [Proc -> BOOLEAN]
      /\ \A w \in owed'[cur] : eax' = IF zeroed'[cur] THEN 0 ELSE w
      /\ \A x \in Proc \ {cur} : owed'[x] = owed[x] /\ zeroed'[x] = zeroed[x]
  <2>1. CASE at = "user"
    <3>1. /\ owed' \in [Proc -> SUBSET Int] /\ owed'[cur] = {v}
          /\ zeroed' \in [Proc -> BOOLEAN] /\ zeroed'[cur] = FALSE
          /\ \A x \in Proc \ {cur} : owed'[x] = owed[x] /\ zeroed'[x] = zeroed[x]
      <4>1. /\ owed' = [owed EXCEPT ![cur] = {v}]
            /\ zeroed' = [zeroed EXCEPT ![cur] = FALSE]
        BY <1>1, <2>1 DEF Promise
      <4> QED BY <1>3, <4>1, SavedTypes
    <3> QED BY <1>1, <2>1, <3>1
  <2>2. CASE at # "user"
    <3>1. \A w \in owed[cur] : Register(cur) = IF zeroed[cur] THEN 0 ELSE w
      BY DEF Saved, EaxLostBySigreturnOnly, EaxFor
    <3> QED BY <1>1, <2>2, <3>1, SavedTypes DEF Register
  <2> QED BY <2>1, <2>2
<1>9. frames[cur] = <<>> /\ "call" \in Range(Contexts(cur)) \cup {e} => eax' # SIGRETURN
  <2> SUFFICES ASSUME frames[cur] = <<>>, "call" \in Range(Contexts(cur))
               PROVE  eax' # SIGRETURN
    BY <1>2
  <2>1. cur \in ReadyProc
    BY DEF ReadyProc
  <2>2. CASE at # "user"
    <3>1. Register(cur) # SIGRETURN
      BY <2>1 DEF Saved, ReturnHasFrame
    <3> QED BY <1>1, <2>2, <3>1 DEF Register
  <2>3. CASE at = "user"
    <3> DEFINE c == Append(stack[cur], "user")
    <3>1. Contexts(cur) = c
      BY <2>3 DEF Contexts
    <3>2. stack[cur] \in Seq(Point) /\ "user" \in Point
      BY SavedTypes DEF Point
    <3>3. /\ c \in Seq(Point) /\ Len(c) = Len(stack[cur]) + 1
          /\ c[Len(stack[cur]) + 1] = "user" /\ Len(stack[cur]) \in Nat
      BY <3>2, AppendContext
    <3> HIDE DEF c
    <3>4. Nested(c, 0)
      <4>1. Nested(Contexts(cur), Len(under[cur])) /\ Len(under[cur]) = 0
        BY <2>1 DEF Saved, Kept
      <4> QED BY <3>1, <4>1
    <3>5. Len(c) = 1 /\ c[1] = "user"
      BY <3>3, <3>4, NestedBottom
    <3>6. PICK j \in 1 .. Len(c) : c[j] = "call"
      BY <3>1, <3>3 DEF Range
    <3>7. FALSE
      BY <3>5, <3>6
    <3> QED BY <3>7
  <2> QED BY <2>2, <2>3
<1> QED BY <1>1, <1>2, <1>5, <1>6, <1>7, <1>8, <1>9, EnterSaves
-----------------------------------------------------------------------------
\* The initial state: idle runs, the others wait to start.
LEMMA InitSaved ==
  ASSUME Init
  PROVE  Saved
<1> DEFINE T == 1 .. NProc - 1
<1>1. /\ cur = 0 /\ at = "user" /\ eax = 0
      /\ stack = [p \in Proc |-> IF p = 0 THEN <<>> ELSE <<"user">>]
      /\ ret = [p \in Proc |-> 0]
      /\ readyQ = [i \in T |-> i]
      /\ isr = {}
      /\ frames = [p \in Proc |-> <<>>]
      /\ owed = [p \in Proc |-> {}]
      /\ zeroed = [p \in Proc |-> FALSE]
      /\ under = [p \in Proc |-> <<>>]
  BY DEF Init, Idle
<1>2. "user" \in Point /\ 0 \in Proc /\ T \subseteq Proc /\ 0 \notin T
  BY DEF Point, Proc
<1>3. /\ readyQ \in Seq(T) /\ Len(readyQ) = NProc - 1
      /\ \A i \in 1 .. Len(readyQ) : readyQ[i] = i
  <2>1. NProc - 1 \in Nat /\ readyQ \in [1 .. NProc - 1 -> T]
    BY <1>1
  <2>2. readyQ \in Seq(T) /\ Len(readyQ) = NProc - 1
    BY <2>1, IsASeq
  <2> QED BY <1>1, <2>2
<1>4. Lists(readyQ, T)
  BY <1>3, ListsIntro
<1>5. Range(readyQ) = T
  BY <1>4 DEF Lists
<1>6. readyQ \in Seq(Proc)
  BY <1>2, <1>3, SeqMonotonic
<1>7. <<"user">> \in Seq(Point) /\ <<>> \in Seq(Point) /\ <<>> \in Seq(Cover) /\ <<>> \in Seq(Nat)
  BY <1>2
<1>8. Append(<<>>, "user") = <<"user">>
  OBVIOUS
<1>9. Nested(<<"user">>, 0)
  <2> DEFINE s == <<"user">>
             b == [j \in 0 .. 0 |-> 1]
  <2>1. Len(s) = 1 /\ s[1] = "user"
    OBVIOUS
  <2>2. b[0] = 1 /\ b \in [0 .. 0 -> 1 .. 1] /\ \A j \in 0 .. 0 : j = 0
    OBVIOUS
  <2>3. \A i \in 1 .. 1 : i = 1
    OBVIOUS
  <2> HIDE DEF s, b
  <2>4. \A i \in 1 .. Len(s) : s[i] = "call" => i > 1 /\ s[i - 1] = "user"
    BY <2>1, <2>3
  <2>5. b \in [0 .. 0 -> 1 .. Len(s)]
    BY <2>1, <2>2
  <2>6. \A j \in 0 .. 0 : b[j] > j /\ s[b[j]] = "user"
    BY <2>1, <2>2
  <2>7. \A j, k \in 0 .. 0 : j < k => b[j] < b[k]
    BY <2>2
  <2>8. \A i \in 1 .. Len(s) : s[i] = "user" => \E j \in 0 .. 0 : b[j] = i
    BY <2>1, <2>2, <2>3
  <2>9. Nested(s, 0)
    BY <2>2, <2>4, <2>5, <2>6, <2>7, <2>8, Zenon DEF Nested
  <2> QED BY <2>9 DEF s
<1>10. /\ stack \in [Proc -> Seq(Point)] /\ ret \in [Proc -> Int]
       /\ frames \in [Proc -> Seq(Nat)] /\ under \in [Proc -> Seq(Cover)]
       /\ owed \in [Proc -> SUBSET Int] /\ zeroed \in [Proc -> BOOLEAN]
  BY <1>1, <1>7
<1>11. ReadyProc \subseteq Proc
  BY <1>1, <1>2, <1>5 DEF ReadyProc
<1>12. \A p \in Proc : /\ Contexts(p) = <<"user">> /\ owed[p] = {}
                       /\ frames[p] = <<>> /\ under[p] = <<>>
  BY <1>1, <1>8 DEF Contexts
<1>13. /\ Range(<<"user">>) = {"user"} /\ Range(<<>>) = {}
  BY DEF Range
<1>14. \A p \in ReadyProc : Kept(Contexts(p), frames[p], under[p])
  BY <1>9, <1>11, <1>12 DEF Kept
<1>15. ReturnHasFrame
  BY <1>11, <1>12, <1>13 DEF ReturnHasFrame
<1>16. EaxLostBySigreturnOnly
  BY <1>11, <1>12 DEF EaxLostBySigreturnOnly, ReadyProc
<1>17. TimerPrompt
  BY <1>1, <1>13 DEF TimerPrompt
<1> QED
  BY <1>1, <1>2, <1>4, <1>5, <1>6, <1>10, <1>14, <1>15, <1>16, <1>17 DEF Saved, Point

\* Every step keeps the invariant.
LEMMA NextSaved ==
  ASSUME Saved, [Next]_vars
  PROVE  Saved'
<1>1. CASE Next
  <2>1. ASSUME NEW n \in Call \cup {YIELD}, IntCall(n) PROVE Saved'
    BY <2>1, IntCallSaved
  <2>2. ASSUME IntCall(SIGRETURN) PROVE Saved'
    BY <2>2, IntCallSaved
  <2>3. CASE TimerTurn
    BY <2>3, TimerTurnSaved
  <2>4. CASE KeyboardTurn
    BY <2>4, KeyboardTurnSaved
  <2>5. CASE Stop
    BY <2>5, StopSaved
  <2>6. CASE Yield
    BY <2>6, RotateSaved DEF Yield, Dispatched
  <2>7. CASE GetPid
    <3> DEFINE r == [ret EXCEPT ![cur] = cur + 1]
    <3>1. cur + 1 \in Int
      BY SavedTypes DEF Proc
    <3>2. /\ r \in [Proc -> Int] /\ r[cur] = cur + 1
          /\ \A x \in Proc \ {cur} : r[x] = ret[x]
      BY <3>1, SavedTypes
    <3>3. /\ at = "call" /\ Resume(cur, readyQ, r, stack) /\ isr' = isr
          /\ Promise(cur, {cur + 1}) /\ UNCHANGED <<frames, under>>
      BY <2>7 DEF GetPid, Dispatched, Answer
    <3> HIDE DEF r
    <3> QED BY <3>1, <3>2, <3>3, AnswerSaved
  <2>8. CASE Timer
    <3>1. isr' \subseteq isr
      BY <2>8 DEF Timer, EndOfIntr
    <3> QED BY <2>8, <3>1, RotateSaved DEF Timer, Dispatched
  <2>9. CASE Kill
    BY <2>9, KillSaved
  <2>10. CASE KillRefused
    <3> DEFINE r == [ret EXCEPT ![cur] = -18]
    <3>1. -18 \in Int
      OBVIOUS
    <3>2. /\ r \in [Proc -> Int] /\ r[cur] = -18
          /\ \A x \in Proc \ {cur} : r[x] = ret[x]
      BY <3>1, SavedTypes
    <3>3. /\ at = "call" /\ Resume(cur, readyQ, r, stack) /\ isr' = isr
          /\ Promise(cur, {-18}) /\ UNCHANGED <<frames, under>>
      BY <2>10, Zenon DEF KillRefused, Dispatched, Answer
    <3> HIDE DEF r
    <3> QED BY <3>1, <3>2, <3>3, AnswerSaved
  <2>11. CASE SigReturn
    BY <2>11, SigReturnSaved
  <2>13. CASE Keyboard
    <3>1. isr' \subseteq isr
      BY <2>13 DEF Keyboard, EndOfIntr
    <3> QED BY <2>13, <3>1, SavedTypes, AnswerSaved DEF Keyboard, Dispatched
  <2>12. ASSUME NEW i \in Irq, NEW v \in Eax, Interrupt(i, v) PROVE Saved'
    BY <2>12, InterruptSaved
  <2> QED
    BY <1>1, <2>1, <2>2, <2>3, <2>4, <2>5, <2>6, <2>7, <2>8, <2>9, <2>10, <2>11, <2>12,
       <2>13
    DEF Next, User, Kernel
<1>2. CASE UNCHANGED vars
  BY <1>2 DEF vars, Saved, ReadyProc, Contexts, ReturnHasFrame, Register, EaxFor,
              EaxLostBySigreturnOnly, TimerPrompt
<1> QED BY <1>1, <1>2

\* The invariant holds in every reachable state.
LEMMA SavedHolds == Spec => []Saved
<1>1. Init => Saved
  BY InitSaved
<1>2. Saved /\ [Next]_vars => Saved'
  BY NextSaved
<1> QED BY <1>1, <1>2, PTL DEF Spec
-----------------------------------------------------------------------------
(***************************************************************************)
(* The types of ContextSwitch: a process that waits has a context saved,   *)
(* and one more under each of its signal frames, so that contextswitch()   *)
(* never resumes a process from an empty stack.                            *)
(***************************************************************************)
THEOREM ContextTypesHold == Spec => []TypeOK
<1>1. Saved => TypeOK
  <2> SUFFICES ASSUME Saved PROVE TypeOK
    OBVIOUS
  <2>1. ASSUME NEW p \in Range(readyQ) PROVE Len(stack[p]) > Len(frames[p])
    <3>1. /\ Nested(stack[p], Len(under[p])) /\ stack[p] \in Seq(Point)
          /\ Len(under[p]) \in Nat /\ Len(frames[p]) = Len(under[p])
      BY WaitersSaved, SavedTypes DEF Kept
    <3> QED BY <3>1, NestedHeight
  <2> QED BY <2>1 DEF Saved, TypeOK, Cover
<1> QED BY <1>1, SavedHolds, PTL

(***************************************************************************)
(* Whatever interrupts or signals a process, at an entry point too, and    *)
(* whoever runs before it goes on: its eax is the one it left or the       *)
(* answer it is owed, or the 0 that sigreturn put in place of it.          *)
(***************************************************************************)
THEOREM EaxLostBySigreturnOnlyHolds == Spec => []EaxLostBySigreturnOnly
<1>1. Saved => EaxLostBySigreturnOnly
  BY DEF Saved
<1> QED BY <1>1, SavedHolds, PTL

(***************************************************************************)
(* sigreturn() with the old_sp of the topmost frame resumes the process in *)
(* the context in which that frame's signal found it, with the same ones   *)
(* below, whatever was pushed and popped while the handler ran.            *)
(***************************************************************************)
THEOREM ReturnsWhereSignalledHolds == Spec => ReturnsWhereSignalled
<1>1. ASSUME Saved, SigReturn
      PROVE  Append(stack'[cur], at') = Last(under[cur]).stack
  <2> DEFINE st == [stack EXCEPT ![cur] = Unwound(@, Last(frames[cur]))]
             r == [ret EXCEPT ![cur] = 0]
             c == Last(under[cur]).stack
  <2>1. /\ Resume(cur, readyQ, r, st) /\ r \in [Proc -> Int]
    BY <1>1, SavedTypes DEF SigReturn, Answer
  <2>2. /\ cur \in Proc /\ c \in Seq(Point) /\ st[cur] = c /\ st \in [Proc -> Seq(Point)]
    BY <1>1, Returned, SavedTypes DEF Cover
  <2>3. c # <<>>
    <3>1. Nested(c, Len(Front(under[cur]))) /\ Len(Front(under[cur])) \in Nat
      BY <1>1, Returned DEF Kept
    <3> QED BY <2>2, <3>1, NestedHeight
  <2> HIDE DEF st, r, c
  <2>4. Contexts(cur)' = st[cur] /\ cur' = cur
    BY <2>1, <2>2, <2>3, ResumedContexts
  <2> QED BY <2>2, <2>4 DEF Contexts, c
<1>2. Saved /\ [Next]_vars
        => [SigReturn => Append(stack'[cur], at') = Last(under[cur]).stack]_vars
  BY <1>1
<1> QED BY <1>2, SavedHolds, PTL DEF Spec, ReturnsWhereSignalled

(***************************************************************************)
(* The timer is in service exactly while the processor is at its entry     *)
(* point, and no process waits there: neither the end_of_intr() of the     *)
(* keyboard nor that of SYS_TIMER as a request takes it out early, and no  *)
(* order of interrupts leaves it in service, which would stop the clock.   *)
(***************************************************************************)
THEOREM TimerPromptHolds == Spec => []TimerPrompt
<1>1. Saved => TimerPrompt
  BY DEF Saved
<1> QED BY <1>1, SavedHolds, PTL
=============================================================================
