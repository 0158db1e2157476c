-------------------------- MODULE KernelListsProofs --------------------------
(***************************************************************************)
(* What TLAPS proves about KernelLists, for any number of pcbs and any     *)
(* sleeps: that the pointers never tie the two lists together, lose a pcb  *)
(* or leave the tail behind; that only the first difference of the delta   *)
(* list counts down; and that the sums of the differences are what is left *)
(* of the sleeps, so the pointers implement Scheduler.                     *)
(*                                                                         *)
(* The lists of the pointers are read by a recursive function.  The proofs *)
(* name the sequences the pointers stand for, show how each step changes   *)
(* them, and only then that reading the pointers gives these sequences.    *)
(***************************************************************************)
EXTENDS KernelLists, QueueLemmas

-----------------------------------------------------------------------------
\* A list of pcbs, each once, is no longer than the table.
LEMMA ListsShort ==
  ASSUME NEW T \in SUBSET Proc, NEW s, Lists(s, T)
  PROVE  Len(s) <= NProc
<1>1. /\ s \in Seq(T) /\ Len(s) \in Nat /\ DOMAIN s = 1 .. Len(s)
      /\ \A i \in 1 .. Len(s) : s[i] \in T
      /\ \A i, j \in 1 .. Len(s) : s[i] = s[j] => i = j
  BY ListsFacts
<1>2. IsFiniteSet(Proc) /\ Cardinality(Proc) = NProc
  <2>1. 0 \in Int /\ NProc - 1 \in Int /\ ~ (0 > NProc - 1) /\ NProc - 1 - 0 + 1 = NProc
    BY ListAssumption
  <2> QED BY <2>1, FS_Interval DEF Proc
<1>3. IsFiniteSet(1 .. Len(s)) /\ Cardinality(1 .. Len(s)) = Len(s)
  <2>1. 1 \in Int /\ Len(s) \in Int /\ (1 > Len(s) => Len(s) = 0) /\ Len(s) - 1 + 1 = Len(s)
    BY <1>1
  <2>2. /\ IsFiniteSet(1 .. Len(s))
        /\ Cardinality(1 .. Len(s)) = IF 1 > Len(s) THEN 0 ELSE Len(s) - 1 + 1
    BY <2>1, FS_Interval
  <2> QED BY <2>1, <2>2
<1>4. s \in Injection(1 .. Len(s), Proc)
  BY <1>1 DEF Injection, IsInjective
<1>5. Cardinality(1 .. Len(s)) <= Cardinality(Proc)
  BY <1>2, <1>4, FS_Injection
<1> QED BY <1>2, <1>3, <1>5

\* The pointers nx thread s, from q on.
Threaded(q, s, nx) ==
  /\ q = IF s = <<>> THEN NULL ELSE s[1]
  /\ \A i \in 1 .. Len(s) : nx[s[i]] = IF i < Len(s) THEN s[i + 1] ELSE NULL

\* What Along reads is the sequence that is threaded.
LEMMA AlongIs ==
  ASSUME NEW T \in SUBSET Proc, NEW q, NEW s, NEW nx, Lists(s, T), Threaded(q, s, nx)
  PROVE  Along(q, nx) = s
<1> DEFINE after == [x \in Ptr |-> IF x = NULL THEN NULL ELSE nx[x]]
           P(f) == f = [n \in 0 .. NProc |-> IF n = 0 THEN q ELSE after[f[n - 1]]]
           at == CHOOSE f : P(f)
           length == Cardinality({n \in 0 .. NProc : at[n] # NULL})
           L == Len(s)
           g == [n \in 0 .. NProc |-> IF n < L THEN s[n + 1] ELSE NULL]
<1>1. Along(q, nx) = SubSeq([i \in 1 .. NProc + 1 |-> at[i - 1]], 1, length)
  BY DEF Along
<1>2. /\ s \in Seq(T) /\ L \in Nat /\ L <= NProc
      /\ \A i \in 1 .. L : s[i] \in Proc
  BY ListsFacts, ListsShort
<1>3. NProc \in Nat /\ NULL \notin Proc
  BY ListAssumption DEF Proc
<1>4. /\ q = IF L = 0 THEN NULL ELSE s[1]
      /\ \A i \in 1 .. L : nx[s[i]] = IF i < L THEN s[i + 1] ELSE NULL
  BY <1>2 DEF Threaded
<1> HIDE DEF L
<1>5. P(g)
  <2>1. ASSUME NEW n \in 0 .. NProc PROVE g[n] = IF n = 0 THEN q ELSE after[g[n - 1]]
    <3>1. CASE n = 0
      BY <1>2, <1>3, <1>4, <3>1
    <3>2. CASE n # 0 /\ n - 1 < L
      <4>1. n \in 1 .. L /\ n - 1 \in 0 .. NProc /\ (n - 1) + 1 = n
        BY <1>2, <1>3, <3>2
      <4>2. g[n - 1] = s[n]
        BY <4>1, <3>2
      <4>3. after[s[n]] = nx[s[n]]
        BY <1>2, <1>3, <4>1 DEF Ptr
      <4> QED BY <1>2, <1>4, <3>2, <4>1, <4>2, <4>3
    <3>3. CASE n # 0 /\ ~ (n - 1 < L)
      <4>1. g[n - 1] = NULL /\ g[n] = NULL
        BY <1>2, <1>3, <3>3
      <4>2. after[NULL] = NULL
        BY DEF Ptr
      <4> QED BY <3>3, <4>1, <4>2
    <3> QED BY <3>1, <3>2, <3>3
  <2> QED BY <2>1
<1> HIDE DEF P
<1>6. P(at)
  BY <1>5
<1> HIDE DEF at
<1>7. \A n \in 0 .. NProc : at[n] = g[n]
  <2>1. \A n \in 0 .. NProc : /\ at[n] = IF n = 0 THEN q ELSE after[at[n - 1]]
                              /\ g[n] = IF n = 0 THEN q ELSE after[g[n - 1]]
    BY <1>5, <1>6, Zenon DEF P
  <2> HIDE DEF g, after
  <2>2. at[0] = g[0] /\ \A n \in 1 .. NProc : at[n - 1] = g[n - 1] => at[n] = g[n]
    BY <2>1, <1>3
  <2> QED BY <1>3, <2>2, SameWalk
<1>8. length = L
  <2>1. {n \in 0 .. NProc : at[n] # NULL} = 0 .. L - 1
    <3>1. ASSUME NEW n \in 0 .. NProc PROVE at[n] # NULL <=> n < L
      BY <1>2, <1>3, <1>7
    <3> QED BY <1>2, <1>3, <3>1
  <2>2. 0 \in Int /\ L - 1 \in Int /\ (0 > L - 1 => L = 0) /\ L - 1 - 0 + 1 = L
    BY <1>2
  <2>3. Cardinality(0 .. L - 1) = IF 0 > L - 1 THEN 0 ELSE L - 1 - 0 + 1
    BY <2>2, FS_Interval
  <2> QED BY <2>1, <2>2, <2>3
<1> DEFINE h == [i \in 1 .. NProc + 1 |-> at[i - 1]]
<1>9. \A i \in 1 .. L : h[i] = s[i]
  BY <1>2, <1>3, <1>7
<1> HIDE DEF h, length
<1>10. Along(q, nx) = SubSeq(h, 1, L)
  BY <1>1, <1>8 DEF h
<1>11. /\ SubSeq(h, 1, L) \in Seq(T)
       /\ Len(SubSeq(h, 1, L)) = L
       /\ \A i \in 1 .. L : SubSeq(h, 1, L)[i] = s[i]
  <2>1. 1 \in Int /\ L \in Int /\ \A i \in 1 .. L : h[i] \in T
    BY <1>2, <1>9, ListsFacts DEF L
  <2>2. /\ SubSeq(h, 1, L) \in Seq(T)
        /\ Len(SubSeq(h, 1, L)) = IF 1 <= L THEN L - 1 + 1 ELSE 0
        /\ \A i \in 1 .. L - 1 + 1 : SubSeq(h, 1, L)[i] = h[1 + i - 1]
    BY <2>1, SubSeqProperties
  <2> QED BY <1>2, <1>9, <2>2
<1>12. SubSeq(h, 1, L) = s
  <2> DEFINE t == SubSeq(h, 1, L)
  <2>1. t \in Seq(T) /\ Len(t) = Len(s) /\ \A i \in 1 .. Len(s) : t[i] = s[i]
    BY <1>11 DEF L
  <2> HIDE DEF t
  <2>2. t = s
    BY <2>1, <1>2, SeqEqual
  <2> QED BY <2>2 DEF t
<1> QED BY <1>10, <1>12
-----------------------------------------------------------------------------
(***************************************************************************)
(* The pointers of l thread r as the ready list, l.tail its last, and from *)
(* q on they thread s; no pcb is in both, and those in neither point       *)
(* nowhere.  R and W are the sets of their members.                        *)
(***************************************************************************)
TwoLists(l, q, r, s, R, W) ==
  /\ l.next \in [Proc -> Ptr]
  /\ Lists(r, R) /\ Lists(s, W) /\ R \cap W = {} /\ R \cup W \subseteq Proc
  /\ Threaded(l.head, r, l.next) /\ Threaded(q, s, l.next)
  /\ l.tail = IF r = <<>> THEN NULL ELSE r[Len(r)]
  /\ \A x \in Proc \ (R \cup W) : l.next[x] = NULL

\* A list is left alone by pointers that change elsewhere.
LEMMA ThreadedKept ==
  ASSUME NEW q, NEW s, NEW T, Lists(s, T), NEW nx, NEW ny, Threaded(q, s, nx),
         \A x \in T : ny[x] = nx[x]
  PROVE  Threaded(q, s, ny)
BY ListsFacts DEF Threaded

\* Whether a list is empty shows in its length.
LEMMA NotEmpty ==
  ASSUME NEW T, NEW s \in Seq(T)
  PROVE  s = <<>> <=> Len(s) = 0
OBVIOUS

\* The members of the lists are pcbs, and the lists end in NULL.
LEMMA TwoListsFacts ==
  ASSUME NEW l, NEW q, NEW r, NEW s, NEW R, NEW W, TwoLists(l, q, r, s, R, W)
  PROVE  /\ r \in Seq(R) /\ Len(r) \in Nat /\ s \in Seq(W) /\ Len(s) \in Nat
         /\ \A i \in 1 .. Len(r) : r[i] \in R /\ r[i] \in Proc /\ r[i] \notin W /\ r[i] # NULL
         /\ \A i, j \in 1 .. Len(r) : r[i] = r[j] => i = j
         /\ \A i \in 1 .. Len(s) : s[i] \in W /\ s[i] \in Proc /\ s[i] \notin R /\ s[i] # NULL
         /\ \A i, j \in 1 .. Len(s) : s[i] = s[j] => i = j
         /\ l.head = IF Len(r) = 0 THEN NULL ELSE r[1]
         /\ l.tail = IF Len(r) = 0 THEN NULL ELSE r[Len(r)]
         /\ q = IF Len(s) = 0 THEN NULL ELSE s[1]
<1>1. /\ Lists(r, R) /\ Lists(s, W) /\ R \cap W = {} /\ R \cup W \subseteq Proc
      /\ NULL \notin Proc
  BY ListAssumption DEF TwoLists, Proc
<1>2. /\ r \in Seq(R) /\ Len(r) \in Nat
      /\ \A i \in 1 .. Len(r) : r[i] \in R
      /\ \A i, j \in 1 .. Len(r) : r[i] = r[j] => i = j
  BY <1>1, ListsFacts
<1>3. /\ s \in Seq(W) /\ Len(s) \in Nat
      /\ \A i \in 1 .. Len(s) : s[i] \in W
      /\ \A i, j \in 1 .. Len(s) : s[i] = s[j] => i = j
  BY <1>1, ListsFacts
<1>4. /\ l.head = IF Len(r) = 0 THEN NULL ELSE r[1]
      /\ l.tail = IF Len(r) = 0 THEN NULL ELSE r[Len(r)]
  BY <1>2, NotEmpty DEF TwoLists, Threaded
<1>5. q = IF Len(s) = 0 THEN NULL ELSE s[1]
  BY <1>3, NotEmpty DEF TwoLists, Threaded
<1> QED BY <1>1, <1>2, <1>3, <1>4, <1>5

\* ready() appends to the list of ready pcbs and leaves the sleepers alone.
LEMMA ReadyKeeps ==
  ASSUME NEW l, NEW q, NEW r, NEW s, NEW R, NEW W, TwoLists(l, q, r, s, R, W),
         NEW x \in Proc, x \notin R, x \notin W
  PROVE  TwoLists(ReadyList(l, x), q, Append(r, x), s, R \cup {x}, W)
<1> DEFINE t == Append(r, x)
           n == Len(r)
           nx == [y \in Proc |-> IF y = x THEN NULL ELSE IF y = l.tail THEN x ELSE l.next[y]]
           m == ReadyList(l, x)
<1>1. /\ r \in Seq(R) /\ n \in Nat
      /\ \A i \in 1 .. n : r[i] \in R /\ r[i] \in Proc /\ r[i] \notin W /\ r[i] # NULL
      /\ \A i, j \in 1 .. n : r[i] = r[j] => i = j
      /\ l.head = IF n = 0 THEN NULL ELSE r[1]
      /\ l.tail = IF n = 0 THEN NULL ELSE r[n]
  BY TwoListsFacts
<1>2. m.head = (IF l.tail = NULL THEN x ELSE l.head) /\ m.tail = x /\ m.next = nx
  BY DEF ReadyList
<1>3. Lists(t, R \cup {x})
  BY ListsAppend DEF TwoLists
<1>4. /\ Len(t) = n + 1 /\ t[n + 1] = x /\ t # <<>>
      /\ \A i \in 1 .. n : t[i] = r[i]
  <2>1. r \in Seq(R \cup {x}) /\ x \in R \cup {x}
    BY <1>1, SeqMonotonic
  <2> QED BY <2>1, AppendProperties
<1>5. \A i \in 1 .. n : l.next[r[i]] = IF i < n THEN r[i + 1] ELSE NULL
  BY DEF TwoLists, Threaded
<1>6. /\ l.next \in [Proc -> Ptr] /\ Lists(s, W) /\ R \cap W = {} /\ R \cup W \subseteq Proc
      /\ Threaded(q, s, l.next)
      /\ \A y \in Proc \ (R \cup W) : l.next[y] = NULL
  BY DEF TwoLists
<1> HIDE DEF t, n, m
<1>7. Threaded(m.head, t, m.next)
  <2>1. m.head = t[1]
    BY <1>1, <1>2, <1>4
  <2>2. ASSUME NEW i \in 1 .. n + 1
        PROVE  nx[t[i]] = IF i < n + 1 THEN t[i + 1] ELSE NULL
    <3>1. CASE i = n + 1
      BY <1>1, <1>4, <3>1
    <3>2. CASE i = n /\ i # n + 1
      BY <1>1, <1>4, <3>2
    <3>3. CASE i < n
      <4>1. i \in 1 .. n /\ i + 1 \in 1 .. n /\ n \in 1 .. n /\ i # n
        BY <1>1, <3>3
      <4>2. r[i] # x /\ r[i] # l.tail /\ r[i] \in Proc
        BY <1>1, <4>1
      <4> QED BY <1>1, <1>4, <1>5, <3>3, <4>1, <4>2
    <3> QED BY <1>1, <3>1, <3>2, <3>3
  <2> QED BY <1>2, <1>4, <2>1, <2>2 DEF Threaded
<1>8. Threaded(q, s, m.next)
  <2>1. \A y \in W : nx[y] = l.next[y]
    <3> SUFFICES ASSUME NEW y \in W PROVE nx[y] = l.next[y]
      OBVIOUS
    <3>1. y \in Proc /\ y # x /\ NULL \notin Proc /\ y \notin R
      BY <1>6, ListAssumption DEF Proc
    <3>2. y # l.tail
      BY <1>1, <3>1
    <3> QED BY <3>1, <3>2
  <2> QED BY <1>2, <1>6, <2>1, ThreadedKept
<1>9. m.next \in [Proc -> Ptr]
  BY <1>2, <1>6 DEF Ptr
<1>10. \A y \in Proc \ ((R \cup {x}) \cup W) : m.next[y] = NULL
  <2> SUFFICES ASSUME NEW y \in Proc, y \notin R, y # x, y \notin W PROVE nx[y] = NULL
    BY <1>2
  <2>1. y # l.tail
    <3>1. NULL \notin Proc
      BY ListAssumption DEF Proc
    <3> QED BY <1>1, <3>1
  <2> QED BY <1>6, <2>1
<1>11. m.tail = IF t = <<>> THEN NULL ELSE t[Len(t)]
  BY <1>2, <1>4
<1>12. (R \cup {x}) \cap W = {} /\ (R \cup {x}) \cup W \subseteq Proc
  BY <1>6
<1> QED BY <1>3, <1>6, <1>7, <1>8, <1>9, <1>10, <1>11, <1>12 DEF TwoLists, t, m

\* next() takes the first of the ready pcbs out of its list.
LEMMA NextKeeps ==
  ASSUME NEW l, NEW q, NEW r, NEW s, NEW R, NEW W, TwoLists(l, q, r, s, R, W),
         l.head # NULL
  PROVE  /\ r # <<>> /\ Head(r) = l.head /\ Head(r) \in R
         /\ TwoLists(NextList(l), q, Tail(r), s, R \ {Head(r)}, W)
<1> DEFINE t == Tail(r)
           n == Len(r)
           h == l.head
           nx == [l.next EXCEPT ![h] = NULL]
           m == NextList(l)
<1>1. /\ r \in Seq(R) /\ n \in Nat
      /\ \A i \in 1 .. n : r[i] \in R /\ r[i] \in Proc /\ r[i] \notin W /\ r[i] # NULL
      /\ \A i, j \in 1 .. n : r[i] = r[j] => i = j
      /\ h = IF n = 0 THEN NULL ELSE r[1]
      /\ l.tail = IF n = 0 THEN NULL ELSE r[n]
  BY TwoListsFacts
<1>2. r # <<>> /\ n >= 1 /\ h = r[1] /\ Head(r) = h /\ h \in R /\ h \in Proc
  BY <1>1
<1>3. /\ m.head = l.next[h] /\ m.tail = (IF l.next[h] = NULL THEN NULL ELSE l.tail)
      /\ m.next = nx
  BY DEF NextList
<1>4. Lists(t, R \ {h})
  BY <1>2, ListsTail DEF TwoLists
<1>5. Len(t) = n - 1 /\ \A i \in 1 .. n - 1 : t[i] = r[i + 1]
  BY <1>1, <1>2, HeadTailProperties
<1>6. \A i \in 1 .. n : l.next[r[i]] = IF i < n THEN r[i + 1] ELSE NULL
  BY DEF TwoLists, Threaded
<1>7. /\ l.next \in [Proc -> Ptr] /\ Lists(s, W) /\ R \cap W = {} /\ R \cup W \subseteq Proc
      /\ Threaded(q, s, l.next)
      /\ \A y \in Proc \ (R \cup W) : l.next[y] = NULL
  BY DEF TwoLists
<1>8. t \in Seq(R)
  BY <1>1, <1>2, HeadTailProperties
<1>9. t = <<>> <=> n = 1
  <2> HIDE DEF t, n
  <2>1. t = <<>> <=> Len(t) = 0
    BY <1>8, NotEmpty
  <2> QED BY <1>1, <1>5, <2>1
<1> HIDE DEF t, n, m, h
<1>10. Threaded(m.head, t, m.next)
  <2>1. m.head = IF t = <<>> THEN NULL ELSE t[1]
    BY <1>1, <1>2, <1>3, <1>5, <1>6, <1>9
  <2>2. ASSUME NEW i \in 1 .. n - 1
        PROVE  nx[t[i]] = IF i < n - 1 THEN t[i + 1] ELSE NULL
    <3>1. i + 1 \in 1 .. n /\ 1 \in 1 .. n /\ i + 1 # 1 /\ (i < n - 1 <=> i + 1 < n)
          /\ (i < n - 1 => i + 1 \in 1 .. n - 1)
      BY <1>1, <1>2
    <3>2. t[i] = r[i + 1] /\ r[i + 1] # h /\ r[i + 1] \in Proc
      BY <1>1, <1>2, <1>5, <3>1
    <3>3. nx[t[i]] = l.next[r[i + 1]]
      BY <1>7, <3>2
    <3> QED BY <1>5, <1>6, <3>1, <3>3
  <2> QED BY <1>3, <1>5, <2>1, <2>2 DEF Threaded
<1>11. Threaded(q, s, m.next)
  <2>1. \A y \in W : nx[y] = l.next[y]
    BY <1>2, <1>7
  <2> QED BY <1>3, <1>7, <2>1, ThreadedKept
<1>12. m.next \in [Proc -> Ptr]
  BY <1>3, <1>7 DEF Ptr
<1>13. \A y \in Proc \ ((R \ {h}) \cup W) : m.next[y] = NULL
  BY <1>2, <1>3, <1>7
<1>14. m.tail = IF t = <<>> THEN NULL ELSE t[Len(t)]
  <2>1. CASE n = 1
    BY <1>1, <1>2, <1>3, <1>6, <1>9, <2>1
  <2>2. CASE n # 1
    <3>1. 1 \in 1 .. n /\ 2 \in 1 .. n /\ 1 < n /\ n - 1 \in 1 .. n - 1 /\ (n - 1) + 1 = n
      BY <1>1, <1>2, <2>2
    <3>2. l.next[h] = r[2]
      BY <1>2, <1>6, <3>1
    <3>3. l.next[h] # NULL
      BY <1>1, <3>1, <3>2
    <3> QED BY <1>1, <1>2, <1>3, <1>5, <1>9, <2>2, <3>1, <3>3
  <2> QED BY <2>1, <2>2
<1>15. (R \ {h}) \cap W = {} /\ (R \ {h}) \cup W \subseteq Proc
  BY <1>7
<1>16. TwoLists(m, q, t, s, R \ {h}, W)
  BY <1>4, <1>7, <1>10, <1>11, <1>12, <1>13, <1>14, <1>15 DEF TwoLists
<1> QED BY <1>2, <1>16 DEF t, m, h
\* sleep() links x in behind the first k sleepers, and leaves the ready list alone.
LEMMA InsertKeeps ==
  ASSUME NEW l, NEW q, NEW r, NEW s, NEW R, NEW W, TwoLists(l, q, r, s, R, W),
         NEW x \in Proc, x \notin R, x \notin W, NEW k \in 0 .. Len(s),
         NEW m, m.head = l.head, m.tail = l.tail, m.next \in [Proc -> Ptr],
         \A y \in Proc : m.next[y] = IF y = x THEN IF k < Len(s) THEN s[k + 1] ELSE NULL
                                     ELSE IF k > 0 /\ y = s[k] THEN x
                                     ELSE l.next[y]
  PROVE  TwoLists(m, IF k = 0 THEN x ELSE q, r, InsertAt(s, k + 1, x), R, W \cup {x})
<1> DEFINE t == InsertAt(s, k + 1, x)
           n == Len(s)
           f == IF k = 0 THEN x ELSE q
<1>1. /\ s \in Seq(W) /\ n \in Nat /\ k \in Nat /\ k <= n
      /\ \A i \in 1 .. n : s[i] \in W /\ s[i] \in Proc /\ s[i] \notin R /\ s[i] # NULL
      /\ \A i, j \in 1 .. n : s[i] = s[j] => i = j
      /\ q = IF n = 0 THEN NULL ELSE s[1]
  BY TwoListsFacts
<1>2. Lists(t, W \cup {x})
  BY ListsInsert DEF TwoLists
<1>3. /\ Len(t) = n + 1
      /\ \A i \in 1 .. k : t[i] = s[i]
      /\ t[k + 1] = x
      /\ \A i \in k + 2 .. n + 1 : t[i] = s[i - 1]
  <2>1. s \in Seq(W \cup {x}) /\ x \in W \cup {x}
    BY <1>1, SeqMonotonic
  <2>2. Inserted(t, s, k, x)
    BY <2>1, InsertElements
  <2> QED BY <2>2 DEF Inserted
<1>4. t # <<>>
  <2>1. t \in Seq(W \cup {x})
    BY <1>2 DEF Lists
  <2> HIDE DEF t
  <2> QED BY <1>1, <1>3, <2>1, NotEmpty
<1>5. \A i \in 1 .. n : l.next[s[i]] = IF i < n THEN s[i + 1] ELSE NULL
  BY DEF TwoLists, Threaded
<1>6. /\ l.next \in [Proc -> Ptr] /\ Lists(r, R) /\ R \cap W = {} /\ R \cup W \subseteq Proc
      /\ Threaded(l.head, r, l.next)
      /\ l.tail = IF r = <<>> THEN NULL ELSE r[Len(r)]
      /\ \A y \in Proc \ (R \cup W) : l.next[y] = NULL
  BY DEF TwoLists
<1>7. \A y \in Proc : m.next[y] = IF y = x THEN IF k < n THEN s[k + 1] ELSE NULL
                                  ELSE IF k > 0 /\ y = s[k] THEN x
                                  ELSE l.next[y]
  OBVIOUS
<1> HIDE DEF t, n, f
<1>8. Threaded(f, t, m.next)
  <2>1. f = t[1]
    BY <1>1, <1>3 DEF f
  <2>2. ASSUME NEW i \in 1 .. n + 1
        PROVE  m.next[t[i]] = IF i < n + 1 THEN t[i + 1] ELSE NULL
    <3>1. CASE i < k
      <4>1. i \in 1 .. k /\ i + 1 \in 1 .. k /\ i \in 1 .. n /\ k \in 1 .. n /\ i # k /\ i < n
            /\ i < n + 1
        BY <1>1, <3>1
      <4>2. s[i] \in Proc /\ s[i] # x /\ s[i] # s[k]
        BY <1>1, <4>1
      <4>3. m.next[s[i]] = s[i + 1]
        BY <1>5, <1>7, <4>1, <4>2
      <4> QED BY <1>3, <4>1, <4>3
    <3>2. CASE i = k
      <4>1. i \in 1 .. k /\ i \in 1 .. n /\ k > 0 /\ i < n + 1
        BY <1>1, <3>2
      <4>2. s[i] \in Proc /\ s[i] # x
        BY <1>1, <4>1
      <4> QED BY <1>3, <1>7, <3>2, <4>1, <4>2
    <3>3. CASE i = k + 1
      <4>1. (i < n + 1 <=> k < n) /\ (k < n => i + 1 \in k + 2 .. n + 1) /\ (i + 1) - 1 = k + 1
        BY <1>1, <3>3
      <4> QED BY <1>3, <1>7, <3>3, <4>1
    <3>4. CASE i > k + 1
      <4> DEFINE j == i - 1
      <4>1. j \in 1 .. n /\ j # k /\ (j < n <=> i < n + 1) /\ j + 1 = i
            /\ (i < n + 1 => i + 1 \in k + 2 .. n + 1) /\ (i + 1) - 1 = j + 1
            /\ i \in k + 2 .. n + 1
            /\ (k > 0 => k \in 1 .. n)
        BY <1>1, <3>4
      <4>2. t[i] = s[j] /\ (i < n + 1 => t[i + 1] = s[j + 1])
        BY <1>3, <4>1
      <4> HIDE DEF j
      <4>3. s[j] \in Proc /\ s[j] # x /\ (k > 0 => s[j] # s[k])
        BY <1>1, <4>1
      <4> QED BY <1>5, <1>7, <4>1, <4>2, <4>3
    <3> QED BY <1>1, <3>1, <3>2, <3>3, <3>4
  <2> QED BY <1>3, <1>4, <2>1, <2>2 DEF Threaded
<1>9. Threaded(m.head, r, m.next)
  <2>1. \A y \in R : m.next[y] = l.next[y]
    BY <1>1, <1>6, <1>7
  <2> QED BY <1>6, <2>1, ThreadedKept
<1>10. \A y \in Proc \ (R \cup (W \cup {x})) : m.next[y] = NULL
  BY <1>1, <1>6, <1>7
<1>11. R \cap (W \cup {x}) = {} /\ R \cup (W \cup {x}) \subseteq Proc
  BY <1>6
<1> QED BY <1>2, <1>6, <1>8, <1>9, <1>10, <1>11 DEF TwoLists, t, f


\* tick() takes the first sleeper out of its list and readies it.
LEMMA WakeKeeps ==
  ASSUME NEW l, NEW q, NEW r, NEW s, NEW R, NEW W, TwoLists(l, q, r, s, R, W), q # NULL
  PROVE  /\ s # <<>> /\ Head(s) = q /\ q \in W
         /\ TwoLists(ReadyList(l, q), l.next[q], Append(r, q), Tail(s), R \cup {q}, W \ {q})
<1> DEFINE t == Tail(s)
           n == Len(s)
           nx == [l.next EXCEPT ![q] = NULL]
           m == [head |-> l.head, tail |-> l.tail, next |-> nx]
<1>1. /\ s \in Seq(W) /\ n \in Nat
      /\ \A i \in 1 .. n : s[i] \in W /\ s[i] \in Proc /\ s[i] \notin R /\ s[i] # NULL
      /\ \A i, j \in 1 .. n : s[i] = s[j] => i = j
      /\ q = IF n = 0 THEN NULL ELSE s[1]
  BY TwoListsFacts
<1>2. s # <<>> /\ n >= 1 /\ q = s[1] /\ Head(s) = q /\ q \in W /\ q \in Proc /\ q \notin R
  BY <1>1
<1>3. m.head = l.head /\ m.tail = l.tail /\ m.next = nx
  OBVIOUS
<1>4. Lists(t, W \ {q})
  BY <1>2, ListsTail DEF TwoLists
<1>5. Len(t) = n - 1 /\ \A i \in 1 .. n - 1 : t[i] = s[i + 1]
  BY <1>1, <1>2, HeadTailProperties
<1>6. \A i \in 1 .. n : l.next[s[i]] = IF i < n THEN s[i + 1] ELSE NULL
  BY DEF TwoLists, Threaded
<1>7. /\ l.next \in [Proc -> Ptr] /\ Lists(r, R) /\ R \cap W = {} /\ R \cup W \subseteq Proc
      /\ Threaded(l.head, r, l.next)
      /\ l.tail = IF r = <<>> THEN NULL ELSE r[Len(r)]
      /\ \A y \in Proc \ (R \cup W) : l.next[y] = NULL
  BY DEF TwoLists
<1>8. t = <<>> <=> n = 1
  <2>1. t \in Seq(W)
    BY <1>1, <1>2, HeadTailProperties
  <2> HIDE DEF t, n
  <2>2. t = <<>> <=> Len(t) = 0
    BY <2>1, NotEmpty
  <2> QED BY <1>1, <1>5, <2>2
<1> HIDE DEF t, n, m
<1>9. Threaded(l.next[q], t, m.next)
  <2>1. l.next[q] = IF t = <<>> THEN NULL ELSE t[1]
    BY <1>1, <1>2, <1>5, <1>6, <1>8
  <2>2. ASSUME NEW i \in 1 .. n - 1
        PROVE  nx[t[i]] = IF i < n - 1 THEN t[i + 1] ELSE NULL
    <3>1. i + 1 \in 1 .. n /\ 1 \in 1 .. n /\ i + 1 # 1 /\ (i < n - 1 <=> i + 1 < n)
          /\ (i < n - 1 => i + 1 \in 1 .. n - 1)
      BY <1>1, <1>2
    <3>2. t[i] = s[i + 1] /\ s[i + 1] # q /\ s[i + 1] \in Proc
      BY <1>1, <1>2, <1>5, <3>1
    <3>3. nx[t[i]] = l.next[s[i + 1]]
      BY <1>7, <3>2
    <3> QED BY <1>5, <1>6, <3>1, <3>3
  <2> QED BY <1>3, <1>5, <2>1, <2>2 DEF Threaded
<1>10. Threaded(m.head, r, m.next)
  <2>1. \A y \in R : nx[y] = l.next[y]
    BY <1>2, <1>7
  <2> QED BY <1>3, <1>7, <2>1, ThreadedKept
<1>11. m.next \in [Proc -> Ptr]
  BY <1>3, <1>7 DEF Ptr
<1>12. \A y \in Proc \ (R \cup (W \ {q})) : m.next[y] = NULL
  BY <1>2, <1>3, <1>7
<1>13. R \cap (W \ {q}) = {} /\ R \cup (W \ {q}) \subseteq Proc
  BY <1>7
<1>14. TwoLists(m, l.next[q], r, t, R, W \ {q})
  BY <1>3, <1>4, <1>7, <1>9, <1>10, <1>11, <1>12, <1>13 DEF TwoLists
<1>15. TwoLists(ReadyList(m, q), l.next[q], Append(r, q), t, R \cup {q}, W \ {q})
  BY <1>2, <1>14, ReadyKeeps
<1>16. ReadyList(m, q) = ReadyList(l, q)
  BY <1>2, <1>3, <1>7 DEF ReadyList
<1> QED BY <1>2, <1>15, <1>16 DEF t
-----------------------------------------------------------------------------
\* r is the ready list, s the list of sleepers, and p is in neither.
Stand(r, s, R, W) ==
  /\ TwoLists(Now(next), sleepQ, r, s, R, W)
  /\ p \in Proc \ (R \cup W)

\* What the two lists read as.
LEMMA StandReads ==
  ASSUME NEW r, NEW s, NEW R, NEW W, Stand(r, s, R, W)
  PROVE  ListFrom(head) = r /\ ListFrom(sleepQ) = s /\ Listed = R \cup W
<1>1. /\ Lists(r, R) /\ Lists(s, W) /\ R \in SUBSET Proc /\ W \in SUBSET Proc
      /\ Threaded(head, r, next) /\ Threaded(sleepQ, s, next)
  BY DEF Stand, TwoLists, Now
<1>2. Along(head, next) = r /\ Along(sleepQ, next) = s
  BY <1>1, AlongIs
<1>3. Range(r) = R /\ Range(s) = W
  BY <1>1 DEF Lists
<1> QED BY <1>2, <1>3 DEF ListFrom, Listed

\* p = next().
LEMMA TurnStands ==
  ASSUME NEW l, NEW q, NEW r, NEW s, NEW R, NEW W, TwoLists(l, q, r, s, R, W),
         Turn(l), sleepQ' = q
  PROVE  r # <<>> /\ p' = Head(r) /\ Stand(Tail(r), s, R \ {Head(r)}, W)'
<1>1. l.head # NULL /\ p' = l.head /\ SetLists(NextList(l))
  BY DEF Turn
<1>2. /\ r # <<>> /\ Head(r) = l.head /\ Head(r) \in R
      /\ TwoLists(NextList(l), q, Tail(r), s, R \ {Head(r)}, W)
  BY <1>1, NextKeeps
<1>3. Now(next)' = NextList(l)
  BY <1>1 DEF Now, SetLists, NextList
<1>4. Head(r) \in Proc \ W
  BY <1>2 DEF TwoLists
<1> QED BY <1>1, <1>2, <1>3, <1>4 DEF Stand

\* ready(p), then p = next().
LEMMA YieldStands ==
  ASSUME NEW r, NEW s, NEW R, NEW W, Stand(r, s, R, W),
         Turn(ReadyList(Now(next), p)), UNCHANGED sleepQ, NEW x, x = p
  PROVE  LET t == Append(r, x)
         IN  p' = Head(t) /\ Stand(Tail(t), s, (R \cup {x}) \ {Head(t)}, W)'
<1>1. TwoLists(ReadyList(Now(next), x), sleepQ, Append(r, x), s, R \cup {x}, W)
  BY ReadyKeeps DEF Stand
<1> QED BY <1>1, TurnStands

\* A process that blocks: the head of the ready list runs.
LEMMA BlockStands ==
  ASSUME NEW r, NEW s, NEW R, NEW W, Stand(r, s, R, W), Block
  PROVE  r # <<>> /\ p' = Head(r) /\ Stand(Tail(r), s, R \ {Head(r)}, W)'
BY TurnStands DEF Stand, Block

\* A blocked process that wakes goes to the end of the ready list.
LEMMA WakeStands ==
  ASSUME NEW r, NEW s, NEW R, NEW W, Stand(r, s, R, W), NEW q \in Proc, Wake(q)
  PROVE  q \notin R \cup W \cup {p} /\ Stand(Append(r, q), s, R \cup {q}, W)'
<1>1. q \notin R \cup W \cup {p}
  BY StandReads DEF Wake
<1>2. TwoLists(ReadyList(Now(next), q), sleepQ, Append(r, q), s, R \cup {q}, W)
  BY <1>1, ReadyKeeps DEF Stand
<1>3. Now(next)' = ReadyList(Now(next), q) /\ UNCHANGED <<p, sleepQ>>
  BY DEF Wake, Now, SetLists, ReadyList
<1> QED BY <1>1, <1>2, <1>3 DEF Stand

\* sleep() puts the caller in front of all sleepers.
LEMMA FirstStands ==
  ASSUME NEW r, NEW s, NEW R, NEW W, Stand(r, s, R, W), NEW n \in SleepTicks, SleepFirst(n),
         NEW x, x = p
  PROVE  /\ r # <<>> /\ p' = Head(r)
         /\ Stand(Tail(r), InsertAt(s, 1, x), R \ {Head(r)}, W \cup {x})'
<1> DEFINE m == Now([next EXCEPT ![p] = sleepQ])
<1>1. TwoLists(Now(next), sleepQ, r, s, R, W) /\ p \in Proc /\ p \notin R /\ p \notin W
  BY DEF Stand
<1>2. /\ s \in Seq(W) /\ Len(s) \in Nat /\ sleepQ = IF Len(s) = 0 THEN NULL ELSE s[1]
      /\ \A i \in 1 .. Len(s) : s[i] \in Proc
  BY <1>1, TwoListsFacts
<1>3. next \in [Proc -> Ptr]
  BY <1>1 DEF TwoLists, Now
<1>4. /\ m.head = Now(next).head /\ m.tail = Now(next).tail
      /\ m.next = [next EXCEPT ![p] = sleepQ]
  BY DEF Now
<1>5. m.next \in [Proc -> Ptr]
  <2>1. sleepQ \in Ptr
    BY <1>2 DEF Ptr
  <2> QED BY <1>3, <1>4, <2>1
<1>6. \A y \in Proc : m.next[y] = IF y = p THEN IF 0 < Len(s) THEN s[0 + 1] ELSE NULL
                                  ELSE IF 0 > 0 /\ y = s[0] THEN p
                                  ELSE Now(next).next[y]
  BY <1>1, <1>2, <1>3, <1>4 DEF Now
<1>7. 0 \in 0 .. Len(s)
  BY <1>2
<1> HIDE DEF m
<1>8. TwoLists(m, p, r, InsertAt(s, 0 + 1, p), R, W \cup {p})
  BY <1>1, <1>4, <1>5, <1>6, <1>7, InsertKeeps
<1>9. Turn(m) /\ sleepQ' = p
  BY DEF SleepFirst, m
<1> QED BY <1>8, <1>9, TurnStands

\* The search has come to the k-th sleeper.
LEMMA LinkStands ==
  ASSUME NEW r, NEW s, NEW R, NEW W, Stand(r, s, R, W), NEW k \in 1 .. Len(s), tmp = s[k], Link,
         NEW x, x = p
  PROVE  /\ r # <<>> /\ p' = Head(r)
         /\ Stand(Tail(r), InsertAt(s, k + 1, x), R \ {Head(r)}, W \cup {x})'
<1> DEFINE m == Now([next EXCEPT ![p] = next[tmp], ![tmp] = p])
<1>1. TwoLists(Now(next), sleepQ, r, s, R, W) /\ p \in Proc /\ p \notin R /\ p \notin W
  BY DEF Stand
<1>2. /\ s \in Seq(W) /\ Len(s) \in Nat /\ sleepQ = IF Len(s) = 0 THEN NULL ELSE s[1]
      /\ \A i \in 1 .. Len(s) : s[i] \in Proc /\ s[i] \in W
  BY <1>1, TwoListsFacts
<1>3. /\ next \in [Proc -> Ptr]
      /\ \A i \in 1 .. Len(s) : next[s[i]] = IF i < Len(s) THEN s[i + 1] ELSE NULL
  BY <1>1 DEF TwoLists, Threaded, Now
<1>4. /\ m.head = Now(next).head /\ m.tail = Now(next).tail
      /\ m.next = [next EXCEPT ![p] = next[tmp], ![tmp] = p]
  BY DEF Now
<1>5. tmp \in Proc /\ tmp # p /\ next[tmp] = IF k < Len(s) THEN s[k + 1] ELSE NULL
  BY <1>1, <1>2, <1>3
<1>6. m.next \in [Proc -> Ptr]
  <2>1. next[tmp] \in Ptr /\ p \in Ptr
    BY <1>1, <1>3, <1>5 DEF Ptr
  <2> QED BY <1>1, <1>3, <1>4, <2>1
<1>7. \A y \in Proc : m.next[y] = IF y = p THEN IF k < Len(s) THEN s[k + 1] ELSE NULL
                                  ELSE IF k > 0 /\ y = s[k] THEN p
                                  ELSE Now(next).next[y]
  BY <1>1, <1>3, <1>4, <1>5 DEF Now
<1>8. k \in 0 .. Len(s) /\ k # 0
  BY <1>2
<1> HIDE DEF m
<1>9. TwoLists(m, IF k = 0 THEN p ELSE sleepQ, r, InsertAt(s, k + 1, p), R, W \cup {p})
  BY <1>1, <1>4, <1>6, <1>7, <1>8, InsertKeeps
<1>10. Turn(m) /\ sleepQ' = sleepQ
  BY DEF Link, m
<1> QED BY <1>8, <1>9, <1>10, TurnStands

\* tick() moves the first sleeper to the end of the ready list.
LEMMA WakeOneStands ==
  ASSUME NEW r, NEW s, NEW R, NEW W, Stand(r, s, R, W), WakeOne
  PROVE  /\ s # <<>> /\ Head(s) = sleepQ
         /\ Stand(Append(r, Head(s)), Tail(s), R \cup {Head(s)}, W \ {Head(s)})'
<1>1. sleepQ # NULL /\ UNCHANGED p
  BY DEF WakeOne
<1>2. /\ s # <<>> /\ Head(s) = sleepQ /\ sleepQ \in W
      /\ TwoLists(ReadyList(Now(next), sleepQ), next[sleepQ], Append(r, sleepQ), Tail(s),
                  R \cup {sleepQ}, W \ {sleepQ})
  <2>1. TwoLists(Now(next), sleepQ, r, s, R, W) /\ Now(next).next = next
    BY DEF Stand, Now
  <2> HIDE DEF Now
  <2> QED BY <1>1, <2>1, WakeKeeps
<1>3. Now(next)' = ReadyList(Now(next), sleepQ) /\ sleepQ' = next[sleepQ]
  BY DEF WakeOne, Now, SetLists, ReadyList
<1> QED BY <1>1, <1>2, <1>3 DEF Stand
-----------------------------------------------------------------------------
\* All differences but the first are still to be waited.
Deltas(s) == \A i \in 2 .. Len(s) : sleepdiff[s[i]] >= 0

(***************************************************************************)
(* The inductive invariant: the pointers stand for two lists, and while    *)
(* sleep() searches it is at one of the sleepers.                          *)
(***************************************************************************)
Types ==
  /\ sleepdiff \in [Proc -> Int] /\ len \in Nat
  /\ pc \in {"run", "search", "tick"} /\ (pc = "search" <=> tmp # NULL)

ThreadsAs(r, s, R, W) == Stand(r, s, R, W) /\ Deltas(s) /\ tmp \in W \cup {NULL}

Threads == Types /\ \E r, s, R, W : ThreadsAs(r, s, R, W)

\* The types of pointers that stand for two lists.
LEMMA StandTypes ==
  ASSUME NEW r, NEW s, NEW R, NEW W, Stand(r, s, R, W)
  PROVE  /\ R \in SUBSET Proc /\ W \in SUBSET Proc /\ r \in Seq(R) /\ s \in Seq(W)
         /\ {head, tail, sleepQ} \subseteq Ptr /\ next \in [Proc -> Ptr]
         /\ p \in Proc /\ p \notin R /\ p \notin W
         /\ sleepQ = IF Len(s) = 0 THEN NULL ELSE s[1]
<1>1. TwoLists(Now(next), sleepQ, r, s, R, W) /\ p \in Proc /\ p \notin R /\ p \notin W
  BY DEF Stand
<1>2. /\ r \in Seq(R) /\ Len(r) \in Nat /\ s \in Seq(W) /\ Len(s) \in Nat
      /\ \A i \in 1 .. Len(r) : r[i] \in Proc
      /\ \A i \in 1 .. Len(s) : s[i] \in Proc
      /\ Now(next).head = IF Len(r) = 0 THEN NULL ELSE r[1]
      /\ Now(next).tail = IF Len(r) = 0 THEN NULL ELSE r[Len(r)]
      /\ sleepQ = IF Len(s) = 0 THEN NULL ELSE s[1]
  <2> HIDE DEF Now
  <2> QED BY <1>1, TwoListsFacts
<1>3. {head, tail, sleepQ} \subseteq Ptr
  BY <1>2 DEF Now, Ptr
<1>4. R \in SUBSET Proc /\ W \in SUBSET Proc /\ next \in [Proc -> Ptr]
  BY <1>1 DEF TwoLists, Now
<1> QED BY <1>1, <1>2, <1>3, <1>4

\* initproc(): idle runs, root is ready, nobody sleeps.
LEMMA InitStands == Init => Stand(<<1>>, <<>>, {1}, {})
<1> SUFFICES ASSUME Init PROVE Stand(<<1>>, <<>>, {1}, {})
  OBVIOUS
<1>1. /\ p = 0 /\ head = 1 /\ tail = 1 /\ sleepQ = NULL /\ next = [q \in Proc |-> NULL]
  BY DEF Init, Idle
<1>2. 0 \in Proc /\ 1 \in Proc /\ NULL \notin Proc
  BY ListAssumption DEF Proc
<1> DEFINE r == <<1>>
           s == <<>>
<1>3. Lists(r, {1}) /\ Lists(s, {})
  BY DEF Lists, IsInjective, Range
<1>4. Threaded(head, r, next) /\ Threaded(sleepQ, s, next)
  BY <1>1, <1>2 DEF Threaded
<1>5. TwoLists(Now(next), sleepQ, r, s, {1}, {})
  BY <1>1, <1>2, <1>3, <1>4 DEF TwoLists, Now, Ptr
<1> QED BY <1>1, <1>2, <1>5 DEF Stand

\* The invariant holds at the start.
LEMMA InitThreads == Init => Threads
<1> SUFFICES ASSUME Init PROVE Threads
  OBVIOUS
<1>1. /\ sleepdiff = [q \in Proc |-> 0] /\ pc = "run" /\ tmp = NULL /\ len = 0
  BY DEF Init
<1>2. Stand(<<1>>, <<>>, {1}, {}) /\ Deltas(<<>>)
  BY InitStands DEF Deltas
<1>3. ThreadsAs(<<1>>, <<>>, {1}, {})
  BY <1>1, <1>2 DEF ThreadsAs
<1> QED BY <1>1, <1>3 DEF Threads, Types

\* The lists after a step show the invariant.
LEMMA ThreadsIntro ==
  ASSUME NEW r, NEW s, NEW R, NEW W, Stand(r, s, R, W)', Deltas(s)', tmp' \in W \cup {NULL},
         Types'
  PROVE  Threads'
<1>1. ThreadsAs(r, s, R, W)'
  BY DEF ThreadsAs
<1> QED BY <1>1 DEF Threads

\* Every step of the kernel, one by one.
LEMMA NextThreads == Threads /\ [Next]_vars => Threads'
<1> SUFFICES ASSUME Threads, [Next]_vars PROVE Threads'
  OBVIOUS
<1>1. /\ sleepdiff \in [Proc -> Int] /\ len \in Nat
      /\ pc \in {"run", "search", "tick"} /\ (pc = "search" <=> tmp # NULL)
  BY DEF Threads, Types
<1>2. PICK r, s, R, W : Stand(r, s, R, W) /\ Deltas(s) /\ tmp \in W \cup {NULL}
  BY DEF Threads, ThreadsAs
<1>3. PICK x : x = p
  OBVIOUS
<1>4. R \in SUBSET Proc /\ W \in SUBSET Proc /\ s \in Seq(W) /\ x \in Proc /\ x \notin R
      /\ x \notin W /\ sleepQ = IF Len(s) = 0 THEN NULL ELSE s[1]
  BY <1>2, <1>3, StandTypes
<1>5. /\ Lists(s, W) /\ Len(s) \in Nat
      /\ \A i \in 1 .. Len(s) : s[i] \in W /\ s[i] \in Proc
      /\ \A i, j \in 1 .. Len(s) : s[i] = s[j] => i = j
      /\ \A y \in W : \E i \in 1 .. Len(s) : s[i] = y
  <2>1. Lists(s, W)
    BY <1>2 DEF Stand, TwoLists
  <2> QED BY <1>4, <2>1, ListsFacts
<1>6. NULL \notin Proc
  BY ListAssumption DEF Proc
<1>7. ASSUME UNCHANGED sleepdiff PROVE Deltas(s)'
  BY <1>2, <1>7 DEF Deltas
<1>8. ASSUME Turn(ReadyList(Now(next), p)), UNCHANGED <<sleepQ, sleepdiff, len>>, tmp' = NULL
      PROVE  Threads'
  <2> DEFINE t == Append(r, x)
  <2>1. Stand(Tail(t), s, (R \cup {x}) \ {Head(t)}, W)'
    BY <1>2, <1>3, <1>8, YieldStands
  <2>2. Types'
    BY <1>1, <1>8 DEF Turn, Types
  <2> HIDE DEF t
  <2> QED BY <1>7, <1>8, <2>1, <2>2, ThreadsIntro
<1>9. CASE Yield \/ TickIdle \/ TickDone
  BY <1>1, <1>8, <1>9 DEF Yield, TickIdle, TickDone
<1>10. CASE Block
  <2>1. Stand(Tail(r), s, R \ {Head(r)}, W)'
    BY <1>2, <1>10, BlockStands
  <2>2. Types' /\ UNCHANGED <<sleepdiff, tmp>>
    BY <1>1, <1>10 DEF Block, Turn, Types
  <2> QED BY <1>2, <1>7, <2>1, <2>2, ThreadsIntro
<1>11. ASSUME NEW q \in Proc, Wake(q) PROVE Threads'
  <2>1. Stand(Append(r, q), s, R \cup {q}, W)'
    BY <1>2, <1>11, WakeStands
  <2>2. Types' /\ UNCHANGED <<sleepdiff, tmp>>
    BY <1>1, <1>11 DEF Wake, Types
  <2> QED BY <1>2, <1>7, <2>1, <2>2, ThreadsIntro
<1>12. ASSUME NEW n \in SleepTicks, SleepFirst(n) PROVE Threads'
  <2> DEFINE t == InsertAt(s, 1, x)
  <2>1. Stand(Tail(r), t, R \ {Head(r)}, W \cup {x})'
    BY <1>2, <1>3, <1>12, FirstStands
  <2>2. /\ pc = "run" /\ pc' = "run" /\ UNCHANGED <<tmp, len>> /\ n \in Int
        /\ sleepQ # NULL => sleepdiff[sleepQ] > n
        /\ sleepdiff' = IF sleepQ = NULL THEN [sleepdiff EXCEPT ![x] = n]
                        ELSE [sleepdiff EXCEPT ![sleepQ] = @ - n, ![x] = n]
    BY <1>3, <1>12, ListAssumption DEF SleepFirst, Turn, HeadDiff
  <2>3. Len(t) = Len(s) + 1 /\ \A i \in 2 .. Len(s) + 1 : t[i] = s[i - 1]
    <3>1. s \in Seq(W \cup {x}) /\ x \in W \cup {x} /\ 0 \in 0 .. Len(s)
      BY <1>4, <1>5, SeqMonotonic
    <3>2. Inserted(InsertAt(s, 0 + 1, x), s, 0, x)
      BY <3>1, InsertElements
    <3> QED BY <3>2 DEF Inserted
  <2>4. sleepdiff' = [y \in Proc |-> IF y = x THEN n
                                     ELSE IF y = sleepQ THEN sleepdiff[y] - n
                                     ELSE sleepdiff[y]]
    <3>1. CASE sleepQ = NULL
      BY <1>1, <1>6, <2>2, <3>1
    <3>2. CASE sleepQ # NULL
      <4>1. sleepQ \in Proc /\ sleepQ # x
        BY <1>4, <1>5, <3>2
      <4> QED BY <1>1, <1>4, <2>2, <3>2, <4>1
    <3> QED BY <3>1, <3>2
  <2> HIDE DEF t
  <2>5. Deltas(t)'
    <3> SUFFICES ASSUME NEW i \in 2 .. Len(s) + 1 PROVE sleepdiff'[t[i]] >= 0
      BY <2>3 DEF Deltas
    <3>1. i - 1 \in 1 .. Len(s) /\ t[i] = s[i - 1] /\ Len(s) # 0 /\ 1 \in 1 .. Len(s)
      BY <1>5, <2>3
    <3>2. CASE i = 2
      <4>1. t[i] = sleepQ /\ sleepQ \in Proc /\ sleepQ # NULL /\ sleepQ # x
        BY <1>4, <1>5, <1>6, <3>1, <3>2
      <4> QED BY <1>1, <2>2, <2>4, <4>1
    <3>3. CASE i # 2
      <4>1. i - 1 \in 2 .. Len(s) /\ i - 1 # 1
        BY <1>5, <3>1, <3>3
      <4>2. s[i - 1] # s[1] /\ s[i - 1] # x /\ s[i - 1] \in Proc /\ sleepQ = s[1]
        BY <1>4, <1>5, <3>1, <4>1
      <4>3. sleepdiff'[s[i - 1]] = sleepdiff[s[i - 1]]
        BY <1>1, <2>4, <4>2
      <4> QED BY <1>2, <3>1, <4>1, <4>3 DEF Deltas
    <3> QED BY <3>2, <3>3
  <2>6. Types'
    <3>1. \A y \in Proc : sleepdiff[y] \in Int /\ sleepdiff[y] - n \in Int
      BY <1>1, <2>2
    <3>2. sleepdiff' \in [Proc -> Int]
      BY <2>2, <2>4, <3>1
    <3> QED BY <1>1, <2>2, <3>2 DEF Types
  <2> QED BY <1>2, <2>1, <2>2, <2>5, <2>6, ThreadsIntro
<1>13. ASSUME NEW n \in SleepTicks, SleepSearch(n) PROVE Threads'
  <2>1. /\ UNCHANGED <<p, head, tail, sleepQ, next, sleepdiff>> /\ sleepQ # NULL
        /\ len' = n - sleepdiff[sleepQ] /\ n >= sleepdiff[sleepQ] /\ tmp' = sleepQ /\ pc' = "search"
        /\ n \in Int
    BY <1>13, ListAssumption DEF SleepSearch, readyVars
  <2>2. Stand(r, s, R, W)'
    BY <1>2, <2>1 DEF Stand, Now
  <2>3. tmp' \in W /\ tmp' \in Proc
    BY <1>4, <1>5, <2>1
  <2>4. Types'
    BY <1>1, <1>6, <2>1, <2>3 DEF Types
  <2> QED BY <1>7, <2>1, <2>2, <2>3, <2>4, ThreadsIntro
<1>14. ASSUME pc = "search"
       PROVE  \E k \in 1 .. Len(s) :
                tmp = s[k] /\ next[tmp] = IF k < Len(s) THEN s[k + 1] ELSE NULL
  <2>1. tmp \in W
    BY <1>1, <1>2, <1>14
  <2>2. \A i \in 1 .. Len(s) : next[s[i]] = IF i < Len(s) THEN s[i + 1] ELSE NULL
    BY <1>2 DEF Stand, TwoLists, Threaded, Now
  <2> QED BY <1>5, <2>1, <2>2
<1>15. CASE Search
  <2>1. /\ UNCHANGED <<p, head, tail, sleepQ, next, sleepdiff, pc>> /\ pc = "search"
        /\ next[tmp] # NULL /\ ~ (len < sleepdiff[next[tmp]])
        /\ len' = len - sleepdiff[next[tmp]] /\ tmp' = next[tmp]
    BY <1>15 DEF Search, Stops, readyVars
  <2>2. Stand(r, s, R, W)'
    BY <1>2, <2>1 DEF Stand, Now
  <2>3. PICK k \in 1 .. Len(s) : next[tmp] = IF k < Len(s) THEN s[k + 1] ELSE NULL
    BY <1>14, <2>1
  <2>4. k + 1 \in 1 .. Len(s) /\ tmp' = s[k + 1]
    BY <1>5, <2>1, <2>3
  <2>5. tmp' \in W /\ tmp' \in Proc
    BY <1>5, <2>4
  <2>6. Types'
    BY <1>1, <1>6, <2>1, <2>5 DEF Types
  <2> QED BY <1>7, <2>1, <2>2, <2>5, <2>6, ThreadsIntro
<1>16. CASE Link
  <2>1. /\ pc = "search" /\ pc' = "run" /\ tmp' = NULL /\ len' = 0
        /\ next[tmp] # NULL => len < sleepdiff[next[tmp]]
        /\ sleepdiff' = [q \in Proc |-> IF q = x THEN len
                                        ELSE IF q = next[tmp] THEN sleepdiff[q] - len
                                        ELSE sleepdiff[q]]
    BY <1>3, <1>16 DEF Link, Stops, Turn
  <2>2. PICK k \in 1 .. Len(s) :
          tmp = s[k] /\ next[tmp] = IF k < Len(s) THEN s[k + 1] ELSE NULL
    BY <1>14, <2>1
  <2> DEFINE t == InsertAt(s, k + 1, x)
  <2>3. Stand(Tail(r), t, R \ {Head(r)}, W \cup {x})'
    BY <1>2, <1>3, <1>16, <2>2, LinkStands
  <2>4. /\ Len(t) = Len(s) + 1
        /\ \A i \in 1 .. k : t[i] = s[i]
        /\ t[k + 1] = x
        /\ \A i \in k + 2 .. Len(s) + 1 : t[i] = s[i - 1]
    <3>1. s \in Seq(W \cup {x}) /\ x \in W \cup {x} /\ k \in 0 .. Len(s)
      BY <1>4, <1>5, SeqMonotonic
    <3>2. Inserted(t, s, k, x)
      BY <3>1, InsertElements
    <3> QED BY <3>2 DEF Inserted
  <2>5. sleepdiff' \in [Proc -> Int]
    BY <1>1, <2>1
  <2> HIDE DEF t
  <2>6. Deltas(t)'
    <3> SUFFICES ASSUME NEW i \in 2 .. Len(s) + 1 PROVE sleepdiff'[t[i]] >= 0
      BY <2>4 DEF Deltas
    <3>1. ASSUME NEW j \in 2 .. Len(s), t[i] = s[j] PROVE sleepdiff'[t[i]] >= 0
      <4>1. j \in 1 .. Len(s)
        BY <1>5
      <4>2. s[j] \in Proc /\ s[j] # x
        <5>1. s[j] \in W /\ s[j] \in Proc
          BY <1>5, <4>1
        <5> QED BY <1>4, <5>1
      <4>3. sleepdiff[s[j]] >= 0
        BY <1>2 DEF Deltas
      <4>4. sleepdiff[s[j]] \in Int /\ sleepdiff'[s[j]] = IF s[j] = next[tmp] THEN sleepdiff[s[j]] - len
                                                        ELSE sleepdiff[s[j]]
        BY <1>1, <2>1, <4>2
      <4>5. s[j] = next[tmp] => len < sleepdiff[s[j]]
        BY <1>6, <2>1, <4>2
      <4> QED BY <1>1, <3>1, <4>3, <4>4, <4>5
    <3>2. CASE i <= k
      BY <1>5, <2>4, <3>1, <3>2
    <3>3. CASE i = k + 1
      BY <1>1, <1>4, <2>1, <2>4, <3>3
    <3>4. CASE i > k + 1
      <4>1. i - 1 \in 2 .. Len(s) /\ i \in k + 2 .. Len(s) + 1
        BY <1>5, <3>4
      <4> QED BY <2>4, <3>1, <4>1
    <3> QED BY <1>5, <3>2, <3>3, <3>4
  <2>7. Types'
    BY <2>1, <2>5 DEF Types
  <2> QED BY <2>1, <2>3, <2>6, <2>7, ThreadsIntro
<1>17. CASE Tick
  <2>1. /\ UNCHANGED <<p, head, tail, sleepQ, next, tmp, len>> /\ pc = "run" /\ pc' = "tick"
        /\ sleepQ # NULL /\ sleepdiff' = [sleepdiff EXCEPT ![sleepQ] = @ - 1]
    BY <1>17 DEF Tick, readyVars
  <2>2. Stand(r, s, R, W)'
    BY <1>2, <2>1 DEF Stand, Now
  <2>3. Types'
    BY <1>1, <1>4, <1>5, <2>1 DEF Types
  <2>4. Deltas(s)'
    <3> SUFFICES ASSUME NEW i \in 2 .. Len(s) PROVE sleepdiff'[s[i]] >= 0
      BY DEF Deltas
    <3>1. i \in 1 .. Len(s) /\ 1 \in 1 .. Len(s) /\ i # 1
      BY <1>5
    <3>2. s[i] \in Proc /\ s[i] # s[1] /\ sleepQ = s[1]
      BY <1>4, <1>5, <2>1, <3>1
    <3> QED BY <1>1, <1>2, <2>1, <3>2 DEF Deltas
  <2> QED BY <1>2, <2>1, <2>2, <2>3, <2>4, ThreadsIntro
<1>18. CASE WakeOne
  <2>1. UNCHANGED <<sleepdiff, pc, tmp, len>> /\ pc = "tick"
    BY <1>18 DEF WakeOne
  <2>2. s # <<>> /\ Stand(Append(r, Head(s)), Tail(s), R \cup {Head(s)}, W \ {Head(s)})'
    BY <1>2, <1>18, WakeOneStands
  <2>3. Types' /\ tmp' = NULL
    BY <1>1, <2>1 DEF Types
  <2> DEFINE t == Tail(s)
  <2>4. Deltas(t)'
    <3>1. Len(t) = Len(s) - 1 /\ \A i \in 1 .. Len(t) : t[i] = s[i + 1]
      BY <1>4, <2>2, HeadTailProperties
    <3> HIDE DEF t
    <3> SUFFICES ASSUME NEW i \in 2 .. Len(t) PROVE sleepdiff[t[i]] >= 0
      BY <2>1 DEF Deltas
    <3>2. i \in 1 .. Len(t) /\ i + 1 \in 2 .. Len(s)
      BY <1>5, <3>1
    <3> QED BY <1>2, <3>1, <3>2 DEF Deltas
  <2> QED BY <2>2, <2>3, <2>4, ThreadsIntro
<1>19. CASE UNCHANGED vars
  BY <1>19 DEF vars, readyVars, Threads, ThreadsAs, Types, Stand, Deltas, Now
<1> QED
  BY <1>9, <1>10, <1>11, <1>12, <1>13, <1>15, <1>16, <1>17, <1>18, <1>19 DEF Next

\* The invariant holds in every reachable state.
LEMMA ThreadsHold == Spec => []Threads
<1> QED BY InitThreads, NextThreads, PTL DEF Spec
-----------------------------------------------------------------------------
\* It implies the types,
LEMMA ThreadsTypes == Threads => TypeOK
<1> SUFFICES ASSUME Threads PROVE TypeOK
  OBVIOUS
<1>1. PICK r, s, R, W : Stand(r, s, R, W) /\ tmp \in W \cup {NULL}
  BY DEF Threads, ThreadsAs
<1>2. W \in SUBSET Proc /\ {head, tail, sleepQ} \subseteq Ptr /\ next \in [Proc -> Ptr] /\ p \in Proc
  BY <1>1, StandTypes
<1>3. tmp \in Ptr
  BY <1>1, <1>2 DEF Ptr
<1> QED BY <1>2, <1>3 DEF TypeOK, Threads, Types

\* that the lists are apart,
LEMMA ThreadsApart == Threads => ListsApart
<1> SUFFICES ASSUME Threads PROVE ListsApart
  OBVIOUS
<1>1. PICK r, s, R, W : Stand(r, s, R, W)
  BY DEF Threads, ThreadsAs
<1>2. ListFrom(head) = r /\ ListFrom(sleepQ) = s
  BY <1>1, StandReads
<1>3. /\ Lists(r, R) /\ Lists(s, W) /\ R \cap W = {} /\ p \notin R /\ p \notin W
      /\ tail = IF r = <<>> THEN NULL ELSE r[Len(r)]
      /\ \A i \in 1 .. Len(r) : next[r[i]] = IF i < Len(r) THEN r[i + 1] ELSE NULL
      /\ \A x \in Proc \ (R \cup W) : next[x] = NULL
  BY <1>1 DEF Stand, TwoLists, Threaded, Now
<1>4. Lists(r \o s, R \cup W)
  BY <1>3, ListsConcat
<1>5. IsInjective(<<p>> \o r \o s)
  <2>1. Lists(<<p>>, {p})
    BY DEF Lists, IsInjective, Range
  <2>2. Lists(<<p>> \o r, {p} \cup R)
    BY <1>3, <2>1, ListsConcat
  <2>3. Lists((<<p>> \o r) \o s, ({p} \cup R) \cup W)
    BY <1>3, <2>2, ListsConcat
  <2> QED BY <2>3 DEF Lists
<1>6. r # <<>> => tail = Last(r) /\ next[tail] = NULL
  <2> SUFFICES ASSUME r # <<>> PROVE tail = Last(r) /\ next[tail] = NULL
    OBVIOUS
  <2>1. r \in Seq(R)
    BY <1>3, ListsFacts
  <2>2. Len(r) \in 1 .. Len(r) /\ ~ (Len(r) < Len(r))
    BY <2>1
  <2> QED BY <1>3, <2>2 DEF Last
<1>7. \A q \in Proc \ Range(r \o s) : next[q] = NULL
  BY <1>3, <1>4 DEF Lists
<1>8. IF r = <<>> THEN tail = NULL ELSE tail = Last(r) /\ next[tail] = NULL
  BY <1>3, <1>6
<1> QED BY <1>2, <1>5, <1>7, <1>8 DEF ListsApart

\* and that all differences but the first are at least 0.
LEMMA ThreadsDeltas == Threads => DeltasPositive
<1> SUFFICES ASSUME Threads PROVE DeltasPositive
  OBVIOUS
<1>1. PICK r, s, R, W : Stand(r, s, R, W) /\ Deltas(s)
  BY DEF Threads, ThreadsAs
<1>2. ListFrom(sleepQ) = s
  BY <1>1, StandReads
<1>3. s \in Seq(W) /\ sleepQ = IF Len(s) = 0 THEN NULL ELSE s[1]
  BY <1>1, StandTypes
<1> SUFFICES ASSUME NEW q \in Range(s) \ {sleepQ} PROVE sleepdiff[q] >= 0
  BY <1>2 DEF DeltasPositive
<1>4. PICK i \in 1 .. Len(s) : q = s[i]
  BY <1>3 DEF Range
<1>5. i # 1 /\ i \in 2 .. Len(s)
  BY <1>3, <1>4
<1> QED BY <1>1, <1>4, <1>5 DEF Deltas

\* The fields keep their types, and tmp of sleep() is a pcb only while it
\* searches (disp.c, lines 10-11; sleep.c, lines 8-57).
THEOREM ListTypesHold == Spec => []TypeOK
<1> QED BY ThreadsHold, ThreadsTypes, PTL

\* However the operations follow each other, the one `next' field never ties
\* the ready list and the delta list together, drops a pcb or leaves the tail
\* behind (disp.c, lines 193-228; sleep.c, lines 28-79).
THEOREM ListsApartHolds == Spec => []ListsApart
<1> QED BY ThreadsHold, ThreadsApart, PTL

\* Behind the first sleeper every difference is still to be waited: sleep()
\* never splits one below zero (sleep.c, lines 31-57).
THEOREM DeltasPositiveHolds == Spec => []DeltasPositive
<1> QED BY ThreadsHold, ThreadsDeltas, PTL
-----------------------------------------------------------------------------
\* u is the sums of the differences d along s.
Sum(u, s, d) ==
  /\ u[0] = 0
  /\ \A i \in 1 .. Len(s) : u[i] = u[i - 1] + d[s[i]]

\* There is one sequence of sums.
LEMMA SumSame ==
  ASSUME NEW s, Len(s) \in Nat, NEW d, NEW u, NEW v, Sum(u, s, d), Sum(v, s, d)
  PROVE  \A i \in 0 .. Len(s) : u[i] = v[i]
<1>1. u[0] = v[0] /\ \A i \in 1 .. Len(s) : u[i - 1] = v[i - 1] => u[i] = v[i]
  BY DEF Sum
<1> QED BY <1>1, SameWalk

\* The sums exist: were there a first place without one, the sums up to the
\* place before it could be carried on.
LEMMA SumExists ==
  ASSUME NEW s, Len(s) \in Nat, NEW d, \A i \in 1 .. Len(s) : d[s[i]] \in Int
  PROVE  \E u \in [0 .. Len(s) -> Int] : Sum(u, s, d)
<1> DEFINE L == Len(s)
           UpTo(n) == \E u \in [0 .. n -> Int] :
                        u[0] = 0 /\ \A i \in 1 .. n : u[i] = u[i - 1] + d[s[i]]
           None == {n \in 0 .. L : ~ UpTo(n)}
<1> SUFFICES ASSUME None # {} PROVE FALSE
  BY DEF Sum
<1>1. L \in Nat
  OBVIOUS
<1> HIDE DEF L
<1>2. PICK k \in None : \A j \in None : k <= j
  <2> None \in SUBSET (0 .. L)
    OBVIOUS
  <2> HIDE DEF None
  <2> QED BY <1>1, LeastOf
<1>3. k \in 0 .. L /\ ~ UpTo(k)
  OBVIOUS
<1>4. UpTo(0)
  <2> DEFINE u == [i \in 0 .. 0 |-> 0]
  <2>1. u \in [0 .. 0 -> Int] /\ u[0] = 0 /\ \A i \in 1 .. 0 : u[i] = u[i - 1] + d[s[i]]
    OBVIOUS
  <2> HIDE DEF u
  <2> QED BY <2>1
<1> HIDE DEF None
<1>5. k - 1 \in 0 .. L /\ k \in 1 .. L
  BY <1>1, <1>3, <1>4
<1>6. UpTo(k - 1)
  <2>1. k - 1 \notin None
    BY <1>2, <1>5
  <2> QED BY <1>5, <2>1 DEF None
<1>7. PICK u \in [0 .. k - 1 -> Int] :
        u[0] = 0 /\ \A i \in 1 .. k - 1 : u[i] = u[i - 1] + d[s[i]]
  BY <1>6
<1> DEFINE v == [i \in 0 .. k |-> IF i = k THEN u[k - 1] + d[s[k]] ELSE u[i]]
<1>8. d[s[k]] \in Int /\ u[k - 1] \in Int
  BY <1>1, <1>5, <1>7 DEF L
<1>9. v \in [0 .. k -> Int]
  BY <1>1, <1>5, <1>7, <1>8
<1>10. v[0] = 0
  BY <1>5, <1>7
<1>11. ASSUME NEW i \in 1 .. k PROVE v[i] = v[i - 1] + d[s[i]]
  <2>1. CASE i = k
    BY <1>5, <2>1
  <2>2. CASE i # k
    BY <1>5, <1>7, <2>2
  <2> QED BY <2>1, <2>2
<1> HIDE DEF v
<1>12. UpTo(k)
  BY <1>9, <1>10, <1>11
<1> QED BY <1>3, <1>12

\* What Sums computes.
LEMMA SumsIs ==
  ASSUME NEW s, Len(s) \in Nat, NEW d, \A i \in 1 .. Len(s) : d[s[i]] \in Int
  PROVE  Sum(Sums(s, d), s, d) /\ \A i \in 0 .. Len(s) : Sums(s, d)[i] \in Int
<1> DEFINE L == Len(s)
           P(f) == f = [n \in 0 .. L |-> IF n = 0 THEN 0 ELSE f[n - 1] + d[s[n]]]
           sum == CHOOSE f : P(f)
<1>1. Sums(s, d) = sum
  BY DEF Sums
<1>2. PICK u \in [0 .. L -> Int] : Sum(u, s, d)
  BY SumExists
<1>3. P(u)
  <2>1. u[0] = 0 /\ \A n \in 1 .. L : u[n] = u[n - 1] + d[s[n]]
    BY <1>2 DEF Sum
  <2>2. L \in Nat
    OBVIOUS
  <2> HIDE DEF L
  <2>3. \A n \in 0 .. L : u[n] = IF n = 0 THEN 0 ELSE u[n - 1] + d[s[n]]
    BY <2>1, <2>2
  <2> QED BY <1>2, <2>3
<1> HIDE DEF P
<1>4. P(sum)
  BY <1>3
<1> HIDE DEF sum
<1>5. Sum(sum, s, d)
  <2>1. L \in Nat
    OBVIOUS
  <2> HIDE DEF L
  <2>2. \A n \in 0 .. L : sum[n] = IF n = 0 THEN 0 ELSE sum[n - 1] + d[s[n]]
    BY <1>4, Zenon DEF P
  <2>3. sum[0] = 0 /\ \A n \in 1 .. L : sum[n] = sum[n - 1] + d[s[n]]
    BY <2>1, <2>2
  <2> QED BY <2>3 DEF Sum, L
<1>6. \A i \in 0 .. L : sum[i] = u[i]
  BY <1>2, <1>5, SumSame
<1> QED BY <1>1, <1>2, <1>5, <1>6

\* The sums after the first sleeper, with nothing left to wait, is taken out.
LEMMA SumsTail ==
  ASSUME NEW T, NEW s \in Seq(T), s # <<>>, NEW d, \A i \in 1 .. Len(s) : d[s[i]] \in Int,
         d[s[1]] = 0
  PROVE  \A i \in 0 .. Len(Tail(s)) : Sums(Tail(s), d)[i] = Sums(s, d)[i + 1]
<1> DEFINE t == Tail(s)
           L == Len(t)
           a == Sums(s, d)
           u == [i \in 0 .. L |-> a[i + 1]]
<1>1. Len(s) \in Nat /\ L = Len(s) - 1 /\ L \in Nat /\ \A i \in 1 .. L : t[i] = s[i + 1]
  BY HeadTailProperties
<1>2. /\ a[0] = 0 /\ \A i \in 1 .. Len(s) : a[i] = a[i - 1] + d[s[i]]
  BY <1>1, SumsIs DEF Sum
<1>3. \A i \in 1 .. L : d[t[i]] \in Int
  BY <1>1
<1> HIDE DEF a
<1>4. Sum(u, t, d)
  <2> HIDE DEF t
  <2>1. u[0] = 0
    <3>1. Len(s) # 0
      BY EmptySeq
    <3>2. 1 \in 1 .. Len(s) /\ 0 \in 0 .. L /\ 0 + 1 = 1 /\ 1 - 1 = 0
      BY <1>1, <3>1
    <3>3. a[1] = a[1 - 1] + d[s[1]]
      BY <1>2, <3>2
    <3>4. a[1] = 0
      BY <1>2, <3>2, <3>3
    <3> QED BY <3>2, <3>4
  <2>2. ASSUME NEW i \in 1 .. L PROVE u[i] = u[i - 1] + d[t[i]]
    <3>1. i + 1 \in 1 .. Len(s) /\ (i + 1) - 1 = i /\ (i - 1) + 1 = i /\ i - 1 \in 0 .. L
      BY <1>1
    <3>2. a[i + 1] = a[i] + d[s[i + 1]]
      BY <1>2, <3>1
    <3> QED BY <1>1, <3>1, <3>2
  <2> QED BY <2>1, <2>2 DEF Sum
<1>5. Sum(Sums(t, d), t, d)
  BY <1>1, <1>3, SumsIs
<1>6. \A i \in 0 .. L : Sums(t, d)[i] = u[i]
  <2> HIDE DEF u, t
  <2> QED BY <1>1, <1>4, <1>5, SumSame
<1> QED BY <1>6 DEF a

\* x is put in behind the k-th of s, to wait v longer, and its follower has v
\* less to wait from it on.
Delayed(s, d, k, x, v, t, e) ==
  /\ Len(s) \in Nat /\ k \in 0 .. Len(s) /\ v \in Int
  /\ Inserted(t, s, k, x)
  /\ \A i \in 1 .. Len(s) : d[s[i]] \in Int
  /\ e[x] = v
  /\ \A i \in 1 .. Len(s) : e[s[i]] = IF i = k + 1 THEN d[s[i]] - v ELSE d[s[i]]

\* That delays nobody.
LEMMA SumsInsert ==
  ASSUME NEW s, NEW d, NEW k, NEW x, NEW v, NEW t, NEW e, Delayed(s, d, k, x, v, t, e)
  PROVE  /\ \A i \in 0 .. k : Sums(t, e)[i] = Sums(s, d)[i]
         /\ Sums(t, e)[k + 1] = Sums(s, d)[k] + v
         /\ \A i \in k + 1 .. Len(s) : Sums(t, e)[i + 1] = Sums(s, d)[i]
<1> DEFINE L == Len(s)
           a == Sums(s, d)
           u == [i \in 0 .. L + 1 |-> IF i <= k THEN a[i]
                                      ELSE IF i = k + 1 THEN a[k] + v ELSE a[i - 1]]
<1>0. /\ Len(s) \in Nat /\ k \in 0 .. Len(s) /\ v \in Int
      /\ \A i \in 1 .. Len(s) : d[s[i]] \in Int
  BY DEF Delayed
<1>1. L \in Nat /\ k \in Nat /\ k <= L
  BY <1>0
<1>2. /\ a[0] = 0 /\ \A i \in 1 .. L : a[i] = a[i - 1] + d[s[i]]
      /\ \A i \in 0 .. L : a[i] \in Int
  BY <1>0, SumsIs DEF Sum
<1>3. /\ Len(t) = L + 1
      /\ \A i \in 1 .. k : t[i] = s[i]
      /\ t[k + 1] = x
      /\ \A i \in k + 2 .. L + 1 : t[i] = s[i - 1]
  BY DEF Delayed, Inserted
<1>4. /\ e[x] = v /\ v \in Int
      /\ \A i \in 1 .. L : d[s[i]] \in Int /\ e[s[i]] = IF i = k + 1 THEN d[s[i]] - v ELSE d[s[i]]
  BY DEF Delayed
<1> HIDE DEF L, a
<1>5. ASSUME NEW i \in 1 .. L + 1 PROVE e[t[i]] \in Int /\ u[i] = u[i - 1] + e[t[i]]
  <2>1. CASE i <= k
    <3>1. i \in 1 .. k /\ i \in 1 .. L /\ i # k + 1 /\ i - 1 \in 0 .. L + 1 /\ i - 1 <= k
      BY <1>1, <2>1
    <3>2. e[t[i]] = d[s[i]] /\ d[s[i]] \in Int
      BY <1>3, <1>4, <3>1
    <3> QED BY <1>2, <2>1, <3>1, <3>2
  <2>2. CASE i = k + 1
    <3>1. i - 1 = k /\ k \in 0 .. L + 1 /\ ~ (i <= k)
      BY <1>1, <2>2
    <3>2. u[i] = a[k] + v /\ u[i - 1] = a[k]
      BY <2>2, <3>1
    <3>3. e[t[i]] = v /\ v \in Int
      BY <1>3, <1>4, <2>2
    <3> QED BY <3>2, <3>3
  <2>3. CASE i = k + 2
    <3>0. i <= L + 1
      OBVIOUS
    <3>1. /\ i \in k + 2 .. L + 1 /\ i - 1 = k + 1 /\ i - 1 \in 0 .. L + 1
          /\ k + 1 \in 1 .. L /\ (k + 1) - 1 = k /\ k \in 0 .. L
          /\ ~ (k + 1 <= k) /\ ~ (i <= k) /\ i # k + 1
      BY <1>1, <2>3, <3>0
    <3>2. t[i] = s[k + 1] /\ e[s[k + 1]] = d[s[k + 1]] - v /\ d[s[k + 1]] \in Int
      BY <1>3, <1>4, <3>1
    <3>3. a[k + 1] = a[k] + d[s[k + 1]] /\ a[k] \in Int
      BY <1>2, <3>1
    <3>4. u[i] = a[k + 1] /\ u[i - 1] = a[k] + v /\ v \in Int
      BY <1>4, <3>1
    <3> HIDE DEF u
    <3> QED BY <3>2, <3>3, <3>4
  <2>4. CASE i > k + 2
    <3>1. i \in k + 2 .. L + 1 /\ i - 1 \in 1 .. L /\ i - 1 # k + 1 /\ i - 1 \in 0 .. L + 1
          /\ ~ (i - 1 <= k) /\ ~ (i <= k) /\ i # k + 1
      BY <1>1, <2>4
    <3>2. t[i] = s[i - 1] /\ e[s[i - 1]] = d[s[i - 1]] /\ d[s[i - 1]] \in Int
      BY <1>3, <1>4, <3>1
    <3>3. a[i - 1] = a[(i - 1) - 1] + d[s[i - 1]]
      BY <1>2, <3>1
    <3>4. u[i] = a[i - 1] /\ u[i - 1] = a[(i - 1) - 1]
      BY <3>1
    <3> QED BY <3>2, <3>3, <3>4
  <2> QED BY <1>1, <2>1, <2>2, <2>3, <2>4
<1>6. u[0] = 0
  BY <1>1, <1>2
<1>7. Len(t) \in Nat /\ \A i \in 1 .. Len(t) : e[t[i]] \in Int
  <2>1. \A i \in 1 .. L + 1 : e[t[i]] \in Int
    BY <1>5
  <2>2. Len(t) = L + 1 /\ L + 1 \in Nat
    BY <1>1, <1>3
  <2> QED BY <2>1, <2>2
<1>8. Sum(u, t, e)
  BY <1>3, <1>5, <1>6 DEF Sum
<1>9. Sum(Sums(t, e), t, e)
  BY <1>7, SumsIs
<1>10. \A i \in 0 .. L + 1 : Sums(t, e)[i] = u[i]
  <2> HIDE DEF u
  <2>1. \A i \in 0 .. Len(t) : Sums(t, e)[i] = u[i]
    BY <1>7, <1>8, <1>9, SumSame
  <2> QED BY <1>3, <2>1
<1>11. \A i \in 0 .. k : Sums(t, e)[i] = a[i]
  BY <1>1, <1>10
<1>12. Sums(t, e)[k + 1] = a[k] + v
  BY <1>1, <1>10
<1>13. ASSUME NEW i \in k + 1 .. L PROVE Sums(t, e)[i + 1] = a[i]
  <2>1. i + 1 \in 0 .. L + 1 /\ ~ (i + 1 <= k) /\ i + 1 # k + 1 /\ (i + 1) - 1 = i
    BY <1>1
  <2> QED BY <1>10, <2>1
<1> QED BY <1>11, <1>12, <1>13 DEF a, L

\* When the first sleeper is counted down, so are all.
LEMMA SumsTick ==
  ASSUME NEW s, Len(s) \in Nat, NEW d, NEW e,
         \A i \in 1 .. Len(s) : d[s[i]] \in Int,
         \A i \in 1 .. Len(s) : e[s[i]] = IF i = 1 THEN d[s[i]] - 1 ELSE d[s[i]]
  PROVE  \A i \in 1 .. Len(s) : Sums(s, e)[i] = Sums(s, d)[i] - 1
<1> DEFINE L == Len(s)
           a == Sums(s, d)
           u == [i \in 0 .. L |-> IF i = 0 THEN 0 ELSE a[i] - 1]
<1>1. /\ a[0] = 0 /\ \A i \in 1 .. L : a[i] = a[i - 1] + d[s[i]]
      /\ \A i \in 0 .. L : a[i] \in Int
  BY SumsIs DEF Sum
<1>2. L \in Nat /\ \A i \in 1 .. L : /\ d[s[i]] \in Int
                                     /\ e[s[i]] = IF i = 1 THEN d[s[i]] - 1 ELSE d[s[i]]
  OBVIOUS
<1> HIDE DEF L, a
<1>3. ASSUME NEW i \in 1 .. L PROVE e[s[i]] \in Int /\ u[i] = u[i - 1] + e[s[i]]
  <2>1. i \in 0 .. L /\ i - 1 \in 0 .. L /\ i # 0 /\ a[i - 1] \in Int
    BY <1>1, <1>2
  <2>2. a[i] = a[i - 1] + d[s[i]] /\ d[s[i]] \in Int
    BY <1>1, <1>2
  <2>3. /\ u[i] = a[i] - 1
        /\ u[i - 1] = IF i = 1 THEN 0 ELSE a[i - 1] - 1
    BY <2>1
  <2>4. e[s[i]] = IF i = 1 THEN d[s[i]] - 1 ELSE d[s[i]]
    BY <1>2
  <2>5. a[0] = 0
    BY <1>1
  <2> HIDE DEF u
  <2>6. CASE i = 1
    BY <2>2, <2>3, <2>4, <2>5, <2>6
  <2>7. CASE i # 1
    BY <2>1, <2>2, <2>3, <2>4, <2>7
  <2> QED BY <2>6, <2>7
<1>4. u[0] = 0
  BY <1>2
<1>5. Len(s) \in Nat /\ \A i \in 1 .. Len(s) : e[s[i]] \in Int
  BY <1>3 DEF L
<1>6. Sum(u, s, e)
  BY <1>3, <1>4 DEF Sum, L
<1>7. Sum(Sums(s, e), s, e)
  BY <1>5, SumsIs
<1>8. \A i \in 0 .. L : Sums(s, e)[i] = u[i]
  <2> HIDE DEF u
  <2> QED BY <1>5, <1>6, <1>7, SumSame DEF L
<1> QED BY <1>2, <1>8 DEF a, L

\* m sleepers at the front have nothing left to wait, the others have.
Due(m, s, d) ==
  /\ m \in 0 .. Len(s)
  /\ \A i \in 1 .. m : d[s[i]] = 0
  /\ m < Len(s) => d[s[m + 1]] # 0

\* There is such an m.
LEMMA DueExists ==
  ASSUME NEW s, Len(s) \in Nat, NEW d
  PROVE  \E m \in 0 .. Len(s) : Due(m, s, d)
<1> DEFINE L == Len(s)
           T == {i \in 0 .. L : i # 0 /\ d[s[i]] # 0}
<1>1. L \in Nat
  OBVIOUS
<1>2. CASE T = {}
  <2>1. Due(L, s, d)
    BY <1>1, <1>2 DEF Due
  <2> QED BY <2>1
<1>3. CASE T # {}
  <2>1. PICK k \in T : \A j \in T : k <= j
    <3> HIDE DEF L
    <3>1. T \in SUBSET (0 .. L)
      OBVIOUS
    <3> HIDE DEF T
    <3> QED BY <1>1, <1>3, <3>1, LeastOf
  <2> DEFINE m == k - 1
  <2>2. m \in 0 .. L /\ m + 1 = k /\ d[s[k]] # 0
    BY <1>1
  <2>3. ASSUME NEW i \in 1 .. m PROVE d[s[i]] = 0
    <3>1. i \in 0 .. L /\ i # 0 /\ ~ (k <= i)
      BY <1>1, <2>2
    <3> QED BY <2>1, <3>1
  <2> HIDE DEF m
  <2>4. Due(m, s, d)
    BY <2>2, <2>3 DEF Due
  <2> QED BY <2>2, <2>4
<1> QED BY <1>2, <1>3

\* The sums tell the sleepers at the front from the others.
LEMMA DueSums ==
  ASSUME NEW s, Len(s) \in Nat, NEW d, \A i \in 1 .. Len(s) : d[s[i]] \in Nat,
         NEW m, Due(m, s, d)
  PROVE  \A i \in 1 .. Len(s) : IF i <= m THEN Sums(s, d)[i] = 0 ELSE Sums(s, d)[i] >= 1
<1> DEFINE L == Len(s)
           a == Sums(s, d)
           Bad == {i \in 0 .. L : i # 0 /\ ~ (IF i <= m THEN a[i] = 0 ELSE a[i] >= 1)}
<1>1. /\ a[0] = 0 /\ \A i \in 1 .. L : a[i] = a[i - 1] + d[s[i]]
      /\ \A i \in 0 .. L : a[i] \in Int
  BY SumsIs DEF Sum
<1>2. /\ L \in Nat /\ m \in 0 .. L
      /\ \A i \in 1 .. L : d[s[i]] \in Nat
      /\ \A i \in 1 .. m : d[s[i]] = 0
      /\ m < L => d[s[m + 1]] # 0
  BY DEF Due
<1> SUFFICES ASSUME Bad # {} PROVE FALSE
  BY <1>2
<1> HIDE DEF L, a
<1>3. PICK k \in Bad : \A j \in Bad : k <= j
  <2>1. Bad \in SUBSET (0 .. L)
    OBVIOUS
  <2> HIDE DEF Bad
  <2> QED BY <1>2, <2>1, LeastOf
<1>4. k \in 1 .. L /\ k - 1 \in 0 .. L /\ ~ (IF k <= m THEN a[k] = 0 ELSE a[k] >= 1)
  BY <1>2
<1>5. k - 1 \notin Bad
  BY <1>2, <1>3, <1>4
<1>6. k - 1 = 0 \/ (IF k - 1 <= m THEN a[k - 1] = 0 ELSE a[k - 1] >= 1)
  BY <1>4, <1>5
<1>7. a[k] = a[k - 1] + d[s[k]] /\ d[s[k]] \in Nat /\ a[k - 1] \in Int
  BY <1>1, <1>2, <1>4
<1>8. CASE k <= m
  <2>1. k \in 1 .. m /\ k - 1 <= m
    BY <1>2, <1>4, <1>8
  <2> QED BY <1>1, <1>2, <1>4, <1>6, <1>7, <1>8, <2>1
<1>9. CASE k = m + 1
  <2>1. m < L /\ k - 1 <= m /\ ~ (k <= m)
    BY <1>2, <1>4, <1>9
  <2> QED BY <1>1, <1>2, <1>4, <1>6, <1>7, <1>9, <2>1
<1>10. CASE k > m + 1
  <2>1. ~ (k - 1 <= m) /\ k - 1 # 0 /\ ~ (k <= m)
    BY <1>2, <1>4, <1>10
  <2> QED BY <1>4, <1>6, <1>7, <2>1
<1> QED BY <1>2, <1>4, <1>8, <1>9, <1>10

\* A sequence is its head and what follows.
LEMMA HeadOn ==
  ASSUME NEW T, NEW q \in Seq(T), q # <<>>
  PROVE  <<Head(q)>> \o Tail(q) = q
<1> DEFINE h == Head(q)
           t == Tail(q)
           c == <<h>> \o t
<1>1. h = q[1] /\ h \in T /\ t \in Seq(T) /\ Len(q) \in Nat /\ Len(q) # 0
  BY HeadTailProperties
<1>2. Len(t) = Len(q) - 1 /\ \A i \in 1 .. Len(t) : t[i] = q[i + 1]
  BY HeadTailProperties
<1>3. <<h>> \in Seq(T) /\ Len(<<h>>) = 1 /\ <<h>>[1] = h
  BY <1>1
<1> HIDE DEF h, t
<1>4. /\ c \in Seq(T) /\ Len(c) = 1 + Len(t)
      /\ \A i \in 1 .. 1 : c[i] = <<h>>[i]
      /\ \A i \in 1 .. Len(t) : c[1 + i] = t[i]
  BY <1>1, <1>3, ConcatElements
<1> HIDE DEF c
<1>5. Len(c) = Len(q)
  BY <1>1, <1>2, <1>4
<1>6. ASSUME NEW i \in 1 .. Len(c) PROVE c[i] = q[i]
  <2>1. CASE i = 1
    BY <1>1, <1>3, <1>4, <2>1
  <2>2. CASE i # 1
    <3>1. i - 1 \in 1 .. Len(t) /\ 1 + (i - 1) = i /\ (i - 1) + 1 = i
      BY <1>1, <1>2, <1>4, <2>2
    <3> QED BY <1>2, <1>4, <3>1
  <2> QED BY <2>1, <2>2
<1>7. c = q
  BY <1>1, <1>4, <1>5, <1>6, SeqEqual
<1> QED BY <1>7 DEF c, h, t

-----------------------------------------------------------------------------
\* In a tick the loop has m sleepers still to move.
Moves(s, m) == IF pc = "tick" THEN Due(m, s, sleepdiff) ELSE m = 0

\* KernelLists!Pending counts those m.
LEMMA PendingIs ==
  ASSUME NEW s, Len(s) \in Nat, DOMAIN s = 1 .. Len(s), NEW m, Moves(s, m)
  PROVE  Pending(s) = m /\ m \in 0 .. Len(s)
<1>1. CASE pc # "tick"
  BY <1>1 DEF Pending, Moves
<1>2. CASE pc = "tick"
  <2> DEFINE L == Len(s)
             D == {i \in DOMAIN s : \A j \in 1 .. i : sleepdiff[s[j]] = 0}
  <2>1. /\ m \in 0 .. L
        /\ \A i \in 1 .. m : sleepdiff[s[i]] = 0
        /\ m < L => sleepdiff[s[m + 1]] # 0
    BY <1>2 DEF Moves, Due
  <2>2. D = {i \in 1 .. L : \A j \in 1 .. i : sleepdiff[s[j]] = 0} /\ L \in Nat
    OBVIOUS
  <2>3. Pending(s) = Cardinality(D)
    BY <1>2 DEF Pending
  <2> HIDE DEF L, D
  <2>4. ASSUME NEW i \in D PROVE i \in 1 .. m
    <3>1. i \in 1 .. L /\ \A j \in 1 .. i : sleepdiff[s[j]] = 0
      BY <2>2
    <3>2. CASE i > m
      <4>1. m < L /\ m + 1 \in 1 .. i
        BY <2>1, <2>2, <3>1, <3>2
      <4> QED BY <2>1, <3>1, <4>1
    <3> QED BY <2>1, <2>2, <3>1, <3>2
  <2>5. ASSUME NEW i \in 1 .. m PROVE i \in D
    <3>1. i \in 1 .. L /\ \A j \in 1 .. i : j \in 1 .. m
      BY <2>1, <2>2
    <3> QED BY <2>1, <2>2, <3>1
  <2>6. D = 1 .. m
    BY <2>4, <2>5
  <2>7. Cardinality(1 .. m) = m
    <3>1. m \in Int /\ 1 \in Int /\ (1 > m => m = 0) /\ m - 1 + 1 = m
      BY <2>1, <2>2
    <3>2. Cardinality(1 .. m) = IF 1 > m THEN 0 ELSE m - 1 + 1
      BY <3>1, FS_Interval
    <3> QED BY <3>1, <3>2
  <2> QED BY <2>1, <2>3, <2>6, <2>7 DEF L
<1> QED BY <1>1, <1>2

\* What Scheduler sees: q is in line, and of the sleepers s, which are the pcbs
\* in W, all but the first m wait.
View(q, s, W, m) ==
  /\ Line = q
  /\ Waits = [y \in Proc |-> Waits[y]]
  /\ \A i \in 1 .. Len(s) : Waits[s[i]] = IF i <= m THEN 0 ELSE Sums(s, sleepdiff)[i]
  /\ \A y \in Proc \ W : Waits[y] = 0

(***************************************************************************)
(* How the lists read for Scheduler: a statement about one state, that the *)
(* proof of a step needs of the state before and of the state after.       *)
(***************************************************************************)
Reads ==
  \A r, s, R, W, m :
    Stand(r, s, R, W) /\ sleepdiff \in [Proc -> Int] /\ Moves(s, m) =>
      /\ Sleepers = s
      /\ View(IF pc = "tick" THEN Append(r \o SubSeq(s, 1, m), p) ELSE <<p>> \o r, s, W, m)

\* It is true of every state.
LEMMA ReadsHold == Reads
<1> SUFFICES ASSUME NEW r, NEW s, NEW R, NEW W, NEW m, Stand(r, s, R, W),
                    sleepdiff \in [Proc -> Int], Moves(s, m)
             PROVE  /\ Sleepers = s
                    /\ View(IF pc = "tick" THEN Append(r \o SubSeq(s, 1, m), p)
                            ELSE <<p>> \o r, s, W, m)
  BY DEF Reads
<1>1. ListFrom(head) = r /\ Sleepers = s
  BY StandReads DEF Sleepers
<1>2. /\ W \in SUBSET Proc /\ s \in Seq(W) /\ Len(s) \in Nat /\ DOMAIN s = 1 .. Len(s)
      /\ \A i \in 1 .. Len(s) : s[i] \in W
      /\ \A i, j \in 1 .. Len(s) : s[i] = s[j] => i = j
  <2>1. Lists(s, W) /\ W \in SUBSET Proc
    BY DEF Stand, TwoLists
  <2> QED BY <2>1, ListsFacts
<1>3. Pending(s) = m /\ m \in 0 .. Len(s)
  BY <1>2, PendingIs
<1> DEFINE L == Len(s)
           a == SubSeq(s, m + 1, L)
           sum == Sums(s, sleepdiff)
<1>4. Line = IF pc = "tick" THEN Append(r \o SubSeq(s, 1, m), p) ELSE <<p>> \o r
  BY <1>1, <1>3 DEF Line
<1>5. Waits = [q \in Proc |-> IF Contains(a, q) THEN sum[CHOOSE i \in DOMAIN s : s[i] = q] ELSE 0]
  BY <1>1, <1>3 DEF Waits
<1>6. Len(a) = L - m /\ \A i \in 1 .. L - m : a[i] = s[m + i]
  BY <1>2, <1>3, SplitElements
<1>7. \A q : Contains(a, q) <=> \E i \in 1 .. Len(a) : a[i] = q
  BY DEF Contains
<1> HIDE DEF a, L, sum
<1>8. ASSUME NEW i \in 1 .. L PROVE Contains(a, s[i]) <=> ~ (i <= m)
  <2>1. ASSUME ~ (i <= m) PROVE Contains(a, s[i])
    <3>1. i - m \in 1 .. L - m /\ m + (i - m) = i
      BY <1>2, <1>3, <2>1 DEF L
    <3> QED BY <1>6, <1>7, <3>1
  <2>2. ASSUME Contains(a, s[i]) PROVE ~ (i <= m)
    <3>1. PICK j \in 1 .. L - m : a[j] = s[i]
      BY <1>6, <1>7, <2>2
    <3>2. m + j \in 1 .. L /\ ~ (m + j <= m) /\ s[m + j] = s[i]
      BY <1>2, <1>3, <1>6, <3>1 DEF L
    <3> QED BY <1>2, <3>2 DEF L
  <2> QED BY <2>1, <2>2
<1>9. ASSUME NEW i \in 1 .. L
      PROVE  Waits[s[i]] = IF i <= m THEN 0 ELSE sum[i]
  <2>1. s[i] \in Proc
    BY <1>2 DEF L
  <2>2. (CHOOSE k \in DOMAIN s : s[k] = s[i]) = i
    <3> DEFINE c == CHOOSE k \in DOMAIN s : s[k] = s[i]
    <3>1. i \in DOMAIN s
      BY <1>2 DEF L
    <3>2. c \in DOMAIN s /\ s[c] = s[i]
      BY <3>1
    <3> HIDE DEF c
    <3>3. c = i
      BY <1>2, <3>1, <3>2
    <3> QED BY <3>3 DEF c
  <2>3. Waits[s[i]] = IF Contains(a, s[i]) THEN sum[i] ELSE 0
    BY <1>5, <2>1, <2>2
  <2> QED BY <1>8, <2>3
<1>10. ASSUME NEW q \in Proc \ W PROVE Waits[q] = 0
  <2>1. ~ Contains(a, q)
    <3> SUFFICES ASSUME Contains(a, q) PROVE FALSE
      OBVIOUS
    <3>1. PICK j \in 1 .. L - m : a[j] = q
      BY <1>6, <1>7
    <3>2. m + j \in 1 .. L /\ s[m + j] = q
      BY <1>2, <1>3, <1>6, <3>1 DEF L
    <3> QED BY <1>2, <3>2 DEF L
  <2> QED BY <1>5, <2>1
<1>11. Waits = [q \in Proc |-> Waits[q]]
  BY <1>5
<1> QED BY <1>1, <1>4, <1>9, <1>10, <1>11 DEF L, sum, View
\* What the proof of a step needs of the lists.
LEMMA StandFacts ==
  ASSUME NEW r, NEW s, NEW R, NEW W, Stand(r, s, R, W)
  PROVE  /\ W \in SUBSET Proc /\ R \in SUBSET Proc /\ r \in Seq(Proc)
         /\ p \in Proc /\ p \notin R /\ p \notin W /\ Lists(r, R) /\ Lists(s, W)
         /\ s \in Seq(W) /\ Len(s) \in Nat /\ sleepQ = IF Len(s) = 0 THEN NULL ELSE s[1]
         /\ \A i \in 1 .. Len(s) : s[i] \in W /\ s[i] \in Proc
         /\ \A i, j \in 1 .. Len(s) : s[i] = s[j] => i = j
         /\ \A y \in W : \E i \in 1 .. Len(s) : s[i] = y
<1>1. /\ W \in SUBSET Proc /\ R \in SUBSET Proc /\ r \in Seq(R)
      /\ p \in Proc /\ p \notin R /\ p \notin W
      /\ sleepQ = IF Len(s) = 0 THEN NULL ELSE s[1]
  BY StandTypes
<1>2. Lists(r, R) /\ Lists(s, W)
  BY DEF Stand, TwoLists
<1>3. r \in Seq(Proc)
  BY <1>1, SeqMonotonic
<1>4. /\ s \in Seq(W) /\ Len(s) \in Nat
      /\ \A i \in 1 .. Len(s) : s[i] \in W
      /\ \A i, j \in 1 .. Len(s) : s[i] = s[j] => i = j
      /\ \A y \in W : \E i \in 1 .. Len(s) : s[i] = y
  BY <1>2, ListsFacts
<1> QED BY <1>1, <1>2, <1>3, <1>4

\* The waits stay when the sleepers and what they wait for stay.
LEMMA SameWaits ==
  ASSUME NEW s, NEW W \in SUBSET Proc, \A y \in W : \E i \in 1 .. Len(s) : s[i] = y,
         NEW m, NEW q, NEW t, View(q, s, W, m), View(t, s, W, m)', UNCHANGED sleepdiff
  PROVE  Waits' = Waits
<1>1. /\ Waits = [y \in Proc |-> Waits[y]]
      /\ \A i \in 1 .. Len(s) : Waits[s[i]] = IF i <= m THEN 0 ELSE Sums(s, sleepdiff)[i]
      /\ \A y \in Proc \ W : Waits[y] = 0
  BY DEF View
<1>2. /\ Waits' = [y \in Proc |-> Waits'[y]]
      /\ \A i \in 1 .. Len(s) : Waits'[s[i]] = IF i <= m THEN 0 ELSE Sums(s, sleepdiff')[i]
      /\ \A y \in Proc \ W : Waits'[y] = 0
  BY DEF View
<1>3. ASSUME NEW y \in Proc PROVE Waits'[y] = Waits[y]
  <2>1. CASE y \in W
    <3>1. PICK i \in 1 .. Len(s) : s[i] = y
      BY <2>1
    <3>2. Sums(s, sleepdiff') = Sums(s, sleepdiff)
      OBVIOUS
    <3> QED BY <1>1, <1>2, <3>1, <3>2
  <2>2. CASE y \notin W
    BY <1>1, <1>2, <2>2
  <2> QED BY <2>1, <2>2
<1> QED BY <1>1, <1>2, <1>3

\* x goes to sleep behind the k-th sleeper, for v more.
Enters(s, k, x, v) ==
  /\ k \in 0 .. Len(s) /\ v \in Int
  /\ sleepdiff' = [y \in Proc |-> IF y = x THEN v
                                  ELSE IF k < Len(s) /\ y = s[k + 1] THEN sleepdiff[y] - v
                                  ELSE sleepdiff[y]]

\* What that does to the waits.
LEMMA InsertWaits ==
  ASSUME NEW r, NEW s, NEW R, NEW W, Stand(r, s, R, W), sleepdiff \in [Proc -> Int],
         NEW x, x = p, NEW k, NEW v, Enters(s, k, x, v), NEW t, Inserted(t, s, k, x),
         NEW q, NEW u, View(q, s, W, 0), View(u, t, W \cup {x}, 0)'
  PROVE  Waits' = [Waits EXCEPT ![x] = Sums(s, sleepdiff)[k] + v]
<1>0. /\ Len(s) \in Nat /\ W \in SUBSET Proc /\ x \in Proc /\ x \notin W
      /\ \A i \in 1 .. Len(s) : s[i] \in W
      /\ \A y \in W : \E i \in 1 .. Len(s) : s[i] = y
      /\ \A i, j \in 1 .. Len(s) : s[i] = s[j] => i = j
      /\ k \in 0 .. Len(s) /\ v \in Int
      /\ sleepdiff' = [y \in Proc |-> IF y = x THEN v
                                      ELSE IF k < Len(s) /\ y = s[k + 1] THEN sleepdiff[y] - v
                                      ELSE sleepdiff[y]]
  BY StandFacts DEF Enters
<1>1. /\ Waits = [y \in Proc |-> Waits[y]]
      /\ \A i \in 1 .. Len(s) : Waits[s[i]] = IF i <= 0 THEN 0 ELSE Sums(s, sleepdiff)[i]
      /\ \A y \in Proc \ W : Waits[y] = 0
  BY DEF View
<1>2. /\ Waits' = [y \in Proc |-> Waits'[y]]
      /\ \A i \in 1 .. Len(t) : Waits'[t[i]] = IF i <= 0 THEN 0 ELSE Sums(t, sleepdiff')[i]
      /\ \A y \in Proc \ (W \cup {x}) : Waits'[y] = 0
  BY DEF View
<1>3. PICK d, e : d = sleepdiff /\ e = sleepdiff'
  OBVIOUS
<1>4. /\ Len(t) = Len(s) + 1
      /\ \A i \in 1 .. k : t[i] = s[i]
      /\ t[k + 1] = x
      /\ \A i \in k + 2 .. Len(s) + 1 : t[i] = s[i - 1]
  BY DEF Inserted
<1>5. ASSUME NEW i \in 1 .. Len(s)
      PROVE  d[s[i]] \in Int /\ e[s[i]] = IF i = k + 1 THEN d[s[i]] - v ELSE d[s[i]]
  <2>1. s[i] \in Proc /\ s[i] # x
    <3>1. s[i] \in W
      BY <1>0
    <3> QED BY <1>0, <3>1
  <2>2. (k < Len(s) /\ s[i] = s[k + 1]) <=> i = k + 1
    <3>1. k < Len(s) => k + 1 \in 1 .. Len(s)
      BY <1>0
    <3> QED BY <1>0, <3>1
  <2>3. e[s[i]] = IF s[i] = x THEN v
                  ELSE IF k < Len(s) /\ s[i] = s[k + 1] THEN d[s[i]] - v ELSE d[s[i]]
    BY <1>0, <1>3, <2>1
  <2> QED BY <1>3, <2>1, <2>2, <2>3
<1>6. e[x] = v
  BY <1>0, <1>3
<1>7. /\ \A i \in 0 .. k : Sums(t, e)[i] = Sums(s, d)[i]
      /\ Sums(t, e)[k + 1] = Sums(s, d)[k] + v
      /\ \A i \in k + 1 .. Len(s) : Sums(t, e)[i + 1] = Sums(s, d)[i]
  <2>1. Delayed(s, d, k, x, v, t, e)
    BY <1>0, <1>5, <1>6 DEF Delayed
  <2> QED BY <2>1, SumsInsert
<1> DEFINE a == Sums(s, d)
           b == Sums(t, e)
<1>8. /\ \A i \in 1 .. Len(s) : Waits[s[i]] = a[i]
      /\ \A i \in 1 .. Len(t) : Waits'[t[i]] = b[i]
  <2>1. a = Sums(s, sleepdiff) /\ b = Sums(t, sleepdiff')
    BY <1>3
  <2> HIDE DEF a, b
  <2>2. (\A i \in 1 .. Len(s) : ~ (i <= 0)) /\ (\A i \in 1 .. Len(t) : ~ (i <= 0))
    BY <1>0, <1>4
  <2>3. \A i \in 1 .. Len(s) : Waits[s[i]] = a[i]
    BY <1>1, <2>1, <2>2, Zenon
  <2>4. \A i \in 1 .. Len(t) : Waits'[t[i]] = b[i]
    BY <1>2, <2>1, <2>2, Zenon
  <2> QED BY <2>3, <2>4
<1>9. /\ \A i \in 0 .. k : b[i] = a[i]
      /\ b[k + 1] = a[k] + v
      /\ \A i \in k + 1 .. Len(s) : b[i + 1] = a[i]
  BY <1>7
<1> HIDE DEF a, b
<1>10. ASSUME NEW y \in Proc PROVE Waits'[y] = IF y = x THEN a[k] + v ELSE Waits[y]
  <2>1. CASE y = x
    <3>1. k + 1 \in 1 .. Len(t)
      BY <1>0, <1>4
    <3> QED BY <1>4, <1>8, <1>9, <2>1, <3>1
  <2>2. CASE y \in W
    <3>1. PICK i \in 1 .. Len(s) : s[i] = y
      BY <1>0, <2>2
    <3>2. CASE i <= k
      <4>1. i \in 1 .. k /\ i \in 0 .. k /\ i \in 1 .. Len(t)
        BY <1>0, <1>4, <3>2
      <4> QED BY <1>0, <1>4, <1>8, <1>9, <2>2, <3>1, <4>1
    <3>3. CASE i > k
      <4>1. i + 1 \in k + 2 .. Len(s) + 1 /\ i \in k + 1 .. Len(s) /\ i + 1 \in 1 .. Len(t)
            /\ (i + 1) - 1 = i
        BY <1>0, <1>4, <3>3
      <4>2. t[i + 1] = y
        BY <1>4, <3>1, <4>1
      <4>3. Waits'[y] = b[i + 1] /\ b[i + 1] = a[i] /\ Waits[y] = a[i]
        BY <1>8, <1>9, <3>1, <4>1, <4>2
      <4>4. y # x
        BY <1>0, <2>2
      <4> QED BY <4>3, <4>4
    <3> QED BY <1>0, <3>2, <3>3
  <2>3. CASE y \notin W \cup {x}
    BY <1>1, <1>2, <2>3
  <2> QED BY <2>1, <2>2, <2>3
<1>11. Waits' = [Waits EXCEPT ![x] = a[k] + v]
  BY <1>1, <1>2, <1>10
<1> QED BY <1>3, <1>11 DEF a
\* The first sleeper is counted down, and m of them have waited long enough.
Counted(s, d, m, e) ==
  /\ \A i \in 1 .. Len(s) : d[s[i]] \in Int /\ e[s[i]] \in Nat
  /\ \A i \in 1 .. Len(s) : e[s[i]] = IF i = 1 THEN d[s[i]] - 1 ELSE d[s[i]]
  /\ Due(m, s, e)

\* The sleepers that a tick brings to the end of their sleep.
LEMMA TickWaits ==
  ASSUME NEW r, NEW s, NEW R, NEW W, Stand(r, s, R, W),
         NEW d, d = sleepdiff, NEW e, e = sleepdiff', NEW m, Counted(s, d, m, e),
         NEW q, NEW u, View(q, s, W, 0), View(u, s, W, m)'
  PROVE  /\ Lists(SubSeq(s, 1, m), {y \in Proc : Waits[y] = 1})
         /\ Waits' = [y \in Proc |-> IF Waits[y] = 0 THEN 0 ELSE Waits[y] - 1]
<1> DEFINE a == Sums(s, d)
           b == Sums(s, e)
           D == {y \in Proc : Waits[y] = 1}
           L == Len(s)
<1>0. /\ Len(s) \in Nat /\ W \in SUBSET Proc /\ Lists(s, W)
      /\ \A y \in W : \E i \in 1 .. Len(s) : s[i] = y
      /\ \A i \in 1 .. Len(s) : s[i] \in W
      /\ \A i \in 1 .. Len(s) : d[s[i]] \in Int /\ e[s[i]] \in Nat
      /\ \A i \in 1 .. Len(s) : e[s[i]] = IF i = 1 THEN d[s[i]] - 1 ELSE d[s[i]]
      /\ Due(m, s, e)
  BY StandFacts DEF Counted
<1>1. /\ Waits = [y \in Proc |-> Waits[y]]
      /\ \A i \in 1 .. L : Waits[s[i]] = a[i]
      /\ \A y \in Proc \ W : Waits[y] = 0
  <2>1. \A i \in 1 .. L : ~ (i <= 0)
    BY <1>0
  <2>2. \A i \in 1 .. L : Waits[s[i]] = IF i <= 0 THEN 0 ELSE a[i]
    BY DEF View
  <2>3. \A i \in 1 .. L : Waits[s[i]] = a[i]
    <3> HIDE DEF a, L
    <3> QED BY <2>1, <2>2, Zenon
  <2> QED BY <2>3 DEF View
<1>2. /\ Waits' = [y \in Proc |-> Waits'[y]]
      /\ \A i \in 1 .. L : Waits'[s[i]] = IF i <= m THEN 0 ELSE b[i]
      /\ \A y \in Proc \ W : Waits'[y] = 0
  BY DEF View
<1>3. \A i \in 1 .. L : b[i] = a[i] - 1
  <2>1. \A i \in 1 .. Len(s) : d[s[i]] \in Int
    BY <1>0
  <2>2. /\ Len(s) \in Nat
        /\ \A i \in 1 .. Len(s) : e[s[i]] = IF i = 1 THEN d[s[i]] - 1 ELSE d[s[i]]
    BY <1>0
  <2> QED BY <2>1, <2>2, SumsTick, SMTT(60)
<1>4. \A i \in 1 .. L : IF i <= m THEN b[i] = 0 ELSE b[i] >= 1
  <2>1. \A i \in 1 .. Len(s) : e[s[i]] \in Nat
    BY <1>0
  <2> QED BY <1>0, <2>1, DueSums
<1>5. \A i \in 1 .. L : a[i] \in Int
  <2>1. \A i \in 1 .. Len(s) : d[s[i]] \in Int
    BY <1>0
  <2>2. \A i \in 0 .. L : a[i] \in Int
    BY <1>0, <2>1, SumsIs
  <2>3. \A i \in 1 .. L : i \in 0 .. L
    OBVIOUS
  <2> HIDE DEF a, L
  <2> QED BY <2>2, <2>3
<1>6. m \in 0 .. L /\ L \in Nat
  BY <1>0 DEF Due
<1> HIDE DEF a, b, L
<1>7. ASSUME NEW i \in 1 .. L
      PROVE  /\ i <= m <=> Waits[s[i]] = 1
             /\ Waits[s[i]] # 0 /\ Waits'[s[i]] = Waits[s[i]] - 1
  <2>1. a[i] \in Int /\ b[i] = a[i] - 1 /\ Waits[s[i]] = a[i]
        /\ (IF i <= m THEN b[i] = 0 ELSE b[i] >= 1)
        /\ Waits'[s[i]] = IF i <= m THEN 0 ELSE b[i]
    BY <1>1, <1>2, <1>3, <1>4, <1>5
  <2> QED BY <1>6, <2>1
<1>8. Lists(SubSeq(s, 1, m), {s[i] : i \in 1 .. m})
  <2>1. m \in 0 .. Len(s)
    BY <1>6 DEF L
  <2> DEFINE w == SubSeq(s, 1, m)
  <2>2. Lists(w, Range(w)) /\ Range(w) = {s[i] : i \in 1 .. m}
    BY <1>0, <2>1, ListsSplit
  <2> QED BY <2>2
<1>9. D = {s[i] : i \in 1 .. m}
  <2>1. ASSUME NEW i \in 1 .. m PROVE s[i] \in D
    <3>1. i \in 1 .. L
      BY <1>6
    <3>2. s[i] \in Proc
      BY <1>0, <3>1 DEF L
    <3> QED BY <1>7, <3>1, <3>2
  <2>2. ASSUME NEW y \in D PROVE \E i \in 1 .. m : y = s[i]
    <3>1. y \in W
      BY <1>1
    <3>2. PICK i \in 1 .. L : s[i] = y
      BY <1>0, <3>1 DEF L
    <3>3. i \in 1 .. m
      BY <1>6, <1>7, <3>2
    <3> QED BY <3>2, <3>3
  <2> QED BY <2>1, <2>2
<1>10. ASSUME NEW y \in Proc PROVE Waits'[y] = IF Waits[y] = 0 THEN 0 ELSE Waits[y] - 1
  <2>1. CASE y \in W
    <3>1. PICK i \in 1 .. L : s[i] = y
      BY <1>0, <2>1 DEF L
    <3> QED BY <1>7, <3>1
  <2>2. CASE y \notin W
    BY <1>1, <1>2, <2>2
  <2> QED BY <2>1, <2>2
<1>11. Waits' = [y \in Proc |-> IF Waits[y] = 0 THEN 0 ELSE Waits[y] - 1]
  BY <1>2, <1>10
<1> QED BY <1>8, <1>9, <1>11

\* The first m of a list are moved behind r, the first of them first.
LEMMA MoveHead ==
  ASSUME NEW T, NEW r \in Seq(T), NEW s \in Seq(T), s # <<>>, NEW m \in 1 .. Len(s)
  PROVE  Append(r, Head(s)) \o SubSeq(Tail(s), 1, m - 1) = r \o SubSeq(s, 1, m)
<1> DEFINE L == Len(s)
           t == Tail(s)
           h == Head(s)
           a == SubSeq(s, 1, m)
           b == SubSeq(t, 1, m - 1)
           c == Append(r, h)
           f == c \o b
           g == r \o a
           n == Len(r)
<1>1. L \in Nat /\ L # 0 /\ m \in 1 .. L /\ n \in Nat
  OBVIOUS
<1>2. /\ h = s[1] /\ h \in T /\ t \in Seq(T) /\ Len(t) = L - 1
      /\ \A i \in 1 .. Len(t) : t[i] = s[i + 1]
  BY HeadTailProperties
<1>3. m \in 0 .. Len(s) /\ m - 1 \in 0 .. Len(t)
  BY <1>1, <1>2
<1> HIDE DEF L, t, h
<1>4. /\ a \in Seq(T) /\ Len(a) = m /\ \A i \in 1 .. m : a[i] = s[i]
  BY <1>3, SplitElements
<1>5. /\ b \in Seq(T) /\ Len(b) = m - 1 /\ \A i \in 1 .. m - 1 : b[i] = t[i]
  BY <1>2, <1>3, SplitElements
<1>6. /\ c \in Seq(T) /\ Len(c) = n + 1
      /\ \A i \in 1 .. n : c[i] = r[i]
      /\ c[n + 1] = h
  BY <1>2, AppendProperties
<1> HIDE DEF a, b, c
<1>7. /\ f \in Seq(T) /\ Len(f) = Len(c) + Len(b)
      /\ \A i \in 1 .. Len(c) : f[i] = c[i]
      /\ \A i \in 1 .. Len(b) : f[Len(c) + i] = b[i]
  <2>1. c \in Seq(T) /\ b \in Seq(T)
    BY <1>5, <1>6
  <2> QED BY <2>1, ConcatElements
<1>8. /\ g \in Seq(T) /\ Len(g) = n + Len(a)
      /\ \A i \in 1 .. n : g[i] = r[i]
      /\ \A i \in 1 .. Len(a) : g[n + i] = a[i]
  <2>1. r \in Seq(T) /\ a \in Seq(T)
    BY <1>4
  <2> QED BY <2>1, ConcatElements
<1> HIDE DEF f, g, n
<1>9. ASSUME NEW i \in 1 .. n + m PROVE f[i] = g[i]
  <2>1. CASE i <= n
    <3>1. i \in 1 .. n /\ i \in 1 .. n + 1
      BY <1>1, <2>1
    <3> QED BY <1>6, <1>7, <1>8, <3>1
  <2>2. CASE i = n + 1
    <3>1. n + 1 \in 1 .. n + 1 /\ 1 \in 1 .. m
      BY <1>1
    <3>2. f[n + 1] = h
      BY <1>6, <1>7, <3>1
    <3>3. g[n + 1] = s[1]
      BY <1>4, <1>8, <3>1
    <3> QED BY <1>2, <2>2, <3>2, <3>3
  <2>3. CASE i > n + 1
    <3> DEFINE j == i - (n + 1)
    <3>1. /\ j \in 1 .. m - 1 /\ j + 1 \in 1 .. m /\ j \in 1 .. Len(t)
          /\ i = (n + 1) + j /\ i = n + (j + 1)
      BY <1>1, <1>2, <2>3
    <3> HIDE DEF j
    <3>2. f[(n + 1) + j] = t[j]
      BY <1>5, <1>6, <1>7, <3>1
    <3>3. g[n + (j + 1)] = s[j + 1]
      BY <1>4, <1>8, <3>1
    <3> QED BY <1>2, <3>1, <3>2, <3>3
  <2> QED BY <1>1, <2>1, <2>2, <2>3
<1>10. Len(f) = n + m /\ Len(g) = n + m
  BY <1>1, <1>4, <1>5, <1>6, <1>7, <1>8
<1>11. f = g
  BY <1>7, <1>8, <1>9, <1>10, SeqEqual
<1> QED BY <1>11 DEF a, b, c, f, g, t, h

\* A sleeper that is moved stays where it was in line, and its waiting was over.
LEMMA WakeOneView ==
  ASSUME NEW r, NEW s, NEW R, NEW W, Stand(r, s, R, W), s # <<>>,
         NEW m, Due(m, s, sleepdiff), sleepdiff[s[1]] = 0
  PROVE  /\ m # 0 /\ Due(m - 1, Tail(s), sleepdiff)
         /\ Append(r, Head(s)) \o SubSeq(Tail(s), 1, m - 1) = r \o SubSeq(s, 1, m)
<1> DEFINE L == Len(s)
           t == Tail(s)
           h == Head(s)
<1>1. /\ s \in Seq(W) /\ L \in Nat /\ W \in SUBSET Proc /\ r \in Seq(Proc)
  BY StandFacts
<1>2. s \in Seq(Proc) /\ L # 0
  BY <1>1, SeqMonotonic
<1>3. /\ h = s[1] /\ h \in Proc /\ t \in Seq(Proc) /\ Len(t) = L - 1
      /\ \A i \in 1 .. Len(t) : t[i] = s[i + 1]
  BY <1>2, HeadTailProperties
<1>4. /\ m \in 0 .. L
      /\ \A i \in 1 .. m : sleepdiff[s[i]] = 0
      /\ m < L => sleepdiff[s[m + 1]] # 0
  BY DEF Due
<1> HIDE DEF L, t, h
<1>5. m # 0
  <2>1. m = 0 => m < L /\ m + 1 = 1
    BY <1>1, <1>2
  <2> QED BY <1>4, <2>1
<1>6. Due(m - 1, t, sleepdiff)
  <2>1. m - 1 \in 0 .. Len(t)
    BY <1>1, <1>3, <1>4, <1>5
  <2>2. ASSUME NEW i \in 1 .. m - 1 PROVE sleepdiff[t[i]] = 0
    <3>1. i \in 1 .. Len(t) /\ i + 1 \in 1 .. m
      BY <1>1, <1>3, <1>4
    <3> QED BY <1>3, <1>4, <3>1
  <2>3. m - 1 < Len(t) => sleepdiff[t[(m - 1) + 1]] # 0
    <3> SUFFICES ASSUME m - 1 < Len(t) PROVE sleepdiff[t[(m - 1) + 1]] # 0
      OBVIOUS
    <3>1. m < L /\ m \in 1 .. Len(t) /\ (m - 1) + 1 = m
      BY <1>1, <1>3, <1>4, <1>5
    <3> QED BY <1>3, <1>4, <3>1
  <2> QED BY <2>1, <2>2, <2>3 DEF Due
<1>7. Append(r, h) \o SubSeq(t, 1, m - 1) = r \o SubSeq(s, 1, m)
  <2>1. m \in 1 .. Len(s)
    BY <1>1, <1>4, <1>5 DEF L
  <2> QED BY <1>1, <1>2, <2>1, MoveHead DEF h, t
<1> QED BY <1>5, <1>6, <1>7 DEF t, h
-----------------------------------------------------------------------------
\* A sleep of less than a tick is entered with nothing to wait.
NoZeroSleep == 0 \notin SleepTicks

(***************************************************************************)
(* The invariant for the clock, on the sleepers s: the first one has still *)
(* to wait, unless the loop of tick() has come to it, and the search of    *)
(* sleep() has counted off what the sleepers up to tmp wait.               *)
(***************************************************************************)
ClockAs(s) ==
  /\ s # <<>> => sleepdiff[s[1]] >= IF pc = "tick" THEN 0 ELSE 1
  /\ pc = "search" =>
       /\ p # Idle
       /\ \E k \in 1 .. Len(s) : tmp = s[k] /\ Sums(s, sleepdiff)[k] + len \in SleepTicks

Clock == ClockAs(Sleepers)

\* What a step starts from.
Before(r, s, R, W) ==
  /\ Reads /\ Stand(r, s, R, W) /\ Deltas(s) /\ ClockAs(s) /\ sleepdiff \in [Proc -> Int]

\* Between two ticks the running process is first in line, then the ready ones.
LEMMA RunView ==
  ASSUME NEW r, NEW s, NEW R, NEW W, Reads, Stand(r, s, R, W), sleepdiff \in [Proc -> Int],
         pc # "tick", NEW x, x = p
  PROVE  Sleepers = s /\ View(<<x>> \o r, s, W, 0)
<1>1. Moves(s, 0)
  BY DEF Moves
<1> QED BY <1>1 DEF Reads, View

\* What Scheduler sees after a step that does not end in a tick.
LEMMA RunViewNext ==
  ASSUME NEW r, NEW s, NEW R, NEW W, Reads', Stand(r, s, R, W)', sleepdiff' \in [Proc -> Int],
         pc' # "tick", NEW x, x = p'
  PROVE  Sleepers' = s /\ View(<<x>> \o r, s, W, 0)'
<1>1. Moves(s, 0)'
  BY DEF Moves
<1> QED BY <1>1 DEF Reads, View

\* After p = next() they are who was ready before.
LEMMA TurnViewNext ==
  ASSUME NEW t \in Seq(Proc), t # <<>>, p' = Head(t),
         NEW s, NEW R, NEW W, Reads', Stand(Tail(t), s, R, W)',
         sleepdiff' \in [Proc -> Int], pc' = "run"
  PROVE  Sleepers' = s /\ View(t, s, W, 0)'
<1>1. PICK x : x = p'
  OBVIOUS
<1>2. <<x>> \o Tail(t) = t
  BY <1>1, HeadOn
<1>3. Sleepers' = s /\ View(<<x>> \o Tail(t), s, W, 0)'
  BY <1>1, RunViewNext
<1> QED BY <1>2, <1>3

\* The same in a tick.
LEMMA TickView ==
  ASSUME NEW r, NEW s, NEW R, NEW W, Reads, Stand(r, s, R, W), sleepdiff \in [Proc -> Int],
         pc = "tick", NEW x, x = p, NEW m, Due(m, s, sleepdiff)
  PROVE  Sleepers = s /\ View(Append(r \o SubSeq(s, 1, m), x), s, W, m)
<1>1. Moves(s, m)
  BY DEF Moves
<1>2. /\ Sleepers = s
      /\ View(IF pc = "tick" THEN Append(r \o SubSeq(s, 1, m), p) ELSE <<p>> \o r, s, W, m)
  BY <1>1 DEF Reads
<1> QED BY <1>2 DEF View

\* What it sees after a step that ends in one.
LEMMA TickViewNext ==
  ASSUME NEW r, NEW s, NEW R, NEW W, Reads', Stand(r, s, R, W)', sleepdiff' \in [Proc -> Int],
         pc' = "tick", NEW x, x = p', NEW m, Due(m, s, sleepdiff')
  PROVE  Sleepers' = s /\ View(Append(r \o SubSeq(s, 1, m), x), s, W, m)'
<1>1. Moves(s, m)'
  BY DEF Moves
<1>2. /\ Sleepers' = s
      /\ View(IF pc = "tick" THEN Append(r \o SubSeq(s, 1, m), p) ELSE <<p>> \o r, s, W, m)'
  BY <1>1 DEF Reads
<1> QED BY <1>2 DEF View

\* Whoever is first in line runs.
LEMMA LineRuns ==
  ASSUME NEW q, q # <<>>, Line' = q
  PROVE  S!Run(q)
BY DEF S!Run

\* The head and the tail of a sequence with x in front.
LEMMA ConsIs ==
  ASSUME NEW T, NEW r \in Seq(T), NEW x \in T
  PROVE  Head(<<x>> \o r) = x /\ Tail(<<x>> \o r) = r
<1> DEFINE c == <<x>> \o r
<1>1. <<x>> \in Seq(T) /\ Len(<<x>>) = 1
  OBVIOUS
<1>2. /\ c \in Seq(T) /\ Len(c) = Len(<<x>>) + Len(r)
      /\ \A i \in 1 .. Len(<<x>>) : c[i] = <<x>>[i]
      /\ \A i \in 1 .. Len(r) : c[Len(<<x>>) + i] = r[i]
  BY <1>1, ConcatElements
<1>3. Len(r) \in Nat /\ c # <<>> /\ c[1] = x
  BY <1>1, <1>2
<1> HIDE DEF c
<1>4. Head(c) = x
  BY <1>2, <1>3
<1>5. Tail(c) \in Seq(T) /\ Len(Tail(c)) = Len(r) /\ \A i \in 1 .. Len(r) : Tail(c)[i] = r[i]
  <2>1. /\ Tail(c) \in Seq(T) /\ Len(Tail(c)) = Len(c) - 1
        /\ \A i \in 1 .. Len(Tail(c)) : Tail(c)[i] = c[i + 1]
    BY <1>2, <1>3, HeadTailProperties
  <2>2. Len(Tail(c)) = Len(r)
    BY <1>1, <1>2, <1>3, <2>1
  <2>3. ASSUME NEW i \in 1 .. Len(r) PROVE Tail(c)[i] = r[i]
    <3>1. i + 1 = Len(<<x>>) + i
      BY <1>1, <1>3
    <3> QED BY <1>2, <2>1, <2>2, <3>1
  <2> QED BY <2>1, <2>2, <2>3
<1>6. Tail(c) = r
  BY <1>5, SeqEqual
<1> QED BY <1>4, <1>6 DEF c
\* ready(p) and next().
LEMMA YieldRefines ==
  ASSUME NEW r, NEW s, NEW R, NEW W, Before(r, s, R, W), Reads', pc = "run",
         Turn(ReadyList(Now(next), p)), UNCHANGED <<sleepQ, sleepdiff>>
  PROVE  S!Yield /\ Clock'
<1>1. /\ Reads /\ Stand(r, s, R, W) /\ ClockAs(s)
      /\ sleepdiff \in [Proc -> Int] /\ sleepdiff' \in [Proc -> Int]
  BY DEF Before
<1>2. PICK x : x = p
  OBVIOUS
<1>3. /\ r \in Seq(Proc) /\ x \in Proc /\ W \in SUBSET Proc
      /\ \A y \in W : \E i \in 1 .. Len(s) : s[i] = y
  BY <1>1, <1>2, StandFacts
<1>4. View(<<x>> \o r, s, W, 0)
  BY <1>1, <1>2, RunView
<1> DEFINE t == Append(r, x)
<1>5. p' = Head(t) /\ Stand(Tail(t), s, (R \cup {x}) \ {Head(t)}, W)'
  BY <1>1, <1>2, YieldStands
<1>6. t \in Seq(Proc) /\ t # <<>> /\ pc' = "run"
  BY <1>3 DEF Turn
<1> HIDE DEF t
<1>7. Sleepers' = s /\ View(t, s, W, 0)'
  BY <1>1, <1>5, <1>6, TurnViewNext
<1>8. Waits' = Waits
  BY <1>3, <1>4, <1>7, SameWaits
<1>9. Head(Line) = x /\ Tail(Line) = r
  BY <1>3, <1>4, ConsIs DEF View
<1>10. S!Run(t)
  BY <1>6, <1>7, LineRuns DEF View
<1>11. Clock'
  BY <1>1, <1>6, <1>7 DEF Clock, ClockAs
<1> QED BY <1>8, <1>9, <1>10, <1>11 DEF S!Yield, t

\* A process that blocks does so in Scheduler.
LEMMA BlockRefines ==
  ASSUME NEW r, NEW s, NEW R, NEW W, Before(r, s, R, W), Reads', Block
  PROVE  S!Block /\ Clock'
<1>1. /\ Reads /\ Stand(r, s, R, W) /\ ClockAs(s)
      /\ sleepdiff \in [Proc -> Int] /\ sleepdiff' \in [Proc -> Int]
      /\ pc = "run" /\ pc' = "run" /\ p # Idle /\ UNCHANGED sleepdiff
  BY DEF Before, Block, Turn
<1>2. PICK x : x = p
  OBVIOUS
<1>3. /\ r \in Seq(Proc) /\ x \in Proc /\ W \in SUBSET Proc
      /\ \A y \in W : \E i \in 1 .. Len(s) : s[i] = y
  BY <1>1, <1>2, StandFacts
<1>4. View(<<x>> \o r, s, W, 0)
  BY <1>1, <1>2, RunView
<1>5. r # <<>> /\ p' = Head(r) /\ Stand(Tail(r), s, R \ {Head(r)}, W)'
  BY <1>1, BlockStands
<1>6. Sleepers' = s /\ View(r, s, W, 0)'
  BY <1>1, <1>3, <1>5, TurnViewNext
<1>7. Waits' = Waits
  BY <1>1, <1>3, <1>4, <1>6, SameWaits
<1>8. Head(Line) = x /\ Tail(Line) = r
  BY <1>3, <1>4, ConsIs DEF View
<1>9. S!Run(r)
  BY <1>5, <1>6, LineRuns DEF View
<1>10. Clock'
  BY <1>1, <1>6 DEF Clock, ClockAs
<1> QED BY <1>1, <1>2, <1>7, <1>8, <1>9, <1>10 DEF S!Block, S!Idle, Idle

\* So does one that wakes.
LEMMA WakeRefines ==
  ASSUME NEW r, NEW s, NEW R, NEW W, Before(r, s, R, W), Reads', NEW q \in Proc, Wake(q)
  PROVE  S!Wake(q) /\ Clock'
<1>1. /\ Reads /\ Stand(r, s, R, W) /\ ClockAs(s)
      /\ sleepdiff \in [Proc -> Int] /\ sleepdiff' \in [Proc -> Int]
      /\ pc = "run" /\ pc' = "run" /\ UNCHANGED <<p, sleepdiff>>
  BY DEF Before, Wake
<1>2. PICK x : x = p
  OBVIOUS
<1>3. /\ r \in Seq(Proc) /\ x \in Proc /\ W \in SUBSET Proc /\ Lists(r, R)
      /\ \A y \in W : \E i \in 1 .. Len(s) : s[i] = y
  BY <1>1, <1>2, StandFacts
<1>4. View(<<x>> \o r, s, W, 0)
  BY <1>1, <1>2, RunView
<1> DEFINE t == Append(r, q)
<1>5. q \notin R \cup W \cup {x} /\ Stand(t, s, R \cup {q}, W)'
  BY <1>1, <1>2, WakeStands
<1>6. Sleepers' = s /\ View(<<x>> \o t, s, W, 0)'
  BY <1>1, <1>2, <1>5, RunViewNext
<1>7. Waits' = Waits
  BY <1>1, <1>3, <1>4, <1>6, SameWaits
<1>8. Head(Line) = x /\ Tail(Line) = r
  BY <1>3, <1>4, ConsIs DEF View
<1>9. Head(Line') = x /\ Tail(Line') = t
  <2>1. t \in Seq(Proc) /\ Line' = <<x>> \o t
    BY <1>3, <1>6 DEF View
  <2> HIDE DEF t
  <2> QED BY <1>3, <2>1, ConsIs
<1>10. q \notin S!Range(r) /\ Waits[q] = 0
  <2>1. Range(r) = R
    BY <1>3 DEF Lists
  <2>2. S!Range(r) = Range(r)
    BY DEF S!Range, Range
  <2> QED BY <1>4, <1>5, <2>1, <2>2 DEF View
<1>11. Clock'
  BY <1>1, <1>6 DEF Clock, ClockAs
<1> QED BY <1>5, <1>7, <1>8, <1>9, <1>10, <1>11 DEF S!Wake, S!Awake
\* A process that is put in behind the k-th sleeper, to wait v more.
LEMMA SleepRefines ==
  ASSUME NEW r, NEW s, NEW R, NEW W, Before(r, s, R, W), Reads', pc # "tick", pc' = "run",
         p # Idle, NEW x, x = p, NEW k, NEW v, Enters(s, k, x, v), r # <<>>, p' = Head(r),
         Stand(Tail(r), InsertAt(s, k + 1, x), R \ {Head(r)}, W \cup {x})'
  PROVE  /\ Sleepers' = InsertAt(s, k + 1, x) /\ sleepdiff' \in [Proc -> Int]
         /\ S!Sleep(Sums(s, sleepdiff)[k] + v)
<1>1. /\ Reads /\ Stand(r, s, R, W) /\ sleepdiff \in [Proc -> Int]
  BY DEF Before
<1>2. /\ r \in Seq(Proc) /\ x \in Proc /\ x \notin W /\ W \in SUBSET Proc
      /\ s \in Seq(W) /\ Len(s) \in Nat
      /\ \A i \in 1 .. Len(s) : s[i] \in W
      /\ \A i, j \in 1 .. Len(s) : s[i] = s[j] => i = j
      /\ \A y \in W : \E i \in 1 .. Len(s) : s[i] = y
  BY <1>1, StandFacts
<1>3. View(<<x>> \o r, s, W, 0)
  BY <1>1, RunView
<1>4. sleepdiff' \in [Proc -> Int]
  <2>1. /\ v \in Int
        /\ sleepdiff' = [y \in Proc |-> IF y = x THEN v
                                        ELSE IF k < Len(s) /\ y = s[k + 1] THEN sleepdiff[y] - v
                                        ELSE sleepdiff[y]]
    BY DEF Enters
  <2>2. \A y \in Proc : sleepdiff[y] \in Int /\ sleepdiff[y] - v \in Int
    BY <1>1, <2>1
  <2> QED BY <2>1, <2>2
<1> DEFINE t == InsertAt(s, k + 1, x)
<1>5. Inserted(t, s, k, x)
  <2>1. s \in Seq(W \cup {x}) /\ x \in W \cup {x}
    BY <1>2, SeqMonotonic
  <2>2. k \in 0 .. Len(s)
    BY DEF Enters
  <2> QED BY <2>1, <2>2, InsertElements
<1>6. Stand(Tail(r), t, R \ {Head(r)}, W \cup {x})'
  OBVIOUS
<1> HIDE DEF t
<1>7. Sleepers' = t /\ View(r, t, W \cup {x}, 0)'
  BY <1>2, <1>4, <1>6, TurnViewNext
<1>8. Waits' = [Waits EXCEPT ![x] = Sums(s, sleepdiff)[k] + v]
  <2>1. /\ Stand(r, s, R, W) /\ sleepdiff \in [Proc -> Int] /\ x = p /\ Enters(s, k, x, v)
        /\ Inserted(t, s, k, x) /\ View(<<x>> \o r, s, W, 0) /\ View(r, t, W \cup {x}, 0)'
    BY <1>1, <1>3, <1>5, <1>7
  <2> QED BY <2>1, InsertWaits, SMTT(60)
<1>9. Head(Line) = x /\ Tail(Line) = r
  BY <1>2, <1>3, ConsIs DEF View
<1>10. S!Run(r)
  BY <1>7, LineRuns DEF View
<1> QED BY <1>4, <1>7, <1>8, <1>9, <1>10 DEF S!Sleep, S!Idle, Idle, t

\* sleep() in front of all sleepers is Scheduler's Sleep.
LEMMA FirstRefines ==
  ASSUME NoZeroSleep, NEW r, NEW s, NEW R, NEW W, Before(r, s, R, W), Reads',
         NEW n \in SleepTicks, SleepFirst(n)
  PROVE  S!Sleep(n) /\ Clock'
<1>1. /\ Stand(r, s, R, W) /\ sleepdiff \in [Proc -> Int]
      /\ pc = "run" /\ pc' = "run" /\ p # Idle
  BY DEF Before, SleepFirst, Turn
<1>2. n \in Int /\ n >= 1
  BY ListAssumption DEF NoZeroSleep
<1>3. PICK x : x = p
  OBVIOUS
<1>4. /\ x \in Proc /\ x \notin W /\ s \in Seq(W) /\ Len(s) \in Nat
      /\ sleepQ = IF Len(s) = 0 THEN NULL ELSE s[1]
      /\ \A i \in 1 .. Len(s) : s[i] \in W /\ s[i] \in Proc
  BY <1>1, <1>3, StandFacts
<1>5. r # <<>> /\ p' = Head(r) /\ Stand(Tail(r), InsertAt(s, 1, x), R \ {Head(r)}, W \cup {x})'
  BY <1>1, <1>3, FirstStands
<1>6. sleepdiff' = [y \in Proc |-> IF y = x THEN n
                                   ELSE IF 0 < Len(s) /\ y = s[0 + 1] THEN sleepdiff[y] - n
                                   ELSE sleepdiff[y]]
  <2>1. sleepdiff' = IF sleepQ = NULL THEN [sleepdiff EXCEPT ![x] = n]
                     ELSE [sleepdiff EXCEPT ![sleepQ] = @ - n, ![x] = n]
    BY <1>3 DEF SleepFirst, HeadDiff
  <2>2. CASE Len(s) = 0
    <3>1. sleepdiff' = [sleepdiff EXCEPT ![x] = n] /\ ~ (0 < Len(s))
      BY <1>4, <2>1, <2>2
    <3> QED BY <1>1, <1>4, <3>1
  <2>3. CASE Len(s) # 0
    <3>1. 1 \in 1 .. Len(s) /\ 0 < Len(s) /\ 0 + 1 = 1
      BY <1>4, <2>3
    <3>2. sleepQ = s[1] /\ sleepQ \in Proc /\ sleepQ # x /\ sleepQ # NULL
      <4>1. s[1] \in W /\ s[1] \in Proc /\ sleepQ = s[1]
        BY <1>4, <2>3, <3>1
      <4>2. NULL \notin Proc
        BY ListAssumption DEF Proc
      <4> QED BY <1>4, <4>1, <4>2
    <3>3. sleepdiff' = [sleepdiff EXCEPT ![sleepQ] = @ - n, ![x] = n]
      BY <2>1, <3>2
    <3> QED BY <1>1, <1>4, <3>1, <3>2, <3>3
  <2> QED BY <2>2, <2>3
<1>7. 0 \in 0 .. Len(s) /\ 0 + 1 = 1
  BY <1>4
<1>8. /\ Sleepers' = InsertAt(s, 0 + 1, x)
      /\ S!Sleep(Sums(s, sleepdiff)[0] + n)
  <2>1. Enters(s, 0, x, n)
    BY <1>2, <1>6, <1>7 DEF Enters
  <2>2. Stand(Tail(r), InsertAt(s, 0 + 1, x), R \ {Head(r)}, W \cup {x})'
    BY <1>5, <1>7
  <2> QED BY <1>1, <1>3, <1>5, <2>1, <2>2, SleepRefines
<1>9. Sums(s, sleepdiff)[0] + n = n
  <2>1. \A i \in 1 .. Len(s) : sleepdiff[s[i]] \in Int
    BY <1>1, <1>4
  <2>2. Sums(s, sleepdiff)[0] = 0
    BY <1>4, <2>1, SumsIs DEF Sum
  <2> QED BY <1>2, <2>2
<1>10. Clock'
  <2> DEFINE t == InsertAt(s, 0 + 1, x)
  <2>1. t[1] = x
    <3>1. s \in Seq(W \cup {x}) /\ x \in W \cup {x}
      BY <1>4, SeqMonotonic
    <3>2. Inserted(t, s, 0, x)
      BY <1>7, <3>1, InsertElements
    <3> QED BY <3>2 DEF Inserted
  <2>2. sleepdiff'[x] = n
    BY <1>4, <1>6
  <2>3. Sleepers' = t
    BY <1>8
  <2> HIDE DEF t
  <2> QED BY <1>1, <1>2, <2>1, <2>2, <2>3 DEF Clock, ClockAs
<1> QED BY <1>8, <1>9, <1>10

\* So is the last step of a search: the caller is linked in.
LEMMA LinkRefines ==
  ASSUME NEW r, NEW s, NEW R, NEW W, Before(r, s, R, W), Reads', tmp \in W \cup {NULL}, len \in Nat,
         pc = "search" => tmp # NULL, Link
  PROVE  (\E n \in SleepTicks : S!Sleep(n)) /\ Clock'
<1>1. /\ Stand(r, s, R, W) /\ sleepdiff \in [Proc -> Int]
      /\ pc = "search" /\ pc' = "run"
  BY DEF Before, Link, Turn
<1>2. /\ p # Idle
      /\ \E k \in 1 .. Len(s) : tmp = s[k] /\ Sums(s, sleepdiff)[k] + len \in SleepTicks
      /\ s # <<>> => sleepdiff[s[1]] >= 1
  BY <1>1 DEF Before, ClockAs
<1>3. PICK k \in 1 .. Len(s) : tmp = s[k] /\ Sums(s, sleepdiff)[k] + len \in SleepTicks
  BY <1>2
<1>4. PICK x : x = p
  OBVIOUS
<1>5. /\ x \in Proc /\ x \notin W /\ s \in Seq(W) /\ Len(s) \in Nat
      /\ \A i \in 1 .. Len(s) : s[i] \in W /\ s[i] \in Proc
      /\ \A i, j \in 1 .. Len(s) : s[i] = s[j] => i = j
  BY <1>1, <1>4, StandFacts
<1>6. /\ r # <<>> /\ p' = Head(r)
      /\ Stand(Tail(r), InsertAt(s, k + 1, x), R \ {Head(r)}, W \cup {x})'
  BY <1>1, <1>3, <1>4, LinkStands
<1>7. next[tmp] = IF k < Len(s) THEN s[k + 1] ELSE NULL
  <2>1. \A i \in 1 .. Len(s) : next[s[i]] = IF i < Len(s) THEN s[i + 1] ELSE NULL
    BY <1>1 DEF Stand, TwoLists, Threaded, Now
  <2> QED BY <1>3, <2>1
<1>8. PICK v : v = len
  OBVIOUS
<1>9. sleepdiff' = [y \in Proc |-> IF y = x THEN v
                                   ELSE IF k < Len(s) /\ y = s[k + 1] THEN sleepdiff[y] - v
                                   ELSE sleepdiff[y]]
  <2>1. sleepdiff' = [y \in Proc |-> IF y = x THEN v ELSE IF y = next[tmp] THEN sleepdiff[y] - v
                                     ELSE sleepdiff[y]]
    BY <1>4, <1>8 DEF Link
  <2>2. \A y \in Proc : y = next[tmp] <=> k < Len(s) /\ y = s[k + 1]
    <3>1. NULL \notin Proc
      BY ListAssumption DEF Proc
    <3> QED BY <1>7, <3>1
  <2> QED BY <2>1, <2>2
<1>10. k \in 0 .. Len(s) /\ v \in Int
  BY <1>5, <1>8
<1>11. /\ Sleepers' = InsertAt(s, k + 1, x)
       /\ S!Sleep(Sums(s, sleepdiff)[k] + v)
  <2>1. Enters(s, k, x, v)
    BY <1>9, <1>10 DEF Enters
  <2>2. /\ Before(r, s, R, W) /\ pc # "tick" /\ pc' = "run" /\ p # Idle /\ x = p
        /\ Stand(Tail(r), InsertAt(s, k + 1, x), R \ {Head(r)}, W \cup {x})'
        /\ r # <<>> /\ p' = Head(r)
    BY <1>1, <1>2, <1>4, <1>6
  <2> QED BY <2>1, <2>2, SleepRefines, ZenonT(60)
<1>12. Clock'
  <2> DEFINE t == InsertAt(s, k + 1, x)
  <2>1. t[1] = s[1]
    <3>1. s \in Seq(W \cup {x}) /\ x \in W \cup {x}
      BY <1>5, SeqMonotonic
    <3>2. Inserted(t, s, k, x)
      BY <1>10, <3>1, InsertElements
    <3>3. 1 \in 1 .. k
      BY <1>5
    <3> QED BY <3>2, <3>3 DEF Inserted
  <2>2. Sleepers' = t
    BY <1>11
  <2> HIDE DEF t
  <2>3. sleepdiff'[s[1]] = sleepdiff[s[1]] /\ s # <<>>
    <3>1. 1 \in 1 .. Len(s) /\ s # <<>> /\ (k < Len(s) => k + 1 \in 1 .. Len(s) /\ k + 1 # 1)
      BY <1>5
    <3>2. s[1] \in Proc /\ s[1] # x /\ ~ (k < Len(s) /\ s[1] = s[k + 1])
      <4>1. s[1] \in W /\ s[1] \in Proc
        BY <1>5, <3>1
      <4> QED BY <1>5, <3>1, <4>1
    <3> QED BY <1>9, <3>1, <3>2
  <2> QED BY <1>1, <1>2, <2>1, <2>2, <2>3 DEF Clock, ClockAs
<1> QED BY <1>3, <1>8, <1>11, <1>12
\* The search changes nothing that Scheduler sees.
LEMMA SearchStutters ==
  ASSUME NEW r, NEW s, NEW R, NEW W, Before(r, s, R, W), Reads', pc # "tick", pc' # "tick",
         UNCHANGED <<p, head, tail, sleepQ, next, sleepdiff>>
  PROVE  Sleepers' = s /\ Line' = Line /\ Waits' = Waits
<1>1. Reads /\ Stand(r, s, R, W) /\ sleepdiff \in [Proc -> Int] /\ sleepdiff' \in [Proc -> Int]
  BY DEF Before
<1>2. PICK x : x = p
  OBVIOUS
<1>3. W \in SUBSET Proc /\ \A y \in W : \E i \in 1 .. Len(s) : s[i] = y
  BY <1>1, StandFacts
<1>4. View(<<x>> \o r, s, W, 0)
  BY <1>1, <1>2, RunView
<1>5. Stand(r, s, R, W)'
  BY <1>1 DEF Stand, Now
<1>6. Sleepers' = s /\ View(<<x>> \o r, s, W, 0)'
  BY <1>1, <1>2, <1>5, RunViewNext
<1>7. Waits' = Waits
  BY <1>3, <1>4, <1>6, SameWaits
<1> QED BY <1>4, <1>6, <1>7 DEF View

\* The first step of a search changes nothing that Scheduler sees,
LEMMA SleepSearchStutters ==
  ASSUME NEW r, NEW s, NEW R, NEW W, Before(r, s, R, W), Reads', NEW n \in SleepTicks, SleepSearch(n)
  PROVE  Line' = Line /\ Waits' = Waits /\ Clock'
<1>1. /\ Stand(r, s, R, W) /\ sleepdiff \in [Proc -> Int] /\ ClockAs(s)
      /\ pc = "run" /\ pc' = "search" /\ p # Idle /\ sleepQ # NULL
      /\ UNCHANGED <<p, head, tail, sleepQ, next, sleepdiff>>
      /\ len' = n - sleepdiff[sleepQ] /\ tmp' = sleepQ
  BY DEF Before, SleepSearch, readyVars
<1>2. Sleepers' = s /\ Line' = Line /\ Waits' = Waits
  BY <1>1, SearchStutters
<1>3. /\ Len(s) \in Nat /\ sleepQ = IF Len(s) = 0 THEN NULL ELSE s[1]
      /\ \A i \in 1 .. Len(s) : s[i] \in Proc
  BY <1>1, StandFacts
<1>4. 1 \in 1 .. Len(s) /\ sleepQ = s[1] /\ 1 - 1 = 0
  BY <1>1, <1>3
<1>5. Sums(s, sleepdiff)[1] + len' = n
  <2> DEFINE a == Sums(s, sleepdiff)
  <2>1. \A i \in 1 .. Len(s) : sleepdiff[s[i]] \in Int
    BY <1>1, <1>3
  <2>2. a[0] = 0 /\ \A i \in 1 .. Len(s) : a[i] = a[i - 1] + sleepdiff[s[i]]
    BY <1>3, <2>1, SumsIs DEF Sum
  <2> HIDE DEF a
  <2>3. a[1] = a[1 - 1] + sleepdiff[s[1]]
    BY <1>4, <2>2
  <2>4. n \in Int /\ sleepdiff[s[1]] \in Int
    BY <1>4, <2>1, ListAssumption
  <2>5. a[1] + len' = n
    BY <1>1, <1>4, <2>2, <2>3, <2>4
  <2> QED BY <2>5 DEF a
<1>6. ClockAs(s)'
  <2>1. tmp' = s[1] /\ Sums(s, sleepdiff')[1] + len' \in SleepTicks
    BY <1>1, <1>4, <1>5
  <2>2. s # <<>> => sleepdiff'[s[1]] >= 1
    BY <1>1 DEF ClockAs
  <2> QED BY <1>1, <1>4, <2>1, <2>2 DEF ClockAs
<1> QED BY <1>2, <1>6 DEF Clock, ClockAs

\* nor does any other before the last.
LEMMA SearchOnStutters ==
  ASSUME NEW r, NEW s, NEW R, NEW W, Before(r, s, R, W), Reads', len \in Nat, Search
  PROVE  Line' = Line /\ Waits' = Waits /\ Clock'
<1>1. /\ Stand(r, s, R, W) /\ sleepdiff \in [Proc -> Int] /\ ClockAs(s)
      /\ pc = "search" /\ pc' = "search"
      /\ UNCHANGED <<p, head, tail, sleepQ, next, sleepdiff>>
      /\ next[tmp] # NULL /\ len' = len - sleepdiff[next[tmp]] /\ tmp' = next[tmp]
  BY DEF Before, Search, Stops, readyVars
<1>2. Sleepers' = s /\ Line' = Line /\ Waits' = Waits
  BY <1>1, SearchStutters
<1>3. /\ Len(s) \in Nat
      /\ \A i \in 1 .. Len(s) : s[i] \in Proc
  BY <1>1, StandFacts
<1>4. PICK k \in 1 .. Len(s) : tmp = s[k] /\ Sums(s, sleepdiff)[k] + len \in SleepTicks
  BY <1>1 DEF ClockAs
<1>5. next[tmp] = IF k < Len(s) THEN s[k + 1] ELSE NULL
  <2>1. \A i \in 1 .. Len(s) : next[s[i]] = IF i < Len(s) THEN s[i + 1] ELSE NULL
    BY <1>1 DEF Stand, TwoLists, Threaded, Now
  <2> QED BY <1>4, <2>1
<1>6. k + 1 \in 1 .. Len(s) /\ (k + 1) - 1 = k /\ k \in 0 .. Len(s) /\ tmp' = s[k + 1]
  BY <1>1, <1>3, <1>5
<1>7. Sums(s, sleepdiff)[k + 1] + len' \in SleepTicks
  <2> DEFINE a == Sums(s, sleepdiff)
  <2>1. \A i \in 1 .. Len(s) : sleepdiff[s[i]] \in Int
    BY <1>1, <1>3
  <2>2. /\ \A i \in 1 .. Len(s) : a[i] = a[i - 1] + sleepdiff[s[i]]
        /\ \A i \in 0 .. Len(s) : a[i] \in Int
    BY <1>3, <2>1, SumsIs DEF Sum
  <2> HIDE DEF a
  <2>3. a[k + 1] = a[k] + sleepdiff[s[k + 1]]
    BY <1>6, <2>2
  <2>4. sleepdiff[s[k + 1]] \in Int /\ a[k] \in Int
    BY <1>6, <2>1, <2>2
  <2>5. a[k + 1] + len' = a[k] + len
    BY <1>1, <1>6, <2>3, <2>4
  <2> QED BY <1>4, <2>5 DEF a
<1>8. ClockAs(s)'
  <2>1. tmp' = s[k + 1] /\ Sums(s, sleepdiff')[k + 1] + len' \in SleepTicks
    BY <1>1, <1>6, <1>7
  <2>2. p' # Idle /\ (s # <<>> => sleepdiff'[s[1]] >= 1)
    BY <1>1 DEF ClockAs
  <2> QED BY <1>1, <1>6, <2>1, <2>2 DEF ClockAs
<1> QED BY <1>2, <1>8 DEF Clock, ClockAs

-----------------------------------------------------------------------------
\* The first step of tick() is Tick of Scheduler: it decides who is woken.
LEMMA TickRefines ==
  ASSUME NEW r, NEW s, NEW R, NEW W, Before(r, s, R, W), Reads', Tick
  PROVE  S!Tick /\ Clock'
<1>1. /\ Reads /\ Stand(r, s, R, W) /\ Deltas(s) /\ ClockAs(s) /\ sleepdiff \in [Proc -> Int]
      /\ pc = "run" /\ pc' = "tick" /\ UNCHANGED <<p, head, tail, sleepQ, next>>
      /\ sleepQ # NULL /\ sleepdiff' = [sleepdiff EXCEPT ![sleepQ] = @ - 1]
  BY DEF Before, Tick, readyVars
<1>2. PICK x : x = p
  OBVIOUS
<1>3. /\ r \in Seq(Proc) /\ x \in Proc /\ W \in SUBSET Proc /\ Lists(s, W) /\ Len(s) \in Nat
      /\ sleepQ = IF Len(s) = 0 THEN NULL ELSE s[1]
      /\ \A i \in 1 .. Len(s) : s[i] \in W /\ s[i] \in Proc
      /\ \A i, j \in 1 .. Len(s) : s[i] = s[j] => i = j
      /\ \A y \in W : \E i \in 1 .. Len(s) : s[i] = y
  <2>1. Stand(r, s, R, W) /\ x = p
    BY <1>1, <1>2
  <2> QED BY <2>1, StandFacts
<1>4. PICK d, e : d = sleepdiff /\ e = sleepdiff'
  OBVIOUS
<1>5. 1 \in 1 .. Len(s) /\ sleepQ = s[1] /\ s[1] \in Proc /\ s # <<>>
  BY <1>1, <1>3
<1>6. ASSUME NEW i \in 1 .. Len(s)
      PROVE  /\ d[s[i]] \in Int /\ e[s[i]] \in Nat
             /\ e[s[i]] = IF i = 1 THEN d[s[i]] - 1 ELSE d[s[i]]
  <2>1. d[s[i]] \in Int /\ s[i] \in Proc
    BY <1>1, <1>3, <1>4
  <2>2. CASE i = 1
    <3>1. d[s[1]] >= 1
      BY <1>1, <1>4, <1>5 DEF ClockAs
    <3>2. e[s[1]] = d[s[1]] - 1
      BY <1>1, <1>4, <1>5
    <3> QED BY <2>1, <2>2, <3>1, <3>2
  <2>3. CASE i # 1
    <3>1. i \in 2 .. Len(s) /\ s[i] # s[1]
      BY <1>3, <1>5, <2>3
    <3>2. d[s[i]] >= 0
      BY <1>1, <1>4, <3>1 DEF Deltas
    <3>3. e[s[i]] = d[s[i]]
      BY <1>1, <1>4, <1>5, <2>1, <3>1
    <3> QED BY <2>1, <2>3, <3>2, <3>3
  <2> QED BY <2>2, <2>3
<1>7. PICK m \in 0 .. Len(s) : Due(m, s, e)
  BY <1>3, DueExists
<1>8. sleepdiff' \in [Proc -> Int]
  BY <1>1, <1>5
<1>9. Stand(r, s, R, W)'
  BY <1>1 DEF Stand, Now
<1> DEFINE w == SubSeq(s, 1, m)
           q == Append(r \o w, x)
           D == {y \in Proc : Waits[y] = 1}
<1>10. Sleepers' = s /\ View(q, s, W, m)'
  <2>1. pc' = "tick" /\ x = p' /\ Due(m, s, sleepdiff')
    BY <1>1, <1>2, <1>4, <1>7
  <2> QED BY <1>8, <1>9, <2>1, TickViewNext, SMTT(60)
<1>11. View(<<x>> \o r, s, W, 0)
  BY <1>1, <1>2, RunView
<1> HIDE DEF q
<1>12. /\ Lists(w, D)
       /\ Waits' = [y \in Proc |-> IF Waits[y] = 0 THEN 0 ELSE Waits[y] - 1]
  <2>1. Counted(s, d, m, e)
    BY <1>6, <1>7 DEF Counted
  <2>2. Stand(r, s, R, W) /\ d = sleepdiff /\ e = sleepdiff'
    BY <1>1, <1>4
  <2> QED BY <1>10, <1>11, <2>1, <2>2, TickWaits, SMTT(60)
<1>13. w \in S!Orders(D)
  <2>1. w \in [1 .. Cardinality(D) -> D] /\ IsInjective(w)
    BY <1>12, ListsOrder
  <2>2. S!Cardinality(D) = Cardinality(D)
    BY DEF S!Cardinality, Cardinality
  <2>3. S!IsInjective(w)
    BY <2>1 DEF IsInjective, S!IsInjective
  <2> HIDE DEF w, D
  <2> QED BY <2>1, <2>2, <2>3 DEF S!Orders
<1>14. Head(Line) = x /\ Tail(Line) = r
  BY <1>3, <1>11, ConsIs DEF View
<1>15. S!Run(q)
  <2>1. q # <<>>
    <3>1. s \in Seq(Proc) /\ r \in Seq(Proc)
      BY <1>3, ListsFacts, SeqMonotonic
    <3>2. w \in Seq(Proc)
      BY <1>7, <3>1, SplitElements
    <3> HIDE DEF w
    <3>3. r \o w \in Seq(Proc)
      BY <3>1, <3>2, ConcatElements
    <3> QED BY <1>3, <3>3 DEF q
  <2> QED BY <1>10, <2>1, LineRuns DEF View
<1>16. S!Tick
  <2>1. S!Proc = Proc /\ \A y : S!Awake(y) = (Waits[y] = 0)
    BY DEF S!Proc, Proc, S!Awake
  <2> HIDE DEF w
  <2> QED BY <1>12, <1>13, <1>14, <1>15, <2>1 DEF S!Tick, q
<1>17. ClockAs(s)'
  BY <1>1, <1>4, <1>5, <1>6 DEF ClockAs
<1> QED BY <1>10, <1>16, <1>17 DEF Clock, ClockAs

\* One iteration of its loop.
LEMMA WakeOneStutters ==
  ASSUME NEW r, NEW s, NEW R, NEW W, Before(r, s, R, W), Reads', WakeOne
  PROVE  Line' = Line /\ Waits' = Waits /\ Clock'
<1>1. /\ Reads /\ Stand(r, s, R, W) /\ Deltas(s) /\ sleepdiff \in [Proc -> Int]
      /\ sleepdiff' \in [Proc -> Int]
      /\ pc = "tick" /\ pc' = "tick" /\ UNCHANGED <<p, sleepdiff>>
      /\ sleepdiff[sleepQ] = 0
  BY DEF Before, WakeOne, TimeUp
<1>2. PICK x, h : x = p /\ h = Head(s)
  OBVIOUS
<1> DEFINE t == Tail(s)
<1>3. s # <<>> /\ Head(s) = sleepQ /\ Stand(Append(r, h), t, R \cup {h}, W \ {h})'
  BY <1>1, <1>2, WakeOneStands
<1>4. /\ r \in Seq(Proc) /\ W \in SUBSET Proc /\ Lists(s, W) /\ Len(s) \in Nat
      /\ s \in Seq(W)
      /\ \A i \in 1 .. Len(s) : s[i] \in W /\ s[i] \in Proc
      /\ \A i, j \in 1 .. Len(s) : s[i] = s[j] => i = j
      /\ \A y \in W : \E i \in 1 .. Len(s) : s[i] = y
  BY <1>1, StandFacts
<1>5. PICK m \in 0 .. Len(s) : Due(m, s, sleepdiff)
  BY <1>4, DueExists
<1>6. /\ h = s[1] /\ Len(t) = Len(s) - 1 /\ \A i \in 1 .. Len(t) : t[i] = s[i + 1]
  BY <1>2, <1>3, <1>4, HeadTailProperties
<1>7. /\ m # 0 /\ Due(m - 1, t, sleepdiff)
      /\ Append(r, h) \o SubSeq(t, 1, m - 1) = r \o SubSeq(s, 1, m)
  <2>1. sleepdiff[s[1]] = 0
    BY <1>1, <1>2, <1>3, <1>6
  <2>2. Stand(r, s, R, W)
    BY <1>1
  <2> QED BY <1>2, <1>3, <1>5, <2>1, <2>2, WakeOneView
<1>8. View(Append(r \o SubSeq(s, 1, m), x), s, W, m)
  BY <1>1, <1>2, <1>5, TickView
<1>9. /\ Sleepers' = t
      /\ View(Append(Append(r, h) \o SubSeq(t, 1, m - 1), x), t, W \ {h}, m - 1)'
  <2> HIDE DEF t
  <2> QED BY <1>1, <1>2, <1>3, <1>7, TickViewNext
<1>10. Line' = Line
  BY <1>7, <1>8, <1>9 DEF View
<1>11. \A i \in 0 .. Len(t) : Sums(t, sleepdiff)[i] = Sums(s, sleepdiff)[i + 1]
  <2>1. \A i \in 1 .. Len(s) : sleepdiff[s[i]] \in Int
    BY <1>1, <1>4
  <2>2. sleepdiff[s[1]] = 0
    BY <1>1, <1>2, <1>3, <1>6
  <2>3. s \in Seq(W) /\ s # <<>>
    BY <1>3, <1>4
  <2> QED BY <2>1, <2>2, <2>3, SumsTail, SMTT(60)
<1>12. /\ Waits = [y \in Proc |-> Waits[y]]
       /\ \A i \in 1 .. Len(s) : Waits[s[i]] = IF i <= m THEN 0 ELSE Sums(s, sleepdiff)[i]
       /\ \A y \in Proc \ W : Waits[y] = 0
  BY <1>8 DEF View
<1>13. /\ Waits' = [y \in Proc |-> Waits'[y]]
       /\ \A i \in 1 .. Len(t) : Waits'[t[i]] = IF i <= m - 1 THEN 0 ELSE Sums(t, sleepdiff)[i]
       /\ \A y \in Proc \ (W \ {h}) : Waits'[y] = 0
  BY <1>1, <1>9 DEF View
<1> DEFINE a == Sums(s, sleepdiff)
           b == Sums(t, sleepdiff)
<1> HIDE DEF a, b, t
<1>14. ASSUME NEW y \in Proc PROVE Waits'[y] = Waits[y]
  <2>1. CASE y = h
    <3>1. 1 \in 1 .. Len(s) /\ 1 <= m
      BY <1>4, <1>5, <1>7
    <3>2. Waits[y] = 0
      BY <1>6, <1>12, <2>1, <3>1
    <3> QED BY <1>13, <2>1, <3>2
  <2>2. CASE y \in W /\ y # h
    <3>1. PICK i \in 1 .. Len(s) : s[i] = y
      BY <1>4, <2>2
    <3>2. i # 1
      BY <1>6, <2>2, <3>1
    <3> DEFINE j == i - 1
    <3>3. /\ j \in 1 .. Len(t) /\ j \in 0 .. Len(t) /\ j + 1 = i /\ (j <= m - 1 <=> i <= m)
      BY <1>4, <1>6, <3>2
    <3> HIDE DEF j
    <3>4. Waits'[t[j]] = IF j <= m - 1 THEN 0 ELSE b[j]
      BY <1>13, <3>3 DEF b
    <3>5. Waits[s[i]] = IF i <= m THEN 0 ELSE a[i]
      BY <1>12 DEF a
    <3>6. b[j] = a[i] /\ t[j] = s[i]
      BY <1>6, <1>11, <3>3 DEF a, b
    <3> QED BY <3>1, <3>3, <3>4, <3>5, <3>6
  <2>3. CASE y \notin W
    BY <1>12, <1>13, <2>3
  <2> QED BY <2>1, <2>2, <2>3
<1>15. Waits' = Waits
  BY <1>12, <1>13, <1>14
<1>16. t # <<>> => sleepdiff[t[1]] >= 0
  <2> SUFFICES ASSUME t # <<>> PROVE sleepdiff[t[1]] >= 0
    OBVIOUS
  <2>1. t \in Seq(W)
    BY <1>3, <1>4, HeadTailProperties DEF t
  <2>2. Len(t) # 0 /\ 1 \in 1 .. Len(t) /\ 1 + 1 = 2 /\ 2 \in 2 .. Len(s)
    BY <1>4, <1>6, <2>1
  <2> QED BY <1>1, <1>6, <2>2 DEF Deltas
<1>17. Clock'
  BY <1>1, <1>9, <1>16 DEF Clock, ClockAs
<1> QED BY <1>10, <1>15, <1>17

\* The end of the tick: what was decided is now the case.
LEMMA TickDoneStutters ==
  ASSUME NEW r, NEW s, NEW R, NEW W, Before(r, s, R, W), Reads', TickDone
  PROVE  Line' = Line /\ Waits' = Waits /\ Clock'
<1>1. /\ Reads /\ Stand(r, s, R, W) /\ ClockAs(s) /\ sleepdiff \in [Proc -> Int]
      /\ sleepdiff' \in [Proc -> Int] /\ UNCHANGED <<sleepQ, sleepdiff>>
      /\ pc = "tick" /\ pc' = "run" /\ Turn(ReadyList(Now(next), p))
      /\ sleepQ # NULL => sleepdiff[sleepQ] # 0
  BY DEF Before, TickDone, TimeUp, Turn
<1>2. PICK x : x = p
  OBVIOUS
<1>3. /\ r \in Seq(Proc) /\ x \in Proc /\ W \in SUBSET Proc
      /\ s \in Seq(W) /\ Len(s) \in Nat /\ sleepQ = IF Len(s) = 0 THEN NULL ELSE s[1]
      /\ \A i \in 1 .. Len(s) : s[i] \in Proc
      /\ \A y \in W : \E i \in 1 .. Len(s) : s[i] = y
  BY <1>1, <1>2, StandFacts
<1>4. s # <<>> => sleepdiff[s[1]] >= 1
  <2> SUFFICES ASSUME s # <<>> PROVE sleepdiff[s[1]] >= 1
    OBVIOUS
  <2>1. Len(s) # 0 /\ 1 \in 1 .. Len(s)
    BY <1>3
  <2>2. sleepQ = s[1] /\ s[1] \in Proc /\ NULL \notin Proc
    BY <1>3, <2>1, ListAssumption DEF Proc
  <2>3. sleepdiff[s[1]] \in Int /\ sleepdiff[s[1]] >= 0 /\ sleepdiff[s[1]] # 0
    BY <1>1, <2>2 DEF ClockAs
  <2> QED BY <2>3
<1>5. Due(0, s, sleepdiff)
  <2>1. 0 < Len(s) => s # <<>> /\ 0 + 1 = 1
    BY <1>3
  <2>2. 0 < Len(s) => sleepdiff[s[0 + 1]] # 0
    BY <1>4, <2>1
  <2>3. 0 \in 0 .. Len(s) /\ \A i \in 1 .. 0 : sleepdiff[s[i]] = 0
    BY <1>3
  <2> QED BY <2>2, <2>3 DEF Due
<1> DEFINE t == Append(r, x)
<1>6. r \o SubSeq(s, 1, 0) = r
  BY <1>3
<1>7. View(t, s, W, 0)
  <2>1. View(Append(r \o SubSeq(s, 1, 0), x), s, W, 0)
    BY <1>1, <1>2, <1>5, TickView
  <2> QED BY <1>6, <2>1
<1>8. p' = Head(t) /\ Stand(Tail(t), s, (R \cup {x}) \ {Head(t)}, W)'
  BY <1>1, <1>2, YieldStands
<1>9. t \in Seq(Proc) /\ t # <<>>
  BY <1>3
<1> HIDE DEF t
<1>10. Sleepers' = s /\ View(t, s, W, 0)'
  BY <1>1, <1>8, <1>9, TurnViewNext
<1>11. Waits' = Waits
  BY <1>1, <1>3, <1>7, <1>10, SameWaits
<1>12. Clock'
  BY <1>1, <1>4, <1>10 DEF Clock, ClockAs
<1> QED BY <1>7, <1>10, <1>11, <1>12 DEF View
-----------------------------------------------------------------------------
\* The initial state is one of Scheduler's.
LEMMA InitRefines == Init => Clock /\ S!Init
<1> SUFFICES ASSUME Init PROVE Clock /\ S!Init
  OBVIOUS
<1>1. /\ p = 0 /\ pc = "run" /\ sleepdiff = [q \in Proc |-> 0]
  BY DEF Init, Idle
<1>2. Stand(<<1>>, <<>>, {1}, {})
  BY InitStands
<1>3. sleepdiff \in [Proc -> Int] /\ pc # "tick"
  BY <1>1
<1>4. PICK x : x = p
  OBVIOUS
<1>5. Sleepers = <<>> /\ View(<<x>> \o <<1>>, <<>>, {}, 0)
  BY <1>2, <1>3, <1>4, ReadsHold, RunView
<1>6. Clock
  BY <1>1, <1>5 DEF Clock, ClockAs
<1>7. Head(Line) = 0 /\ Tail(Line) = <<1>>
  <2>1. <<1>> \in Seq(Nat) /\ x \in Nat /\ Line = <<x>> \o <<1>>
    BY <1>1, <1>4, <1>5 DEF View
  <2> QED BY <1>1, <1>4, <2>1, ConsIs
<1>8. Waits = [q \in Proc |-> 0]
  BY <1>5 DEF View
<1> QED BY <1>6, <1>7, <1>8 DEF S!Init, S!Idle, S!Proc, Proc

\* Every step of the pointers, one by one.
LEMMA NextRefines ==
  NoZeroSleep => (Threads /\ Clock /\ Reads /\ Reads' /\ [Next]_vars => Clock' /\ [S!Next]_(S!vars))
<1> SUFFICES ASSUME NoZeroSleep, Threads, Clock, Reads, Reads', [Next]_vars
             PROVE  Clock' /\ (S!Next \/ (Line' = Line /\ Waits' = Waits))
  BY DEF S!vars
<1>1. PICK r, s, R, W : Stand(r, s, R, W) /\ Deltas(s) /\ tmp \in W \cup {NULL}
  BY DEF Threads, ThreadsAs
<1>2. /\ sleepdiff \in [Proc -> Int] /\ len \in Nat /\ (pc = "search" <=> tmp # NULL)
  BY DEF Threads, Types
<1>3. Sleepers = s
  BY <1>1, StandReads DEF Sleepers
<1>4. Before(r, s, R, W)
  BY <1>1, <1>2, <1>3 DEF Before, Clock
<1>5. CASE Yield \/ TickIdle
  <2>1. pc = "run" /\ Turn(ReadyList(Now(next), p)) /\ UNCHANGED <<sleepQ, sleepdiff>>
    BY <1>5 DEF Yield, TickIdle
  <2> QED BY <1>4, <2>1, YieldRefines DEF S!Next
<1>6. CASE Block
  BY <1>4, <1>6, BlockRefines DEF S!Next
<1>7. ASSUME NEW q \in Proc, Wake(q)
      PROVE  Clock' /\ S!Next
  <2>1. S!Wake(q) /\ Clock'
    BY <1>4, <1>7, WakeRefines
  <2> QED BY <2>1 DEF S!Next, S!Proc, Proc
<1>8. ASSUME NEW n \in SleepTicks, SleepFirst(n)
      PROVE  Clock' /\ S!Next
  <2>1. S!Sleep(n) /\ Clock'
    BY <1>4, <1>8, FirstRefines
  <2> QED BY <2>1 DEF S!Next, NoZeroSleep
<1>9. CASE Link
  <2>1. (\E n \in SleepTicks : S!Sleep(n)) /\ Clock'
    BY <1>1, <1>2, <1>4, <1>9, LinkRefines
  <2> QED BY <2>1 DEF S!Next, NoZeroSleep
<1>10. ASSUME NEW n \in SleepTicks, SleepSearch(n)
       PROVE  Clock' /\ Line' = Line /\ Waits' = Waits
  BY <1>4, <1>10, SleepSearchStutters
<1>11. CASE Search
  BY <1>2, <1>4, <1>11, SearchOnStutters
<1>12. CASE Tick
  BY <1>4, <1>12, TickRefines DEF S!Next
<1>13. CASE WakeOne
  BY <1>4, <1>13, WakeOneStutters
<1>14. CASE TickDone
  BY <1>4, <1>14, TickDoneStutters
<1>15. CASE UNCHANGED vars
  <2>1. UNCHANGED <<p, head, tail, sleepQ, next, sleepdiff, pc, tmp, len>>
    BY <1>15 DEF vars, readyVars
  <2>2. PICK m \in 0 .. Len(s) : Moves(s, m)
    <3>1. Len(s) \in Nat
      BY <1>1, StandFacts
    <3>2. \E m \in 0 .. Len(s) : Due(m, s, sleepdiff)
      BY <3>1, DueExists
    <3> QED BY <3>1, <3>2 DEF Moves
  <2>3. Stand(r, s, R, W)' /\ Moves(s, m)' /\ sleepdiff' \in [Proc -> Int]
    BY <1>1, <1>2, <2>1, <2>2 DEF Stand, Now, Moves
  <2> DEFINE q == IF pc = "tick" THEN Append(r \o SubSeq(s, 1, m), p) ELSE <<p>> \o r
  <2>4. PICK u : u = q
    OBVIOUS
  <2>5. View(u, s, W, m)
    BY <1>1, <1>2, <2>2, <2>4 DEF Reads
  <2>6. Sleepers' = s /\ View(u, s, W, m)'
    <3>1. Sleepers' = s /\ View(q, s, W, m)'
      BY <2>3 DEF Reads
    <3>2. q' = u
      BY <2>1, <2>4
    <3> QED BY <3>1, <3>2 DEF View
  <2>7. Waits' = Waits
    <3>1. W \in SUBSET Proc /\ \A y \in W : \E i \in 1 .. Len(s) : s[i] = y
      BY <1>1, StandFacts
    <3> QED BY <2>1, <2>5, <2>6, <3>1, SameWaits
  <2>8. Clock'
    BY <1>3, <2>1, <2>6 DEF Clock, ClockAs
  <2> QED BY <2>5, <2>6, <2>7, <2>8 DEF View
<1> QED
  BY <1>5, <1>6, <1>7, <1>8, <1>9, <1>10, <1>11, <1>12, <1>13, <1>14, <1>15 DEF Next

(***************************************************************************)
(* The pointers and the differences do what Scheduler says: the ready list *)
(* goes round first come, first served, and each sleeper of the delta list *)
(* is woken at its tick, whoever is put in before it or behind it, as long *)
(* as nobody sleeps for less than a tick (disp.c, lines 193-228; sleep.c,  *)
(* lines 8-79).                                                            *)
(***************************************************************************)
THEOREM ListsImplementScheduler ==
  ASSUME NoZeroSleep
  PROVE  Spec => ImplementsScheduler
<1>1. Init => Clock /\ S!Init
  BY InitRefines
<1>2. Threads /\ Clock /\ Reads /\ Reads' /\ [Next]_vars => Clock' /\ [S!Next]_(S!vars)
  BY NextRefines
<1>3. Spec => S!Init /\ [][S!Next]_(S!vars)
  BY <1>1, <1>2, ReadsHold, ThreadsHold, PTL DEF Spec
<1> QED BY <1>3 DEF ImplementsScheduler, S!Spec
=============================================================================
