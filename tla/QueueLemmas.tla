----------------------------- MODULE QueueLemmas -----------------------------
(***************************************************************************)
(* Facts about the queues of the kernel: sequences in which every member   *)
(* of a set stands exactly once.  They are stated for the operations that  *)
(* ready(), next(), sleep() and tick() make on them.  At the end are facts  *)
(* about numbers and folds that the proofs share.                          *)
(***************************************************************************)
EXTENDS Integers, SequencesExt, SequenceTheorems, FiniteSetTheorems, WellFoundedInduction, TLAPS

\* q lists every element of T once and nothing else.
Lists(q, T) == q \in Seq(T) /\ IsInjective(q) /\ Range(q) = T

\* An index of a queue, and the element it holds.
LEMMA ListsFacts ==
  ASSUME NEW T, NEW q, Lists(q, T)
  PROVE  /\ q \in Seq(T) /\ Len(q) \in Nat /\ DOMAIN q = 1 .. Len(q)
         /\ \A i \in 1 .. Len(q) : q[i] \in T
         /\ \A i, j \in 1 .. Len(q) : q[i] = q[j] => i = j
         /\ \A x \in T : \E i \in 1 .. Len(q) : q[i] = x
<1>1. q \in Seq(T) /\ IsInjective(q) /\ Range(q) = T
  BY DEF Lists
<1>2. Len(q) \in Nat /\ DOMAIN q = 1 .. Len(q)
  BY <1>1
<1>3. \A i \in 1 .. Len(q) : q[i] \in T
  BY <1>1
<1>4. \A i, j \in 1 .. Len(q) : q[i] = q[j] => i = j
  BY <1>1, <1>2 DEF IsInjective
<1>5. \A x \in T : \E i \in 1 .. Len(q) : q[i] = x
  BY <1>1, <1>2 DEF Range
<1> QED BY <1>1, <1>2, <1>3, <1>4, <1>5

\* The converse: what shows that a sequence lists a set.
LEMMA ListsIntro ==
  ASSUME NEW T, NEW q \in Seq(T),
         \A i, j \in 1 .. Len(q) : q[i] = q[j] => i = j,
         \A x \in T : \E i \in 1 .. Len(q) : q[i] = x
  PROVE  Lists(q, T)
<1>1. DOMAIN q = 1 .. Len(q)
  OBVIOUS
<1>2. \A i \in 1 .. Len(q) : q[i] \in T
  OBVIOUS
<1>3. IsInjective(q)
  BY <1>1 DEF IsInjective
<1>4. Range(q) = T
  BY <1>1, <1>2 DEF Range
<1> QED BY <1>3, <1>4 DEF Lists

\* ready(): a process that is not in the queue is appended.
LEMMA ListsAppend ==
  ASSUME NEW T, NEW q, Lists(q, T), NEW x, x \notin T
  PROVE  Lists(Append(q, x), T \cup {x})
<1> DEFINE U == T \cup {x}
           r == Append(q, x)
<1>1. /\ q \in Seq(T) /\ Len(q) \in Nat
      /\ \A i \in 1 .. Len(q) : q[i] \in T
      /\ \A i, j \in 1 .. Len(q) : q[i] = q[j] => i = j
      /\ \A y \in T : \E i \in 1 .. Len(q) : q[i] = y
  BY ListsFacts
<1>2. q \in Seq(U)
  BY <1>1, SeqMonotonic
<1>3. r \in Seq(U) /\ Len(r) = Len(q) + 1
  BY <1>2, AppendProperties
<1>4. (\A i \in 1 .. Len(q) : r[i] = q[i]) /\ r[Len(q) + 1] = x
  BY <1>2, AppendProperties
<1>5. \A i \in 1 .. Len(r) : i = Len(q) + 1 \/ i \in 1 .. Len(q)
  BY <1>1, <1>3
<1>6. \A i, j \in 1 .. Len(r) : r[i] = r[j] => i = j
  BY <1>1, <1>4, <1>5
<1>7. \A y \in U : \E i \in 1 .. Len(r) : r[i] = y
  BY <1>1, <1>3, <1>4
<1> HIDE DEF U, r
<1>8. Lists(r, U)
  BY <1>3, <1>6, <1>7, ListsIntro
<1> QED BY <1>8 DEF U, r

\* next(): the head of the queue leaves it.
LEMMA ListsTail ==
  ASSUME NEW T, NEW q, Lists(q, T), q # <<>>
  PROVE  Head(q) \in T /\ Lists(Tail(q), T \ {Head(q)})
<1> DEFINE h == Head(q)
           r == Tail(q)
           U == T \ {h}
<1>1. /\ q \in Seq(T) /\ Len(q) \in Nat
      /\ \A i \in 1 .. Len(q) : q[i] \in T
      /\ \A i, j \in 1 .. Len(q) : q[i] = q[j] => i = j
      /\ \A y \in T : \E i \in 1 .. Len(q) : q[i] = y
  BY ListsFacts
<1>2. Len(q) >= 1 /\ h = q[1]
  BY <1>1
<1>3. /\ r \in Seq(T) /\ Len(r) = Len(q) - 1
      /\ \A i \in 1 .. Len(r) : r[i] = q[i + 1]
  BY <1>1, HeadTailProperties
<1>4. \A i \in 1 .. Len(r) : r[i] \in U
  BY <1>1, <1>2, <1>3
<1>5. r \in Seq(U)
  <2> HIDE DEF r, U
  <2>1. r \in Seq(Range(r))
    BY <1>3, SeqOfRange
  <2>2. Range(r) \subseteq U
    BY <1>3, <1>4, RangeEquality
  <2> QED BY <2>1, <2>2, SeqMonotonic
<1>6. \A i, j \in 1 .. Len(r) : r[i] = r[j] => i = j
  BY <1>1, <1>3
<1>7. \A y \in U : \E i \in 1 .. Len(r) : r[i] = y
  <2> SUFFICES ASSUME NEW y \in U PROVE \E i \in 1 .. Len(r) : r[i] = y
    OBVIOUS
  <2>1. PICK i \in 1 .. Len(q) : q[i] = y
    BY <1>1
  <2>2. i # 1
    BY <2>1, <1>2
  <2>3. i - 1 \in 1 .. Len(r) /\ r[i - 1] = q[i]
    BY <2>2, <1>1, <1>3
  <2> QED BY <2>1, <2>3
<1> HIDE DEF U, r
<1>8. Lists(r, U)
  BY <1>5, <1>6, <1>7, ListsIntro
<1> QED BY <1>1, <1>2, <1>8 DEF U, r, h

\* The first k elements of a queue and the rest.
LEMMA ListsSplit ==
  ASSUME NEW T, NEW q, Lists(q, T), NEW k \in 0 .. Len(q)
  PROVE  LET a == SubSeq(q, 1, k)
             b == SubSeq(q, k + 1, Len(q))
         IN  /\ Lists(a, Range(a)) /\ Lists(b, Range(b))
             /\ Range(a) \cap Range(b) = {}
             /\ Range(a) \cup Range(b) = T
             /\ Range(a) = {q[i] : i \in 1 .. k}
<1> DEFINE a == SubSeq(q, 1, k)
           b == SubSeq(q, k + 1, Len(q))
<1>1. /\ q \in Seq(T) /\ Len(q) \in Nat
      /\ \A i \in 1 .. Len(q) : q[i] \in T
      /\ \A i, j \in 1 .. Len(q) : q[i] = q[j] => i = j
      /\ \A y \in T : \E i \in 1 .. Len(q) : q[i] = y
  BY ListsFacts
<1>2. /\ a \in Seq(T) /\ Len(a) = k
      /\ \A i \in 1 .. k : a[i] = q[i]
  BY <1>1, SubSeqProperties
<1>3. /\ b \in Seq(T) /\ Len(b) = Len(q) - k
      /\ \A i \in 1 .. Len(q) - k : b[i] = q[k + i]
  <2>1. \A i \in k + 1 .. Len(q) : q[i] \in T
    BY <1>1
  <2>2. k + 1 \in Int /\ Len(q) \in Int
    BY <1>1
  <2>3. /\ b \in Seq(T)
        /\ Len(b) = IF k + 1 <= Len(q) THEN Len(q) - (k + 1) + 1 ELSE 0
        /\ \A i \in 1 .. Len(q) - (k + 1) + 1 : b[i] = q[k + 1 + i - 1]
    BY <2>1, <2>2, SubSeqProperties
  <2>4. \A i \in 1 .. Len(q) - k : b[i] = q[k + i]
    <3> SUFFICES ASSUME NEW i \in 1 .. Len(q) - k PROVE b[i] = q[k + i]
      OBVIOUS
    <3>1. i \in 1 .. Len(q) - (k + 1) + 1 /\ k + 1 + i - 1 = k + i
      BY <1>1
    <3> HIDE DEF b
    <3> QED BY <3>1, <2>3
  <2> QED BY <2>3, <2>4, <1>1
<1>4. Range(a) = {a[i] : i \in 1 .. k} /\ Range(b) = {b[i] : i \in 1 .. Len(q) - k}
  BY <1>2, <1>3, RangeEquality
<1> HIDE DEF a, b
<1>5. a \in Seq(Range(a)) /\ b \in Seq(Range(b))
  BY <1>2, <1>3, SeqOfRange
<1>6. Lists(a, Range(a))
  <2>1. \A i, j \in 1 .. Len(a) : a[i] = a[j] => i = j
    <3> SUFFICES ASSUME NEW i \in 1 .. Len(a), NEW j \in 1 .. Len(a), a[i] = a[j]
                 PROVE  i = j
      OBVIOUS
    <3>1. i \in 1 .. k /\ j \in 1 .. k
      BY <1>2
    <3>2. a[i] = q[i] /\ a[j] = q[j]
      BY <3>1, <1>2
    <3>3. Len(q) \in Nat
      BY <1>1
    <3>4. i \in 1 .. Len(q) /\ j \in 1 .. Len(q)
      BY <3>1, <3>3
    <3> QED BY <3>2, <3>4, <1>1
  <2>2. \A y \in Range(a) : \E i \in 1 .. Len(a) : a[i] = y
    BY <1>2, <1>4
  <2> QED BY <1>5, <2>1, <2>2, ListsIntro
<1>7. Lists(b, Range(b))
  <2>1. \A i, j \in 1 .. Len(b) : b[i] = b[j] => i = j
    <3> SUFFICES ASSUME NEW i \in 1 .. Len(b), NEW j \in 1 .. Len(b), b[i] = b[j]
                 PROVE  i = j
      OBVIOUS
    <3>1. i \in 1 .. Len(q) - k /\ j \in 1 .. Len(q) - k
      BY <1>3
    <3>2. b[i] = q[k + i] /\ b[j] = q[k + j]
      BY <3>1, <1>3
    <3>3. k + i \in 1 .. Len(q) /\ k + j \in 1 .. Len(q)
      BY <3>1, <1>1
    <3>4. k + i = k + j
      BY <3>2, <3>3, <1>1
    <3> QED BY <3>4, <3>1, <1>1
  <2>2. \A y \in Range(b) : \E i \in 1 .. Len(b) : b[i] = y
    BY <1>3, <1>4
  <2> QED BY <1>5, <2>1, <2>2, ListsIntro
<1>8. Range(a) \cap Range(b) = {}
  <2> SUFFICES ASSUME NEW y \in Range(a), y \in Range(b) PROVE FALSE
    OBVIOUS
  <2>1. PICK i \in 1 .. k : y = q[i]
    BY <1>2, <1>4
  <2>2. PICK j \in 1 .. Len(q) - k : y = q[k + j]
    BY <1>3, <1>4
  <2>3. i \in 1 .. Len(q) /\ k + j \in 1 .. Len(q) /\ i # k + j
    BY <1>1
  <2> QED BY <1>1, <2>1, <2>2, <2>3
<1>9. Range(a) \cup Range(b) = T
  <2>1. Range(a) \subseteq T /\ Range(b) \subseteq T
    BY <1>2, <1>3, RangeOfSeq
  <2>2. ASSUME NEW y \in T PROVE y \in Range(a) \cup Range(b)
    <3>1. PICK i \in 1 .. Len(q) : q[i] = y
      BY <1>1
    <3>2. CASE i <= k
      BY <3>1, <3>2, <1>2, <1>4
    <3>3. CASE i > k
      <4>1. i - k \in 1 .. Len(q) - k /\ k + (i - k) = i
        BY <3>3, <1>1
      <4>2. b[i - k] = y
        BY <4>1, <3>1, <1>3
      <4> QED BY <4>1, <4>2, <1>4
    <3> QED BY <3>2, <3>3, <1>1
  <2> QED BY <2>1, <2>2
<1>10. Range(a) = {q[i] : i \in 1 .. k}
  BY <1>2, <1>4
<1> QED BY <1>6, <1>7, <1>8, <1>9, <1>10 DEF a, b

\* Two queues of different processes, one behind the other.
LEMMA ListsConcat ==
  ASSUME NEW T, NEW U, NEW q, NEW r, Lists(q, T), Lists(r, U), T \cap U = {}
  PROVE  Lists(q \o r, T \cup U)
<1> DEFINE V == T \cup U
           c == q \o r
<1>1. /\ q \in Seq(T) /\ Len(q) \in Nat
      /\ \A i \in 1 .. Len(q) : q[i] \in T
      /\ \A i, j \in 1 .. Len(q) : q[i] = q[j] => i = j
      /\ \A y \in T : \E i \in 1 .. Len(q) : q[i] = y
  BY ListsFacts
<1>2. /\ r \in Seq(U) /\ Len(r) \in Nat
      /\ \A i \in 1 .. Len(r) : r[i] \in U
      /\ \A i, j \in 1 .. Len(r) : r[i] = r[j] => i = j
      /\ \A y \in U : \E i \in 1 .. Len(r) : r[i] = y
  BY ListsFacts
<1>3. q \in Seq(V) /\ r \in Seq(V)
  BY <1>1, <1>2, SeqMonotonic
<1>4. /\ c \in Seq(V) /\ Len(c) = Len(q) + Len(r)
      /\ \A i \in 1 .. Len(q) + Len(r) :
           c[i] = IF i <= Len(q) THEN q[i] ELSE r[i - Len(q)]
  BY <1>3, ConcatProperties
<1> HIDE DEF c, V
<1>c. \A i \in 1 .. Len(c) :
        \/ i \in 1 .. Len(q) /\ c[i] = q[i] /\ c[i] \in T
        \/ i \notin 1 .. Len(q) /\ i - Len(q) \in 1 .. Len(r) /\ i \in Nat
           /\ c[i] = r[i - Len(q)] /\ c[i] \in U
  <2> TAKE i \in 1 .. Len(c)
  <2>1. i \in Nat /\ i >= 1 /\ i <= Len(q) + Len(r)
    BY <1>1, <1>2, <1>4
  <2>2. c[i] = IF i <= Len(q) THEN q[i] ELSE r[i - Len(q)]
    BY <2>1, <1>1, <1>2, <1>4
  <2>3. CASE i <= Len(q)
    <3>1. i \in 1 .. Len(q) /\ c[i] = q[i]
      BY <2>1, <2>2, <2>3, <1>1
    <3> QED BY <3>1, <1>1
  <2>4. CASE ~(i <= Len(q))
    <3>1. i \notin 1 .. Len(q) /\ i - Len(q) \in 1 .. Len(r)
      BY <2>1, <2>4, <1>1, <1>2
    <3>2. c[i] = r[i - Len(q)]
      BY <2>2, <2>4
    <3> QED BY <3>1, <3>2, <2>1, <1>2
  <2> QED BY <2>3, <2>4
<1>d. \A j \in 1 .. Len(r) : Len(q) + j \in 1 .. Len(c) /\ c[Len(q) + j] = r[j]
  <2> SUFFICES ASSUME NEW j \in 1 .. Len(r)
               PROVE  Len(q) + j \in 1 .. Len(c) /\ c[Len(q) + j] = r[j]
    OBVIOUS
  <2> DEFINE i == Len(q) + j
  <2>1. i \in 1 .. Len(c) /\ ~(i <= Len(q)) /\ i - Len(q) = j
    BY <1>1, <1>2, <1>4
  <2> HIDE DEF i
  <2>2. c[i] = r[j]
    BY <2>1, <1>c
  <2> QED BY <2>1, <2>2 DEF i
<1>5. \A i, j \in 1 .. Len(c) : c[i] = c[j] => i = j
  <2> SUFFICES ASSUME NEW i \in 1 .. Len(c), NEW j \in 1 .. Len(c), c[i] = c[j]
               PROVE  i = j
    OBVIOUS
  <2>1. CASE i \in 1 .. Len(q) /\ j \in 1 .. Len(q)
    BY <2>1, <1>1, <1>c
  <2>2. CASE i \notin 1 .. Len(q) /\ j \notin 1 .. Len(q)
    <3>1. /\ i \in Nat /\ i - Len(q) \in 1 .. Len(r) /\ c[i] = r[i - Len(q)]
          /\ j \in Nat /\ j - Len(q) \in 1 .. Len(r) /\ c[j] = r[j - Len(q)]
      BY <2>2, <1>c
    <3>2. i - Len(q) = j - Len(q)
      BY <3>1, <1>2
    <3> QED BY <3>1, <3>2, <1>1
  <2>3. CASE i \in 1 .. Len(q) /\ j \notin 1 .. Len(q)
    <3>1. c[i] \in T /\ c[j] \in U
      BY <2>3, <1>c
    <3> QED BY <3>1
  <2>4. CASE i \notin 1 .. Len(q) /\ j \in 1 .. Len(q)
    <3>1. c[i] \in U /\ c[j] \in T
      BY <2>4, <1>c
    <3> QED BY <3>1
  <2> QED BY <2>1, <2>2, <2>3, <2>4
<1>6. \A y \in V : \E i \in 1 .. Len(c) : c[i] = y
  <2> SUFFICES ASSUME NEW y \in V PROVE \E i \in 1 .. Len(c) : c[i] = y
    OBVIOUS
  <2>1. CASE y \in T
    <3>1. PICK i \in 1 .. Len(q) : q[i] = y
      BY <2>1, <1>1
    <3>2. i \in 1 .. Len(c) /\ c[i] = q[i]
      BY <1>1, <1>2, <1>4
    <3> QED BY <3>1, <3>2
  <2>2. CASE y \in U
    BY <2>2, <1>2, <1>d
  <2> QED BY <2>1, <2>2 DEF V
<1>7. Lists(c, V)
  BY <1>4, <1>5, <1>6, ListsIntro
<1> QED BY <1>7 DEF c, V

\* InsertAt as a concatenation of what is before x, x, and what is behind it.
LEMMA InsertIsConcat ==
  ASSUME NEW q, NEW x, NEW k \in Int
  PROVE  InsertAt(q, k + 1, x) = SubSeq(q, 1, k) \o <<x>> \o SubSeq(q, k + 1, Len(q))
<1>1. (k + 1) - 1 = k
  OBVIOUS
<1>2. InsertAt(q, k + 1, x)
        = SubSeq(q, 1, (k + 1) - 1) \o <<x>> \o SubSeq(q, k + 1, Len(q))
  BY Zenon DEF InsertAt
<1> QED BY <1>1, <1>2, Zenon

\* sleep(): a process is put behind the first k of the queue.
LEMMA ListsInsert ==
  ASSUME NEW T, NEW q, Lists(q, T), NEW x, x \notin T, NEW k \in 0 .. Len(q)
  PROVE  Lists(InsertAt(q, k + 1, x), T \cup {x})
<1> DEFINE a == SubSeq(q, 1, k)
           b == SubSeq(q, k + 1, Len(q))
<1>1. /\ Lists(a, Range(a)) /\ Lists(b, Range(b))
      /\ Range(a) \cap Range(b) = {}
      /\ Range(a) \cup Range(b) = T
  BY ListsSplit
<1>2. InsertAt(q, k + 1, x) = a \o <<x>> \o b
  <2>1. k \in Int
    BY <1>1, ListsFacts
  <2> QED BY <2>1, InsertIsConcat
<1> HIDE DEF a, b
<1>3. Lists(<<x>>, {x})
  <2> DEFINE s == <<x>>
  <2>1. s \in Seq({x}) /\ Len(s) = 1 /\ s[1] = x
    OBVIOUS
  <2> HIDE DEF s
  <2>2. \A i, j \in 1 .. Len(s) : s[i] = s[j] => i = j
    BY <2>1
  <2>3. \A y \in {x} : \E i \in 1 .. Len(s) : s[i] = y
    BY <2>1
  <2>4. Lists(s, {x})
    BY <2>1, <2>2, <2>3, ListsIntro
  <2> QED BY <2>4 DEF s
<1>4. Lists(a \o <<x>>, Range(a) \cup {x})
  BY <1>1, <1>3, ListsConcat
<1>5. Lists((a \o <<x>>) \o b, (Range(a) \cup {x}) \cup Range(b))
  BY <1>1, <1>4, ListsConcat
<1>6. (Range(a) \cup {x}) \cup Range(b) = T \cup {x}
  BY <1>1
<1> QED BY <1>2, <1>5, <1>6

\* The elements of the two parts of a sequence that is cut behind the first k.
LEMMA SplitElements ==
  ASSUME NEW S, NEW q \in Seq(S), NEW k \in 0 .. Len(q)
  PROVE  LET a == SubSeq(q, 1, k)
             b == SubSeq(q, k + 1, Len(q))
         IN  /\ a \in Seq(S) /\ Len(a) = k /\ \A i \in 1 .. k : a[i] = q[i]
             /\ b \in Seq(S) /\ Len(b) = Len(q) - k
             /\ \A i \in 1 .. Len(q) - k : b[i] = q[k + i]
<1> DEFINE a == SubSeq(q, 1, k)
           b == SubSeq(q, k + 1, Len(q))
<1>1. Len(q) \in Nat /\ \A i \in 1 .. Len(q) : q[i] \in S
  OBVIOUS
<1>2. k \in Int /\ k + 1 \in Int /\ Len(q) \in Int /\ 1 \in Int
  BY <1>1
<1>3. (\A i \in 1 .. k : q[i] \in S) /\ (\A i \in k + 1 .. Len(q) : q[i] \in S)
  BY <1>1
<1>4. a \in Seq(S) /\ Len(a) = k /\ \A i \in 1 .. k : a[i] = q[i]
  BY <1>1, <1>2, <1>3, SubSeqProperties
<1>5. /\ b \in Seq(S)
      /\ Len(b) = IF k + 1 <= Len(q) THEN Len(q) - (k + 1) + 1 ELSE 0
      /\ \A i \in 1 .. Len(q) - (k + 1) + 1 : b[i] = q[k + 1 + i - 1]
  BY <1>2, <1>3, SubSeqProperties
<1> HIDE DEF a, b
<1>6. \A i \in 1 .. Len(q) - k : b[i] = q[k + i]
  <2> SUFFICES ASSUME NEW i \in 1 .. Len(q) - k PROVE b[i] = q[k + i]
    OBVIOUS
  <2>1. i \in 1 .. Len(q) - (k + 1) + 1 /\ k + 1 + i - 1 = k + i
    BY <1>1
  <2> QED BY <2>1, <1>5
<1> QED BY <1>1, <1>4, <1>5, <1>6 DEF a, b

\* The elements of two sequences, one behind the other.
LEMMA ConcatElements ==
  ASSUME NEW S, NEW q \in Seq(S), NEW r \in Seq(S)
  PROVE  /\ q \o r \in Seq(S) /\ Len(q \o r) = Len(q) + Len(r)
         /\ \A i \in 1 .. Len(q) : (q \o r)[i] = q[i]
         /\ \A i \in 1 .. Len(r) : (q \o r)[Len(q) + i] = r[i]
<1> DEFINE c == q \o r
<1>1. Len(q) \in Nat /\ Len(r) \in Nat
  OBVIOUS
<1>2. /\ c \in Seq(S) /\ Len(c) = Len(q) + Len(r)
      /\ \A i \in 1 .. Len(q) + Len(r) :
           c[i] = IF i <= Len(q) THEN q[i] ELSE r[i - Len(q)]
  BY ConcatProperties
<1> HIDE DEF c
<1>3. \A i \in 1 .. Len(q) : c[i] = q[i]
  BY <1>1, <1>2
<1>4. \A i \in 1 .. Len(r) : c[Len(q) + i] = r[i]
  <2> SUFFICES ASSUME NEW i \in 1 .. Len(r) PROVE c[Len(q) + i] = r[i]
    OBVIOUS
  <2>1. Len(q) + i \in 1 .. Len(q) + Len(r) /\ ~(Len(q) + i <= Len(q))
        /\ (Len(q) + i) - Len(q) = i
    BY <1>1
  <2> QED BY <2>1, <1>2
<1> QED BY <1>2, <1>3, <1>4 DEF c

\* r is q with x put in behind the first k.
Inserted(r, q, k, x) ==
  /\ Len(r) = Len(q) + 1
  /\ \A i \in 1 .. k : r[i] = q[i]
  /\ r[k + 1] = x
  /\ \A i \in k + 2 .. Len(q) + 1 : r[i] = q[i - 1]

\* sleep(): where each process of the queue stands after one more is put in.
LEMMA InsertElements ==
  ASSUME NEW S, NEW q \in Seq(S), NEW k \in 0 .. Len(q), NEW x \in S
  PROVE  LET r == InsertAt(q, k + 1, x)
         IN  r \in Seq(S) /\ Inserted(r, q, k, x)
<1> DEFINE a == SubSeq(q, 1, k)
           b == SubSeq(q, k + 1, Len(q))
           s == <<x>>
           r == InsertAt(q, k + 1, x)
<1>1. /\ a \in Seq(S) /\ Len(a) = k /\ \A i \in 1 .. k : a[i] = q[i]
      /\ b \in Seq(S) /\ Len(b) = Len(q) - k
      /\ \A i \in 1 .. Len(q) - k : b[i] = q[k + i]
  BY SplitElements
<1>2. Len(q) \in Nat /\ k \in Int
  OBVIOUS
<1>3. r = a \o s \o b
  BY <1>2, InsertIsConcat
<1>4. s \in Seq(S) /\ Len(s) = 1 /\ s[1] = x
  OBVIOUS
<1> HIDE DEF a, b, s, r
<1>5. /\ a \o s \in Seq(S) /\ Len(a \o s) = k + 1
      /\ \A i \in 1 .. k : (a \o s)[i] = q[i]
      /\ (a \o s)[k + 1] = x
  <2>1. a \in Seq(S) /\ s \in Seq(S)
    BY <1>1, <1>4
  <2>2. /\ a \o s \in Seq(S) /\ Len(a \o s) = Len(a) + Len(s)
        /\ \A i \in 1 .. Len(a) : (a \o s)[i] = a[i]
        /\ \A i \in 1 .. Len(s) : (a \o s)[Len(a) + i] = s[i]
    BY <2>1, ConcatElements
  <2> DEFINE c == a \o s
  <2> HIDE DEF c
  <2>3. /\ c \in Seq(S) /\ Len(c) = k + 1
        /\ \A i \in 1 .. k : c[i] = q[i]
        /\ c[k + 1] = x
    <3>1. 1 \in 1 .. Len(s) /\ Len(a) = k
      BY <1>1, <1>4
    <3> QED BY <1>1, <1>4, <2>2, <3>1 DEF c
  <2> QED BY <2>3 DEF c
<1>6. /\ r \in Seq(S) /\ Len(r) = (k + 1) + (Len(q) - k)
      /\ \A i \in 1 .. k + 1 : r[i] = (a \o s)[i]
      /\ \A i \in 1 .. Len(q) - k : r[(k + 1) + i] = q[k + i]
  <2> DEFINE c == a \o s
  <2>1. c \in Seq(S) /\ Len(c) = k + 1
    BY <1>5
  <2>2. r = c \o b
    BY <1>3
  <2> HIDE DEF c
  <2>3. /\ r \in Seq(S) /\ Len(r) = Len(c) + Len(b)
        /\ \A i \in 1 .. Len(c) : r[i] = c[i]
        /\ \A i \in 1 .. Len(b) : r[Len(c) + i] = b[i]
    <3>1. c \in Seq(S) /\ b \in Seq(S)
      BY <1>1, <2>1
    <3>2. /\ c \o b \in Seq(S) /\ Len(c \o b) = Len(c) + Len(b)
          /\ \A i \in 1 .. Len(c) : (c \o b)[i] = c[i]
          /\ \A i \in 1 .. Len(b) : (c \o b)[Len(c) + i] = b[i]
      BY <3>1, ConcatElements
    <3> QED BY <2>2, <3>2, Zenon
  <2>4. /\ r \in Seq(S) /\ Len(r) = (k + 1) + (Len(q) - k)
        /\ \A i \in 1 .. k + 1 : r[i] = c[i]
        /\ \A i \in 1 .. Len(q) - k : r[(k + 1) + i] = q[k + i]
    BY <1>1, <2>1, <2>3
  <2> QED BY <2>4 DEF c
<1>7. \A i \in k + 2 .. Len(q) + 1 : r[i] = q[i - 1]
  <2> SUFFICES ASSUME NEW i \in k + 2 .. Len(q) + 1 PROVE r[i] = q[i - 1]
    OBVIOUS
  <2> DEFINE j == i - (k + 1)
  <2>1. j \in 1 .. Len(q) - k /\ (k + 1) + j = i /\ k + j = i - 1
    BY <1>2
  <2>2. r[(k + 1) + j] = q[k + j]
    BY <2>1, <1>6
  <2> QED BY <2>1, <2>2
<1>8. (\A i \in 1 .. k : r[i] = q[i]) /\ r[k + 1] = x /\ Len(r) = Len(q) + 1
  <2>1. \A i \in 1 .. k : i \in 1 .. k + 1
    BY <1>2
  <2>2. k + 1 \in 1 .. k + 1 /\ (k + 1) + (Len(q) - k) = Len(q) + 1
    BY <1>2
  <2> DEFINE c == a \o s
  <2>3. /\ \A i \in 1 .. k + 1 : r[i] = c[i]
        /\ \A i \in 1 .. k : c[i] = q[i]
        /\ c[k + 1] = x
    BY <1>5, <1>6
  <2> HIDE DEF c
  <2> QED BY <2>1, <2>2, <2>3, <1>6
<1> QED BY <1>6, <1>7, <1>8 DEF r, Inserted

\* What is put on a stack, and what is left when it is taken off.
LEMMA FrontLast ==
  ASSUME NEW S, NEW s \in Seq(S), s # <<>>
  PROVE  /\ Front(s) \in Seq(S) /\ Last(s) \in S /\ Append(Front(s), Last(s)) = s
         /\ Last(s) \in Range(s) /\ Range(Front(s)) \subseteq Range(s)
<1> DEFINE k == Len(s) - 1
           f == Front(s)
           e == Last(s)
<1>1. Len(s) \in Nat /\ Len(s) # 0
  OBVIOUS
<1>2. /\ k \in 0 .. Len(s) /\ Len(s) = k + 1 /\ k \in Nat
      /\ \A i \in 1 .. k : i \in 1 .. Len(s)
      /\ \A i \in 1 .. Len(s) : i \in 1 .. k \/ i = k + 1
  BY <1>1
<1>3. f = SubSeq(s, 1, k)
  BY DEF Front
<1>4. e = s[Len(s)] /\ Len(s) \in 1 .. Len(s)
  <2>1. e = s[Len(s)]
    BY Zenon DEF Last
  <2> QED BY <1>1, <2>1
<1> HIDE DEF k, f, e
<1>5. k \in 0 .. Len(s)
  BY <1>2
<1>6. /\ SubSeq(s, 1, k) \in Seq(S) /\ Len(SubSeq(s, 1, k)) = k
      /\ \A i \in 1 .. k : SubSeq(s, 1, k)[i] = s[i]
  BY <1>5, SplitElements
<1>7. f \in Seq(S) /\ Len(f) = k /\ \A i \in 1 .. k : f[i] = s[i]
  BY <1>3, <1>6
<1>8. e \in S /\ e \in Range(s)
  BY <1>2, <1>4 DEF Range
<1> DEFINE t == Append(f, e)
<1>9. /\ t \in Seq(S) /\ Len(t) = Len(f) + 1
      /\ \A i \in 1 .. Len(f) : t[i] = f[i]
      /\ t[Len(f) + 1] = e
  BY <1>7, <1>8, AppendProperties
<1> HIDE DEF t
<1>10. Len(t) = Len(s) /\ \A i \in 1 .. Len(s) : t[i] = s[i]
  <2>1. Len(t) = Len(s) /\ t[k + 1] = s[k + 1]
    BY <1>2, <1>4, <1>7, <1>9
  <2>2. \A i \in 1 .. k : t[i] = s[i]
    BY <1>7, <1>9
  <2>3. ASSUME NEW i \in 1 .. Len(s) PROVE t[i] = s[i]
    BY <1>2, <2>1, <2>2
  <2> QED BY <2>1, <2>3
<1>11. t = s
  BY <1>9, <1>10, SeqEqual
<1>12. Range(f) \subseteq Range(s)
  BY <1>2, <1>7 DEF Range
<1> QED BY <1>7, <1>8, <1>11, <1>12 DEF f, e, t

\* A sequence that lists a set has as many elements.
LEMMA ListsOrder ==
  ASSUME NEW T, NEW q, Lists(q, T)
  PROVE  q \in [1 .. Cardinality(T) -> T] /\ IsInjective(q)
<1>1. /\ q \in Seq(T) /\ Len(q) \in Nat /\ DOMAIN q = 1 .. Len(q)
      /\ \A i \in 1 .. Len(q) : q[i] \in T
      /\ \A i, j \in 1 .. Len(q) : q[i] = q[j] => i = j
      /\ \A x \in T : \E i \in 1 .. Len(q) : q[i] = x
  BY ListsFacts
<1> DEFINE D == 1 .. Len(q)
<1>2. IsFiniteSet(D) /\ Cardinality(D) = Len(q)
  <2>1. Len(q) \in Int /\ 1 \in Int
    BY <1>1
  <2>2. /\ IsFiniteSet(1 .. Len(q))
        /\ Cardinality(1 .. Len(q)) = IF 1 > Len(q) THEN 0 ELSE Len(q) - 1 + 1
    BY <2>1, FS_Interval
  <2> QED BY <1>1, <2>2
<1>3. q \in [D -> T]
  BY <1>1
<1> HIDE DEF D
<1>4. q \in Bijection(D, T)
  <2>1. q \in Injection(D, T)
    BY <1>1, <1>3 DEF Injection, IsInjective, D
  <2>2. q \in Surjection(D, T)
    BY <1>1, <1>3 DEF Surjection, D
  <2> QED BY <2>1, <2>2 DEF Bijection
<1>5. Cardinality(T) = Len(q)
  BY <1>2, <1>4, FS_Bijection DEF ExistsBijection
<1> QED BY <1>3, <1>5 DEF Lists, D

-----------------------------------------------------------------------------
(* Numbers.                                                                  *)

\* A set of numbers up to n has a least one.  (As the sets 0..k are finite and
\* well-founded under inclusion: this takes the place of an induction.)
LEMMA LeastOf ==
  ASSUME NEW n \in Nat, NEW T \in SUBSET (0 .. n), T # {}
  PROVE  \E k \in T : \A j \in T : k <= j
<1> DEFINE X == 0 .. n
           R == StrictSubsetOrdering(X)
           U == {0 .. k : k \in T}
<1>1. IsWellFoundedOn(R, FiniteSubsetsOf(X))
  BY FS_StrictSubsetOrderingWellFounded
<1>2. U \subseteq FiniteSubsetsOf(X) /\ U # {}
  <2>1. ASSUME NEW k \in T PROVE 0 .. k \in FiniteSubsetsOf(X)
    <3>1. k \in Int /\ 0 \in Int /\ 0 .. k \subseteq X
      OBVIOUS
    <3>2. IsFiniteSet(0 .. k)
      BY <3>1, FS_Interval
    <3> QED BY <3>1, <3>2 DEF FiniteSubsetsOf
  <2> QED BY <2>1
<1>3. \E u \in U : \A v \in U : ~ (<<v, u>> \in R)
  <2> HIDE DEF U, R, X
  <2> QED BY <1>1, <1>2, WFMin
<1>4. PICK k \in T : \A v \in U : ~ (<<v, 0 .. k>> \in R)
  BY <1>3
<1>5. ASSUME NEW j \in T, ~ (k <= j) PROVE FALSE
  <2>1. j \in Nat /\ k \in Nat /\ j < k /\ k <= n
    BY <1>5
  <2>2. 0 .. j \subseteq 0 .. k /\ 0 .. k \subseteq X /\ 0 .. j # 0 .. k
    <3>1. k \in 0 .. k /\ ~ (k \in 0 .. j)
      BY <2>1
    <3> QED BY <2>1, <3>1
  <2>3. <<0 .. j, 0 .. k>> \in R
    BY <2>2 DEF StrictSubsetOrdering
  <2> QED BY <1>4, <2>3
<1> QED BY <1>5

\* Two functions that start alike and go on alike are alike.
LEMMA SameWalk ==
  ASSUME NEW n \in Nat, NEW f, NEW g, f[0] = g[0],
         \A i \in 1 .. n : f[i - 1] = g[i - 1] => f[i] = g[i]
  PROVE  \A i \in 0 .. n : f[i] = g[i]
<1> DEFINE T == {i \in 0 .. n : f[i] # g[i]}
<1> SUFFICES ASSUME T # {} PROVE FALSE
  OBVIOUS
<1>1. PICK k \in T : \A j \in T : k <= j
  BY LeastOf
<1>2. k \in 1 .. n /\ k - 1 \in 0 .. n /\ ~ (k <= k - 1)
  OBVIOUS
<1>3. k - 1 \notin T
  BY <1>1, <1>2
<1>4. f[k - 1] = g[k - 1]
  BY <1>2, <1>3
<1> QED BY <1>2, <1>4

-----------------------------------------------------------------------------
(* Numbers and folds.                                                        *)

\* Induction along the numbers up to n: U holds those of which the claim is true.
LEMMA Counting ==
  ASSUME NEW n \in Nat, NEW U, 0 \in U, \A i \in 1 .. n : i - 1 \in U => i \in U
  PROVE  0 .. n \subseteq U
<1> DEFINE T == {i \in 0 .. n : i \notin U}
<1> SUFFICES ASSUME T # {} PROVE FALSE
  OBVIOUS
<1>1. PICK k \in T : \A j \in T : k <= j
  BY LeastOf
<1>2. k \in 1 .. n /\ k - 1 \in 0 .. n /\ ~ (k <= k - 1)
  OBVIOUS
<1>3. k - 1 \notin T
  BY <1>1, <1>2
<1>4. k - 1 \in U
  BY <1>2, <1>3
<1> QED BY <1>2, <1>4

\* A set of numbers up to n has a greatest one, which is its maximum.
LEMMA MaxOf ==
  ASSUME NEW n \in Nat, NEW T \in SUBSET (0 .. n), T # {}
  PROVE  Max(T) \in T /\ \A j \in T : j <= Max(T)
<1> DEFINE U == {n - i : i \in T}
<1>1. U \in SUBSET (0 .. n) /\ U # {}
  <2>1. ASSUME NEW i \in T PROVE n - i \in 0 .. n
    <3>1. i \in 0 .. n
      OBVIOUS
    <3> QED BY <3>1
  <2>2. PICK i \in T : TRUE
    OBVIOUS
  <2>3. n - i \in U
    BY <2>2
  <2> QED BY <2>1, <2>3
<1>2. PICK u \in U : \A v \in U : u <= v
  BY <1>1, LeastOf
<1>3. PICK k \in T : u = n - k
  BY <1>2
<1>4. ASSUME NEW j \in T PROVE k >= j
  <2>1. n - j \in U /\ j \in 0 .. n /\ k \in 0 .. n
    OBVIOUS
  <2>2. u <= n - j
    BY <1>2, <2>1
  <2> QED BY <1>3, <2>1, <2>2
<1>5. \E x \in T : \A y \in T : x >= y
  BY <1>4
<1>6. Max(T) \in T /\ \A y \in T : Max(T) >= y
  BY <1>5 DEF Max
<1>7. ASSUME NEW j \in T PROVE j <= Max(T)
  BY <1>6
<1> QED BY <1>6, <1>7

\* The maximum is the member that no member exceeds.
LEMMA MaxIs ==
  ASSUME NEW n \in Nat, NEW T \in SUBSET (0 .. n), NEW m \in T, \A j \in T : j <= m
  PROVE  Max(T) = m
<1>1. Max(T) \in T /\ m <= Max(T)
  BY MaxOf
<1>2. Max(T) <= m /\ Max(T) \in 0 .. n /\ m \in 0 .. n
  BY <1>1
<1> QED BY <1>1, <1>2

\* f folds with G over the numbers up to n, the greatest last.
FoldsTo(f, n, b, G) ==
  f = [s \in SUBSET (1 .. n) |-> IF s = {} THEN b ELSE G[<<f[s \ {Max(s)}], Max(s)>>]]

\* There is such an f.
LEMMA FoldExists ==
  ASSUME NEW n \in Nat, NEW V, NEW b \in V, NEW G \in [V \X (1 .. n) -> V]
  PROVE  \E f \in [SUBSET (1 .. n) -> V] : FoldsTo(f, n, b, G)
<1> DEFINE E(m) == \E f \in [SUBSET (1 .. m) -> V] : FoldsTo(f, m, b, G)
           T == {m \in 0 .. n : ~E(m)}
<1>0. SUFFICES ASSUME T # {} PROVE FALSE
  <2>1. T = {} => E(n)
    <3> HIDE DEF E
    <3>1. n \in 0 .. n
      OBVIOUS
    <3> QED BY <3>1
  <2> QED BY <2>1
<1>1. PICK k \in T : \A j \in T : k <= j
  BY <1>0, LeastOf
<1>2. k # 0
  <2>1. SUFFICES ASSUME k = 0 PROVE E(0)
    BY <1>1
  <2> DEFINE f == [s \in SUBSET (1 .. 0) |-> b]
  <2>2. f \in [SUBSET (1 .. 0) -> V] /\ \A s \in SUBSET (1 .. 0) : s = {}
    OBVIOUS
  <2>3. FoldsTo(f, 0, b, G)
    BY <2>2 DEF FoldsTo
  <2> QED BY <2>2, <2>3
<1>3. k \in 1 .. n /\ k - 1 \in 0 .. n /\ k - 1 \notin T
  <2> HIDE DEF E
  <2>1. k \in 0 .. n
    OBVIOUS
  <2>2. k \in 1 .. n /\ k - 1 \in 0 .. n /\ ~ (k <= k - 1)
    BY <1>2, <2>1
  <2> QED BY <1>1, <2>2
<1>4. E(k - 1)
  BY <1>3
<1>5. PICK f \in [SUBSET (1 .. k - 1) -> V] : FoldsTo(f, k - 1, b, G)
  BY <1>4
<1> DEFINE g == [s \in SUBSET (1 .. k) |-> IF k \in s THEN G[<<f[s \ {k}], k>>] ELSE f[s]]
<1>6. ASSUME NEW s \in SUBSET (1 .. k)
      PROVE  /\ k \in s => s \ {k} \in SUBSET (1 .. k - 1) /\ k \notin s \ {k}
                           /\ s \ {k} \in SUBSET (1 .. k)
             /\ k \notin s => s \in SUBSET (1 .. k - 1)
  BY <1>3
<1>7. g \in [SUBSET (1 .. k) -> V]
  <2> SUFFICES ASSUME NEW s \in SUBSET (1 .. k) PROVE g[s] \in V
    OBVIOUS
  <2>1. CASE k \in s
    <3>1. f[s \ {k}] \in V
      BY <1>5, <1>6, <2>1
    <3> QED BY <2>1, <3>1, <1>3
  <2>2. CASE k \notin s
    BY <1>5, <1>6, <2>2
  <2> QED BY <2>1, <2>2
<1>8. ASSUME NEW s \in SUBSET (1 .. k)
      PROVE  g[s] = IF s = {} THEN b ELSE G[<<g[s \ {Max(s)}], Max(s)>>]
  <2>1. CASE k \in s
    <3>1. k \in Nat /\ s \in SUBSET (0 .. k) /\ \A j \in s : j <= k
      BY <1>3
    <3>2. Max(s) = k
      BY <2>1, <3>1, MaxIs
    <3>3. g[s \ {k}] = f[s \ {k}]
      BY <1>6, <2>1
    <3> QED BY <2>1, <3>2, <3>3
  <2>2. CASE k \notin s
    <3>1. s \in SUBSET (1 .. k - 1) /\ g[s] = f[s]
      BY <1>6, <2>2
    <3>2. f[s] = IF s = {} THEN b ELSE G[<<f[s \ {Max(s)}], Max(s)>>]
      <4> HIDE DEF g, T
      <4> QED BY <1>5, <3>1 DEF FoldsTo
    <3>3. s \ {Max(s)} \in SUBSET (1 .. k) /\ k \notin s \ {Max(s)}
      BY <2>2
    <3>4. g[s \ {Max(s)}] = f[s \ {Max(s)}]
      BY <3>3
    <3> QED BY <3>1, <3>2, <3>4
  <2> QED BY <2>1, <2>2
<1>9. FoldsTo(g, k, b, G)
  <2> HIDE DEF T
  <2>1. g = [s \in SUBSET (1 .. k) |-> g[s]]
    OBVIOUS
  <2>2. g = [s \in SUBSET (1 .. k) |-> IF s = {} THEN b ELSE G[<<g[s \ {Max(s)}], Max(s)>>]]
    <3> HIDE DEF g
    <3> QED BY <1>8, <2>1
  <2> QED BY <2>2 DEF FoldsTo
<1>10. E(k)
  <2> HIDE DEF g
  <2> QED BY <1>7, <1>9
<1> QED BY <1>1, <1>10

\* The last number of a fold over the numbers up to i, and the rest.
LEMMA MaxUpTo ==
  ASSUME NEW n \in Nat, NEW i \in 1 .. n
  PROVE  /\ 1 .. i \in SUBSET (1 .. n) /\ 1 .. i # {}
         /\ Max(1 .. i) = i /\ (1 .. i) \ {Max(1 .. i)} = 1 .. i - 1
<1>1. /\ i \in Nat /\ 1 .. i \in SUBSET (0 .. i) /\ i \in 1 .. i /\ \A j \in 1 .. i : j <= i
      /\ 1 .. i \in SUBSET (1 .. n) /\ 1 .. i # {}
      /\ (1 .. i) \ {i} = 1 .. i - 1
  OBVIOUS
<1>2. Max(1 .. i) = i
  BY <1>1, MaxIs
<1> QED BY <1>1, <1>2

\* Division with a remainder.
LEMMA Quotient ==
  ASSUME NEW a \in Int, NEW d \in Nat \ {0}
  PROVE  a \div d \in Int /\ a % d \in 0 .. d - 1 /\ a = d * (a \div d) + (a % d)
OBVIOUS

\* It is the only one.
LEMMA QuotientIs ==
  ASSUME NEW d \in Nat \ {0}, NEW q \in Int, NEW r \in 0 .. d - 1
  PROVE  (d * q + r) \div d = q /\ (d * q + r) % d = r
OBVIOUS

\* Multiples of d.
LEMMA Times ==
  ASSUME NEW d \in Nat \ {0}, NEW a \in Int, NEW b \in Int
  PROVE  /\ d * a \in Int /\ d * b \in Int
         /\ d * (a + 1) = d * a + d /\ d * (a - 1) = d * a - d
         /\ a <= b <=> d * a <= d * b
OBVIOUS

\* What leaves no remainder is a product.
LEMMA MultipleOf ==
  ASSUME NEW a \in Nat, NEW d \in Nat \ {0}, a % d = 0
  PROVE  \E q \in Nat : a = d * q
OBVIOUS
=============================================================================
