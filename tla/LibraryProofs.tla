---------------------------- MODULE LibraryProofs ----------------------------
(***************************************************************************)
(* Proofs about Library: every variable keeps its type and no scan leaves  *)
(* its text; a string conversion takes what it accepts, %[ if nobody else  *)
(* wrote the table; and a sort that has qses to itself ends with its       *)
(* elements in order, loses and tears none, touches nothing around the     *)
(* array, and never has more calls open than the array can be halved.      *)
(***************************************************************************)
EXTENDS Library, QueueLemmas, FunctionTheorems
-----------------------------------------------------------------------------
(* Types.                                                                    *)

\* What a conversion stores: nothing, a number or a string.
Value1 == Seq(Int \cup Seq(Int))

ScanLocals ==
  [todo : Seq(ScanItem), pos : Nat \ {0}, nmatch : Nat, got : Seq(Value1), ret : Int,
   len : Int, from : Nat \ {0}, buf : Seq(Int), clear : SUBSET Alphabet, class : Seq(Alphabet)]

\* A scan is within its text, counts no more than it has stored, and at a class
\* or a string its item is one.
ScanTyped(p) ==
  LET s == scan[p]
  IN  /\ s.pos <= Len(text[p]) + 1
      /\ s.nmatch <= Len(s.got)
      /\ EOF <= s.ret /\ s.ret <= Len(s.got)
      /\ HasClass(s.todo) => text[p] \in Seq(Alphabet)
      /\ pc[p] = "text" => s = IdleScan
      /\ pc[p] \in {"text", "scan", "class", "take"} => job[p].kind = "text"
      /\ pc[p] \in {"class", "take"} => s.todo # <<>> /\ Item(p).type \in {"c", "s", "["}
      /\ pc[p] = "class" => Item(p).type = "["
      /\ pc[p] \in {"sort", "enter", "start", "left", "right"} => job[p].kind = "sort"

\* The inductive invariant.
Types ==
  /\ job \in Jobs
  /\ pc \in [Programs -> Calls]
  /\ text \in [Programs -> Seq(Int)]
  /\ scan \in [Programs -> ScanLocals]
  /\ sort = [p \in Programs |-> sort[p]]
  /\ _sctab \subseteq Alphabet
  /\ alone \in [Programs -> BOOLEAN]
  /\ \A p \in Programs : ScanTyped(p)

\* The characters of the class that %[ has passed.
Given(p) ==
  LET class == Item(p).class
  IN  {class[i] : i \in 1 .. Len(class) - Len(scan[p].class)}

\* _getccl() leaves what is to come of the class, and the table says of every
\* character it has passed whether it ends the string.
ClassRead(p) ==
  LET class == Item(p).class
      rest  == scan[p].class
  IN  /\ Len(rest) <= Len(class)
      /\ \A i \in 1 .. Len(rest) : rest[i] = class[Len(class) - Len(rest) + i]
      /\ scan[p].clear # {} => Len(rest) = Len(class)
      /\ \A c \in Alphabet \ scan[p].clear :
           (c \in _sctab) <=> ((c \in Given(p)) = Item(p).neg)

\* _instr() has taken what it accepts, from where the conversion began.
Taking(p) ==
  LET s == scan[p]
  IN  /\ s.from <= s.pos
      /\ s.buf = SubSeq(text[p], s.from, s.pos - 1)
      /\ s.len = Limit(Item(p)) - (s.pos - s.from) /\ s.len >= 1
      /\ \A i \in s.from .. s.pos - 1 :
           (Item(p).type = "[" => alone[p]) => Accepts(Item(p), text[p][i])

\* The invariant of a string: at a class nobody else has written the table, or it is
\* not said what is in it.
ScanKept(p) ==
  /\ pc[p] = "class" => scan[p].from = scan[p].pos /\ Taking(p)
  /\ pc[p] = "class" /\ alone[p] => ClassRead(p)
  /\ pc[p] = "take" => Taking(p)
  /\ pc[p] = "take" /\ Item(p).type = "[" /\ alone[p] =>
       \A c \in Alphabet : (c \in _sctab) <=> ~Accepts(Item(p), c)

\* It is inductive.
Scans == \A p \in Programs : ScanKept(p)
-----------------------------------------------------------------------------
(* What the definitions of Format return.                                   *)

\* The least of some numbers.
LEMMA MinOf ==
  ASSUME NEW n \in Nat, NEW T \in SUBSET (0 .. n), T # {}
  PROVE  Min(T) \in T /\ \A j \in T : Min(T) <= j
<1>1. \E k \in T : \A j \in T : k <= j
  BY LeastOf
<1> QED BY <1>1 DEF Min

\* The least is the member that no member is below.
LEMMA MinIs ==
  ASSUME NEW n \in Nat, NEW T \in SUBSET (0 .. n), NEW m \in T, \A j \in T : m <= j
  PROVE  Min(T) = m
<1>1. Min(T) \in T /\ Min(T) <= m
  BY MinOf
<1>2. m <= Min(T) /\ Min(T) \in 0 .. n /\ m \in 0 .. n
  BY <1>1
<1> QED BY <1>1, <1>2

\* The greater of two.
LEMMA MaxOfTwo ==
  ASSUME NEW a \in Int
  PROVE  Max({a, 0}) \in Nat /\ (0 <= a => Max({a, 0}) = a)
<1>1. \E x \in {a, 0} : \A y \in {a, 0} : x >= y
  <2>1. CASE a >= 0
    BY <2>1
  <2>2. CASE ~ (a >= 0)
    BY <2>2
  <2> QED BY <2>1, <2>2
<1>2. Max({a, 0}) \in {a, 0} /\ \A y \in {a, 0} : Max({a, 0}) >= y
  BY <1>1 DEF Max
<1> QED BY <1>2

\* White space ends within the text or behind it, and is nothing else.
LEMMA PastAllType ==
  ASSUME NEW str \in Seq(Int), NEW pos \in 1 .. Len(str) + 1, NEW set
  PROVE  /\ PastAll(str, pos, set) \in Int
         /\ pos <= PastAll(str, pos, set) /\ PastAll(str, pos, set) <= Len(str) + 1
<1> DEFINE T == {Len(str) + 1} \cup {i \in pos .. Len(str) : str[i] \notin set}
<1>1. /\ Len(str) + 1 \in Nat /\ T \in SUBSET (0 .. Len(str) + 1) /\ T # {}
      /\ \A i \in T : i \in Int /\ pos <= i /\ i <= Len(str) + 1
  OBVIOUS
<1>2. Min(T) \in T
  <2> HIDE DEF T
  <2> QED BY <1>1, MinOf
<1> QED BY <1>1, <1>2 DEF PastAll

\* And so do digits.
LEMMA DigitsEndType ==
  ASSUME NEW str \in Seq(Int), NEW pos \in 1 .. Len(str) + 1, NEW len \in Int, NEW base
  PROVE  /\ DigitsEnd(str, pos, len, base) \in Int
         /\ pos <= DigitsEnd(str, pos, len, base) /\ DigitsEnd(str, pos, len, base) <= Len(str) + 1
<1> DEFINE m == Max({len, 0})
           T == {Len(str) + 1, pos + m} \cup {i \in pos .. Len(str) : ~IsDigit(str[i], base)}
<1>1. m \in Nat
  BY MaxOfTwo
<1>2. /\ Len(str) + 1 + m \in Nat /\ T \in SUBSET (0 .. Len(str) + 1 + m) /\ T # {}
      /\ \A i \in T : i \in Int /\ pos <= i
      /\ Len(str) + 1 \in T
  <2> HIDE DEF m
  <2> QED BY <1>1
<1>3. Min(T) \in T /\ Min(T) <= Len(str) + 1
  <2> HIDE DEF T, m
  <2> QED BY <1>2, MinOf
<1> QED BY <1>2, <1>3 DEF DigitsEnd

\* A word times a base, and a digit more.
LEMMA MulAddType ==
  ASSUME NEW v \in Int, NEW c \in Int, NEW base \in {8, 10, 16}
  PROVE  MulAdd(v, base, DigitValue(c)) \in Int
<1>1. DigitValue(c) \in Int
  BY DEF DigitValue, Zero
<1>2. /\ (v % 65536) * base + DigitValue(c) \in Int
      /\ (v \div 65536) * base \in Int
  <2>1. v % 65536 \in Int /\ v \div 65536 \in Int /\ base \in Int
    OBVIOUS
  <2> QED BY <1>1, <2>1
<1> DEFINE lo == (v % 65536) * base + DigitValue(c)
           up == (v \div 65536) * base
<1>3. lo \in Int /\ up \in Int
  BY <1>2
<1>4. MulAdd(v, base, DigitValue(c)) = Signed16(up + (lo \div 65536)) * 65536 + (lo % 65536)
  BY DEF MulAdd
<1> HIDE DEF lo, up
<1>5. up + (lo \div 65536) \in Int /\ lo % 65536 \in Int
  BY <1>3
<1> QED BY <1>4, <1>5 DEF Signed16

\* The digits make a word.
LEMMA NumberType ==
  ASSUME NEW s \in Seq(Int), NEW base \in {8, 10, 16}
  PROVE  Number(s, base) \in Int
<1> DEFINE n == Len(s)
           G == [v \in Int \X (1 .. n) |-> MulAdd(v[1], base, DigitValue(s[v[2]]))]
           Iter(f) == f = [S \in SUBSET (1 .. n) |->
                             IF S = {} THEN 0
                             ELSE MulAdd(f[S \ {Max(S)}], base, DigitValue(s[Max(S)]))]
<1>1. n \in Nat /\ DOMAIN s = 1 .. n /\ \A i \in 1 .. n : s[i] \in Int
  OBVIOUS
<1>2. G \in [Int \X (1 .. n) -> Int]
  BY <1>1, MulAddType
<1>3. PICK f \in [SUBSET (1 .. n) -> Int] : FoldsTo(f, n, 0, G)
  <2> DEFINE V == Int
             zero == 0
  <2>1. zero \in V /\ G \in [V \X (1 .. n) -> V] /\ n \in Nat
    BY <1>1, <1>2
  <2>2. \E f \in [SUBSET (1 .. n) -> V] : FoldsTo(f, n, zero, G)
    <3> HIDE DEF G, Iter, V, zero, n
    <3> QED BY <2>1, FoldExists
  <2> QED BY <2>2
<1>4. ASSUME NEW S \in SUBSET (1 .. n), S # {}
      PROVE  G[<<f[S \ {Max(S)}], Max(S)>>] = MulAdd(f[S \ {Max(S)}], base, DigitValue(s[Max(S)]))
  <2>1. S \in SUBSET (0 .. n) /\ S \ {Max(S)} \in SUBSET (1 .. n)
    <3> HIDE DEF G, Iter
    <3>1. S \in SUBSET (0 .. n)
      BY <1>1
    <3>2. S \ {Max(S)} \in SUBSET (1 .. n)
      OBVIOUS
    <3> QED BY <3>1, <3>2
  <2>2. Max(S) \in 1 .. n
    BY <1>1, <1>4, <2>1, MaxOf
  <2>3. f[S \ {Max(S)}] \in Int
    BY <2>1
  <2> QED BY <2>2, <2>3
<1>5. Iter(f)
  <2> HIDE DEF G
  <2> QED BY <1>3, <1>4 DEF FoldsTo
<1>6. Number(s, base) = (CHOOSE f_1 : Iter(f_1))[1 .. n]
  BY <1>1 DEF Number, FoldLeft, MapThenFoldSet
<1>7. PICK g : Iter(g) /\ Number(s, base) = g[1 .. n]
  <2> HIDE DEF Iter
  <2> QED BY <1>5, <1>6
<1>8. g[1 .. 0] = 0
  <2>1. 1 .. 0 = {}
    OBVIOUS
  <2> QED BY <1>7, <2>1
<1>9. ASSUME NEW i \in 1 .. n PROVE g[1 .. i] = MulAdd(g[1 .. i - 1], base, DigitValue(s[i]))
  <2>1. /\ 1 .. i \in SUBSET (1 .. n) /\ 1 .. i # {}
        /\ Max(1 .. i) = i /\ (1 .. i) \ {Max(1 .. i)} = 1 .. i - 1
    BY <1>1, MaxUpTo
  <2>2. g[1 .. i] = MulAdd(g[(1 .. i) \ {Max(1 .. i)}], base, DigitValue(s[Max(1 .. i)]))
    BY <1>7, <2>1
  <2> QED BY <2>1, <2>2
<1> DEFINE U == {i \in 0 .. n : g[1 .. i] \in Int}
<1>10. 0 .. n \subseteq U
  <2>1. 0 \in U
    BY <1>1, <1>8
  <2>2. ASSUME NEW i \in 1 .. n, i - 1 \in U PROVE i \in U
    <3>1. MulAdd(g[1 .. i - 1], base, DigitValue(s[i])) \in Int
      BY <1>1, <2>2, MulAddType
    <3> QED BY <1>9, <3>1
  <2> HIDE DEF U
  <2> QED BY <1>1, <2>1, <2>2, Counting
<1>11. n \in 0 .. n
  BY <1>1
<1> QED BY <1>7, <1>10, <1>11

\* _innum() ends within the text or behind it, with a word.
LEMMA InnumType ==
  ASSUME NEW str \in Seq(Int), NEW pos \in 1 .. Len(str) + 1, NEW type, NEW len \in Int
  PROVE  LET r == _innum(str, pos, type, len)
         IN  /\ r.pos \in Int /\ pos <= r.pos /\ r.pos <= Len(str) + 1
             /\ r.v \in Int
<1> DEFINE start == PastAll(str, pos, Blanks)
           first == IF CharAt(str, start) \in {Minus, Plus} THEN start + 1 ELSE start
           next  == DigitsEnd(str, first, len - (first - start), Base(type))
           value == Number(SubSeq(str, first, next - 1), Base(type))
           minus == CharAt(str, start) = Minus
<1>1. start \in Int /\ pos <= start /\ start <= Len(str) + 1
  BY PastAllType
<1>2. first \in 1 .. Len(str) + 1 /\ pos <= first /\ len - (first - start) \in Int
  <2> HIDE DEF start
  <2> QED BY <1>1 DEF CharAt, Minus, Plus
<1>3. next \in Int /\ first <= next /\ next <= Len(str) + 1
  <2> HIDE DEF start, first
  <2> QED BY <1>2, DigitsEndType
<1>4. SubSeq(str, first, next - 1) \in Seq(Int)
  <2> HIDE DEF start, first, next
  <2> QED BY <1>2, <1>3
<1>5. value \in Int
  <2>1. Base(type) \in {8, 10, 16}
    BY DEF Base
  <2> HIDE DEF start, first, next
  <2> QED BY <1>4, <2>1, NumberType
<1>6. Neg(value) \in Int
  <2> HIDE DEF value
  <2> QED BY <1>5 DEF Neg, INT_MIN
<1>7. _innum(str, pos, type, len)
        = [v |-> IF minus THEN Neg(value) ELSE value, pos |-> next, some |-> minus \/ next > first]
  BY DEF _innum
<1> HIDE DEF start, first, next, value, minus
<1> QED BY <1>2, <1>3, <1>5, <1>6, <1>7

\* What an argument holds of it.
LEMMA StoredType ==
  ASSUME NEW v \in Int, NEW size
  PROVE  Stored(size, v) \in Int
<1>1. v % 65536 \in Int
  OBVIOUS
<1> QED BY <1>1 DEF Stored, Signed16
-----------------------------------------------------------------------------
(* A step.                                                                   *)

\* What a program calls.
LEMMA JobIs ==
  ASSUME job \in Jobs, NEW p \in Programs
  PROVE  /\ job[p].kind \in {"none", "text", "sort"}
         /\ job[p].kind = "text" =>
              /\ job[p].in \in Seq(ScanItem) /\ Printout(job[p]) \in Seq(Int)
              /\ HasClass(job[p].in) => Printout(job[p]) \in Seq(Alphabet)
         /\ job[p].kind = "sort" =>
              /\ job[p].data \in Seq(Int) /\ job[p].es \in Nat \ {0}
              /\ Len(job[p].data) % job[p].es = 0
BY LibraryAssumption

\* The locals of a scan.
LEMMA ScanFields ==
  ASSUME NEW s \in ScanLocals
  PROVE  /\ s.todo \in Seq(ScanItem) /\ s.pos \in Nat \ {0} /\ s.nmatch \in Nat
         /\ s.got \in Seq(Value1) /\ s.ret \in Int /\ s.len \in Int /\ s.from \in Nat \ {0}
         /\ s.buf \in Seq(Int) /\ s.clear \in SUBSET Alphabet /\ s.class \in Seq(Alphabet)
BY DEF ScanLocals

\* A conversion is typed as one.
LEMMA ItemIs ==
  ASSUME Types, NEW p \in Programs, scan[p].todo # <<>>
  PROVE  /\ Item(p) \in ScanItem
         /\ Item(p).type \in {"d", "o", "x", "c", "s", "["} => Item(p) \in Conversion
<1>1. scan[p].todo \in Seq(ScanItem)
  BY ScanFields DEF Types
<1>2. Item(p) \in ScanItem
  BY <1>1 DEF Item
<1> QED BY <1>2 DEF ScanItem

\* What a step of p may change: its own place and locals, never another's.
Own1(p) ==
  /\ job' = job
  /\ pc' = [pc EXCEPT ![p] = pc'[p]]
  /\ text' = [text EXCEPT ![p] = text'[p]]
  /\ scan' = [scan EXCEPT ![p] = scan'[p]]
  /\ sort' = [sort EXCEPT ![p] = sort'[p]]

\* For the others everything is as it was.
LEMMA OthersKept ==
  ASSUME Types, NEW p \in Programs, Own1(p), NEW q \in Programs, q # p
  PROVE  /\ pc'[q] = pc[q] /\ text'[q] = text[q] /\ scan'[q] = scan[q] /\ sort'[q] = sort[q]
         /\ job'[q] = job[q] /\ Item(q)' = Item(q)
<1>1. /\ DOMAIN pc = Programs /\ DOMAIN text = Programs /\ DOMAIN scan = Programs
      /\ DOMAIN sort = Programs
  BY DEF Types
<1>2. pc'[q] = pc[q] /\ text'[q] = text[q] /\ scan'[q] = scan[q] /\ sort'[q] = sort[q]
  BY <1>1 DEF Own1
<1> QED BY <1>2 DEF Own1, Item

\* What is to be shown of a step of p for Types.
OwnTyped(p) ==
  /\ Own1(p)
  /\ pc'[p] \in Calls /\ text'[p] \in Seq(Int) /\ scan'[p] \in ScanLocals
  /\ _sctab' \subseteq Alphabet
  /\ alone' \in [Programs -> BOOLEAN]
  /\ ScanTyped(p)'

\* It is enough.
LEMMA TypedStep ==
  ASSUME Types, NEW p \in Programs, OwnTyped(p)
  PROVE  Types'
<1>1. job' \in Jobs /\ _sctab' \subseteq Alphabet /\ alone' \in [Programs -> BOOLEAN]
  BY DEF Types, OwnTyped, Own1
<1>2. /\ pc' \in [Programs -> Calls] /\ text' \in [Programs -> Seq(Int)]
      /\ scan' \in [Programs -> ScanLocals]
  BY DEF Types, OwnTyped, Own1
<1>3. sort' = [q \in Programs |-> sort'[q]]
  <2>1. DOMAIN sort = Programs /\ sort' = [sort EXCEPT ![p] = sort'[p]]
    BY DEF Types, OwnTyped, Own1
  <2> QED BY <2>1
<1>4. ASSUME NEW q \in Programs PROVE ScanTyped(q)'
  <2>1. CASE q = p
    BY <2>1 DEF OwnTyped
  <2>2. CASE q # p
    <3>1. ScanTyped(q)
      BY DEF Types
    <3>2. Own1(p)
      BY DEF OwnTyped
    <3>3. /\ pc'[q] = pc[q] /\ text'[q] = text[q] /\ scan'[q] = scan[q] /\ Item(q)' = Item(q)
          /\ job'[q] = job[q]
      BY <2>2, <3>2, OthersKept
    <3> QED BY <3>1, <3>3 DEF ScanTyped
  <2> QED BY <2>1, <2>2
<1> QED BY <1>1, <1>2, <1>3, <1>4 DEF Types
-----------------------------------------------------------------------------
(* What the steps of a scan make of its locals.                             *)

\* A record of locals with some changed is one.
LEMMA ScanChanged ==
  ASSUME NEW s \in ScanLocals
  PROVE  /\ \A x \in Int : [s EXCEPT !.ret = x] \in ScanLocals
         /\ \A x \in Seq(ScanItem) : [s EXCEPT !.todo = x] \in ScanLocals
         /\ \A x \in Nat \ {0} : [s EXCEPT !.pos = x] \in ScanLocals
         /\ \A x \in SUBSET Alphabet : [s EXCEPT !.clear = x] \in ScanLocals
         /\ \A x \in Seq(Alphabet) : [s EXCEPT !.class = x] \in ScanLocals
BY DEF ScanLocals

\* What is left of a format has the classes of the format at most.
LEMMA RestOf ==
  ASSUME NEW items \in Seq(ScanItem), items # <<>>
  PROVE  Tail(items) \in Seq(ScanItem) /\ (HasClass(Tail(items)) => HasClass(items))
<1>1. /\ Tail(items) \in Seq(ScanItem) /\ Len(items) \in Nat
      /\ Len(Tail(items)) = Len(items) - 1
      /\ \A i \in 1 .. Len(items) - 1 : Tail(items)[i] = items[i + 1] /\ i + 1 \in 1 .. Len(items)
  OBVIOUS
<1> QED BY <1>1 DEF HasClass

\* A text and the locals of its scan: the part of ScanTyped that does not depend on
\* where the program is.
Within1(p, s) ==
  /\ s.pos <= Len(text[p]) + 1
  /\ s.nmatch <= Len(s.got)
  /\ EOF <= s.ret /\ s.ret <= Len(s.got)
  /\ HasClass(s.todo) => text[p] \in Seq(Alphabet)

\* doscan.c returns.
LEMMA Returned ==
  ASSUME Types, NEW p \in Programs, NEW s \in ScanLocals, Within1(p, s),
         NEW ret \in Int, EOF <= ret, ret <= Len(s.got), Return(p, s, ret)
  PROVE  /\ scan' = [scan EXCEPT ![p] = scan'[p]] /\ pc' = [pc EXCEPT ![p] = pc'[p]]
         /\ pc'[p] = "done" /\ scan'[p] = [s EXCEPT !.ret = ret]
         /\ scan'[p] \in ScanLocals /\ Within1(p, scan'[p])
<1>1. DOMAIN scan = Programs /\ DOMAIN pc = Programs
  BY DEF Types
<1>2. /\ scan' = [scan EXCEPT ![p] = [s EXCEPT !.ret = ret]]
      /\ pc' = [pc EXCEPT ![p] = "done"]
  BY DEF Return, Goto
<1>3. scan'[p] = [s EXCEPT !.ret = ret] /\ pc'[p] = "done"
  BY <1>1, <1>2
<1>4. scan'[p] \in ScanLocals
  BY <1>3, ScanChanged
<1>5. /\ scan'[p].ret = ret /\ scan'[p].pos = s.pos /\ scan'[p].nmatch = s.nmatch
      /\ scan'[p].got = s.got /\ scan'[p].todo = s.todo
  BY <1>3 DEF ScanLocals
<1>6. Within1(p, scan'[p])
  BY <1>5 DEF Within1
<1> QED BY <1>2, <1>3, <1>4, <1>6

\* doscan.c goes on with the next item.
LEMMA Continued ==
  ASSUME Types, NEW p \in Programs, NEW s \in ScanLocals, Within1(p, s), s.todo # <<>>, Continue(p, s)
  PROVE  /\ scan' = [scan EXCEPT ![p] = scan'[p]] /\ pc' = [pc EXCEPT ![p] = pc'[p]]
         /\ pc'[p] = "scan" /\ scan'[p] = [s EXCEPT !.todo = Tail(@)]
         /\ scan'[p] \in ScanLocals /\ Within1(p, scan'[p])
<1>1. DOMAIN scan = Programs /\ DOMAIN pc = Programs
  BY DEF Types
<1>2. /\ scan' = [scan EXCEPT ![p] = [s EXCEPT !.todo = Tail(s.todo)]]
      /\ pc' = [pc EXCEPT ![p] = "scan"]
  BY DEF Continue, Goto
<1>3. scan'[p] = [s EXCEPT !.todo = Tail(s.todo)] /\ pc'[p] = "scan"
  BY <1>1, <1>2
<1>4. s.todo \in Seq(ScanItem) /\ Tail(s.todo) \in Seq(ScanItem)
      /\ (HasClass(Tail(s.todo)) => HasClass(s.todo))
  BY ScanFields, RestOf
<1>5. scan'[p] \in ScanLocals
  BY <1>3, <1>4, ScanChanged
<1>6. /\ scan'[p].ret = s.ret /\ scan'[p].pos = s.pos /\ scan'[p].nmatch = s.nmatch
      /\ scan'[p].got = s.got /\ scan'[p].todo = Tail(s.todo)
  BY <1>3 DEF ScanLocals
<1>7. Within1(p, scan'[p])
  BY <1>4, <1>6 DEF Within1
<1> QED BY <1>2, <1>3, <1>5, <1>7

\* A conversion ends: what it has goes to the next argument, but for a star.
LEMMA ConvertedIs ==
  ASSUME Types, NEW p \in Programs, NEW s \in ScanLocals, Within1(p, s), s.todo # <<>>,
         NEW value \in Value1, NEW ended \in BOOLEAN, Item(p).star \in BOOLEAN,
         Converted(p, s, value, ended)
  PROVE  /\ scan' = [scan EXCEPT ![p] = scan'[p]] /\ pc' = [pc EXCEPT ![p] = pc'[p]]
         /\ pc'[p] \in {"scan", "done"} /\ scan'[p] \in ScanLocals /\ Within1(p, scan'[p])
         /\ scan'[p].pos = s.pos
         /\ ~Item(p).star => scan'[p].got = Append(s.got, value)
<1> DEFINE star == Item(p).star
           got == IF star THEN s.got ELSE Append(s.got, value)
           n == IF star \/ value = <<>> THEN s.nmatch ELSE s.nmatch + 1
           t == [s EXCEPT !.got = got, !.nmatch = n]
           ret == IF t.nmatch # 0 THEN t.nmatch ELSE EOF
<1>1. /\ s.todo \in Seq(ScanItem) /\ s.pos \in Nat \ {0} /\ s.nmatch \in Nat
      /\ s.got \in Seq(Value1) /\ s.ret \in Int
  BY ScanFields
<1>2. /\ Append(s.got, value) \in Seq(Value1) /\ Len(Append(s.got, value)) = Len(s.got) + 1
      /\ Len(s.got) \in Nat
  BY <1>1
<1>3. got \in Seq(Value1) /\ Len(s.got) <= Len(got) /\ Len(got) \in Nat
      /\ n \in Nat /\ n <= Len(got)
  BY <1>1, <1>2 DEF Within1
<1>4. /\ t.got = got /\ t.nmatch = n /\ t.pos = s.pos /\ t.ret = s.ret /\ t.todo = s.todo
  <2> HIDE DEF got, n
  <2> QED BY DEF ScanLocals
<1>5. t \in ScanLocals
  <2> HIDE DEF got, n
  <2> QED BY <1>3 DEF ScanLocals
<1>6. Within1(p, t)
  <2> HIDE DEF got, n, t
  <2> QED BY <1>1, <1>2, <1>3, <1>4 DEF Within1, EOF
<1>7. ret \in Int /\ EOF <= ret /\ ret <= Len(t.got)
  <2> HIDE DEF got, n, t
  <2> QED BY <1>3, <1>4 DEF EOF
<1>8. IF ended THEN Return(p, t, ret) ELSE Continue(p, t)
  BY DEF Converted
<1>9. ~star => t.got = Append(s.got, value)
  <2> HIDE DEF n, t
  <2> QED BY <1>4
<1> HIDE DEF t, ret, got, n
<1>10. CASE ended
  <2>1. Return(p, t, ret)
    BY <1>8, <1>10
  <2>2. /\ scan' = [scan EXCEPT ![p] = scan'[p]] /\ pc' = [pc EXCEPT ![p] = pc'[p]]
        /\ pc'[p] = "done" /\ scan'[p] = [t EXCEPT !.ret = ret]
        /\ scan'[p] \in ScanLocals /\ Within1(p, scan'[p])
    BY <1>5, <1>6, <1>7, <2>1, Returned
  <2>3. scan'[p].pos = t.pos /\ scan'[p].got = t.got
    BY <1>5, <2>2 DEF ScanLocals
  <2> QED BY <1>4, <1>9, <2>2, <2>3
<1>11. CASE ~ended
  <2>1. Continue(p, t) /\ t.todo # <<>>
    BY <1>4, <1>8, <1>11
  <2>2. /\ scan' = [scan EXCEPT ![p] = scan'[p]] /\ pc' = [pc EXCEPT ![p] = pc'[p]]
        /\ pc'[p] = "scan" /\ scan'[p] = [t EXCEPT !.todo = Tail(t.todo)]
        /\ scan'[p] \in ScanLocals /\ Within1(p, scan'[p])
    BY <1>5, <1>6, <2>1, Continued
  <2>3. scan'[p].pos = t.pos /\ scan'[p].got = t.got
    BY <1>5, <2>2 DEF ScanLocals
  <2> QED BY <1>4, <1>9, <2>2, <2>3
<1> QED BY <1>10, <1>11
-----------------------------------------------------------------------------
(* Types: one lemma for each step.                                          *)

\* A step of a scan: the text stays.
LEMMA ScanStep ==
  ASSUME Types, NEW p \in Programs, job' = job, text' = text, sort' = sort,
         scan' = [scan EXCEPT ![p] = scan'[p]], pc' = [pc EXCEPT ![p] = pc'[p]],
         job[p].kind = "text", pc'[p] \in {"scan", "class", "take", "done"},
         scan'[p] \in ScanLocals, Within1(p, scan'[p]),
         pc'[p] \in {"class", "take"} =>
           scan'[p].todo # <<>> /\ Head(scan'[p].todo).type \in {"c", "s", "["},
         pc'[p] = "class" => Head(scan'[p].todo).type = "[",
         _sctab' \subseteq Alphabet, alone' \in [Programs -> BOOLEAN]
  PROVE  OwnTyped(p)
<1>1. Own1(p)
  <2>1. text' = [text EXCEPT ![p] = text'[p]] /\ sort' = [sort EXCEPT ![p] = sort'[p]]
    <3>1. text = [q \in Programs |-> text[q]] /\ sort = [q \in Programs |-> sort[q]]
      BY DEF Types
    <3> QED BY <3>1
  <2> QED BY <2>1 DEF Own1
<1>2. pc'[p] \in Calls /\ text'[p] \in Seq(Int)
  BY DEF Types, Calls
<1>3. ScanTyped(p)'
  BY DEF ScanTyped, Within1, Item
<1> QED BY <1>1, <1>2, <1>3 DEF OwnTyped

\* What holds of a program that scans.
LEMMA Scanning ==
  ASSUME Types, NEW p \in Programs, pc[p] \in {"scan", "class", "take"}
  PROVE  /\ scan[p] \in ScanLocals /\ Within1(p, scan[p]) /\ job[p].kind = "text"
         /\ text[p] \in Seq(Int) /\ scan[p].pos \in 1 .. Len(text[p]) + 1
         /\ scan[p].todo \in Seq(ScanItem) /\ scan[p].nmatch \in Nat /\ scan[p].got \in Seq(Value1)
         /\ EOF \in Int /\ EOF <= scan[p].nmatch /\ EOF <= Len(scan[p].got)
<1>1. /\ scan[p] \in ScanLocals /\ text[p] \in Seq(Int) /\ ScanTyped(p)
  BY DEF Types
<1>2. /\ scan[p].todo \in Seq(ScanItem) /\ scan[p].pos \in Nat \ {0} /\ scan[p].nmatch \in Nat
      /\ scan[p].got \in Seq(Value1)
  BY <1>1, ScanFields
<1> QED BY <1>1, <1>2 DEF ScanTyped, Within1, EOF

\* sprintf() makes the text that is scanned.
LEMMA SprintfTyped ==
  ASSUME Types, NEW p \in Programs, sprintf(p)
  PROVE  OwnTyped(p)
<1>1. /\ DOMAIN pc = Programs /\ DOMAIN text = Programs /\ DOMAIN scan = Programs
      /\ scan = [q \in Programs |-> scan[q]] /\ sort = [q \in Programs |-> sort[q]]
      /\ job \in Jobs /\ ScanTyped(p) /\ IdleScan \in ScanLocals /\ scan[p] = IdleScan
      /\ job[p].kind = "text" /\ alone \in [Programs -> BOOLEAN] /\ _sctab \subseteq Alphabet
  <2>1. ScanTyped(p) /\ pc[p] = "text" /\ scan[p] \in ScanLocals
    BY DEF Types, sprintf
  <2>2. scan[p] = IdleScan /\ job[p].kind = "text"
    BY <2>1 DEF ScanTyped
  <2> QED BY <2>1, <2>2 DEF Types
<1>2. /\ text' = [text EXCEPT ![p] = Printout(job[p])]
      /\ scan' = [scan EXCEPT ![p] = [scan[p] EXCEPT !.todo = job[p].in]]
      /\ pc' = [pc EXCEPT ![p] = pc'[p]] /\ pc'[p] \in {"scan", "wild"}
      /\ job' = job /\ sort' = sort /\ _sctab' = _sctab /\ alone' = alone
  <2>1. \E label \in {"scan", "wild"} : pc' = [pc EXCEPT ![p] = label]
    BY DEF sprintf, Goto
  <2> QED BY <1>1, <2>1 DEF sprintf, Printout
<1>3. scan'[p] = [IdleScan EXCEPT !.todo = job[p].in] /\ text'[p] = Printout(job[p])
  BY <1>1, <1>2
<1>4. /\ job[p].in \in Seq(ScanItem) /\ Printout(job[p]) \in Seq(Int)
      /\ HasClass(job[p].in) => Printout(job[p]) \in Seq(Alphabet)
  BY <1>1, JobIs
<1>5. scan'[p] \in ScanLocals
  BY <1>1, <1>3, <1>4, ScanChanged
<1>6. Own1(p)
  BY <1>1, <1>2, <1>3 DEF Own1
<1>7. ScanTyped(p)'
  <2>1. /\ scan'[p].pos = 1 /\ scan'[p].nmatch = 0 /\ scan'[p].got = <<>> /\ scan'[p].ret = 0
        /\ scan'[p].todo = job[p].in
    BY <1>3 DEF IdleScan
  <2>2. text'[p] \in Seq(Int) /\ (HasClass(scan'[p].todo) => text'[p] \in Seq(Alphabet))
    BY <1>3, <1>4, <2>1
  <2>3. job'[p].kind = "text"
    BY <1>1, <1>2
  <2> HIDE DEF HasClass
  <2> QED BY <1>2, <2>1, <2>2, <2>3 DEF ScanTyped, EOF
<1> QED BY <1>1, <1>2, <1>3, <1>4, <1>5, <1>6, <1>7 DEF OwnTyped, Calls

\* The end of the format.
LEMMA EndOfFormatTyped ==
  ASSUME Types, NEW p \in Programs, EndOfFormat(p)
  PROVE  OwnTyped(p)
<1>1. /\ pc[p] = "scan" /\ Return(p, scan[p], scan[p].nmatch)
      /\ job' = job /\ text' = text /\ sort' = sort /\ _sctab' = _sctab /\ alone' = alone
  BY DEF EndOfFormat, InScan
<1>2. /\ scan[p] \in ScanLocals /\ Within1(p, scan[p]) /\ job[p].kind = "text"
      /\ scan[p].nmatch \in Int /\ EOF <= scan[p].nmatch /\ scan[p].nmatch <= Len(scan[p].got)
  BY <1>1, Scanning DEF Within1
<1>3. /\ scan' = [scan EXCEPT ![p] = scan'[p]] /\ pc' = [pc EXCEPT ![p] = pc'[p]]
      /\ pc'[p] = "done" /\ scan'[p] \in ScanLocals /\ Within1(p, scan'[p])
  BY <1>1, <1>2, Returned
<1>4. _sctab' \subseteq Alphabet /\ alone' \in [Programs -> BOOLEAN]
  BY <1>1 DEF Types
<1> QED BY <1>1, <1>2, <1>3, <1>4, ScanStep

\* A white space of the format skips what there is.
LEMMA WhiteSpaceTyped ==
  ASSUME Types, NEW p \in Programs, WhiteSpace(p)
  PROVE  OwnTyped(p)
<1> DEFINE pos == PastAll(text[p], scan[p].pos, Blanks)
           s == [scan[p] EXCEPT !.pos = pos]
<1>1. /\ pc[p] = "scan" /\ Continue(p, s) /\ scan[p].todo # <<>>
      /\ job' = job /\ text' = text /\ sort' = sort /\ _sctab' = _sctab /\ alone' = alone
  BY DEF WhiteSpace, InScan
<1>2. /\ scan[p] \in ScanLocals /\ Within1(p, scan[p]) /\ job[p].kind = "text"
      /\ text[p] \in Seq(Int) /\ scan[p].pos \in 1 .. Len(text[p]) + 1
  BY <1>1, Scanning
<1>3. pos \in Nat \ {0} /\ pos <= Len(text[p]) + 1
  <2>1. pos \in Int /\ scan[p].pos <= pos /\ pos <= Len(text[p]) + 1
    BY <1>2, PastAllType
  <2> HIDE DEF pos
  <2> QED BY <1>2, <2>1
<1>4. s \in ScanLocals /\ s.todo # <<>> /\ Within1(p, s)
  <2> HIDE DEF pos
  <2>1. s \in ScanLocals
    BY <1>2, <1>3, ScanChanged
  <2>2. /\ s.todo = scan[p].todo /\ s.nmatch = scan[p].nmatch /\ s.got = scan[p].got
        /\ s.ret = scan[p].ret /\ s.pos = pos
    BY <1>2 DEF ScanLocals
  <2> HIDE DEF s
  <2> QED BY <1>1, <1>2, <1>3, <2>1, <2>2 DEF Within1
<1> HIDE DEF s
<1>5. /\ scan' = [scan EXCEPT ![p] = scan'[p]] /\ pc' = [pc EXCEPT ![p] = pc'[p]]
      /\ pc'[p] = "scan" /\ scan'[p] \in ScanLocals /\ Within1(p, scan'[p])
  BY <1>1, <1>4, Continued
<1>6. _sctab' \subseteq Alphabet /\ alone' \in [Programs -> BOOLEAN]
  BY <1>1 DEF Types
<1> QED BY <1>1, <1>2, <1>5, <1>6, ScanStep

\* A character of the format matches itself.
LEMMA CharacterTyped ==
  ASSUME Types, NEW p \in Programs, Character(p)
  PROVE  OwnTyped(p)
<1> DEFINE s == [scan[p] EXCEPT !.pos = scan[p].pos + 1]
<1>1. /\ pc[p] = "scan" /\ scan[p].todo # <<>>
      /\ job' = job /\ text' = text /\ sort' = sort /\ _sctab' = _sctab /\ alone' = alone
  BY DEF Character, InScan
<1>2. /\ scan[p] \in ScanLocals /\ Within1(p, scan[p]) /\ job[p].kind = "text"
      /\ text[p] \in Seq(Int) /\ scan[p].pos \in 1 .. Len(text[p]) + 1
      /\ scan[p].nmatch \in Nat /\ scan[p].got \in Seq(Value1)
      /\ EOF \in Int /\ EOF <= scan[p].nmatch /\ EOF <= Len(scan[p].got)
  BY <1>1, Scanning
<1>3. \/ Return(p, scan[p], EOF)
      \/ Return(p, scan[p], scan[p].nmatch)
      \/ scan[p].pos <= Len(text[p]) /\ Continue(p, s)
  BY <1>2 DEF Character, AtEnd
<1>4. /\ scan' = [scan EXCEPT ![p] = scan'[p]] /\ pc' = [pc EXCEPT ![p] = pc'[p]]
      /\ pc'[p] \in {"scan", "done"} /\ scan'[p] \in ScanLocals /\ Within1(p, scan'[p])
  <2>1. CASE Return(p, scan[p], EOF)
    <3>1. EOF <= EOF
      BY <1>2
    <3> QED BY <1>2, <2>1, <3>1, Returned
  <2>2. CASE Return(p, scan[p], scan[p].nmatch)
    <3>1. scan[p].nmatch \in Int /\ scan[p].nmatch <= Len(scan[p].got)
      BY <1>2 DEF Within1
    <3> QED BY <1>2, <2>2, <3>1, Returned
  <2>3. CASE scan[p].pos <= Len(text[p]) /\ Continue(p, s)
    <3>1. scan[p].pos + 1 \in Nat \ {0} /\ scan[p].pos + 1 <= Len(text[p]) + 1
      BY <1>2, <2>3
    <3>2. s \in ScanLocals
      BY <1>2, <3>1, ScanChanged
    <3>3. /\ s.todo = scan[p].todo /\ s.nmatch = scan[p].nmatch /\ s.got = scan[p].got
          /\ s.ret = scan[p].ret /\ s.pos = scan[p].pos + 1
      BY <1>2 DEF ScanLocals
    <3> HIDE DEF s
    <3>4. Within1(p, s) /\ s.todo # <<>>
      BY <1>1, <1>2, <3>1, <3>3 DEF Within1
    <3> QED BY <2>3, <3>2, <3>4, Continued
  <2> QED BY <1>3, <2>1, <2>2, <2>3
<1>5. _sctab' \subseteq Alphabet /\ alone' \in [Programs -> BOOLEAN]
  BY <1>1 DEF Types
<1> HIDE DEF s
<1> QED BY <1>1, <1>2, <1>4, <1>5, ScanStep

\* A number.
LEMMA ReadNumberTyped ==
  ASSUME Types, NEW p \in Programs, ReadNumber(p)
  PROVE  OwnTyped(p)
<1> DEFINE item == Item(p)
           r == _innum(text[p], scan[p].pos, item.type, item.len)
           value == IF r.some THEN <<Stored(item.size, r.v)>> ELSE <<>>
           s == [scan[p] EXCEPT !.pos = r.pos]
           ended == AtEnd(p, r.pos)
<1>1. /\ pc[p] = "scan" /\ scan[p].todo # <<>> /\ item.type \in {"d", "o", "x"}
      /\ Converted(p, s, value, ended)
      /\ job' = job /\ text' = text /\ sort' = sort /\ _sctab' = _sctab /\ alone' = alone
  BY DEF ReadNumber, InScan
<1>2. /\ scan[p] \in ScanLocals /\ Within1(p, scan[p]) /\ job[p].kind = "text"
      /\ text[p] \in Seq(Int) /\ scan[p].pos \in 1 .. Len(text[p]) + 1
  BY <1>1, Scanning
<1>3. item \in Conversion
  <2> HIDE DEF s, value, ended
  <2> QED BY <1>1, ItemIs
<1>4. item.len \in Int /\ item.star \in BOOLEAN
  BY <1>3 DEF Conversion
<1>5. r.pos \in Int /\ scan[p].pos <= r.pos /\ r.pos <= Len(text[p]) + 1 /\ r.v \in Int
  <2> HIDE DEF item
  <2> QED BY <1>2, <1>4, InnumType
<1>6. value \in Value1 /\ ended \in BOOLEAN
  <2>1. Stored(item.size, r.v) \in Int
    <3> HIDE DEF r
    <3> QED BY <1>5, StoredType
  <2> HIDE DEF r, item
  <2> QED BY <2>1 DEF Value1, AtEnd
<1>7. r.pos \in Nat \ {0}
  <2> HIDE DEF r
  <2> QED BY <1>2, <1>5
<1>8. s \in ScanLocals /\ Within1(p, s) /\ s.todo # <<>>
  <2> HIDE DEF r
  <2>1. s \in ScanLocals
    BY <1>2, <1>7, ScanChanged
  <2>2. /\ s.todo = scan[p].todo /\ s.nmatch = scan[p].nmatch /\ s.got = scan[p].got
        /\ s.ret = scan[p].ret /\ s.pos = r.pos
    BY <1>2 DEF ScanLocals
  <2> HIDE DEF s
  <2> QED BY <1>1, <1>2, <1>5, <2>1, <2>2 DEF Within1
<1>9. /\ scan' = [scan EXCEPT ![p] = scan'[p]] /\ pc' = [pc EXCEPT ![p] = pc'[p]]
      /\ pc'[p] \in {"scan", "done"} /\ scan'[p] \in ScanLocals /\ Within1(p, scan'[p])
  <2>1. Item(p).star \in BOOLEAN
    BY <1>4
  <2> HIDE DEF s, value, ended
  <2> QED BY <1>1, <1>6, <1>8, <2>1, ConvertedIs
<1>10. _sctab' \subseteq Alphabet /\ alone' \in [Programs -> BOOLEAN]
  BY <1>1 DEF Types
<1> HIDE DEF s, value, ended, r
<1> QED BY <1>1, <1>2, <1>9, <1>10, ScanStep

\* A string conversion is set up: leading blanks are skipped for %s, and %[ starts
\* on its class.
LEMMA ReadStringIs ==
  ASSUME Types, NEW p \in Programs, ReadString(p)
  PROVE  /\ pc[p] = "scan" /\ scan[p].todo # <<>> /\ Item(p) \in Conversion
         /\ Item(p).type \in {"c", "s", "["}
         /\ job' = job /\ text' = text /\ sort' = sort /\ _sctab' = _sctab /\ alone' = alone
         /\ qses' = qses
         /\ scan' = [scan EXCEPT ![p] = scan'[p]] /\ pc' = [pc EXCEPT ![p] = pc'[p]]
         /\ pc'[p] = IF Item(p).type = "[" THEN "class" ELSE "take"
         /\ scan'[p] \in ScanLocals /\ Within1(p, scan'[p])
         /\ scan'[p].todo = scan[p].todo /\ scan'[p].from = scan'[p].pos
         /\ scan'[p].len = Limit(Item(p)) /\ scan'[p].buf = <<>> /\ scan'[p].clear = Alphabet
         /\ scan'[p].class = Item(p).class
<1> DEFINE s == scan[p]
           item == Item(p)
           pos == IF item.type = "s" THEN PastAll(text[p], s.pos, Blanks) ELSE s.pos
           label == IF item.type = "[" THEN "class" ELSE "take"
           t == [s EXCEPT !.pos = pos, !.len = Limit(item), !.from = pos, !.buf = <<>>,
                          !.clear = Alphabet, !.class = item.class]
<1>1. /\ pc[p] = "scan" /\ s.todo # <<>> /\ item.type \in {"c", "s", "["}
      /\ job' = job /\ text' = text /\ sort' = sort /\ _sctab' = _sctab /\ alone' = alone
      /\ qses' = qses
  BY DEF ReadString, InScan
<1>2. /\ s \in ScanLocals /\ Within1(p, s)
      /\ text[p] \in Seq(Int) /\ s.pos \in 1 .. Len(text[p]) + 1
  BY <1>1, Scanning
<1>3. item \in Conversion
  <2> HIDE DEF t, pos
  <2> QED BY <1>1, ItemIs
<1>4. scan' = [scan EXCEPT ![p] = t] /\ pc' = [pc EXCEPT ![p] = label]
  BY DEF ReadString, Goto, Limit
<1>5. scan'[p] = t /\ pc'[p] = label
  <2>1. DOMAIN scan = Programs /\ DOMAIN pc = Programs
    BY DEF Types
  <2> HIDE DEF t, label
  <2> QED BY <1>4, <2>1
<1>6. pos \in Nat \ {0} /\ pos <= Len(text[p]) + 1
  <2>1. /\ PastAll(text[p], s.pos, Blanks) \in Int /\ s.pos <= PastAll(text[p], s.pos, Blanks)
        /\ PastAll(text[p], s.pos, Blanks) <= Len(text[p]) + 1
    BY <1>2, PastAllType
  <2> QED BY <1>2, <2>1
<1>7. Limit(item) \in Int /\ item.class \in Seq(Alphabet)
  <2> HIDE DEF item
  <2> QED BY <1>3 DEF Limit, Conversion
<1> DEFINE u == [s EXCEPT !.pos = pos, !.len = Limit(item), !.from = pos]
<1> DEFINE w == [u EXCEPT !.buf = <<>>]
<1>8. t = [w EXCEPT !.clear = Alphabet, !.class = item.class]
  <2> HIDE DEF pos, item
  <2> QED BY <1>2 DEF ScanLocals
<1>9. /\ u \in ScanLocals /\ u.pos = pos /\ u.from = pos /\ u.len = Limit(item)
      /\ u.todo = s.todo /\ u.nmatch = s.nmatch /\ u.got = s.got /\ u.ret = s.ret
  <2> HIDE DEF pos, item
  <2> QED BY <1>2, <1>6, <1>7 DEF ScanLocals
<1>12. /\ w \in ScanLocals /\ w.pos = pos /\ w.from = pos /\ w.len = Limit(item)
       /\ w.todo = s.todo /\ w.nmatch = s.nmatch /\ w.got = s.got /\ w.ret = s.ret
       /\ w.buf = <<>>
  <2>1. <<>> \in Seq(Int)
    OBVIOUS
  <2> HIDE DEF pos, item, u
  <2> QED BY <1>9, <2>1 DEF ScanLocals
<1> HIDE DEF u, w
<1>10. /\ t \in ScanLocals /\ t.pos = pos /\ t.from = pos /\ t.len = Limit(item)
       /\ t.todo = s.todo /\ t.nmatch = s.nmatch /\ t.got = s.got /\ t.ret = s.ret
       /\ t.buf = <<>> /\ t.clear = Alphabet /\ t.class = item.class
  <2> HIDE DEF pos, item, t
  <2> QED BY <1>7, <1>8, <1>12 DEF ScanLocals
<1>11. Within1(p, t)
  <2> HIDE DEF pos, item, t
  <2> QED BY <1>2, <1>6, <1>10 DEF Within1
<1> HIDE DEF t, pos
<1> QED BY <1>1, <1>3, <1>4, <1>5, <1>10, <1>11

\* It keeps the types.
LEMMA ReadStringTyped ==
  ASSUME Types, NEW p \in Programs, ReadString(p)
  PROVE  OwnTyped(p)
<1>1. /\ pc[p] = "scan" /\ scan[p].todo # <<>> /\ Item(p).type \in {"c", "s", "["}
      /\ job' = job /\ text' = text /\ sort' = sort /\ _sctab' = _sctab /\ alone' = alone
      /\ scan' = [scan EXCEPT ![p] = scan'[p]] /\ pc' = [pc EXCEPT ![p] = pc'[p]]
      /\ pc'[p] = IF Item(p).type = "[" THEN "class" ELSE "take"
      /\ scan'[p] \in ScanLocals /\ Within1(p, scan'[p]) /\ scan'[p].todo = scan[p].todo
  BY ReadStringIs
<1>2. job[p].kind = "text"
  BY <1>1, Scanning
<1>3. _sctab' \subseteq Alphabet /\ alone' \in [Programs -> BOOLEAN]
  BY <1>1 DEF Types
<1>4. /\ pc'[p] \in {"class", "take"} =>
           scan'[p].todo # <<>> /\ Head(scan'[p].todo).type \in {"c", "s", "["}
      /\ pc'[p] = "class" => Head(scan'[p].todo).type = "["
      /\ pc'[p] \in {"scan", "class", "take", "done"}
  BY <1>1 DEF Item
<1> QED BY <1>1, <1>2, <1>3, <1>4, ScanStep

\* The table is written: who is at a class besides is not alone any more.
LEMMA TableSet ==
  ASSUME Types, NEW p \in Programs, NEW c \in Alphabet, NEW on, SetSTP(p, c, on)
  PROVE  /\ _sctab' \subseteq Alphabet /\ alone' \in [Programs -> BOOLEAN]
         /\ job' = job /\ text' = text /\ sort' = sort /\ qses' = qses
         /\ alone'[p] = alone[p]
         /\ \A d \in Alphabet : d # c => ((d \in _sctab') <=> (d \in _sctab))
         /\ (c \in _sctab') <=> on
         /\ \A q \in Programs : q # p /\ alone'[q] =>
              alone[q] /\ ~(pc[q] \in {"class", "take"} /\ Item(q).type = "[")
<1>1. /\ _sctab' = IF on THEN _sctab \cup {c} ELSE _sctab \ {c}
      /\ alone' = [q \in Programs |->
                 alone[q] /\ ~(q # p /\ pc[q] \in {"class", "take"} /\ Item(q).type = "[")]
      /\ job' = job /\ text' = text /\ sort' = sort /\ qses' = qses
  BY DEF SetSTP
<1>2. alone \in [Programs -> BOOLEAN] /\ _sctab \subseteq Alphabet
  BY DEF Types
<1>3. \A q \in Programs :
        alone'[q] = (alone[q] /\ ~(q # p /\ pc[q] \in {"class", "take"} /\ Item(q).type = "["))
  BY <1>1, Zenon
<1>4. alone'[p] = alone[p]
  <2>1. alone[p] \in BOOLEAN
    BY <1>2
  <2> QED BY <1>3, <2>1
<1>5. alone' \in [Programs -> BOOLEAN]
  BY <1>1, <1>2
<1> QED BY <1>1, <1>2, <1>3, <1>4, <1>5

\* _getccl() at a character of the alphabet.
LEMMA GetcclAllIs ==
  ASSUME Types, NEW p \in Programs, _getcclAll(p)
  PROVE  \E c \in scan[p].clear :
           /\ c \in Alphabet /\ pc[p] = "class" /\ pc' = pc
           /\ SetSTP(p, c, ~Item(p).neg)
           /\ scan' = [scan EXCEPT ![p] = scan'[p]]
           /\ scan'[p] = [scan[p] EXCEPT !.clear = scan[p].clear \ {c}]
           /\ scan[p] \in ScanLocals
<1> DEFINE c == Min(scan[p].clear)
<1>1. /\ pc[p] = "class" /\ pc' = pc /\ scan[p].clear # {}
      /\ SetSTP(p, c, ~Item(p).neg)
      /\ scan' = [scan EXCEPT ![p].clear = scan[p].clear \ {c}]
  BY DEF _getcclAll
<1>2. scan[p] \in ScanLocals /\ DOMAIN scan = Programs
  BY DEF Types
<1>3. scan[p].clear \subseteq Alphabet
  BY <1>2, ScanFields
<1>4. c \in scan[p].clear
  <2>1. scan[p].clear \in SUBSET (0 .. 127) /\ 127 \in Nat
    <3>1. Alphabet \subseteq 1 .. 127
      BY LibraryAssumption
    <3>2. 1 .. 127 \subseteq 0 .. 127 /\ 127 \in Nat
      OBVIOUS
    <3> HIDE DEF c
    <3> QED BY <1>3, <3>1, <3>2, Zenon
  <2> QED BY <1>1, <2>1, MinOf
<1>5. scan'[p] = [scan[p] EXCEPT !.clear = scan[p].clear \ {c}]
  <2> HIDE DEF c
  <2> QED BY <1>1, <1>2
<1>6. scan' = [scan EXCEPT ![p] = scan'[p]]
  <2> HIDE DEF c
  <2> QED BY <1>1, <1>2, <1>5
<1> HIDE DEF c
<1> QED BY <1>1, <1>2, <1>3, <1>4, <1>5, <1>6

\* It keeps the types.
LEMMA GetcclAllTyped ==
  ASSUME Types, NEW p \in Programs, _getcclAll(p)
  PROVE  OwnTyped(p)
<1>1. PICK c \in scan[p].clear :
           /\ c \in Alphabet /\ pc[p] = "class" /\ pc' = pc
           /\ SetSTP(p, c, ~Item(p).neg)
           /\ scan' = [scan EXCEPT ![p] = scan'[p]]
           /\ scan'[p] = [scan[p] EXCEPT !.clear = scan[p].clear \ {c}]
           /\ scan[p] \in ScanLocals
  BY GetcclAllIs
<1> DEFINE on == ~Item(p).neg
<1>2. /\ _sctab' \subseteq Alphabet /\ alone' \in [Programs -> BOOLEAN]
      /\ job' = job /\ text' = text /\ sort' = sort
  <2>1. SetSTP(p, c, on)
    BY <1>1
  <2> HIDE DEF on
  <2> QED BY <1>1, <2>1, TableSet
<1>3. /\ scan'[p] \in ScanLocals /\ scan'[p].todo = scan[p].todo /\ scan'[p].pos = scan[p].pos
      /\ scan'[p].nmatch = scan[p].nmatch /\ scan'[p].got = scan[p].got /\ scan'[p].ret = scan[p].ret
  <2>1. scan[p].clear \ {c} \in SUBSET Alphabet
    BY <1>1, ScanFields
  <2> QED BY <1>1, <2>1 DEF ScanLocals
<1>4. Within1(p, scan'[p]) /\ job[p].kind = "text"
  <2>1. Within1(p, scan[p]) /\ job[p].kind = "text"
    BY <1>1, Scanning
  <2> QED BY <1>3, <2>1 DEF Within1
<1>5. pc' = [pc EXCEPT ![p] = pc'[p]] /\ pc'[p] = "class"
  <2>1. pc = [q \in Programs |-> pc[q]]
    BY DEF Types
  <2> QED BY <1>1, <2>1
<1>6. scan'[p].todo # <<>> /\ Head(scan'[p].todo).type = "["
  <2>1. scan[p].todo # <<>> /\ Item(p).type = "["
    BY <1>1 DEF Types, ScanTyped
  <2> QED BY <1>3, <2>1 DEF Item
<1> QED BY <1>1, <1>2, <1>3, <1>4, <1>5, <1>6, ScanStep

\* _getccl() at the end of the class, or at a character of it.
LEMMA GetcclClassIs ==
  ASSUME Types, NEW p \in Programs, _getcclClass(p)
  PROVE  /\ pc[p] = "class" /\ scan[p].clear = {} /\ scan[p] \in ScanLocals
         /\ \/ /\ scan[p].class = <<>>
               /\ pc' = [pc EXCEPT ![p] = "take"] /\ pc'[p] = "take"
               /\ UNCHANGED <<job, text, scan, sort, _sctab, qses, alone>>
            \/ /\ scan[p].class # <<>> /\ Head(scan[p].class) \in Alphabet
               /\ SetSTP(p, Head(scan[p].class), Item(p).neg)
               /\ pc' = pc
               /\ scan' = [scan EXCEPT ![p] = scan'[p]]
               /\ scan'[p] = [scan[p] EXCEPT !.class = Tail(scan[p].class)]
<1>1. scan[p] \in ScanLocals /\ DOMAIN scan = Programs /\ DOMAIN pc = Programs
  BY DEF Types
<1>2. pc[p] = "class" /\ scan[p].clear = {}
  BY DEF _getcclClass
<1>3. CASE scan[p].class = <<>>
  <2>1. /\ pc' = [pc EXCEPT ![p] = "take"]
        /\ UNCHANGED <<job, text, scan, sort, _sctab, qses, alone>>
    BY <1>3 DEF _getcclClass, Goto
  <2> QED BY <1>1, <1>2, <1>3, <2>1
<1>4. CASE scan[p].class # <<>>
  <2>1. /\ SetSTP(p, Head(scan[p].class), Item(p).neg)
        /\ scan' = [scan EXCEPT ![p].class = Tail(scan[p].class)] /\ pc' = pc
    BY <1>4 DEF _getcclClass
  <2>2. scan[p].class \in Seq(Alphabet)
    BY <1>1, ScanFields
  <2>3. scan'[p] = [scan[p] EXCEPT !.class = Tail(scan[p].class)]
    BY <1>1, <2>1
  <2>4. scan' = [scan EXCEPT ![p] = scan'[p]]
    BY <1>1, <2>1, <2>3
  <2>5. Head(scan[p].class) \in Alphabet
    BY <1>4, <2>2
  <2> QED BY <1>1, <1>2, <1>4, <2>1, <2>3, <2>4, <2>5
<1> QED BY <1>3, <1>4

\* It keeps the types.
LEMMA GetcclClassTyped ==
  ASSUME Types, NEW p \in Programs, _getcclClass(p)
  PROVE  OwnTyped(p)
<1>1. /\ pc[p] = "class" /\ scan[p].clear = {} /\ scan[p] \in ScanLocals
      /\ \/ /\ scan[p].class = <<>>
            /\ pc' = [pc EXCEPT ![p] = "take"] /\ pc'[p] = "take"
            /\ UNCHANGED <<job, text, scan, sort, _sctab, qses, alone>>
         \/ /\ scan[p].class # <<>> /\ Head(scan[p].class) \in Alphabet
            /\ SetSTP(p, Head(scan[p].class), Item(p).neg)
            /\ pc' = pc
            /\ scan' = [scan EXCEPT ![p] = scan'[p]]
            /\ scan'[p] = [scan[p] EXCEPT !.class = Tail(scan[p].class)]
  BY GetcclClassIs
<1>2. Within1(p, scan[p]) /\ job[p].kind = "text" /\ scan[p].todo # <<>> /\ Item(p).type = "["
  <2>1. Within1(p, scan[p]) /\ job[p].kind = "text"
    BY <1>1, Scanning
  <2>2. scan[p].todo # <<>> /\ Item(p).type = "["
    BY <1>1 DEF Types, ScanTyped
  <2> QED BY <2>1, <2>2
<1>3. /\ pc = [q \in Programs |-> pc[q]] /\ scan = [q \in Programs |-> scan[q]]
      /\ alone \in [Programs -> BOOLEAN] /\ _sctab \subseteq Alphabet
  BY DEF Types
<1>4. CASE pc'[p] = "take" /\ UNCHANGED <<job, text, scan, sort, _sctab, qses, alone>>
           /\ pc' = [pc EXCEPT ![p] = "take"]
  <2>1. scan' = [scan EXCEPT ![p] = scan'[p]] /\ scan'[p] = scan[p]
    BY <1>3, <1>4
  <2>2. scan'[p].todo # <<>> /\ Head(scan'[p].todo).type \in {"c", "s", "["}
    BY <1>2, <2>1 DEF Item
  <2> QED BY <1>1, <1>2, <1>3, <1>4, <2>1, <2>2, ScanStep
<1>5. CASE /\ scan[p].class # <<>> /\ Head(scan[p].class) \in Alphabet
           /\ SetSTP(p, Head(scan[p].class), Item(p).neg)
           /\ pc' = pc
           /\ scan' = [scan EXCEPT ![p] = scan'[p]]
           /\ scan'[p] = [scan[p] EXCEPT !.class = Tail(scan[p].class)]
  <2> DEFINE on == Item(p).neg
             c == Head(scan[p].class)
  <2>1. /\ _sctab' \subseteq Alphabet /\ alone' \in [Programs -> BOOLEAN]
        /\ job' = job /\ text' = text /\ sort' = sort
    <3>1. SetSTP(p, c, on) /\ c \in Alphabet
      BY <1>5
    <3> HIDE DEF on, c
    <3> QED BY <3>1, TableSet
  <2>2. Tail(scan[p].class) \in Seq(Alphabet)
    <3>1. scan[p].class \in Seq(Alphabet)
      BY <1>1, ScanFields
    <3> QED BY <1>5, <3>1
  <2>3. /\ scan'[p] \in ScanLocals /\ scan'[p].todo = scan[p].todo /\ scan'[p].pos = scan[p].pos
        /\ scan'[p].nmatch = scan[p].nmatch /\ scan'[p].got = scan[p].got /\ scan'[p].ret = scan[p].ret
    BY <1>1, <1>5, <2>2 DEF ScanLocals
  <2>4. Within1(p, scan'[p])
    BY <1>2, <2>3 DEF Within1
  <2>5. pc' = [pc EXCEPT ![p] = pc'[p]] /\ pc'[p] = "class"
    BY <1>1, <1>3, <1>5
  <2>6. scan'[p].todo # <<>> /\ Head(scan'[p].todo).type = "["
    BY <1>2, <2>3 DEF Item
  <2> QED BY <1>2, <1>5, <2>1, <2>3, <2>4, <2>5, <2>6, ScanStep
<1> QED BY <1>1, <1>4, <1>5

\* The character c ends a string: the one the table says, a blank, or none.
Stops(p, c) ==
  CASE Item(p).type = "[" -> c \in _sctab
    [] Item(p).type = "s" -> c \in Blanks
    [] OTHER -> FALSE

\* The characters of a string, as an argument.
Stored1(buf) == IF buf = <<>> THEN <<>> ELSE <<buf>>

\* The string of p ends, at pos, and is stored.
Ends(p, pos, value) ==
  /\ pc'[p] \in {"scan", "done"}
  /\ scan'[p].pos = pos
  /\ ~Item(p).star => scan'[p].got = Append(scan[p].got, value)

\* _instr() takes one character more.
Takes(p) ==
  /\ pc'[p] = "take"
  /\ scan'[p].pos = scan[p].pos + 1 /\ scan'[p].len = scan[p].len - 1
  /\ scan'[p].from = scan[p].from
  /\ scan'[p].buf = Append(scan[p].buf, text[p][scan[p].pos])

\* A string is a value, and so is nothing.
LEMMA StringIsValue ==
  /\ <<>> \in Value1
  /\ \A buf \in Seq(Int) : <<buf>> \in Value1
<1> DEFINE S == Int \cup Seq(Int)
<1>1. \A buf \in Seq(Int) : buf \in S
  OBVIOUS
<1>2. \A buf \in S : <<buf>> \in Seq(S)
  <2> HIDE DEF S
  <2> QED OBVIOUS
<1> QED BY <1>1, <1>2 DEF Value1

\* One character of _instr(): at the end of the text or at a character that stops
\* it the string is stored, and so it is when the field is full.
LEMMA InstrIs ==
  ASSUME Types, NEW p \in Programs, _instr(p)
  PROVE  LET s == scan[p]
             c == text[p][s.pos]
         IN  /\ job' = job /\ text' = text /\ sort' = sort /\ _sctab' = _sctab /\ alone' = alone
             /\ qses' = qses
             /\ scan' = [scan EXCEPT ![p] = scan'[p]] /\ pc' = [pc EXCEPT ![p] = pc'[p]]
             /\ scan'[p] \in ScanLocals /\ Within1(p, scan'[p])
             /\ pc[p] = "take"
             /\ \/ s.pos = Len(text[p]) + 1 /\ Ends(p, s.pos, Stored1(s.buf))
                \/ s.pos <= Len(text[p]) /\ Stops(p, c) /\ Ends(p, s.pos, Stored1(s.buf))
                \/ /\ s.pos <= Len(text[p]) /\ ~Stops(p, c) /\ s.len <= 1
                   /\ Ends(p, s.pos + 1, <<Append(s.buf, c)>>)
                \/ /\ s.pos <= Len(text[p]) /\ ~Stops(p, c) /\ ~(s.len <= 1)
                   /\ Takes(p) /\ scan'[p].todo = s.todo
<1> DEFINE s == scan[p]
           c == text[p][s.pos]
           stop == Stops(p, c)
           value == Stored1(s.buf)
           taken == [s EXCEPT !.buf = Append(s.buf, c), !.pos = s.pos + 1, !.len = s.len - 1]
<1>1. /\ job' = job /\ text' = text /\ sort' = sort /\ _sctab' = _sctab /\ alone' = alone
      /\ qses' = qses /\ pc[p] = "take"
      /\ IF AtEnd(p, s.pos) THEN Converted(p, s, value, TRUE)
         ELSE IF stop THEN Converted(p, s, value, FALSE)
         ELSE IF s.len <= 1 THEN Converted(p, taken, <<taken.buf>>, FALSE)
         ELSE scan' = [scan EXCEPT ![p] = taken] /\ UNCHANGED pc
  BY DEF _instr, Stops, Stored1
<1>2. /\ s \in ScanLocals /\ Within1(p, s) /\ text[p] \in Seq(Int)
      /\ s.pos \in 1 .. Len(text[p]) + 1
  BY <1>1, Scanning
<1>3. s.todo # <<>> /\ Item(p).star \in BOOLEAN
  <2>1. s.todo # <<>> /\ Item(p).type \in {"c", "s", "["}
    BY <1>1 DEF Types, ScanTyped
  <2>2. Item(p) \in Conversion
    <3> HIDE DEF stop, value, taken, c
    <3> QED BY <2>1, ItemIs
  <2> QED BY <2>1, <2>2 DEF Conversion
<1>4. s.buf \in Seq(Int) /\ s.len \in Int
  BY <1>2, ScanFields
<1>5. value \in Value1
  BY <1>4, StringIsValue DEF Stored1
<1>6. ASSUME NEW ended \in BOOLEAN, Converted(p, s, value, ended)
      PROVE  /\ scan' = [scan EXCEPT ![p] = scan'[p]] /\ pc' = [pc EXCEPT ![p] = pc'[p]]
             /\ scan'[p] \in ScanLocals /\ Within1(p, scan'[p]) /\ Ends(p, s.pos, value)
  <2> HIDE DEF value
  <2> QED BY <1>2, <1>3, <1>5, <1>6, ConvertedIs DEF Ends
<1>7. CASE AtEnd(p, s.pos)
  <2>1. Converted(p, s, value, TRUE)
    BY <1>1, <1>7
  <2>2. s.pos = Len(text[p]) + 1
    BY <1>2, <1>7 DEF AtEnd
  <2> HIDE DEF value, stop, taken
  <2>3. /\ scan' = [scan EXCEPT ![p] = scan'[p]] /\ pc' = [pc EXCEPT ![p] = pc'[p]]
        /\ scan'[p] \in ScanLocals /\ Within1(p, scan'[p]) /\ Ends(p, s.pos, value)
    BY <1>6, <2>1
  <2> QED BY <1>1, <2>2, <2>3 DEF value
<1>8. CASE ~AtEnd(p, s.pos) /\ stop
  <2>1. Converted(p, s, value, FALSE)
    BY <1>1, <1>8
  <2>2. s.pos <= Len(text[p])
    BY <1>2, <1>8 DEF AtEnd
  <2> HIDE DEF value, stop, taken
  <2>3. /\ scan' = [scan EXCEPT ![p] = scan'[p]] /\ pc' = [pc EXCEPT ![p] = pc'[p]]
        /\ scan'[p] \in ScanLocals /\ Within1(p, scan'[p]) /\ Ends(p, s.pos, value)
    BY <1>6, <2>1
  <2> QED BY <1>1, <1>8, <2>2, <2>3 DEF value, stop
<1>9. ~AtEnd(p, s.pos) =>
        /\ s.pos <= Len(text[p]) /\ c \in Int /\ s.pos + 1 \in Nat \ {0} /\ s.len - 1 \in Int
        /\ Append(s.buf, c) \in Seq(Int)
  BY <1>2, <1>4 DEF AtEnd
<1> DEFINE u == [s EXCEPT !.buf = Append(s.buf, c), !.pos = s.pos + 1]
<1>10. ~AtEnd(p, s.pos) =>
         /\ taken \in ScanLocals /\ taken.todo = s.todo /\ taken.nmatch = s.nmatch
         /\ taken.got = s.got /\ taken.ret = s.ret /\ taken.pos = s.pos + 1
         /\ taken.buf = Append(s.buf, c) /\ taken.len = s.len - 1 /\ taken.from = s.from
  <2> HIDE DEF c
  <2>1. taken = [u EXCEPT !.len = s.len - 1]
    BY <1>2 DEF ScanLocals
  <2>2. ~AtEnd(p, s.pos) =>
          /\ u \in ScanLocals /\ u.todo = s.todo /\ u.nmatch = s.nmatch
          /\ u.got = s.got /\ u.ret = s.ret /\ u.pos = s.pos + 1
          /\ u.buf = Append(s.buf, c) /\ u.from = s.from
    BY <1>2, <1>9 DEF ScanLocals
  <2> HIDE DEF u, taken
  <2> QED BY <1>9, <2>1, <2>2 DEF ScanLocals
<1>11. ~AtEnd(p, s.pos) => Within1(p, taken)
  <2>1. s.pos \in Int /\ Len(text[p]) \in Int
    BY <1>2
  <2>2. ~AtEnd(p, s.pos) => s.pos + 1 <= Len(text[p]) + 1
    BY <1>9, <2>1
  <2> HIDE DEF taken
  <2> QED BY <1>2, <1>10, <2>2 DEF Within1
<1>12. CASE ~AtEnd(p, s.pos) /\ ~stop /\ s.len <= 1
  <2> DEFINE v == <<taken.buf>>
  <2>1. Converted(p, taken, v, FALSE)
    BY <1>1, <1>12
  <2>2. v \in Value1
    <3> HIDE DEF taken
    <3> QED BY <1>9, <1>10, <1>12, StringIsValue
  <2>3. /\ taken \in ScanLocals /\ Within1(p, taken) /\ taken.todo # <<>>
    <3> HIDE DEF taken
    <3> QED BY <1>3, <1>10, <1>11, <1>12
  <2>4. /\ scan' = [scan EXCEPT ![p] = scan'[p]] /\ pc' = [pc EXCEPT ![p] = pc'[p]]
        /\ pc'[p] \in {"scan", "done"} /\ scan'[p] \in ScanLocals /\ Within1(p, scan'[p])
        /\ scan'[p].pos = taken.pos
        /\ ~Item(p).star => scan'[p].got = Append(taken.got, v)
    <3> HIDE DEF taken, v
    <3> QED BY <1>3, <2>1, <2>2, <2>3, ConvertedIs
  <2>5. Ends(p, s.pos + 1, <<Append(s.buf, c)>>)
    <3> HIDE DEF taken
    <3> QED BY <1>10, <1>12, <2>4 DEF Ends
  <2> HIDE DEF taken
  <2> QED BY <1>1, <1>9, <1>12, <2>4, <2>5
<1>13. CASE ~AtEnd(p, s.pos) /\ ~stop /\ ~(s.len <= 1)
  <2>1. scan' = [scan EXCEPT ![p] = taken] /\ pc' = pc
    BY <1>1, <1>13
  <2>2. scan'[p] = taken /\ scan' = [scan EXCEPT ![p] = scan'[p]] /\ pc' = [pc EXCEPT ![p] = pc'[p]]
    <3> HIDE DEF taken
    <3>1. DOMAIN scan = Programs /\ pc = [q \in Programs |-> pc[q]]
      BY DEF Types
    <3> QED BY <2>1, <3>1
  <2>3. Takes(p) /\ scan'[p].todo = s.todo /\ scan'[p] \in ScanLocals /\ Within1(p, scan'[p])
    <3> HIDE DEF taken
    <3> QED BY <1>1, <1>10, <1>11, <1>13, <2>1, <2>2 DEF Takes
  <2> HIDE DEF taken
  <2> QED BY <1>1, <1>9, <1>13, <2>2, <2>3
<1> QED BY <1>7, <1>8, <1>12, <1>13

\* It keeps the types.
LEMMA InstrTyped ==
  ASSUME Types, NEW p \in Programs, _instr(p)
  PROVE  OwnTyped(p)
<1>1. /\ job' = job /\ text' = text /\ sort' = sort /\ _sctab' = _sctab /\ alone' = alone
      /\ scan' = [scan EXCEPT ![p] = scan'[p]] /\ pc' = [pc EXCEPT ![p] = pc'[p]]
      /\ scan'[p] \in ScanLocals /\ Within1(p, scan'[p])
      /\ pc[p] = "take"
      /\ \/ pc'[p] \in {"scan", "done"}
         \/ pc'[p] = "take" /\ scan'[p].todo = scan[p].todo
  BY InstrIs DEF Ends, Takes
<1>2. job[p].kind = "text"
  BY <1>1, Scanning
<1>3. _sctab' \subseteq Alphabet /\ alone' \in [Programs -> BOOLEAN]
  BY <1>1 DEF Types
<1>4. scan[p].todo # <<>> /\ Head(scan[p].todo).type \in {"c", "s", "["}
  BY <1>1 DEF Types, ScanTyped, Item
<1>5. /\ pc'[p] \in {"class", "take"} =>
           scan'[p].todo # <<>> /\ Head(scan'[p].todo).type \in {"c", "s", "["}
      /\ pc'[p] # "class"
      /\ pc'[p] \in {"scan", "class", "take", "done"}
  BY <1>1, <1>4
<1> QED BY <1>1, <1>2, <1>3, <1>5, ScanStep

\* qsort() and qs1() leave texts and scans alone.
LEMMA SortStep ==
  ASSUME Types, NEW p \in Programs, job' = job, text' = text, scan' = scan, _sctab' = _sctab,
         sort' = [sort EXCEPT ![p] = sort'[p]], pc' = [pc EXCEPT ![p] = pc'[p]],
         job[p].kind = "sort", pc'[p] \in {"enter", "start", "left", "right", "done", "wild"},
         alone' \in [Programs -> BOOLEAN]
  PROVE  OwnTyped(p)
<1>1. /\ scan[p] \in ScanLocals /\ text[p] \in Seq(Int) /\ ScanTyped(p) /\ _sctab \subseteq Alphabet
      /\ text = [q \in Programs |-> text[q]] /\ scan = [q \in Programs |-> scan[q]]
  BY DEF Types
<1>2. Own1(p)
  BY <1>1 DEF Own1
<1>3. ScanTyped(p)'
  BY <1>1 DEF ScanTyped
<1> QED BY <1>1, <1>2, <1>3 DEF OwnTyped, Calls

\* What Then() does.
LEMMA ThenIs ==
  ASSUME Types, NEW p \in Programs, NEW s, NEW label, Then(p, s, label)
  PROVE  /\ job' = job /\ text' = text /\ scan' = scan /\ _sctab' = _sctab /\ alone' = alone
         /\ qses' = qses
         /\ sort' = [sort EXCEPT ![p] = sort'[p]] /\ pc' = [pc EXCEPT ![p] = pc'[p]]
         /\ sort'[p] = s /\ pc'[p] = label
<1>1. DOMAIN sort = Programs /\ DOMAIN pc = Programs
  BY DEF Types
<1> QED BY <1>1 DEF Then, Goto

\* The steps of qs1() do nothing else.
LEMMA Qs1Then ==
  ASSUME NEW p \in Programs, Enter(p) \/ Start(p) \/ Left(p) \/ Right(p)
  PROVE  /\ Sorting(p)
         /\ \E label \in {"enter", "start", "left", "right", "done", "wild"} :
              \E s : Then(p, s, label)
<1>1. Enter(p) => pc[p] = "enter" /\ \E s : Then(p, s, "start")
  BY DEF Enter
<1>2. Start(p) => /\ pc[p] = "start"
                  /\ \E label \in {"start", "left", "done", "wild"} : \E s : Then(p, s, label)
  BY DEF Start
<1>3. Left(p) => /\ pc[p] = "left"
                 /\ \E label \in {"left", "right", "wild"} : \E s : Then(p, s, label)
  BY DEF Left
<1>4. Right(p) => /\ pc[p] = "right"
                  /\ \E label \in {"left", "right", "enter", "wild"} : \E s : Then(p, s, label)
  BY DEF Right
<1> QED BY <1>1, <1>2, <1>3, <1>4 DEF Sorting

\* They keep the types.
LEMMA Qs1Typed ==
  ASSUME Types, NEW p \in Programs, Enter(p) \/ Start(p) \/ Left(p) \/ Right(p)
  PROVE  OwnTyped(p)
<1>1. PICK label \in {"enter", "start", "left", "right", "done", "wild"} :
        Sorting(p) /\ \E s : Then(p, s, label)
  BY Qs1Then
<1>2. PICK s : Then(p, s, label)
  BY <1>1
<1>3. /\ job' = job /\ text' = text /\ scan' = scan /\ _sctab' = _sctab /\ alone' = alone
      /\ sort' = [sort EXCEPT ![p] = sort'[p]] /\ pc' = [pc EXCEPT ![p] = pc'[p]]
      /\ pc'[p] = label
  BY <1>2, ThenIs
<1>4. job[p].kind = "sort"
  BY <1>1 DEF Types, ScanTyped, Sorting
<1>5. alone' \in [Programs -> BOOLEAN]
  BY <1>3 DEF Types
<1> QED BY <1>1, <1>3, <1>4, <1>5, SortStep

\* qsort() sets the size for everybody.
LEMMA QsortIs ==
  ASSUME Types, NEW p \in Programs, qsort(p)
  PROVE  /\ job' = job /\ text' = text /\ scan' = scan /\ _sctab' = _sctab
         /\ pc[p] = "sort" /\ job[p].kind = "sort" /\ qses' = job[p].es
         /\ sort' = [sort EXCEPT ![p] = sort'[p]] /\ pc' = [pc EXCEPT ![p] = pc'[p]]
         /\ sort'[p] = [sort[p] EXCEPT !.l = Len(job[p].data)] /\ pc'[p] = "enter"
         /\ alone' \in [Programs -> BOOLEAN] /\ alone'[p] = alone[p]
         /\ \A q \in Programs : alone'[q] => alone[q] /\ (Sorting(q) => job[q].es = qses')
<1>1. /\ DOMAIN sort = Programs /\ DOMAIN pc = Programs /\ alone \in [Programs -> BOOLEAN]
      /\ ScanTyped(p)
  BY DEF Types
<1>2. /\ job' = job /\ text' = text /\ scan' = scan /\ _sctab' = _sctab
      /\ pc[p] = "sort" /\ qses' = job[p].es
      /\ sort' = [sort EXCEPT ![p] = [sort[p] EXCEPT !.l = Len(job[p].data)]]
      /\ pc' = [pc EXCEPT ![p] = "enter"]
      /\ alone' = [q \in Programs |-> alone[q] /\ (Sorting(q) => job[q].es = qses')]
  BY <1>1 DEF qsort, Goto
<1>3. /\ sort'[p] = [sort[p] EXCEPT !.l = Len(job[p].data)] /\ pc'[p] = "enter"
  BY <1>1, <1>2
<1>4. sort' = [sort EXCEPT ![p] = sort'[p]] /\ pc' = [pc EXCEPT ![p] = pc'[p]]
  BY <1>2, <1>3, Zenon
<1>5. \A q \in Programs : alone'[q] = (alone[q] /\ (Sorting(q) => job[q].es = qses'))
  BY <1>2, Zenon
<1>6. alone'[p] = alone[p]
  <2>1. ~Sorting(p) /\ alone[p] \in BOOLEAN
    BY <1>1, <1>2 DEF Sorting
  <2> QED BY <1>5, <2>1
<1>7. alone' \in [Programs -> BOOLEAN]
  BY <1>1, <1>2
<1>8. job[p].kind = "sort"
  BY <1>1, <1>2 DEF ScanTyped
<1> QED BY <1>2, <1>3, <1>4, <1>5, <1>6, <1>7, <1>8

\* It keeps the types.
LEMMA QsortTyped ==
  ASSUME Types, NEW p \in Programs, qsort(p)
  PROVE  OwnTyped(p)
<1>1. /\ job' = job /\ text' = text /\ scan' = scan /\ _sctab' = _sctab
      /\ job[p].kind = "sort" /\ alone' \in [Programs -> BOOLEAN]
      /\ sort' = [sort EXCEPT ![p] = sort'[p]] /\ pc' = [pc EXCEPT ![p] = pc'[p]]
      /\ pc'[p] = "enter"
  BY QsortIs
<1> QED BY <1>1, SortStep

\* Every step is typed.
LEMMA StepTyped ==
  ASSUME Types, NEW p \in Programs, Step(p)
  PROVE  OwnTyped(p) /\ Types'
<1>1. OwnTyped(p)
  BY SprintfTyped, EndOfFormatTyped, WhiteSpaceTyped, CharacterTyped, ReadNumberTyped,
     ReadStringTyped, GetcclAllTyped, GetcclClassTyped, InstrTyped, QsortTyped, Qs1Typed DEF Step
<1> QED BY <1>1, TypedStep

\* The first state has the types,
LEMMA TypesInit == Init => Types
<1> SUFFICES ASSUME Init PROVE Types
  OBVIOUS
<1>1. /\ job \in Jobs
      /\ pc = [p \in Programs |-> job[p].kind]
      /\ text = [p \in Programs |-> <<>>]
      /\ scan = [p \in Programs |-> IdleScan]
      /\ sort = [p \in Programs |-> IF job[p].kind = "sort"
                                THEN [IdleSort EXCEPT !.mem = Array(job[p].data)] ELSE IdleSort]
      /\ _sctab = {}
      /\ alone = [p \in Programs |-> TRUE]
  BY DEF Init
<1>2. \A p \in Programs : job[p].kind \in {"none", "text", "sort"}
  BY <1>1, JobIs
<1>3. pc \in [Programs -> Calls]
  BY <1>1, <1>2 DEF Calls
<1>4. IdleScan \in ScanLocals
  <2>1. <<>> \in Seq(ScanItem) /\ <<>> \in Seq(Value1) /\ <<>> \in Seq(Int) /\ <<>> \in Seq(Alphabet)
    OBVIOUS
  <2> QED BY <2>1 DEF IdleScan, ScanLocals
<1>5. text \in [Programs -> Seq(Int)] /\ scan \in [Programs -> ScanLocals]
  BY <1>1, <1>4
<1>6. sort = [p \in Programs |-> sort[p]]
  BY <1>1
<1>7. alone \in [Programs -> BOOLEAN] /\ _sctab \subseteq Alphabet
  BY <1>1
<1>8. ASSUME NEW p \in Programs PROVE ScanTyped(p)
  <2>1. pc[p] \in {"none", "text", "sort"} /\ pc[p] = job[p].kind /\ scan[p] = IdleScan /\ text[p] = <<>>
    BY <1>1, <1>2
  <2>2. /\ scan[p].pos = 1 /\ scan[p].nmatch = 0 /\ scan[p].got = <<>> /\ scan[p].ret = 0
        /\ scan[p].todo = <<>>
    BY <2>1 DEF IdleScan
  <2>3. ~HasClass(scan[p].todo)
    BY <2>2 DEF HasClass
  <2> HIDE DEF HasClass
  <2> QED BY <2>1, <2>2, <2>3 DEF ScanTyped, EOF
<1> QED BY <1>1, <1>3, <1>5, <1>6, <1>7, <1>8 DEF Types

\* and every step keeps them.
LEMMA TypesNext == Types /\ [Next]_vars => Types'
<1> SUFFICES ASSUME Types, [Next]_vars PROVE Types'
  OBVIOUS
<1>1. CASE Next
  <2>1. PICK p \in Programs : Step(p)
    BY <1>1 DEF Next
  <2> QED BY <2>1, StepTyped
<1>2. CASE UNCHANGED vars
  <2>1. /\ job' = job /\ pc' = pc /\ text' = text /\ scan' = scan /\ sort' = sort /\ _sctab' = _sctab
        /\ alone' = alone
    BY <1>2 DEF vars
  <2>2. \A p \in Programs : ScanTyped(p)'
    BY <2>1 DEF Types, ScanTyped, Item
  <2> QED BY <2>1, <2>2 DEF Types
<1> QED BY <1>1, <1>2

\* So they hold always.
LEMMA TypesAlways == Spec => []Types
BY TypesInit, TypesNext, PTL DEF Spec
-----------------------------------------------------------------------------
(* What a program is spared while it is alone.                              *)

\* A step of another leaves a table that a program is at, and a size that it sorts
\* with, or the program is not alone any more.
LEMMA StepOthers ==
  ASSUME Types, NEW p \in Programs, Step(p), NEW q \in Programs, q # p, alone'[q]
  PROVE  /\ alone[q]
         /\ pc[q] \in {"class", "take"} /\ Item(q).type = "[" => _sctab' = _sctab
         /\ Sorting(q) => qses' = qses \/ qses' = job[q].es
<1>1. CASE /\ ~_getcclAll(p) /\ ~_getcclClass(p) /\ ~qsort(p)
  <2>1. CASE Enter(p) \/ Start(p) \/ Left(p) \/ Right(p)
    <3>1. PICK label \in {"enter", "start", "left", "right", "done", "wild"} :
            Sorting(p) /\ \E s : Then(p, s, label)
      BY <2>1, Qs1Then
    <3>2. PICK s : Then(p, s, label)
      BY <3>1
    <3> QED BY <3>2 DEF Then
  <2>2. CASE _instr(p)
    BY <2>2 DEF _instr
  <2>3. CASE sprintf(p)
    BY <2>3 DEF sprintf
  <2>4. CASE EndOfFormat(p) \/ WhiteSpace(p) \/ Character(p) \/ ReadNumber(p) \/ ReadString(p)
    BY <2>4 DEF EndOfFormat, WhiteSpace, Character, ReadNumber, ReadString, InScan
  <2> QED BY <1>1, <2>1, <2>2, <2>3, <2>4 DEF Step
<1>2. CASE _getcclAll(p)
  <2>1. PICK c \in scan[p].clear : c \in Alphabet /\ SetSTP(p, c, ~Item(p).neg)
    BY <1>2, GetcclAllIs
  <2> DEFINE on == ~Item(p).neg
  <2>2. SetSTP(p, c, on)
    BY <2>1
  <2> HIDE DEF on
  <2> QED BY <2>1, <2>2, TableSet
<1>3. CASE _getcclClass(p)
  <2>1. \/ UNCHANGED <<job, text, scan, sort, _sctab, qses, alone>>
        \/ Head(scan[p].class) \in Alphabet /\ SetSTP(p, Head(scan[p].class), Item(p).neg)
    BY <1>3, GetcclClassIs
  <2> DEFINE on == Item(p).neg
             c == Head(scan[p].class)
  <2>2. \/ UNCHANGED <<job, text, scan, sort, _sctab, qses, alone>>
        \/ c \in Alphabet /\ SetSTP(p, c, on)
    BY <2>1
  <2> HIDE DEF on, c
  <2> QED BY <2>2, TableSet
<1>4. CASE qsort(p)
  BY <1>4, QsortIs
<1> QED BY <1>1, <1>2, <1>3, <1>4
-----------------------------------------------------------------------------
(* The strings.                                                              *)

\* A step of another keeps what is said of a string.
LEMMA ScanOfOther ==
  ASSUME Types, NEW p \in Programs, Step(p), NEW q \in Programs, q # p, ScanKept(q)
  PROVE  ScanKept(q)'
<1>1. /\ pc'[q] = pc[q] /\ text'[q] = text[q] /\ scan'[q] = scan[q] /\ Item(q)' = Item(q)
  BY StepTyped, OthersKept DEF OwnTyped
<1>2. alone'[q] => /\ alone[q]
                   /\ pc[q] \in {"class", "take"} /\ Item(q).type = "[" => _sctab' = _sctab
  BY StepOthers
<1>3. Taking(q) => Taking(q)'
  BY <1>1, <1>2 DEF Taking
<1>4. pc[q] = "class" => Item(q).type = "["
  BY DEF Types, ScanTyped
<1>5. pc[q] = "class" /\ alone'[q] /\ ClassRead(q) => ClassRead(q)'
  <2>1. Given(q)' = Given(q)
    BY <1>1 DEF Given
  <2>2. pc[q] = "class" /\ alone'[q] => _sctab' = _sctab
    BY <1>2, <1>4
  <2> QED BY <1>1, <2>1, <2>2 DEF ClassRead
<1> QED BY <1>1, <1>2, <1>3, <1>5 DEF ScanKept

\* A string starts with nothing taken, and a class with nothing read.
LEMMA ScanSetUp ==
  ASSUME Types, NEW p \in Programs, ReadString(p)
  PROVE  ScanKept(p)'
<1> DEFINE item == Item(p)
<1>1. /\ scan[p].todo # <<>> /\ Item(p) \in Conversion
      /\ text' = text /\ pc'[p] = IF Item(p).type = "[" THEN "class" ELSE "take"
      /\ scan'[p] \in ScanLocals
      /\ scan'[p].todo = scan[p].todo /\ scan'[p].from = scan'[p].pos
      /\ scan'[p].len = Limit(Item(p)) /\ scan'[p].buf = <<>> /\ scan'[p].clear = Alphabet
      /\ scan'[p].class = Item(p).class
  BY ReadStringIs
<1>2. item' = item
  BY <1>1 DEF Item
<1>3. scan'[p].pos \in Int
  BY <1>1, ScanFields
<1>4. Limit(item) \in Nat \ {0} /\ item.class \in Seq(Alphabet)
  <2> HIDE DEF item
  <2> QED BY <1>1 DEF Conversion, Limit, item
<1>5. Taking(p)'
  <2>1. SubSeq(text'[p], scan'[p].pos, scan'[p].pos - 1) = <<>>
    BY <1>3
  <2>2. scan'[p].pos .. scan'[p].pos - 1 = {}
    BY <1>3
  <2>3. scan'[p].len = Limit(item) - (scan'[p].pos - scan'[p].pos) /\ scan'[p].len >= 1
    <3> HIDE DEF item
    <3> QED BY <1>1, <1>3, <1>4 DEF item
  <2>4. scan'[p].from <= scan'[p].pos
    BY <1>1, <1>3
  <2> HIDE DEF item
  <2>5. Item(p)' = item
    BY <1>2 DEF item
  <2> QED BY <1>1, <2>1, <2>2, <2>3, <2>4, <2>5 DEF Taking
<1>6. ClassRead(p)'
  <2>1. Len(item.class) \in Nat /\ Alphabet \ Alphabet = {}
    BY <1>4
  <2>2. /\ Len(scan'[p].class) = Len(item.class)
        /\ \A i \in 1 .. Len(item.class) :
             scan'[p].class[i] = item.class[Len(item.class) - Len(item.class) + i]
    <3> HIDE DEF item
    <3> QED BY <1>1, <2>1 DEF item
  <2> HIDE DEF item
  <2>3. Item(p)' = item
    BY <1>2 DEF item
  <2> QED BY <1>1, <2>1, <2>2, <2>3 DEF ClassRead
<1>7. pc'[p] = "take" => Item(p)'.type # "["
  BY <1>1, <1>2
<1> QED BY <1>1, <1>5, <1>6, <1>7 DEF ScanKept

\* Every character gets the one value,
LEMMA ScanGetcclAll ==
  ASSUME Types, NEW p \in Programs, ScanKept(p), _getcclAll(p)
  PROVE  ScanKept(p)'
<1>1. PICK c \in scan[p].clear :
           /\ c \in Alphabet /\ pc[p] = "class" /\ pc' = pc
           /\ SetSTP(p, c, ~Item(p).neg)
           /\ scan'[p] = [scan[p] EXCEPT !.clear = scan[p].clear \ {c}]
           /\ scan[p] \in ScanLocals
  BY GetcclAllIs
<1> DEFINE on == ~Item(p).neg
<1>2. /\ text' = text /\ alone'[p] = alone[p]
      /\ \A d \in Alphabet : d # c => ((d \in _sctab') <=> (d \in _sctab))
      /\ (c \in _sctab') <=> on
  <2>1. SetSTP(p, c, on)
    BY <1>1
  <2> HIDE DEF on
  <2> QED BY <1>1, <2>1, TableSet
<1>3. /\ scan'[p].todo = scan[p].todo /\ scan'[p].pos = scan[p].pos /\ scan'[p].len = scan[p].len
      /\ scan'[p].from = scan[p].from /\ scan'[p].buf = scan[p].buf
      /\ scan'[p].class = scan[p].class /\ scan'[p].clear = scan[p].clear \ {c}
  BY <1>1 DEF ScanLocals
<1>4. Item(p)' = Item(p) /\ Item(p).neg \in BOOLEAN /\ Item(p).class \in Seq(Alphabet)
  <2>1. scan[p].todo # <<>> /\ Item(p).type = "["
    BY <1>1 DEF Types, ScanTyped
  <2>2. Item(p) \in Conversion
    BY <2>1, ItemIs
  <2> QED BY <1>3, <2>2 DEF Item, Conversion
<1>5. Taking(p)'
  <2>1. Taking(p)
    BY <1>1 DEF ScanKept
  <2> QED BY <1>2, <1>3, <1>4, <2>1 DEF Taking
<1>6. ASSUME alone'[p] PROVE ClassRead(p)'
  <2>1. ClassRead(p)
    BY <1>1, <1>2, <1>6 DEF ScanKept
  <2>2. Len(scan[p].class) = Len(Item(p).class) /\ Len(Item(p).class) \in Nat
    BY <1>4, <2>1 DEF ClassRead
  <2>3. Given(p) = {} /\ Given(p)' = {}
    BY <1>3, <1>4, <2>2 DEF Given
  <2>4. ASSUME NEW d \in Alphabet \ scan'[p].clear
        PROVE  (d \in _sctab') <=> ((d \in Given(p)') = Item(p).neg)
    <3>1. CASE d = c
      BY <1>2, <1>4, <2>3, <3>1
    <3>2. CASE d # c
      <4>1. d \in Alphabet \ scan[p].clear
        BY <1>3, <2>4, <3>2
      <4>2. (d \in _sctab) <=> ((d \in Given(p)) = Item(p).neg)
        BY <2>1, <4>1 DEF ClassRead
      <4> QED BY <1>2, <2>3, <3>2, <4>2
    <3> QED BY <3>1, <3>2
  <2> QED BY <1>3, <1>4, <2>1, <2>2, <2>4 DEF ClassRead
<1> QED BY <1>1, <1>3, <1>5, <1>6 DEF ScanKept

\* and those of the class the other.
LEMMA ScanGetcclClass ==
  ASSUME Types, NEW p \in Programs, ScanKept(p), _getcclClass(p)
  PROVE  ScanKept(p)'
<1> DEFINE class == Item(p).class
           rest == scan[p].class
<1>1. /\ pc[p] = "class" /\ scan[p].clear = {} /\ scan[p] \in ScanLocals
      /\ \/ /\ rest = <<>> /\ pc'[p] = "take"
            /\ UNCHANGED <<job, text, scan, sort, _sctab, qses, alone>>
         \/ /\ rest # <<>> /\ Head(rest) \in Alphabet
            /\ SetSTP(p, Head(rest), Item(p).neg)
            /\ pc' = pc
            /\ scan'[p] = [scan[p] EXCEPT !.class = Tail(rest)]
  BY GetcclClassIs
<1>2. /\ Item(p).type = "[" /\ Item(p).neg \in BOOLEAN /\ class \in Seq(Alphabet)
      /\ rest \in Seq(Alphabet)
  <2>1. scan[p].todo # <<>> /\ Item(p).type = "["
    BY <1>1 DEF Types, ScanTyped
  <2>2. Item(p) \in Conversion
    BY <2>1, ItemIs
  <2> QED BY <1>1, <2>1, <2>2, ScanFields DEF Conversion
<1>3. Taking(p) /\ scan[p].from = scan[p].pos /\ (alone[p] => ClassRead(p))
  BY <1>1 DEF ScanKept
<1>4. CASE rest = <<>> /\ pc'[p] = "take" /\ UNCHANGED <<job, text, scan, sort, _sctab, qses, alone>>
  <2>1. Item(p)' = Item(p)
    BY <1>4 DEF Item
  <2>2. Taking(p)'
    BY <1>3, <1>4, <2>1 DEF Taking
  <2>3. ASSUME alone[p], NEW c \in Alphabet PROVE (c \in _sctab) <=> ~Accepts(Item(p), c)
    <3>1. Given(p) = ToSet(class)
      <4>1. Len(rest) = 0 /\ DOMAIN class = 1 .. Len(class) /\ Len(class) \in Nat
        BY <1>2, <1>4
      <4>2. Len(class) - Len(rest) = Len(class)
        BY <4>1
      <4> QED BY <4>1, <4>2 DEF Given, ToSet
    <3>2. (c \in _sctab) <=> ((c \in Given(p)) = Item(p).neg)
      BY <1>1, <1>3, <2>3 DEF ClassRead
    <3>3. Accepts(Item(p), c) = ((c \in ToSet(class)) # Item(p).neg)
      BY <1>2 DEF Accepts
    <3> QED BY <1>2, <3>1, <3>2, <3>3
  <2> QED BY <1>4, <2>1, <2>2, <2>3 DEF ScanKept
<1>5. CASE /\ rest # <<>> /\ Head(rest) \in Alphabet
           /\ SetSTP(p, Head(rest), Item(p).neg)
           /\ pc' = pc
           /\ scan'[p] = [scan[p] EXCEPT !.class = Tail(rest)]
  <2> DEFINE on == Item(p).neg
             c == Head(rest)
  <2>1. /\ text' = text /\ alone'[p] = alone[p]
        /\ \A d \in Alphabet : d # c => ((d \in _sctab') <=> (d \in _sctab))
        /\ (c \in _sctab') <=> on
    <3>1. SetSTP(p, c, on) /\ c \in Alphabet
      BY <1>5
    <3> HIDE DEF on, c
    <3> QED BY <3>1, TableSet
  <2>2. /\ scan'[p].todo = scan[p].todo /\ scan'[p].pos = scan[p].pos /\ scan'[p].len = scan[p].len
        /\ scan'[p].from = scan[p].from /\ scan'[p].buf = scan[p].buf
        /\ scan'[p].class = Tail(rest) /\ scan'[p].clear = {}
    BY <1>1, <1>5 DEF ScanLocals
  <2>3. Item(p)' = Item(p)
    BY <2>2 DEF Item
  <2>4. Taking(p)'
    BY <1>3, <2>1, <2>2, <2>3 DEF Taking
  <2>5. ASSUME alone'[p] PROVE ClassRead(p)'
    <3>1. ClassRead(p)
      BY <1>3, <2>1, <2>5
    <3>2. /\ Len(rest) \in Nat /\ Len(class) \in Nat /\ Len(rest) >= 1
          /\ Len(Tail(rest)) = Len(rest) - 1 /\ c = rest[1]
          /\ \A i \in 1 .. Len(rest) - 1 : Tail(rest)[i] = rest[i + 1]
      BY <1>2, <1>5
    <3>3. /\ Len(rest) <= Len(class)
          /\ \A i \in 1 .. Len(rest) : rest[i] = class[Len(class) - Len(rest) + i]
          /\ \A d \in Alphabet : (d \in _sctab) <=> ((d \in Given(p)) = on)
      BY <1>1, <3>1 DEF ClassRead
    <3> DEFINE k == Len(class) - Len(rest)
               r == Tail(rest)
    <3>4. k \in Nat /\ k + 1 \in 1 .. Len(class) /\ Len(class) - Len(r) = k + 1 /\ c = class[k + 1]
      <4> DEFINE n == Len(class)
                 m == Len(rest)
                 t == Len(Tail(rest))
      <4>1. m \in Nat /\ n \in Nat /\ m >= 1 /\ t = m - 1 /\ m <= n /\ 1 \in 1 .. m
        BY <3>2, <3>3
      <4>2. c = class[n - m + 1]
        BY <3>2, <3>3, <4>1
      <4>3. k = n - m /\ Len(class) = n /\ Len(r) = t
        OBVIOUS
      <4> HIDE DEF n, m, t, c, k, r
      <4> QED BY <4>1, <4>2, <4>3
    <3>5. \A i \in 1 .. Len(r) : r[i] = class[Len(class) - Len(r) + i]
      <4>1. SUFFICES ASSUME NEW i \in 1 .. Len(r) PROVE r[i] = class[Len(class) - Len(r) + i]
        OBVIOUS
      <4>2. i \in 1 .. Len(rest) - 1 /\ i + 1 \in 1 .. Len(rest)
        BY <3>2, <4>1
      <4>3. r[i] = rest[i + 1] /\ rest[i + 1] = class[Len(class) - Len(rest) + (i + 1)]
        BY <3>2, <3>3, <4>2
      <4>4. Len(class) - Len(rest) + (i + 1) = Len(class) - Len(r) + i
        <5> DEFINE n == Len(class)
                   m == Len(rest)
                   t == Len(Tail(rest))
        <5>1. m \in Nat /\ n \in Nat /\ t = m - 1 /\ i \in Int /\ Len(r) = t
          BY <3>2, <4>2
        <5>2. Len(class) = n /\ Len(rest) = m
          OBVIOUS
        <5> HIDE DEF n, m, t, r, class, rest
        <5> QED BY <5>1, <5>2
      <4> QED BY <4>3, <4>4
    <3>6. Given(p)' = Given(p) \cup {c}
      <4>1. Given(p) = {class[i] : i \in 1 .. k}
        BY DEF Given
      <4>2. Given(p)' = {class[i] : i \in 1 .. k + 1}
        <5>1. Len(class) - Len(scan'[p].class) = k + 1
          BY <2>2, <3>4
        <5> QED BY <2>3, <5>1 DEF Given
      <4>3. 1 .. k + 1 = 1 .. k \cup {k + 1}
        <5> HIDE DEF k
        <5> QED BY <3>4
      <4> HIDE DEF k, c, class
      <4> QED BY <3>4, <4>1, <4>2, <4>3
    <3>7. \A d \in Alphabet : (d \in _sctab') <=> ((d \in Given(p)') = on)
      <4> HIDE DEF c
      <4> QED BY <1>2, <2>1, <3>3, <3>6
    <3>8. Len(r) <= Len(class)
      BY <3>2, <3>3
    <3> HIDE DEF r
    <3>9. scan'[p].class = r
      BY <2>2 DEF r
    <3> QED BY <2>2, <2>3, <3>5, <3>7, <3>8, <3>9 DEF ClassRead
  <2>6. scan'[p].from = scan'[p].pos
    BY <1>3, <2>2
  <2> QED BY <1>1, <1>5, <2>4, <2>5, <2>6 DEF ScanKept
<1> QED BY <1>1, <1>4, <1>5

\* Every character that _instr() takes is one it accepts.
LEMMA StopsIs ==
  ASSUME Types, NEW p \in Programs, ScanKept(p), pc[p] = "take", scan[p].pos <= Len(text[p]),
         Item(p).type = "[" => alone[p]
  PROVE  Stops(p, text[p][scan[p].pos]) <=> ~Accepts(Item(p), text[p][scan[p].pos])
<1> DEFINE c == text[p][scan[p].pos]
<1>1. scan[p].pos \in 1 .. Len(text[p]) + 1 /\ text[p] \in Seq(Int) /\ scan[p].todo \in Seq(ScanItem)
  BY Scanning
<1>2. scan[p].todo # <<>> /\ Item(p).type \in {"c", "s", "["} /\ ScanTyped(p)
  BY DEF Types, ScanTyped
<1>3. CASE Item(p).type = "["
  <2>1. \A d \in Alphabet : (d \in _sctab) <=> ~Accepts(Item(p), d)
    BY <1>3 DEF ScanKept
  <2>2. HasClass(scan[p].todo)
    <3>1. 1 \in 1 .. Len(scan[p].todo) /\ scan[p].todo[1] = Item(p)
      BY <1>1, <1>2 DEF Item
    <3> QED BY <1>3, <3>1 DEF HasClass
  <2>3. text[p] \in Seq(Alphabet)
    <3> HIDE DEF HasClass
    <3> QED BY <1>2, <2>2 DEF ScanTyped
  <2>4. c \in Alphabet
    BY <1>1, <2>3
  <2> QED BY <1>3, <2>1, <2>4 DEF Stops
<1>4. CASE Item(p).type = "s"
  BY <1>4 DEF Stops, Accepts
<1>5. CASE Item(p).type = "c"
  BY <1>5 DEF Stops, Accepts
<1> QED BY <1>2, <1>3, <1>4, <1>5

\* A part of a text and the character behind it.
LEMMA SubSeqAppend ==
  ASSUME NEW S, NEW s \in Seq(S), NEW m \in Nat \ {0}, NEW n \in Nat, m <= n, n <= Len(s)
  PROVE  Append(SubSeq(s, m, n - 1), s[n]) = SubSeq(s, m, n)
<1> DEFINE a == SubSeq(s, m, n - 1)
           b == SubSeq(s, m, n)
           c == Append(a, s[n])
<1>1. /\ a \in Seq(S) /\ Len(a) = n - m /\ \A i \in 1 .. n - m : a[i] = s[m + i - 1]
  BY SubSeqProperties
<1>2. /\ b \in Seq(S) /\ Len(b) = n - m + 1 /\ \A i \in 1 .. n - m + 1 : b[i] = s[m + i - 1]
  BY SubSeqProperties
<1>3. s[n] \in S
  OBVIOUS
<1> HIDE DEF a, b
<1>4. c \in Seq(S) /\ Len(c) = n - m + 1
  BY <1>1, <1>3
<1>5. ASSUME NEW i \in 1 .. n - m + 1 PROVE c[i] = b[i]
  <2>1. CASE i = n - m + 1
    <3>1. c[i] = s[n] /\ m + i - 1 = n
      BY <1>1, <1>3, <2>1
    <3> QED BY <1>2, <3>1
  <2>2. CASE i # n - m + 1
    <3>1. i \in 1 .. n - m
      BY <2>2
    <3>2. c[i] = a[i]
      BY <1>1, <1>3, <3>1
    <3> QED BY <1>1, <1>2, <3>1, <3>2
  <2> QED BY <2>1, <2>2
<1> HIDE DEF c
<1>6. c = b
  BY <1>2, <1>4, <1>5, SeqEqual
<1> QED BY <1>6 DEF a, b, c

\* What is known while a string is taken.
LEMMA TakingFacts ==
  ASSUME Types, NEW p \in Programs, ScanKept(p), pc[p] = "take"
  PROVE  LET s == scan[p]
         IN  /\ text[p] \in Seq(Int) /\ s.pos \in 1 .. Len(text[p]) + 1 /\ s.from \in Nat \ {0}
             /\ s.len \in Int /\ s.buf \in Seq(Int) /\ s \in ScanLocals
             /\ s.from <= s.pos /\ s.buf = SubSeq(text[p], s.from, s.pos - 1)
             /\ Limit(Item(p)) \in Int
             /\ s.len = Limit(Item(p)) - (s.pos - s.from) /\ s.len >= 1
             /\ (Item(p).type = "[" => alone[p]) =>
                  \A i \in s.from .. s.pos - 1 : Accepts(Item(p), text[p][i])
<1>1. /\ scan[p] \in ScanLocals /\ text[p] \in Seq(Int) /\ scan[p].pos \in 1 .. Len(text[p]) + 1
  BY Scanning
<1>2. scan[p].from \in Nat \ {0} /\ scan[p].len \in Int /\ scan[p].buf \in Seq(Int)
  BY <1>1, ScanFields
<1>3. Taking(p)
  BY DEF ScanKept
<1>4. Limit(Item(p)) \in Int
  <2>1. scan[p].todo # <<>> /\ Item(p).type \in {"c", "s", "["}
    BY DEF Types, ScanTyped
  <2>2. Item(p) \in Conversion
    BY <2>1, ItemIs
  <2> QED BY <2>2 DEF Conversion, Limit
<1> QED BY <1>1, <1>2, <1>3, <1>4 DEF Taking

\* _instr() goes on.
LEMMA ScanInstr ==
  ASSUME Types, NEW p \in Programs, ScanKept(p), _instr(p)
  PROVE  ScanKept(p)'
<1> DEFINE s == scan[p]
           t == text[p]
           c == t[s.pos]
<1>1. /\ text' = text /\ _sctab' = _sctab /\ alone' = alone /\ pc[p] = "take"
      /\ \/ pc'[p] \in {"scan", "done"}
         \/ /\ s.pos <= Len(t) /\ ~Stops(p, c) /\ ~(s.len <= 1)
            /\ Takes(p) /\ scan'[p].todo = s.todo
  BY InstrIs DEF Ends
<1>2. CASE pc'[p] \in {"scan", "done"}
  BY <1>2 DEF ScanKept
<1>3. CASE /\ s.pos <= Len(t) /\ ~Stops(p, c) /\ ~(s.len <= 1)
           /\ Takes(p) /\ scan'[p].todo = s.todo
  <2>1. /\ t \in Seq(Int) /\ s.pos \in 1 .. Len(t) + 1 /\ s.from \in Nat \ {0}
        /\ s.len \in Int /\ s.from <= s.pos /\ s.buf = SubSeq(t, s.from, s.pos - 1)
        /\ Limit(Item(p)) \in Int
        /\ s.len = Limit(Item(p)) - (s.pos - s.from)
        /\ (Item(p).type = "[" => alone[p]) =>
             \A i \in s.from .. s.pos - 1 : Accepts(Item(p), t[i])
    BY <1>1, TakingFacts
  <2>2. Item(p)' = Item(p) /\ pc'[p] = "take"
    BY <1>3 DEF Item, Takes
  <2>3. /\ scan'[p].pos = s.pos + 1 /\ scan'[p].len = s.len - 1 /\ scan'[p].from = s.from
        /\ scan'[p].buf = Append(s.buf, c)
    BY <1>3 DEF Takes
  <2>4. Append(s.buf, c) = SubSeq(t, s.from, (s.pos + 1) - 1)
    <3>1. s.pos \in Nat /\ (s.pos + 1) - 1 = s.pos
      BY <2>1
    <3>2. Append(SubSeq(t, s.from, s.pos - 1), t[s.pos]) = SubSeq(t, s.from, s.pos)
      <4> HIDE DEF s, t
      <4> QED BY <1>3, <2>1, <3>1, SubSeqAppend
    <3> QED BY <2>1, <3>1, <3>2
  <2>5. (Item(p).type = "[" => alone[p]) =>
          \A i \in s.from .. (s.pos + 1) - 1 : Accepts(Item(p), t[i])
    <3>1. (Item(p).type = "[" => alone[p]) => Accepts(Item(p), t[s.pos])
      BY <1>1, <1>3, StopsIs
    <3>2. \A i \in s.from .. (s.pos + 1) - 1 : i \in s.from .. s.pos - 1 \/ i = s.pos
      <4> HIDE DEF s, t
      <4> QED BY <2>1
    <3> HIDE DEF t, s
    <3> QED BY <2>1, <3>1, <3>2
  <2>6. /\ s.from <= s.pos + 1 /\ s.len - 1 >= 1
        /\ s.len - 1 = Limit(Item(p)) - ((s.pos + 1) - s.from)
    <3> DEFINE x == s.pos
               y == s.from
               z == s.len
               l == Limit(Item(p))
    <3>1. x \in Int /\ y \in Int /\ z \in Int /\ l \in Int /\ z = l - (x - y) /\ y <= x /\ ~(z <= 1)
      BY <1>3, <2>1
    <3>2. y <= x + 1 /\ z - 1 >= 1 /\ z - 1 = l - ((x + 1) - y)
      <4> HIDE DEF x, y, z, l
      <4> QED BY <3>1
    <3> QED BY <3>2
  <2>7. Taking(p)'
    <3>1. scan'[p].from <= scan'[p].pos /\ scan'[p].len >= 1
      BY <2>3, <2>6
    <3> DEFINE x == s.pos + 1
               y == s.from
               z == s.len - 1
               b == Append(s.buf, c)
               n == Limit(Item(p))
               r == scan'[p]
               u == text'[p]
               B(i) == (Item(p).type = "[" => alone[p]) => Accepts(Item(p), t[i])
               D(i) == (Item(p)'.type = "[" => alone'[p]) => Accepts(Item(p)', text'[p][i])
    <3>2. /\ r.pos = x /\ r.from = y /\ r.len = z /\ r.buf = b /\ u = t
          /\ b = SubSeq(t, y, x - 1) /\ z = n - (x - y) /\ Limit(Item(p)') = n
      <4>1. r.pos = x /\ r.from = y /\ r.len = z /\ r.buf = b
        BY <2>3
      <4>2. u = t /\ Limit(Item(p)') = n
        BY <1>1, <2>2
      <4>3. b = SubSeq(t, y, x - 1)
        BY <2>4, Zenon
      <4>4. z = n - (x - y)
        BY <2>6, Zenon
      <4> HIDE DEF x, y, z, b, n, r, u, t, s, c
      <4> QED BY <4>1, <4>2, <4>3, <4>4
    <3>3. \A i : B(i) <=> D(i)
      <4> SUFFICES ASSUME NEW i PROVE B(i) <=> D(i)
        OBVIOUS
      <4> DEFINE e == Item(p)
                 f == Item(p)'
                 v == alone[p]
                 w == alone'[p]
      <4>1. u = t /\ e = f /\ v = w
        BY <1>1, <2>2
      <4>2. ((e.type = "[" => v) => Accepts(e, t[i])) <=> ((f.type = "[" => w) => Accepts(f, u[i]))
        <5> HIDE DEF e, f, v, w, u, t, s, c
        <5> QED BY <4>1
      <4> QED BY <4>2
    <3>4. \A i \in y .. x - 1 : B(i)
      <4> DEFINE V == s.from .. (s.pos + 1) - 1
      <4>1. V = y .. x - 1
        OBVIOUS
      <4>2. ASSUME NEW i \in V PROVE B(i)
        BY <2>5, <4>2
      <4> HIDE DEF V, x, y, B
      <4> QED BY <4>1, <4>2
    <3>5. /\ r.buf = SubSeq(u, r.from, r.pos - 1) /\ r.len = Limit(Item(p)') - (r.pos - r.from)
          /\ \A i \in r.from .. r.pos - 1 : D(i)
      <4> HIDE DEF x, y, z, b, n, r, u, B, D, t, s, c
      <4> QED BY <3>2, <3>3, <3>4
    <3>6. \A i \in scan'[p].from .. scan'[p].pos - 1 :
            (Item(p)'.type = "[" => alone'[p]) => Accepts(Item(p)', text'[p][i])
      BY <3>5
    <3> QED BY <3>1, <3>5, <3>6 DEF Taking
  <2>8. Item(p).type = "[" /\ alone[p] => \A d \in Alphabet : (d \in _sctab) <=> ~Accepts(Item(p), d)
    BY <1>1 DEF ScanKept
  <2> QED BY <1>1, <2>2, <2>7, <2>8 DEF ScanKept
<1> QED BY <1>1, <1>2, <1>3

\* No string is taken at first,
LEMMA ScansInit == Init => Scans
<1> SUFFICES ASSUME Init, NEW p \in Programs PROVE ScanKept(p)
  BY DEF Scans
<1>1. job \in Jobs /\ pc[p] = job[p].kind
  BY DEF Init
<1>2. pc[p] \in {"none", "text", "sort"}
  BY <1>1, JobIs
<1> QED BY <1>2 DEF ScanKept

\* a step keeps what is said of a string,
LEMMA ScanOfStep ==
  ASSUME Types, NEW p \in Programs, ScanKept(p), Step(p)
  PROVE  ScanKept(p)'
<1>1. CASE sprintf(p)
  <2>1. DOMAIN pc = Programs
    BY DEF Types
  <2>2. \E label \in {"scan", "wild"} : pc' = [pc EXCEPT ![p] = label]
    BY <1>1 DEF sprintf, Goto
  <2>3. pc'[p] \in {"scan", "wild"}
    BY <2>1, <2>2
  <2> QED BY <2>3 DEF ScanKept
<1>2. CASE EndOfFormat(p) \/ WhiteSpace(p) \/ Character(p) \/ ReadNumber(p)
  <2>1. DOMAIN pc = Programs
    BY DEF Types
  <2>2. \E label \in {"scan", "done"} : pc' = [pc EXCEPT ![p] = label]
    <3>1. ASSUME NEW s, NEW r, Return(p, s, r) PROVE pc' = [pc EXCEPT ![p] = "done"]
      BY <3>1 DEF Return, Goto
    <3>2. ASSUME NEW s, Continue(p, s) PROVE pc' = [pc EXCEPT ![p] = "scan"]
      BY <3>2 DEF Continue, Goto
    <3>3. EndOfFormat(p) => \E s : \E r : Return(p, s, r)
      BY DEF EndOfFormat
    <3>4. WhiteSpace(p) => \E s : Continue(p, s)
      BY DEF WhiteSpace
    <3>5. Character(p) => (\E s : \E r : Return(p, s, r)) \/ \E s : Continue(p, s)
      BY DEF Character
    <3>6. ReadNumber(p) => (\E s : \E r : Return(p, s, r)) \/ \E s : Continue(p, s)
      BY DEF ReadNumber, Converted
    <3> QED BY <1>2, <3>1, <3>2, <3>3, <3>4, <3>5, <3>6
  <2>3. pc'[p] \in {"scan", "done"}
    BY <2>1, <2>2
  <2> QED BY <2>3 DEF ScanKept
<1>3. CASE qsort(p)
  <2>1. pc'[p] = "enter"
    BY <1>3, QsortIs
  <2> QED BY <2>1 DEF ScanKept
<1>4. CASE Enter(p) \/ Start(p) \/ Left(p) \/ Right(p)
  <2>1. PICK label \in {"enter", "start", "left", "right", "done", "wild"} :
          Sorting(p) /\ \E s : Then(p, s, label)
    BY <1>4, Qs1Then
  <2>2. PICK s : Then(p, s, label)
    BY <2>1
  <2>3. pc'[p] = label
    BY <2>2, ThenIs
  <2> QED BY <2>1, <2>3 DEF ScanKept
<1> QED BY <1>1, <1>2, <1>3, <1>4, ScanSetUp, ScanGetcclAll, ScanGetcclClass, ScanInstr DEF Step

\* of whatever program.
LEMMA ScansNext == Types /\ Scans /\ [Next]_vars => Scans'
<1> SUFFICES ASSUME Types, Scans, [Next]_vars, NEW q \in Programs PROVE ScanKept(q)'
  BY DEF Scans
<1>1. ScanKept(q)
  BY DEF Scans
<1>2. CASE Next
  <2>1. PICK p \in Programs : Step(p)
    BY <1>2 DEF Next
  <2>2. CASE q = p
    BY <1>1, <2>1, <2>2, ScanOfStep
  <2>3. CASE q # p
    BY <1>1, <2>1, <2>3, ScanOfOther
  <2> QED BY <2>2, <2>3
<1>3. CASE UNCHANGED vars
  <2>1. pc' = pc /\ text' = text /\ scan' = scan /\ _sctab' = _sctab /\ alone' = alone
    BY <1>3 DEF vars
  <2>2. Item(q)' = Item(q) /\ Given(q)' = Given(q)
    BY <2>1 DEF Item, Given
  <2>3. (Taking(q) => Taking(q)') /\ (ClassRead(q) => ClassRead(q)')
    BY <2>1, <2>2 DEF Taking, ClassRead
  <2> QED BY <1>1, <2>1, <2>2, <2>3 DEF ScanKept
<1> QED BY <1>2, <1>3

\* So it is always true.
LEMMA ScansAlways == Spec => []Scans
BY ScansInit, ScansNext, TypesAlways, PTL DEF Spec

\* Where a string ends: behind as many characters as the conversion accepts.
StringEnd(p) ==
  LET s == scan[p]
      item == Item(p)
  IN  Min({Len(text[p]) + 1, s.from + Limit(item)}
            \cup {i \in s.from .. Len(text[p]) : ~Accepts(item, text[p][i])})

\* It is where everything before was accepted and nothing more can be.
LEMMA StringEndIs ==
  ASSUME Types, NEW p \in Programs, NEW end \in Nat \ {0}, scan[p].from \in Nat \ {0},
         text[p] \in Seq(Int), Limit(Item(p)) \in Int,
         scan[p].from <= end, end <= Len(text[p]) + 1, end <= scan[p].from + Limit(Item(p)),
         \A i \in scan[p].from .. end - 1 : Accepts(Item(p), text[p][i]),
         \/ end = Len(text[p]) + 1 \/ end = scan[p].from + Limit(Item(p))
         \/ ~Accepts(Item(p), text[p][end])
  PROVE  StringEnd(p) = end
<1> DEFINE from == scan[p].from
           l == Limit(Item(p))
           n == Len(text[p])
           Bad == {i \in from .. n : ~Accepts(Item(p), text[p][i])}
           T == {n + 1, from + l} \cup Bad
<1>1. n \in Nat /\ from \in Nat /\ l \in Int /\ end \in Nat
  OBVIOUS
<1>2. \A i \in Bad : i \in from .. n /\ i >= end
  <2>1. SUFFICES ASSUME NEW i \in from .. n, ~Accepts(Item(p), text[p][i]), ~(i >= end) PROVE FALSE
    OBVIOUS
  <2>2. i \in from .. end - 1
    <3> HIDE DEF from, l, n, Bad, T
    <3> QED BY <1>1, <2>1
  <2> QED BY <2>1, <2>2
<1>3. /\ n + 1 + from + l \in Nat /\ T \in SUBSET (0 .. n + 1 + from + l)
      /\ \A i \in T : end <= i
  <2>1. from + l >= end /\ n + 1 >= end
    OBVIOUS
  <2> HIDE DEF from, l, n, Bad
  <2> QED BY <1>1, <1>2, <2>1
<1>4. end \in T
  <2>1. CASE end = n + 1 \/ end = from + l
    BY <2>1
  <2>2. CASE ~(end = n + 1) /\ ~Accepts(Item(p), text[p][end])
    <3>1. end \in from .. n
      <4>1. from <= end /\ end <= n + 1
        OBVIOUS
      <4> HIDE DEF from, l, n, Bad, T
      <4> QED BY <1>1, <2>2, <4>1
    <3> QED BY <2>2, <3>1
  <2> QED BY <2>1, <2>2
<1>5. Min(T) = end
  <2> HIDE DEF T, n, l, from
  <2> QED BY <1>3, <1>4, MinIs
<1> QED BY <1>5 DEF StringEnd

\* What the string is, as an argument.
Taken(p) == SubSeq(text[p], scan[p].from, StringEnd(p) - 1)

\* A string that ends has been taken up to where it ends.
LEMMA StringTaken ==
  ASSUME Types, NEW p \in Programs, ScanKept(p), _instr(p), pc'[p] # "take",
         Item(p).type = "[" => alone[p]
  PROVE  /\ scan'[p].pos = StringEnd(p)
         /\ ~Item(p).star => scan'[p].got = Append(scan[p].got, Stored1(Taken(p)))
<1> DEFINE s == scan[p]
           t == text[p]
           c == t[s.pos]
           l == Limit(Item(p))
<1>1. /\ pc[p] = "take"
      /\ \/ s.pos = Len(t) + 1 /\ Ends(p, s.pos, Stored1(s.buf))
         \/ s.pos <= Len(t) /\ Stops(p, c) /\ Ends(p, s.pos, Stored1(s.buf))
         \/ /\ s.pos <= Len(t) /\ ~Stops(p, c) /\ s.len <= 1
            /\ Ends(p, s.pos + 1, <<Append(s.buf, c)>>)
  BY InstrIs DEF Takes
<1>2. /\ t \in Seq(Int) /\ s.pos \in 1 .. Len(t) + 1 /\ s.from \in Nat \ {0}
      /\ s.len \in Int /\ s.buf \in Seq(Int) /\ s.from <= s.pos
      /\ s.buf = SubSeq(t, s.from, s.pos - 1)
      /\ l \in Int /\ s.len = l - (s.pos - s.from) /\ s.len >= 1
      /\ \A i \in s.from .. s.pos - 1 : Accepts(Item(p), t[i])
  BY <1>1, TakingFacts
<1>3. s.pos <= Len(t) => (Stops(p, c) <=> ~Accepts(Item(p), c))
  BY <1>1, StopsIs
<1>4. s.pos + 1 <= s.from + l /\ s.pos \in Nat \ {0} /\ (s.len <= 1 => s.pos + 1 = s.from + l)
      /\ s.pos <= s.from + l /\ s.pos <= Len(t) + 1
  <2> DEFINE x == s.pos
             y == s.from
             z == s.len
             n == Len(t)
  <2>1. /\ x \in Int /\ y \in Int /\ z \in Int /\ l \in Int /\ n \in Int
        /\ z = l - (x - y) /\ z >= 1 /\ 1 <= x /\ x <= n + 1
    BY <1>2
  <2>2. /\ x + 1 <= y + l /\ x \in Nat \ {0} /\ (z <= 1 => x + 1 = y + l) /\ x <= y + l /\ x <= n + 1
    <3> HIDE DEF x, y, z, l, n
    <3> QED BY <2>1
  <2> QED BY <2>2
<1>5. CASE /\ s.pos = Len(t) + 1 \/ (s.pos <= Len(t) /\ Stops(p, c))
           /\ Ends(p, s.pos, Stored1(s.buf))
  <2>1. s.pos = Len(t) + 1 \/ ~Accepts(Item(p), t[s.pos])
    BY <1>3, <1>5
  <2> DEFINE end == s.pos
  <2>2. StringEnd(p) = end
    <3> HIDE DEF end
    <3>1. end = s.pos
      BY DEF end
    <3> QED BY <1>2, <1>4, <2>1, <3>1, StringEndIs
  <2>3. Taken(p) = s.buf
    BY <1>2, <2>2 DEF Taken
  <2> QED BY <1>5, <2>2, <2>3 DEF Ends
<1>6. CASE /\ s.pos <= Len(t) /\ ~Stops(p, c) /\ s.len <= 1
           /\ Ends(p, s.pos + 1, <<Append(s.buf, c)>>)
  <2> DEFINE end == s.pos + 1
  <2>1. /\ end \in Nat \ {0} /\ end - 1 = s.pos /\ s.from <= end /\ end <= Len(t) + 1
        /\ end = s.from + l
    <3> DEFINE x == s.pos
               y == s.from
               n == Len(t)
    <3>1. /\ x \in Nat \ {0} /\ y \in Int /\ n \in Int /\ l \in Int
          /\ y <= x /\ x <= n /\ x + 1 = y + l /\ end = x + 1
      BY <1>2, <1>4, <1>6
    <3>2. end \in Nat \ {0} /\ end - 1 = x /\ y <= end /\ end <= n + 1 /\ end = y + l
      <4> HIDE DEF x, y, n, l, end
      <4> QED BY <3>1
    <3> HIDE DEF end, s, t, l
    <3> QED BY <3>2
  <2>2. \A i \in s.from .. end - 1 : Accepts(Item(p), t[i])
    <3>1. \A i \in s.from .. end - 1 : i \in s.from .. s.pos - 1 \/ i = s.pos
      <4> HIDE DEF s, t
      <4> QED BY <1>2, <2>1
    <3>2. Accepts(Item(p), t[s.pos])
      BY <1>3, <1>6
    <3> HIDE DEF end, s, t
    <3> QED BY <1>2, <3>1, <3>2
  <2>3. StringEnd(p) = end
    <3>1. end <= s.from + l
      BY <1>2, <2>1
    <3> HIDE DEF end
    <3> QED BY <1>2, <2>1, <2>2, <3>1, StringEndIs
  <2>4. Append(s.buf, c) = SubSeq(t, s.from, s.pos)
    <3>1. /\ s.pos \in Nat /\ s.from \in Nat \ {0} /\ s.from <= s.pos /\ s.pos <= Len(t)
          /\ t \in Seq(Int)
      BY <1>2, <1>4, <1>6
    <3>2. Append(SubSeq(t, s.from, s.pos - 1), t[s.pos]) = SubSeq(t, s.from, s.pos)
      <4> HIDE DEF s, t
      <4> QED BY <3>1, SubSeqAppend
    <3> QED BY <1>2, <3>2, Zenon
  <2>5. Taken(p) = Append(s.buf, c)
    <3> HIDE DEF end
    <3> QED BY <2>1, <2>3, <2>4 DEF Taken
  <2>6. Append(s.buf, c) # <<>>
    <3>1. s.buf \in Seq(Int) /\ c \in Int
      BY <1>2, <1>6
    <3> HIDE DEF s, c
    <3> QED BY <3>1
  <2> QED BY <1>6, <2>3, <2>5, <2>6 DEF Ends, Stored1
<1> QED BY <1>1, <1>5, <1>6

\* Only _instr() leaves a string.
LEMMA StringEnds ==
  ASSUME Types, Next, NEW p \in Programs, pc[p] = "take", pc'[p] # "take"
  PROVE  _instr(p)
<1>1. PICK q \in Programs : Step(q)
  BY DEF Next
<1>2. q = p
  <2>1. CASE q # p
    <3>1. Own1(q)
      BY <1>1, StepTyped DEF OwnTyped
    <3>2. pc'[p] = pc[p]
      BY <2>1, <3>1, OthersKept
    <3> QED BY <3>2
  <2> QED BY <2>1
<1>3. ~(pc[p] \in {"text", "scan", "class", "sort", "enter", "start", "left", "right"})
  OBVIOUS
<1>4. ~sprintf(p) /\ ~qsort(p) /\ ~Enter(p) /\ ~Start(p) /\ ~Left(p) /\ ~Right(p)
  BY <1>3 DEF sprintf, qsort, Enter, Start, Left, Right
<1>5. ~EndOfFormat(p) /\ ~WhiteSpace(p) /\ ~Character(p) /\ ~ReadNumber(p) /\ ~ReadString(p)
  BY <1>3 DEF EndOfFormat, WhiteSpace, Character, ReadNumber, ReadString, InScan
<1>6. ~_getcclAll(p) /\ ~_getcclClass(p)
  BY <1>3 DEF _getcclAll, _getcclClass
<1> QED BY <1>1, <1>2, <1>4, <1>5, <1>6 DEF Step

\* ClassRight of Library: %s, %c and, when nobody else has written the table
\* meanwhile, %[ take what they accept and as much of it as there is, and store it
\* (doscan.c, lines 210-330).
THEOREM ClassRightHolds == Spec => ClassRight
<1> DEFINE Right1 ==
             \A p \in Programs :
               LET s == scan[p]
                   item == Item(p)
                   end == Min({Len(text[p]) + 1, s.from + Limit(item)}
                                \cup {i \in s.from .. Len(text[p]) : ~Accepts(item, text[p][i])})
                   taken == SubSeq(text[p], s.from, end - 1)
               IN  pc[p] = "take" /\ pc'[p] # "take" /\ (item.type = "[" => alone[p]) =>
                     /\ scan'[p].pos = end
                     /\ ~item.star =>
                          scan'[p].got = Append(s.got, IF taken = <<>> THEN <<>> ELSE <<taken>>)
<1>1. ASSUME Types, Scans, [Next]_vars PROVE [Right1]_vars
  <2>1. CASE UNCHANGED vars
    BY <2>1
  <2>2. CASE Next
    <3>1. SUFFICES ASSUME NEW p \in Programs, pc[p] = "take", pc'[p] # "take",
                          Item(p).type = "[" => alone[p]
                   PROVE  /\ scan'[p].pos = StringEnd(p)
                          /\ ~Item(p).star => scan'[p].got = Append(scan[p].got, Stored1(Taken(p)))
      BY DEF StringEnd, Stored1, Taken
    <3> HIDE DEF Right1
    <3>2. ScanKept(p) /\ _instr(p)
      BY <1>1, <2>2, <3>1, StringEnds DEF Scans
    <3> QED BY <1>1, <3>1, <3>2, StringTaken
  <2> QED BY <1>1, <2>1, <2>2
<1>2. Spec => [][Right1]_vars
  <2> HIDE DEF Right1
  <2> QED BY <1>1, TypesAlways, ScansAlways, PTL DEF Spec
<1>3. ClassRight <=> [][Right1]_vars
  BY DEF ClassRight
<1> HIDE DEF Right1
<1> QED BY <1>2, <1>3
-----------------------------------------------------------------------------
(* The sort.  q is the call, s what Library calls sort[p], label where it is. *)

IsSort(q) == q.data \in Seq(Int) /\ q.es \in Nat \ {0} /\ Len(q.data) % q.es = 0

\* The addresses of elements, those where a range may begin or end, and the bytes
\* around the array with it.
Multiples(n) == {n * k : k \in Int}
Place(q) == {x \in Multiples(q.es) : 0 <= x /\ x < Len(q.data)}
Bound(q) == {x \in Multiples(q.es) : 0 <= x /\ x <= Len(q.data)}
Around(q) == -GUARD .. Len(q.data) + GUARD - 1

Waiting(q) == [a : Bound(q), l : Bound(q), es : {q.es}]
SortLocals(q) ==
  [mem : [Around(q) -> Int], a : Bound(q), l : Bound(q), i : Int, j : Int, lp : Int, hp : Int,
   es : Int, stack : Seq(Waiting(q))]

\* The elements are those of before, each somewhere, and around them are zeros.
Rearranged(q, m) ==
  /\ \A x \in Around(q) \ (0 .. Len(q.data) - 1) : m[x] = 0
  /\ \E f \in Bijection(Place(q), Place(q)) :
       \A x \in Place(q) : \A k \in 0 .. q.es - 1 : m[x + k] = q.data[f[x] + k + 1]

\* The ranges that are still to be sorted: 0 the one at hand, then those of the calls.
Low(s, k)  == IF k = 0 THEN s.a ELSE s.stack[k].a
High(s, k) == IF k = 0 THEN s.l ELSE s.stack[k].l
Ranges(s) == 0 .. Len(s.stack)

Apart(s) ==
  /\ \A k \in Ranges(s) : Low(s, k) <= High(s, k)
  /\ \A k, m \in Ranges(s) : k < m => High(s, k) <= Low(s, m) \/ High(s, m) <= Low(s, k)

\* Two elements are in order, unless they are in the same range.
InOrder(q, s) ==
  \A x, y \in Place(q) :
    x < y => \/ s.mem[x] <= s.mem[y]
             \/ \E k \in Ranges(s) : Low(s, k) <= x /\ y < High(s, k)

\* A range is at most half of the one of the call before.
Halved(q, s) ==
  LET depth == Len(s.stack)
  IN  /\ \A k \in Ranges(s) :
           (High(s, k) - Low(s, k)) * Doublings[depth - k] <= Len(q.data)
      /\ depth # 0 => q.es * Doublings[depth] <= Len(q.data)

\* qs1() has the small elements below i, the large ones above j, and those that
\* equal v from lp to hp.
Parted(q, s, label, v) ==
  /\ {s.i, s.lp, s.hp, s.j} \subseteq Place(q)
  /\ s.a <= s.i /\ s.i <= s.lp /\ s.lp <= s.hp /\ s.hp <= s.j /\ s.j < s.l
  /\ \A x \in Place(q) :
       /\ s.a <= x /\ x < s.i => s.mem[x] < v
       /\ s.lp <= x /\ x <= s.hp => s.mem[x] = v
       /\ s.j < x /\ x < s.l => v < s.mem[x]
  /\ label = "right" => s.i = s.lp \/ v < s.mem[s.i]

\* The array is a rearrangement, the ranges to be sorted are apart and small enough,
\* and what is not in the same range is in order already.
SortInv(q, s, label) ==
  /\ label \in {"sort", "enter", "start", "left", "right", "done"}
  /\ s \in SortLocals(q)
  /\ Rearranged(q, s.mem) /\ Apart(s) /\ Halved(q, s)
  /\ label = "sort" => s.a = 0 /\ s.stack = <<>>
  /\ label # "sort" => InOrder(q, s)
  /\ label \in {"start", "left", "right"} => s.es = q.es
  /\ label \in {"left", "right"} => s.l - s.a > q.es /\ \E v \in Int : Parted(q, s, label, v)
  /\ label = "done" => s.stack = <<>> /\ s.l - s.a <= q.es

\* The invariant of a sort that has qses to itself.
SortKept(p) ==
  SortInv(job[p], sort[p], pc[p]) /\ (Sorting(p) => qses = job[p].es)

\* It is inductive.
Sorts == \A p \in Programs : job[p].kind = "sort" /\ alone[p] => SortKept(p)
-----------------------------------------------------------------------------
(* Addresses.                                                                *)

\* Multiples of n are n or more apart.
LEMMA MultiplesAre ==
  ASSUME NEW n \in Nat \ {0}
  PROVE  /\ Multiples(n) \subseteq Int
         /\ \A x \in Multiples(n) : x + n \in Multiples(n) /\ x - n \in Multiples(n)
         /\ \A x, y \in Multiples(n) : x < y => x + n <= y
<1>1. ASSUME NEW x \in Multiples(n)
      PROVE  x \in Int /\ x + n \in Multiples(n) /\ x - n \in Multiples(n)
  <2>1. PICK k \in Int : x = n * k
    BY DEF Multiples
  <2>2. n * k \in Int /\ n * (k + 1) = n * k + n /\ n * (k - 1) = n * k - n
    BY Times
  <2>3. k + 1 \in Int /\ k - 1 \in Int
    OBVIOUS
  <2> QED BY <2>1, <2>2, <2>3 DEF Multiples
<1>2. ASSUME NEW x \in Multiples(n), NEW y \in Multiples(n), x < y
      PROVE  x + n <= y
  <2>1. PICK k \in Int : x = n * k
    BY DEF Multiples
  <2>2. PICK m \in Int : y = n * m
    BY DEF Multiples
  <2>3. k + 1 \in Int /\ n * (k + 1) = n * k + n
    BY Times
  <2>4. k + 1 <= m
    <3>1. m <= k => y <= x
      BY <2>1, <2>2, Times
    <3>2. x \in Int /\ y \in Int
      BY <1>1
    <3> QED BY <1>2, <3>1, <3>2
  <2>5. n * (k + 1) <= n * m
    BY <2>3, <2>4, Times
  <2> QED BY <2>1, <2>2, <2>3, <2>5
<1> QED BY <1>1, <1>2

\* So are the elements, from 0 to the end of the array.
LEMMA Places ==
  ASSUME NEW q, IsSort(q)
  PROVE  /\ q.es \in Nat \ {0} /\ Len(q.data) \in Nat
         /\ Place(q) \subseteq Bound(q) /\ Bound(q) \subseteq 0 .. Len(q.data)
         /\ 0 \in Bound(q) /\ Len(q.data) \in Bound(q)
         /\ \A x \in Bound(q) : x < Len(q.data) => x \in Place(q)
         /\ \A x \in Place(q) : x + q.es \in Bound(q) /\ x < Len(q.data)
         /\ \A x \in Bound(q) : x > 0 => x - q.es \in Place(q)
         /\ \A x, y \in Bound(q) : x < y => x + q.es <= y
<1> DEFINE n == q.es
           N == Len(q.data)
<1>1. n \in Nat \ {0} /\ N \in Nat /\ N % n = 0
  BY DEF IsSort
<1>2. /\ \A x \in Multiples(n) : x \in Int /\ x + n \in Multiples(n) /\ x - n \in Multiples(n)
      /\ \A x, y \in Multiples(n) : x < y => x + n <= y
  <2> HIDE DEF n
  <2> QED BY <1>1, MultiplesAre
<1>3. N \in Multiples(n) /\ 0 \in Multiples(n)
  <2>1. PICK k \in Nat : N = n * k
    <3> HIDE DEF n, N
    <3> QED BY <1>1, MultipleOf
  <2>2. n * 0 = 0
    <3> HIDE DEF n
    <3> QED BY <1>1
  <2> QED BY <2>1, <2>2 DEF Multiples
<1> DEFINE M == Multiples(n)
           P == Place(q)
           B == Bound(q)
<1>4. /\ \A x : x \in P <=> x \in M /\ 0 <= x /\ x < N
      /\ \A x : x \in B <=> x \in M /\ 0 <= x /\ x <= N
      /\ 0 \in M /\ N \in M
      /\ \A x \in M : x \in Int /\ x + n \in M /\ x - n \in M
      /\ \A x, y \in M : x < y => x + n <= y
  <2>1. \A x : x \in P <=> x \in M /\ 0 <= x /\ x < N
    BY DEF Place
  <2>2. \A x : x \in B <=> x \in M /\ 0 <= x /\ x <= N
    BY DEF Bound
  <2> QED BY <1>2, <1>3, <2>1, <2>2
<1>5. /\ P \subseteq B /\ B \subseteq 0 .. N /\ 0 \in B /\ N \in B
      /\ \A x \in B : x < N => x \in P
      /\ \A x \in P : x + n \in B /\ x < N
      /\ \A x \in B : x > 0 => x - n \in P
      /\ \A x, y \in B : x < y => x + n <= y
  <2> HIDE DEF n, N, M, P, B
  <2>1. /\ P \subseteq B /\ B \subseteq 0 .. N /\ 0 \in B /\ N \in B
        /\ \A x \in B : x < N => x \in P
    <3>1. ASSUME NEW x \in P PROVE x \in B
      <4>1. x \in M /\ 0 <= x /\ x < N
        BY <1>4
      <4>2. x \in Int /\ x <= N
        BY <1>1, <1>4, <4>1
      <4> QED BY <1>4, <4>1, <4>2
    <3>2. ASSUME NEW x \in B PROVE x \in 0 .. N /\ (x < N => x \in P)
      <4>1. x \in M /\ 0 <= x /\ x <= N
        BY <1>4
      <4>2. x \in Int
        BY <1>4, <4>1
      <4> QED BY <1>1, <1>4, <4>1, <4>2
    <3>3. 0 \in B /\ N \in B
      BY <1>1, <1>4
    <3> QED BY <3>1, <3>2, <3>3
  <2>2. ASSUME NEW x \in P PROVE x + n \in B /\ x < N
    <3>1. x \in M /\ 0 <= x /\ x < N /\ N \in M
      BY <1>4
    <3>2. x \in Int /\ x + n \in M /\ x + n <= N
      BY <1>4, <3>1
    <3>3. 0 <= x + n
      BY <1>1, <3>1, <3>2
    <3> QED BY <1>4, <3>1, <3>2, <3>3
  <2>3. ASSUME NEW x \in B, x > 0 PROVE x - n \in P
    <3>1. x \in M /\ x <= N /\ 0 \in M /\ 0 < x /\ x \in Int
      BY <1>4, <2>3
    <3>2. x - n \in M /\ 0 + n <= x
      BY <1>4, <3>1
    <3>3. 0 <= x - n /\ x - n < N
      BY <1>1, <3>1, <3>2
    <3> QED BY <1>4, <3>2, <3>3
  <2>4. ASSUME NEW x \in B, NEW y \in B, x < y PROVE x + n <= y
    <3>1. x \in M /\ y \in M
      BY <1>4
    <3> QED BY <1>4, <2>4, <3>1
  <2> QED BY <2>1, <2>2, <2>3, <2>4
<1> HIDE DEF M
<1> QED BY <1>1, <1>5

\* The bytes of elements are in the array, and each is of one of them only.
LEMMA BytesOf ==
  ASSUME NEW q, IsSort(q)
  PROVE  /\ \A x \in Place(q) : \A k \in 0 .. q.es - 1 :
              x + k \in 0 .. Len(q.data) - 1 /\ x + k \in Around(q)
         /\ \A x, y \in Place(q) : \A k, m \in 0 .. q.es - 1 : x + k = y + m => x = y /\ k = m
<1> DEFINE n == q.es
           N == Len(q.data)
           P == Place(q)
           B == Bound(q)
<1>1. /\ n \in Nat \ {0} /\ N \in Nat /\ B \subseteq 0 .. N /\ P \subseteq B
      /\ \A x \in P : x + n \in B /\ x < N
      /\ \A x, y \in B : x < y => x + n <= y
  BY Places
<1>2. Around(q) = -2 .. N + 2 - 1
  BY DEF Around, GUARD
<1> HIDE DEF n, N, P, B
<1>3. ASSUME NEW x \in P, NEW k \in 0 .. n - 1
      PROVE  x + k \in 0 .. N - 1 /\ x + k \in -2 .. N + 2 - 1
  <2>1. x \in Int /\ 0 <= x /\ x + n <= N /\ k \in Int
    BY <1>1
  <2> QED BY <1>1, <2>1
<1>4. ASSUME NEW x \in P, NEW y \in P, NEW k \in 0 .. n - 1, NEW m \in 0 .. n - 1, x + k = y + m
      PROVE  x = y /\ k = m
  <2>1. x \in B /\ y \in B /\ x \in Int /\ y \in Int
    BY <1>1
  <2>2. (x < y => x + n <= y) /\ (y < x => y + n <= x)
    BY <1>1, <2>1, SMTT(30)
  <2> QED BY <1>1, <1>4, <2>1, <2>2
<1> QED BY <1>2, <1>3, <1>4 DEF n, N, P

\* One byte of qsexc().
Exchange(m, i, j, k) == [m EXCEPT ![i + k] = m[j + k], ![j + k] = m[i + k]]

\* qsexc() byte by byte.
LEMMA QsexcWalk ==
  ASSUME NEW q, IsSort(q), NEW m \in [Around(q) -> Int], NEW x \in Place(q), NEW y \in Place(q)
  PROVE  \E h : /\ h[0] = m /\ h[q.es] = qsexc(m, x, y, q.es)
                /\ \A i \in 1 .. q.es : h[i] = Exchange(h[i - 1], x, y, i - 1)
<1> DEFINE n == q.es
           V == [Around(q) -> Int]
           s == [k \in 1 .. n |-> k - 1]
           G == [v \in V \X (1 .. n) |-> Exchange(v[1], x, y, s[v[2]])]
           Iter(f) == f = [S \in SUBSET (1 .. n) |->
                             IF S = {} THEN m
                             ELSE [f[S \ {Max(S)}] EXCEPT
                                     ![x + s[Max(S)]] = f[S \ {Max(S)}][y + s[Max(S)]],
                                     ![y + s[Max(S)]] = f[S \ {Max(S)}][x + s[Max(S)]]]]
<1>1. n \in Nat /\ DOMAIN s = 1 .. n /\ Len(s) = n /\ m \in V /\ s \in Seq(Int)
  <2>1. n \in Nat
    BY DEF IsSort
  <2> HIDE DEF n
  <2> QED BY <2>1
<1>2. G \in [V \X (1 .. n) -> V]
  <2>1. ASSUME NEW v \in V, NEW i \in 1 .. n PROVE Exchange(v, x, y, s[i]) \in V
    <3>1. s[i] \in 0 .. n - 1
      BY <1>1
    <3>2. x + s[i] \in Around(q) /\ y + s[i] \in Around(q)
      <4> HIDE DEF s
      <4> QED BY <3>1, BytesOf
    <3> DEFINE a == x + s[i]
               b == y + s[i]
    <3>3. [v EXCEPT ![a] = v[b], ![b] = v[a]] \in V
      <4> HIDE DEF a, b
      <4> QED BY <3>2 DEF a, b
    <3> QED BY <3>3 DEF Exchange
  <2> HIDE DEF V, s
  <2> QED BY <2>1
<1>3. PICK f \in [SUBSET (1 .. n) -> V] : FoldsTo(f, n, m, G)
  <2> HIDE DEF G, Iter, V, n
  <2> QED BY <1>1, <1>2, FoldExists
<1>4. ASSUME NEW S \in SUBSET (1 .. n), S # {}
      PROVE  /\ Max(S) \in 1 .. n /\ f[S \ {Max(S)}] \in V
             /\ G[<<f[S \ {Max(S)}], Max(S)>>] = Exchange(f[S \ {Max(S)}], x, y, s[Max(S)])
  <2>1. S \in SUBSET (0 .. n) /\ S \ {Max(S)} \in SUBSET (1 .. n)
    <3> HIDE DEF G, Iter, s
    <3>1. S \in SUBSET (0 .. n)
      BY <1>1
    <3>2. S \ {Max(S)} \in SUBSET (1 .. n)
      OBVIOUS
    <3> QED BY <3>1, <3>2
  <2>2. Max(S) \in 1 .. n
    BY <1>1, <1>4, <2>1, MaxOf
  <2>3. f[S \ {Max(S)}] \in V
    <3> HIDE DEF V
    <3> QED BY <2>1
  <2> HIDE DEF V, s
  <2> QED BY <2>2, <2>3
<1>5. Iter(f)
  <2>1. ASSUME NEW S \in SUBSET (1 .. n)
        PROVE  f[S] = IF S = {} THEN m ELSE Exchange(f[S \ {Max(S)}], x, y, s[Max(S)])
    <3> HIDE DEF G, s, V
    <3> QED BY <1>3, <1>4 DEF FoldsTo
  <2> HIDE DEF G, s, V, n
  <2> QED BY <2>1 DEF Exchange
<1>6. qsexc(m, x, y, q.es) = (CHOOSE f_1 : Iter(f_1))[1 .. n]
  BY <1>1 DEF qsexc, FoldLeft, MapThenFoldSet
<1>7. PICK g : Iter(g) /\ qsexc(m, x, y, q.es) = g[1 .. n]
  <2> HIDE DEF Iter
  <2> QED BY <1>5, <1>6
<1>8. g[1 .. 0] = m
  <2>1. 1 .. 0 = {}
    OBVIOUS
  <2> QED BY <1>7, <2>1
<1>9. ASSUME NEW i \in 1 .. n PROVE g[1 .. i] = Exchange(g[1 .. i - 1], x, y, i - 1)
  <2>1. /\ 1 .. i \in SUBSET (1 .. n) /\ 1 .. i # {}
        /\ Max(1 .. i) = i /\ (1 .. i) \ {Max(1 .. i)} = 1 .. i - 1
    BY <1>1, MaxUpTo
  <2>2. s[i] = i - 1
    BY <1>1
  <2>3. g[1 .. i] = Exchange(g[(1 .. i) \ {Max(1 .. i)}], x, y, s[Max(1 .. i)])
    <3> HIDE DEF s
    <3> QED BY <1>7, <2>1 DEF Exchange
  <2> HIDE DEF s
  <2> QED BY <2>1, <2>2, <2>3
<1> DEFINE h == [i \in 0 .. n |-> g[1 .. i]]
<1>10. /\ h[0] = m /\ h[n] = g[1 .. n]
       /\ \A i \in 1 .. n : h[i] = Exchange(h[i - 1], x, y, i - 1)
  <2>1. 0 \in 0 .. n /\ n \in 0 .. n /\ \A i \in 1 .. n : i \in 0 .. n /\ i - 1 \in 0 .. n
    BY <1>1
  <2>2. \A i \in 0 .. n : h[i] = g[1 .. i]
    OBVIOUS
  <2> HIDE DEF h, Iter, s, n
  <2> QED BY <1>8, <1>9, <2>1, <2>2
<1> HIDE DEF h
<1> QED BY <1>7, <1>10

\* m2 is m with the elements moved: f says where each was.
Moved(q, m, m2, f) ==
  /\ m2 \in [Around(q) -> Int]
  /\ \A z \in Around(q) \ (0 .. Len(q.data) - 1) : m2[z] = m[z]
  /\ \A w \in Place(q) : \A k \in 0 .. q.es - 1 : m2[w + k] = m[f[w] + k]

Swap(q, x, y) == [w \in Place(q) |-> IF w = x THEN y ELSE IF w = y THEN x ELSE w]

\* The first n bytes of the elements at x and y are exchanged in m2.
Exchanged(q, m, m2, x, y, n) ==
  /\ m2 \in [Around(q) -> Int]
  /\ \A k \in 0 .. n - 1 : m2[x + k] = m[y + k] /\ m2[y + k] = m[x + k]
  /\ \A z \in Around(q) : (\A k \in 0 .. n - 1 : z # x + k /\ z # y + k) => m2[z] = m[z]

\* One byte more.
LEMMA ExchangedStep ==
  ASSUME NEW q, IsSort(q), NEW m \in [Around(q) -> Int], NEW x \in Place(q), NEW y \in Place(q),
         NEW i \in 1 .. q.es, NEW m2, Exchanged(q, m, m2, x, y, i - 1)
  PROVE  Exchanged(q, m, Exchange(m2, x, y, i - 1), x, y, i)
<1> DEFINE n == q.es
           A == Around(q)
           j == i - 1
           a == x + j
           b == y + j
           m3 == Exchange(m2, x, y, i - 1)
<1>1. n \in Nat \ {0} /\ i \in Int /\ 1 <= i /\ i <= n /\ j \in 0 .. n - 1 /\ i - 1 = j
  <2>1. n \in Nat \ {0} /\ i \in 1 .. n
    BY DEF IsSort
  <2> HIDE DEF n
  <2> QED BY <2>1
<1>2. /\ \A k \in 0 .. n - 1 : x + k \in A /\ y + k \in A
      /\ \A k, l \in 0 .. n - 1 :
           /\ x + k = x + l => k = l
           /\ y + k = y + l => k = l
           /\ x + k = y + l => x = y /\ k = l
  BY BytesOf
<1>3. m2 \in [A -> Int] /\ m \in [A -> Int]
  BY DEF Exchanged
<1>4. m3 = [m2 EXCEPT ![a] = m2[b], ![b] = m2[a]]
  BY DEF Exchange
<1>5. /\ \A k \in 0 .. j - 1 : m2[x + k] = m[y + k] /\ m2[y + k] = m[x + k]
      /\ \A z \in A : (\A k \in 0 .. j - 1 : z # x + k /\ z # y + k) => m2[z] = m[z]
  BY DEF Exchanged
<1>6. /\ \A k \in 0 .. j - 1 : k \in 0 .. n - 1 /\ k # j
      /\ \A k \in 0 .. i - 1 : k = j \/ k \in 0 .. j - 1
      /\ \A k \in 0 .. j - 1 : k \in 0 .. i - 1
      /\ j \in 0 .. i - 1
  <2> HIDE DEF n
  <2> QED BY <1>1
<1>7. a \in A /\ b \in A /\ (a = b => x = y)
  <2> HIDE DEF n, A, j
  <2> QED BY <1>1, <1>2
<1>8. \A k \in 0 .. j - 1 : /\ x + k \in A /\ y + k \in A
                            /\ a # x + k /\ a # y + k /\ b # x + k /\ b # y + k
  <2> SUFFICES ASSUME NEW k \in 0 .. j - 1
               PROVE  /\ x + k \in A /\ y + k \in A
                      /\ a # x + k /\ a # y + k /\ b # x + k /\ b # y + k
    OBVIOUS
  <2>1. k \in 0 .. n - 1 /\ k # j /\ j \in 0 .. n - 1
    BY <1>1, <1>6
  <2> HIDE DEF n, A, j
  <2> QED BY <1>2, <2>1 DEF a, b
<1>9. m2[a] = m[a] /\ m2[b] = m[b]
  <2> HIDE DEF a, b, j, A
  <2> QED BY <1>5, <1>7, <1>8
<1>10. /\ m3 \in [A -> Int] /\ m3[a] = m[b] /\ m3[b] = m[a]
       /\ \A z \in A : z # a /\ z # b => m3[z] = m2[z]
  <2> HIDE DEF a, b, j, A, m3
  <2> QED BY <1>3, <1>4, <1>7, <1>9
<1>11. ASSUME NEW k \in 0 .. i - 1 PROVE m3[x + k] = m[y + k] /\ m3[y + k] = m[x + k]
  <2>1. CASE k = j
    <3>1. x + k = a /\ y + k = b
      BY <2>1
    <3> HIDE DEF m3, a, b
    <3> QED BY <1>10, <3>1
  <2>2. CASE k \in 0 .. j - 1
    <3> HIDE DEF a, b, j, A, m3
    <3> QED BY <1>5, <1>8, <1>10, <2>2
  <2> QED BY <1>6, <2>1, <2>2
<1>12. ASSUME NEW z \in A, \A k \in 0 .. i - 1 : z # x + k /\ z # y + k PROVE m3[z] = m[z]
  <2>1. z # a /\ z # b
    BY <1>6, <1>12
  <2>2. \A k \in 0 .. j - 1 : z # x + k /\ z # y + k
    <3> HIDE DEF j
    <3> QED BY <1>6, <1>12
  <2> HIDE DEF a, b, j, A, m3
  <2> QED BY <1>5, <1>10, <2>1, <2>2
<1> HIDE DEF a, b, j, m3
<1> QED BY <1>10, <1>11, <1>12 DEF Exchanged, m3

\* qsexc() exchanges two elements.
LEMMA QsexcIs ==
  ASSUME NEW q, IsSort(q), NEW m \in [Around(q) -> Int], NEW x \in Place(q), NEW y \in Place(q)
  PROVE  Moved(q, m, qsexc(m, x, y, q.es), Swap(q, x, y))
<1> DEFINE n == q.es
           m2 == qsexc(m, x, y, n)
<1>1. n \in Nat \ {0}
  BY DEF IsSort
<1>2. PICK h : /\ h[0] = m /\ h[n] = m2
               /\ \A i \in 1 .. n : h[i] = Exchange(h[i - 1], x, y, i - 1)
  BY QsexcWalk
<1> DEFINE U == {i \in 0 .. n : Exchanged(q, m, h[i], x, y, i)}
<1>3. 0 \in U
  <2>1. Exchanged(q, m, m, x, y, 0)
    BY DEF Exchanged
  <2>2. 0 \in 0 .. n
    BY <1>1
  <2> HIDE DEF n
  <2> QED BY <1>2, <2>1, <2>2
<1>4. ASSUME NEW i \in 1 .. n, i - 1 \in U PROVE i \in U
  <2>1. Exchanged(q, m, h[i - 1], x, y, i - 1)
    BY <1>4
  <2>2. Exchanged(q, m, Exchange(h[i - 1], x, y, i - 1), x, y, i)
    BY <2>1, ExchangedStep
  <2>3. i \in 0 .. n
    <3> HIDE DEF n
    <3> QED BY <1>1
  <2>4. h[i] = Exchange(h[i - 1], x, y, i - 1)
    BY <1>2
  <2> QED BY <2>2, <2>3, <2>4
<1>5. n \in U
  <2>1. 0 .. n \subseteq U
    <3> HIDE DEF n, U
    <3> QED BY <1>1, <1>3, <1>4, Counting
  <2>2. n \in 0 .. n
    <3> HIDE DEF n, U
    <3> QED BY <1>1
  <2> HIDE DEF n, U
  <2> QED BY <2>1, <2>2
<1>6. Exchanged(q, m, m2, x, y, n)
  <2>1. Exchanged(q, m, h[n], x, y, n)
    BY <1>5
  <2> HIDE DEF m2, n
  <2> QED BY <1>2, <2>1
<1> HIDE DEF m2
<1>7. /\ \A w \in Place(q) : \A k \in 0 .. n - 1 : w + k \in 0 .. Len(q.data) - 1 /\ w + k \in Around(q)
      /\ \A w, v \in Place(q) : \A k, l \in 0 .. n - 1 : w + k = v + l => w = v /\ k = l
  BY BytesOf
<1>8. ASSUME NEW z \in Around(q) \ (0 .. Len(q.data) - 1) PROVE m2[z] = m[z]
  <2>1. \A k \in 0 .. n - 1 : z # x + k /\ z # y + k
    BY <1>7
  <2> QED BY <1>6, <2>1 DEF Exchanged
<1>9. ASSUME NEW w \in Place(q), NEW k \in 0 .. n - 1 PROVE m2[w + k] = m[Swap(q, x, y)[w] + k]
  <2>1. CASE w = x
    BY <1>6, <2>1 DEF Exchanged, Swap
  <2>2. CASE w = y /\ w # x
    BY <1>6, <2>2 DEF Exchanged, Swap
  <2>3. CASE w # x /\ w # y
    <3>1. \A l \in 0 .. n - 1 : w + k # x + l /\ w + k # y + l
      BY <1>7, <2>3
    <3>2. w + k \in Around(q)
      BY <1>7
    <3>3. m2[w + k] = m[w + k]
      <4> HIDE DEF n
      <4> QED BY <1>6, <3>1, <3>2 DEF Exchanged
    <3> QED BY <2>3, <3>3 DEF Swap
  <2> QED BY <2>1, <2>2, <2>3
<1>10. m2 \in [Around(q) -> Int]
  BY <1>6 DEF Exchanged
<1> QED BY <1>8, <1>9, <1>10 DEF Moved, m2

\* One byte of qstexc().
Rotate(m, i, j, k, x) ==
  LET c == m[i + x]
      m1 == [m EXCEPT ![i + x] = m[k + x]]
      m2 == [m1 EXCEPT ![k + x] = m1[j + x]]
  IN  [m2 EXCEPT ![j + x] = c]

\* qstexc() byte by byte.
LEMMA QstexcWalk ==
  ASSUME NEW q, IsSort(q), NEW m \in [Around(q) -> Int],
         NEW x \in Place(q), NEW y \in Place(q), NEW z \in Place(q)
  PROVE  \E h : /\ h[0] = m /\ h[q.es] = qstexc(m, x, y, z, q.es)
                /\ \A i \in 1 .. q.es : h[i] = Rotate(h[i - 1], x, y, z, i - 1)
<1> DEFINE n == q.es
           V == [Around(q) -> Int]
           s == [k \in 1 .. n |-> k - 1]
           G == [v \in V \X (1 .. n) |-> Rotate(v[1], x, y, z, s[v[2]])]
           Iter(f) == f = [S \in SUBSET (1 .. n) |->
                             IF S = {} THEN m
                             ELSE Rotate(f[S \ {Max(S)}], x, y, z, s[Max(S)])]
<1>1. n \in Nat /\ DOMAIN s = 1 .. n /\ Len(s) = n /\ m \in V /\ s \in Seq(Int)
  <2>1. n \in Nat
    BY DEF IsSort
  <2> HIDE DEF n
  <2> QED BY <2>1
<1>2. G \in [V \X (1 .. n) -> V]
  <2>1. ASSUME NEW v \in V, NEW i \in 1 .. n PROVE Rotate(v, x, y, z, s[i]) \in V
    <3>1. s[i] \in 0 .. n - 1
      BY <1>1
    <3>2. x + s[i] \in Around(q) /\ y + s[i] \in Around(q) /\ z + s[i] \in Around(q)
      <4> HIDE DEF s
      <4> QED BY <3>1, BytesOf
    <3> DEFINE a == x + s[i]
               b == y + s[i]
               c == z + s[i]
               m1 == [v EXCEPT ![a] = v[c]]
               m2 == [m1 EXCEPT ![c] = m1[b]]
    <3>3. m1 \in V
      <4> HIDE DEF a, b, c
      <4> QED BY <3>2 DEF a, b, c
    <3>4. m2 \in V
      <4> HIDE DEF a, b, c, m1
      <4> QED BY <3>2, <3>3 DEF a, b, c
    <3>5. [m2 EXCEPT ![b] = v[a]] \in V
      <4> HIDE DEF a, b, c, m2
      <4> QED BY <3>2, <3>4 DEF a, b, c
    <3> QED BY <3>5 DEF Rotate
  <2> HIDE DEF V, s
  <2> QED BY <2>1
<1>3. PICK f \in [SUBSET (1 .. n) -> V] : FoldsTo(f, n, m, G)
  <2> HIDE DEF G, Iter, V, n
  <2> QED BY <1>1, <1>2, FoldExists
<1>4. ASSUME NEW S \in SUBSET (1 .. n), S # {}
      PROVE  /\ Max(S) \in 1 .. n /\ f[S \ {Max(S)}] \in V
             /\ G[<<f[S \ {Max(S)}], Max(S)>>] = Rotate(f[S \ {Max(S)}], x, y, z, s[Max(S)])
  <2>1. S \in SUBSET (0 .. n) /\ S \ {Max(S)} \in SUBSET (1 .. n)
    <3> HIDE DEF G, Iter, s
    <3>1. S \in SUBSET (0 .. n)
      BY <1>1
    <3>2. S \ {Max(S)} \in SUBSET (1 .. n)
      OBVIOUS
    <3> QED BY <3>1, <3>2
  <2>2. Max(S) \in 1 .. n
    BY <1>1, <1>4, <2>1, MaxOf
  <2>3. f[S \ {Max(S)}] \in V
    <3> HIDE DEF V
    <3> QED BY <2>1
  <2> HIDE DEF V, s
  <2> QED BY <2>2, <2>3
<1>5. Iter(f)
  <2>1. ASSUME NEW S \in SUBSET (1 .. n)
        PROVE  f[S] = IF S = {} THEN m ELSE Rotate(f[S \ {Max(S)}], x, y, z, s[Max(S)])
    <3> HIDE DEF G, s, V
    <3> QED BY <1>3, <1>4 DEF FoldsTo
  <2> HIDE DEF G, s, V, n
  <2> QED BY <2>1 DEF Exchange
<1>6. qstexc(m, x, y, z, q.es) = (CHOOSE f_1 : Iter(f_1))[1 .. n]
  BY <1>1 DEF qstexc, Rotate, FoldLeft, MapThenFoldSet
<1>7. PICK g : Iter(g) /\ qstexc(m, x, y, z, q.es) = g[1 .. n]
  <2> HIDE DEF Iter
  <2> QED BY <1>5, <1>6
<1>8. g[1 .. 0] = m
  <2>1. 1 .. 0 = {}
    OBVIOUS
  <2> QED BY <1>7, <2>1
<1>9. ASSUME NEW i \in 1 .. n PROVE g[1 .. i] = Rotate(g[1 .. i - 1], x, y, z, i - 1)
  <2>1. /\ 1 .. i \in SUBSET (1 .. n) /\ 1 .. i # {}
        /\ Max(1 .. i) = i /\ (1 .. i) \ {Max(1 .. i)} = 1 .. i - 1
    BY <1>1, MaxUpTo
  <2>2. s[i] = i - 1
    BY <1>1
  <2>3. g[1 .. i] = Rotate(g[(1 .. i) \ {Max(1 .. i)}], x, y, z, s[Max(1 .. i)])
    <3> HIDE DEF s
    <3> QED BY <1>7, <2>1 DEF Exchange
  <2> HIDE DEF s
  <2> QED BY <2>1, <2>2, <2>3
<1> DEFINE h == [i \in 0 .. n |-> g[1 .. i]]
<1>10. /\ h[0] = m /\ h[n] = g[1 .. n]
       /\ \A i \in 1 .. n : h[i] = Rotate(h[i - 1], x, y, z, i - 1)
  <2>1. 0 \in 0 .. n /\ n \in 0 .. n /\ \A i \in 1 .. n : i \in 0 .. n /\ i - 1 \in 0 .. n
    BY <1>1
  <2>2. \A i \in 0 .. n : h[i] = g[1 .. i]
    OBVIOUS
  <2> HIDE DEF h, Iter, s, n
  <2> QED BY <1>8, <1>9, <2>1, <2>2
<1> HIDE DEF h
<1> QED BY <1>7, <1>10

Turn(q, x, y, z) ==
  [w \in Place(q) |-> IF w = x THEN z ELSE IF w = y THEN x ELSE IF w = z THEN y ELSE w]

\* The first n bytes of the elements at x, y and z are rotated in m2.
Rotated(q, m, m2, x, y, z, n) ==
  /\ m2 \in [Around(q) -> Int]
  /\ \A k \in 0 .. n - 1 :
       m2[x + k] = m[z + k] /\ m2[y + k] = m[x + k] /\ (y # z => m2[z + k] = m[y + k])
  /\ \A u \in Around(q) :
       (\A k \in 0 .. n - 1 : u # x + k /\ u # y + k /\ u # z + k) => m2[u] = m[u]

\* One byte more.
LEMMA RotatedStep ==
  ASSUME NEW q, IsSort(q), NEW m \in [Around(q) -> Int],
         NEW x \in Place(q), NEW y \in Place(q), NEW z \in Place(q), x # y, x # z,
         NEW i \in 1 .. q.es, NEW m2, Rotated(q, m, m2, x, y, z, i - 1)
  PROVE  Rotated(q, m, Rotate(m2, x, y, z, i - 1), x, y, z, i)
<1> DEFINE n == q.es
           A == Around(q)
           j == i - 1
           a == x + j
           b == y + j
           c == z + j
           m3 == Rotate(m2, x, y, z, i - 1)
<1>1. n \in Nat \ {0} /\ i \in Int /\ 1 <= i /\ i <= n /\ j \in 0 .. n - 1 /\ i - 1 = j
  <2>1. n \in Nat \ {0} /\ i \in 1 .. n
    BY DEF IsSort
  <2> HIDE DEF n
  <2> QED BY <2>1
<1>2. /\ \A k \in 0 .. n - 1 : x + k \in A /\ y + k \in A /\ z + k \in A
      /\ \A k, l \in 0 .. n - 1 :
           /\ x + k = x + l => k = l
           /\ y + k = y + l => k = l
           /\ z + k = z + l => k = l
           /\ x + k # y + l
           /\ x + k # z + l
           /\ y + k = z + l => y = z /\ k = l
  BY BytesOf, SMTT(30)
<1>3. m2 \in [A -> Int] /\ m \in [A -> Int]
  BY DEF Rotated
<1>4. m3 = [[[m2 EXCEPT ![a] = m2[c]] EXCEPT ![c] = [m2 EXCEPT ![a] = m2[c]][b]] EXCEPT ![b] = m2[a]]
  BY DEF Rotate
<1>5. /\ \A k \in 0 .. j - 1 :
           m2[x + k] = m[z + k] /\ m2[y + k] = m[x + k] /\ (y # z => m2[z + k] = m[y + k])
      /\ \A u \in A :
           (\A k \in 0 .. j - 1 : u # x + k /\ u # y + k /\ u # z + k) => m2[u] = m[u]
  BY DEF Rotated
<1>6. /\ \A k \in 0 .. j - 1 : k \in 0 .. n - 1 /\ k # j
      /\ \A k \in 0 .. i - 1 : k = j \/ k \in 0 .. j - 1
      /\ \A k \in 0 .. j - 1 : k \in 0 .. i - 1
      /\ j \in 0 .. i - 1
  <2> HIDE DEF n
  <2> QED BY <1>1
<1>7. a \in A /\ b \in A /\ c \in A /\ a # b /\ a # c /\ (y # z => b # c) /\ (y = z => b = c)
  <2> HIDE DEF n, A, j
  <2> QED BY <1>1, <1>2
<1>8. \A k \in 0 .. j - 1 : /\ x + k \in A /\ y + k \in A /\ z + k \in A
                            /\ x + k \notin {a, b, c} /\ y + k \notin {a, b, c} /\ z + k \notin {a, b, c}
  <2> SUFFICES ASSUME NEW k \in 0 .. j - 1
               PROVE  /\ x + k \in A /\ y + k \in A /\ z + k \in A
                      /\ x + k \notin {a, b, c} /\ y + k \notin {a, b, c} /\ z + k \notin {a, b, c}
    OBVIOUS
  <2>1. k \in 0 .. n - 1 /\ k # j /\ j \in 0 .. n - 1
    BY <1>1, <1>6
  <2> HIDE DEF n, A, j
  <2> QED BY <1>2, <2>1 DEF a, b, c
<1>9. m2[a] = m[a] /\ m2[b] = m[b] /\ m2[c] = m[c]
  <2>1. \A k \in 0 .. j - 1 : /\ a # x + k /\ a # y + k /\ a # z + k
                              /\ b # x + k /\ b # y + k /\ b # z + k
                              /\ c # x + k /\ c # y + k /\ c # z + k
    <3> HIDE DEF a, b, c, j
    <3> QED BY <1>8
  <2> HIDE DEF a, b, c, j, A
  <2> QED BY <1>5, <1>7, <2>1
<1>10. /\ m3 \in [A -> Int] /\ m3[a] = m[c] /\ m3[b] = m[a] /\ (y # z => m3[c] = m[b])
       /\ \A u \in A : u # a /\ u # b /\ u # c => m3[u] = m2[u]
  <2> DEFINE k1 == [m2 EXCEPT ![a] = m2[c]]
             k2 == [k1 EXCEPT ![c] = k1[b]]
  <2>1. k1 \in [A -> Int] /\ k1[a] = m[c] /\ k1[b] = m[b] /\ \A u \in A : u # a => k1[u] = m2[u]
    <3> HIDE DEF a, b, c, j, A, m3
    <3> QED BY <1>3, <1>7, <1>9
  <2>2. k2 \in [A -> Int] /\ k2[a] = m[c] /\ k2[c] = m[b] /\ \A u \in A : u # c => k2[u] = k1[u]
    <3> HIDE DEF a, b, c, j, A, m3, k1
    <3> QED BY <1>7, <2>1
  <2>3. m3 = [k2 EXCEPT ![b] = m2[a]]
    <3> HIDE DEF a, b, c, j, A, m3
    <3> QED BY <1>4
  <2> HIDE DEF a, b, c, j, A, m3, k1, k2
  <2> QED BY <1>3, <1>7, <1>9, <2>1, <2>2, <2>3
<1>11. ASSUME NEW k \in 0 .. i - 1
       PROVE  m3[x + k] = m[z + k] /\ m3[y + k] = m[x + k] /\ (y # z => m3[z + k] = m[y + k])
  <2>1. CASE k = j
    <3>1. x + k = a /\ y + k = b /\ z + k = c
      BY <2>1
    <3> HIDE DEF m3, a, b, c
    <3> QED BY <1>10, <3>1
  <2>2. CASE k \in 0 .. j - 1
    <3> HIDE DEF a, b, c, j, A, m3
    <3> QED BY <1>5, <1>8, <1>10, <2>2
  <2> QED BY <1>6, <2>1, <2>2
<1>12. ASSUME NEW u \in A, \A k \in 0 .. i - 1 : u # x + k /\ u # y + k /\ u # z + k
       PROVE  m3[u] = m[u]
  <2>1. u # a /\ u # b /\ u # c
    BY <1>6, <1>12
  <2>2. \A k \in 0 .. j - 1 : u # x + k /\ u # y + k /\ u # z + k
    <3> HIDE DEF j
    <3> QED BY <1>6, <1>12
  <2> HIDE DEF a, b, c, j, A, m3
  <2> QED BY <1>5, <1>10, <2>1, <2>2
<1> HIDE DEF a, b, c, j, m3
<1> QED BY <1>10, <1>11, <1>12 DEF Rotated, m3

\* qstexc() rotates three elements, or exchanges two.
LEMMA QstexcIs ==
  ASSUME NEW q, IsSort(q), NEW m \in [Around(q) -> Int],
         NEW x \in Place(q), NEW y \in Place(q), NEW z \in Place(q), x # y, x # z
  PROVE  Moved(q, m, qstexc(m, x, y, z, q.es), Turn(q, x, y, z))
<1> DEFINE n == q.es
           m2 == qstexc(m, x, y, z, n)
<1>1. n \in Nat \ {0}
  BY DEF IsSort
<1>2. PICK h : /\ h[0] = m /\ h[n] = m2
               /\ \A i \in 1 .. n : h[i] = Rotate(h[i - 1], x, y, z, i - 1)
  BY QstexcWalk
<1> DEFINE U == {i \in 0 .. n : Rotated(q, m, h[i], x, y, z, i)}
<1>3. 0 \in U
  <2>1. Rotated(q, m, m, x, y, z, 0)
    BY DEF Rotated
  <2>2. 0 \in 0 .. n
    BY <1>1
  <2> HIDE DEF n
  <2> QED BY <1>2, <2>1, <2>2
<1>4. ASSUME NEW i \in 1 .. n, i - 1 \in U PROVE i \in U
  <2>1. Rotated(q, m, h[i - 1], x, y, z, i - 1)
    BY <1>4
  <2>2. Rotated(q, m, Rotate(h[i - 1], x, y, z, i - 1), x, y, z, i)
    BY <2>1, RotatedStep
  <2>3. i \in 0 .. n
    <3> HIDE DEF n
    <3> QED BY <1>1
  <2>4. h[i] = Rotate(h[i - 1], x, y, z, i - 1)
    BY <1>2
  <2> QED BY <2>2, <2>3, <2>4
<1>5. n \in U
  <2>1. 0 .. n \subseteq U
    <3> HIDE DEF n, U
    <3> QED BY <1>1, <1>3, <1>4, Counting
  <2>2. n \in 0 .. n
    <3> HIDE DEF n, U
    <3> QED BY <1>1
  <2> HIDE DEF n, U
  <2> QED BY <2>1, <2>2
<1>6. Rotated(q, m, m2, x, y, z, n)
  <2>1. Rotated(q, m, h[n], x, y, z, n)
    BY <1>5
  <2> HIDE DEF m2, n
  <2> QED BY <1>2, <2>1
<1> HIDE DEF m2
<1>7. /\ \A w \in Place(q) : \A k \in 0 .. n - 1 : w + k \in 0 .. Len(q.data) - 1 /\ w + k \in Around(q)
      /\ \A w, v \in Place(q) : \A k, l \in 0 .. n - 1 : w + k = v + l => w = v /\ k = l
  BY BytesOf
<1>8. ASSUME NEW u \in Around(q) \ (0 .. Len(q.data) - 1) PROVE m2[u] = m[u]
  <2>1. \A k \in 0 .. n - 1 : u # x + k /\ u # y + k /\ u # z + k
    BY <1>7
  <2> QED BY <1>6, <2>1 DEF Rotated
<1>9. ASSUME NEW w \in Place(q), NEW k \in 0 .. n - 1 PROVE m2[w + k] = m[Turn(q, x, y, z)[w] + k]
  <2>1. CASE w = x
    BY <1>6, <2>1 DEF Rotated, Turn
  <2>2. CASE w = y /\ w # x
    BY <1>6, <2>2 DEF Rotated, Turn
  <2>3. CASE w = z /\ w # x /\ w # y
    BY <1>6, <2>3 DEF Rotated, Turn
  <2>4. CASE w # x /\ w # y /\ w # z
    <3>1. \A l \in 0 .. n - 1 : w + k # x + l /\ w + k # y + l /\ w + k # z + l
      BY <1>7, <2>4
    <3>2. w + k \in Around(q)
      BY <1>7
    <3>3. m2[w + k] = m[w + k]
      <4> HIDE DEF n
      <4> QED BY <1>6, <3>1, <3>2 DEF Rotated
    <3> QED BY <2>4, <3>3 DEF Turn
  <2> QED BY <2>1, <2>2, <2>3, <2>4
<1>10. m2 \in [Around(q) -> Int]
  BY <1>6 DEF Rotated
<1> QED BY <1>8, <1>9, <1>10 DEF Moved, m2

\* They only move elements.
LEMMA SwapIs ==
  ASSUME NEW q, NEW x \in Place(q), NEW y \in Place(q)
  PROVE  Swap(q, x, y) \in Bijection(Place(q), Place(q))
<1> DEFINE P == Place(q)
           f == Swap(q, x, y)
<1>1. \A w \in P : f[w] = IF w = x THEN y ELSE IF w = y THEN x ELSE w
  BY DEF Swap
<1>2. f \in [P -> P]
  <2> HIDE DEF P
  <2> QED BY DEF Swap, P
<1> HIDE DEF P, f
<1>3. ASSUME NEW w \in P, NEW u \in P, f[w] = f[u] PROVE w = u
  BY <1>1, <1>3 DEF P
<1>4. ASSUME NEW w \in P PROVE f[f[w]] = w /\ f[w] \in P
  BY <1>1 DEF P
<1>5. \A w \in P : \E u \in P : f[u] = w
  BY <1>4
<1>6. f \in Bijection(P, P)
  BY <1>2, <1>3, <1>5, Fun_IsBij
<1> QED BY <1>6 DEF P, f

\* The same of three.
LEMMA TurnIs ==
  ASSUME NEW q, NEW x \in Place(q), NEW y \in Place(q), NEW z \in Place(q), x # y, x # z
  PROVE  Turn(q, x, y, z) \in Bijection(Place(q), Place(q))
<1> DEFINE P == Place(q)
           f == Turn(q, x, y, z)
           g == Turn(q, x, z, y)
<1>1. \A w \in P : /\ f[w] = IF w = x THEN z ELSE IF w = y THEN x ELSE IF w = z THEN y ELSE w
                   /\ g[w] = IF w = x THEN y ELSE IF w = z THEN x ELSE IF w = y THEN z ELSE w
  BY DEF Turn
<1>2. f \in [P -> P]
  <2> HIDE DEF P
  <2> QED BY DEF Turn, P
<1>3. x \in P /\ y \in P /\ z \in P
  OBVIOUS
<1> HIDE DEF P, f, g
<1>4. ASSUME NEW w \in P PROVE g[f[w]] = w /\ f[g[w]] = w /\ f[w] \in P /\ g[w] \in P
  BY <1>1, <1>3
<1>5. ASSUME NEW w \in P, NEW u \in P, f[w] = f[u] PROVE w = u
  BY <1>4, <1>5
<1>6. \A w \in P : \E u \in P : f[u] = w
  BY <1>4
<1>7. f \in Bijection(P, P)
  BY <1>2, <1>5, <1>6, Fun_IsBij
<1> QED BY <1>7 DEF P, f

\* Elements that are moved are still those of before.
LEMMA MovedRearranged ==
  ASSUME NEW q, IsSort(q), NEW m, NEW m2, Rearranged(q, m),
         NEW f \in Bijection(Place(q), Place(q)), Moved(q, m, m2, f)
  PROVE  Rearranged(q, m2)
<1> DEFINE P == Place(q)
           n == q.es
<1>1. PICK g \in Bijection(P, P) :
        \A x \in P : \A k \in 0 .. n - 1 : m[x + k] = q.data[g[x] + k + 1]
  BY DEF Rearranged
<1> DEFINE h == [x \in P |-> g[f[x]]]
<1>2. h \in Bijection(P, P) /\ f \in [P -> P]
  <2> HIDE DEF P
  <2> QED BY <1>1, Fun_BijTransitive, Fun_BijectionProperties DEF P
<1>3. ASSUME NEW x \in P, NEW k \in 0 .. n - 1 PROVE m2[x + k] = q.data[h[x] + k + 1]
  <2>1. f[x] \in P /\ h[x] = g[f[x]]
    <3> HIDE DEF P
    <3> QED BY <1>2
  <2>2. m2[x + k] = m[f[x] + k]
    BY DEF Moved
  <2>3. m[f[x] + k] = q.data[g[f[x]] + k + 1]
    <3> HIDE DEF P, n
    <3> QED BY <1>1, <2>1
  <2> HIDE DEF h
  <2> QED BY <2>1, <2>2, <2>3
<1>4. \A x \in Around(q) \ (0 .. Len(q.data) - 1) : m2[x] = 0
  BY DEF Moved, Rearranged
<1> HIDE DEF h
<1> QED BY <1>2, <1>3, <1>4 DEF Rearranged

\* The fields of qs1()'s locals.
LEMMA SortFields ==
  ASSUME NEW q, NEW s \in SortLocals(q)
  PROVE  /\ s.mem \in [Around(q) -> Int] /\ s.a \in Bound(q) /\ s.l \in Bound(q)
         /\ s.i \in Int /\ s.j \in Int /\ s.lp \in Int /\ s.hp \in Int /\ s.es \in Int
         /\ s.stack \in Seq(Waiting(q))
BY DEF SortLocals

\* The range at hand and those of the calls are within the array.
LEMMA RangesIn ==
  ASSUME NEW q, IsSort(q), NEW s \in SortLocals(q)
  PROVE  /\ Len(s.stack) \in Nat /\ 0 \in Ranges(s)
         /\ \A k \in Ranges(s) : /\ k \in Nat /\ k <= Len(s.stack)
                                 /\ Low(s, k) \in Bound(q) /\ High(s, k) \in Bound(q)
         /\ Low(s, 0) = s.a /\ High(s, 0) = s.l
         /\ \A k \in 1 .. Len(s.stack) : Low(s, k) = s.stack[k].a /\ High(s, k) = s.stack[k].l
<1>1. s.a \in Bound(q) /\ s.l \in Bound(q) /\ s.stack \in Seq(Waiting(q))
  BY SortFields
<1>2. \A k \in 1 .. Len(s.stack) : s.stack[k].a \in Bound(q) /\ s.stack[k].l \in Bound(q)
  <2> SUFFICES ASSUME NEW k \in 1 .. Len(s.stack)
               PROVE  s.stack[k].a \in Bound(q) /\ s.stack[k].l \in Bound(q)
    OBVIOUS
  <2>1. s.stack[k] \in Waiting(q)
    BY <1>1
  <2> QED BY <2>1 DEF Waiting
<1>3. Len(s.stack) \in Nat
  BY <1>1
<1> DEFINE n == Len(s.stack)
<1>4. /\ 0 \in 0 .. n /\ \A k \in 0 .. n : k \in Nat /\ k <= n /\ (k # 0 => k \in 1 .. n)
      /\ \A k \in 1 .. n : k # 0
  <2>1. n \in Nat
    BY <1>3
  <2> HIDE DEF n
  <2> QED BY <2>1
<1>5. /\ \A k \in 0 .. n : Low(s, k) \in Bound(q) /\ High(s, k) \in Bound(q)
      /\ Low(s, 0) = s.a /\ High(s, 0) = s.l
      /\ \A k \in 1 .. n : Low(s, k) = s.stack[k].a /\ High(s, k) = s.stack[k].l
  <2>1. \A k \in 1 .. n : s.stack[k].a \in Bound(q) /\ s.stack[k].l \in Bound(q)
    BY <1>2
  <2>2. Low(s, 0) = s.a /\ High(s, 0) = s.l
    BY DEF Low, High
  <2>3. \A k \in 1 .. n : Low(s, k) = s.stack[k].a /\ High(s, k) = s.stack[k].l
    <3> HIDE DEF n
    <3> QED BY <1>4 DEF Low, High
  <2> HIDE DEF n
  <2>4. ASSUME NEW k \in 0 .. n PROVE Low(s, k) \in Bound(q) /\ High(s, k) \in Bound(q)
    <3>1. CASE k = 0
      BY <1>1, <2>2, <3>1
    <3>2. CASE k # 0
      <4>1. k \in 1 .. n
        BY <1>4, <3>2
      <4> QED BY <2>1, <2>3, <4>1
    <3> QED BY <3>1, <3>2
  <2> QED BY <2>2, <2>3, <2>4
<1> QED BY <1>3, <1>4, <1>5 DEF Ranges

\* f moves elements of the range at hand only.
Inside(q, s, f) ==
  \A w \in Place(q) : IF s.a <= w /\ w < s.l THEN s.a <= f[w] /\ f[w] < s.l ELSE f[w] = w

\* A step within a partition: nothing but the elements and the pointers changes.
Continues(q, s, t) ==
  /\ t \in SortLocals(q) /\ t.a = s.a /\ t.l = s.l /\ t.stack = s.stack /\ t.es = s.es
  /\ \E f \in Bijection(Place(q), Place(q)) : Inside(q, s, f) /\ Moved(q, s.mem, t.mem, f)

\* The first byte of an element moves with it.
LEMMA MovedFirst ==
  ASSUME NEW q, IsSort(q), NEW m, NEW m2, NEW f \in [Place(q) -> Place(q)], Moved(q, m, m2, f)
  PROVE  \A w \in Place(q) : m2[w] = m[f[w]]
<1> SUFFICES ASSUME NEW w \in Place(q) PROVE m2[w] = m[f[w]]
  OBVIOUS
<1>1. 0 \in 0 .. q.es - 1 /\ \A x \in Place(q) : x \in Int
  BY Places
<1>2. f[w] \in Place(q)
  OBVIOUS
<1>3. w + 0 = w /\ f[w] + 0 = f[w]
  BY <1>1, <1>2
<1>4. m2[w + 0] = m[f[w] + 0]
  BY <1>1 DEF Moved
<1> QED BY <1>3, <1>4

\* Two elements that are in different ranges stay in order.
LEMMA ContinuesInOrder ==
  ASSUME NEW q, IsSort(q), NEW s \in SortLocals(q), Apart(s), InOrder(q, s),
         NEW t, Continues(q, s, t)
  PROVE  InOrder(q, t)
<1>1. PICK f \in Bijection(Place(q), Place(q)) : Inside(q, s, f) /\ Moved(q, s.mem, t.mem, f)
  BY DEF Continues
<1>2. f \in [Place(q) -> Place(q)]
  BY Fun_BijectionProperties
<1>3. \A w \in Place(q) : t.mem[w] = s.mem[f[w]]
  BY <1>1, <1>2, MovedFirst
<1>4. /\ Ranges(t) = Ranges(s)
      /\ \A k : Low(t, k) = Low(s, k) /\ High(t, k) = High(s, k)
  BY DEF Continues, Ranges, Low, High
<1>5. SUFFICES ASSUME NEW x \in Place(q), NEW y \in Place(q), x < y
               PROVE  \/ t.mem[x] <= t.mem[y]
                      \/ \E k \in Ranges(s) : Low(s, k) <= x /\ y < High(s, k)
  BY <1>4 DEF InOrder
<1>6. /\ f[x] \in Place(q) /\ f[y] \in Place(q) /\ x \in Int /\ y \in Int
      /\ f[x] \in Int /\ f[y] \in Int
  <2>1. f[x] \in Place(q) /\ f[y] \in Place(q)
    BY <1>2
  <2> QED BY <2>1, Places
<1>7. /\ 0 \in Ranges(s) /\ Low(s, 0) = s.a /\ High(s, 0) = s.l
      /\ \A k \in Ranges(s) : k \in Nat /\ Low(s, k) \in Int /\ High(s, k) \in Int
  <2>1. Bound(q) \subseteq Int
    BY Places
  <2> QED BY <2>1, RangesIn
<1>8. /\ IF s.a <= x /\ x < s.l THEN s.a <= f[x] /\ f[x] < s.l ELSE f[x] = x
      /\ IF s.a <= y /\ y < s.l THEN s.a <= f[y] /\ f[y] < s.l ELSE f[y] = y
  BY <1>1 DEF Inside
<1>9. CASE s.a <= x /\ y < s.l
  BY <1>7, <1>9
<1>10. CASE ~(s.a <= x /\ y < s.l)
  <2>1. f[x] < f[y]
    <3>1. s.a \in Int /\ s.l \in Int
      BY <1>7
    <3> DEFINE fx == f[x]
               fy == f[y]
               a == s.a
               l == s.l
    <3>2. fx < fy
      <4> HIDE DEF fx, fy, a, l
      <4> QED BY <1>5, <1>6, <1>8, <1>10, <3>1 DEF fx, fy, a, l
    <3> QED BY <3>2
  <2>2. \/ s.mem[f[x]] <= s.mem[f[y]]
        \/ \E k \in Ranges(s) : Low(s, k) <= f[x] /\ f[y] < High(s, k)
    BY <1>6, <2>1 DEF InOrder
  <2>3. CASE s.mem[f[x]] <= s.mem[f[y]]
    BY <1>3, <2>3
  <2>4. ASSUME NEW k \in Ranges(s), Low(s, k) <= f[x], f[y] < High(s, k)
        PROVE  Low(s, k) <= x /\ y < High(s, k)
    <3> DEFINE a == s.a
               l == s.l
               b == Low(s, k)
               h == High(s, k)
               fx == f[x]
               fy == f[y]
    <3>1. /\ a \in Int /\ l \in Int /\ b \in Int /\ h \in Int /\ fx \in Int /\ fy \in Int
          /\ b <= fx /\ fy < h /\ fx < fy
      BY <1>6, <1>7, <2>1, <2>4
    <3>2. /\ IF a <= x /\ x < l THEN a <= fx /\ fx < l ELSE fx = x
          /\ IF a <= y /\ y < l THEN a <= fy /\ fy < l ELSE fy = y
          /\ ~(a <= x /\ y < l)
      BY <1>8, <1>10
    <3>3. (b = a /\ h = l) \/ l <= b \/ h <= a
      <4>1. CASE k = 0
        BY <1>7, <4>1
      <4>2. CASE k # 0
        <5>1. 0 < k
          BY <1>7, <4>2
        <5>2. High(s, 0) <= Low(s, k) \/ High(s, k) <= Low(s, 0)
          BY <1>7, <5>1 DEF Apart
        <5> QED BY <1>7, <5>2
      <4> QED BY <4>1, <4>2
    <3>4. b <= x /\ y < h
      <4> HIDE DEF a, l, b, h, fx, fy
      <4> QED BY <1>5, <1>6, <3>1, <3>2, <3>3
    <3> QED BY <3>4
  <2> QED BY <2>2, <2>3, <2>4
<1> QED BY <1>9, <1>10

\* It keeps the invariant if the pointers are right again.
LEMMA Partitions ==
  ASSUME NEW q, IsSort(q), NEW s, NEW label \in {"left", "right"}, SortInv(q, s, label),
         NEW t, Continues(q, s, t), NEW to \in {"left", "right"}, NEW v \in Int, Parted(q, t, to, v)
  PROVE  SortInv(q, t, to)
<1>1. /\ s \in SortLocals(q) /\ Rearranged(q, s.mem) /\ Apart(s) /\ Halved(q, s) /\ InOrder(q, s)
      /\ s.es = q.es /\ s.l - s.a > q.es
  BY DEF SortInv
<1>2. PICK f \in Bijection(Place(q), Place(q)) : Moved(q, s.mem, t.mem, f)
  BY DEF Continues
<1>3. Rearranged(q, t.mem)
  BY <1>1, <1>2, MovedRearranged
<1>4. InOrder(q, t)
  BY <1>1, ContinuesInOrder
<1>5. /\ Ranges(t) = Ranges(s)
      /\ \A k : Low(t, k) = Low(s, k) /\ High(t, k) = High(s, k)
  BY DEF Continues, Ranges, Low, High
<1>6. t \in SortLocals(q) /\ t.a = s.a /\ t.l = s.l /\ t.stack = s.stack /\ t.es = s.es
  BY DEF Continues
<1>7. Apart(t)
  BY <1>1, <1>5 DEF Apart
<1>8. Halved(q, t)
  BY <1>1, <1>5, <1>6 DEF Halved
<1> QED BY <1>1, <1>3, <1>4, <1>6, <1>7, <1>8 DEF SortInv

\* Nothing moves,
LEMMA Stays ==
  ASSUME NEW q, IsSort(q), NEW s \in SortLocals(q), NEW t \in SortLocals(q), NEW x \in Place(q),
         t.a = s.a, t.l = s.l, t.stack = s.stack, t.es = s.es, t.mem = s.mem
  PROVE  Continues(q, s, t)
<1> DEFINE f == Swap(q, x, x)
<1>1. \A w \in Place(q) : f[w] = w
  BY DEF Swap
<1>2. f \in Bijection(Place(q), Place(q))
  BY SwapIs
<1> HIDE DEF f
<1>3. Inside(q, s, f)
  BY <1>1 DEF Inside
<1>4. Moved(q, s.mem, t.mem, f)
  BY <1>1, SortFields DEF Moved
<1> QED BY <1>2, <1>3, <1>4 DEF Continues

\* or two elements do,
LEMMA Exchanges ==
  ASSUME NEW q, IsSort(q), NEW s \in SortLocals(q), NEW t \in SortLocals(q),
         NEW x \in Place(q), NEW y \in Place(q), s.a <= x, x < s.l, s.a <= y, y < s.l,
         t.a = s.a, t.l = s.l, t.stack = s.stack, t.es = s.es,
         t.mem = qsexc(s.mem, x, y, q.es)
  PROVE  /\ Continues(q, s, t)
         /\ t.mem[x] = s.mem[y] /\ t.mem[y] = s.mem[x]
         /\ \A w \in Place(q) : w # x /\ w # y => t.mem[w] = s.mem[w]
<1> DEFINE f == Swap(q, x, y)
<1>1. \A w \in Place(q) : f[w] = IF w = x THEN y ELSE IF w = y THEN x ELSE w
  BY DEF Swap
<1>2. f \in Bijection(Place(q), Place(q)) /\ f \in [Place(q) -> Place(q)]
  BY SwapIs, Fun_BijectionProperties
<1>3. Moved(q, s.mem, t.mem, f)
  BY SortFields, QsexcIs
<1> HIDE DEF f
<1>4. Inside(q, s, f)
  BY <1>1 DEF Inside
<1>5. \A w \in Place(q) : t.mem[w] = s.mem[f[w]]
  BY <1>2, <1>3, MovedFirst
<1>6. Continues(q, s, t)
  BY <1>2, <1>3, <1>4 DEF Continues
<1> QED BY <1>1, <1>5, <1>6

\* or three.
LEMMA Rotates ==
  ASSUME NEW q, IsSort(q), NEW s \in SortLocals(q), NEW t \in SortLocals(q),
         NEW x \in Place(q), NEW y \in Place(q), NEW z \in Place(q), x # y, x # z,
         s.a <= x, x < s.l, s.a <= y, y < s.l, s.a <= z, z < s.l,
         t.a = s.a, t.l = s.l, t.stack = s.stack, t.es = s.es,
         t.mem = qstexc(s.mem, x, y, z, q.es)
  PROVE  /\ Continues(q, s, t)
         /\ t.mem[x] = s.mem[z] /\ t.mem[y] = s.mem[x] /\ (y # z => t.mem[z] = s.mem[y])
         /\ \A w \in Place(q) : w # x /\ w # y /\ w # z => t.mem[w] = s.mem[w]
<1> DEFINE f == Turn(q, x, y, z)
<1>1. \A w \in Place(q) : f[w] = IF w = x THEN z ELSE IF w = y THEN x ELSE IF w = z THEN y ELSE w
  BY DEF Turn
<1>2. f \in Bijection(Place(q), Place(q)) /\ f \in [Place(q) -> Place(q)]
  BY TurnIs, Fun_BijectionProperties
<1>3. Moved(q, s.mem, t.mem, f)
  BY SortFields, QstexcIs
<1> HIDE DEF f
<1>4. Inside(q, s, f)
  BY <1>1 DEF Inside
<1>5. \A w \in Place(q) : t.mem[w] = s.mem[f[w]]
  BY <1>2, <1>3, MovedFirst
<1>6. Continues(q, s, t)
  BY <1>2, <1>3, <1>4 DEF Continues
<1> QED BY <1>1, <1>5, <1>6

\* What a partition has to do with.
LEMMA PartedFacts ==
  ASSUME NEW q, IsSort(q), NEW s, NEW label \in {"left", "right"}, SortInv(q, s, label)
  PROVE  /\ s \in SortLocals(q) /\ s.es = q.es /\ q.es \in Nat \ {0} /\ Place(q) \subseteq Int
         /\ s.mem \in [Around(q) -> Int] /\ \A w \in Place(q) : s.mem[w] \in Int
         /\ s.a \in Int /\ s.l \in Int /\ s.l - s.a > q.es
         /\ s.i \in Place(q) /\ s.lp \in Place(q) /\ s.hp \in Place(q) /\ s.j \in Place(q)
         /\ s.i \in Int /\ s.lp \in Int /\ s.hp \in Int /\ s.j \in Int
         /\ s.a <= s.i /\ s.i <= s.lp /\ s.lp <= s.hp /\ s.hp <= s.j /\ s.j < s.l
         /\ \E v \in Int : Parted(q, s, label, v)
         /\ \A x, y \in Place(q) : x < y =>
              x + q.es <= y /\ x + q.es \in Place(q) /\ y - q.es \in Place(q)
<1>1. /\ s \in SortLocals(q) /\ s.es = q.es /\ s.l - s.a > q.es
      /\ \E v \in Int : Parted(q, s, label, v)
  BY DEF SortInv
<1>2. s.mem \in [Around(q) -> Int] /\ s.a \in Bound(q) /\ s.l \in Bound(q)
  BY <1>1, SortFields
<1>3. /\ q.es \in Nat \ {0} /\ Len(q.data) \in Nat
      /\ Place(q) \subseteq Bound(q) /\ Bound(q) \subseteq Int
      /\ \A x \in Bound(q) : x < Len(q.data) => x \in Place(q)
      /\ \A x \in Place(q) : x + q.es \in Bound(q) /\ x < Len(q.data)
      /\ \A x \in Bound(q) : x > 0 => x - q.es \in Place(q)
      /\ \A x, y \in Bound(q) : x < y => x + q.es <= y
      /\ \A x \in Place(q) : 0 <= x
  BY Places
<1>4. \A w \in Place(q) : s.mem[w] \in Int
  <2> SUFFICES ASSUME NEW w \in Place(q) PROVE s.mem[w] \in Int
    OBVIOUS
  <2>1. 0 \in 0 .. q.es - 1 /\ w + 0 = w
    BY <1>3
  <2>2. w + 0 \in Around(q)
    BY <2>1, BytesOf
  <2> QED BY <1>2, <2>1, <2>2
<1>5. ASSUME NEW x \in Place(q), NEW y \in Place(q), x < y
      PROVE  x + q.es <= y /\ x + q.es \in Place(q) /\ y - q.es \in Place(q)
  <2>1. x \in Bound(q) /\ y \in Bound(q) /\ x \in Int /\ y \in Int /\ 0 <= x
    BY <1>3
  <2>2. x + q.es <= y /\ y < Len(q.data) /\ x + q.es \in Bound(q)
    BY <1>3, <1>5, <2>1
  <2>3. x + q.es < Len(q.data) /\ y > 0
    BY <1>3, <1>5, <2>1, <2>2, SMTT(30)
  <2> QED BY <1>3, <2>1, <2>2, <2>3
<1>6. /\ s.i \in Place(q) /\ s.lp \in Place(q) /\ s.hp \in Place(q) /\ s.j \in Place(q)
      /\ s.i \in Int /\ s.lp \in Int /\ s.hp \in Int /\ s.j \in Int
      /\ s.a <= s.i /\ s.i <= s.lp /\ s.lp <= s.hp /\ s.hp <= s.j /\ s.j < s.l
  BY <1>1, <1>3 DEF Parted
<1> QED BY <1>1, <1>2, <1>3, <1>4, <1>5, <1>6

\* What is touched is the program's own.
LEMMA OwnPlaces ==
  ASSUME NEW q, IsSort(q), NEW s \in SortLocals(q), NEW places \in SUBSET Place(q)
  PROVE  Own(s, places, 1) /\ Own(s, places, q.es)
<1>1. DOMAIN s.mem = Around(q) /\ q.es \in Nat \ {0} /\ Place(q) \subseteq Int
  BY SortFields, Places
<1>2. \A x \in Place(q) : \A k \in 0 .. q.es - 1 : x + k \in Around(q)
  BY BytesOf
<1>3. ASSUME NEW x \in Place(q), NEW n \in 1 .. q.es, NEW b \in Bytes(x, n)
      PROVE  b \in Around(q)
  <2> DEFINE e == q.es
  <2>1. e \in Nat \ {0} /\ x \in Int /\ n \in 1 .. e /\ b \in x .. x + n - 1
    BY <1>1 DEF Bytes
  <2>2. b - x \in 0 .. e - 1 /\ x + (b - x) = b
    <3> HIDE DEF e
    <3> QED BY <2>1
  <2>3. x + (b - x) \in Around(q)
    BY <1>2, <2>2
  <2> QED BY <2>2, <2>3
<1>4. 1 \in 1 .. q.es /\ q.es \in 1 .. q.es
  BY <1>1
<1> QED BY <1>1, <1>3, <1>4 DEF Own

\* From the lower end.
LEMMA LeftKeeps ==
  ASSUME NEW q, IsSort(q), NEW s, SortInv(q, s, "left")
  PROVE  /\ s.i >= s.lp => SortInv(q, s, "right")
         /\ ~(s.i >= s.lp) =>
              /\ Own(s, {s.i, s.lp}, 1) /\ Own(s, {s.i, s.lp - s.es}, q.es)
              /\ s.mem[s.i] - s.mem[s.lp] < 0 => SortInv(q, [s EXCEPT !.i = @ + s.es], "left")
              /\ s.mem[s.i] - s.mem[s.lp] > 0 => SortInv(q, s, "right")
              /\ ~(s.mem[s.i] - s.mem[s.lp] < 0) /\ ~(s.mem[s.i] - s.mem[s.lp] > 0) =>
                   SortInv(q, [s EXCEPT !.lp = s.lp - s.es,
                                        !.mem = qsexc(@, s.i, s.lp - s.es, q.es)], "left")
<1> DEFINE P == Place(q)
           e == q.es
           i == s.i
           lp == s.lp
           hp == s.hp
           j == s.j
           a == s.a
           l == s.l
           M == s.mem
<1>1. /\ s \in SortLocals(q) /\ s.es = e /\ e \in Nat \ {0} /\ P \subseteq Int
      /\ M \in [Around(q) -> Int] /\ \A w \in P : M[w] \in Int
      /\ a \in Int /\ l \in Int
      /\ i \in P /\ lp \in P /\ hp \in P /\ j \in P
      /\ i \in Int /\ lp \in Int /\ hp \in Int /\ j \in Int
      /\ a <= i /\ i <= lp /\ lp <= hp /\ hp <= j /\ j < l
      /\ \A x, y \in P : x < y => x + e <= y /\ x + e \in P /\ y - e \in P
  BY PartedFacts
<1>2. PICK v \in Int : Parted(q, s, "left", v)
  BY PartedFacts
<1>3. \A x \in P : /\ a <= x /\ x < i => M[x] < v
                   /\ lp <= x /\ x <= hp => M[x] = v
                   /\ j < x /\ x < l => v < M[x]
  BY <1>2 DEF Parted
<1>4. Continues(q, s, s)
  BY <1>1, Stays
<1>5. ASSUME i = lp \/ v < M[i] PROVE SortInv(q, s, "right")
  <2>1. Parted(q, s, "right", v)
    BY <1>2, <1>5 DEF Parted
  <2> QED BY <1>4, <2>1, Partitions
<1>6. CASE i >= lp
  <2>1. i = lp
    <3> HIDE DEF P, e, i, lp, hp, j, a, l, M
    <3> QED BY <1>1, <1>6
  <2> QED BY <1>5, <1>6, <2>1
<1>7. CASE ~(i >= lp)
  <2>1. i < lp /\ i + e <= lp /\ i <= lp - e /\ i + e \in P /\ lp - e \in P /\ lp - e < lp
        /\ i \in Int /\ lp \in Int /\ M[i] \in Int /\ M[lp] = v
    <3> HIDE DEF P, e, i, lp, hp, j, a, l, M
    <3> QED BY <1>1, <1>3, <1>7
  <2>2. Own(s, {i, lp}, 1) /\ Own(s, {i, lp - s.es}, e)
    <3>1. {i, lp} \in SUBSET P /\ {i, lp - s.es} \in SUBSET P
      BY <1>1, <2>1
    <3> HIDE DEF i, lp
    <3> QED BY <1>1, <3>1, OwnPlaces
  <2>3. ASSUME M[i] - M[lp] < 0 PROVE SortInv(q, [s EXCEPT !.i = @ + s.es], "left")
    <3> DEFINE t == [s EXCEPT !.i = @ + s.es]
    <3>1. /\ t \in SortLocals(q) /\ t.i = i + e /\ t.lp = lp /\ t.hp = hp /\ t.j = j
          /\ t.a = a /\ t.l = l /\ t.stack = s.stack /\ t.es = s.es /\ t.mem = s.mem
      BY <1>1, <2>1 DEF SortLocals
    <3> HIDE DEF t
    <3>2. Continues(q, s, t)
      BY <1>1, <3>1, Stays
    <3>3. a <= i + e /\ \A x \in P : a <= x /\ x < i + e => M[x] < v
      <4> HIDE DEF P, e, i, lp, hp, j, a, l, M
      <4>1. M[i] < v
        BY <2>1, <2>3
      <4>2. ASSUME NEW x \in P, a <= x, x < i + e PROVE x = i \/ x < i
        <5>1. x \in Int /\ (i < x => i + e <= x)
          BY <1>1
        <5> QED BY <1>1, <2>1, <4>2, <5>1
      <4> QED BY <1>1, <1>3, <2>1, <4>1, <4>2
    <3>4. Parted(q, t, "left", v)
      BY <1>1, <1>3, <2>1, <3>1, <3>3 DEF Parted
    <3> QED BY <3>2, <3>4, Partitions DEF t
  <2>4. ASSUME M[i] - M[lp] > 0 PROVE SortInv(q, s, "right")
    <3>1. v < M[i]
      <4> HIDE DEF P, e, i, lp, hp, j, a, l, M
      <4> QED BY <2>1, <2>4
    <3> QED BY <1>5, <3>1
  <2>5. ASSUME ~(M[i] - M[lp] < 0), ~(M[i] - M[lp] > 0)
        PROVE  SortInv(q, [s EXCEPT !.lp = s.lp - s.es,
                                    !.mem = qsexc(@, s.i, s.lp - s.es, q.es)], "left")
    <3> DEFINE y == lp - e
               m == qsexc(M, i, y, e)
               t == [s EXCEPT !.lp = s.lp - s.es, !.mem = qsexc(@, s.i, s.lp - s.es, q.es)]
    <3>1. M[i] = v
      <4> HIDE DEF P, e, i, lp, hp, j, a, l, M
      <4> QED BY <2>1, <2>5
    <3>2. y \in P /\ m \in [Around(q) -> Int]
      <4>1. y \in P
        BY <2>1
      <4>2. Moved(q, M, m, Swap(q, i, y))
        <5> HIDE DEF y, i, M
        <5> QED BY <1>1, <4>1, QsexcIs
      <4> QED BY <4>1, <4>2 DEF Moved
    <3>3. t = [s EXCEPT !.lp = y, !.mem = m]
      BY <1>1
    <3>4. /\ t \in SortLocals(q) /\ t.i = i /\ t.lp = y /\ t.hp = hp /\ t.j = j
          /\ t.a = a /\ t.l = l /\ t.stack = s.stack /\ t.es = s.es /\ t.mem = m
      <4>1. y \in Int
        BY <1>1, <3>2
      <4> HIDE DEF m, y, t
      <4> QED BY <1>1, <3>2, <3>3, <4>1 DEF SortLocals
    <3> HIDE DEF t
    <3>5. a <= i /\ i < l /\ a <= y /\ y < l
      <4> HIDE DEF P, e, i, lp, hp, j, a, l, M
      <4> QED BY <1>1, <2>1
    <3>6. /\ Continues(q, s, t) /\ t.mem[i] = M[y] /\ t.mem[y] = M[i]
          /\ \A w \in P : w # i /\ w # y => t.mem[w] = M[w]
      <4> HIDE DEF y, i
      <4> QED BY <1>1, <3>2, <3>4, <3>5, Exchanges
    <3>7. /\ y \in P /\ i <= y /\ y <= hp
          /\ \A x \in P : /\ a <= x /\ x < i => t.mem[x] < v
                          /\ y <= x /\ x <= hp => t.mem[x] = v
                          /\ j < x /\ x < l => v < t.mem[x]
      <4> HIDE DEF P, e, i, lp, hp, j, a, l, M
      <4>1. y \in P /\ y \in Int /\ i <= y /\ y < lp /\ y <= hp
        BY <1>1, <2>1
      <4>2. ASSUME NEW x \in P, a <= x, x < i PROVE t.mem[x] < v
        <5>1. x # i /\ x # y /\ x \in Int
          BY <1>1, <2>1, <4>1, <4>2
        <5> QED BY <1>3, <3>6, <4>2, <5>1
      <4>3. ASSUME NEW x \in P, y <= x, x <= hp PROVE t.mem[x] = v
        <5>1. x = y \/ lp <= x
          <6>1. x \in Int /\ (y < x => y + e <= x)
            BY <1>1, <4>1
          <6> QED BY <1>1, <2>1, <4>1, <4>3, <6>1
        <5>2. CASE x = y
          BY <3>1, <3>6, <5>2
        <5>3. CASE lp <= x
          <6>1. x # y /\ x # i
            BY <1>1, <2>1, <4>1, <5>3
          <6> QED BY <1>3, <3>6, <4>3, <5>3, <6>1
        <5> QED BY <5>1, <5>2, <5>3
      <4>4. ASSUME NEW x \in P, j < x, x < l PROVE v < t.mem[x]
        <5>1. x # i /\ x # y /\ x \in Int
          BY <1>1, <2>1, <4>1, <4>4
        <5> QED BY <1>3, <3>6, <4>4, <5>1
      <4> QED BY <4>1, <4>2, <4>3, <4>4
    <3>8. Parted(q, t, "left", v)
      <4> HIDE DEF y
      <4> QED BY <1>1, <3>4, <3>7 DEF Parted
    <3> QED BY <3>6, <3>8, Partitions DEF t
  <2> QED BY <1>7, <2>2, <2>3, <2>4, <2>5
<1> QED BY <1>6, <1>7

\* From the upper end: a large element stays,
LEMMA RightLarge ==
  ASSUME NEW q, IsSort(q), NEW s, SortInv(q, s, "right"), ~(s.j <= s.hp),
         s.mem[s.hp] - s.mem[s.j] < 0
  PROVE  SortInv(q, [s EXCEPT !.j = @ - s.es], "right")
<1> DEFINE P == Place(q)
           e == q.es
           i == s.i
           lp == s.lp
           hp == s.hp
           j == s.j
           a == s.a
           l == s.l
           M == s.mem
<1>1. /\ s \in SortLocals(q) /\ s.es = e /\ e \in Nat \ {0} /\ P \subseteq Int
      /\ M \in [Around(q) -> Int] /\ \A w \in P : M[w] \in Int
      /\ a \in Int /\ l \in Int
      /\ i \in P /\ lp \in P /\ hp \in P /\ j \in P
      /\ i \in Int /\ lp \in Int /\ hp \in Int /\ j \in Int
      /\ a <= i /\ i <= lp /\ lp <= hp /\ hp <= j /\ j < l
      /\ \A x, y \in P : x < y => x + e <= y /\ x + e \in P /\ y - e \in P
  BY PartedFacts
<1>2. PICK v \in Int : Parted(q, s, "right", v)
  BY PartedFacts
<1>3. /\ \A x \in P : /\ a <= x /\ x < i => M[x] < v
                      /\ lp <= x /\ x <= hp => M[x] = v
                      /\ j < x /\ x < l => v < M[x]
      /\ i = lp \/ v < M[i]
  BY <1>2 DEF Parted
<1> DEFINE t == [s EXCEPT !.j = @ - s.es]
<1>4. hp < j /\ M[hp] - M[j] < 0
  <2>1. ~(j <= hp) /\ M[hp] - M[j] < 0
    OBVIOUS
  <2> HIDE DEF P, e, i, lp, hp, j, a, l, M
  <2> QED BY <1>1, <2>1
<1>5. /\ j - e \in P /\ j - e \in Int /\ hp <= j - e /\ j - e < l /\ v < M[j]
      /\ \A x \in P : j - e < x => x = j \/ j < x
  <2> HIDE DEF P, e, i, lp, hp, j, a, l, M
  <2>1. j - e \in P /\ j - e \in Int /\ hp <= j - e /\ j - e < l
    BY <1>1, <1>4
  <2>2. M[hp] = v /\ M[j] \in Int
    BY <1>1, <1>3
  <2>3. v < M[j]
    BY <1>4, <2>2
  <2>4. ASSUME NEW x \in P, j - e < x, x # j PROVE j < x
    <3>1. x \in Int /\ (x < j => x + e <= j)
      BY <1>1
    <3> QED BY <1>1, <2>4, <3>1
  <2> QED BY <2>1, <2>3, <2>4
<1>6. /\ t \in SortLocals(q) /\ t.i = i /\ t.lp = lp /\ t.hp = hp /\ t.j = j - e
      /\ t.a = a /\ t.l = l /\ t.stack = s.stack /\ t.es = s.es /\ t.mem = s.mem
  BY <1>1, <1>5 DEF SortLocals
<1> HIDE DEF t
<1>7. Continues(q, s, t)
  BY <1>1, <1>6, Stays
<1>8. \A x \in P : j - e < x /\ x < l => v < M[x]
  <2> HIDE DEF P, e, i, lp, hp, j, a, l, M
  <2> QED BY <1>3, <1>5
<1>9. Parted(q, t, "right", v)
  BY <1>1, <1>3, <1>5, <1>6, <1>8 DEF Parted
<1> QED BY <1>7, <1>9, Partitions DEF t

\* one that equals the middle goes beside it,
LEMMA RightEqual ==
  ASSUME NEW q, IsSort(q), NEW s, SortInv(q, s, "right"), ~(s.j <= s.hp),
         s.mem[s.hp] - s.mem[s.j] = 0
  PROVE  /\ Own(s, {s.hp + s.es, s.j}, q.es)
         /\ SortInv(q, [s EXCEPT !.hp = @ + s.es,
                                 !.mem = qsexc(@, s.hp + s.es, s.j, q.es)], "right")
<1> DEFINE P == Place(q)
           e == q.es
           i == s.i
           lp == s.lp
           hp == s.hp
           j == s.j
           a == s.a
           l == s.l
           M == s.mem
<1>1. /\ s \in SortLocals(q) /\ s.es = e /\ e \in Nat \ {0} /\ P \subseteq Int
      /\ M \in [Around(q) -> Int] /\ \A w \in P : M[w] \in Int
      /\ a \in Int /\ l \in Int
      /\ i \in P /\ lp \in P /\ hp \in P /\ j \in P
      /\ i \in Int /\ lp \in Int /\ hp \in Int /\ j \in Int
      /\ a <= i /\ i <= lp /\ lp <= hp /\ hp <= j /\ j < l
      /\ \A x, y \in P : x < y => x + e <= y /\ x + e \in P /\ y - e \in P
  BY PartedFacts
<1>2. PICK v \in Int : Parted(q, s, "right", v)
  BY PartedFacts
<1>3. /\ \A x \in P : /\ a <= x /\ x < i => M[x] < v
                      /\ lp <= x /\ x <= hp => M[x] = v
                      /\ j < x /\ x < l => v < M[x]
      /\ i = lp \/ v < M[i]
  BY <1>2 DEF Parted
<1> DEFINE x1 == hp + e
           m == qsexc(M, x1, j, e)
           t == [s EXCEPT !.hp = @ + s.es, !.mem = qsexc(@, s.hp + s.es, s.j, q.es)]
<1>4. hp < j /\ M[hp] - M[j] = 0
  <2>1. ~(j <= hp) /\ M[hp] - M[j] = 0
    OBVIOUS
  <2> HIDE DEF P, e, i, lp, hp, j, a, l, M
  <2> QED BY <1>1, <2>1
<1>5. /\ x1 \in P /\ x1 \in Int /\ hp < x1 /\ x1 <= j /\ a <= x1 /\ x1 < l /\ a <= j /\ M[j] = v
      /\ \A x \in P : x <= x1 => x = x1 \/ x <= hp
  <2> HIDE DEF P, e, i, lp, hp, j, a, l, M
  <2>1. x1 \in P /\ x1 \in Int /\ hp < x1 /\ x1 <= j /\ a <= x1 /\ x1 < l /\ a <= j
    BY <1>1, <1>4
  <2>2. M[hp] = v /\ M[j] \in Int
    BY <1>1, <1>3
  <2>3. M[j] = v
    BY <1>4, <2>2
  <2>4. ASSUME NEW x \in P, x <= x1, x # x1 PROVE x <= hp
    <3>1. x \in Int /\ (hp < x => hp + e <= x)
      BY <1>1
    <3> QED BY <1>1, <2>1, <2>4, <3>1
  <2> QED BY <2>1, <2>3, <2>4
<1>6. m \in [Around(q) -> Int]
  <2>1. Moved(q, M, m, Swap(q, x1, j))
    <3> HIDE DEF x1, j, M
    <3> QED BY <1>1, <1>5, QsexcIs
  <2> QED BY <2>1 DEF Moved
<1>7. t = [s EXCEPT !.hp = x1, !.mem = m]
  BY <1>1
<1>8. /\ t \in SortLocals(q) /\ t.i = i /\ t.lp = lp /\ t.hp = x1 /\ t.j = j
      /\ t.a = a /\ t.l = l /\ t.stack = s.stack /\ t.es = s.es /\ t.mem = m
  <2>1. x1 \in Int
    BY <1>5
  <2> HIDE DEF m, x1, t
  <2> QED BY <1>1, <1>6, <1>7, <2>1 DEF SortLocals
<1> HIDE DEF t
<1>9. /\ Continues(q, s, t) /\ t.mem[x1] = M[j] /\ t.mem[j] = M[x1]
      /\ \A w \in P : w # x1 /\ w # j => t.mem[w] = M[w]
  <2> HIDE DEF x1, j
  <2> QED BY <1>1, <1>5, <1>8, Exchanges
<1>10. \A x \in P : /\ a <= x /\ x < i => t.mem[x] < v
                    /\ lp <= x /\ x <= x1 => t.mem[x] = v
                    /\ j < x /\ x < l => v < t.mem[x]
  <2> HIDE DEF P, e, i, lp, hp, j, a, l, M
  <2>1. ASSUME NEW x \in P, a <= x, x < i PROVE t.mem[x] < v
    <3>1. x # x1 /\ x # j /\ x \in Int
      BY <1>1, <1>4, <1>5, <2>1
    <3> QED BY <1>3, <1>9, <2>1, <3>1
  <2>2. ASSUME NEW x \in P, lp <= x, x <= x1 PROVE t.mem[x] = v
    <3>1. CASE x = x1
      BY <1>5, <1>9, <3>1
    <3>2. CASE x # x1
      <4>1. x <= hp /\ x # j /\ x \in Int
        BY <1>1, <1>4, <1>5, <2>2, <3>2
      <4> QED BY <1>3, <1>9, <2>2, <3>2, <4>1
    <3> QED BY <3>1, <3>2
  <2>3. ASSUME NEW x \in P, j < x, x < l PROVE v < t.mem[x]
    <3>1. x # x1 /\ x # j /\ x \in Int
      BY <1>1, <1>4, <1>5, <2>3
    <3> QED BY <1>3, <1>9, <2>3, <3>1
  <2> QED BY <2>1, <2>2, <2>3
<1>11. i = lp \/ v < t.mem[i]
  <2> HIDE DEF P, e, i, lp, hp, j, a, l, M
  <2>1. i # x1 /\ i # j
    BY <1>1, <1>4, <1>5
  <2> QED BY <1>1, <1>3, <1>9, <2>1
<1>12. lp <= x1
  <2> HIDE DEF P, e, i, lp, hp, j, a, l, M
  <2> QED BY <1>1, <1>5
<1>13. Parted(q, t, "right", v)
  <2> HIDE DEF x1
  <2> QED BY <1>1, <1>5, <1>8, <1>10, <1>11, <1>12 DEF Parted
<1>14. Own(s, {s.hp + s.es, s.j}, q.es)
  <2>1. {s.hp + s.es, s.j} \in SUBSET P
    BY <1>1, <1>5
  <2> QED BY <1>1, <2>1, OwnPlaces
<1> QED BY <1>9, <1>13, <1>14, Partitions DEF t

\* a small one is exchanged with the large one that the lower end has found,
LEMMA RightSmall ==
  ASSUME NEW q, IsSort(q), NEW s, SortInv(q, s, "right"), ~(s.j <= s.hp),
         s.mem[s.hp] - s.mem[s.j] > 0, s.i # s.lp
  PROVE  SortInv(q, [s EXCEPT !.i = @ + s.es, !.j = @ - s.es,
                              !.mem = qsexc(@, s.i, s.j, q.es)], "left")
<1> DEFINE P == Place(q)
           e == q.es
           i == s.i
           lp == s.lp
           hp == s.hp
           j == s.j
           a == s.a
           l == s.l
           M == s.mem
<1>1. /\ s \in SortLocals(q) /\ s.es = e /\ e \in Nat \ {0} /\ P \subseteq Int
      /\ M \in [Around(q) -> Int] /\ \A w \in P : M[w] \in Int
      /\ a \in Int /\ l \in Int
      /\ i \in P /\ lp \in P /\ hp \in P /\ j \in P
      /\ i \in Int /\ lp \in Int /\ hp \in Int /\ j \in Int
      /\ a <= i /\ i <= lp /\ lp <= hp /\ hp <= j /\ j < l
      /\ \A x, y \in P : x < y => x + e <= y /\ x + e \in P /\ y - e \in P
  BY PartedFacts
<1>2. PICK v \in Int : Parted(q, s, "right", v)
  BY PartedFacts
<1>3. /\ \A x \in P : /\ a <= x /\ x < i => M[x] < v
                      /\ lp <= x /\ x <= hp => M[x] = v
                      /\ j < x /\ x < l => v < M[x]
      /\ i = lp \/ v < M[i]
  BY <1>2 DEF Parted
<1> DEFINE i1 == i + e
           j1 == j - e
           m == qsexc(M, i, j, e)
           t == [s EXCEPT !.i = @ + s.es, !.j = @ - s.es, !.mem = qsexc(@, s.i, s.j, q.es)]
<1>4. hp < j /\ M[hp] - M[j] > 0 /\ i < lp
  <2>1. ~(j <= hp) /\ M[hp] - M[j] > 0 /\ i # lp
    OBVIOUS
  <2> HIDE DEF P, e, i, lp, hp, j, a, l, M
  <2> QED BY <1>1, <2>1
<1>5. /\ i1 \in P /\ i1 \in Int /\ i < i1 /\ i1 <= lp /\ j1 \in P /\ j1 \in Int /\ j1 < j /\ hp <= j1
      /\ i < l /\ a <= j /\ M[j] < v /\ v < M[i] /\ a <= i1 /\ j1 < l
      /\ \A x \in P : x < i1 => x = i \/ x < i
      /\ \A x \in P : j1 < x => x = j \/ j < x
  <2> HIDE DEF P, e, i, lp, hp, j, a, l, M
  <2>1. /\ i1 \in P /\ i1 \in Int /\ i < i1 /\ i1 <= lp /\ j1 \in P /\ j1 \in Int /\ j1 < j /\ hp <= j1
        /\ i < l /\ a <= j /\ a <= i1 /\ j1 < l
    BY <1>1, <1>4
  <2>2. M[hp] = v /\ M[j] \in Int
    BY <1>1, <1>3
  <2>3. M[j] < v /\ v < M[i]
    BY <1>1, <1>3, <1>4, <2>2
  <2>4. ASSUME NEW x \in P, x < i1, x # i PROVE x < i
    <3>1. x \in Int /\ (i < x => i + e <= x)
      BY <1>1
    <3> QED BY <1>1, <2>1, <2>4, <3>1
  <2>5. ASSUME NEW x \in P, j1 < x, x # j PROVE j < x
    <3>1. x \in Int /\ (x < j => x + e <= j)
      BY <1>1
    <3> QED BY <1>1, <2>1, <2>5, <3>1
  <2> QED BY <2>1, <2>3, <2>4, <2>5
<1>6. m \in [Around(q) -> Int]
  <2>1. Moved(q, M, m, Swap(q, i, j))
    <3> HIDE DEF i, j, M
    <3> QED BY <1>1, QsexcIs
  <2> QED BY <2>1 DEF Moved
<1>7. t = [s EXCEPT !.i = i1, !.j = j1, !.mem = m]
  BY <1>1
<1>8. /\ t \in SortLocals(q) /\ t.i = i1 /\ t.lp = lp /\ t.hp = hp /\ t.j = j1
      /\ t.a = a /\ t.l = l /\ t.stack = s.stack /\ t.es = s.es /\ t.mem = m
  <2>1. i1 \in Int /\ j1 \in Int
    BY <1>5
  <2> HIDE DEF m, i1, j1, t
  <2> QED BY <1>1, <1>6, <1>7, <2>1 DEF SortLocals
<1> HIDE DEF t
<1>9. /\ Continues(q, s, t) /\ t.mem[i] = M[j] /\ t.mem[j] = M[i]
      /\ \A w \in P : w # i /\ w # j => t.mem[w] = M[w]
  <2> HIDE DEF i, j, i1, j1
  <2> QED BY <1>1, <1>5, <1>8, Exchanges
<1>10. \A x \in P : /\ a <= x /\ x < i1 => t.mem[x] < v
                    /\ lp <= x /\ x <= hp => t.mem[x] = v
                    /\ j1 < x /\ x < l => v < t.mem[x]
  <2> HIDE DEF P, e, i, lp, hp, j, a, l, M
  <2>1. ASSUME NEW x \in P, a <= x, x < i1 PROVE t.mem[x] < v
    <3>1. CASE x = i
      BY <1>5, <1>9, <3>1
    <3>2. CASE x # i
      <4>1. x < i /\ x # j /\ x \in Int
        BY <1>1, <1>4, <1>5, <2>1, <3>2
      <4> QED BY <1>3, <1>9, <2>1, <3>2, <4>1
    <3> QED BY <3>1, <3>2
  <2>2. ASSUME NEW x \in P, lp <= x, x <= hp PROVE t.mem[x] = v
    <3>1. x # i /\ x # j
      BY <1>1, <1>4, <2>2
    <3> QED BY <1>3, <1>9, <2>2, <3>1
  <2>3. ASSUME NEW x \in P, j1 < x, x < l PROVE v < t.mem[x]
    <3>1. CASE x = j
      BY <1>5, <1>9, <3>1
    <3>2. CASE x # j
      <4>1. j < x /\ x # i /\ x \in Int
        BY <1>1, <1>4, <1>5, <2>3, <3>2
      <4> QED BY <1>3, <1>9, <2>3, <3>2, <4>1
    <3> QED BY <3>1, <3>2
  <2> QED BY <2>1, <2>2, <2>3
<1>11. Parted(q, t, "left", v)
  <2> HIDE DEF i1, j1
  <2> QED BY <1>1, <1>5, <1>8, <1>10 DEF Parted
<1> QED BY <1>9, <1>11, Partitions DEF t

\* or, if there is none, goes below the middle, which makes room,
LEMMA RightBelow ==
  ASSUME NEW q, IsSort(q), NEW s, SortInv(q, s, "right"), ~(s.j <= s.hp),
         s.mem[s.hp] - s.mem[s.j] > 0, s.i = s.lp
  PROVE  SortInv(q, [s EXCEPT !.hp = @ + s.es, !.lp = @ + s.es, !.i = s.lp + s.es,
                              !.mem = qstexc(@, s.i, s.hp + s.es, s.j, q.es)], "right")
<1> DEFINE P == Place(q)
           e == q.es
           i == s.i
           lp == s.lp
           hp == s.hp
           j == s.j
           a == s.a
           l == s.l
           M == s.mem
<1>1. /\ s \in SortLocals(q) /\ s.es = e /\ e \in Nat \ {0} /\ P \subseteq Int
      /\ M \in [Around(q) -> Int] /\ \A w \in P : M[w] \in Int
      /\ a \in Int /\ l \in Int
      /\ i \in P /\ lp \in P /\ hp \in P /\ j \in P
      /\ i \in Int /\ lp \in Int /\ hp \in Int /\ j \in Int
      /\ a <= i /\ i <= lp /\ lp <= hp /\ hp <= j /\ j < l
      /\ \A x, y \in P : x < y => x + e <= y /\ x + e \in P /\ y - e \in P
  BY PartedFacts
<1>2. PICK v \in Int : Parted(q, s, "right", v)
  BY PartedFacts
<1>3. /\ \A x \in P : /\ a <= x /\ x < i => M[x] < v
                      /\ lp <= x /\ x <= hp => M[x] = v
                      /\ j < x /\ x < l => v < M[x]
      /\ i = lp \/ v < M[i]
  BY <1>2 DEF Parted
<1> DEFINE i1 == lp + e
           x1 == hp + e
           m == qstexc(M, i, x1, j, e)
           t == [s EXCEPT !.hp = @ + s.es, !.lp = @ + s.es, !.i = s.lp + s.es,
                          !.mem = qstexc(@, s.i, s.hp + s.es, s.j, q.es)]
<1>4. hp < j /\ M[hp] - M[j] > 0 /\ i = lp
  <2>1. ~(j <= hp) /\ M[hp] - M[j] > 0 /\ i = lp
    OBVIOUS
  <2> HIDE DEF P, e, i, lp, hp, j, a, l, M
  <2> QED BY <1>1, <2>1
<1>5. /\ i1 \in P /\ i1 \in Int /\ lp < i1 /\ i1 <= x1 /\ x1 \in P /\ x1 \in Int /\ hp < x1 /\ x1 <= j
      /\ i < l /\ a <= j /\ a <= x1 /\ x1 < l /\ a <= i1 /\ i # x1 /\ i # j
      /\ M[j] < v /\ M[lp] = v
      /\ \A x \in P : x < i1 => x = i \/ x < i
      /\ \A x \in P : i1 <= x => lp < x
      /\ \A x \in P : x <= x1 => x = x1 \/ x <= hp
  <2> HIDE DEF P, e, i, lp, hp, j, a, l, M
  <2>1. /\ x1 \in P /\ x1 \in Int /\ hp < x1 /\ x1 <= j /\ i < l /\ a <= j /\ a <= x1 /\ x1 < l
        /\ i # x1 /\ i # j
    BY <1>1, <1>4
  <2>2. i1 \in P /\ i1 \in Int /\ lp < i1 /\ i1 <= x1 /\ a <= i1
    <3>1. lp < j
      BY <1>1, <1>4
    <3> QED BY <1>1, <2>1, <3>1
  <2>3. M[hp] = v /\ M[j] \in Int /\ M[lp] = v
    BY <1>1, <1>3
  <2>4. M[j] < v
    BY <1>4, <2>3
  <2>5. ASSUME NEW x \in P, x < i1, x # i PROVE x < i
    <3>1. x \in Int /\ (lp < x => lp + e <= x)
      BY <1>1
    <3> QED BY <1>1, <1>4, <2>2, <2>5, <3>1
  <2>6. ASSUME NEW x \in P, i1 <= x PROVE lp < x
    <3>1. x \in Int
      BY <1>1
    <3> QED BY <1>1, <2>2, <2>6, <3>1
  <2>7. ASSUME NEW x \in P, x <= x1, x # x1 PROVE x <= hp
    <3>1. x \in Int /\ (hp < x => hp + e <= x)
      BY <1>1
    <3> QED BY <1>1, <2>1, <2>7, <3>1
  <2> QED BY <2>1, <2>2, <2>3, <2>4, <2>5, <2>6, <2>7
<1>6. m \in [Around(q) -> Int]
  <2>1. Moved(q, M, m, Turn(q, i, x1, j))
    <3> HIDE DEF i, j, M, x1
    <3> QED BY <1>1, <1>5, QstexcIs
  <2> QED BY <2>1 DEF Moved
<1>7. t = [s EXCEPT !.hp = x1, !.lp = i1, !.i = i1, !.mem = m]
  BY <1>1
<1>8. /\ t \in SortLocals(q) /\ t.i = i1 /\ t.lp = i1 /\ t.hp = x1 /\ t.j = j
      /\ t.a = a /\ t.l = l /\ t.stack = s.stack /\ t.es = s.es /\ t.mem = m
  <2>1. i1 \in Int /\ x1 \in Int
    BY <1>5
  <2> HIDE DEF m, i1, x1, t
  <2> QED BY <1>1, <1>6, <1>7, <2>1 DEF SortLocals
<1> HIDE DEF t
<1>9. /\ Continues(q, s, t) /\ t.mem[i] = M[j] /\ t.mem[x1] = M[i]
      /\ \A w \in P : w # i /\ w # x1 /\ w # j => t.mem[w] = M[w]
  <2> HIDE DEF i, j, i1, x1
  <2> QED BY <1>1, <1>5, <1>8, Rotates, SMTT(30)
<1>10. \A x \in P : /\ a <= x /\ x < i1 => t.mem[x] < v
                    /\ i1 <= x /\ x <= x1 => t.mem[x] = v
                    /\ j < x /\ x < l => v < t.mem[x]
  <2> HIDE DEF P, e, i, lp, hp, j, a, l, M
  <2>1. ASSUME NEW x \in P, a <= x, x < i1 PROVE t.mem[x] < v
    <3>1. CASE x = i
      BY <1>5, <1>9, <3>1
    <3>2. CASE x # i
      <4>1. x < i /\ x # j /\ x # x1 /\ x \in Int
        BY <1>1, <1>4, <1>5, <2>1, <3>2
      <4> QED BY <1>3, <1>9, <2>1, <3>2, <4>1
    <3> QED BY <3>1, <3>2
  <2>2. ASSUME NEW x \in P, i1 <= x, x <= x1 PROVE t.mem[x] = v
    <3>1. CASE x = x1
      BY <1>4, <1>5, <1>9, <3>1
    <3>2. CASE x # x1
      <4>1. lp < x /\ x <= hp /\ x \in Int
        BY <1>1, <1>5, <2>2, <3>2
      <4>2. x # i /\ x # j /\ lp <= x
        BY <1>1, <1>4, <4>1
      <4> QED BY <1>3, <1>9, <3>2, <4>1, <4>2
    <3> QED BY <3>1, <3>2
  <2>3. ASSUME NEW x \in P, j < x, x < l PROVE v < t.mem[x]
    <3>1. x # i /\ x # j /\ x # x1 /\ x \in Int
      BY <1>1, <1>4, <1>5, <2>3
    <3> QED BY <1>3, <1>9, <2>3, <3>1
  <2> QED BY <2>1, <2>2, <2>3
<1>11. Parted(q, t, "right", v)
  <2> HIDE DEF i1, x1
  <2> QED BY <1>1, <1>5, <1>8, <1>10 DEF Parted
<1> QED BY <1>9, <1>11, Partitions DEF t

\* and when the upper end has met the middle the large one of the lower end goes above it.
LEMMA RightAbove ==
  ASSUME NEW q, IsSort(q), NEW s, SortInv(q, s, "right"), s.j <= s.hp, s.i # s.lp
  PROVE  /\ Own(s, {s.j, s.lp - s.es, s.i}, q.es)
         /\ SortInv(q, [s EXCEPT !.lp = @ - s.es, !.hp = @ - s.es, !.j = s.hp - s.es,
                                 !.mem = qstexc(@, s.j, s.lp - s.es, s.i, q.es)], "left")
<1> DEFINE P == Place(q)
           e == q.es
           i == s.i
           lp == s.lp
           hp == s.hp
           j == s.j
           a == s.a
           l == s.l
           M == s.mem
<1>1. /\ s \in SortLocals(q) /\ s.es = e /\ e \in Nat \ {0} /\ P \subseteq Int
      /\ M \in [Around(q) -> Int] /\ \A w \in P : M[w] \in Int
      /\ a \in Int /\ l \in Int
      /\ i \in P /\ lp \in P /\ hp \in P /\ j \in P
      /\ i \in Int /\ lp \in Int /\ hp \in Int /\ j \in Int
      /\ a <= i /\ i <= lp /\ lp <= hp /\ hp <= j /\ j < l
      /\ \A x, y \in P : x < y => x + e <= y /\ x + e \in P /\ y - e \in P
  BY PartedFacts
<1>2. PICK v \in Int : Parted(q, s, "right", v)
  BY PartedFacts
<1>3. /\ \A x \in P : /\ a <= x /\ x < i => M[x] < v
                      /\ lp <= x /\ x <= hp => M[x] = v
                      /\ j < x /\ x < l => v < M[x]
      /\ i = lp \/ v < M[i]
  BY <1>2 DEF Parted
<1> DEFINE y1 == lp - e
           x1 == hp - e
           m == qstexc(M, j, y1, i, e)
           t == [s EXCEPT !.lp = @ - s.es, !.hp = @ - s.es, !.j = s.hp - s.es,
                          !.mem = qstexc(@, s.j, s.lp - s.es, s.i, q.es)]
<1>4. j = hp /\ i < lp
  <2>1. j <= hp /\ i # lp
    OBVIOUS
  <2> HIDE DEF P, e, i, lp, hp, j, a, l, M
  <2> QED BY <1>1, <2>1
<1>5. /\ y1 \in P /\ y1 \in Int /\ y1 < lp /\ i <= y1 /\ x1 \in P /\ x1 \in Int /\ x1 < hp /\ y1 <= x1
      /\ i < l /\ a <= j /\ a <= y1 /\ y1 < l /\ x1 < l /\ j # y1 /\ j # i
      /\ M[hp] = v /\ v < M[i]
      /\ \A x \in P : y1 <= x => x = y1 \/ lp <= x
      /\ \A x \in P : x <= x1 => x < hp
      /\ \A x \in P : x1 < x => x = hp \/ hp < x
  <2> HIDE DEF P, e, i, lp, hp, j, a, l, M
  <2>1. y1 \in P /\ y1 \in Int /\ y1 < lp /\ i <= y1 /\ a <= y1 /\ y1 < l /\ i < l /\ a <= j
        /\ j # y1 /\ j # i
    BY <1>1, <1>4
  <2>2. x1 \in P /\ x1 \in Int /\ x1 < hp /\ y1 <= x1 /\ x1 < l
    <3>1. i < hp
      BY <1>1, <1>4
    <3> QED BY <1>1, <2>1, <3>1
  <2>3. M[hp] = v /\ v < M[i]
    BY <1>1, <1>3, <1>4
  <2>4. ASSUME NEW x \in P, y1 <= x, x # y1 PROVE lp <= x
    <3>1. x \in Int /\ (x < lp => x + e <= lp)
      BY <1>1
    <3> QED BY <1>1, <2>1, <2>4, <3>1
  <2>5. ASSUME NEW x \in P, x <= x1 PROVE x < hp
    <3>1. x \in Int
      BY <1>1
    <3> QED BY <1>1, <2>2, <2>5, <3>1
  <2>6. ASSUME NEW x \in P, x1 < x, x # hp PROVE hp < x
    <3>1. x \in Int /\ (x < hp => x + e <= hp)
      BY <1>1
    <3> QED BY <1>1, <2>2, <2>6, <3>1
  <2> QED BY <2>1, <2>2, <2>3, <2>4, <2>5, <2>6
<1>6. m \in [Around(q) -> Int]
  <2>1. Moved(q, M, m, Turn(q, j, y1, i))
    <3> HIDE DEF i, j, M, y1
    <3> QED BY <1>1, <1>5, QstexcIs
  <2> QED BY <2>1 DEF Moved
<1>7. t = [s EXCEPT !.lp = y1, !.hp = x1, !.j = x1, !.mem = m]
  BY <1>1
<1>8. /\ t \in SortLocals(q) /\ t.i = i /\ t.lp = y1 /\ t.hp = x1 /\ t.j = x1
      /\ t.a = a /\ t.l = l /\ t.stack = s.stack /\ t.es = s.es /\ t.mem = m
  <2>1. y1 \in Int /\ x1 \in Int
    BY <1>5
  <2> HIDE DEF m, y1, x1, t
  <2> QED BY <1>1, <1>6, <1>7, <2>1 DEF SortLocals
<1> HIDE DEF t
<1>9. /\ Continues(q, s, t) /\ t.mem[j] = M[i] /\ t.mem[y1] = M[j]
      /\ \A w \in P : w # i /\ w # y1 /\ w # j => t.mem[w] = M[w]
  <2> HIDE DEF i, j, y1, x1
  <2> QED BY <1>1, <1>5, <1>8, Rotates
<1>10. \A x \in P : /\ a <= x /\ x < i => t.mem[x] < v
                    /\ y1 <= x /\ x <= x1 => t.mem[x] = v
                    /\ x1 < x /\ x < l => v < t.mem[x]
  <2> HIDE DEF P, e, i, lp, hp, j, a, l, M
  <2>1. ASSUME NEW x \in P, a <= x, x < i PROVE t.mem[x] < v
    <3>1. x # i /\ x # j /\ x # y1 /\ x \in Int
      BY <1>1, <1>4, <1>5, <2>1
    <3> QED BY <1>3, <1>9, <2>1, <3>1
  <2>2. ASSUME NEW x \in P, y1 <= x, x <= x1 PROVE t.mem[x] = v
    <3>1. CASE x = y1
      BY <1>4, <1>5, <1>9, <3>1
    <3>2. CASE x # y1
      <4>1. lp <= x /\ x < hp /\ x \in Int
        BY <1>1, <1>5, <2>2, <3>2
      <4>2. x # i /\ x # j /\ x <= hp
        BY <1>1, <1>4, <4>1
      <4> QED BY <1>3, <1>9, <3>2, <4>1, <4>2
    <3> QED BY <3>1, <3>2
  <2>3. ASSUME NEW x \in P, x1 < x, x < l PROVE v < t.mem[x]
    <3>1. CASE x = hp
      BY <1>4, <1>5, <1>9, <3>1
    <3>2. CASE x # hp
      <4>1. hp < x /\ x \in Int
        BY <1>1, <1>5, <2>3, <3>2
      <4>2. x # i /\ x # j /\ x # y1 /\ j < x
        BY <1>1, <1>4, <1>5, <4>1
      <4> QED BY <1>3, <1>9, <2>3, <4>2
    <3> QED BY <3>1, <3>2
  <2> QED BY <2>1, <2>2, <2>3
<1>11. Parted(q, t, "left", v)
  <2> HIDE DEF y1, x1
  <2> QED BY <1>1, <1>5, <1>8, <1>10 DEF Parted
<1>12. Own(s, {s.j, s.lp - s.es, s.i}, q.es)
  <2>1. {s.j, s.lp - s.es, s.i} \in SUBSET P
    BY <1>1, <1>5
  <2> QED BY <1>1, <2>1, OwnPlaces
<1> QED BY <1>9, <1>11, <1>12, Partitions DEF t

\* f is Doublings as far as n.
Doubles(f, n) ==
  f \in [0 .. n -> Nat \ {0}] /\ f[0] = 1 /\ \A i \in 1 .. n : f[i] = 2 * f[i - 1]

\* There is such a function, and only one.
LEMMA DoublesOne ==
  ASSUME NEW n \in Nat
  PROVE  /\ \E f : Doubles(f, n)
         /\ \A m \in n .. n + 1 : \A f, g : Doubles(f, n) /\ Doubles(g, m) => f[n] = g[n]
<1> DEFINE U == {m \in Nat : \E f : Doubles(f, m)}
<1>1. 0 \in U
  <2> DEFINE f == [i \in 0 .. 0 |-> 1]
  <2>1. Doubles(f, 0)
    BY DEF Doubles
  <2> QED BY <2>1
<1>2. ASSUME NEW i \in 1 .. n, i - 1 \in U PROVE i \in U
  <2>1. PICK f : Doubles(f, i - 1)
    BY <1>2
  <2> DEFINE g == [k \in 0 .. i |-> IF k = i THEN 2 * f[i - 1] ELSE f[k]]
  <2>2. /\ f \in [0 .. i - 1 -> Nat \ {0}] /\ f[0] = 1
        /\ \A k \in 1 .. i - 1 : f[k] = 2 * f[k - 1]
    BY <2>1 DEF Doubles
  <2>3. /\ i \in Nat /\ i - 1 \in 0 .. i - 1 /\ i # 0 /\ 0 \in 0 .. i - 1 /\ i \in 0 .. i
        /\ \A k \in 0 .. i : k # i => k \in 0 .. i - 1
        /\ \A k \in 1 .. i : k - 1 # i /\ k - 1 \in 0 .. i /\ k \in 0 .. i /\ (k # i => k \in 1 .. i - 1)
    OBVIOUS
  <2>4. g \in [0 .. i -> Nat \ {0}]
    <3>1. f[i - 1] \in Nat \ {0}
      BY <2>2, <2>3
    <3>2. 2 * f[i - 1] \in Nat \ {0}
      BY <3>1
    <3> QED BY <2>2, <2>3, <3>2
  <2>5. g[0] = 1
    BY <2>2, <2>3
  <2>6. \A k \in 1 .. i : g[k] = 2 * g[k - 1]
    BY <2>2, <2>3
  <2>7. Doubles(g, i)
    <3> HIDE DEF g
    <3> QED BY <2>4, <2>5, <2>6 DEF Doubles
  <2> QED BY <2>3, <2>7
<1>3. n \in U
  <2>1. 0 .. n \subseteq U
    <3> HIDE DEF U
    <3> QED BY <1>1, <1>2, Counting
  <2> QED BY <2>1
<1>4. ASSUME NEW m \in n .. n + 1, NEW f, NEW g, Doubles(f, n), Doubles(g, m)
      PROVE  f[n] = g[n]
  <2>1. f[0] = g[0] /\ \A i \in 1 .. n : f[i] = 2 * f[i - 1] /\ g[i] = 2 * g[i - 1]
    BY <1>4, SMTT(30) DEF Doubles
  <2>2. \A i \in 0 .. n : f[i] = g[i]
    <3>1. \A i \in 1 .. n : f[i - 1] = g[i - 1] => f[i] = g[i]
      BY <2>1
    <3> QED BY <2>1, <3>1, SameWalk
  <2> QED BY <2>2
<1> QED BY <1>3, <1>4

\* So Doublings, which is defined by recursion, doubles.
LEMMA DoublingsAre ==
  /\ Doublings[0] = 1
  /\ \A d \in Nat : Doublings[d] \in Nat \ {0} /\ Doublings[d + 1] = 2 * Doublings[d]
<1> DEFINE Upto(n) == CHOOSE f : Doubles(f, n)
           D == [d \in Nat |-> Upto(d)[d]]
           Iter(f) == [d \in Nat |-> IF d = 0 THEN 1 ELSE 2 * f[d - 1]]
<1>1. ASSUME NEW n \in Nat PROVE Doubles(Upto(n), n)
  BY <1>1, DoublesOne
<1>2. ASSUME NEW d \in Nat PROVE D[d] \in Nat \ {0} /\ D[d + 1] = 2 * D[d]
  <2> DEFINE f == Upto(d)
             g == Upto(d + 1)
  <2>1. Doubles(f, d) /\ Doubles(g, d + 1) /\ d + 1 \in Nat /\ d + 1 \in d .. d + 1
    <3> HIDE DEF Upto
    <3> QED BY <1>1
  <2>2. f[d] = g[d]
    <3> HIDE DEF f, g
    <3> QED BY <2>1, DoublesOne
  <2>3. f[d] \in Nat \ {0} /\ g[d + 1] = 2 * g[d]
    <3> HIDE DEF f, g
    <3>1. d \in 0 .. d /\ d + 1 \in 1 .. d + 1 /\ (d + 1) - 1 = d
      OBVIOUS
    <3> QED BY <2>1, <3>1 DEF Doubles
  <2>4. D[d] = f[d] /\ D[d + 1] = g[d + 1]
    <3> HIDE DEF Upto
    <3> QED BY <2>1
  <2> HIDE DEF D, f, g
  <2> QED BY <2>2, <2>3, <2>4
<1>3. D[0] = 1
  <2>1. Doubles(Upto(0), 0)
    BY <1>1
  <2>2. D[0] = Upto(0)[0]
    <3> HIDE DEF Upto
    <3> QED OBVIOUS
  <2> HIDE DEF D, Upto
  <2> QED BY <2>1, <2>2 DEF Doubles
<1>4. D = Iter(D)
  <2>1. ASSUME NEW d \in Nat PROVE D[d] = Iter(D)[d]
    <3>1. CASE d = 0
      <4> HIDE DEF D
      <4> QED BY <1>3, <3>1
    <3>2. CASE d # 0
      <4>1. d - 1 \in Nat /\ (d - 1) + 1 = d
        BY <3>2
      <4> HIDE DEF D
      <4>2. D[d] = 2 * D[d - 1]
        BY <1>2, <4>1
      <4> QED BY <3>2, <4>2
    <3> QED BY <3>1, <3>2
  <2>2. D = [d \in Nat |-> D[d]]
    <3> HIDE DEF Upto
    <3> QED OBVIOUS
  <2>3. [d \in Nat |-> D[d]] = [d \in Nat |-> Iter(D)[d]]
    <3> HIDE DEF D, Iter
    <3> QED BY <2>1, Zenon
  <2>4. [d \in Nat |-> Iter(D)[d]] = Iter(D)
    <3> HIDE DEF D
    <3> QED OBVIOUS
  <2> HIDE DEF D, Iter
  <2> QED BY <2>2, <2>3, <2>4, Zenon
<1>5. Doublings = CHOOSE f : f = Iter(f)
  BY Zenon DEF Doublings
<1>6. Doublings = Iter(Doublings)
  <2> HIDE DEF D, Iter
  <2> QED BY <1>4, <1>5, Zenon
<1>7. ASSUME NEW d \in Nat PROVE Doublings[d] = IF d = 0 THEN 1 ELSE 2 * Doublings[d - 1]
  <2>1. Iter(Doublings)[d] = IF d = 0 THEN 1 ELSE 2 * Doublings[d - 1]
    OBVIOUS
  <2> HIDE DEF Iter
  <2> QED BY <1>6, <2>1, Zenon
<1>8. \A d \in Nat : Doublings[d] = D[d]
  <2> SUFFICES ASSUME NEW n \in Nat PROVE Doublings[n] = D[n]
    OBVIOUS
  <2>1. Doublings[0] = D[0]
    BY <1>3, <1>7
  <2>2. ASSUME NEW i \in 1 .. n, Doublings[i - 1] = D[i - 1] PROVE Doublings[i] = D[i]
    <3>1. i \in Nat /\ i - 1 \in Nat /\ i # 0 /\ (i - 1) + 1 = i
      OBVIOUS
    <3> HIDE DEF D
    <3>2. D[i] = 2 * D[i - 1] /\ Doublings[i] = 2 * Doublings[i - 1]
      BY <1>2, <1>7, <3>1
    <3> QED BY <2>2, <3>2
  <2> HIDE DEF D
  <2>3. \A i \in 0 .. n : Doublings[i] = D[i]
    BY <2>1, <2>2, SameWalk
  <2> QED BY <2>3
<1> HIDE DEF D
<1> QED BY <1>2, <1>3, <1>8

\* What it touches meanwhile is the program's own.
LEMMA RightOwn ==
  ASSUME NEW q, IsSort(q), NEW s, SortInv(q, s, "right"), ~(s.j <= s.hp)
  PROVE  Own(s, {s.hp, s.j}, 1) /\ Own(s, {s.i, s.hp + s.es, s.j}, q.es)
<1>1. /\ s \in SortLocals(q) /\ s.es = q.es /\ s.i \in Place(q) /\ s.hp \in Place(q) /\ s.j \in Place(q)
      /\ s.hp \in Int /\ s.j \in Int
      /\ \A x, y \in Place(q) : x < y => x + q.es \in Place(q)
  BY PartedFacts
<1>2. s.hp + s.es \in Place(q)
  <2>1. s.hp < s.j
    BY <1>1
  <2> QED BY <1>1, <2>1
<1>3. {s.hp, s.j} \in SUBSET Place(q) /\ {s.i, s.hp + s.es, s.j} \in SUBSET Place(q)
  BY <1>1, <1>2
<1> QED BY <1>1, <1>3, OwnPlaces

\* qs1() goes on with the range from a1 to l1, and leaves the one from a2 to l2 to wait.
WithCall(s, a1, l1, a2, l2) ==
  [s EXCEPT !.a = a1, !.l = l1, !.stack = <<[a |-> a2, l |-> l2, es |-> s.es]>> \o @]

\* t is s with one call more.
OneMore(q, s, t, a1, l1, a2, l2) ==
  /\ t \in SortLocals(q) /\ t.mem = s.mem /\ t.es = s.es
  /\ Len(t.stack) = Len(s.stack) + 1
  /\ Low(t, 0) = a1 /\ High(t, 0) = l1 /\ Low(t, 1) = a2 /\ High(t, 1) = l2
  /\ \A k \in 1 .. Len(s.stack) : Low(t, k + 1) = Low(s, k) /\ High(t, k + 1) = High(s, k)

\* A call is made: the range at hand is another, and one more waits.
LEMMA Pushed ==
  ASSUME NEW q, IsSort(q), NEW s \in SortLocals(q), s.es = q.es,
         NEW a1 \in Bound(q), NEW l1 \in Bound(q), NEW a2 \in Bound(q), NEW l2 \in Bound(q),
         NEW t, t = WithCall(s, a1, l1, a2, l2)
  PROVE  OneMore(q, s, t, a1, l1, a2, l2)
<1> DEFINE w == [a |-> a2, l |-> l2, es |-> s.es]
           old == s.stack
           new == <<w>> \o old
           n == Len(old)
<1>1. w \in Waiting(q) /\ w.a = a2 /\ w.l = l2
  BY DEF Waiting
<1>2. old \in Seq(Waiting(q)) /\ n \in Nat
  BY SortFields
<1>3. /\ new \in Seq(Waiting(q)) /\ Len(new) = n + 1 /\ new[1] = w
      /\ \A k \in 1 .. n : new[k + 1] = old[k]
  <2> HIDE DEF w, old
  <2>1. <<w>> \in Seq(Waiting(q)) /\ Len(<<w>>) = 1 /\ <<w>>[1] = w /\ 1 \in 1 .. 1
    BY <1>1
  <2>2. /\ new \in Seq(Waiting(q)) /\ Len(new) = 1 + n /\ new[1] = w
        /\ \A k \in 1 .. n : new[1 + k] = old[k]
    <3> DEFINE one == <<w>>
    <3>1. one \in Seq(Waiting(q)) /\ Len(one) = 1 /\ one[1] = w /\ 1 \in 1 .. 1
      BY <2>1
    <3> HIDE DEF one
    <3>2. /\ one \o old \in Seq(Waiting(q)) /\ Len(one \o old) = Len(one) + Len(old)
          /\ \A i \in 1 .. Len(one) : (one \o old)[i] = one[i]
          /\ \A i \in 1 .. Len(old) : (one \o old)[Len(one) + i] = old[i]
      <4> DEFINE S == Waiting(q)
      <4>1. one \in Seq(S) /\ old \in Seq(S)
        BY <1>2, <3>1
      <4> HIDE DEF S, n
      <4>2. /\ one \o old \in Seq(S) /\ Len(one \o old) = Len(one) + Len(old)
            /\ \A i \in 1 .. Len(one) : (one \o old)[i] = one[i]
            /\ \A i \in 1 .. Len(old) : (one \o old)[Len(one) + i] = old[i]
        BY <4>1, ConcatElements
      <4> QED BY <4>2 DEF S
    <3>3. new = one \o old
      BY DEF one
    <3> HIDE DEF new
    <3> QED BY <3>1, <3>2, <3>3
  <2>3. 1 + n = n + 1 /\ \A k \in 1 .. n : 1 + k = k + 1
    <3> HIDE DEF n
    <3> QED BY <1>2
  <2> HIDE DEF new, n
  <2> QED BY <2>2, <2>3
<1>4. /\ t \in SortLocals(q) /\ t.mem = s.mem /\ t.es = s.es /\ t.a = a1 /\ t.l = l1
      /\ t.stack = new
  <2>1. t = [s EXCEPT !.a = a1, !.l = l1, !.stack = new]
    BY DEF WithCall
  <2> HIDE DEF new
  <2> QED BY <1>3, <2>1 DEF SortLocals
<1>5. /\ Low(t, 0) = a1 /\ High(t, 0) = l1 /\ Low(t, 1) = a2 /\ High(t, 1) = l2
  <2> HIDE DEF new, w
  <2> QED BY <1>1, <1>3, <1>4 DEF Low, High
<1>6. \A k \in 1 .. n : Low(t, k + 1) = Low(s, k) /\ High(t, k + 1) = High(s, k)
  <2> SUFFICES ASSUME NEW k \in 1 .. n
               PROVE  Low(t, k + 1) = Low(s, k) /\ High(t, k + 1) = High(s, k)
    OBVIOUS
  <2>1. k # 0 /\ k + 1 # 0
    <3> HIDE DEF n
    <3> QED BY <1>2
  <2>2. new[k + 1] = old[k]
    BY <1>3
  <2> HIDE DEF new
  <2> QED BY <1>4, <2>1, <2>2 DEF Low, High
<1> HIDE DEF new
<1> QED BY <1>3, <1>4, <1>5, <1>6 DEF OneMore

\* Both ends met the middle: what is below it and what is above it are sorted next.
LEMMA Splits ==
  ASSUME NEW q, IsSort(q), NEW s, SortInv(q, s, "right"), s.j <= s.hp, s.i = s.lp,
         NEW a1, NEW l1, NEW a2, NEW l2,
         \/ a1 = s.a /\ l1 = s.lp /\ a2 = s.hp + s.es /\ l2 = s.l
         \/ a2 = s.a /\ l2 = s.lp /\ a1 = s.hp + s.es /\ l1 = s.l,
         2 * (l1 - a1) <= s.l - s.a,
         NEW t, t = WithCall(s, a1, l1, a2, l2)
  PROVE  SortInv(q, t, "enter")
<1> DEFINE P == Place(q)
           B == Bound(q)
           N == Len(q.data)
           e == q.es
           a == s.a
           l == s.l
           lp == s.lp
           hp == s.hp
           M == s.mem
           n == Len(s.stack)
<1>1. /\ s \in SortLocals(q) /\ s.es = e /\ e \in Nat \ {0} /\ N \in Nat /\ P \subseteq B /\ B \subseteq Int
      /\ \A w \in P : M[w] \in Int
      /\ a \in B /\ l \in B /\ lp \in P /\ hp \in P /\ hp + e \in B
      /\ a <= lp /\ lp <= hp /\ hp + e <= l /\ a + e < l /\ hp = s.j
      /\ Rearranged(q, M) /\ Apart(s) /\ Halved(q, s) /\ InOrder(q, s)
      /\ \A x, y \in B : x < y => x + e <= y
      /\ \A x \in P : x + e \in B
  <2>1. /\ s \in SortLocals(q) /\ s.es = e /\ e \in Nat \ {0} /\ \A w \in P : M[w] \in Int
        /\ s.i \in Int /\ lp \in P /\ hp \in P /\ s.j \in Int
        /\ a <= s.i /\ s.i <= lp /\ lp <= hp /\ hp <= s.j /\ s.j < l /\ l - a > e
    BY PartedFacts
  <2>2. /\ N \in Nat /\ P \subseteq B /\ B \subseteq Int
        /\ \A x, y \in B : x < y => x + e <= y
        /\ \A x \in P : x + e \in B
    BY Places
  <2>3. a \in B /\ l \in B
    BY <2>1, SortFields
  <2>4. Rearranged(q, M) /\ Apart(s) /\ Halved(q, s) /\ InOrder(q, s)
    BY DEF SortInv
  <2>5. a \in Int /\ l \in Int /\ lp \in Int /\ hp \in Int /\ lp \in B /\ hp \in B
    BY <2>1, <2>2, <2>3
  <2>6. hp = s.j /\ hp < l /\ a <= lp /\ a + e < l
    BY <2>1, <2>5
  <2>7. hp + e \in B /\ hp + e <= l
    BY <2>1, <2>2, <2>3, <2>5, <2>6
  <2> QED BY <2>1, <2>2, <2>3, <2>4, <2>6, <2>7
<1>2. PICK v \in Int : Parted(q, s, "right", v)
  BY PartedFacts
<1>3. \A x \in P : /\ a <= x /\ x < lp => M[x] < v
                   /\ lp <= x /\ x <= hp => M[x] = v
                   /\ hp < x /\ x < l => v < M[x]
  BY <1>1, <1>2 DEF Parted
<1>4. /\ a1 \in B /\ l1 \in B /\ a2 \in B /\ l2 \in B
      /\ a1 \in Int /\ l1 \in Int /\ a2 \in Int /\ l2 \in Int /\ a \in Int /\ l \in Int
      /\ lp \in Int /\ hp \in Int /\ lp \in B /\ hp \in B
      /\ \/ a1 = a /\ l1 = lp /\ a2 = hp + e /\ l2 = l
         \/ a2 = a /\ l2 = lp /\ a1 = hp + e /\ l1 = l
  <2> HIDE DEF P, B, e, lp, hp, a, l
  <2> QED BY <1>1 DEF lp, hp, a, l
<1>5. /\ a <= a1 /\ a1 <= l1 /\ l1 <= l /\ a <= a2 /\ a2 <= l2 /\ l2 <= l
      /\ l1 <= a2 \/ l2 <= a1
      /\ 2 * (l1 - a1) <= l - a /\ l2 - a2 <= l - a
  <2>1. 2 * (l1 - a1) <= l - a
    OBVIOUS
  <2> HIDE DEF P, B, e, lp, hp, a, l, N, M
  <2> QED BY <1>1, <1>4, <2>1
<1>6. /\ t \in SortLocals(q) /\ t.mem = M /\ t.es = e
      /\ Len(t.stack) = n + 1
      /\ Low(t, 0) = a1 /\ High(t, 0) = l1 /\ Low(t, 1) = a2 /\ High(t, 1) = l2
      /\ \A k \in 1 .. n : Low(t, k + 1) = Low(s, k) /\ High(t, k + 1) = High(s, k)
  <2>1. s \in SortLocals(q) /\ s.es = q.es
    BY <1>1
  <2>2. a1 \in Bound(q) /\ l1 \in Bound(q) /\ a2 \in Bound(q) /\ l2 \in Bound(q)
    BY <1>4
  <2>3. t = WithCall(s, a1, l1, a2, l2)
    OBVIOUS
  <2> HIDE DEF B, e, M, n, N, P, a, l
  <2>4. OneMore(q, s, t, a1, l1, a2, l2)
    BY <2>1, <2>2, <2>3, Pushed
  <2> QED BY <1>1, <2>4 DEF M, n, OneMore
<1>7. /\ n \in Nat /\ 0 \in Ranges(s) /\ Low(s, 0) = a /\ High(s, 0) = l
      /\ Ranges(s) = 0 .. n
      /\ \A k \in Ranges(s) : Low(s, k) \in B /\ High(s, k) \in B
      /\ Ranges(t) = 0 .. n + 1
  BY <1>1, <1>6, RangesIn DEF Ranges
<1>8. \A k \in Ranges(t) : k = 0 \/ k = 1 \/ \E m \in 1 .. n : k = m + 1
  <2> SUFFICES ASSUME NEW k \in 0 .. n + 1, k # 0, k # 1 PROVE \E m \in 1 .. n : k = m + 1
    BY <1>7
  <2>1. k - 1 \in 1 .. n /\ k = (k - 1) + 1
    <3> HIDE DEF n
    <3> QED BY <1>7
  <2> QED BY <2>1
<1>9. \A k \in 1 .. n : /\ Low(s, k) \in Int /\ High(s, k) \in Int /\ Low(s, k) <= High(s, k)
                        /\ l <= Low(s, k) \/ High(s, k) <= a
                        /\ k \in Ranges(s) /\ k \in Int
  <2> SUFFICES ASSUME NEW k \in 1 .. n
               PROVE  /\ Low(s, k) \in Int /\ High(s, k) \in Int /\ Low(s, k) <= High(s, k)
                      /\ l <= Low(s, k) \/ High(s, k) <= a
                      /\ k \in Ranges(s) /\ k \in Int
    OBVIOUS
  <2>1. k \in Ranges(s) /\ k \in Int /\ 0 < k
    <3> HIDE DEF n
    <3> QED BY <1>7
  <2> HIDE DEF n, B
  <2> QED BY <1>1, <1>7, <2>1 DEF Apart
<1>10. Apart(t)
  <2>1. ASSUME NEW k \in Ranges(t) PROVE Low(t, k) <= High(t, k)
    <3> HIDE DEF P, B, e, lp, hp, a, l, N, M, n
    <3> QED BY <1>5, <1>6, <1>8, <1>9
  <2>2. ASSUME NEW k \in Ranges(t), NEW m \in Ranges(t), k < m
        PROVE  High(t, k) <= Low(t, m) \/ High(t, m) <= Low(t, k)
    <3> HIDE DEF P, B, e, lp, hp, a, l, N, M, n
    <3>1. CASE m = 0 \/ m = 1
      <4>1. k = 0 /\ m = 1
        BY <1>8, <1>9, <2>2, <3>1
      <4> QED BY <1>5, <1>6, <4>1
    <3>2. ASSUME NEW m1 \in 1 .. n, m = m1 + 1
          PROVE  High(t, k) <= Low(t, m) \/ High(t, m) <= Low(t, k)
      <4>1. CASE k = 0 \/ k = 1
        <5>1. /\ High(t, k) \in Int /\ Low(t, k) \in Int /\ a <= Low(t, k) /\ High(t, k) <= l
              /\ Low(t, m) = Low(s, m1) /\ High(t, m) = High(s, m1)
          BY <1>4, <1>5, <1>6, <3>2, <4>1
        <5>2. Low(s, m1) \in Int /\ High(s, m1) \in Int /\ (l <= Low(s, m1) \/ High(s, m1) <= a)
          BY <1>9
        <5> QED BY <1>4, <5>1, <5>2
      <4>2. ASSUME NEW k1 \in 1 .. n, k = k1 + 1
            PROVE  High(t, k) <= Low(t, m) \/ High(t, m) <= Low(t, k)
        <5>1. k1 \in Ranges(s) /\ m1 \in Ranges(s) /\ k1 < m1
          BY <1>9, <2>2, <3>2, <4>2
        <5> QED BY <1>1, <1>6, <3>2, <4>2, <5>1 DEF Apart
      <4> QED BY <1>8, <4>1, <4>2
    <3> QED BY <1>8, <3>1, <3>2
  <2> QED BY <2>1, <2>2 DEF Apart
<1>11. Halved(q, t)
  <2> DEFINE D == Doublings[n]
             D2 == Doublings[n + 1]
             G(k) == (High(s, k) - Low(s, k)) * Doublings[n - k]
  <2>1. D \in Nat \ {0} /\ D2 = 2 * D
    BY <1>7, DoublingsAre
  <2>2. (l - a) * D <= N
    <3>1. G(0) <= N
      BY <1>1, <1>7 DEF Halved
    <3>2. n - 0 = n
      <4> HIDE DEF n
      <4> QED BY <1>7
    <3> QED BY <1>7, <3>1, <3>2
  <2>3. ASSUME NEW x \in Int, 2 * x <= l - a PROVE x * D2 <= N
    <3> HIDE DEF D, D2, a, l, N
    <3>1. (2 * x) * D <= (l - a) * D
      <4>1. ASSUME NEW y \in Int, NEW z \in Int, y <= z PROVE y * D <= z * D
        BY <2>1, <4>1
      <4>2. 2 * x \in Int /\ l - a \in Int
        BY <1>4
      <4> QED BY <2>3, <4>1, <4>2
    <3>2. (2 * x) * D = x * D2
      BY <2>1
    <3>3. (2 * x) * D \in Int /\ (l - a) * D \in Int
      BY <1>4, <2>1
    <3> QED BY <1>1, <2>2, <3>1, <3>2, <3>3
  <2>4. ASSUME NEW x \in Int, x <= l - a PROVE x * D <= N
    <3> HIDE DEF D, D2, a, l, N
    <3>1. x * D <= (l - a) * D
      <4>1. l - a \in Int
        BY <1>4
      <4> DEFINE y == l - a
      <4> HIDE DEF y
      <4>2. y \in Int /\ x <= y
        BY <2>4, <4>1 DEF y
      <4>3. x * D <= y * D
        BY <2>1, <4>2
      <4> QED BY <4>3 DEF y
    <3>2. x * D \in Int /\ (l - a) * D \in Int
      BY <1>4, <2>1
    <3> QED BY <1>1, <2>2, <3>1, <3>2
  <2>5. ASSUME NEW k \in Ranges(t)
        PROVE  (High(t, k) - Low(t, k)) * Doublings[(n + 1) - k] <= N
    <3>1. CASE k = 0
      <4>1. (n + 1) - k = n + 1
        <5> HIDE DEF n
        <5> QED BY <1>7, <3>1
      <4>2. l1 - a1 \in Int /\ 2 * (l1 - a1) <= l - a
        BY <1>4, <1>5
      <4>3. (l1 - a1) * D2 <= N
        <5> HIDE DEF D2, N, a, l
        <5> QED BY <2>3, <4>2
      <4> QED BY <1>6, <3>1, <4>1, <4>3
    <3>2. CASE k = 1
      <4>1. (n + 1) - k = n
        <5> HIDE DEF n
        <5> QED BY <1>7, <3>2
      <4>2. l2 - a2 \in Int /\ l2 - a2 <= l - a
        BY <1>4, <1>5
      <4>3. (l2 - a2) * D <= N
        <5> HIDE DEF D, N, a, l
        <5> QED BY <2>4, <4>2
      <4> QED BY <1>6, <3>2, <4>1, <4>3
    <3>3. ASSUME NEW m \in 1 .. n, k = m + 1
          PROVE  (High(t, k) - Low(t, k)) * Doublings[(n + 1) - k] <= N
      <4>1. (n + 1) - k = n - m /\ m \in Ranges(s)
        <5> HIDE DEF n
        <5> QED BY <1>7, <3>3
      <4>2. G(m) <= N
        <5> QED BY <1>1, <1>7, <4>1 DEF Halved
      <4>3. High(t, k) = High(s, m) /\ Low(t, k) = Low(s, m)
        BY <1>6, <3>3
      <4> QED BY <4>1, <4>2, <4>3
    <3> QED BY <1>8, <3>1, <3>2, <3>3
  <2>6. e * Doublings[n + 1] <= N
    <3>1. e \in Int /\ 2 * e <= l - a
      <4>1. a + e \in B /\ a + e < l
        <5>1. a \in P
          <6>1. l \in 0 .. N /\ \A x \in B : x < N => x \in P
            BY <1>1, Places
          <6> HIDE DEF B, P, a, e, l, N
          <6> QED BY <1>1, <1>4, <6>1
        <5> QED BY <1>1, <5>1
      <4> HIDE DEF B, P, a, e, l, N
      <4>2. (a + e) + e <= l
        BY <1>1, <4>1
      <4> QED BY <1>1, <1>4, <4>2
    <3>2. e * D2 <= N
      <4> HIDE DEF D2, N, a, l, e
      <4> QED BY <2>3, <3>1
    <3> QED BY <3>2
  <2> HIDE DEF n
  <2> QED BY <1>6, <1>7, <2>5, <2>6 DEF Halved
<1>12. InOrder(q, t)
  <2> SUFFICES ASSUME NEW x \in P, NEW y \in P, x < y
               PROVE  \/ M[x] <= M[y]
                      \/ \E k \in Ranges(t) : Low(t, k) <= x /\ y < High(t, k)
    BY <1>6 DEF InOrder
  <2> HIDE DEF P, B, e, lp, hp, a, l, N, M, n
  <2>1. x \in Int /\ y \in Int /\ x \in B /\ y \in B /\ M[x] \in Int /\ M[y] \in Int
    BY <1>1
  <2>2. 0 \in Ranges(t) /\ 1 \in Ranges(t)
    BY <1>7
  <2>3. \/ M[x] <= M[y]
        \/ \E k \in Ranges(s) : Low(s, k) <= x /\ y < High(s, k)
    BY <1>1 DEF InOrder, P, M
  <2>4. CASE a <= x /\ y < l
    <3>1. CASE y < lp
      BY <1>4, <1>6, <2>1, <2>2, <2>4, <3>1
    <3>2. CASE hp < x
      <4>1. hp + e <= x
        BY <1>1, <1>4, <2>1, <3>2
      <4> QED BY <1>4, <1>6, <2>1, <2>2, <2>4, <4>1
    <3>3. CASE ~(y < lp) /\ ~(hp < x)
      <4>1. lp <= y /\ x <= hp /\ x < l /\ a <= y
        BY <1>4, <2>1, <2>4, <3>3
      <4>2. M[x] <= v
        BY <1>3, <1>4, <2>1, <2>4, <4>1
      <4>3. v <= M[y]
        BY <1>3, <1>4, <2>1, <2>4, <4>1
      <4> QED BY <2>1, <4>2, <4>3
    <3> QED BY <3>1, <3>2, <3>3
  <2>5. ASSUME NEW k \in Ranges(s), Low(s, k) <= x, y < High(s, k), ~(a <= x /\ y < l)
        PROVE  \E m \in Ranges(t) : Low(t, m) <= x /\ y < High(t, m)
    <3>1. k # 0
      BY <1>7, <2>5
    <3>2. k \in 1 .. n /\ k + 1 \in Ranges(t)
      BY <1>7, <3>1
    <3> QED BY <1>6, <2>5, <3>2
  <2> QED BY <2>3, <2>4, <2>5
<1> QED BY <1>1, <1>6, <1>10, <1>11, <1>12 DEF SortInv

\* The smaller is sorted first, and the larger waits.
LEMMA RightMeets ==
  ASSUME NEW q, IsSort(q), NEW s, SortInv(q, s, "right"), s.j <= s.hp, s.i = s.lp
  PROVE  SortInv(q, Recur(s), "enter")
<1>1. /\ s.a \in Int /\ s.l \in Int /\ s.lp \in Int /\ s.hp \in Int /\ s.es \in Nat \ {0}
      /\ s.a <= s.lp /\ s.lp <= s.hp /\ s.hp < s.l
  <2>1. /\ s.a \in Int /\ s.l \in Int /\ s.lp \in Int /\ s.hp \in Int /\ s.i \in Int /\ s.j \in Int
        /\ s.es = q.es /\ q.es \in Nat \ {0}
        /\ s.a <= s.i /\ s.i <= s.lp /\ s.lp <= s.hp /\ s.hp <= s.j /\ s.j < s.l
    BY PartedFacts
  <2> QED BY <2>1
<1>2. CASE s.lp - s.a >= s.l - s.hp
  <2>1. Recur(s) = WithCall(s, s.hp + s.es, s.l, s.a, s.lp)
    BY <1>2 DEF Recur, WithCall
  <2>2. 2 * (s.l - (s.hp + s.es)) <= s.l - s.a
    BY <1>1, <1>2
  <2> QED BY <2>1, <2>2, Splits
<1>3. CASE ~(s.lp - s.a >= s.l - s.hp)
  <2>1. Recur(s) = WithCall(s, s.a, s.lp, s.hp + s.es, s.l)
    BY <1>3 DEF Recur, WithCall
  <2>2. 2 * (s.lp - s.a) <= s.l - s.a
    BY <1>1, <1>3
  <2> QED BY <2>1, <2>2, Splits
<1> QED BY <1>2, <1>3

\* A step that leaves the elements and the ranges keeps what is said of them.
LEMMA SameRanges ==
  ASSUME NEW q, NEW s, NEW t, t.mem = s.mem, t.a = s.a, t.l = s.l, t.stack = s.stack
  PROVE  /\ Rearranged(q, s.mem) => Rearranged(q, t.mem)
         /\ Apart(s) => Apart(t)
         /\ Halved(q, s) => Halved(q, t)
         /\ InOrder(q, s) => InOrder(q, t)
<1>1. Ranges(t) = Ranges(s) /\ \A k : Low(t, k) = Low(s, k) /\ High(t, k) = High(s, k)
  BY DEF Ranges, Low, High
<1>2. Apart(s) => Apart(t)
  BY <1>1 DEF Apart
<1>3. Halved(q, s) => Halved(q, t)
  BY <1>1 DEF Halved
<1>4. InOrder(q, s) => InOrder(q, t)
  BY <1>1 DEF InOrder
<1> QED BY <1>2, <1>3, <1>4

\* qs1() is entered.
LEMMA EnterKeeps ==
  ASSUME NEW q, IsSort(q), NEW s, SortInv(q, s, "enter")
  PROVE  SortInv(q, [s EXCEPT !.es = q.es], "start")
<1> DEFINE t == [s EXCEPT !.es = q.es]
<1>1. s \in SortLocals(q) /\ Rearranged(q, s.mem) /\ Apart(s) /\ Halved(q, s) /\ InOrder(q, s)
  BY DEF SortInv
<1>2. /\ t \in SortLocals(q) /\ t.mem = s.mem /\ t.a = s.a /\ t.l = s.l /\ t.stack = s.stack
      /\ t.es = q.es
  <2>1. q.es \in Int
    BY Places
  <2> QED BY <1>1, <2>1 DEF SortLocals
<1> HIDE DEF t
<1>3. Rearranged(q, t.mem) /\ Apart(t) /\ Halved(q, t) /\ InOrder(q, t)
  BY <1>1, <1>2, SameRanges
<1>4. SortInv(q, t, "start")
  BY <1>2, <1>3 DEF SortInv
<1> QED BY <1>4 DEF t

\* qsort() calls it for the whole array.
LEMMA QsortKeeps ==
  ASSUME NEW q, IsSort(q), NEW s, SortInv(q, s, "sort")
  PROVE  SortInv(q, [s EXCEPT !.l = Len(q.data)], "enter")
<1> DEFINE t == [s EXCEPT !.l = Len(q.data)]
           N == Len(q.data)
<1>1. s \in SortLocals(q) /\ Rearranged(q, s.mem) /\ s.a = 0 /\ s.stack = <<>>
  BY DEF SortInv
<1>2. /\ t \in SortLocals(q) /\ t.mem = s.mem /\ t.a = 0 /\ t.l = N /\ t.stack = <<>>
  <2>1. N \in Bound(q)
    BY Places
  <2> QED BY <1>1, <2>1 DEF SortLocals
<1> HIDE DEF t
<1>3. /\ N \in Nat /\ Len(t.stack) = 0 /\ Ranges(t) = {0} /\ Low(t, 0) = 0 /\ High(t, 0) = N
      /\ \A x \in Place(q) : x \in Int /\ 0 <= x /\ x < N
  <2>1. N \in Nat /\ Place(q) \subseteq Bound(q) /\ Bound(q) \subseteq 0 .. N /\ \A x \in Place(q) : x < N
    BY Places
  <2>2. Low(t, 0) = 0 /\ High(t, 0) = N
    BY <1>2 DEF Low, High
  <2>3. Len(t.stack) = 0 /\ Ranges(t) = {0}
    BY <1>2 DEF Ranges
  <2> HIDE DEF N
  <2>4. \A x \in Place(q) : x \in Int /\ 0 <= x /\ x < N
    BY <2>1
  <2> QED BY <2>1, <2>2, <2>3, <2>4
<1>4. Apart(t)
  BY <1>3 DEF Apart
<1>5. Halved(q, t)
  <2>1. Doublings[0] = 1 /\ 0 - 0 = 0 /\ (N - 0) * 1 <= N
    <3> HIDE DEF N
    <3> QED BY <1>3, DoublingsAre
  <2>2. (N - 0) * Doublings[0 - 0] <= N
    BY <2>1
  <2> QED BY <1>3, <2>2 DEF Halved
<1>6. InOrder(q, t)
  <2> HIDE DEF N
  <2> QED BY <1>3 DEF InOrder
<1>7. SortInv(q, t, "enter")
  BY <1>1, <1>2, <1>4, <1>5, <1>6 DEF SortInv
<1> QED BY <1>7 DEF t

\* A range of two elements or more is parted around the one in its middle,
LEMMA MiddleKeeps ==
  ASSUME NEW q, IsSort(q), NEW s, SortInv(q, s, "start"), s.l - s.a > s.es
  PROVE  SortInv(q, Middle(s), "left")
<1> DEFINE P == Place(q)
           B == Bound(q)
           N == Len(q.data)
           e == q.es
           a == s.a
           l == s.l
           h == (s.l - s.a) \div (2 * s.es)
           m == a + e * h
           t == [s EXCEPT !.lp = m, !.hp = m, !.i = a, !.j = l - e]
<1>1. /\ s \in SortLocals(q) /\ Rearranged(q, s.mem) /\ Apart(s) /\ Halved(q, s) /\ InOrder(q, s)
      /\ s.es = e
  BY DEF SortInv
<1>2. /\ e \in Nat \ {0} /\ N \in Nat /\ P \subseteq B /\ B \subseteq 0 .. N
      /\ \A x \in B : x < N => x \in P
      /\ \A x, y \in B : x < y => x + e <= y
      /\ \A x \in P : x + e \in B
      /\ \A x \in B : x > 0 => x - e \in P
  BY Places
<1>3. a \in B /\ l \in B /\ a \in Int /\ l \in Int /\ l - a > e /\ l <= N
  <2>1. a \in B /\ l \in B
    BY <1>1, SortFields
  <2>2. l - a > e
    BY <1>1
  <2> HIDE DEF B, N, e, a, l
  <2> QED BY <1>2, <2>1, <2>2
<1>4. a \in P /\ l - e \in P /\ a + e + e <= l
  <2> HIDE DEF P, B, N, e, a, l
  <2>1. a \in P /\ l - e \in P
    BY <1>2, <1>3
  <2>2. a + e \in B /\ a + e < l
    BY <1>2, <1>3, <2>1
  <2>3. (a + e) + e <= l
    BY <1>2, <1>3, <2>2
  <2> QED BY <1>2, <1>3, <2>3
<1>5. h \in Nat /\ e * h \in Nat /\ 2 * (e * h) <= l - a
  <2> DEFINE r == l - a
             e2 == 2 * e
  <2>1. r \in Nat /\ e2 \in Nat \ {0} /\ h = r \div e2
    <3>1. h = r \div e2
      BY <1>1
    <3> HIDE DEF e, a, l, h
    <3> QED BY <1>2, <1>3, <3>1
  <2>2. h \in Nat /\ r % e2 \in Nat /\ r = e2 * h + (r % e2)
    <3> HIDE DEF r, e2, h
    <3>1. h \in Int /\ r % e2 \in 0 .. e2 - 1 /\ r = e2 * h + (r % e2)
      BY <2>1, Quotient
    <3>2. h \in Nat
      <4> SUFFICES ASSUME h <= -1 PROVE FALSE
        BY <3>1
      <4> DEFINE y == e2 * h
                 m1 == -1
                 z == r % e2
      <4>1. e2 * h \in Int /\ (h <= m1 <=> e2 * h <= e2 * m1)
        <5>1. m1 \in Int
          OBVIOUS
        <5> HIDE DEF m1
        <5> QED BY <2>1, <3>1, <5>1, Times
      <4>2. e2 * m1 = -e2
        BY <2>1
      <4>3. y \in Int /\ y <= -e2 /\ r = y + z
        BY <3>1, <4>1, <4>2
      <4>4. z \in 0 .. e2 - 1 /\ e2 \in Nat /\ r \in Nat
        BY <2>1, <3>1
      <4> HIDE DEF y, z
      <4> QED BY <4>3, <4>4
    <3> QED BY <3>1, <3>2
  <2> HIDE DEF r, h, e
  <2>3. e * h \in Nat /\ e2 * h = 2 * (e * h) /\ e2 * h \in Int
    BY <1>2, <2>2
  <2> HIDE DEF e2
  <2>4. 2 * (e * h) <= r
    BY <2>1, <2>2, <2>3
  <2> QED BY <2>2, <2>3, <2>4 DEF r
<1>6. m \in P /\ m \in Int /\ a <= m /\ m <= l - e
  <2>1. PICK k \in Int : a = e * k
    BY <1>3 DEF Bound, Multiples
  <2>2. k + h \in Int /\ m = e * (k + h)
    <3> HIDE DEF e, h, a
    <3> QED BY <1>2, <1>5, <2>1
  <2>3. m \in Multiples(e)
    BY <2>2 DEF Multiples
  <2> DEFINE y == e * h
  <2>4. /\ y \in Nat /\ 2 * y <= l - a /\ m = a + y
    BY <1>5
  <2> HIDE DEF e, y, m, a, l, N
  <2>5. m \in Int /\ a <= m /\ m <= l - e /\ m < N /\ 0 <= m
    BY <1>2, <1>3, <1>4, <2>4
  <2> QED BY <2>3, <2>5 DEF Place, e, N
<1>7. Middle(s) = t
  BY <1>1 DEF Middle
<1>8. /\ t \in SortLocals(q) /\ t.mem = s.mem /\ t.a = a /\ t.l = l /\ t.stack = s.stack
      /\ t.es = e /\ t.lp = m /\ t.hp = m /\ t.i = a /\ t.j = l - e
  <2>1. a \in Int /\ l - e \in Int
    <3> HIDE DEF e, a, l
    <3> QED BY <1>2, <1>3
  <2> HIDE DEF m
  <2> QED BY <1>1, <1>6, <2>1 DEF SortLocals
<1> HIDE DEF t, m
<1>9. Rearranged(q, t.mem) /\ Apart(t) /\ Halved(q, t) /\ InOrder(q, t)
  BY <1>1, <1>8, SameRanges
<1>10. t.mem[m] \in Int
  <2>1. t.mem \in [Around(q) -> Int]
    BY <1>8, SortFields
  <2>2. m + 0 \in Around(q) /\ m + 0 = m
    <3>1. 0 \in 0 .. q.es - 1
      BY <1>2
    <3> QED BY <1>6, <3>1, BytesOf
  <2> QED BY <2>1, <2>2
<1>11. Parted(q, t, "left", t.mem[m])
  <2>1. ASSUME NEW x \in P
        PROVE  /\ ~(a <= x /\ x < a) /\ ~(l - e < x /\ x < l)
               /\ m <= x /\ x <= m => x = m
    <3> HIDE DEF e, a, l, N, P, B
    <3>1. x \in Int
      BY <1>2
    <3>2. l - e < x => (l - e) + e <= x
      BY <1>2, <1>4
    <3> QED BY <1>2, <1>3, <1>6, <3>1, <3>2
  <2>2. m <= m /\ l - e < l /\ a <= a /\ a \in P /\ l - e \in P /\ m \in P /\ a <= m /\ m <= l - e
    <3> HIDE DEF e, l, a, P
    <3> QED BY <1>2, <1>3, <1>4, <1>6
  <2> HIDE DEF e, a, l
  <2>3. /\ {t.i, t.lp, t.hp, t.j} \subseteq Place(q)
        /\ t.a <= t.i /\ t.i <= t.lp /\ t.lp <= t.hp /\ t.hp <= t.j /\ t.j < t.l
    BY <1>8, <2>2
  <2>4. ASSUME NEW x \in Place(q)
        PROVE  /\ t.a <= x /\ x < t.i => t.mem[x] < t.mem[m]
               /\ t.lp <= x /\ x <= t.hp => t.mem[x] = t.mem[m]
               /\ t.j < x /\ x < t.l => t.mem[m] < t.mem[x]
    BY <1>8, <2>1
  <2> QED BY <2>3, <2>4 DEF Parted
<1>12. t.l - t.a > q.es
  BY <1>3, <1>8
<1> QED BY <1>7, <1>8, <1>9, <1>10, <1>11, <1>12 DEF SortInv

\* and any other is in order: the call returns.
LEMMA ReturnKeeps ==
  ASSUME NEW q, IsSort(q), NEW s, SortInv(q, s, "start"), ~(s.l - s.a > s.es)
  PROVE  /\ s.stack = <<>> => SortInv(q, s, "done")
         /\ s.stack # <<>> =>
              LET caller == Head(s.stack)
              IN  SortInv(q, [s EXCEPT !.a = caller.a, !.l = caller.l, !.es = caller.es,
                                       !.stack = Tail(@)], "start")
<1>1. /\ s \in SortLocals(q) /\ Rearranged(q, s.mem) /\ Apart(s) /\ Halved(q, s) /\ InOrder(q, s)
      /\ s.es = q.es
  BY DEF SortInv
<1>2. /\ q.es \in Nat \ {0} /\ s.a \in Int /\ s.l \in Int /\ ~(s.l - s.a > q.es)
      /\ Len(q.data) \in Nat /\ Place(q) \subseteq Int
      /\ \A x, y \in Place(q) : x < y => x + q.es <= y
  BY <1>1, Places, SortFields
<1>3. CASE s.stack = <<>>
  <2>1. s.l - s.a <= q.es
    BY <1>2
  <2> QED BY <1>1, <1>3, <2>1 DEF SortInv
<1>4. CASE s.stack # <<>>
  <2> DEFINE c == Head(s.stack)
             n == Len(s.stack)
             rest == Tail(s.stack)
             t == [s EXCEPT !.a = c.a, !.l = c.l, !.es = c.es, !.stack = Tail(@)]
  <2>1. /\ s.stack \in Seq(Waiting(q)) /\ n \in Nat /\ n # 0
    BY <1>1, <1>4, SortFields
  <2>2. /\ c = s.stack[1] /\ rest \in Seq(Waiting(q)) /\ Len(rest) = n - 1
        /\ \A k \in 1 .. n - 1 : rest[k] = s.stack[k + 1]
    BY <1>4, <2>1
  <2>3. /\ c.a \in Bound(q) /\ c.l \in Bound(q) /\ c.es = q.es
        /\ c.a = Low(s, 1) /\ c.l = High(s, 1)
    <3>1. c \in Waiting(q)
      <4>1. 1 \in 1 .. n
        BY <2>1
      <4> QED BY <2>1, <2>2, <4>1
    <3>2. c.a \in Bound(q) /\ c.l \in Bound(q) /\ c.es = q.es
      BY <3>1 DEF Waiting
    <3> QED BY <2>2, <3>2 DEF Low, High
  <2>4. /\ t \in SortLocals(q) /\ t.mem = s.mem /\ t.a = c.a /\ t.l = c.l /\ t.es = q.es
        /\ t.stack = rest
    <3>1. q.es \in Int
      BY <1>2
    <3>2. t = [s EXCEPT !.a = c.a, !.l = c.l, !.es = c.es, !.stack = rest]
      OBVIOUS
    <3> HIDE DEF rest, c
    <3> QED BY <1>1, <2>2, <2>3, <3>1, <3>2 DEF SortLocals
  <2> HIDE DEF t
  <2>5. /\ Ranges(s) = 0 .. n /\ Ranges(t) = 0 .. n - 1 /\ Len(t.stack) = n - 1
        /\ \A k \in 0 .. n - 1 : /\ k + 1 \in 0 .. n /\ k \in Int
                                 /\ Low(t, k) = Low(s, k + 1) /\ High(t, k) = High(s, k + 1)
        /\ \A k \in 0 .. n : k # 0 => k - 1 \in 0 .. n - 1 /\ (k - 1) + 1 = k
    <3>1. Ranges(s) = 0 .. n /\ Ranges(t) = 0 .. n - 1 /\ Len(t.stack) = n - 1
      BY <2>2, <2>4 DEF Ranges
    <3>2. ASSUME NEW k \in 0 .. n - 1
          PROVE  /\ k + 1 \in 0 .. n /\ k \in Int
                 /\ Low(t, k) = Low(s, k + 1) /\ High(t, k) = High(s, k + 1)
      <4>1. k + 1 \in 0 .. n /\ k \in Int /\ k + 1 # 0 /\ (k # 0 => k \in 1 .. n - 1)
        <5> HIDE DEF n
        <5> QED BY <2>1
      <4>2. CASE k = 0
        <5>1. Low(t, 0) = c.a /\ High(t, 0) = c.l
          <6> HIDE DEF c
          <6> QED BY <2>4 DEF Low, High
        <5> QED BY <2>3, <4>1, <4>2, <5>1
      <4>3. CASE k # 0
        <5>1. rest[k] = s.stack[k + 1]
          BY <2>2, <4>1, <4>3
        <5> HIDE DEF rest, n
        <5> QED BY <2>4, <4>1, <4>3, <5>1 DEF Low, High
      <4> QED BY <4>2, <4>3
    <3>3. \A k \in 0 .. n : k # 0 => k - 1 \in 0 .. n - 1 /\ (k - 1) + 1 = k
      <4> HIDE DEF n
      <4> QED BY <2>1
    <3> QED BY <3>1, <3>2, <3>3
  <2>6. Apart(t)
    <3> HIDE DEF n
    <3>1. \A k \in Ranges(t) : Low(t, k) <= High(t, k)
      BY <1>1, <2>5 DEF Apart
    <3>2. ASSUME NEW k \in Ranges(t), NEW m \in Ranges(t), k < m
          PROVE  High(t, k) <= Low(t, m) \/ High(t, m) <= Low(t, k)
      <4>1. k + 1 \in Ranges(s) /\ m + 1 \in Ranges(s) /\ k + 1 < m + 1
        BY <2>5, <3>2
      <4>2. High(s, k + 1) <= Low(s, m + 1) \/ High(s, m + 1) <= Low(s, k + 1)
        BY <1>1, <4>1 DEF Apart
      <4> QED BY <2>5, <4>2
    <3> QED BY <3>1, <3>2 DEF Apart
  <2>7. Halved(q, t)
    <3> DEFINE N == Len(q.data)
               G(k) == (High(s, k) - Low(s, k)) * Doublings[n - k]
    <3>1. \A k \in Ranges(s) : G(k) <= N
      BY <1>1 DEF Halved
    <3>2. q.es * Doublings[n] <= N
      BY <1>1, <2>1 DEF Halved
    <3>3. ASSUME NEW k \in Ranges(t)
          PROVE  (High(t, k) - Low(t, k)) * Doublings[(n - 1) - k] <= N
      <4>1. k + 1 \in Ranges(s) /\ (n - 1) - k = n - (k + 1)
        <5> HIDE DEF n
        <5> QED BY <2>1, <2>5
      <4>2. G(k + 1) <= N
        BY <3>1, <4>1
      <4>3. Low(t, k) = Low(s, k + 1) /\ High(t, k) = High(s, k + 1)
        BY <2>5
      <4> QED BY <4>1, <4>2, <4>3
    <3>4. q.es * Doublings[n - 1] <= N
      <4> DEFINE D == Doublings[n - 1]
                 e == q.es
      <4>1. D \in Nat \ {0} /\ Doublings[n] = 2 * D
        <5>1. n - 1 \in Nat /\ (n - 1) + 1 = n
          <6> HIDE DEF n
          <6> QED BY <2>1
        <5> HIDE DEF n
        <5> QED BY <5>1, DoublingsAre
      <4>2. e \in Nat /\ e * (2 * D) <= N /\ N \in Nat
        BY <1>2, <3>2, <4>1
      <4> HIDE DEF D, e, N
      <4>3. e * (2 * D) = 2 * (e * D) /\ e * D \in Nat
        BY <4>1, <4>2
      <4>4. e * D <= N
        BY <4>2, <4>3
      <4> QED BY <4>4 DEF e, D
    <3> HIDE DEF n
    <3> QED BY <2>5, <3>3, <3>4 DEF Halved
  <2>8. InOrder(q, t)
    <3> SUFFICES ASSUME NEW x \in Place(q), NEW y \in Place(q), x < y
                 PROVE  \/ s.mem[x] <= s.mem[y]
                        \/ \E k \in Ranges(t) : Low(t, k) <= x /\ y < High(t, k)
      BY <2>4 DEF InOrder
    <3> HIDE DEF n
    <3>1. \/ s.mem[x] <= s.mem[y]
          \/ \E k \in Ranges(s) : Low(s, k) <= x /\ y < High(s, k)
      BY <1>1 DEF InOrder
    <3>2. ASSUME NEW k \in Ranges(s), Low(s, k) <= x, y < High(s, k)
          PROVE  \E m \in Ranges(t) : Low(t, m) <= x /\ y < High(t, m)
      <4>1. k # 0
        <5>1. SUFFICES ASSUME s.a <= x, y < s.l PROVE FALSE
          BY <3>2 DEF Low, High
        <5>2. x \in Int /\ y \in Int /\ x + q.es <= y
          BY <1>2
        <5> QED BY <1>2, <5>1, <5>2
      <4>2. k - 1 \in Ranges(t) /\ Low(t, k - 1) = Low(s, k) /\ High(t, k - 1) = High(s, k)
        BY <2>5, <4>1
      <4> QED BY <3>2, <4>2
    <3> QED BY <3>1, <3>2
  <2>9. SortInv(q, t, "start")
    <3>1. Rearranged(q, t.mem)
      BY <1>1, <2>4
    <3> QED BY <2>4, <2>6, <2>7, <2>8, <3>1 DEF SortInv
  <2> QED BY <1>4, <2>9 DEF t
<1> QED BY <1>3, <1>4

\* At the start the array is as it was given.
LEMMA SetUp ==
  ASSUME NEW q, IsSort(q)
  PROVE  SortInv(q, [IdleSort EXCEPT !.mem = Array(q.data)], "sort")
<1> DEFINE s == [IdleSort EXCEPT !.mem = Array(q.data)]
           m == Array(q.data)
           N == Len(q.data)
           P == Place(q)
           f == [x \in P |-> x]
<1>1. /\ q.data \in Seq(Int) /\ N \in Nat /\ 0 \in Bound(q) /\ q.es \in Nat \ {0}
      /\ P \subseteq Int
  BY Places DEF IsSort
<1>2. /\ m \in [Around(q) -> Int] /\ \A x \in 0 .. N - 1 : m[x] = q.data[x + 1]
      /\ \A x \in Around(q) \ (0 .. N - 1) : m[x] = 0
  <2>1. Around(q) = -GUARD .. N + GUARD - 1
    BY DEF Around
  <2>2. \A x \in 0 .. N - 1 : x \in Around(q) /\ q.data[x + 1] \in Int
    <3> SUFFICES ASSUME NEW x \in 0 .. N - 1 PROVE x \in Around(q) /\ q.data[x + 1] \in Int
      OBVIOUS
    <3>1. x + 1 \in 1 .. N /\ x \in Around(q)
      <4> HIDE DEF N
      <4> QED BY <1>1, <2>1 DEF GUARD
    <3> QED BY <1>1, <3>1
  <2>3. m = [x \in Around(q) |-> IF x \in 0 .. N - 1 THEN q.data[x + 1] ELSE 0]
    BY <2>1 DEF Array
  <2> HIDE DEF m, N
  <2> QED BY <2>2, <2>3
<1>3. /\ s \in SortLocals(q) /\ s.mem = m /\ s.a = 0 /\ s.l = 0 /\ s.stack = <<>>
  <2> HIDE DEF m, N
  <2>1. s = [mem |-> m, a |-> 0, l |-> 0, i |-> 0, j |-> 0, lp |-> 0, hp |-> 0, es |-> 0,
             stack |-> <<>>]
    BY DEF IdleSort, m
  <2>2. <<>> \in Seq(Waiting(q))
    OBVIOUS
  <2> HIDE DEF s
  <2> QED BY <1>1, <1>2, <2>1, <2>2 DEF SortLocals
<1>4. Rearranged(q, m)
  <2>1. f \in Bijection(P, P) /\ \A x \in P : f[x] = x
    <3> HIDE DEF P
    <3>1. f \in [P -> P] /\ \A x \in P : f[x] = x
      OBVIOUS
    <3> HIDE DEF f
    <3>2. /\ \A x, y \in P : f[x] = f[y] => x = y
          /\ \A y \in P : \E x \in P : f[x] = y
      BY <3>1
    <3> QED BY <3>1, <3>2, Fun_IsBij
  <2>2. ASSUME NEW x \in P, NEW k \in 0 .. q.es - 1 PROVE m[x + k] = q.data[f[x] + k + 1]
    <3>1. x + k \in 0 .. N - 1
      BY BytesOf
    <3> HIDE DEF m, N, f
    <3>2. f[x] + k + 1 = (x + k) + 1
      <4>1. x \in Int /\ k \in Int /\ f[x] = x
        BY <1>1, <2>1
      <4> QED BY <4>1
    <3> QED BY <1>2, <3>1, <3>2
  <2> HIDE DEF m, f
  <2> QED BY <1>2, <2>1, <2>2 DEF Rearranged
<1> HIDE DEF s, m
<1>5. /\ Len(s.stack) = 0 /\ Ranges(s) = {0} /\ Low(s, 0) = 0 /\ High(s, 0) = 0
  BY <1>3 DEF Ranges, Low, High
<1>6. Apart(s)
  BY <1>5 DEF Apart
<1>7. Halved(q, s)
  <2>1. Doublings[0] = 1 /\ 0 - 0 = 0 /\ (0 - 0) * 1 <= N
    <3> HIDE DEF N
    <3> QED BY <1>1, DoublingsAre
  <2>2. (0 - 0) * Doublings[0 - 0] <= N
    BY <2>1
  <2> QED BY <1>5, <2>2 DEF Halved
<1>8. SortInv(q, s, "sort")
  BY <1>3, <1>4, <1>6, <1>7 DEF SortInv
<1> QED BY <1>8 DEF s, m

\* The step of p leads to a place where the invariant holds.
Leads(p) ==
  \E label \in {"enter", "start", "left", "right", "done"} :
    \E s : Then(p, s, label) /\ SortInv(job[p], s, label)

\* What a sort that has qses to itself works with.
LEMMA SortOf ==
  ASSUME Types, NEW p \in Programs, job[p].kind = "sort"
  PROVE  IsSort(job[p])
<1>1. job \in Jobs
  BY DEF Types
<1> QED BY <1>1, JobIs DEF IsSort

\* It enters qs1() as it should,
LEMMA EnterLeads ==
  ASSUME NEW p \in Programs, IsSort(job[p]), Enter(p), SortInv(job[p], sort[p], "enter"),
         qses = job[p].es
  PROVE  Leads(p)
<1> DEFINE s == [sort[p] EXCEPT !.es = job[p].es]
<1>1. Then(p, s, "start")
  BY DEF Enter
<1>2. SortInv(job[p], s, "start")
  BY EnterKeeps
<1> HIDE DEF s
<1> QED BY <1>1, <1>2 DEF Leads

\* takes the next range,
LEMMA StartLeads ==
  ASSUME NEW p \in Programs, IsSort(job[p]), Start(p), SortInv(job[p], sort[p], "start")
  PROVE  Leads(p)
<1> DEFINE s == sort[p]
           c == Head(s.stack)
           t == [s EXCEPT !.a = c.a, !.l = c.l, !.es = c.es, !.stack = Tail(@)]
<1>1. IF s.l < s.a THEN Then(p, s, "wild")
      ELSE IF s.l - s.a > s.es THEN Then(p, Middle(s), "left")
      ELSE IF s.stack = <<>> THEN Then(p, s, "done")
      ELSE Then(p, t, "start")
  BY DEF Start
<1>2. /\ s.l - s.a > s.es => SortInv(job[p], Middle(s), "left")
      /\ ~(s.l - s.a > s.es) =>
           /\ s.stack = <<>> => SortInv(job[p], s, "done")
           /\ s.stack # <<>> => SortInv(job[p], t, "start")
  BY MiddleKeeps, ReturnKeeps
<1>3. ~(s.l < s.a)
  <2>1. s \in SortLocals(job[p]) /\ Apart(s)
    BY DEF SortInv
  <2>2. 0 \in Ranges(s) /\ Low(s, 0) = s.a /\ High(s, 0) = s.l
    BY <2>1, RangesIn
  <2>3. s.a <= s.l /\ s.a \in Int /\ s.l \in Int
    <3>1. s.a \in Bound(job[p]) /\ s.l \in Bound(job[p]) /\ Bound(job[p]) \subseteq 0 .. Len(job[p].data)
      BY <2>1, SortFields, Places
    <3> QED BY <2>1, <2>2, <3>1 DEF Apart
  <2> QED BY <2>3
<1> HIDE DEF s, t
<1> QED BY <1>1, <1>2, <1>3 DEF Leads

\* parts it from the lower end
LEMMA LeftLeads ==
  ASSUME NEW p \in Programs, IsSort(job[p]), Left(p), SortInv(job[p], sort[p], "left"),
         qses = job[p].es
  PROVE  Leads(p)
<1> DEFINE s == sort[p]
           n == job[p].es
           c == s.mem[s.i] - s.mem[s.lp]
           t == [s EXCEPT !.i = @ + s.es]
           u == [s EXCEPT !.lp = s.lp - s.es, !.mem = qsexc(@, s.i, s.lp - s.es, n)]
<1>1. IF s.i >= s.lp THEN Then(p, s, "right")
      ELSE IF ~Own(s, {s.i, s.lp}, 1) THEN Then(p, s, "wild")
      ELSE IF c < 0 THEN Then(p, t, "left")
      ELSE IF c > 0 THEN Then(p, s, "right")
      ELSE IF ~Own(s, {s.i, s.lp - s.es}, n) THEN Then(p, s, "wild")
      ELSE Then(p, u, "left")
  BY DEF Left
<1>2. /\ s.i >= s.lp => SortInv(job[p], s, "right")
      /\ ~(s.i >= s.lp) =>
           /\ Own(s, {s.i, s.lp}, 1) /\ Own(s, {s.i, s.lp - s.es}, n)
           /\ c < 0 => SortInv(job[p], t, "left")
           /\ c > 0 => SortInv(job[p], s, "right")
           /\ ~(c < 0) /\ ~(c > 0) => SortInv(job[p], u, "left")
  BY LeftKeeps
<1> HIDE DEF s, n, c, t, u
<1> QED BY <1>1, <1>2 DEF Leads

\* and from the upper one.
LEMMA RightLeads ==
  ASSUME NEW p \in Programs, IsSort(job[p]), Right(p), SortInv(job[p], sort[p], "right"),
         qses = job[p].es
  PROVE  Leads(p)
<1> DEFINE s == sort[p]
           q == job[p]
           n == job[p].es
           e == s.es
           c == s.mem[s.hp] - s.mem[s.j]
           t1 == [s EXCEPT !.lp = @ - e, !.hp = @ - e, !.j = s.hp - e,
                           !.mem = qstexc(@, s.j, s.lp - e, s.i, n)]
           t2 == [s EXCEPT !.j = @ - e]
           t3 == [s EXCEPT !.hp = @ + e, !.mem = qsexc(@, s.hp + e, s.j, n)]
           t4 == [s EXCEPT !.hp = @ + e, !.lp = @ + e, !.i = s.lp + e,
                           !.mem = qstexc(@, s.i, s.hp + e, s.j, n)]
           t5 == [s EXCEPT !.i = @ + e, !.j = @ - e, !.mem = qsexc(@, s.i, s.j, n)]
<1>1. IF s.j <= s.hp
      THEN IF s.i = s.lp THEN Then(p, Recur(s), "enter")
           ELSE IF ~Own(s, {s.j, s.lp - e, s.i}, n) THEN Then(p, s, "wild")
           ELSE Then(p, t1, "left")
      ELSE IF ~Own(s, {s.hp, s.j}, 1) THEN Then(p, s, "wild")
      ELSE IF c < 0 THEN Then(p, t2, "right")
      ELSE IF c = 0
      THEN IF ~Own(s, {s.hp + e, s.j}, n) THEN Then(p, s, "wild") ELSE Then(p, t3, "right")
      ELSE IF ~Own(s, {s.i, s.hp + e, s.j}, n) THEN Then(p, s, "wild")
      ELSE IF s.i = s.lp THEN Then(p, t4, "right")
      ELSE Then(p, t5, "left")
  BY DEF Right
<1>2. CASE s.j <= s.hp
  <2>1. s.i = s.lp => SortInv(q, Recur(s), "enter")
    BY <1>2, RightMeets
  <2>2. s.i # s.lp => Own(s, {s.j, s.lp - e, s.i}, n) /\ SortInv(q, t1, "left")
    BY <1>2, RightAbove
  <2> HIDE DEF s, n, e, c, t1, t2, t3, t4, t5
  <2> QED BY <1>1, <1>2, <2>1, <2>2 DEF Leads
<1>3. CASE ~(s.j <= s.hp)
  <2>1. Own(s, {s.hp, s.j}, 1) /\ Own(s, {s.i, s.hp + e, s.j}, n)
    BY <1>3, RightOwn
  <2>2. c < 0 => SortInv(q, t2, "right")
    BY <1>3, RightLarge
  <2>3. c = 0 => Own(s, {s.hp + e, s.j}, n) /\ SortInv(q, t3, "right")
    BY <1>3, RightEqual
  <2>4. ~(c < 0) /\ c # 0 => c > 0
    <3>1. c \in Int
      <4>1. s.hp \in Place(q) /\ s.j \in Place(q) /\ \A w \in Place(q) : s.mem[w] \in Int
        BY PartedFacts
      <4> QED BY <4>1
    <3> HIDE DEF c
    <3> QED BY <3>1
  <2>5. c > 0 /\ s.i = s.lp => SortInv(q, t4, "right")
    BY <1>3, RightBelow
  <2>6. c > 0 /\ s.i # s.lp => SortInv(q, t5, "left")
    BY <1>3, RightSmall
  <2> HIDE DEF s, n, e, c, t1, t2, t3, t4, t5
  <2> QED BY <1>1, <1>3, <2>1, <2>2, <2>3, <2>4, <2>5, <2>6 DEF Leads
<1> QED BY <1>2, <1>3

\* No array is touched at first,
LEMMA SortsInit == Init => Sorts
<1> SUFFICES ASSUME Init, NEW p \in Programs, job[p].kind = "sort" PROVE SortKept(p)
  BY DEF Sorts
<1>1. /\ pc[p] = "sort" /\ sort[p] = [IdleSort EXCEPT !.mem = Array(job[p].data)]
      /\ job \in Jobs
  BY DEF Init
<1>2. IsSort(job[p])
  BY <1>1, JobIs DEF IsSort
<1> QED BY <1>1, <1>2, SetUp DEF SortKept, Sorting

\* Its steps are those of the sort, and none makes it alone again.
LEMMA SortSteps ==
  ASSUME Types, NEW p \in Programs, job[p].kind = "sort", Step(p)
  PROVE  /\ qsort(p) \/ Enter(p) \/ Start(p) \/ Left(p) \/ Right(p)
         /\ alone'[p] => alone[p]
<1>1. pc[p] \notin {"text", "scan", "class", "take"}
  BY DEF Types, ScanTyped
<1>2. ~sprintf(p)
  BY <1>1 DEF sprintf
<1>3. ~EndOfFormat(p) /\ ~WhiteSpace(p) /\ ~Character(p) /\ ~ReadNumber(p) /\ ~ReadString(p)
  BY <1>1 DEF EndOfFormat, WhiteSpace, Character, ReadNumber, ReadString, InScan
<1>4. ~_getcclAll(p) /\ ~_getcclClass(p) /\ ~_instr(p)
  BY <1>1 DEF _getcclAll, _getcclClass, _instr
<1>5. qsort(p) \/ Enter(p) \/ Start(p) \/ Left(p) \/ Right(p)
  BY <1>2, <1>3, <1>4 DEF Step
<1>6. CASE qsort(p)
  <2>1. alone'[p] = alone[p]
    BY <1>6, QsortIs
  <2> QED BY <1>5, <2>1
<1>7. CASE Enter(p) \/ Start(p) \/ Left(p) \/ Right(p)
  <2>1. PICK label \in {"enter", "start", "left", "right", "done", "wild"} :
          \E s : Then(p, s, label)
    BY <1>7, Qs1Then
  <2>2. alone' = alone
    BY <2>1 DEF Then
  <2> QED BY <1>5, <2>2
<1> QED BY <1>5, <1>6, <1>7

\* a step of a sort keeps its invariant,
LEMMA SortOfStep ==
  ASSUME Types, NEW p \in Programs, job[p].kind = "sort", SortKept(p), Step(p)
  PROVE  SortKept(p)'
<1>1. IsSort(job[p])
  BY SortOf
<1>2. SortInv(job[p], sort[p], pc[p]) /\ (Sorting(p) => qses = job[p].es)
  BY DEF SortKept
<1>4. CASE qsort(p)
  <2>1. /\ job' = job /\ pc[p] = "sort" /\ qses' = job[p].es
        /\ sort'[p] = [sort[p] EXCEPT !.l = Len(job[p].data)] /\ pc'[p] = "enter"
    BY <1>4, QsortIs
  <2>2. SortInv(job[p], sort'[p], "enter")
    BY <1>1, <1>2, <2>1, QsortKeeps
  <2> QED BY <2>1, <2>2 DEF SortKept
<1>5. CASE Enter(p) \/ Start(p) \/ Left(p) \/ Right(p)
  <2>1. Sorting(p) /\ qses = job[p].es
    BY <1>2, <1>5, Qs1Then
  <2>2. /\ Enter(p) => pc[p] = "enter"
        /\ Start(p) => pc[p] = "start"
        /\ Left(p) => pc[p] = "left"
        /\ Right(p) => pc[p] = "right"
    BY DEF Enter, Start, Left, Right
  <2>3. Leads(p)
    BY <1>1, <1>2, <1>5, <2>1, <2>2, EnterLeads, StartLeads, LeftLeads, RightLeads
  <2>4. PICK label \in {"enter", "start", "left", "right", "done"} :
          \E s : Then(p, s, label) /\ SortInv(job[p], s, label)
    BY <2>3 DEF Leads
  <2>5. PICK s : Then(p, s, label) /\ SortInv(job[p], s, label)
    BY <2>4
  <2>6. job' = job /\ qses' = qses /\ sort'[p] = s /\ pc'[p] = label
    BY <2>5, ThenIs
  <2> QED BY <2>1, <2>5, <2>6 DEF SortKept
<1> QED BY <1>4, <1>5, SortSteps

\* and so does one of another program, unless the sort has no longer qses to itself.
LEMMA SortOfOther ==
  ASSUME Types, NEW p \in Programs, Step(p), NEW q \in Programs, q # p, alone'[q], SortKept(q)
  PROVE  SortKept(q)'
<1>1. pc'[q] = pc[q] /\ sort'[q] = sort[q] /\ job'[q] = job[q]
  BY StepTyped, OthersKept DEF OwnTyped
<1>2. Sorting(q) => qses' = qses \/ qses' = job[q].es
  BY StepOthers
<1>3. Sorting(q)' = Sorting(q)
  BY <1>1 DEF Sorting
<1> QED BY <1>1, <1>2, <1>3 DEF SortKept

\* So every step keeps what is said of every sort.
LEMMA SortsNext == Types /\ Sorts /\ [Next]_vars => Sorts'
<1> SUFFICES ASSUME Types, Sorts, [Next]_vars, NEW q \in Programs,
                    (job[q].kind = "sort")', alone'[q]
             PROVE  SortKept(q)'
  BY DEF Sorts
<1>1. CASE Next
  <2>1. PICK p \in Programs : Step(p)
    BY <1>1 DEF Next
  <2>2. job' = job
    BY <2>1, StepTyped DEF OwnTyped, Own1
  <2>3. alone[q]
    <3>1. CASE q = p
      BY <2>1, <2>2, <3>1, SortSteps
    <3>2. CASE q # p
      BY <2>1, <3>2, StepOthers
    <3> QED BY <3>1, <3>2
  <2>4. job[q].kind = "sort" /\ SortKept(q)
    BY <2>2, <2>3 DEF Sorts
  <2>5. CASE q = p
    BY <2>1, <2>4, <2>5, SortOfStep
  <2>6. CASE q # p
    BY <2>1, <2>4, <2>6, SortOfOther
  <2> QED BY <2>5, <2>6
<1>2. CASE UNCHANGED vars
  <2>1. job' = job /\ pc' = pc /\ sort' = sort /\ qses' = qses /\ alone' = alone
    BY <1>2 DEF vars
  <2>2. job[q].kind = "sort" /\ SortKept(q)
    BY <2>1 DEF Sorts
  <2> QED BY <2>1, <2>2 DEF SortKept, Sorting
<1> QED BY <1>1, <1>2

\* It is always true.
LEMMA SortsAlways == Spec => []Sorts
BY SortsInit, SortsNext, TypesAlways, PTL DEF Spec
-----------------------------------------------------------------------------
(* The end of a sort.                                                        *)

\* The elements of an array, counted from 1.
LEMMA PlacesCounted ==
  ASSUME NEW q, IsSort(q)
  PROVE  LET n == Len(q.data) \div q.es
         IN  /\ n \in Nat /\ Len(q.data) = q.es * n
             /\ \A j \in 1 .. n : (j - 1) * q.es \in Place(q)
             /\ \A x \in Place(q) : \E j \in 1 .. n : x = (j - 1) * q.es
             /\ \A i, j \in 1 .. n : i < j <=> (i - 1) * q.es < (j - 1) * q.es
<1> DEFINE N == Len(q.data)
           e == q.es
           n == N \div e
<1>1. N \in Nat /\ e \in Nat \ {0} /\ N % e = 0
  BY Places DEF IsSort
<1>2. n \in Int /\ N = e * n
  <2>1. n \in Int /\ N = e * n + (N % e)
    <3> HIDE DEF N, e
    <3> QED BY <1>1, Quotient
  <2>2. e * n \in Int
    <3> HIDE DEF n, e
    <3> QED BY <1>1, <2>1
  <2> HIDE DEF N, e, n
  <2> QED BY <1>1, <2>1, <2>2
<1>3. Place(q) = {x \in Multiples(e) : 0 <= x /\ x < N}
  BY DEF Place
<1> HIDE DEF N, e, n
<1>4. \A i, j \in Int : /\ e * i \in Int /\ e * i = i * e
                        /\ i <= j <=> e * i <= e * j
  <2>1. ASSUME NEW i \in Int, NEW j \in Int PROVE e * i \in Int /\ e * i = i * e
    BY <1>1
  <2> QED BY <1>1, <2>1, Times
<1>5. e * 0 = 0
  BY <1>1
<1>6. n \in Nat
  <2>1. 0 <= n <=> e * 0 <= e * n
    BY <1>2, <1>4
  <2> QED BY <1>1, <1>2, <1>5, <2>1
<1>7. ASSUME NEW j \in 1 .. n PROVE (j - 1) * e \in Place(q)
  <2>1. j - 1 \in Int /\ 0 <= j - 1 /\ ~(n <= j - 1)
    BY <1>6
  <2>2. 0 <= e * (j - 1) /\ ~(e * n <= e * (j - 1))
    <3>1. /\ 0 <= j - 1 <=> e * 0 <= e * (j - 1)
          /\ n <= j - 1 <=> e * n <= e * (j - 1)
      BY <1>2, <1>4, <2>1
    <3> QED BY <1>5, <2>1, <3>1
  <2>3. e * (j - 1) \in Int /\ e * (j - 1) = (j - 1) * e /\ e * (j - 1) \in Multiples(e)
    BY <1>4, <2>1 DEF Multiples
  <2> QED BY <1>1, <1>2, <1>3, <2>2, <2>3
<1>8. ASSUME NEW x \in Place(q) PROVE \E j \in 1 .. n : x = (j - 1) * e
  <2>1. PICK k \in Int : x = e * k
    BY <1>3 DEF Multiples
  <2>2. 0 <= x /\ x < N /\ x \in Int
    BY <1>3, <1>4, <2>1
  <2>3. 0 <= k /\ ~(n <= k)
    <3>1. /\ 0 <= k <=> e * 0 <= e * k
          /\ n <= k <=> e * n <= e * k
      BY <1>2, <1>4
    <3> QED BY <1>1, <1>2, <1>5, <2>1, <2>2, <3>1
  <2>4. k + 1 \in 1 .. n /\ (k + 1) - 1 = k
    BY <1>6, <2>3
  <2> QED BY <1>4, <2>1, <2>4
<1>9. ASSUME NEW i \in 1 .. n, NEW j \in 1 .. n
      PROVE  i < j <=> (i - 1) * e < (j - 1) * e
  <2>1. i - 1 \in Int /\ j - 1 \in Int /\ (i < j <=> ~(j - 1 <= i - 1))
    BY <1>6
  <2>2. /\ j - 1 <= i - 1 <=> e * (j - 1) <= e * (i - 1)
        /\ e * (i - 1) = (i - 1) * e /\ e * (j - 1) = (j - 1) * e
        /\ e * (i - 1) \in Int /\ e * (j - 1) \in Int
    BY <1>4, <2>1
  <2> QED BY <2>1, <2>2
<1> QED BY <1>2, <1>6, <1>7, <1>8, <1>9 DEF N, e, n

\* What they are made of.
LEMMA ElementsAre ==
  ASSUME NEW q, IsSort(q), NEW d \in Seq(Int), Len(d) = Len(q.data)
  PROVE  LET n == Len(q.data) \div q.es
             E == Elements(d, q.es)
         IN  /\ Len(E) = n /\ DOMAIN E = 1 .. n
             /\ \A j \in 1 .. n :
                  /\ E[j] \in Seq(Int) /\ Len(E[j]) = q.es
                  /\ \A k \in 1 .. q.es : E[j][k] = d[(j - 1) * q.es + k]
<1> DEFINE N == Len(q.data)
           e == q.es
           n == N \div e
           E == Elements(d, e)
<1>1. /\ n \in Nat /\ e \in Nat \ {0} /\ N \in Nat
      /\ \A j \in 1 .. n : (j - 1) * e \in Place(q)
      /\ \A x \in Place(q) : x \in Int /\ 0 <= x /\ x + e <= N
  <2>1. /\ Place(q) \subseteq Bound(q) /\ Bound(q) \subseteq 0 .. N
        /\ \A x \in Place(q) : x + e \in Bound(q)
        /\ N \in Nat /\ e \in Nat \ {0}
    BY Places
  <2>2. n \in Nat /\ \A j \in 1 .. n : (j - 1) * e \in Place(q)
    BY PlacesCounted
  <2>3. \A x \in Place(q) : x \in Int /\ 0 <= x /\ x + e <= N
    <3> HIDE DEF N, e, n
    <3> QED BY <2>1
  <2> QED BY <2>1, <2>2, <2>3
<1>2. E = [j \in 1 .. n |-> SubSeq(d, (j - 1) * e + 1, j * e)]
  BY DEF Elements
<1>3. Len(E) = n /\ DOMAIN E = 1 .. n
  <2> HIDE DEF E, n
  <2> QED BY <1>1, <1>2
<1>4. ASSUME NEW j \in 1 .. n
      PROVE  /\ E[j] \in Seq(Int) /\ Len(E[j]) = e
             /\ \A k \in 1 .. e : E[j][k] = d[(j - 1) * e + k]
  <2> DEFINE x == (j - 1) * e
             y == j * e
  <2>1. x \in Int /\ 0 <= x /\ x + e <= N
    BY <1>1
  <2>2. y = x + e
    <3> HIDE DEF n, e
    <3> QED BY <1>1
  <2>3. E[j] = SubSeq(d, x + 1, y)
    <3> HIDE DEF n, E
    <3> QED BY <1>2
  <2> HIDE DEF x, y, E
  <2>4. \A i \in x + 1 .. y : d[i] \in Int
    <3>1. Len(d) = N
      OBVIOUS
    <3> HIDE DEF N, e
    <3>2. \A i \in x + 1 .. y : i \in 1 .. N
      BY <1>1, <2>1, <2>2
    <3> QED BY <3>1, <3>2
  <2> HIDE DEF N, e
  <2>5. x + 1 \in Int /\ y \in Int /\ x + 1 <= y /\ y - (x + 1) + 1 = e
    BY <1>1, <2>1, <2>2
  <2>6. /\ E[j] \in Seq(Int) /\ Len(E[j]) = y - (x + 1) + 1
        /\ \A k \in 1 .. y - (x + 1) + 1 : E[j][k] = d[(x + 1) + k - 1]
    BY <2>3, <2>4, <2>5, SubSeqProperties
  <2>7. ASSUME NEW k \in 1 .. e PROVE E[j][k] = d[x + k]
    <3>1. (x + 1) + k - 1 = x + k
      BY <1>1, <2>1
    <3> QED BY <2>5, <2>6, <3>1
  <2> QED BY <2>5, <2>6, <2>7 DEF x
<1> HIDE DEF E
<1> QED BY <1>3, <1>4 DEF E

\* A sort that has ended has its elements in order,
LEMMA EndInOrder ==
  ASSUME NEW q, IsSort(q), NEW s, SortInv(q, s, "done"),
         NEW d \in Seq(Int), Len(d) = Len(q.data), \A i \in 1 .. Len(d) : d[i] = s.mem[i - 1]
  PROVE  LET E == Elements(d, q.es)
         IN  \A i \in 1 .. Len(E) - 1 : E[i][1] <= E[i + 1][1]
<1> DEFINE e == q.es
           n == Len(q.data) \div q.es
           E == Elements(d, q.es)
<1>1. /\ Len(E) = n
      /\ \A j \in 1 .. n : \A k \in 1 .. e : E[j][k] = d[(j - 1) * e + k]
  BY ElementsAre
<1>2. /\ n \in Nat /\ \A j \in 1 .. n : (j - 1) * e \in Place(q)
      /\ \A i, j \in 1 .. n : i < j <=> (i - 1) * e < (j - 1) * e
  BY PlacesCounted
<1>3. /\ e \in Nat \ {0} /\ Len(q.data) \in Nat /\ Place(q) \subseteq Int
      /\ \A x \in Place(q) : 0 <= x /\ x < Len(q.data)
      /\ \A x, y \in Place(q) : x < y => x + e <= y
  BY Places
<1>4. \A j \in 1 .. n : E[j][1] = s.mem[(j - 1) * e]
  <2> SUFFICES ASSUME NEW j \in 1 .. n PROVE E[j][1] = s.mem[(j - 1) * e]
    OBVIOUS
  <2> DEFINE x == (j - 1) * e
  <2>1. x \in Place(q)
    BY <1>2
  <2>2. E[j][1] = d[x + 1]
    <3>1. 1 \in 1 .. e
      BY <1>3
    <3> QED BY <1>1, <3>1
  <2> HIDE DEF x, E, n, e
  <2>3. x + 1 \in 1 .. Len(d) /\ (x + 1) - 1 = x
    BY <1>3, <2>1
  <2>4. d[x + 1] = s.mem[x]
    BY <2>3
  <2> QED BY <2>2, <2>4 DEF x
<1>5. /\ InOrder(q, s) /\ s.stack = <<>> /\ s.l - s.a <= e
      /\ s.a \in Int /\ s.l \in Int
  <2>1. s \in SortLocals(q) /\ InOrder(q, s) /\ s.stack = <<>> /\ s.l - s.a <= e
    BY DEF SortInv
  <2>2. s.a \in Bound(q) /\ s.l \in Bound(q) /\ Bound(q) \subseteq 0 .. Len(q.data)
    BY <2>1, SortFields, Places
  <2> QED BY <2>1, <2>2
<1>6. Ranges(s) = {0} /\ Low(s, 0) = s.a /\ High(s, 0) = s.l
  BY <1>5 DEF Ranges, Low, High
<1> HIDE DEF E, n, e
<1>7. ASSUME NEW i \in 1 .. n - 1 PROVE E[i][1] <= E[i + 1][1]
  <2>1. i \in 1 .. n /\ i + 1 \in 1 .. n /\ i < i + 1
    BY <1>2
  <2> DEFINE x == (i - 1) * e
             y == ((i + 1) - 1) * e
  <2>2. x \in Place(q) /\ y \in Place(q) /\ x < y
    BY <1>2, <2>1
  <2>3. E[i][1] = s.mem[x] /\ E[i + 1][1] = s.mem[y]
    BY <1>4, <2>1
  <2> HIDE DEF x, y
  <2>4. s.mem[x] <= s.mem[y] \/ (s.a <= x /\ y < s.l)
    BY <1>5, <1>6, <2>2 DEF InOrder
  <2>5. ~(s.a <= x /\ y < s.l)
    BY <1>3, <1>5, <2>2
  <2> QED BY <2>3, <2>4, <2>5
<1> QED BY <1>1, <1>7 DEF E

\* and as many of each as before.
LEMMA EndCounts ==
  ASSUME NEW q, IsSort(q), NEW m, Rearranged(q, m),
         NEW d \in Seq(Int), Len(d) = Len(q.data), \A i \in 1 .. Len(d) : d[i] = m[i - 1],
         NEW x
  PROVE  Count(x, Elements(q.data, q.es)) = Count(x, Elements(d, q.es))
<1> DEFINE e == q.es
           n == Len(q.data) \div q.es
           B == Elements(q.data, q.es)
           E == Elements(d, q.es)
           P == Place(q)
<1>1. /\ DOMAIN E = 1 .. n
      /\ \A j \in 1 .. n : /\ E[j] \in Seq(Int) /\ Len(E[j]) = e
                           /\ \A k \in 1 .. e : E[j][k] = d[(j - 1) * e + k]
  BY ElementsAre
<1>2. /\ DOMAIN B = 1 .. n
      /\ \A j \in 1 .. n : /\ B[j] \in Seq(Int) /\ Len(B[j]) = e
                           /\ \A k \in 1 .. e : B[j][k] = q.data[(j - 1) * e + k]
  <2>1. q.data \in Seq(Int)
    BY DEF IsSort
  <2> QED BY <2>1, ElementsAre
<1>3. /\ n \in Nat /\ \A j \in 1 .. n : (j - 1) * e \in P
      /\ \A y \in P : \E j \in 1 .. n : y = (j - 1) * e
      /\ \A i, j \in 1 .. n : i < j <=> (i - 1) * e < (j - 1) * e
  BY PlacesCounted
<1>4. e \in Nat \ {0} /\ Len(q.data) \in Nat /\ P \subseteq Int
  BY Places
<1>5. PICK f \in Bijection(P, P) :
        \A y \in P : \A k \in 0 .. e - 1 : m[y + k] = q.data[f[y] + k + 1]
  BY DEF Rearranged
<1>6. /\ f \in [P -> P] /\ \A y, z \in P : f[y] = f[z] => y = z
      /\ \A z \in P : \E y \in P : f[y] = z
  BY Fun_BijectionProperties
<1> DEFINE at == [j \in 1 .. n |-> (j - 1) * e]
           g == [j \in 1 .. n |-> CHOOSE i \in 1 .. n : at[i] = f[at[j]]]
<1>7. /\ \A j \in 1 .. n : at[j] = (j - 1) * e /\ at[j] \in P
      /\ \A y \in P : \E j \in 1 .. n : y = at[j]
      /\ \A i, j \in 1 .. n : at[i] = at[j] => i = j
  <2>1. /\ \A j \in 1 .. n : at[j] = (j - 1) * e /\ at[j] \in P
        /\ \A y \in P : \E j \in 1 .. n : y = at[j]
    <3> HIDE DEF n, e, P
    <3> QED BY <1>3
  <2>2. ASSUME NEW i \in 1 .. n, NEW j \in 1 .. n, at[i] = at[j] PROVE i = j
    <3> HIDE DEF n, e, P, at
    <3>1. at[i] = (i - 1) * e /\ at[j] = (j - 1) * e /\ at[i] \in P
      BY <2>1
    <3>2. /\ i < j <=> (i - 1) * e < (j - 1) * e
          /\ j < i <=> (j - 1) * e < (i - 1) * e
      BY <1>3
    <3>3. (i < j <=> at[i] < at[j]) /\ (j < i <=> at[j] < at[i])
      BY <3>1, <3>2, Zenon
    <3>4. at[i] \in Int
      BY <1>4, <3>1
    <3> QED BY <1>3, <2>2, <3>3, <3>4
  <2> QED BY <2>1, <2>2
<1>8. ASSUME NEW j \in 1 .. n PROVE g[j] \in 1 .. n /\ at[g[j]] = f[at[j]]
  <2>1. \E i \in 1 .. n : at[i] = f[at[j]]
    <3>1. f[at[j]] \in P
      <4> HIDE DEF P, n, at
      <4> QED BY <1>6, <1>7
    <3> HIDE DEF P, n, at
    <3> QED BY <1>7, <3>1
  <2>2. g[j] = CHOOSE i \in 1 .. n : at[i] = f[at[j]]
    <3> HIDE DEF n, at
    <3> QED OBVIOUS
  <2> HIDE DEF n, at, g
  <2> QED BY <2>1, <2>2
<1> HIDE DEF g, at
<1>9. ASSUME NEW j \in 1 .. n PROVE E[j] = B[g[j]]
  <2> DEFINE i == g[j]
  <2>1. i \in 1 .. n /\ at[i] = f[at[j]]
    BY <1>8
  <2>2. ASSUME NEW k \in 1 .. e PROVE E[j][k] = B[i][k]
    <3>1. k - 1 \in 0 .. e - 1 /\ at[j] \in P /\ at[j] \in Int /\ at[i] \in Int
      <4>1. k - 1 \in 0 .. e - 1
        <5> HIDE DEF e
        <5> QED BY <1>4
      <4> QED BY <1>4, <1>7, <2>1, <4>1
    <3>2. at[j] + (k - 1) = (at[j] + k) - 1 /\ at[i] + (k - 1) + 1 = at[i] + k
      <4>1. k \in Int
        <5> HIDE DEF e
        <5> QED OBVIOUS
      <4> DEFINE y == at[j]
                 z == at[i]
      <4>2. y \in Int /\ z \in Int
        BY <3>1
      <4> HIDE DEF i, e, y, z
      <4>3. y + (k - 1) = (y + k) - 1 /\ z + (k - 1) + 1 = z + k
        BY <4>1, <4>2
      <4> QED BY <4>3 DEF y, z
    <3>3. m[at[j] + (k - 1)] = q.data[at[i] + (k - 1) + 1]
      BY <1>5, <2>1, <3>1
    <3>4. m[at[j] + (k - 1)] = d[at[j] + k]
      <4>1. at[j] + (k - 1) \in 0 .. Len(q.data) - 1
        BY <3>1, BytesOf
      <4>2. at[j] + k \in 1 .. Len(d)
        <5> DEFINE y == at[j]
                   N == Len(q.data)
        <5>1. k \in Int
          <6> HIDE DEF e
          <6> QED OBVIOUS
        <5>2. y \in Int /\ N \in Nat /\ y + (k - 1) \in 0 .. N - 1 /\ Len(d) = N
          BY <1>4, <3>1, <4>1
        <5> HIDE DEF e, y, N
        <5>3. y + k \in 1 .. N
          BY <5>1, <5>2
        <5> QED BY <5>2, <5>3 DEF y
      <4>3. d[at[j] + k] = m[(at[j] + k) - 1]
        BY <4>2
      <4> QED BY <3>2, <4>3
    <3>5. E[j][k] = d[at[j] + k] /\ B[i][k] = q.data[at[i] + k]
      <4>1. E[j][k] = d[(j - 1) * e + k] /\ at[j] = (j - 1) * e
        <5> HIDE DEF E, n, e
        <5> QED BY <1>1, <1>7
      <4>2. B[i][k] = q.data[(i - 1) * e + k] /\ at[i] = (i - 1) * e
        <5> HIDE DEF B, i, n, e
        <5> QED BY <1>2, <1>7, <2>1
      <4> HIDE DEF E, B, i, n, e
      <4> QED BY <4>1, <4>2, Zenon
    <3> HIDE DEF E, B, i
    <3> QED BY <3>2, <3>3, <3>4, <3>5
  <2> HIDE DEF E, B, i, e, n
  <2>3. E[j] \in Seq(Int) /\ B[i] \in Seq(Int) /\ Len(E[j]) = Len(B[i]) /\ Len(E[j]) = e
    BY <1>1, <1>2, <2>1
  <2>4. E[j] = B[i]
    BY <2>2, <2>3, SeqEqual
  <2> QED BY <2>4 DEF i
<1> DEFINE S == {j \in DOMAIN E : E[j] = x}
           T == {j \in DOMAIN B : B[j] = x}
           h == [j \in S |-> g[j]]
<1>10. S \in SUBSET (1 .. n) /\ T \in SUBSET (1 .. n)
  <2> HIDE DEF E, B, n
  <2> QED BY <1>1, <1>2
<1>11. h \in [S -> T] /\ \A j \in S : h[j] = g[j]
  <2> HIDE DEF E, B, n
  <2> QED BY <1>1, <1>2, <1>8, <1>9
<1>12. ASSUME NEW i \in S, NEW j \in S, h[i] = h[j] PROVE i = j
  <2>1. i \in 1 .. n /\ j \in 1 .. n /\ g[i] = g[j]
    <3> HIDE DEF S, h, n
    <3> QED BY <1>10, <1>11, <1>12
  <2>2. f[at[i]] = f[at[j]] /\ at[i] \in P /\ at[j] \in P
    <3> HIDE DEF n, P
    <3>1. at[g[i]] = f[at[i]] /\ at[g[j]] = f[at[j]]
      BY <1>8, <2>1
    <3>2. at[i] \in P /\ at[j] \in P
      BY <1>7, <2>1
    <3> QED BY <2>1, <3>1, <3>2, Zenon
  <2>3. at[i] = at[j]
    <3> HIDE DEF n, P
    <3> QED BY <1>6, <2>2
  <2> HIDE DEF n, P
  <2> QED BY <1>7, <2>1, <2>3
<1>13. ASSUME NEW i \in T PROVE \E j \in S : h[j] = i
  <2>1. i \in 1 .. n /\ B[i] = x
    <3> HIDE DEF B, n
    <3> QED BY <1>10
  <2>2. PICK y \in P : f[y] = at[i]
    <3> HIDE DEF n, P
    <3> QED BY <1>6, <1>7, <2>1
  <2>3. PICK j \in 1 .. n : y = at[j]
    <3> HIDE DEF n, P
    <3> QED BY <1>7
  <2>4. g[j] = i
    <3>1. g[j] \in 1 .. n /\ at[g[j]] = at[i]
      <4> HIDE DEF n
      <4> QED BY <1>8, <2>2, <2>3
    <3> HIDE DEF n, P
    <3> QED BY <1>7, <2>1, <3>1
  <2>5. j \in S
    <3> HIDE DEF E, B, n
    <3> QED BY <1>1, <1>9, <2>1, <2>4
  <2> HIDE DEF S, h
  <2> QED BY <1>11, <2>4, <2>5
<1>14. h \in Bijection(S, T)
  <2> HIDE DEF S, T, h
  <2> QED BY <1>11, <1>12, <1>13, Fun_IsBij
<1>15. IsFiniteSet(S)
  <2>1. IsFiniteSet(1 .. n)
    <3> HIDE DEF n
    <3> QED BY <1>3, FS_Interval
  <2> HIDE DEF S, n
  <2> QED BY <1>10, <2>1, FS_Subset
<1>16. Cardinality(T) = Cardinality(S)
  <2> HIDE DEF S, T, h
  <2>1. ExistsBijection(S, T)
    BY <1>14 DEF ExistsBijection
  <2> QED BY <1>15, <2>1, FS_Bijection
<1> QED BY <1>16 DEF Count

\* The calls that are open are not more than the array can be halved.
LEMMA DepthBounded ==
  ASSUME NEW q, IsSort(q), NEW s \in SortLocals(q), Halved(q, s)
  PROVE  Doublings[Len(s.stack)] <= Max({1, Len(Elements(q.data, q.es))})
<1> DEFINE n == Len(q.data) \div q.es
           depth == Len(s.stack)
           D == Doublings[depth]
           e == q.es
<1>1. n \in Nat /\ Len(q.data) = e * n /\ Len(Elements(q.data, e)) = n /\ e \in Nat \ {0}
  <2>1. q.data \in Seq(Int)
    BY DEF IsSort
  <2> QED BY <2>1, PlacesCounted, ElementsAre, Places
<1>2. 1 <= Max({1, n}) /\ n <= Max({1, n}) /\ Max({1, n}) \in Int
  <2>1. \E x \in {1, n} : \A y \in {1, n} : x >= y
    <3> HIDE DEF n
    <3>1. CASE 1 >= n
      BY <1>1, <3>1
    <3>2. CASE ~(1 >= n)
      BY <1>1, <3>2
    <3> QED BY <3>1, <3>2
  <2> HIDE DEF n
  <2>2. Max({1, n}) \in {1, n} /\ \A y \in {1, n} : Max({1, n}) >= y
    BY <2>1 DEF Max
  <2> QED BY <1>1, <2>2
<1>3. depth \in Nat /\ D \in Nat \ {0} /\ Doublings[0] = 1
  <2>1. depth \in Nat
    BY SortFields
  <2> HIDE DEF depth
  <2> QED BY <2>1, DoublingsAre
<1>4. depth # 0 => e * D <= e * n
  BY <1>1 DEF Halved
<1>5. depth # 0 => D <= n
  <2> HIDE DEF depth, D, e, n
  <2>1. D <= n <=> e * D <= e * n
    BY <1>1, <1>3, Times
  <2> QED BY <1>4, <2>1
<1>6. D <= Max({1, n})
  <2> HIDE DEF n, e
  <2>1. CASE depth = 0
    BY <1>2, <1>3, <2>1
  <2>2. CASE depth # 0
    <3> HIDE DEF D, depth
    <3> QED BY <1>1, <1>2, <1>3, <1>5, <2>2
  <2> QED BY <2>1, <2>2
<1> QED BY <1>1, <1>6

\* SortedRight of Library: a sort that has qses to itself ends with its elements in
\* order, none lost or torn, touches nothing around the array, and never has more
\* calls open than the array can be halved (qsort.c, lines 11-79).
THEOREM SortedRightHolds == Spec => []SortedRight
<1>1. ASSUME Types, Sorts, NEW p \in Programs, job[p].kind = "sort", alone[p]
      PROVE  LET before == Elements(job[p].data, job[p].es)
                 after  == Elements(SortedData(p), job[p].es)
                 array  == 0 .. Len(job[p].data) - 1
             IN  /\ pc[p] # "wild"
                 /\ \A x \in DOMAIN sort[p].mem \ array : sort[p].mem[x] = 0
                 /\ pc[p] = "done" =>
                      /\ \A i \in 1 .. Len(after) - 1 : after[i][1] <= after[i + 1][1]
                      /\ \A i \in DOMAIN before : Count(before[i], before) = Count(before[i], after)
                 /\ Doublings[Len(sort[p].stack)] <= Max({1, Len(before)})
  <2> DEFINE q == job[p]
             s == sort[p]
             d == SortedData(p)
             N == Len(job[p].data)
  <2>1. IsSort(q) /\ SortInv(q, s, pc[p])
    BY <1>1, SortOf DEF Sorts, SortKept
  <2>2. /\ pc[p] # "wild" /\ s \in SortLocals(q) /\ Rearranged(q, s.mem) /\ Halved(q, s)
        /\ s.mem \in [Around(q) -> Int]
    <3>1. /\ pc[p] # "wild" /\ s \in SortLocals(q) /\ Rearranged(q, s.mem) /\ Halved(q, s)
      BY <2>1 DEF SortInv
    <3> QED BY <3>1, SortFields
  <2>3. \A x \in DOMAIN s.mem \ (0 .. N - 1) : s.mem[x] = 0
    BY <2>2 DEF Rearranged
  <2>4. N \in Nat /\ \A i \in 1 .. N : i - 1 \in Around(q)
    <3>1. N \in Nat
      BY <2>1, Places
    <3>2. Around(q) = -2 .. N + 2 - 1
      BY DEF Around, GUARD
    <3> HIDE DEF N, q
    <3> QED BY <3>1, <3>2
  <2>5. /\ d \in Seq(Int) /\ Len(d) = N /\ \A i \in 1 .. Len(d) : d[i] = s.mem[i - 1]
    <3>1. d = [i \in 1 .. N |-> s.mem[i - 1]]
      BY DEF SortedData
    <3> HIDE DEF d, N, s, q
    <3>2. \A i \in 1 .. N : s.mem[i - 1] \in Int
      BY <2>2, <2>4
    <3> QED BY <2>4, <3>1, <3>2
  <2>6. pc[p] = "done" =>
          \A i \in 1 .. Len(Elements(d, q.es)) - 1 :
            Elements(d, q.es)[i][1] <= Elements(d, q.es)[i + 1][1]
    <3> HIDE DEF d, s, q
    <3> SUFFICES ASSUME pc[p] = "done"
                 PROVE  \A i \in 1 .. Len(Elements(d, q.es)) - 1 :
                          Elements(d, q.es)[i][1] <= Elements(d, q.es)[i + 1][1]
      OBVIOUS
    <3>1. SortInv(q, s, "done")
      BY <2>1
    <3> QED BY <2>1, <2>5, <3>1, EndInOrder DEF q
  <2>7. \A x : Count(x, Elements(q.data, q.es)) = Count(x, Elements(d, q.es))
    <3> HIDE DEF d, s, q
    <3> QED BY <2>1, <2>2, <2>5, EndCounts DEF q
  <2>8. Doublings[Len(s.stack)] <= Max({1, Len(Elements(q.data, q.es))})
    BY <2>1, <2>2, DepthBounded
  <2> HIDE DEF d
  <2> QED BY <2>2, <2>3, <2>6, <2>7, <2>8 DEF d
<1>2. Types /\ Sorts => SortedRight
  BY <1>1 DEF SortedRight
<1> QED BY <1>2, TypesAlways, SortsAlways, PTL

\* TypeOK of Library: every variable has its type, a scan stays within its text,
\* and the pointers of a sort that has qses to itself keep their order (doscan.c, lines
\* 33-330; qsort.c, lines 19-79).
THEOREM LibraryTypesHold == Spec => []TypeOK
<1>1. ASSUME Types, Sorts, NEW p \in Programs, Sorting(p), alone[p] PROVE PointersOrdered(p)
  <2> DEFINE q == job[p]
             s == sort[p]
             N == Len(job[p].data)
  <2>1. q.kind = "sort"
    BY <1>1 DEF Types, ScanTyped, Sorting
  <2>2. IsSort(q) /\ SortInv(q, s, pc[p])
    BY <1>1, <2>1, SortOf DEF Sorts, SortKept
  <2>3. s.a \in Bound(q) /\ s.l \in Bound(q) /\ Bound(q) \subseteq 0 .. N
    <3>1. s \in SortLocals(q)
      BY <2>2 DEF SortInv
    <3> QED BY <2>2, <3>1, SortFields, Places
  <2>4. ASSUME pc[p] \in {"left", "right"}
        PROVE  s.a <= s.i /\ s.i <= s.lp /\ s.lp <= s.hp /\ s.hp <= s.j /\ s.j <= s.l - s.es
    <3>1. /\ s.es = q.es /\ q.es \in Nat /\ s.j \in Place(q) /\ s.j \in Int /\ s.l \in Int /\ s.j < s.l
          /\ s.a <= s.i /\ s.i <= s.lp /\ s.lp <= s.hp /\ s.hp <= s.j
      BY <2>2, <2>4, PartedFacts
    <3>2. s.j + q.es <= s.l
      BY <2>2, <2>3, <3>1, Places
    <3>3. s.j <= s.l - s.es
      <4> HIDE DEF s, q
      <4> QED BY <3>1, <3>2
    <3> QED BY <3>1, <3>3
  <2>5. {s.a, s.l} \subseteq 0 .. N
    BY <2>3
  <2> QED BY <2>4, <2>5 DEF PointersOrdered
<1>2. ASSUME Types, NEW p \in Programs
      PROVE  scan[p].pos \in 1 .. Len(text[p]) + 1 /\ scan[p].ret \in EOF .. Len(scan[p].got)
  <2>1. scan[p] \in ScanLocals /\ text[p] \in Seq(Int) /\ ScanTyped(p)
    BY <1>2 DEF Types
  <2>2. /\ scan[p].pos \in Nat \ {0} /\ scan[p].ret \in Int /\ Len(scan[p].got) \in Nat
        /\ Len(text[p]) \in Nat
    BY <2>1, ScanFields
  <2>3. /\ scan[p].pos <= Len(text[p]) + 1
        /\ EOF <= scan[p].ret /\ scan[p].ret <= Len(scan[p].got)
    BY <2>1 DEF ScanTyped
  <2> QED BY <2>2, <2>3 DEF EOF
<1>3. Types /\ Sorts => TypeOK
  BY <1>1, <1>2 DEF TypeOK, Types
<1> QED BY <1>3, TypesAlways, SortsAlways, PTL
=============================================================================
