---------------------------- MODULE MemoryProofs -----------------------------
(***************************************************************************)
(* What TLAPS proves about Memory, for any paragraph, layout, stacks and   *)
(* number of blocks: its types, that the blocks share no byte, and that a  *)
(* hole is left only when it is full.                                      *)
(***************************************************************************)
EXTENDS Memory, TLAPS

USE DEF NULL

\* What the two holes claim, first and last.
Claim1 == HOLESTART - Base
Claim2 == MEMEND - HOLEEND

\* The bytes handed out.
Covered == UNION {Bytes(b) : b \in blocks}

\* The list, when e1 and e2 are where what is left of the holes begins.
Both(e1, e2) ==
  /\ head = e1 /\ e1 \in DOMAIN hdr /\ e2 \in DOMAIN hdr
  /\ hdr[e1] = [next |-> e2, prev |-> NULL, size |-> Claim1]
  /\ hdr[e2] = [next |-> NULL, prev |-> e1, size |-> Claim2]

Only(e, claim) ==
  /\ head = e /\ e \in DOMAIN hdr
  /\ hdr[e] = [next |-> NULL, prev |-> NULL, size |-> claim]

List(e1, e2) == Both(e1, e2) \/ Only(e1, Claim1) \/ Only(e2, Claim2) \/ head = NULL

(***************************************************************************)
(* Up to e1 the first hole is in blocks, up to e2 the second, past their   *)
(* ends when they have been overrun, and nothing else is.                  *)
(***************************************************************************)
Used(e1, e2) ==
  /\ \A b \in blocks :
       /\ b.start \in Nat /\ b.start % PARA = 0 /\ b.len \in Nat \ {0}
       /\ \/ Base <= b.start /\ b.start + b.len <= e1
          \/ HOLEEND <= b.start /\ b.start + b.len <= e2
  /\ Base .. e1 - 1 \subseteq Covered
  /\ HOLEEND .. e2 - 1 \subseteq Covered
  /\ \A b, c \in blocks : b # c => Bytes(b) \cap Bytes(c) = {}

Ends(e1, e2) ==
  /\ e1 \in Nat /\ e2 \in Nat
  /\ Base <= e1 /\ e1 < HOLEEND /\ HOLEEND <= e2
  /\ e1 % PARA = 0 /\ e2 % PARA = 0

Headers == \A a \in DOMAIN hdr : a \in Nat \ {NULL} /\ hdr[a].size \in Nat

\* The inductive invariant.
Filled ==
  /\ Headers
  /\ \E e1, e2 \in Nat : Ends(e1, e2) /\ List(e1, e2) /\ Used(e1, e2)
-----------------------------------------------------------------------------
\* Division with a remainder, and multiples of d.
LEMMA Quotient ==
  ASSUME NEW a \in Nat, NEW d \in Nat \ {0}
  PROVE  a \div d \in Nat /\ a % d \in 0 .. d - 1 /\ a = d * (a \div d) + (a % d)
OBVIOUS

\* A product is a multiple.
LEMMA Multiple ==
  ASSUME NEW q \in Nat, NEW d \in Nat \ {0}
  PROVE  q * d \in Nat /\ (q * d) % d = 0
OBVIOUS

\* What leaves no remainder is a product.
LEMMA MultipleOf ==
  ASSUME NEW a \in Nat, NEW d \in Nat \ {0}, a % d = 0
  PROVE  \E q \in Nat : a = q * d
OBVIOUS

\* Sums of paragraphs.
LEMMA ParasAdd ==
  ASSUME NEW a \in Nat, NEW b \in Nat, a % PARA = 0, b % PARA = 0
  PROVE  (a + b) % PARA = 0
<1>0. PARA \in Nat \ {0}
  BY ParaAssumption
<1>1. PICK q \in Nat : a = q * PARA
  BY <1>0, MultipleOf
<1>2. PICK r \in Nat : b = r * PARA
  BY <1>0, MultipleOf
<1>3. a + b = (q + r) * PARA /\ q + r \in Nat
  BY <1>0, <1>1, <1>2
<1>4. ((q + r) * PARA) % PARA = 0
  BY <1>0, <1>3, Multiple
<1> QED BY <1>3, <1>4

\* Rounding up: to the next paragraph, if it is not the start of one.
LEMMA NextPara ==
  ASSUME NEW n \in Nat
  PROVE  LET m == ((n + PARA) \div PARA) * PARA
         IN  m \in Nat /\ m % PARA = 0 /\ n < m /\ m <= n + PARA
<1> DEFINE k == n + PARA
           q == k \div PARA
           r == k % PARA
<1>1. PARA \in Nat \ {0} /\ k \in Nat
  BY ParaAssumption
<1> HIDE DEF k
<1>2. q \in Nat /\ r \in 0 .. PARA - 1 /\ k = PARA * q + r
  BY <1>1, Quotient
<1> HIDE DEF q, r
<1>3. q * PARA \in Nat /\ (q * PARA) % PARA = 0
  BY <1>1, <1>2, Multiple
<1>4. q * PARA = PARA * q
  BY <1>1, <1>2
<1> DEFINE m == q * PARA
<1>5. m \in Nat /\ k = m + r
  BY <1>2, <1>3, <1>4
<1> HIDE DEF m
<1>6. n < m /\ m <= n + PARA
  BY <1>1, <1>2, <1>5 DEF k
<1> QED BY <1>3, <1>6 DEF m, q, k

\* The rounding of kmalloc(): up to whole paragraphs.
LEMMA RoundUp ==
  ASSUME NEW n \in Nat
  PROVE  Round(n) \in Nat /\ Round(n) % PARA = 0 /\ n <= Round(n)
<1> DEFINE m == ((n + PARA) \div PARA) * PARA
<1>1. m \in Nat /\ m % PARA = 0 /\ n < m
  BY NextPara
<1>2. Round(n) = IF n % PARA = 0 THEN n ELSE m
  BY DEF Round
<1> HIDE DEF m
<1> QED BY <1>1, <1>2

\* kmeminit(): the first hole begins at the paragraph after FREEMEM.
LEMMA BaseFacts ==
  /\ Base \in Nat /\ Base # NULL /\ Base % PARA = 0
  /\ Base + HEADER <= HOLESTART /\ HOLESTART < HOLEEND
  /\ Claim1 \in Nat /\ Claim2 \in Nat
  /\ \A e \in Nat, n \in Nat :
       e + HEADER <= HOLESTART /\ n <= Claim1 => e + n < HOLEEND
<1>1. Base \in Nat /\ Base % PARA = 0 /\ FREEMEM < Base /\ Base <= FREEMEM + PARA
  BY NextPara, LayoutAssumption DEF Base
<1> QED BY <1>1, ParaAssumption, LayoutAssumption DEF Claim1, Claim2

\* create() asks for whole paragraphs, and for one at least.
LEMMA SizeFacts ==
  ASSUME NEW stack \in Stack
  PROVE  Size(stack) \in Nat \ {0} /\ Size(stack) % PARA = 0
<1> DEFINE n == 2 * IF stack < PROC_STACK THEN PROC_STACK ELSE stack
<1>1. n \in Nat /\ n > 0
  BY StackAssumption
<1> HIDE DEF n
<1>2. Round(n) \in Nat /\ Round(n) % PARA = 0 /\ n <= Round(n)
  BY <1>1, RoundUp
<1> QED BY <1>1, <1>2 DEF Size, n

-----------------------------------------------------------------------------
\* kmalloc() hands out the next n bytes of the first hole, or of the second.
LEMMA UsedFirst ==
  ASSUME NEW e1, NEW e2, Ends(e1, e2), Used(e1, e2),
         NEW n \in Nat \ {0}, e1 + n < HOLEEND, n % PARA = 0,
         blocks' = blocks \cup {[start |-> e1, len |-> n]}
  PROVE  Ends(e1 + n, e2) /\ Used(e1 + n, e2)'
<1> DEFINE new == [start |-> e1, len |-> n]
<1>1. /\ e1 \in Nat /\ e2 \in Nat /\ Base <= e1 /\ e1 < HOLEEND /\ HOLEEND <= e2
      /\ e1 % PARA = 0 /\ e2 % PARA = 0
  BY DEF Ends
<1>2. Base \in Nat /\ HOLEEND \in Nat /\ n \in Nat
  BY BaseFacts, LayoutAssumption
<1>3. new.start = e1 /\ new.len = n /\ Bytes(new) = e1 .. e1 + n - 1
  BY <1>1, <1>2 DEF Bytes
<1>4. blocks' = blocks \cup {new}
  OBVIOUS
<1> HIDE DEF new
<1>5. \A b \in blocks :
        /\ b.start \in Nat /\ b.start % PARA = 0 /\ b.len \in Nat \ {0}
        /\ \/ Base <= b.start /\ b.start + b.len <= e1
           \/ HOLEEND <= b.start /\ b.start + b.len <= e2
  BY DEF Used
<1>6. \A b \in blocks : Bytes(b) \cap Bytes(new) = {}
  BY <1>1, <1>2, <1>3, <1>5 DEF Bytes
<1>7. (e1 + n) % PARA = 0
  BY <1>1, <1>2, ParasAdd
<1>8. Ends(e1 + n, e2)
  BY <1>1, <1>2, <1>7 DEF Ends
<1>9. \A b \in blocks' :
        /\ b.start \in Nat /\ b.start % PARA = 0 /\ b.len \in Nat \ {0}
        /\ \/ Base <= b.start /\ b.start + b.len <= e1 + n
           \/ HOLEEND <= b.start /\ b.start + b.len <= e2
  <2> TAKE b \in blocks'
  <2>1. CASE b \in blocks
    BY <1>1, <1>2, <1>5, <2>1
  <2>2. CASE b = new
    BY <1>1, <1>2, <1>3, <2>2
  <2> QED BY <1>4, <2>1, <2>2
<1>10. Covered' = Covered \cup Bytes(new)
  BY <1>4 DEF Covered, Bytes
<1>11. Base .. (e1 + n) - 1 \subseteq Covered'
  <2>1. Base .. e1 - 1 \subseteq Covered
    BY DEF Used
  <2>2. ASSUME NEW x \in Base .. (e1 + n) - 1 PROVE x \in Base .. e1 - 1 \/ x \in Bytes(new)
    BY <1>1, <1>2, <1>3
  <2> QED BY <1>10, <2>1, <2>2
<1>12. HOLEEND .. e2 - 1 \subseteq Covered'
  BY <1>10 DEF Used
<1>13. \A b, c \in blocks' : b # c => Bytes(b) \cap Bytes(c) = {}
  BY <1>4, <1>6 DEF Used
<1> QED BY <1>8, <1>9, <1>11, <1>12, <1>13 DEF Used, Bytes

\* A block from the front of the second hole.
LEMMA UsedSecond ==
  ASSUME NEW e1, NEW e2, Ends(e1, e2), Used(e1, e2),
         NEW n \in Nat \ {0}, n % PARA = 0,
         blocks' = blocks \cup {[start |-> e2, len |-> n]}
  PROVE  Ends(e1, e2 + n) /\ Used(e1, e2 + n)'
<1> DEFINE new == [start |-> e2, len |-> n]
<1>1. /\ e1 \in Nat /\ e2 \in Nat /\ Base <= e1 /\ e1 < HOLEEND /\ HOLEEND <= e2
      /\ e1 % PARA = 0 /\ e2 % PARA = 0
  BY DEF Ends
<1>2. Base \in Nat /\ HOLEEND \in Nat /\ n \in Nat
  BY BaseFacts, LayoutAssumption
<1>3. new.start = e2 /\ new.len = n /\ Bytes(new) = e2 .. e2 + n - 1
  BY <1>1, <1>2 DEF Bytes
<1>4. blocks' = blocks \cup {new}
  OBVIOUS
<1> HIDE DEF new
<1>5. \A b \in blocks :
        /\ b.start \in Nat /\ b.start % PARA = 0 /\ b.len \in Nat \ {0}
        /\ \/ Base <= b.start /\ b.start + b.len <= e1
           \/ HOLEEND <= b.start /\ b.start + b.len <= e2
  BY DEF Used
<1>6. \A b \in blocks : Bytes(b) \cap Bytes(new) = {}
  BY <1>1, <1>2, <1>3, <1>5 DEF Bytes
<1>7. (e2 + n) % PARA = 0
  BY <1>1, <1>2, ParasAdd
<1>8. Ends(e1, e2 + n)
  BY <1>1, <1>2, <1>7 DEF Ends
<1>9. \A b \in blocks' :
        /\ b.start \in Nat /\ b.start % PARA = 0 /\ b.len \in Nat \ {0}
        /\ \/ Base <= b.start /\ b.start + b.len <= e1
           \/ HOLEEND <= b.start /\ b.start + b.len <= e2 + n
  <2> TAKE b \in blocks'
  <2>1. CASE b \in blocks
    BY <1>1, <1>2, <1>5, <2>1
  <2>2. CASE b = new
    BY <1>1, <1>2, <1>3, <2>2
  <2> QED BY <1>4, <2>1, <2>2
<1>10. Covered' = Covered \cup Bytes(new)
  BY <1>4 DEF Covered, Bytes
<1>11. HOLEEND .. (e2 + n) - 1 \subseteq Covered'
  <2>1. HOLEEND .. e2 - 1 \subseteq Covered
    BY DEF Used
  <2>2. ASSUME NEW x \in HOLEEND .. (e2 + n) - 1 PROVE x \in HOLEEND .. e2 - 1 \/ x \in Bytes(new)
    BY <1>1, <1>2, <1>3
  <2> QED BY <1>10, <2>1, <2>2
<1>12. Base .. e1 - 1 \subseteq Covered'
  BY <1>10 DEF Used
<1>13. \A b, c \in blocks' : b # c => Bytes(b) \cap Bytes(c) = {}
  BY <1>4, <1>6 DEF Used
<1> QED BY <1>8, <1>9, <1>11, <1>12, <1>13 DEF Used, Bytes
-----------------------------------------------------------------------------
\* Links change, sizes and addresses do not.
LEMMA RelinkKeeps ==
  ASSUME Headers, NEW p, NEW a, NEW b
  PROVE  /\ DOMAIN Relink(hdr, p, a, b) = DOMAIN hdr
         /\ \A x \in DOMAIN hdr : Relink(hdr, p, a, b)[x].size = hdr[x].size
BY DEF Headers, Relink

\* The first hole leaves the list: the second one is alone in it.
LEMMA RemoveFirst ==
  ASSUME NEW e1 \in Nat, NEW e2 \in Nat, e1 # e2, Headers, Remove(e1),
         Both(e1, e2) \/ Only(e1, Claim1)
  PROVE  Headers' /\ (Only(e2, Claim2)' \/ head' = NULL)
<1>1. /\ hdr' = Relink(hdr, e1, hdr[e1].next, hdr[e1].prev)
      /\ head' = IF hdr[e1].prev = NULL THEN hdr[e1].next ELSE head
  BY DEF Remove
<1>2. Headers'
  BY <1>1, RelinkKeeps DEF Headers
<1>3. CASE Both(e1, e2)
  <2>1. Only(e2, Claim2)'
    BY <1>1, <1>3 DEF Both, Only, Relink, Headers, Claim2
  <2> QED BY <1>2, <2>1
<1>4. CASE Only(e1, Claim1)
  <2>1. head' = NULL
    BY <1>1, <1>4 DEF Only
  <2> QED BY <1>2, <2>1
<1> QED BY <1>3, <1>4

\* The same of the second.
LEMMA RemoveSecond ==
  ASSUME NEW e1 \in Nat, NEW e2 \in Nat, e1 # e2, Headers, Remove(e2),
         Both(e1, e2) \/ Only(e2, Claim2)
  PROVE  Headers' /\ (Only(e1, Claim1)' \/ head' = NULL)
<1>1. /\ hdr' = Relink(hdr, e2, hdr[e2].next, hdr[e2].prev)
      /\ head' = IF hdr[e2].prev = NULL THEN hdr[e2].next ELSE head
  BY DEF Remove
<1>2. Headers'
  BY <1>1, RelinkKeeps DEF Headers
<1>3. CASE Both(e1, e2)
  <2>1. Only(e1, Claim1)'
    BY <1>1, <1>3 DEF Both, Only, Relink, Headers, Claim1
  <2> QED BY <1>2, <2>1
<1>4. CASE Only(e2, Claim2)
  <2>1. head' = NULL
    BY <1>1, <1>4 DEF Only
  <2> QED BY <1>2, <2>1
<1> QED BY <1>3, <1>4

\* What is left of the first hole takes its place, and claims as much.
LEMMA SplitFirst ==
  ASSUME NEW e1 \in Nat, NEW e2 \in Nat, NEW n \in Nat \ {0}, e1 < e2, e1 + n < e2,
         Headers, Split(e1, n), Both(e1, e2) \/ Only(e1, Claim1)
  PROVE  Headers' /\ List(e1 + n, e2)'
<1> DEFINE r == e1 + n
           h == Relink(hdr, e1, r, r)
<1>1. /\ hdr' = [x \in DOMAIN hdr \cup {r} |-> IF x = r THEN hdr[e1] ELSE h[x]]
      /\ head' = IF hdr[e1].prev = NULL THEN r ELSE head
  BY DEF Split
<1>2. r \in Nat \ {NULL} /\ r # e2 /\ r # e1
  OBVIOUS
<1>3. DOMAIN h = DOMAIN hdr /\ \A x \in DOMAIN hdr : h[x].size = hdr[x].size
  BY RelinkKeeps
<1>4. h = [x \in DOMAIN hdr |->
             IF x = hdr[e1].prev THEN [hdr[x] EXCEPT !.next = r]
             ELSE IF x = hdr[e1].next THEN [hdr[x] EXCEPT !.prev = r] ELSE hdr[x]]
  BY DEF Relink
<1>5. e1 \in DOMAIN hdr /\ NULL \notin DOMAIN hdr
  BY DEF Both, Only, Headers
<1> HIDE DEF r, h
<1>6. Headers'
  <2> SUFFICES ASSUME NEW a \in DOMAIN hdr' PROVE a \in Nat \ {NULL} /\ hdr'[a].size \in Nat
    BY DEF Headers
  <2>1. CASE a = r
    BY <1>1, <1>2, <1>5, <2>1 DEF Headers
  <2>2. CASE a # r
    BY <1>1, <1>3, <2>2 DEF Headers
  <2> QED BY <2>1, <2>2
<1>7. CASE Both(e1, e2)
  <2>1. Both(r, e2)'
    BY <1>1, <1>2, <1>4, <1>5, <1>7 DEF Both, Claim1, Claim2
  <2> QED BY <1>6, <2>1 DEF List, r
<1>8. CASE Only(e1, Claim1)
  <2>1. Only(r, Claim1)'
    BY <1>1, <1>2, <1>4, <1>5, <1>8 DEF Only, Claim1
  <2> QED BY <1>6, <2>1 DEF List, r
<1> QED BY <1>7, <1>8

\* The second hole is split: its header moves up.
LEMMA SplitSecond ==
  ASSUME NEW e1 \in Nat, NEW e2 \in Nat, NEW n \in Nat \ {0}, e1 < e2,
         Headers, Split(e2, n), Both(e1, e2) \/ Only(e2, Claim2)
  PROVE  Headers' /\ List(e1, e2 + n)'
<1> DEFINE r == e2 + n
           h == Relink(hdr, e2, r, r)
<1>1. /\ hdr' = [x \in DOMAIN hdr \cup {r} |-> IF x = r THEN hdr[e2] ELSE h[x]]
      /\ head' = IF hdr[e2].prev = NULL THEN r ELSE head
  BY DEF Split
<1>2. r \in Nat \ {NULL} /\ r # e2 /\ r # e1
  OBVIOUS
<1>3. DOMAIN h = DOMAIN hdr /\ \A x \in DOMAIN hdr : h[x].size = hdr[x].size
  BY RelinkKeeps
<1>4. h = [x \in DOMAIN hdr |->
             IF x = hdr[e2].prev THEN [hdr[x] EXCEPT !.next = r]
             ELSE IF x = hdr[e2].next THEN [hdr[x] EXCEPT !.prev = r] ELSE hdr[x]]
  BY DEF Relink
<1>5. e2 \in DOMAIN hdr /\ NULL \notin DOMAIN hdr
  BY DEF Both, Only, Headers
<1> HIDE DEF r, h
<1>6. Headers'
  <2> SUFFICES ASSUME NEW a \in DOMAIN hdr' PROVE a \in Nat \ {NULL} /\ hdr'[a].size \in Nat
    BY DEF Headers
  <2>1. CASE a = r
    BY <1>1, <1>2, <1>5, <2>1 DEF Headers
  <2>2. CASE a # r
    BY <1>1, <1>3, <2>2 DEF Headers
  <2> QED BY <2>1, <2>2
<1>7. CASE Both(e1, e2)
  <2>1. Both(e1, r)'
    BY <1>1, <1>2, <1>4, <1>5, <1>7 DEF Both, Claim1, Claim2
  <2> QED BY <1>6, <2>1 DEF List, r
<1>8. CASE Only(e2, Claim2)
  <2>1. Only(r, Claim2)'
    BY <1>1, <1>2, <1>4, <1>5, <1>8 DEF Only, Claim2
  <2> QED BY <1>6, <2>1 DEF List, r
<1> QED BY <1>7, <1>8

\* kmalloc() looks no further than the two holes of the list.
LEMMA FitIsHole ==
  ASSUME NEW e1 \in Nat, NEW e2 \in Nat, Ends(e1, e2), Headers, List(e1, e2),
         NEW n \in Nat, FirstFit(n) # NULL
  PROVE  \/ FirstFit(n) = e1 /\ n <= Claim1 /\ (Both(e1, e2) \/ Only(e1, Claim1))
         \/ FirstFit(n) = e2 /\ n <= Claim2 /\ (Both(e1, e2) \/ Only(e2, Claim2))
<1>1. e1 # NULL /\ e2 # NULL
  BY BaseFacts, LayoutAssumption DEF Ends
<1>2. Claim1 \in Nat /\ Claim2 \in Nat
  BY BaseFacts
<1>3. CASE Both(e1, e2)
  BY <1>1, <1>2, <1>3 DEF Both, FirstFit, Second
<1>4. CASE Only(e1, Claim1)
  BY <1>1, <1>2, <1>4 DEF Only, FirstFit, Second
<1>5. CASE Only(e2, Claim2)
  BY <1>1, <1>2, <1>5 DEF Only, FirstFit, Second
<1>6. CASE head = NULL
  BY <1>6 DEF FirstFit, Second
<1> QED BY <1>3, <1>4, <1>5, <1>6 DEF List

\* As long as the first hole has not been overrun, its header is inside it.
LEMMA HeaderInside ==
  ASSUME NEW e1, NEW e2, Ends(e1, e2), ~Overrun, e1 \in Listed
  PROVE  e1 + HEADER <= HOLESTART
<1>1. /\ Base \in Nat /\ HOLESTART \in Nat /\ HOLEEND \in Nat /\ MEMEND \in Nat
      /\ HEADER \in Nat \ {0} /\ e1 \in Nat /\ e1 < HOLEEND
  BY BaseFacts, LayoutAssumption, ParaAssumption DEF Ends
<1>2. e1 \in Header(e1) /\ e1 + HEADER - 1 \in Header(e1)
  BY <1>1 DEF Header
<1>3. Inside(Header(e1))
  BY DEF Overrun
<1>4. Header(e1) \subseteq Base .. HOLESTART - 1 \/ Header(e1) \subseteq HOLEEND .. MEMEND - 1
  BY <1>3 DEF Inside, Hole
<1> QED BY <1>1, <1>2, <1>4

\* kmeminit() makes the invariant true.
LEMMA InitFilled == Init => Filled
<1> SUFFICES ASSUME Init PROVE Filled
  OBVIOUS
<1>1. /\ Base \in Nat /\ Base # NULL /\ Base % PARA = 0 /\ Base < HOLEEND
      /\ Claim1 \in Nat /\ Claim2 \in Nat
  BY BaseFacts, ParaAssumption, LayoutAssumption
<1>2. HOLEEND \in Nat /\ HOLEEND % PARA = 0
  BY LayoutAssumption, ParaAssumption
<1>3. Headers
  BY <1>1, <1>2 DEF Init, Headers, Claim1, Claim2
<1>4. Ends(Base, HOLEEND)
  BY <1>1, <1>2 DEF Ends
<1>5. Both(Base, HOLEEND)
  BY <1>1, <1>2 DEF Init, Both, Claim1, Claim2
<1>6. Used(Base, HOLEEND)
  BY <1>1, <1>2 DEF Init, Used, Covered
<1> QED BY <1>1, <1>2, <1>3, <1>4, <1>5, <1>6 DEF Filled, List

\* kmalloc() of a block for create().
LEMMA CreateFilled ==
  ASSUME Filled, NEW stack \in Stack, Create(stack)
  PROVE  Filled'
<1> DEFINE n == Size(stack)
           p == FirstFit(n)
<1>1. ~Overrun /\ p # NULL /\ Kmalloc(p, n)
  BY DEF Create
<1>2. n \in Nat \ {0} /\ n % PARA = 0
  BY SizeFacts
<1>3. PICK e1 \in Nat, e2 \in Nat : Ends(e1, e2) /\ List(e1, e2) /\ Used(e1, e2)
  BY DEF Filled
<1>4. Headers
  BY DEF Filled
<1>5. e1 < e2 /\ HOLEEND <= e2 /\ HOLEEND \in Nat /\ e1 # NULL
  BY <1>3, LayoutAssumption, BaseFacts DEF Ends
<1>6. \/ p = e1 /\ n <= Claim1 /\ (Both(e1, e2) \/ Only(e1, Claim1))
      \/ p = e2 /\ n <= Claim2 /\ (Both(e1, e2) \/ Only(e2, Claim2))
  BY <1>1, <1>2, <1>3, <1>4, FitIsHole
<1> HIDE DEF n, p
<1>7. /\ blocks' = blocks \cup {[start |-> p, len |-> n]}
      /\ Remove(p) \/ Split(p, n)
  BY <1>1 DEF Kmalloc
<1>8. CASE p = e1 /\ n <= Claim1 /\ (Both(e1, e2) \/ Only(e1, Claim1))
  <2>1. e1 \in Listed
    BY <1>5, <1>8 DEF Both, Only, Listed
  <2>2. e1 + HEADER <= HOLESTART
    BY <1>1, <1>3, <2>1, HeaderInside
  <2>3. e1 + n < HOLEEND
    BY <1>2, <1>8, <2>2, BaseFacts
  <2>4. Ends(e1 + n, e2) /\ Used(e1 + n, e2)'
    BY <1>2, <1>3, <1>7, <1>8, <2>3, UsedFirst
  <2>5. CASE Remove(p)
    <3>1. Headers' /\ (Only(e2, Claim2)' \/ head' = NULL)
      BY <1>4, <1>5, <1>8, <2>5, RemoveFirst
    <3>2. List(e1 + n, e2)'
      BY <3>1 DEF List
    <3> QED BY <1>2, <2>4, <3>1, <3>2 DEF Filled, Ends
  <2>6. CASE Split(p, n)
    <3>1. e1 + n < e2
      BY <1>2, <1>5, <2>3
    <3>2. Headers' /\ List(e1 + n, e2)'
      BY <1>2, <1>4, <1>5, <1>8, <2>6, <3>1, SplitFirst
    <3> QED BY <1>2, <2>4, <3>2 DEF Filled, Ends
  <2> QED BY <1>7, <2>5, <2>6
<1>9. CASE p = e2 /\ n <= Claim2 /\ (Both(e1, e2) \/ Only(e2, Claim2))
  <2>1. Ends(e1, e2 + n) /\ Used(e1, e2 + n)'
    BY <1>2, <1>3, <1>7, <1>9, UsedSecond
  <2>2. CASE Remove(p)
    <3>1. Headers' /\ (Only(e1, Claim1)' \/ head' = NULL)
      BY <1>4, <1>5, <1>9, <2>2, RemoveSecond
    <3>2. List(e1, e2 + n)'
      BY <3>1 DEF List
    <3> QED BY <1>2, <2>1, <3>1, <3>2 DEF Filled, Ends
  <2>3. CASE Split(p, n)
    <3>1. Headers' /\ List(e1, e2 + n)'
      BY <1>2, <1>4, <1>5, <1>9, <2>3, SplitSecond
    <3> QED BY <1>2, <2>1, <3>1 DEF Filled, Ends
  <2> QED BY <1>7, <2>2, <2>3
<1> QED BY <1>6, <1>8, <1>9

\* Every step keeps it.
LEMMA NextFilled == Filled /\ [Next]_vars => Filled'
<1> SUFFICES ASSUME Filled, [Next]_vars PROVE Filled'
  OBVIOUS
<1>1. CASE UNCHANGED vars
  BY <1>1 DEF vars, Filled, Headers, Ends, List, Both, Only, Used, Covered, Bytes
<1>2. ASSUME NEW stack \in Stack, Create(stack) PROVE Filled'
  BY <1>2, CreateFilled
<1>3. ASSUME NEW stack \in Stack, CreateFails(stack) PROVE Filled'
  BY <1>1, <1>3 DEF CreateFails
<1> QED BY <1>1, <1>2, <1>3 DEF Next

\* It holds in every reachable state.
LEMMA FilledHolds == Spec => []Filled
<1> QED BY InitFilled, NextFilled, PTL DEF Spec
-----------------------------------------------------------------------------
\* A hole of the list begins where the blocks that start in it end.
LEMMA ListedEnds ==
  ASSUME NEW e1, NEW e2, Ends(e1, e2), List(e1, e2)
  PROVE  /\ Listed \subseteq {e1, e2} \cap DOMAIN hdr
         /\ head # NULL => hdr[head].prev = NULL
         /\ Second # NULL => hdr[Second].prev = head /\ hdr[Second].next = NULL
<1>1. e1 # NULL /\ e2 # NULL
  BY BaseFacts, LayoutAssumption DEF Ends
<1>2. CASE Both(e1, e2)
  BY <1>1, <1>2 DEF Both, Listed, Second
<1>3. CASE Only(e1, Claim1)
  BY <1>1, <1>3 DEF Only, Listed, Second
<1>4. CASE Only(e2, Claim2)
  BY <1>1, <1>4 DEF Only, Listed, Second
<1>5. CASE head = NULL
  BY <1>5 DEF Listed, Second
<1> QED BY <1>2, <1>3, <1>4, <1>5 DEF List

\* It implies the types,
LEMMA FilledTypes == Filled => TypeOK
<1> SUFFICES ASSUME Filled PROVE TypeOK
  OBVIOUS
<1>1. PICK e1 \in Nat, e2 \in Nat : Ends(e1, e2) /\ List(e1, e2) /\ Used(e1, e2)
  BY DEF Filled
<1>2. \A a \in DOMAIN hdr : a \in Nat \ {NULL} /\ hdr[a].size \in Nat
  BY DEF Filled, Headers
<1>3. \A b \in blocks : b.start \in Nat /\ b.start % PARA = 0 /\ b.len \in Nat
  BY <1>1 DEF Used
<1> QED BY <1>1, <1>2, <1>3, ListedEnds DEF TypeOK

\* that blocks share no byte with each other or with the list,
LEMMA FilledApart == Filled => BlocksApart
<1> SUFFICES ASSUME Filled PROVE BlocksApart
  OBVIOUS
<1>1. PICK e1 \in Nat, e2 \in Nat : Ends(e1, e2) /\ List(e1, e2) /\ Used(e1, e2)
  BY DEF Filled
<1>2. \A b, c \in blocks : b # c => Bytes(b) \cap Bytes(c) = {}
  BY <1>1 DEF Used
<1>3. ASSUME ~Overrun, NEW b \in blocks, NEW a \in Listed
      PROVE  Bytes(b) \cap Header(a) = {}
  <2>1. /\ b.start \in Nat /\ b.len \in Nat \ {0}
        /\ \/ Base <= b.start /\ b.start + b.len <= e1
           \/ HOLEEND <= b.start /\ b.start + b.len <= e2
    BY <1>1 DEF Used
  <2>2. /\ e1 < HOLEEND /\ HOLEEND <= e2
        /\ HOLEEND \in Nat /\ HOLESTART \in Nat /\ HOLESTART < HOLEEND /\ HEADER \in Nat
    BY <1>1, BaseFacts, LayoutAssumption, ParaAssumption DEF Ends
  <2>3. CASE a = e1
    <3>1. e1 + HEADER <= HOLESTART
      BY <1>1, <1>3, <2>3, HeaderInside
    <3> QED BY <2>1, <2>2, <2>3, <3>1 DEF Bytes, Header
  <2>4. CASE a = e2
    BY <2>1, <2>2, <2>4 DEF Bytes, Header
  <2> QED BY <1>1, <2>3, <2>4, ListedEnds
<1> QED BY <1>2, <1>3 DEF BlocksApart

\* and that a hole is overrun only when more was asked of it than it had.
LEMMA FilledFull == Filled => OverrunWhenFull
<1> SUFFICES ASSUME Filled PROVE OverrunWhenFull
  OBVIOUS
<1>1. PICK e1 \in Nat, e2 \in Nat : Ends(e1, e2) /\ List(e1, e2) /\ Used(e1, e2)
  BY DEF Filled
<1>2. /\ e1 < HOLEEND /\ HOLEEND <= e2
      /\ HOLEEND \in Nat /\ HOLESTART \in Nat /\ MEMEND \in Nat /\ Base \in Nat
      /\ HOLESTART < HOLEEND
  BY <1>1, BaseFacts, LayoutAssumption DEF Ends
<1>3. \A b \in blocks :
        /\ b.start \in Nat /\ b.len \in Nat \ {0}
        /\ \/ Base <= b.start /\ b.start + b.len <= e1
           \/ HOLEEND <= b.start /\ b.start + b.len <= e2
  BY <1>1 DEF Used
<1>4. Base .. e1 - 1 \subseteq Covered /\ HOLEEND .. e2 - 1 \subseteq Covered
  BY <1>1 DEF Used
<1>5. ASSUME NEW lo \in Nat, NEW hi \in Nat, NEW e \in Nat,
             lo .. e - 1 \subseteq Covered,
             \A b \in blocks : b.start < hi /\ lo <= b.start => b.start + b.len <= e,
             \A b \in blocks : b.start < lo => b.start + b.len <= lo,
             NEW b \in blocks, b.start \in lo .. hi - 1, ~ (Bytes(b) \subseteq lo .. hi - 1)
      PROVE  lo .. hi - 1 \subseteq UNION {Bytes(c) : c \in {c \in blocks : c.start \in lo .. hi - 1}}
  <2>1. b.start + b.len > hi /\ b.start + b.len <= e
    BY <1>3, <1>5 DEF Bytes
  <2>2. SUFFICES ASSUME NEW x \in lo .. hi - 1
                 PROVE  \E c \in blocks : c.start \in lo .. hi - 1 /\ x \in Bytes(c)
    OBVIOUS
  <2>3. x \in lo .. e - 1
    BY <1>3, <2>1
  <2>4. PICK c \in blocks : x \in Bytes(c)
    BY <1>5, <2>3 DEF Covered
  <2>5. c.start <= x /\ x < c.start + c.len /\ c.start \in Nat /\ c.len \in Nat
    BY <1>3, <2>4 DEF Bytes
  <2>6. lo <= c.start
    BY <1>5, <2>5
  <2> QED BY <2>4, <2>5, <2>6
<1>6. ASSUME NEW b \in blocks, b.start \in Base .. HOLESTART - 1,
             ~ (Bytes(b) \subseteq Base .. HOLESTART - 1)
      PROVE  Base .. HOLESTART - 1
               \subseteq UNION {Bytes(c) : c \in {c \in blocks : c.start \in Base .. HOLESTART - 1}}
  <2>1. \A c \in blocks : c.start < HOLESTART /\ Base <= c.start => c.start + c.len <= e1
    BY <1>2, <1>3
  <2>2. \A c \in blocks : c.start < Base => c.start + c.len <= Base
    BY <1>2, <1>3, BaseFacts
  <2> QED BY <1>2, <1>4, <1>5, <1>6, <2>1, <2>2
<1>7. ASSUME NEW b \in blocks, b.start \in HOLEEND .. MEMEND - 1,
             ~ (Bytes(b) \subseteq HOLEEND .. MEMEND - 1)
      PROVE  HOLEEND .. MEMEND - 1
               \subseteq UNION {Bytes(c) : c \in {c \in blocks : c.start \in HOLEEND .. MEMEND - 1}}
  <2>1. \A c \in blocks : c.start < MEMEND /\ HOLEEND <= c.start => c.start + c.len <= e2
    BY <1>2, <1>3
  <2>2. \A c \in blocks : c.start < HOLEEND => c.start + c.len <= HOLEEND
    BY <1>2, <1>3
  <2> QED BY <1>2, <1>4, <1>5, <1>7, <2>1, <2>2
<1> QED BY <1>6, <1>7 DEF OverrunWhenFull, Hole
-----------------------------------------------------------------------------
\* The headers keep their types, the list is linked both ways and blocks start
\* at paragraphs, whatever programs ask for (kmalloc(), mem.c, lines 44-92).
THEOREM MemoryTypesHold == Spec => []TypeOK
<1> QED BY FilledHolds, FilledTypes, PTL

\* No byte is handed out twice, not even when a hole is overrun, and until then
\* no process is given the header of a hole (mem.c, lines 60-87).
THEOREM BlocksApartHolds == Spec => []BlocksApart
<1> QED BY FilledHolds, FilledApart, PTL

\* A hole is overrun, for its size is never brought up to date, only by a block
\* that leaves none of its bytes unused (mem.c, lines 58-73).
THEOREM OverrunWhenFullHolds == Spec => []OverrunWhenFull
<1> QED BY FilledHolds, FilledFull, PTL
=============================================================================
