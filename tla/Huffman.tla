------------------------------ MODULE Huffman -------------------------------
(***************************************************************************)
(* Prefix codes in the boot loader: huft_build() of inflate.c, which makes *)
(* of a list of code lengths the tables that inflate_codes() walks, and    *)
(* what a canonical code is, to compare them with.  A table is not an      *)
(* array here: cells is the sequence of what was stored, each in the       *)
(* places first, first + step, ... of table t, the last one valid.         *)
(***************************************************************************)
EXTENDS Integers, Sequences, FiniteSets, FiniteSetsExt, SequencesExt

BMAX == 16      \* the longest code that huft_build() takes

INVALID == 99   \* e of a pattern that is no code
STALE   == 98   \* e of one that was filled from what happened to be in v[]
LITERAL == 16   \* e of a plain value
EOB     == 15   \* e of the end of block

\* FoldLeft, each step evaluated before the next, by halves.
Steps(op(_, _), base, s) ==
  LET RECURSIVE Run(_, _, _)
      Run(x, lo, hi) ==
        IF lo > hi THEN x
        ELSE IF lo = hi THEN op(x, s[lo])
        ELSE LET mid == (lo + hi) \div 2
             IN  CHOOSE z \in {Run(y, mid + 1, hi) : y \in {Run(x, lo, mid)}} : TRUE
  IN  Run(base, 1, Len(s))

\* op(x), with x evaluated once.
With(op(_), x) == CHOOSE r \in {op(y) : y \in {x}} : TRUE

\* The sequence s, each element of it evaluated once.
Evaluated(s) == SubSeq(s, 1, Len(s))

\* Sum of f(i) for i in lo .. hi.
SumOver(f(_), lo, hi) ==
  LET s[i \in lo - 1 .. hi] == IF i < lo THEN 0 ELSE s[i - 1] + f(i) IN s[hi]

Count(b, k) == Cardinality({i \in DOMAIN b : b[i] = k})
Used(b) == {b[i] : i \in DOMAIN b} \ {0}

\* Patterns of g bits that are left when each code of b has taken its own;
\* huft_build() stops at the first length where they run out.
Left(b, k) ==
  LET y[j \in 0 .. k] == IF j = 0 THEN 1 ELSE 2 * y[j - 1] - Count(b, j) IN y[k]
Oversubscribed(b) == \E k \in 1 .. Max(Used(b)) : Left(b, k) < 0

\* v[]: the symbols, from 0, in the order of their lengths.
Values(b) ==
  LET OfLength(k) == SelectSeq([i \in 1 .. Len(b) |-> i - 1], LAMBDA i : b[i + 1] = k)
  IN  FlattenSeq([k \in 1 .. BMAX |-> OfLength(k)])

\* A code set is what the loops of huft_build() go by: the lengths b; s, d and e
\* as above; v; the longest length g; the bits l of a table; and the codes, those
\* that fill up the longest length included.
Length(cs, idx) == IF idx <= Len(cs.v) THEN cs.b[cs.v[idx] + 1] ELSE cs.g

\* Codes of the same length from number idx on: a + 1.
Remaining(cs, idx) ==
  IF Length(cs, idx) = cs.g THEN cs.codes - idx + 1
  ELSE Cardinality({i \in idx .. Len(cs.v) : Length(cs, i) = Length(cs, idx)})

\* Takes one symbol too many for a plain value.
BugEntry(cs, idx) ==
  LET n == cs.v[idx]
  IN  IF idx > Len(cs.b) THEN [e |-> INVALID, n |-> 0]
      ELSE IF idx > Len(cs.v) THEN [e |-> STALE, n |-> 0]
      ELSE IF n <= cs.s THEN [e |-> IF n < 256 THEN LITERAL ELSE EOB, n |-> n]
      ELSE [e |-> cs.e[n - cs.s + 1], n |-> cs.d[n - cs.s + 1]]

\* The entry of code number idx.  v[] has a place for each symbol, but those of
\* length 0 leave its last places as they were.
Entry(cs, idx) ==
  LET n == cs.v[idx]
  IN  IF idx > Len(cs.b) THEN [e |-> INVALID, n |-> 0]
      ELSE IF idx > Len(cs.v) THEN [e |-> STALE, n |-> 0]
      ELSE IF n < cs.s THEN [e |-> IF n < 256 THEN LITERAL ELSE EOB, n |-> n]
      ELSE [e |-> cs.e[n - cs.s + 1], n |-> cs.d[n - cs.s + 1]]

\* Bits of a new table at w for a code of length k, of which there are a: enough
\* for these and for longer ones as long as they fill it, z at most; but one
\* more than k - w when that is z already.
TableBits(cs, a, k, w) ==
  LET z == Min({cs.g - w, cs.l})
      f[j \in k - w .. BMAX] ==
        IF j = k - w THEN 2 ^ j - a ELSE 2 * f[j - 1] - Count(cs.b, w + j)
  IN  Min({j \in k - w .. BMAX : f[j] <= 0 \/ (j > k - w /\ j >= z)})

\* The tables that a code of length k needs: each is linked from the one above,
\* at the pattern so far.
NewTable(cs, a, k, t) ==
  LET w == t.w + cs.l
      j == TableBits(cs, a, k, w)
      q == Len(t.size) + 1
  IN  [t EXCEPT
         !.w = w, !.u = Append(@, q), !.x = Append(@, t.i),
         !.size = Append(@, j),
         !.cells = IF t.u = <<>> THEN @
                   ELSE Append(@, [t |-> Last(t.u), first |-> t.i \div 2 ^ (w - cs.l),
                                   step |-> 2 ^ BMAX, b |-> cs.l, e |-> 16 + j, n |-> q])]

NewTables(cs, a, k, t) ==
  Steps(LAMBDA u, i : NewTable(cs, a, k, u), t, [i \in 1 .. (k - t.w - 1) \div cs.l |-> i])

\* Counts with the last bit lowest.
BugIncrement(i, k) == (i + 1) % 2 ^ k

\* The k-bit code i, whose first bit is its lowest, plus one: the ones at its end
\* become zeros, and the zero before them a one.
Increment(i, k) ==
  LET zeros == {j \in 0 .. k - 1 : (i \div 2 ^ j) % 2 = 0}
      j == Max(zeros)
  IN  IF zeros = {} THEN 0 ELSE (i % 2 ^ j) + 2 ^ j

\* Back to the table that the next code i starts in.
BackUp(cs, i, t) ==
  LET h == Max({h \in 1 .. Len(t.u) : i % 2 ^ (cs.l * (h - 1)) = t.x[h]})
  IN  [t EXCEPT !.i = i, !.w = cs.l * (h - 1),
                !.u = SubSeq(@, 1, h), !.x = SubSeq(@, 1, h)]

PlaceCode(cs, idx, t) ==
  LET k    == Length(cs, idx)
      r    == Entry(cs, idx)
      new  == NewTables(cs, Remaining(cs, idx), k, t)
      cell == [t |-> Last(new.u), first |-> new.i \div 2 ^ new.w,
               step |-> 2 ^ (k - new.w), b |-> k - new.w, e |-> r.e, n |-> r.n]
  IN  BackUp(cs, Increment(new.i, k), [new EXCEPT !.cells = Append(@, cell)])

NoTables == [bits |-> 0, cells |-> <<>>, size |-> <<>>]

\* The tables of a code set, code after code.
Placed(cs) ==
  LET start == [i |-> 0, w |-> -cs.l, u |-> <<>>, x |-> <<>>, size |-> <<>>, cells |-> <<>>]
      t == Steps(LAMBDA u, idx : PlaceCode(cs, idx, u), start, [i \in 1 .. cs.codes |-> i])
  IN  With(LAMBDA end : [bits |-> cs.l, cells |-> end.cells, size |-> end.size], t)

\* huft_build() of lengths b, of which symbols from s on have a base in d and
\* extra bits in e, for tables of m bits: its result, and the tables with *m.
HuftBuild(b, s, d, e, m) ==
  LET Set(c, g) ==
        [b |-> c, s |-> s, d |-> d, e |-> e, v |-> Values(c), g |-> g,
         l |-> Min({Max({m, Min(Used(c))}), g}),
         codes |-> Len(c) - Count(c, 0) + Left(c, g)]
      Build(c) ==
        IF Used(c) = {} THEN [code |-> 0, tables |-> NoTables]
        ELSE IF Oversubscribed(c) THEN [code |-> 2, tables |-> NoTables]
        ELSE LET g == Max(Used(c))
             IN  [code |-> IF Left(c, g) # 0 /\ g # 1 THEN 1 ELSE 0,
                  tables |-> With(Placed, Set(c, g))]
  IN  With(Build, b)

\* The entry at place j of table q.  Where nothing was stored is what malloc()
\* returned.
At(tables, q, j) ==
  LET here == {c \in DOMAIN tables.cells :
                 /\ tables.cells[c].t = q
                 /\ j >= tables.cells[c].first
                 /\ (j - tables.cells[c].first) % tables.cells[c].step = 0}
  IN  IF here = {} THEN [b |-> 0, e |-> STALE, n |-> 0]
      ELSE tables.cells[Max(here)]

\* huft entries that the tables take, the one with the link to the next included.
Hufts(tables) == [q \in DOMAIN tables.size |-> 2 ^ tables.size[q] + 1]
-----------------------------------------------------------------------------
(* The canonical code of the lengths b: shorter codes first, then smaller   *)
(* symbols, each as many units after the one before as that one takes.      *)
CodeOf(b, i) ==
  SumOver(LAMBDA k : Count(b, k) * 2 ^ (b[i] - k), 1, b[i] - 1)
    + Cardinality({j \in 1 .. i - 1 : b[j] = b[i]})

\* n bits of c in the other order.
Reversed(c, n) == SumOver(LAMBDA j : ((c \div 2 ^ j) % 2) * 2 ^ (n - 1 - j), 0, n - 1)

Pattern(b, i) == Reversed(CodeOf(b, i), b[i])

\* What the tables make of the bits of p, the first one lowest.
Walk(tables, p) ==
  LET Down(t, level) ==
        IF t.c.e <= 16 \/ t.c.e >= STALE THEN t
        ELSE [c |-> At(tables, t.c.n, (p \div 2 ^ (t.len + t.c.b)) % 2 ^ (t.c.e - 16)),
              len |-> t.len + t.c.b]
      end == Steps(Down, [c |-> At(tables, 1, p % 2 ^ tables.bits), len |-> 0],
                   [i \in 1 .. BMAX \div tables.bits |-> i])
  IN  [e |-> end.c.e, n |-> end.c.n, len |-> end.len + end.c.b]

\* 1 for a set of lengths that leaves patterns over, 2 for one that has more
\* codes than patterns: by Kraft's sum, in units of the longest code; 2 also for
\* a list of zeros.  A single code of one bit passes.
KraftResult(b) ==
  LET g == Max(Used(b))
      sum == SumOver(LAMBDA k : Count(b, k) * 2 ^ (g - k), 1, g)
  IN  IF Used(b) = {} THEN 2
      ELSE IF sum > 2 ^ g THEN 2
      ELSE IF sum < 2 ^ g /\ g # 1 THEN 1 ELSE 0

\* The tables decode the canonical code of b, and no pattern that is none.
DecodesCode(b, s, d, e, tables) ==
  LET g == Max(Used(b))
      coded == {i \in DOMAIN b : b[i] # 0}
      patterns == Evaluated([i \in 1 .. Len(b) |-> IF b[i] = 0 THEN 0 ELSE Pattern(b, i)])
      Value(i) == IF i - 1 < s THEN [e |-> IF i - 1 < 256 THEN LITERAL ELSE EOB, n |-> i - 1]
                  ELSE [e |-> e[i - s], n |-> d[i - s]]
  IN  \A pattern \in {patterns} :
        /\ \A i \in coded, more \in 0 .. 3 :
             Walk(tables, pattern[i] + more * 2 ^ b[i])
               = [e |-> Value(i).e, n |-> Value(i).n, len |-> b[i]]
        /\ Left(b, g) # 0 => \A p \in 0 .. 2 ^ g - 1 :
             (~ \E i \in coded : p % 2 ^ b[i] = pattern[i]) => Walk(tables, p).e \in {INVALID, STALE}
=============================================================================
