---------------------------- MODULE ConsoleProofs ----------------------------
(***************************************************************************)
(* Proofs about Console: every variable keeps its type; a program that     *)
(* nobody interrupts with another text prints as the kernel does, in one   *)
(* piece; what is printed so is what a terminal shows; and so is what      *)
(* puts() of the boot loader wrote.  The screen has any size.  The folds   *)
(* of the model become walks along a text, a row or the blanks of a tab.   *)
(***************************************************************************)
EXTENDS Console, QueueLemmas
-----------------------------------------------------------------------------
(* Rows and columns.                                                         *)

\* The screen.
LEMMA Sizes ==
  /\ COL \in Nat \ {0} /\ ROW \in Nat \ {0, 1} /\ TAB \in Nat \ {0} /\ Blank \in Char
  /\ COL \in Int /\ ROW \in Int /\ TAB \in Int /\ Limit \in Int /\ ROW * COL = COL * ROW
BY ScreenAssumption DEF Limit

\* The cell in row y and column x.
LEMMA CellOf ==
  ASSUME NEW y \in 0 .. ROW - 1, NEW x \in 0 .. COL - 1
  PROVE  /\ COL * y + x \in Cell /\ COL * y + x \in Int
         /\ (COL * y + x) \div COL = y /\ (COL * y + x) % COL = x
<1>1. /\ y \in Int /\ x \in Int /\ ROW - 1 \in Int
      /\ y <= ROW - 1 /\ 0 <= y /\ 0 <= x /\ x <= COL - 1
  BY Sizes
<1>2. COL * y <= COL * (ROW - 1) /\ COL * 0 <= COL * y /\ COL * (ROW - 1) = COL * ROW - COL
  BY <1>1, Sizes, Times
<1>3. COL * y \in Int /\ COL * ROW \in Int /\ COL * 0 = 0
  BY <1>1, Sizes
<1>4. COL * y + x \in 0 .. COL * ROW - 1
  BY <1>1, <1>2, <1>3, Sizes
<1> QED BY <1>1, <1>4, Sizes, QuotientIs DEF Cell

\* The row and the column of a cell.
LEMMA CellAt ==
  ASSUME NEW a \in Cell
  PROVE  /\ a \in Int /\ a \div COL \in 0 .. ROW - 1 /\ a % COL \in 0 .. COL - 1
         /\ a = COL * (a \div COL) + (a % COL) /\ 0 <= a /\ a < Limit /\ a <= Limit - 1
<1>1. a \in Int /\ 0 <= a /\ a <= COL * ROW - 1 /\ Limit = COL * ROW /\ COL * ROW \in Int
  BY Sizes DEF Cell, Limit
<1> DEFINE y == a \div COL
           x == a % COL
<1>2. y \in Int /\ x \in 0 .. COL - 1 /\ a = COL * y + x
  BY <1>1, Sizes, Quotient
<1> HIDE DEF x, y
<1>3. COL * y \in Int /\ COL * (y + 1) = COL * y + COL
  BY <1>2, Sizes, Times
<1>4. 0 <= y
  <2>1. y + 1 \in Int /\ 0 \in Int /\ COL * 0 = 0
    BY <1>2, Sizes
  <2>2. ~ (COL * (y + 1) <= COL * 0)
    BY <1>1, <1>2, <1>3, <2>1, Sizes
  <2>3. ~ (y + 1 <= 0)
    BY <2>1, <2>2, Sizes, Times
  <2> QED BY <1>2, <2>3
<1>5. y <= ROW - 1
  <2>1. ~ (COL * ROW <= COL * y)
    BY <1>1, <1>2, <1>3, Sizes
  <2>2. ~ (ROW <= y)
    BY <1>2, <2>1, Sizes, Times
  <2> QED BY <1>2, <2>2, Sizes
<1>6. y \in 0 .. ROW - 1
  BY <1>2, <1>4, <1>5, Sizes
<1> QED BY <1>1, <1>2, <1>6, Sizes DEF x, y

\* The cell below.
LEMMA CellBelow ==
  ASSUME NEW a \in Cell
  PROVE  /\ (a + COL) \div COL = a \div COL + 1 /\ (a + COL) % COL = a % COL
         /\ a \div COL # ROW - 1 => a + COL \in Cell
         /\ a + COL \in Int
<1> DEFINE y == a \div COL
           x == a % COL
<1>1. a \in Int /\ y \in 0 .. ROW - 1 /\ x \in 0 .. COL - 1 /\ a = COL * y + x
  BY CellAt
<1> HIDE DEF x, y
<1>2. y \in Int /\ y + 1 \in Int /\ COL * y \in Int /\ COL * (y + 1) = COL * y + COL
  BY <1>1, Sizes, Times
<1>3. a + COL = COL * (y + 1) + x
  BY <1>1, <1>2, Sizes
<1>4. (COL * (y + 1) + x) \div COL = y + 1 /\ (COL * (y + 1) + x) % COL = x
  BY <1>1, <1>2, Sizes, QuotientIs
<1>5. y # ROW - 1 => a + COL \in Cell
  <2>1. y # ROW - 1 => y + 1 \in 0 .. ROW - 1
    BY <1>1, Sizes
  <2> QED BY <1>1, <1>3, <2>1, CellOf
<1>6. (a + COL) \div COL = y + 1 /\ (a + COL) % COL = x
  BY <1>3, <1>4
<1>7. a + COL \in Int
  BY <1>1, Sizes
<1> QED BY <1>5, <1>6, <1>7 DEF x, y

\* The next tab stop after column x.
LEMMA StopAfter ==
  ASSUME NEW x \in 0 .. COL - 1
  PROVE  x + TAB - (x % TAB) \in x + 1 .. COL /\ x % TAB \in 0 .. TAB - 1
<1>1. PICK m \in Nat : COL = TAB * m
  BY Sizes, ScreenAssumption, MultipleOf
<1> DEFINE k == x \div TAB
           r == x % TAB
<1>2. x \in Int /\ k \in Int /\ r \in 0 .. TAB - 1 /\ x = TAB * k + r
  BY Sizes, Quotient
<1> HIDE DEF k, r
<1>3. TAB * k \in Int /\ TAB * (k + 1) = TAB * k + TAB
  BY <1>2, Sizes, Times
<1>4. ~ (TAB * m <= TAB * k)
  BY <1>1, <1>2, <1>3, Sizes
<1>5. k + 1 <= m /\ k + 1 \in Int /\ m \in Int
  <2>1. ~ (m <= k)
    BY <1>2, <1>4, Sizes, Times
  <2> QED BY <1>1, <1>2, <2>1
<1>6. TAB * (k + 1) <= TAB * m
  BY <1>5, Sizes, Times
<1>7. x + TAB - r \in x + 1 .. COL
  BY <1>1, <1>2, <1>3, <1>6, Sizes
<1> QED BY <1>2, <1>7 DEF r
-----------------------------------------------------------------------------
\* The screen and the terminal.
Screens == [Cell -> Char]
Page == [1 .. ROW -> [1 .. COL -> Char]]
Term == [page : Page, row : Int, col : 1 .. COL]

\* A character keeps a terminal a terminal, wherever its cursor is.
LEMMA PutType ==
  ASSUME NEW t \in Term, NEW c \in Char
  PROVE  Put(t, c) \in Term
<1>0. COL \in Nat \ {0} /\ ROW \in Nat \ {0} /\ TAB \in Nat \ {0} /\ Blank \in Char
  BY Sizes
<1>1. t.page \in Page /\ t.row \in Int /\ t.col \in 1 .. COL /\ 1 \in 1 .. COL /\ COL \in 1 .. COL
  BY <1>0 DEF Term
<1>2. ASSUME NEW u \in Term PROVE Down(u) \in Term
  <2>1. u.page \in Page /\ u.row \in Int /\ u.col \in 1 .. COL
    BY DEF Term
  <2>2. BlankRow \in [1 .. COL -> Char]
    BY <1>0 DEF BlankRow
  <2>3. [r \in 1 .. ROW |-> IF r < ROW THEN u.page[r + 1] ELSE BlankRow] \in Page
    <3> SUFFICES ASSUME NEW r \in 1 .. ROW
                 PROVE  (IF r < ROW THEN u.page[r + 1] ELSE BlankRow) \in [1 .. COL -> Char]
      BY DEF Page
    <3>1. r < ROW => r + 1 \in 1 .. ROW
      BY <1>0
    <3> QED BY <2>1, <2>2, <3>1 DEF Page
  <2>4. CASE u.row < ROW
    <3>1. u.row + 1 \in Int
      BY <2>1
    <3> QED BY <2>1, <2>4, <3>1 DEF Down, Term
  <2>5. CASE ~ (u.row < ROW)
    <3> DEFINE new == [r \in 1 .. ROW |-> IF r < ROW THEN u.page[r + 1] ELSE BlankRow]
    <3>1. Down(u) = [u EXCEPT !.page = new]
      BY <2>5 DEF Down
    <3> HIDE DEF new
    <3>2. new \in Page
      BY <2>3 DEF new
    <3> QED BY <3>1, <3>2 DEF Term
  <2> QED BY <2>4, <2>5
<1>3. ASSUME NEW u \in Term PROVE Home(u) \in Term
  BY <1>1 DEF Home, Term
<1>4. ASSUME NEW u \in Term PROVE Right(u) \in Term
  <2>1. u.col \in 1 .. COL
    BY DEF Term
  <2>2. CASE u.col < COL
    <3>1. u.col + 1 \in 1 .. COL
      BY <1>0, <2>1, <2>2
    <3> QED BY <2>2, <3>1 DEF Right, Term
  <2>3. CASE ~ (u.col < COL)
    BY <1>2, <1>3, <2>3 DEF Right
  <2> QED BY <2>2, <2>3
<1>5. Left(t) \in Term
  <2>1. CASE t.col > 1
    <3>1. t.col - 1 \in 1 .. COL
      BY <1>0, <1>1, <2>1
    <3> QED BY <2>1, <3>1 DEF Left, Term
  <2>2. CASE ~ (t.col > 1)
    <3>1. t.row - 1 \in Int
      BY <1>1
    <3> QED BY <1>1, <2>2, <3>1 DEF Left, Term
  <2> QED BY <2>1, <2>2
<1>6. ASSUME NEW k \in 2 .. COL + 1, NEW d \in Char PROVE Fill(t, k, d) \in Term
  <2> DEFINE u == [t EXCEPT !.col = k - 1,
                            !.page = ReplaceAt(@, t.row, Write(@[t.row], t.col .. k - 1, d))]
  <2>1. k - 1 \in 1 .. COL
    BY <1>0
  <2>2. ReplaceAt(t.page, t.row, Write(t.page[t.row], t.col .. k - 1, d)) \in Page
    <3>1. CASE t.row \in 1 .. ROW
      <4>1. t.page[t.row] \in [1 .. COL -> Char]
        BY <1>1, <3>1 DEF Page
      <4>2. Write(t.page[t.row], t.col .. k - 1, d) \in [1 .. COL -> Char]
        BY <4>1 DEF Write
      <4> QED BY <1>1, <4>2 DEF ReplaceAt, Page
    <3>2. CASE t.row \notin 1 .. ROW
      BY <1>1, <3>2 DEF ReplaceAt, Page
    <3> QED BY <3>1, <3>2
  <2>3. u \in Term
    BY <1>1, <2>1, <2>2 DEF Term
  <2> QED BY <1>4, <2>3 DEF Fill
<1>7. t.col + 1 \in 2 .. COL + 1 /\ NextStop(t) \in 2 .. COL + 1
  <2>1. t.col + 1 \in 2 .. COL + 1
    BY <1>0, <1>1
  <2>2. NextStop(t) \in 2 .. COL + 1
    <3>1. t.col - 1 \in 0 .. COL - 1
      BY <1>0, <1>1
    <3>2. (t.col - 1) + TAB - ((t.col - 1) % TAB) \in t.col .. COL /\ (t.col - 1) % TAB \in 0 .. TAB - 1
      BY <1>0, <1>1, <3>1, StopAfter
    <3> QED BY <1>0, <1>1, <3>2 DEF NextStop
  <2> QED BY <2>1, <2>2
<1> QED BY <1>2, <1>3, <1>5, <1>6, <1>7, <1>0 DEF Put, Show
-----------------------------------------------------------------------------
(* The screen scrolls row by row.                                            *)

\* The screen after a scroll, and after the rest of one that goes on with row k.
Scrolled(scr) == [a \in Cell |-> IF a \div COL = ROW - 1 THEN Blank ELSE scr[a + COL]]
Rest(scr, k) == [a \in Cell |-> IF a \div COL < k THEN scr[a] ELSE Scrolled(scr)[a]]

\* A row more is a row less of the rest.
LEMMA CopyOne ==
  ASSUME NEW scr \in Screens, NEW k \in 0 .. ROW - 1
  PROVE  CopyRow(scr, k) \in Screens /\ Rest(CopyRow(scr, k), k + 1) = Rest(scr, k)
<1>1. ASSUME NEW a \in Cell
      PROVE  /\ a \div COL \in Int /\ scr[a] \in Char /\ Blank \in Char
             /\ a \div COL # ROW - 1 =>
                  /\ a + COL \in Cell /\ scr[a + COL] \in Char
                  /\ (a + COL) \div COL = a \div COL + 1
  BY CellAt, CellBelow, Sizes DEF Screens
<1>2. CopyRow(scr, k) \in Screens
  <2> SUFFICES ASSUME NEW a \in Cell
               PROVE  (IF a \div COL = k THEN IF k = ROW - 1 THEN Blank ELSE scr[a + COL]
                       ELSE scr[a]) \in Char
    BY DEF CopyRow, Screens
  <2> QED BY <1>1
<1> DEFINE new == CopyRow(scr, k)
<1>3. \A a \in Cell : new[a] = IF a \div COL = k THEN IF k = ROW - 1 THEN Blank ELSE scr[a + COL]
                               ELSE scr[a]
  BY DEF CopyRow
<1> HIDE DEF new
<1>4. Rest(new, k + 1) = Rest(scr, k)
  <2> SUFFICES ASSUME NEW a \in Cell
               PROVE  (IF a \div COL < k + 1 THEN new[a] ELSE Scrolled(new)[a])
                      = (IF a \div COL < k THEN scr[a] ELSE Scrolled(scr)[a])
    BY DEF Rest
  <2>0. k \in Int /\ k <= ROW - 1 /\ a \div COL \in Int /\ ROW \in Int
    BY <1>1, Sizes
  <2>1. CASE a \div COL < k
    BY <1>3, <2>0, <2>1
  <2>2. CASE a \div COL = k
    BY <1>3, <2>0, <2>2 DEF Scrolled
  <2>3. CASE a \div COL > k
    <3>1. CASE a \div COL = ROW - 1
      BY <2>0, <2>3, <3>1 DEF Scrolled
    <3>2. CASE a \div COL # ROW - 1
      <4>1. a + COL \in Cell /\ (a + COL) \div COL # k
        BY <1>1, <2>0, <2>3, <3>2
      <4>2. new[a + COL] = scr[a + COL]
        BY <1>3, <4>1
      <4> QED BY <2>0, <2>3, <3>2, <4>2 DEF Scrolled
    <3> QED BY <3>1, <3>2
  <2> QED BY <2>0, <2>1, <2>2, <2>3
<1> QED BY <1>2, <1>4 DEF new

\* Scroll() copies every row up and clears the last.
LEMMA ScrollIs ==
  ASSUME NEW scr \in Screens
  PROVE  /\ Scroll(scr) = Scrolled(scr) /\ Scroll(scr) \in Screens
         /\ Rest(scr, 0) = Scroll(scr) /\ Rest(scr, ROW) = scr
<1> DEFINE s == [i \in 1 .. ROW |-> i - 1]
           G == [v \in Screens \X (1 .. ROW) |-> CopyRow(v[1], s[v[2]])]
           Iter(f) == f = [S \in SUBSET (1 .. ROW) |->
                             IF S = {} THEN scr ELSE CopyRow(f[S \ {Max(S)}], s[Max(S)])]
<1>1. ROW \in Nat /\ DOMAIN s = 1 .. ROW /\ \A i \in 1 .. ROW : s[i] \in 0 .. ROW - 1
  BY Sizes
<1>2. G \in [Screens \X (1 .. ROW) -> Screens]
  BY <1>1, CopyOne
<1>3. PICK f \in [SUBSET (1 .. ROW) -> Screens] : FoldsTo(f, ROW, scr, G)
  <2> HIDE DEF G, Iter
  <2> QED BY <1>1, <1>2, FoldExists
<1>4. ASSUME NEW S \in SUBSET (1 .. ROW), S # {}
      PROVE  G[<<f[S \ {Max(S)}], Max(S)>>] = CopyRow(f[S \ {Max(S)}], s[Max(S)])
  <2>1. S \in SUBSET (0 .. ROW) /\ S \ {Max(S)} \in SUBSET (1 .. ROW)
    <3> HIDE DEF G, Iter, s
    <3>1. S \in SUBSET (0 .. ROW)
      BY <1>1
    <3>2. S \ {Max(S)} \in SUBSET (1 .. ROW)
      OBVIOUS
    <3> QED BY <3>1, <3>2
  <2>2. Max(S) \in 1 .. ROW
    BY <1>1, <1>4, <2>1, MaxOf
  <2>3. f[S \ {Max(S)}] \in Screens
    BY <2>1
  <2> QED BY <2>2, <2>3
<1>5. Iter(f)
  <2> HIDE DEF G, s
  <2> QED BY <1>3, <1>4 DEF FoldsTo
<1>6. Scroll(scr) = (CHOOSE f_1 : Iter(f_1))[1 .. ROW]
  BY <1>1 DEF Scroll, FoldLeft, MapThenFoldSet
<1>7. PICK g : Iter(g) /\ Scroll(scr) = g[1 .. ROW]
  <2> HIDE DEF Iter
  <2> QED BY <1>5, <1>6
<1>8. g[1 .. 0] = scr
  <2>1. 1 .. 0 = {}
    OBVIOUS
  <2> QED BY <1>7, <2>1
<1>9. ASSUME NEW i \in 1 .. ROW PROVE g[1 .. i] = CopyRow(g[1 .. i - 1], i - 1)
  <2>1. /\ 1 .. i \in SUBSET (1 .. ROW) /\ 1 .. i # {}
        /\ Max(1 .. i) = i /\ (1 .. i) \ {Max(1 .. i)} = 1 .. i - 1
    BY <1>1, MaxUpTo
  <2>2. g[1 .. i] = CopyRow(g[(1 .. i) \ {Max(1 .. i)}], s[Max(1 .. i)])
    <3> HIDE DEF s
    <3> QED BY <1>7, <2>1
  <2> QED BY <2>1, <2>2
<1> DEFINE U == {i \in 0 .. ROW : g[1 .. i] \in Screens /\ Rest(g[1 .. i], i) = Rest(scr, 0)}
<1>10. 0 .. ROW \subseteq U
  <2>1. 0 \in U
    BY <1>1, <1>8
  <2>2. ASSUME NEW i \in 1 .. ROW, i - 1 \in U PROVE i \in U
    <3>1. /\ i - 1 \in 0 .. ROW - 1 /\ i \in 0 .. ROW /\ (i - 1) + 1 = i
          /\ g[1 .. i - 1] \in Screens /\ Rest(g[1 .. i - 1], i - 1) = Rest(scr, 0)
      BY <1>1, <2>2
    <3>2. g[1 .. i] \in Screens /\ Rest(g[1 .. i], i) = Rest(scr, 0)
      BY <1>9, <3>1, CopyOne
    <3> QED BY <3>1, <3>2
  <2> HIDE DEF U
  <2> QED BY <1>1, <2>1, <2>2, Counting
<1>11. Scroll(scr) \in Screens /\ Rest(Scroll(scr), ROW) = Rest(scr, 0)
  <2>1. ROW \in 0 .. ROW
    BY <1>1
  <2>2. g[1 .. ROW] \in Screens /\ Rest(g[1 .. ROW], ROW) = Rest(scr, 0)
    <3> HIDE DEF Iter
    <3> QED BY <1>10, <2>1
  <2> QED BY <1>7, <2>2
<1>12. ASSUME NEW new \in Screens PROVE Rest(new, ROW) = new
  <2>1. ASSUME NEW a \in Cell PROVE a \div COL < ROW
    <3>1. a \div COL \in 0 .. ROW - 1
      BY CellAt
    <3> QED BY <3>1, Sizes
  <2>2. new = [a \in Cell |-> new[a]]
    BY DEF Screens
  <2> QED BY <2>1, <2>2 DEF Rest
<1>13. Rest(scr, 0) = Scrolled(scr)
  <2>1. ASSUME NEW a \in Cell PROVE ~ (a \div COL < 0)
    <3>1. a \div COL \in 0 .. ROW - 1
      BY CellAt
    <3> QED BY <3>1, Sizes
  <2>2. Scrolled(scr) = [a \in Cell |-> Scrolled(scr)[a]]
    BY DEF Scrolled
  <2>3. Rest(scr, 0) = [a \in Cell |-> Scrolled(scr)[a]]
    BY <2>1 DEF Rest
  <2> QED BY <2>2, <2>3
<1> QED BY <1>11, <1>12, <1>13
-----------------------------------------------------------------------------
(* The kernel's output.                                                      *)

\* What kbmputc() leaves is a screen and a position.
LEMMA ShowType ==
  /\ Output = [scr : Screens, at : Int]
  /\ \A t \in Output : ScrollIf(t) \in Output
  /\ \A t \in Output, c \in Char : KernelShow(t, c) \in Output
<1>1. Output = [scr : Screens, at : Int]
  BY DEF Output, Screens
<1>2. ASSUME NEW t \in Output PROVE ScrollIf(t) \in Output
  <2>1. t.scr \in Screens /\ t.at \in Int /\ t.at - COL \in Int /\ Scroll(t.scr) \in Screens
    BY <1>1, ScrollIs, Sizes
  <2> QED BY <1>1, <2>1 DEF ScrollIf
<1>3. ASSUME NEW t \in Output, NEW c \in Char PROVE KernelShow(t, c) \in Output
  <2>1. t.scr \in Screens /\ t.at \in Int /\ t.at + 1 \in Int
    BY <1>1
  <2>2. Store(t.scr, t.at, c) \in Screens
    BY <2>1 DEF Store, Screens
  <2>3. [scr |-> Store(t.scr, t.at, c), at |-> t.at + 1] \in Output
    BY <1>1, <2>1, <2>2
  <2> QED BY <1>2, <2>3 DEF KernelShow
<1> QED BY <1>1, <1>2, <1>3

\* A blank moves the position by one towards the next tab stop, on any row.
LEMMA BlankMoves ==
  ASSUME NEW t \in Output
  PROVE  LET u == KernelShow(t, Blank)
         IN  /\ u \in Output /\ t.at % TAB \in 0 .. TAB - 1 /\ u.at % TAB \in 0 .. TAB - 1
             /\ u.at % TAB # 0 => u.at % TAB = (t.at % TAB) + 1
<1> DEFINE u == KernelShow(t, Blank)
           k == t.at \div TAB
           r == t.at % TAB
<1>1. u \in Output /\ t.at \in Int /\ u.at \in Int
  <2>1. u \in Output
    BY ShowType, Sizes
  <2> QED BY <2>1 DEF Output
<1>2. PICK m \in Nat : COL = TAB * m
  BY Sizes, ScreenAssumption, MultipleOf
<1>3. k \in Int /\ r \in 0 .. TAB - 1 /\ t.at = TAB * k + r
  BY <1>1, Sizes, Quotient
<1>4. u.at = t.at + 1 \/ u.at = (t.at + 1) - COL
  BY DEF KernelShow, ScrollIf
<1>5. u.at % TAB \in 0 .. TAB - 1
  BY <1>1, Sizes, Quotient
<1> HIDE DEF u, k, r
<1>6. PICK j \in Int : u.at = TAB * j + (r + 1)
  <2>1. /\ k - m \in Int /\ TAB * k \in Int /\ TAB * m \in Int
        /\ TAB * (k - m) = TAB * k - TAB * m
    BY <1>2, <1>3, Sizes
  <2>2. CASE u.at = t.at + 1
    BY <1>3, <2>1, <2>2, Sizes
  <2>3. CASE u.at = (t.at + 1) - COL
    BY <1>2, <1>3, <2>1, <2>3, Sizes
  <2> QED BY <1>4, <2>2, <2>3
<1>7. CASE r + 1 \in 0 .. TAB - 1
  <2>1. (TAB * j + (r + 1)) % TAB = r + 1
    BY <1>7, Sizes, QuotientIs
  <2>2. u.at % TAB = r + 1
    BY <1>6, <2>1
  <2> QED BY <1>1, <1>3, <1>5, <2>2 DEF u, r
<1>8. CASE r + 1 = TAB
  <2>1. j + 1 \in Int /\ TAB * (j + 1) = TAB * j + TAB /\ 0 \in 0 .. TAB - 1
    BY <1>6, Sizes, Times
  <2>2. u.at = TAB * (j + 1) + 0
    BY <1>6, <1>8, <2>1, <1>1
  <2>3. u.at % TAB = 0
    BY <2>1, <2>2, Sizes, QuotientIs
  <2> QED BY <1>1, <1>3, <1>5, <2>3 DEF u, r
<1>9. r + 1 \in 0 .. TAB - 1 \/ r + 1 = TAB
  BY <1>3, Sizes
<1> QED BY <1>7, <1>8, <1>9

\* One turn of the loop for a tab, f the turns after it.
TabTurn(t, f) ==
  LET u == KernelShow(t, Blank) IN IF u.at % TAB = 0 THEN ScrollIf(u) ELSE f[u]

\* The loop for a tab ends: KernelTab is the function that its definition asks for.
LEMMA TabEnds ==
  /\ KernelTab \in [Output -> Output]
  /\ \A t \in Output : KernelTab[t] = TabTurn(t, KernelTab)
<1> DEFINE Way(t) == TAB - (t.at % TAB)
           Turn(f) == [t \in Output |-> TabTurn(t, f)]
           V == [Output -> Output]
           b == [t \in Output |-> t]
           G == [v \in V \X (1 .. TAB) |-> Turn(v[1])]
<1>1. TAB \in Nat /\ TAB # 0 /\ TAB \in Int
  BY Sizes
<1>2. ASSUME NEW t \in Output
      PROVE  LET u == KernelShow(t, Blank)
             IN  /\ Way(t) \in 1 .. TAB /\ u \in Output /\ ScrollIf(u) \in Output
                 /\ u.at % TAB # 0 => Way(u) = Way(t) - 1
  <2> DEFINE u == KernelShow(t, Blank)
  <2>1. /\ u \in Output /\ t.at % TAB \in 0 .. TAB - 1 /\ u.at % TAB \in 0 .. TAB - 1
        /\ u.at % TAB # 0 => u.at % TAB = (t.at % TAB) + 1
    BY BlankMoves
  <2>2. ScrollIf(u) \in Output
    BY <2>1, ShowType
  <2> HIDE DEF u
  <2>3. Way(t) \in 1 .. TAB /\ (u.at % TAB # 0 => Way(u) = Way(t) - 1)
    BY <1>1, <2>1
  <2> QED BY <2>1, <2>2, <2>3 DEF u
<1> HIDE DEF Way
<1>3. ASSUME NEW f \in V PROVE Turn(f) \in V
  BY <1>2 DEF TabTurn
<1>4. b \in V /\ G \in [V \X (1 .. TAB) -> V]
  BY <1>3
<1> HIDE DEF Turn, V
<1>5. PICK F \in [SUBSET (1 .. TAB) -> V] : FoldsTo(F, TAB, b, G)
  <2> HIDE DEF G, b
  <2> QED BY <1>1, <1>4, FoldExists
<1>6. ASSUME NEW i \in 1 .. TAB
      PROVE  F[1 .. i - 1] \in V /\ F[1 .. i] = Turn(F[1 .. i - 1])
  <2>1. /\ 1 .. i \in SUBSET (1 .. TAB) /\ 1 .. i # {}
        /\ Max(1 .. i) = i /\ (1 .. i) \ {Max(1 .. i)} = 1 .. i - 1
    BY <1>1, MaxUpTo
  <2>2. F[1 .. i] = G[<<F[(1 .. i) \ {Max(1 .. i)}], Max(1 .. i)>>]
    <3> HIDE DEF G, b
    <3> QED BY <1>5, <2>1 DEF FoldsTo
  <2>3. 1 .. i - 1 \in SUBSET (1 .. TAB)
    BY <2>1
  <2>4. F[1 .. i - 1] \in V
    BY <1>5, <2>3
  <2> QED BY <2>1, <2>2, <2>4
<1> DEFINE U == {i \in 0 .. TAB : i # 0 =>
                  \A t \in Output : Way(t) <= i - 1 => F[1 .. i][t] = F[1 .. i - 1][t]}
<1>7. ASSUME NEW i \in 1 .. TAB, i - 1 \in U PROVE i \in U
  <2>1. SUFFICES ASSUME NEW t \in Output, Way(t) <= i - 1
                 PROVE  F[1 .. i][t] = F[1 .. i - 1][t]
    OBVIOUS
  <2> DEFINE u == KernelShow(t, Blank)
  <2>2. /\ Way(t) \in 1 .. TAB /\ u \in Output
        /\ u.at % TAB # 0 => Way(u) = Way(t) - 1
    BY <1>2
  <2>3. i - 1 \in 1 .. TAB /\ i - 1 # 0 /\ i \in Int
    BY <1>1, <2>1, <2>2
  <2>4. /\ F[1 .. i][t] = TabTurn(t, F[1 .. i - 1])
        /\ F[1 .. i - 1][t] = TabTurn(t, F[1 .. (i - 1) - 1])
    BY <1>6, <2>3 DEF Turn
  <2>5. u.at % TAB # 0 => F[1 .. i - 1][u] = F[1 .. (i - 1) - 1][u]
    <3>1. u.at % TAB # 0 => Way(u) <= (i - 1) - 1
      BY <2>1, <2>2, <2>3
    <3> QED BY <1>7, <2>2, <2>3, <3>1
  <2> HIDE DEF U
  <2> QED BY <2>4, <2>5 DEF TabTurn
<1>8. TAB \in U
  <2>1. 0 \in U
    BY <1>1
  <2> HIDE DEF U
  <2>2. 0 .. TAB \subseteq U /\ TAB \in 0 .. TAB
    BY <1>1, <1>7, <2>1, Counting
  <2> QED BY <2>2
<1> DEFINE K == F[1 .. TAB]
           L == F[1 .. TAB - 1]
<1>9. TAB \in 1 .. TAB /\ K = Turn(L) /\ L \in V
  BY <1>1, <1>6
<1>10. \A t \in Output : Way(t) <= TAB - 1 => K[t] = L[t]
  BY <1>1, <1>8
<1> HIDE DEF K, L, U
<1>11. ASSUME NEW t \in Output PROVE K[t] = TabTurn(t, K)
  <2> DEFINE u == KernelShow(t, Blank)
  <2>1. /\ Way(t) \in 1 .. TAB /\ u \in Output
        /\ u.at % TAB # 0 => Way(u) = Way(t) - 1
    BY <1>2
  <2>2. u.at % TAB # 0 => K[u] = L[u]
    BY <1>1, <1>10, <2>1
  <2>3. K[t] = TabTurn(t, L)
    BY <1>9 DEF Turn
  <2> QED BY <2>2, <2>3 DEF TabTurn
<1>12. K = [t \in Output |-> K[t]]
  BY <1>9 DEF Turn
<1>13. K = [t \in Output |-> TabTurn(t, K)]
  BY <1>11, <1>12
<1> DEFINE Is(f) == f = [t \in Output |-> LET u == KernelShow(t, Blank)
                                          IN  IF u.at % TAB = 0 THEN ScrollIf(u) ELSE f[u]]
<1>14. KernelTab = CHOOSE f : Is(f)
  BY DEF KernelTab
<1>15. Is(K)
  BY <1>13 DEF TabTurn
<1>16. Is(KernelTab)
  <2> HIDE DEF Is
  <2> QED BY <1>14, <1>15
<1>17. /\ DOMAIN KernelTab = Output /\ KernelTab = [t \in Output |-> KernelTab[t]]
       /\ \A t \in Output : KernelTab[t] = TabTurn(t, KernelTab)
  BY <1>16 DEF TabTurn
<1> HIDE DEF Is
<1> DEFINE W == {i \in 0 .. TAB : \A t \in Output : Way(t) <= i => KernelTab[t] \in Output}
<1>18. ASSUME NEW i \in 1 .. TAB, i - 1 \in W PROVE i \in W
  <2>1. SUFFICES ASSUME NEW t \in Output, Way(t) <= i PROVE KernelTab[t] \in Output
    OBVIOUS
  <2> DEFINE u == KernelShow(t, Blank)
  <2>2. /\ Way(t) \in 1 .. TAB /\ u \in Output /\ ScrollIf(u) \in Output
        /\ u.at % TAB # 0 => Way(u) = Way(t) - 1
    BY <1>2
  <2>3. u.at % TAB # 0 => Way(u) <= i - 1
    BY <1>1, <2>1, <2>2
  <2>4. u.at % TAB # 0 => KernelTab[u] \in Output
    BY <1>18, <2>2, <2>3
  <2> HIDE DEF u, W
  <2>5. KernelTab[t] = TabTurn(t, KernelTab)
    BY <1>17
  <2> QED BY <2>2, <2>4, <2>5 DEF TabTurn, u
<1>19. TAB \in W
  <2>1. 0 \in W
    <3>1. \A t \in Output : ~ (Way(t) <= 0)
      BY <1>1, <1>2
    <3> QED BY <1>1, <3>1
  <2> HIDE DEF W
  <2>2. 0 .. TAB \subseteq W /\ TAB \in 0 .. TAB
    BY <1>1, <1>18, <2>1, Counting
  <2> QED BY <2>2
<1>20. \A t \in Output : Way(t) <= TAB
  BY <1>1, <1>2
<1> QED BY <1>17, <1>19, <1>20

\* A remainder in C is a number.
LEMMA RemType ==
  ASSUME NEW a \in Int
  PROVE  CRem(a, COL) \in Int
<1>1. a % COL \in Int /\ (-a) % COL \in Int /\ -a \in Int
  BY Sizes, Quotient
<1> QED BY <1>1 DEF CRem

\* Every character leaves a screen and a position.
LEMMA KbmputcType ==
  ASSUME NEW t \in Output, NEW c \in Char
  PROVE  Kbmputc(t, c) \in Output
<1>1. /\ t.scr \in Screens /\ t.at \in Int /\ COL \in Int
      /\ \A a \in Int : [t EXCEPT !.at = a] \in Output
  BY ShowType, Sizes
<1>2. ASSUME NEW a \in Int PROVE CRem(a, COL) \in Int
  BY RemType
<1>3. t.at - 1 \in Int /\ t.at + COL \in Int
  BY <1>1
<1>4. t.at + COL - CRem(t.at + COL, COL) \in Int /\ t.at - CRem(t.at, COL) \in Int
  BY <1>1, <1>2, <1>3
<1> QED BY <1>1, <1>3, <1>4, ShowType, TabEnds, Sizes DEF Kbmputc

\* kprintf() puts a text character by character.
LEMMA KprintfWalk ==
  ASSUME NEW t \in Output, NEW s \in Seq(Char)
  PROVE  \E h \in [0 .. Len(s) -> Output] :
           /\ h[0] = t
           /\ \A i \in 1 .. Len(s) : h[i] = Kbmputc(h[i - 1], s[i])
           /\ Kprintf(t, s) = h[Len(s)]
<1> DEFINE n == Len(s)
           G == [v \in Output \X (1 .. n) |-> Kbmputc(v[1], s[v[2]])]
           Iter(f) == f = [S \in SUBSET (1 .. n) |->
                             IF S = {} THEN t ELSE Kbmputc(f[S \ {Max(S)}], s[Max(S)])]
<1>1. n \in Nat /\ DOMAIN s = 1 .. n /\ \A i \in 1 .. n : s[i] \in Char
  OBVIOUS
<1>2. G \in [Output \X (1 .. n) -> Output]
  BY <1>1, KbmputcType
<1>3. PICK f \in [SUBSET (1 .. n) -> Output] : FoldsTo(f, n, t, G)
  <2> HIDE DEF G, Iter
  <2> QED BY <1>1, <1>2, FoldExists
<1>4. ASSUME NEW S \in SUBSET (1 .. n), S # {}
      PROVE  G[<<f[S \ {Max(S)}], Max(S)>>] = Kbmputc(f[S \ {Max(S)}], s[Max(S)])
  <2>1. S \in SUBSET (0 .. n) /\ S \ {Max(S)} \in SUBSET (1 .. n)
    <3> HIDE DEF G, Iter
    <3>1. S \in SUBSET (0 .. n)
      BY <1>1
    <3>2. S \ {Max(S)} \in SUBSET (1 .. n)
      OBVIOUS
    <3> QED BY <3>1, <3>2
  <2>2. Max(S) \in 1 .. n
    BY <1>1, <1>4, <2>1, MaxOf
  <2>3. f[S \ {Max(S)}] \in Output
    BY <2>1
  <2> QED BY <2>2, <2>3
<1>5. Iter(f)
  <2> HIDE DEF G
  <2> QED BY <1>3, <1>4 DEF FoldsTo
<1>6. Kprintf(t, s) = (CHOOSE f_1 : Iter(f_1))[1 .. n]
  BY <1>1 DEF Kprintf, FoldLeft, MapThenFoldSet
<1>7. PICK g : Iter(g) /\ Kprintf(t, s) = g[1 .. n]
  <2> HIDE DEF Iter
  <2> QED BY <1>5, <1>6
<1>8. g[1 .. 0] = t
  <2>1. 1 .. 0 = {}
    OBVIOUS
  <2> QED BY <1>7, <2>1
<1>9. ASSUME NEW i \in 1 .. n PROVE g[1 .. i] = Kbmputc(g[1 .. i - 1], s[i])
  <2>1. /\ 1 .. i \in SUBSET (1 .. n) /\ 1 .. i # {}
        /\ Max(1 .. i) = i /\ (1 .. i) \ {Max(1 .. i)} = 1 .. i - 1
    BY <1>1, MaxUpTo
  <2>2. g[1 .. i] = Kbmputc(g[(1 .. i) \ {Max(1 .. i)}], s[Max(1 .. i)])
    BY <1>7, <2>1
  <2> QED BY <2>1, <2>2
<1> DEFINE U == {i \in 0 .. n : g[1 .. i] \in Output}
<1>10. 0 .. n \subseteq U
  <2>1. 0 \in U
    BY <1>1, <1>8
  <2>2. ASSUME NEW i \in 1 .. n, i - 1 \in U PROVE i \in U
    <3>1. Kbmputc(g[1 .. i - 1], s[i]) \in Output
      BY <1>1, <2>2, KbmputcType
    <3> QED BY <1>9, <3>1
  <2> HIDE DEF U
  <2> QED BY <1>1, <2>1, <2>2, Counting
<1> DEFINE h == [i \in 0 .. n |-> g[1 .. i]]
<1>11. h \in [0 .. n -> Output]
  BY <1>10
<1>12. h[0] = t /\ h[n] = g[1 .. n]
  BY <1>1, <1>8
<1>13. ASSUME NEW i \in 1 .. n PROVE h[i] = Kbmputc(h[i - 1], s[i])
  <2>1. i \in 0 .. n /\ i - 1 \in 0 .. n
    BY <1>1
  <2> QED BY <1>9, <2>1
<1> HIDE DEF h
<1> QED BY <1>7, <1>11, <1>12, <1>13

\* It starts with the first one.
LEMMA KprintfHead ==
  ASSUME NEW t \in Output, NEW s \in Seq(Char)
  PROVE  /\ s = <<>> => Kprintf(t, s) = t
         /\ s # <<>> => Kprintf(t, s) = Kprintf(Kbmputc(t, Head(s)), Tail(s))
         /\ Kprintf(t, s) \in Output
<1>1. PICK h \in [0 .. Len(s) -> Output] :
           /\ h[0] = t
           /\ \A i \in 1 .. Len(s) : h[i] = Kbmputc(h[i - 1], s[i])
           /\ Kprintf(t, s) = h[Len(s)]
  BY KprintfWalk
<1>2. s = <<>> => Kprintf(t, s) = t
  BY <1>1
<1>3. Len(s) \in 0 .. Len(s)
  OBVIOUS
<1>4. ASSUME s # <<>> PROVE Kprintf(t, s) = Kprintf(Kbmputc(t, Head(s)), Tail(s))
  <2> DEFINE n == Len(Tail(s))
             u == Kbmputc(t, Head(s))
  <2>1. /\ Head(s) \in Char /\ Tail(s) \in Seq(Char) /\ n \in Nat /\ Len(s) = n + 1
        /\ Head(s) = s[1] /\ \A i \in 1 .. n : Tail(s)[i] = s[i + 1]
    BY <1>4
  <2>2. u \in Output
    BY <2>1, KbmputcType
  <2>3. PICK g \in [0 .. n -> Output] :
           /\ g[0] = u
           /\ \A i \in 1 .. n : g[i] = Kbmputc(g[i - 1], Tail(s)[i])
           /\ Kprintf(u, Tail(s)) = g[n]
    BY <2>1, <2>2, KprintfWalk
  <2> DEFINE k == [i \in 0 .. n |-> h[i + 1]]
  <2>4. g[0] = k[0]
    <3>1. 1 \in 1 .. Len(s) /\ 0 \in 0 .. n /\ 1 - 1 = 0 /\ 0 + 1 = 1
      BY <2>1
    <3> QED BY <1>1, <2>1, <2>3, <3>1
  <2>5. ASSUME NEW i \in 1 .. n, g[i - 1] = k[i - 1] PROVE g[i] = k[i]
    <3>1. i + 1 \in 1 .. Len(s) /\ (i + 1) - 1 = i /\ i \in 0 .. n /\ i - 1 \in 0 .. n /\ (i - 1) + 1 = i
      BY <2>1
    <3>2. k[i] = h[i + 1] /\ k[i - 1] = h[i]
      BY <3>1
    <3>3. h[i + 1] = Kbmputc(h[i], s[i + 1])
      BY <1>1, <3>1
    <3> QED BY <2>1, <2>3, <2>5, <3>2, <3>3
  <2>6. g[n] = k[n]
    <3>1. n \in 0 .. n
      BY <2>1
    <3>2. n \in Nat
      BY <2>1
    <3> HIDE DEF k, n
    <3> DEFINE U == {i \in 0 .. n : g[i] = k[i]}
    <3>3. 0 \in U
      BY <2>4, <3>2
    <3>4. ASSUME NEW i \in 1 .. n, i - 1 \in U PROVE i \in U
      BY <2>5, <3>2, <3>4
    <3> HIDE DEF U
    <3>5. 0 .. n \subseteq U
      BY <3>2, <3>3, <3>4, Counting
    <3> QED BY <3>1, <3>5 DEF U
  <2>7. k[n] = h[Len(s)]
    BY <2>1
  <2> QED BY <1>1, <2>3, <2>6, <2>7
<1> QED BY <1>1, <1>2, <1>3, <1>4

\* A terminal shows a text character by character.
LEMMA PutTextWalk ==
  ASSUME NEW t \in Term, NEW s \in Seq(Char)
  PROVE  \E h \in [0 .. Len(s) -> Term] :
           /\ h[0] = t
           /\ \A i \in 1 .. Len(s) : h[i] = Put(h[i - 1], s[i])
           /\ PutText(t, s) = h[Len(s)]
<1> DEFINE n == Len(s)
           G == [v \in Term \X (1 .. n) |-> Put(v[1], s[v[2]])]
           Iter(f) == f = [S \in SUBSET (1 .. n) |->
                             IF S = {} THEN t ELSE Put(f[S \ {Max(S)}], s[Max(S)])]
<1>1. n \in Nat /\ DOMAIN s = 1 .. n /\ \A i \in 1 .. n : s[i] \in Char
  OBVIOUS
<1>2. G \in [Term \X (1 .. n) -> Term]
  BY <1>1, PutType
<1>3. PICK f \in [SUBSET (1 .. n) -> Term] : FoldsTo(f, n, t, G)
  <2> HIDE DEF G, Iter
  <2> QED BY <1>1, <1>2, FoldExists
<1>4. ASSUME NEW S \in SUBSET (1 .. n), S # {}
      PROVE  G[<<f[S \ {Max(S)}], Max(S)>>] = Put(f[S \ {Max(S)}], s[Max(S)])
  <2>1. S \in SUBSET (0 .. n) /\ S \ {Max(S)} \in SUBSET (1 .. n)
    <3> HIDE DEF G, Iter
    <3>1. S \in SUBSET (0 .. n)
      BY <1>1
    <3>2. S \ {Max(S)} \in SUBSET (1 .. n)
      OBVIOUS
    <3> QED BY <3>1, <3>2
  <2>2. Max(S) \in 1 .. n
    BY <1>1, <1>4, <2>1, MaxOf
  <2>3. f[S \ {Max(S)}] \in Term
    BY <2>1
  <2> QED BY <2>2, <2>3
<1>5. Iter(f)
  <2> HIDE DEF G
  <2> QED BY <1>3, <1>4 DEF FoldsTo
<1>6. PutText(t, s) = (CHOOSE f_1 : Iter(f_1))[1 .. n]
  BY <1>1 DEF PutText, FoldLeft, MapThenFoldSet
<1>7. PICK g : Iter(g) /\ PutText(t, s) = g[1 .. n]
  <2> HIDE DEF Iter
  <2> QED BY <1>5, <1>6
<1>8. g[1 .. 0] = t
  <2>1. 1 .. 0 = {}
    OBVIOUS
  <2> QED BY <1>7, <2>1
<1>9. ASSUME NEW i \in 1 .. n PROVE g[1 .. i] = Put(g[1 .. i - 1], s[i])
  <2>1. /\ 1 .. i \in SUBSET (1 .. n) /\ 1 .. i # {}
        /\ Max(1 .. i) = i /\ (1 .. i) \ {Max(1 .. i)} = 1 .. i - 1
    BY <1>1, MaxUpTo
  <2>2. g[1 .. i] = Put(g[(1 .. i) \ {Max(1 .. i)}], s[Max(1 .. i)])
    BY <1>7, <2>1
  <2> QED BY <2>1, <2>2
<1> DEFINE U == {i \in 0 .. n : g[1 .. i] \in Term}
<1>10. 0 .. n \subseteq U
  <2>1. 0 \in U
    BY <1>1, <1>8
  <2>2. ASSUME NEW i \in 1 .. n, i - 1 \in U PROVE i \in U
    <3>1. Put(g[1 .. i - 1], s[i]) \in Term
      BY <1>1, <2>2, PutType
    <3> QED BY <1>9, <3>1
  <2> HIDE DEF U
  <2> QED BY <1>1, <2>1, <2>2, Counting
<1> DEFINE h == [i \in 0 .. n |-> g[1 .. i]]
<1>11. h \in [0 .. n -> Term]
  BY <1>10
<1>12. h[0] = t /\ h[n] = g[1 .. n]
  BY <1>1, <1>8
<1>13. ASSUME NEW i \in 1 .. n PROVE h[i] = Put(h[i - 1], s[i])
  <2>1. i \in 0 .. n /\ i - 1 \in 0 .. n
    BY <1>1
  <2> QED BY <1>9, <2>1
<1> HIDE DEF h
<1> QED BY <1>7, <1>11, <1>12, <1>13

\* The boot loader's own column and row.
Writer == [scr : Screens, x : 0 .. COL - 1, y : Int]

\* A character of puts() keeps the column on the screen.
LEMMA PutsCharType ==
  ASSUME NEW t \in Writer, NEW c \in Char
  PROVE  PutsChar(t, c) \in Writer
<1>1. /\ t.scr \in Screens /\ t.x \in 0 .. COL - 1 /\ t.y \in Int
      /\ 0 \in 0 .. COL - 1 /\ t.y + 1 \in Int
  BY Sizes DEF Writer
<1>2. ASSUME NEW u \in Writer PROVE PutsDown(u) \in Writer
  <2>1. u.scr \in Screens /\ u.y \in Int /\ u.y + 1 \in Int /\ Scroll(u.scr) \in Screens
    BY ScrollIs DEF Writer
  <2> QED BY <1>1, <2>1 DEF PutsDown, Writer
<1> DEFINE a == t.x + COL * t.y
<1>3. Store(t.scr, a, c) \in Screens
  BY <1>1 DEF Store, Screens
<1> HIDE DEF a
<1> DEFINE u == [t EXCEPT !.scr = Store(t.scr, a, c)]
<1>4. u \in Writer /\ u.x = t.x
  BY <1>1, <1>3 DEF Writer
<1>5. PutsChar(t, c) = IF c = "nl" THEN PutsDown(t)
                       ELSE IF u.x + 1 >= COL THEN PutsDown(u) ELSE [u EXCEPT !.x = u.x + 1]
  BY DEF PutsChar, a
<1> HIDE DEF u
<1>6. ~ (u.x + 1 >= COL) => u.x + 1 \in 0 .. COL - 1
  BY <1>1, <1>4, Sizes
<1>7. ~ (u.x + 1 >= COL) => [u EXCEPT !.x = u.x + 1] \in Writer
  BY <1>4, <1>6 DEF Writer
<1> QED BY <1>2, <1>4, <1>5, <1>7

\* puts() writes a text character by character.
LEMMA PutsWalk ==
  ASSUME NEW t \in Writer, NEW s \in Seq(Char)
  PROVE  \E h \in [0 .. Len(s) -> Writer] :
           /\ h[0] = t
           /\ \A i \in 1 .. Len(s) : h[i] = PutsChar(h[i - 1], s[i])
           /\ FoldLeft(PutsChar, t, s) = h[Len(s)]
<1> DEFINE n == Len(s)
           G == [v \in Writer \X (1 .. n) |-> PutsChar(v[1], s[v[2]])]
           Iter(f) == f = [S \in SUBSET (1 .. n) |->
                             IF S = {} THEN t ELSE PutsChar(f[S \ {Max(S)}], s[Max(S)])]
<1>1. n \in Nat /\ DOMAIN s = 1 .. n /\ \A i \in 1 .. n : s[i] \in Char
  OBVIOUS
<1>2. G \in [Writer \X (1 .. n) -> Writer]
  BY <1>1, PutsCharType
<1>3. PICK f \in [SUBSET (1 .. n) -> Writer] : FoldsTo(f, n, t, G)
  <2> HIDE DEF G, Iter
  <2> QED BY <1>1, <1>2, FoldExists
<1>4. ASSUME NEW S \in SUBSET (1 .. n), S # {}
      PROVE  G[<<f[S \ {Max(S)}], Max(S)>>] = PutsChar(f[S \ {Max(S)}], s[Max(S)])
  <2>1. S \in SUBSET (0 .. n) /\ S \ {Max(S)} \in SUBSET (1 .. n)
    <3> HIDE DEF G, Iter
    <3>1. S \in SUBSET (0 .. n)
      BY <1>1
    <3>2. S \ {Max(S)} \in SUBSET (1 .. n)
      OBVIOUS
    <3> QED BY <3>1, <3>2
  <2>2. Max(S) \in 1 .. n
    BY <1>1, <1>4, <2>1, MaxOf
  <2>3. f[S \ {Max(S)}] \in Writer
    BY <2>1
  <2> QED BY <2>2, <2>3
<1>5. Iter(f)
  <2> HIDE DEF G
  <2> QED BY <1>3, <1>4 DEF FoldsTo
<1>6. FoldLeft(PutsChar, t, s) = (CHOOSE f_1 : Iter(f_1))[1 .. n]
  BY <1>1 DEF FoldLeft, MapThenFoldSet
<1>7. PICK g : Iter(g) /\ FoldLeft(PutsChar, t, s) = g[1 .. n]
  <2> HIDE DEF Iter
  <2> QED BY <1>5, <1>6
<1>8. g[1 .. 0] = t
  <2>1. 1 .. 0 = {}
    OBVIOUS
  <2> QED BY <1>7, <2>1
<1>9. ASSUME NEW i \in 1 .. n PROVE g[1 .. i] = PutsChar(g[1 .. i - 1], s[i])
  <2>1. /\ 1 .. i \in SUBSET (1 .. n) /\ 1 .. i # {}
        /\ Max(1 .. i) = i /\ (1 .. i) \ {Max(1 .. i)} = 1 .. i - 1
    BY <1>1, MaxUpTo
  <2>2. g[1 .. i] = PutsChar(g[(1 .. i) \ {Max(1 .. i)}], s[Max(1 .. i)])
    BY <1>7, <2>1
  <2> QED BY <2>1, <2>2
<1> DEFINE U == {i \in 0 .. n : g[1 .. i] \in Writer}
<1>10. 0 .. n \subseteq U
  <2>1. 0 \in U
    BY <1>1, <1>8
  <2>2. ASSUME NEW i \in 1 .. n, i - 1 \in U PROVE i \in U
    <3>1. PutsChar(g[1 .. i - 1], s[i]) \in Writer
      BY <1>1, <2>2, PutsCharType
    <3> QED BY <1>9, <3>1
  <2> HIDE DEF U
  <2> QED BY <1>1, <2>1, <2>2, Counting
<1> DEFINE h == [i \in 0 .. n |-> g[1 .. i]]
<1>11. h \in [0 .. n -> Writer]
  BY <1>10
<1>12. h[0] = t /\ h[n] = g[1 .. n]
  BY <1>1, <1>8
<1>13. ASSUME NEW i \in 1 .. n PROVE h[i] = PutsChar(h[i - 1], s[i])
  <2>1. i \in 0 .. n /\ i - 1 \in 0 .. n
    BY <1>1
  <2> QED BY <1>9, <2>1
<1> HIDE DEF h
<1> QED BY <1>7, <1>11, <1>12, <1>13

\* What puts() leaves is a screen.
LEMMA PutsType ==
  ASSUME NEW scr \in Screens, NEW a \in Int, NEW s \in Seq(Char)
  PROVE  Puts(scr, a, s) \in Screens
<1> DEFINE t == [scr |-> scr, x |-> a % COL, y |-> a \div COL]
<1>1. t \in Writer
  BY Sizes, Quotient DEF Writer
<1>2. Puts(scr, a, s) = FoldLeft(PutsChar, t, s).scr
  BY DEF Puts
<1> HIDE DEF t
<1>3. FoldLeft(PutsChar, t, s) \in Writer
  <2>1. PICK h \in [0 .. Len(s) -> Writer] : FoldLeft(PutsChar, t, s) = h[Len(s)]
    BY <1>1, PutsWalk
  <2>2. Len(s) \in 0 .. Len(s)
    OBVIOUS
  <2> QED BY <2>1, <2>2
<1> QED BY <1>2, <1>3 DEF Writer
-----------------------------------------------------------------------------
(* A program that nobody disturbs prints as the kernel does: in one piece.   *)

\* The places of kprintf().
Places ==
  {"idle", "fetch", "load", "put", "right", "inc", "back", "dec", "line", "down", "col",
   "rem", "home", "test", "copy", "up", "sub", "curs", "sel14", "out14", "sel15", "out15",
   "ret"}

\* The states of kprintf(): types, and which of its variables are in use where.
Printing ==
  /\ screen \in Screens /\ crtat \in Int
  /\ crtc \in [sel : {14, 15}, r14 : Int, r15 : Int]
  /\ pc \in [Printer -> Places] /\ todo \in [Printer -> Seq(Char)]
  /\ ch \in [Printer -> Char] /\ tab \in [Printer -> BOOLEAN]
  /\ reg \in [Printer -> Int] /\ line \in [Printer -> 0 .. ROW - 1]
  /\ prints \in 0 .. MaxPrints
  /\ before \in [Printer -> {<<>>} \cup (Screens \X Int \X UserText)]
  /\ \A p \in Printer :
       /\ pc[p] = "idle" => todo[p] = <<>>
       /\ pc[p] \in {"idle", "fetch"} => ~tab[p]
       /\ tab[p] => ch[p] = Blank
       /\ pc[p] # "copy" => line[p] = 0

\* The screen scr with the position a.
Now(scr, a) == [scr |-> scr, at |-> a]

\* A blank of a tab is followed by others up to the tab stop.
Turned(more, t) ==
  IF more THEN IF t.at % TAB = 0 THEN ScrollIf(t) ELSE KernelTab[t] ELSE t

\* What the character c will have made of screen and cursor, when a program is at w
\* with it, and before the row k if it is copying; b: it is a blank of a tab.
Aim(w, c, b, k, scr, a) ==
  LET To(x) == Turned(b, ScrollIf(Now(scr, x)))
  IN  CASE w = "fetch" -> Now(scr, a)
        [] w \in {"load", "put"} -> Turned(b, KernelShow(Now(scr, a), c))
        [] w \in {"right", "inc"} -> To(a + 1)
        [] w \in {"back", "dec"} -> To(a - 1)
        [] w \in {"line", "down"} -> To(a + COL - CRem(a + COL, COL))
        [] w \in {"col", "rem", "home"} -> To(a - CRem(a, COL))
        [] w = "test" -> To(a)
        [] w = "copy" -> Turned(b, Now(Rest(scr, k), a - COL))
        [] w \in {"up", "sub"} -> Turned(b, Now(scr, a - COL))
        [] OTHER -> Turned(b, Now(scr, a))

\* The register holds what was loaded, and the 6845 what was sent to it.
InStep(p) ==
  /\ pc[p] \in {"put", "inc", "dec", "down", "rem", "sub", "sel14", "out14", "sel15", "out15"}
       => reg[p] = crtat
  /\ pc[p] = "home" => reg[p] = crtat - CRem(crtat, COL)
  /\ pc[p] = "out14" => crtc.sel = 14
  /\ pc[p] = "out15" => crtc.sel = 15
  /\ pc[p] \in {"sel15", "out15", "ret"} => crtc.r14 = crtat \div BYTE
  /\ pc[p] = "ret" => crtc.r15 = crtat % BYTE
  /\ pc[p] = "fetch" => todo[p] = before[p][3] \/ HwPos(crtc) = crtat

\* p will end with what the kernel would have printed at once.
Kept(p) ==
  /\ InStep(p)
  /\ Kprintf(Aim(pc[p], ch[p], tab[p], line[p], screen, crtat), todo[p])
       = Kprintf(Now(before[p][1], before[p][2]), before[p][3])

\* The inductive invariant: what the text will have made of screen and cursor is
\* settled when it begins, and every step of its program keeps it.
Undisturbed ==
  /\ Printing
  /\ \A p \in Printer : pc[p] # "idle" /\ before[p] # <<>> => Kept(p)

\* The screen that kprintf() clears at its first call.
LEMMA ClearType ==
  ASSUME NEW scr \in Screens, NEW a \in Int
  PROVE  ClearFrom(scr, a) \in Screens
<1>1. \A i \in Cell : scr[i] \in Char
  BY DEF Screens
<1> QED BY <1>1, Sizes DEF ClearFrom, Screens

\* Where it puts its cursor.
LEMMA FirstType ==
  ASSUME NEW a \in HwCursor
  PROVE  a \in Int /\ FirstAt(a) \in Int /\ a \in Nat
BY ConsoleAssumption DEF FirstAt

\* What is sent to the 6845 are numbers, and it has the cursor when both are sent.
LEMMA CursorType ==
  ASSUME NEW a \in Int
  PROVE  /\ CursorSet(a) \in [sel : {14, 15}, r14 : Int, r15 : Int]
         /\ a \div BYTE \in Int /\ a % BYTE \in Int
         /\ (a \div BYTE) * BYTE + (a % BYTE) = a
<1>1. BYTE \in Nat \ {0}
  BY ConsoleAssumption
<1>2. a \div BYTE \in Int /\ a % BYTE \in Int /\ a = BYTE * (a \div BYTE) + (a % BYTE)
  BY <1>1, Quotient
<1>3. BYTE * (a \div BYTE) = (a \div BYTE) * BYTE
  BY <1>1, <1>2
<1> QED BY <1>2, <1>3 DEF CursorSet

\* The texts are texts.
LEMMA Texts ==
  /\ \A s \in UserText : s \in Seq(Char)
  /\ \A s \in KernelText : s \in Seq(Char)
  /\ \A s \in BootText : s \in Seq(Char)
BY ConsoleAssumption

\* A blank screen.
LEMMA BlankScreen == [i \in Cell |-> Blank] \in Screens
BY Sizes DEF Screens

\* The first texts leave a screen and a position.
LEMMA InitPrinting == Init => Printing
<1> SUFFICES ASSUME Init PROVE Printing
  OBVIOUS
<1> USE DEF Init
<1>1. PICK a \in HwCursor, b \in BootText, k \in KernelText :
        LET boot  == Puts([i \in Cell |-> Blank], a, b)
            first == Kprintf([scr |-> ClearFrom(boot, FirstAt(a)), at |-> FirstAt(a)], k)
        IN  screen = first.scr /\ crtat = first.at /\ crtc = CursorSet(first.at)
  OBVIOUS
<1> DEFINE boot  == Puts([i \in Cell |-> Blank], a, b)
           first == Kprintf([scr |-> ClearFrom(boot, FirstAt(a)), at |-> FirstAt(a)], k)
<1>2. boot \in Screens
  BY BlankScreen, FirstType, Texts, PutsType
<1>3. [scr |-> ClearFrom(boot, FirstAt(a)), at |-> FirstAt(a)] \in Output
  <2> HIDE DEF boot
  <2> QED BY <1>2, ClearType, FirstType, ShowType
<1>4. first \in Output
  <2> HIDE DEF boot
  <2> QED BY <1>3, KprintfHead, Texts
<1>5. first.scr \in Screens /\ first.at \in Int
  <2> HIDE DEF first
  <2> QED BY <1>4, ShowType
<1>6. screen = first.scr /\ crtat = first.at /\ crtc = CursorSet(first.at)
  BY <1>1
<1> HIDE DEF boot, first
<1>7. screen \in Screens /\ crtat \in Int /\ crtc \in [sel : {14, 15}, r14 : Int, r15 : Int]
  BY <1>5, <1>6, CursorType
<1>8. /\ pc \in [Printer -> Places] /\ todo \in [Printer -> Seq(Char)]
      /\ ch \in [Printer -> Char] /\ tab \in [Printer -> BOOLEAN]
      /\ reg \in [Printer -> Int] /\ line \in [Printer -> 0 .. ROW - 1]
      /\ prints \in 0 .. MaxPrints
      /\ before \in [Printer -> {<<>>} \cup (Screens \X Int \X UserText)]
  <2>1. "idle" \in Places /\ Blank \in Char /\ 0 \in 0 .. ROW - 1 /\ 0 \in Int /\ 0 \in 0 .. MaxPrints
    BY Sizes, ConsoleAssumption DEF Places
  <2>2. <<>> \in Seq(Char)
    OBVIOUS
  <2> QED BY <2>1, <2>2
<1>9. \A p \in Printer : pc[p] = "idle" /\ todo[p] = <<>> /\ ~tab[p] /\ line[p] = 0
  OBVIOUS
<1> QED BY <1>7, <1>8, <1>9 DEF Printing

\* A step of p changes the variables of p, if at all.
LEMMA OneStep ==
  ASSUME Printing, NEW p \in Printer,
         /\ pc' = [pc EXCEPT ![p] = pc'[p]] /\ todo' = [todo EXCEPT ![p] = todo'[p]]
         /\ ch' = [ch EXCEPT ![p] = ch'[p]] /\ tab' = [tab EXCEPT ![p] = tab'[p]]
         /\ reg' = [reg EXCEPT ![p] = reg'[p]] /\ line' = [line EXCEPT ![p] = line'[p]],
         /\ pc'[p] \in Places /\ todo'[p] \in Seq(Char) /\ ch'[p] \in Char
         /\ tab'[p] \in BOOLEAN /\ reg'[p] \in Int /\ line'[p] \in 0 .. ROW - 1,
         /\ pc'[p] = "idle" => todo'[p] = <<>>
         /\ pc'[p] \in {"idle", "fetch"} => ~tab'[p]
         /\ tab'[p] => ch'[p] = Blank
         /\ pc'[p] # "copy" => line'[p] = 0
  PROVE  /\ pc' \in [Printer -> Places] /\ todo' \in [Printer -> Seq(Char)]
         /\ ch' \in [Printer -> Char] /\ tab' \in [Printer -> BOOLEAN]
         /\ reg' \in [Printer -> Int] /\ line' \in [Printer -> 0 .. ROW - 1]
         /\ \A q \in Printer :
              /\ pc'[q] = "idle" => todo'[q] = <<>>
              /\ pc'[q] \in {"idle", "fetch"} => ~tab'[q]
              /\ tab'[q] => ch'[q] = Blank
              /\ pc'[q] # "copy" => line'[q] = 0
<1>1. /\ pc' \in [Printer -> Places] /\ todo' \in [Printer -> Seq(Char)]
      /\ ch' \in [Printer -> Char] /\ tab' \in [Printer -> BOOLEAN]
      /\ reg' \in [Printer -> Int] /\ line' \in [Printer -> 0 .. ROW - 1]
  BY DEF Printing
<1>2. ASSUME NEW q \in Printer
      PROVE  /\ pc'[q] = "idle" => todo'[q] = <<>>
             /\ pc'[q] \in {"idle", "fetch"} => ~tab'[q]
             /\ tab'[q] => ch'[q] = Blank
             /\ pc'[q] # "copy" => line'[q] = 0
  <2>1. CASE q = p
    BY <2>1 DEF Printing
  <2>2. CASE q # p
    <3>1. pc'[q] = pc[q] /\ todo'[q] = todo[q] /\ tab'[q] = tab[q] /\ ch'[q] = ch[q] /\ line'[q] = line[q]
      BY <2>2 DEF Printing
    <3> QED BY <3>1 DEF Printing
  <2> QED BY <2>1, <2>2
<1> QED BY <1>1, <1>2

\* A place of kprintf() outside the copying and between two characters.
Inside == Places \ {"idle", "fetch", "copy"}

\* What a program leaves alone stays what it is, and what all steps do alike.
LEMMA StepFrame ==
  ASSUME Printing, NEW p \in Printer, NEW here, NEW there, At(p, here, there)
  PROVE  /\ pc[p] = here /\ pc' = [pc EXCEPT ![p] = there]
         /\ before' \in [Printer -> {<<>>} \cup (Screens \X Int \X UserText)]
         /\ prints' \in 0 .. MaxPrints
         /\ todo = [todo EXCEPT ![p] = todo[p]] /\ todo[p] \in Seq(Char)
         /\ ch = [ch EXCEPT ![p] = ch[p]] /\ ch[p] \in Char
         /\ tab = [tab EXCEPT ![p] = tab[p]] /\ tab[p] \in BOOLEAN
         /\ reg = [reg EXCEPT ![p] = reg[p]] /\ reg[p] \in Int
         /\ line = [line EXCEPT ![p] = line[p]] /\ line[p] \in 0 .. ROW - 1
         /\ here \in {"idle", "fetch"} => ~tab[p]
         /\ tab[p] => ch[p] = Blank
         /\ here # "copy" => line[p] = 0
<1>1. before' \in [Printer -> {<<>>} \cup (Screens \X Int \X UserText)]
  BY DEF At, Printing
<1> QED BY <1>1 DEF At, Printing

\* A step into the middle of kbmputc() that only changes reg[p] and the machine.
LEMMA StepInside ==
  ASSUME Printing, NEW p \in Printer, NEW here, NEW there \in Inside, At(p, here, there),
         here # "copy", UNCHANGED <<todo, ch, tab, line>>,
         NEW r \in Int, reg' = [reg EXCEPT ![p] = r],
         screen' \in Screens, crtat' \in Int, crtc' \in [sel : {14, 15}, r14 : Int, r15 : Int]
  PROVE  Printing'
<1>1. there \in Places /\ there # "idle" /\ there # "fetch" /\ there # "copy"
  BY DEF Inside
<1>2. /\ pc' = [pc EXCEPT ![p] = there] /\ todo' = [todo EXCEPT ![p] = todo[p]]
      /\ ch' = [ch EXCEPT ![p] = ch[p]] /\ tab' = [tab EXCEPT ![p] = tab[p]]
      /\ line' = [line EXCEPT ![p] = line[p]]
      /\ todo[p] \in Seq(Char) /\ ch[p] \in Char /\ tab[p] \in BOOLEAN
      /\ line[p] \in 0 .. ROW - 1
      /\ tab[p] => ch[p] = Blank
      /\ line[p] = 0
  BY StepFrame
<1>3. /\ prints' \in 0 .. MaxPrints
      /\ before' \in [Printer -> {<<>>} \cup (Screens \X Int \X UserText)]
  BY StepFrame
<1>4. /\ pc'[p] = there /\ todo'[p] = todo[p] /\ ch'[p] = ch[p] /\ tab'[p] = tab[p]
      /\ reg'[p] = r /\ line'[p] = line[p]
  BY <1>2 DEF Printing
<1>5. /\ pc' = [pc EXCEPT ![p] = pc'[p]] /\ todo' = [todo EXCEPT ![p] = todo'[p]]
      /\ ch' = [ch EXCEPT ![p] = ch'[p]] /\ tab' = [tab EXCEPT ![p] = tab'[p]]
      /\ reg' = [reg EXCEPT ![p] = reg'[p]] /\ line' = [line EXCEPT ![p] = line'[p]]
  BY <1>2, <1>4
<1>6. /\ pc'[p] \in Places /\ todo'[p] \in Seq(Char) /\ ch'[p] \in Char
      /\ tab'[p] \in BOOLEAN /\ reg'[p] \in Int /\ line'[p] \in 0 .. ROW - 1
  BY <1>1, <1>2, <1>4
<1>7. /\ pc'[p] = "idle" => todo'[p] = <<>>
      /\ pc'[p] \in {"idle", "fetch"} => ~tab'[p]
      /\ tab'[p] => ch'[p] = Blank
      /\ pc'[p] # "copy" => line'[p] = 0
  BY <1>1, <1>2, <1>4
<1>8. /\ pc' \in [Printer -> Places] /\ todo' \in [Printer -> Seq(Char)]
      /\ ch' \in [Printer -> Char] /\ tab' \in [Printer -> BOOLEAN]
      /\ reg' \in [Printer -> Int] /\ line' \in [Printer -> 0 .. ROW - 1]
      /\ \A q \in Printer :
           /\ pc'[q] = "idle" => todo'[q] = <<>>
           /\ pc'[q] \in {"idle", "fetch"} => ~tab'[q]
           /\ tab'[q] => ch'[q] = Blank
           /\ pc'[q] # "copy" => line'[q] = 0
  BY <1>5, <1>6, <1>7, OneStep
<1> QED BY <1>3, <1>8 DEF Printing

\* Loads, saves and output to the 6845.
LEMMA SmallStepTypes ==
  ASSUME Printing, NEW p \in Printer, NEW here, NEW there \in Inside, here # "copy"
  PROVE  /\ Load(p, here, there) => Printing'
         /\ \A a \in Int : Save(p, here, a, there) => Printing'
         /\ \A r \in {14, 15} : Select(p, here, r, there) => Printing'
         /\ \A v \in Int : Out(p, here, v, there) => Printing'
<1>0. /\ screen \in Screens /\ crtat \in Int /\ crtc \in [sel : {14, 15}, r14 : Int, r15 : Int]
      /\ reg[p] \in Int /\ 0 \in Int
  BY DEF Printing
<1>1. ASSUME Load(p, here, there) PROVE Printing'
  <2>1. /\ At(p, here, there) /\ reg' = [reg EXCEPT ![p] = crtat]
        /\ UNCHANGED <<todo, ch, tab, line>> /\ UNCHANGED <<screen, crtat, crtc>>
    BY <1>1 DEF Load, machine
  <2> QED BY <1>0, <2>1, StepInside
<1>2. ASSUME NEW a \in Int, Save(p, here, a, there) PROVE Printing'
  <2>1. /\ At(p, here, there) /\ reg' = [reg EXCEPT ![p] = 0] /\ crtat' = a
        /\ UNCHANGED <<todo, ch, tab, line>> /\ UNCHANGED <<screen, crtc>>
    BY <1>2 DEF Save
  <2> QED BY <1>0, <2>1, StepInside
<1>3. ASSUME NEW r \in {14, 15}, Select(p, here, r, there) PROVE Printing'
  <2>1. /\ At(p, here, there) /\ crtc' = [crtc EXCEPT !.sel = r]
        /\ UNCHANGED <<todo, ch, tab, line>> /\ UNCHANGED <<screen, crtat, reg>>
    BY <1>3 DEF Select
  <2>2. crtc' \in [sel : {14, 15}, r14 : Int, r15 : Int] /\ reg' = [reg EXCEPT ![p] = reg[p]]
    BY <1>0, <2>1, StepFrame
  <2> QED BY <1>0, <2>1, <2>2, StepInside
<1>4. ASSUME NEW v \in Int, Out(p, here, v, there) PROVE Printing'
  <2>1. /\ At(p, here, there)
        /\ crtc' = [crtc EXCEPT !.r14 = v] \/ crtc' = [crtc EXCEPT !.r15 = v]
        /\ UNCHANGED <<todo, ch, tab, line>> /\ UNCHANGED <<screen, crtat, reg>>
    BY <1>4 DEF Out
  <2>2. crtc' \in [sel : {14, 15}, r14 : Int, r15 : Int] /\ reg' = [reg EXCEPT ![p] = reg[p]]
    BY <1>0, <2>1, StepFrame
  <2> QED BY <1>0, <2>1, <2>2, StepInside
<1> QED BY <1>1, <1>2, <1>3, <1>4

\* The other steps of kprintf().
LEMMA StepTypes ==
  ASSUME Printing, NEW p \in Printer, Step(p)
  PROVE  Printing'
<1>0. /\ screen \in Screens /\ crtat \in Int /\ crtc \in [sel : {14, 15}, r14 : Int, r15 : Int]
      /\ reg[p] \in Int /\ 0 \in Int /\ 1 \in Int /\ line[p] \in 0 .. ROW - 1
  BY DEF Printing
<1> DEFINE Steps(w, s, c, b, r, k) ==
             /\ pc' = [pc EXCEPT ![p] = w] /\ todo' = [todo EXCEPT ![p] = s]
             /\ ch' = [ch EXCEPT ![p] = c] /\ tab' = [tab EXCEPT ![p] = b]
             /\ reg' = [reg EXCEPT ![p] = r] /\ line' = [line EXCEPT ![p] = k]
           Fit(w, s, c, b, r, k) ==
             /\ w \in Places /\ s \in Seq(Char) /\ c \in Char
             /\ b \in BOOLEAN /\ r \in Int /\ k \in 0 .. ROW - 1
             /\ w = "idle" => s = <<>>
             /\ w \in {"idle", "fetch"} => ~b
             /\ b => c = Blank
             /\ w # "copy" => k = 0
           MachineOk == /\ screen' \in Screens /\ crtat' \in Int
                        /\ crtc' \in [sel : {14, 15}, r14 : Int, r15 : Int]
<1>1. ASSUME NEW here, NEW there, At(p, here, there), MachineOk,
             NEW w, NEW s, NEW c, NEW b, NEW r, NEW k,
             Steps(w, s, c, b, r, k), Fit(w, s, c, b, r, k)
      PROVE  Printing'
  <2>1. /\ pc'[p] = w /\ todo'[p] = s /\ ch'[p] = c /\ tab'[p] = b /\ reg'[p] = r /\ line'[p] = k
    BY <1>1 DEF Printing
  <2>2. /\ pc' = [pc EXCEPT ![p] = pc'[p]] /\ todo' = [todo EXCEPT ![p] = todo'[p]]
        /\ ch' = [ch EXCEPT ![p] = ch'[p]] /\ tab' = [tab EXCEPT ![p] = tab'[p]]
        /\ reg' = [reg EXCEPT ![p] = reg'[p]] /\ line' = [line EXCEPT ![p] = line'[p]]
    BY <1>1, <2>1
  <2>3. /\ pc'[p] \in Places /\ todo'[p] \in Seq(Char) /\ ch'[p] \in Char
        /\ tab'[p] \in BOOLEAN /\ reg'[p] \in Int /\ line'[p] \in 0 .. ROW - 1
    BY <1>1, <2>1
  <2>4. /\ pc'[p] = "idle" => todo'[p] = <<>>
        /\ pc'[p] \in {"idle", "fetch"} => ~tab'[p]
        /\ tab'[p] => ch'[p] = Blank
        /\ pc'[p] # "copy" => line'[p] = 0
    BY <1>1, <2>1
  <2>5. /\ prints' \in 0 .. MaxPrints
        /\ before' \in [Printer -> {<<>>} \cup (Screens \X Int \X UserText)]
    BY <1>1, StepFrame
  <2>6. /\ pc' \in [Printer -> Places] /\ todo' \in [Printer -> Seq(Char)]
        /\ ch' \in [Printer -> Char] /\ tab' \in [Printer -> BOOLEAN]
        /\ reg' \in [Printer -> Int] /\ line' \in [Printer -> 0 .. ROW - 1]
        /\ \A q \in Printer :
             /\ pc'[q] = "idle" => todo'[q] = <<>>
             /\ pc'[q] \in {"idle", "fetch"} => ~tab'[q]
             /\ tab'[q] => ch'[q] = Blank
             /\ pc'[q] # "copy" => line'[q] = 0
    BY <2>2, <2>3, <2>4, OneStep
  <2> QED BY <1>1, <2>5, <2>6 DEF Printing
<1> HIDE DEF Steps, Fit, MachineOk
<1>2. ASSUME Fetch(p) PROVE Printing'
  <2> DEFINE c == Head(todo[p])
             there == Entry(c)
             d == IF c = "tab" THEN Blank ELSE c
  <2>1. At(p, "fetch", there) /\ todo[p] # <<>>
    BY <1>2 DEF Fetch
  <2>2. c \in Char /\ Tail(todo[p]) \in Seq(Char)
    BY <2>1 DEF Printing
  <2>3. Steps(there, Tail(todo[p]), d, c = "tab", reg[p], line[p])
    BY <1>2, <2>1, StepFrame DEF Fetch, Steps
  <2>4. Fit(there, Tail(todo[p]), d, c = "tab", reg[p], line[p])
    <3>1. there \in Places /\ there # "idle" /\ there # "fetch" /\ there # "copy"
      BY DEF Entry, Places
    <3>2. d \in Char /\ (c = "tab" => d = Blank) /\ (c = "tab") \in BOOLEAN
      BY <2>2, Sizes
    <3>3. line[p] = 0
      BY <2>1, StepFrame
    <3> HIDE DEF d, there, c
    <3> QED BY <1>0, <2>2, <3>1, <3>2, <3>3 DEF Fit
  <2>5. MachineOk
    BY <1>0, <1>2 DEF Fetch, MachineOk, machine
  <2> HIDE DEF d, there, c
  <2> QED BY <1>1, <2>1, <2>3, <2>4, <2>5
<1>3. ASSUME End(p) PROVE Printing'
  <2>1. At(p, "fetch", "idle") /\ todo[p] = <<>>
    BY <1>3 DEF End
  <2>2. Steps("idle", todo[p], Blank, tab[p], reg[p], line[p])
    BY <1>3, <2>1, StepFrame DEF End, Steps
  <2>3. Fit("idle", todo[p], Blank, tab[p], reg[p], line[p])
    <3>1. /\ todo[p] \in Seq(Char) /\ tab[p] \in BOOLEAN /\ ~tab[p] /\ line[p] = 0
          /\ "idle" \in Places /\ Blank \in Char
      BY <2>1, StepFrame, Sizes DEF Places
    <3> QED BY <1>0, <2>1, <3>1 DEF Fit
  <2>4. MachineOk
    BY <1>0, <1>3 DEF End, MachineOk, machine
  <2> QED BY <1>1, <2>1, <2>2, <2>3, <2>4
<1>4. ASSUME Paint(p) PROVE Printing'
  <2>1. /\ At(p, "put", "right") /\ reg' = [reg EXCEPT ![p] = 0]
        /\ screen' = Store(screen, reg[p], ch[p])
        /\ UNCHANGED <<todo, ch, tab, line>> /\ UNCHANGED <<crtat, crtc>>
    BY <1>4 DEF Paint
  <2>2. screen' \in Screens
    <3>1. ch[p] \in Char
      BY <2>1, StepFrame
    <3> QED BY <1>0, <2>1, <3>1 DEF Store, Screens
  <2>3. "right" \in Inside /\ "put" # "copy"
    BY DEF Inside, Places
  <2> QED BY <1>0, <2>1, <2>2, <2>3, StepInside
<1>5. ASSUME Column(p) PROVE Printing'
  <2> DEFINE r == reg[p] - CRem(crtat, COL)
  <2>1. /\ At(p, "rem", "home") /\ reg' = [reg EXCEPT ![p] = r]
        /\ UNCHANGED <<todo, ch, tab, line>> /\ UNCHANGED <<screen, crtat, crtc>>
    BY <1>5 DEF Column, machine
  <2>2. r \in Int
    BY <1>0, RemType
  <2>3. "home" \in Inside /\ "rem" # "copy"
    BY DEF Inside, Places
  <2> HIDE DEF r
  <2> QED BY <1>0, <2>1, <2>2, <2>3, StepInside
<1>6. ASSUME Test(p) PROVE Printing'
  <2> DEFINE there == IF crtat >= Limit THEN "copy" ELSE "curs"
  <2>1. At(p, "test", there)
    BY <1>6 DEF Test
  <2>2. Steps(there, todo[p], ch[p], tab[p], reg[p], line[p])
    BY <1>6, <2>1, StepFrame DEF Test, Steps
  <2>3. Fit(there, todo[p], ch[p], tab[p], reg[p], line[p])
    <3>1. /\ todo[p] \in Seq(Char) /\ ch[p] \in Char /\ tab[p] \in BOOLEAN /\ line[p] = 0
          /\ tab[p] => ch[p] = Blank
      BY <2>1, StepFrame
    <3>2. there \in Places /\ there # "idle" /\ there # "fetch"
      BY DEF Places
    <3> HIDE DEF there
    <3> QED BY <1>0, <3>1, <3>2 DEF Fit
  <2>4. MachineOk
    BY <1>0, <1>6 DEF Test, MachineOk, machine
  <2> HIDE DEF there
  <2> QED BY <1>1, <2>1, <2>2, <2>3, <2>4
<1>7. ASSUME Copy(p) PROVE Printing'
  <2> DEFINE there == IF line[p] = ROW - 1 THEN "up" ELSE "copy"
             k == (line[p] + 1) % ROW
  <2>1. At(p, "copy", there)
    BY <1>7 DEF Copy
  <2>2. Steps(there, todo[p], ch[p], tab[p], reg[p], k)
    BY <1>7, <2>1, StepFrame DEF Copy, Steps
  <2>3. Fit(there, todo[p], ch[p], tab[p], reg[p], k)
    <3>1. /\ todo[p] \in Seq(Char) /\ ch[p] \in Char /\ tab[p] \in BOOLEAN
          /\ tab[p] => ch[p] = Blank
      BY <2>1, StepFrame
    <3>2. there \in Places /\ there # "idle" /\ there # "fetch"
      BY DEF Places
    <3>3. k \in 0 .. ROW - 1 /\ (there # "copy" => k = 0)
      BY <1>0, Sizes
    <3> HIDE DEF there, k
    <3> QED BY <1>0, <3>1, <3>2, <3>3 DEF Fit
  <2>4. MachineOk
    <3>1. screen' = CopyRow(screen, line[p]) /\ UNCHANGED <<crtat, crtc>>
      BY <1>7 DEF Copy
    <3> QED BY <1>0, <3>1, CopyOne DEF MachineOk
  <2> HIDE DEF there, k
  <2> QED BY <1>1, <2>1, <2>2, <2>3, <2>4
<1>8. ASSUME Return(p) PROVE Printing'
  <2> DEFINE more == tab[p] /\ crtat % TAB # 0
             there == IF more THEN "load" ELSE IF tab[p] THEN "test" ELSE "fetch"
  <2>1. At(p, "ret", there)
    BY <1>8 DEF Return
  <2>2. Steps(there, todo[p], ch[p], more, 0, line[p])
    BY <1>8, <2>1, StepFrame DEF Return, Steps
  <2>3. Fit(there, todo[p], ch[p], more, 0, line[p])
    <3>1. /\ todo[p] \in Seq(Char) /\ ch[p] \in Char /\ line[p] = 0
          /\ tab[p] => ch[p] = Blank
      BY <2>1, StepFrame
    <3>2. there \in Places /\ there # "idle" /\ (there = "fetch" => ~more)
      BY DEF Places
    <3>3. more \in BOOLEAN /\ (more => ch[p] = Blank)
      BY <3>1
    <3> HIDE DEF there, more
    <3> QED BY <1>0, <3>1, <3>2, <3>3 DEF Fit
  <2>4. MachineOk
    BY <1>0, <1>8 DEF Return, MachineOk, machine
  <2> HIDE DEF there, more
  <2> QED BY <1>1, <2>1, <2>2, <2>3, <2>4
<1>9. /\ reg[p] + 1 \in Int /\ reg[p] - 1 \in Int /\ reg[p] + COL \in Int /\ reg[p] - COL \in Int
      /\ reg[p] \div BYTE \in Int /\ reg[p] % BYTE \in Int
  BY <1>0, Sizes, CursorType
<1>10. {"put", "right", "inc", "test", "dec", "down", "col", "rem", "sub", "curs", "sel14", "out14",
        "sel15", "out15", "ret"} \subseteq Inside
  BY DEF Inside, Places
<1>11. /\ Load(p, "load", "put") => Printing'
       /\ Load(p, "right", "inc") => Printing'
       /\ Load(p, "back", "dec") => Printing'
       /\ Load(p, "line", "down") => Printing'
       /\ Load(p, "col", "rem") => Printing'
       /\ Load(p, "up", "sub") => Printing'
       /\ Load(p, "curs", "sel14") => Printing'
  BY <1>10, SmallStepTypes
<1>12. /\ Save(p, "inc", reg[p] + 1, "test") => Printing'
       /\ Save(p, "dec", reg[p] - 1, "test") => Printing'
       /\ Save(p, "down", reg[p] + COL, "col") => Printing'
       /\ Save(p, "home", reg[p], "test") => Printing'
       /\ Save(p, "sub", reg[p] - COL, "curs") => Printing'
  BY <1>0, <1>9, <1>10, SmallStepTypes
<1>13. /\ Select(p, "sel14", 14, "out14") => Printing'
       /\ Select(p, "sel15", 15, "out15") => Printing'
       /\ Out(p, "out14", reg[p] \div BYTE, "sel15") => Printing'
       /\ Out(p, "out15", reg[p] % BYTE, "ret") => Printing'
  BY <1>9, <1>10, SmallStepTypes
<1> QED BY <1>2, <1>3, <1>4, <1>5, <1>6, <1>7, <1>8, <1>11, <1>12, <1>13 DEF Step

\* The steps of everybody keep the types.
LEMMA NextPrinting == Printing /\ [Next]_vars => Printing'
<1> SUFFICES ASSUME Printing, [Next]_vars PROVE Printing'
  OBVIOUS
<1>1. ASSUME NEW s \in KernelText, KernelPrint(s) PROVE Printing'
  <2> DEFINE now == [scr |-> screen, at |-> crtat]
             t == Kprintf(now, s)
  <2>1. now \in Output
    BY ShowType DEF Printing
  <2>2. t \in Output
    <3> HIDE DEF now
    <3> QED BY <2>1, KprintfHead, Texts
  <2>3. t.scr \in Screens /\ t.at \in Int
    <3> HIDE DEF t
    <3> QED BY <2>2, ShowType
  <2>4. /\ prints < MaxPrints /\ prints' = prints + 1
        /\ screen' = t.scr /\ crtat' = t.at /\ crtc' = CursorSet(t.at)
        /\ before' = [p \in Printer |-> <<>>]
        /\ UNCHANGED <<pc, todo, ch, tab, reg, line>>
    BY <1>1 DEF KernelPrint, local
  <2> HIDE DEF t
  <2>5. /\ screen' \in Screens /\ crtat' \in Int
        /\ crtc' \in [sel : {14, 15}, r14 : Int, r15 : Int]
    BY <2>3, <2>4, CursorType
  <2>6. prints' \in 0 .. MaxPrints
    BY <2>4, ConsoleAssumption DEF Printing
  <2>7. before' \in [Printer -> {<<>>} \cup (Screens \X Int \X UserText)]
    BY <2>4
  <2> QED BY <2>4, <2>5, <2>6, <2>7 DEF Printing
<1>2. ASSUME NEW p \in Printer, NEW s \in UserText, Begin(p, s) PROVE Printing'
  <2>1. /\ pc[p] = "idle" /\ prints < MaxPrints /\ prints' = prints + 1
        /\ pc' = [pc EXCEPT ![p] = "fetch"] /\ todo' = [todo EXCEPT ![p] = s]
        /\ before' = [q \in Printer |-> IF q = p THEN <<screen, crtat, s>> ELSE <<>>]
        /\ UNCHANGED <<screen, crtat, crtc, ch, tab, reg, line>>
    BY <1>2 DEF Begin, machine
  <2>2. s \in Seq(Char)
    BY Texts
  <2>3. /\ pc'[p] = "fetch" /\ todo'[p] = s /\ ch'[p] = ch[p] /\ tab'[p] = tab[p]
        /\ reg'[p] = reg[p] /\ line'[p] = line[p]
    BY <2>1 DEF Printing
  <2>4. /\ pc' = [pc EXCEPT ![p] = pc'[p]] /\ todo' = [todo EXCEPT ![p] = todo'[p]]
        /\ ch' = [ch EXCEPT ![p] = ch'[p]] /\ tab' = [tab EXCEPT ![p] = tab'[p]]
        /\ reg' = [reg EXCEPT ![p] = reg'[p]] /\ line' = [line EXCEPT ![p] = line'[p]]
    BY <2>1, <2>3 DEF Printing
  <2>5. /\ pc'[p] \in Places /\ todo'[p] \in Seq(Char) /\ ch'[p] \in Char
        /\ tab'[p] \in BOOLEAN /\ reg'[p] \in Int /\ line'[p] \in 0 .. ROW - 1
    BY <2>2, <2>3 DEF Printing, Places
  <2>6. /\ pc'[p] = "idle" => todo'[p] = <<>>
        /\ pc'[p] \in {"idle", "fetch"} => ~tab'[p]
        /\ tab'[p] => ch'[p] = Blank
        /\ pc'[p] # "copy" => line'[p] = 0
    BY <2>1, <2>3 DEF Printing
  <2>7. /\ pc' \in [Printer -> Places] /\ todo' \in [Printer -> Seq(Char)]
        /\ ch' \in [Printer -> Char] /\ tab' \in [Printer -> BOOLEAN]
        /\ reg' \in [Printer -> Int] /\ line' \in [Printer -> 0 .. ROW - 1]
        /\ \A q \in Printer :
             /\ pc'[q] = "idle" => todo'[q] = <<>>
             /\ pc'[q] \in {"idle", "fetch"} => ~tab'[q]
             /\ tab'[q] => ch'[q] = Blank
             /\ pc'[q] # "copy" => line'[q] = 0
    BY <2>4, <2>5, <2>6, OneStep
  <2>8. prints' \in 0 .. MaxPrints
    BY <2>1, ConsoleAssumption DEF Printing
  <2>9. screen \in Screens /\ crtat \in Int /\ crtc \in [sel : {14, 15}, r14 : Int, r15 : Int]
    BY DEF Printing
  <2>10. before' \in [Printer -> {<<>>} \cup (Screens \X Int \X UserText)]
    BY <2>1, <2>9
  <2> QED BY <2>1, <2>7, <2>8, <2>9, <2>10 DEF Printing
<1>3. ASSUME UNCHANGED vars PROVE Printing'
  BY <1>3 DEF vars, machine, local, Printing
<1> QED BY <1>1, <1>2, <1>3, StepTypes DEF Next

\* A step of p leaves p on its way, unless it ends it.
LEMMA KeptStep ==
  ASSUME Printing, NEW p \in Printer, Step(p), before[p] # <<>>, Kept(p), pc'[p] # "idle"
  PROVE  Kept(p)'
<1>0. /\ screen \in Screens /\ crtat \in Int /\ crtc \in [sel : {14, 15}, r14 : Int, r15 : Int]
      /\ reg[p] \in Int /\ line[p] \in 0 .. ROW - 1 /\ todo[p] \in Seq(Char)
      /\ tab[p] \in BOOLEAN /\ ch[p] \in Char
  BY DEF Printing
<1>00. InStep(p)
  BY DEF Kept
<1> DEFINE aim == Aim(pc[p], ch[p], tab[p], line[p], screen, crtat)
           Free == /\ todo' = todo /\ ch' = ch /\ tab' = tab /\ line' = line
<1>1. ASSUME NEW here, NEW there, At(p, here, there)
      PROVE  pc[p] = here /\ pc'[p] = there /\ before'[p] = before[p]
  BY <1>1 DEF At, Printing
<1>2. ASSUME before'[p] = before[p], todo'[p] = todo[p], aim' = aim, InStep(p)' PROVE Kept(p)'
  BY <1>2 DEF Kept
<1> HIDE DEF aim
<1>3. ASSUME NEW here, NEW there, Load(p, here, there),
             <<here, there>> \in {<<"load", "put">>, <<"right", "inc">>, <<"back", "dec">>,
               <<"line", "down">>, <<"col", "rem">>, <<"up", "sub">>, <<"curs", "sel14">>}
      PROVE  Kept(p)'
  <2>1. /\ pc[p] = here /\ pc'[p] = there /\ before'[p] = before[p]
        /\ reg'[p] = crtat /\ Free /\ screen' = screen /\ crtat' = crtat /\ crtc' = crtc
    BY <1>1, <1>3 DEF Load, Printing, machine
  <2>2. aim' = aim
    BY <1>3, <2>1 DEF aim, Aim
  <2>3. InStep(p)'
    BY <1>3, <2>1 DEF InStep
  <2> QED BY <1>2, <2>1, <2>2, <2>3
<1>4. ASSUME NEW here, NEW there, NEW a \in Int, Save(p, here, a, there),
             \/ <<here, there, a>> \in {<<"inc", "test", reg[p] + 1>>, <<"dec", "test", reg[p] - 1>>,
                  <<"sub", "curs", reg[p] - COL>>, <<"home", "test", reg[p]>>,
                  <<"down", "col", reg[p] + COL>>}
      PROVE  Kept(p)'
  <2>1. /\ pc[p] = here /\ pc'[p] = there /\ before'[p] = before[p]
        /\ crtat' = a /\ Free /\ screen' = screen /\ crtc' = crtc
    BY <1>1, <1>4 DEF Save, Printing
  <2>2. /\ here \in {"inc", "dec", "sub", "down"} => reg[p] = crtat
        /\ here = "home" => reg[p] = crtat - CRem(crtat, COL)
    BY <1>00, <2>1 DEF InStep
  <2>3. aim' = aim
    <3>1. CASE here = "inc"
      <4>1. there = "test" /\ a = crtat + 1
        BY <1>4, <2>2, <3>1
      <4> QED BY <2>1, <3>1, <4>1 DEF aim, Aim
    <3>2. CASE here = "dec"
      <4>1. there = "test" /\ a = crtat - 1
        BY <1>4, <2>2, <3>2
      <4> QED BY <2>1, <3>2, <4>1 DEF aim, Aim
    <3>3. CASE here = "sub"
      <4>1. there = "curs" /\ a = crtat - COL
        BY <1>4, <2>2, <3>3
      <4> QED BY <2>1, <3>3, <4>1 DEF aim, Aim
    <3>4. CASE here = "home"
      <4>1. there = "test" /\ a = crtat - CRem(crtat, COL)
        BY <1>4, <2>2, <3>4
      <4> QED BY <2>1, <3>4, <4>1 DEF aim, Aim
    <3>5. CASE here = "down"
      <4>1. there = "col" /\ a = crtat + COL
        BY <1>4, <2>2, <3>5
      <4>2. aim = Turned(tab[p], ScrollIf(Now(screen, crtat + COL - CRem(crtat + COL, COL))))
        BY <2>1, <3>5 DEF aim, Aim
      <4>3. aim' = Turned(tab[p], ScrollIf(Now(screen, crtat' - CRem(crtat', COL))))
        BY <2>1, <4>1 DEF aim, Aim
      <4> DEFINE r == CRem(crtat + COL, COL)
      <4>4. r \in Int
        <5>1. crtat + COL \in Int
          BY <1>0, Sizes
        <5> QED BY <5>1, RemType
      <4>5. crtat' = crtat + COL
        BY <2>1, <4>1
      <4>6. crtat' - CRem(crtat', COL) = (crtat + COL) - r
        BY <4>5
      <4> HIDE DEF r
      <4>7. (crtat + COL) - r = crtat + COL - r
        BY <1>0, <4>4, Sizes
      <4> QED BY <4>2, <4>3, <4>6, <4>7 DEF r
    <3> QED BY <1>4, <3>1, <3>2, <3>3, <3>4, <3>5
  <2>4. InStep(p)'
    <3>1. there \in {"test", "curs", "col"}
      BY <1>4
    <3> QED BY <2>1, <3>1 DEF InStep
  <2> QED BY <1>2, <2>1, <2>3, <2>4
<1>5. CASE Fetch(p)
  <2> DEFINE c == Head(todo[p])
             d == IF c = "tab" THEN Blank ELSE c
             now == Now(screen, crtat)
  <2>1. /\ pc[p] = "fetch" /\ pc'[p] = Entry(c) /\ before'[p] = before[p] /\ todo[p] # <<>>
        /\ tab'[p] = (c = "tab") /\ ch'[p] = d /\ todo'[p] = Tail(todo[p])
        /\ screen' = screen /\ crtat' = crtat
    BY <1>1, <1>5 DEF Fetch, Printing, machine
  <2>2. c \in Char /\ now \in Output
    <3>1. c \in Char
      BY <1>0, <2>1
    <3> QED BY <1>0, <3>1, ShowType DEF Now
  <2>3. aim' = Kbmputc(now, c)
    <3>1. aim' = Aim(Entry(c), d, c = "tab", line'[p], screen, crtat)
      BY <2>1 DEF aim
    <3>2. CASE c = "tab"
      <4>1. Entry(c) = "load" /\ d = Blank
        BY <3>2 DEF Entry
      <4>2. aim' = Turned(TRUE, KernelShow(now, Blank))
        BY <3>1, <3>2, <4>1 DEF Aim
      <4>3. Kbmputc(now, c) = KernelTab[now] /\ KernelTab[now] = TabTurn(now, KernelTab)
        BY <2>2, <3>2, TabEnds DEF Kbmputc
      <4> HIDE DEF now
      <4> QED BY <4>2, <4>3 DEF Turned, TabTurn
    <3>3. CASE c = "nl"
      <4>1. Entry(c) = "line" /\ d = c /\ ~ (c = "tab")
        BY <3>3 DEF Entry
      <4>2. aim' = Turned(FALSE, ScrollIf(Now(screen, crtat + COL - CRem(crtat + COL, COL))))
        BY <3>1, <4>1 DEF Aim
      <4> QED BY <3>3, <4>2 DEF Turned, Kbmputc, Now
    <3>4. CASE c = "cr"
      <4>1. Entry(c) = "col" /\ d = c /\ ~ (c = "tab")
        BY <3>4 DEF Entry
      <4>2. aim' = Turned(FALSE, ScrollIf(Now(screen, crtat - CRem(crtat, COL))))
        BY <3>1, <4>1 DEF Aim
      <4> QED BY <3>4, <4>2 DEF Turned, Kbmputc, Now
    <3>5. CASE c = "bs"
      <4>1. Entry(c) = "back" /\ d = c /\ ~ (c = "tab")
        BY <3>5 DEF Entry
      <4>2. aim' = Turned(FALSE, ScrollIf(Now(screen, crtat - 1)))
        BY <3>1, <4>1 DEF Aim
      <4> QED BY <3>5, <4>2 DEF Turned, Kbmputc, Now
    <3>6. CASE c \notin {"tab", "nl", "cr", "bs"}
      <4>1. Entry(c) = "load" /\ d = c /\ ~ (c = "tab")
        BY <3>6 DEF Entry
      <4>2. aim' = Turned(FALSE, KernelShow(now, c))
        BY <3>1, <4>1 DEF Aim
      <4> QED BY <3>6, <4>2 DEF Turned, Kbmputc
    <3> QED BY <3>2, <3>3, <3>4, <3>5, <3>6
  <2>4. aim = now
    BY <2>1 DEF aim, Aim
  <2>5. Kprintf(aim, todo[p]) = Kprintf(aim', todo'[p])
    <3> HIDE DEF now, c
    <3>1. Kprintf(now, todo[p]) = Kprintf(Kbmputc(now, c), Tail(todo[p]))
      BY <1>0, <2>1, <2>2, KprintfHead DEF c
    <3> QED BY <2>1, <2>3, <2>4, <3>1
  <2>6. InStep(p)'
    <3>1. pc'[p] \in {"line", "col", "back", "load"}
      BY <2>1 DEF Entry
    <3> QED BY <3>1 DEF InStep
  <2>7. Kprintf(aim, todo[p]) = Kprintf(Now(before[p][1], before[p][2]), before[p][3])
    BY DEF Kept, aim
  <2>8. Kprintf(aim', todo'[p]) = Kprintf(Now(before'[p][1], before'[p][2]), before'[p][3])
    BY <2>1, <2>5, <2>7
  <2> QED BY <2>6, <2>8 DEF Kept, aim
<1>6. CASE End(p)
  <2>1. pc'[p] = "idle"
    BY <1>1, <1>6 DEF End
  <2> QED BY <2>1
<1>7. CASE Paint(p)
  <2>1. /\ pc[p] = "put" /\ pc'[p] = "right" /\ before'[p] = before[p]
        /\ Free /\ screen' = Store(screen, reg[p], ch[p]) /\ crtat' = crtat
    BY <1>1, <1>7 DEF Paint, Printing
  <2>2. reg[p] = crtat
    BY <1>00, <2>1 DEF InStep
  <2>3. aim' = aim
    <3>1. aim' = Turned(tab[p], ScrollIf(Now(Store(screen, crtat, ch[p]), crtat + 1)))
      BY <2>1, <2>2 DEF aim, Aim
    <3>2. aim = Turned(tab[p], KernelShow(Now(screen, crtat), ch[p]))
      BY <2>1 DEF aim, Aim
    <3>3. KernelShow(Now(screen, crtat), ch[p]) = ScrollIf(Now(Store(screen, crtat, ch[p]), crtat + 1))
      BY DEF KernelShow, Now
    <3> QED BY <3>1, <3>2, <3>3
  <2>4. InStep(p)'
    BY <2>1 DEF InStep
  <2> QED BY <1>2, <2>1, <2>3, <2>4
<1>8. CASE Column(p)
  <2>1. /\ pc[p] = "rem" /\ pc'[p] = "home" /\ before'[p] = before[p]
        /\ Free /\ screen' = screen /\ crtat' = crtat
        /\ reg'[p] = reg[p] - CRem(crtat, COL)
    BY <1>1, <1>8 DEF Column, Printing, machine
  <2>2. reg[p] = crtat
    BY <1>00, <2>1 DEF InStep
  <2>3. aim' = aim
    BY <2>1 DEF aim, Aim
  <2>4. InStep(p)'
    BY <2>1, <2>2 DEF InStep
  <2> QED BY <1>2, <2>1, <2>3, <2>4
<1>9. CASE Test(p)
  <2>1. /\ pc[p] = "test" /\ pc'[p] = IF crtat >= Limit THEN "copy" ELSE "curs"
        /\ before'[p] = before[p]
        /\ Free /\ screen' = screen /\ crtat' = crtat
    BY <1>1, <1>9 DEF Test, Printing, machine
  <2>2. aim = Turned(tab[p], ScrollIf(Now(screen, crtat)))
    BY <2>1 DEF aim, Aim
  <2>3. aim' = aim
    <3>1. CASE crtat >= Limit
      <4>1. line[p] = 0
        BY <2>1 DEF Printing
      <4>2. aim' = Turned(tab[p], Now(Rest(screen, 0), crtat - COL))
        BY <2>1, <3>1, <4>1 DEF aim, Aim
      <4>3. ScrollIf(Now(screen, crtat)) = Now(Rest(screen, 0), crtat - COL)
        <5>1. Rest(screen, 0) = Scroll(screen)
          BY <1>0, ScrollIs
        <5> QED BY <3>1, <5>1 DEF ScrollIf, Now
      <4> QED BY <2>2, <4>2, <4>3
    <3>2. CASE ~ (crtat >= Limit)
      <4>1. aim' = Turned(tab[p], Now(screen, crtat))
        BY <2>1, <3>2 DEF aim, Aim
      <4>2. ScrollIf(Now(screen, crtat)) = Now(screen, crtat)
        BY <3>2 DEF ScrollIf, Now
      <4> QED BY <2>2, <4>1, <4>2
    <3> QED BY <3>1, <3>2
  <2>4. InStep(p)'
    <3>1. pc'[p] \in {"copy", "curs"}
      BY <2>1
    <3> QED BY <3>1 DEF InStep
  <2> QED BY <1>2, <2>1, <2>3, <2>4
<1>10. CASE Copy(p)
  <2> DEFINE k == line[p]
  <2>1. /\ pc[p] = "copy" /\ pc'[p] = IF k = ROW - 1 THEN "up" ELSE "copy"
        /\ before'[p] = before[p] /\ todo'[p] = todo[p] /\ ch'[p] = ch[p] /\ tab'[p] = tab[p]
        /\ screen' = CopyRow(screen, k) /\ crtat' = crtat /\ line'[p] = (k + 1) % ROW
    BY <1>1, <1>10 DEF Copy, Printing
  <2>2. CopyRow(screen, k) \in Screens /\ Rest(CopyRow(screen, k), k + 1) = Rest(screen, k)
    BY <1>0, CopyOne
  <2>3. aim = Turned(tab[p], Now(Rest(screen, k), crtat - COL))
    BY <2>1 DEF aim, Aim
  <2>4. aim' = aim
    <3>1. CASE k = ROW - 1
      <4>1. k + 1 = ROW
        BY <3>1, Sizes
      <4>2. Rest(CopyRow(screen, k), ROW) = CopyRow(screen, k)
        BY <2>2, ScrollIs
      <4>3. screen' = Rest(screen, k)
        BY <2>1, <2>2, <4>1, <4>2
      <4>4. aim' = Turned(tab[p], Now(screen', crtat - COL))
        BY <2>1, <3>1 DEF aim, Aim
      <4> QED BY <2>3, <4>3, <4>4
    <3>2. CASE k # ROW - 1
      <4>1. (k + 1) % ROW = k + 1
        <5> DEFINE n == k + 1
        <5>1. n \in 0 .. ROW - 1 /\ n = ROW * 0 + n /\ 0 \in Int /\ ROW \in Nat \ {0}
          BY <1>0, <3>2, Sizes
        <5> HIDE DEF n
        <5>2. (ROW * 0 + n) % ROW = n
          BY <5>1, QuotientIs
        <5>3. n % ROW = n
          BY <5>1, <5>2
        <5> QED BY <5>3 DEF n
      <4>2. aim' = Turned(tab[p], Now(Rest(screen', k + 1), crtat - COL))
        BY <2>1, <3>2, <4>1 DEF aim, Aim
      <4> QED BY <2>1, <2>2, <2>3, <4>2
    <3> QED BY <3>1, <3>2
  <2>5. InStep(p)'
    <3>1. pc'[p] \in {"copy", "up"}
      BY <2>1
    <3> QED BY <3>1 DEF InStep
  <2> QED BY <1>2, <2>1, <2>4, <2>5
<1>11. CASE Select(p, "sel14", 14, "out14") \/ Select(p, "sel15", 15, "out15")
  <2>1. /\ before'[p] = before[p] /\ Free /\ screen' = screen /\ crtat' = crtat /\ reg' = reg
        /\ \/ pc[p] = "sel14" /\ pc'[p] = "out14" /\ crtc' = [crtc EXCEPT !.sel = 14]
           \/ pc[p] = "sel15" /\ pc'[p] = "out15" /\ crtc' = [crtc EXCEPT !.sel = 15]
    BY <1>1, <1>11 DEF Select
  <2>2. aim' = aim
    BY <2>1 DEF aim, Aim
  <2>3. InStep(p)'
    <3>1. CASE pc[p] = "sel14"
      <4>1. pc'[p] = "out14" /\ crtc'.sel = 14 /\ reg[p] = crtat
        BY <1>0, <1>00, <2>1, <3>1 DEF InStep
      <4> QED BY <2>1, <4>1 DEF InStep
    <3>2. CASE pc[p] = "sel15"
      <4>1. /\ pc'[p] = "out15" /\ crtc'.sel = 15 /\ reg[p] = crtat
            /\ crtc'.r14 = crtat \div BYTE
        BY <1>0, <1>00, <2>1, <3>2 DEF InStep
      <4> QED BY <2>1, <4>1 DEF InStep
    <3> QED BY <2>1, <3>1, <3>2
  <2> QED BY <1>2, <2>1, <2>2, <2>3
<1>12. CASE Out(p, "out14", reg[p] \div BYTE, "sel15")
  <2>1. /\ before'[p] = before[p] /\ Free /\ screen' = screen /\ crtat' = crtat /\ reg' = reg
        /\ pc[p] = "out14" /\ pc'[p] = "sel15"
    BY <1>1, <1>12 DEF Out
  <2>2. crtc.sel = 14 /\ reg[p] = crtat
    BY <1>00, <2>1 DEF InStep
  <2>3. crtc'.r14 = crtat \div BYTE
    BY <1>0, <1>12, <2>2 DEF Out
  <2>4. aim' = aim
    BY <2>1 DEF aim, Aim
  <2>5. InStep(p)'
    BY <2>1, <2>2, <2>3 DEF InStep
  <2> QED BY <1>2, <2>1, <2>4, <2>5
<1>13. CASE Out(p, "out15", reg[p] % BYTE, "ret")
  <2>1. /\ before'[p] = before[p] /\ Free /\ screen' = screen /\ crtat' = crtat /\ reg' = reg
        /\ pc[p] = "out15" /\ pc'[p] = "ret"
    BY <1>1, <1>13 DEF Out
  <2>2. crtc.sel = 15 /\ reg[p] = crtat /\ crtc.r14 = crtat \div BYTE
    BY <1>00, <2>1 DEF InStep
  <2>3. crtc'.r15 = crtat % BYTE /\ crtc'.r14 = crtat \div BYTE
    BY <1>0, <1>13, <2>2 DEF Out
  <2>4. aim' = aim
    BY <2>1 DEF aim, Aim
  <2>5. InStep(p)'
    BY <2>1, <2>2, <2>3 DEF InStep
  <2> QED BY <1>2, <2>1, <2>4, <2>5
<1>14. CASE Return(p)
  <2> DEFINE more == tab[p] /\ crtat % TAB # 0
             now == Now(screen, crtat)
  <2>1. /\ pc[p] = "ret" /\ before'[p] = before[p] /\ todo' = todo /\ ch' = ch /\ line' = line
        /\ pc'[p] = IF more THEN "load" ELSE IF tab[p] THEN "test" ELSE "fetch"
        /\ tab'[p] = more /\ screen' = screen /\ crtat' = crtat /\ crtc' = crtc
    BY <1>1, <1>14 DEF Return, Printing, machine
  <2>2. crtc.r14 = crtat \div BYTE /\ crtc.r15 = crtat % BYTE
    BY <1>00, <2>1 DEF InStep
  <2>3. HwPos(crtc) = crtat
    BY <1>0, <2>2, CursorType DEF HwPos
  <2>4. aim = Turned(tab[p], now)
    BY <2>1 DEF aim, Aim
  <2>5. now \in Output /\ now.at = crtat
    BY <1>0, ShowType DEF Now
  <2>6. aim' = aim
    <3>1. CASE more
      <4>1. ch[p] = Blank
        BY <3>1 DEF Printing
      <4>2. aim' = Turned(TRUE, KernelShow(now, Blank))
        BY <2>1, <3>1, <4>1 DEF aim, Aim
      <4>3. aim = KernelTab[now] /\ KernelTab[now] = TabTurn(now, KernelTab)
        BY <2>4, <2>5, <3>1, TabEnds DEF Turned
      <4> HIDE DEF now
      <4> QED BY <4>2, <4>3 DEF Turned, TabTurn
    <3>2. CASE ~more /\ tab[p]
      <4>1. aim' = Turned(FALSE, ScrollIf(now))
        BY <2>1, <3>2 DEF aim, Aim
      <4>2. aim = ScrollIf(now)
        BY <2>4, <2>5, <3>2 DEF Turned
      <4> QED BY <4>1, <4>2 DEF Turned
    <3>3. CASE ~tab[p]
      <4>1. aim' = now
        BY <2>1, <3>3 DEF aim, Aim
      <4>2. aim = now
        BY <2>4, <3>3 DEF Turned
      <4> QED BY <4>1, <4>2
    <3> QED BY <3>1, <3>2, <3>3
  <2>7. InStep(p)'
    <3>1. pc'[p] \in {"load", "test", "fetch"} /\ HwPos(crtc') = crtat'
      BY <2>1, <2>3
    <3> QED BY <3>1 DEF InStep
  <2> QED BY <1>2, <2>1, <2>6, <2>7
<1>15. /\ Load(p, "load", "put") => Kept(p)'
       /\ Load(p, "right", "inc") => Kept(p)'
       /\ Load(p, "back", "dec") => Kept(p)'
       /\ Load(p, "line", "down") => Kept(p)'
       /\ Load(p, "col", "rem") => Kept(p)'
       /\ Load(p, "up", "sub") => Kept(p)'
       /\ Load(p, "curs", "sel14") => Kept(p)'
  BY <1>3
<1>16. reg[p] + 1 \in Int /\ reg[p] - 1 \in Int /\ reg[p] + COL \in Int /\ reg[p] - COL \in Int
  BY <1>0, Sizes
<1>17. /\ Save(p, "inc", reg[p] + 1, "test") => Kept(p)'
       /\ Save(p, "dec", reg[p] - 1, "test") => Kept(p)'
       /\ Save(p, "down", reg[p] + COL, "col") => Kept(p)'
       /\ Save(p, "home", reg[p], "test") => Kept(p)'
       /\ Save(p, "sub", reg[p] - COL, "curs") => Kept(p)'
  BY <1>0, <1>4, <1>16
<1> QED BY <1>5, <1>6, <1>7, <1>8, <1>9, <1>10, <1>11, <1>12, <1>13, <1>14, <1>15, <1>17 DEF Step

\* Every step of kprintf() but the last goes from one of its places to another.
LEMMA StepAt ==
  ASSUME NEW p \in Printer, Step(p)
  PROVE  End(p) \/ \E here \in Places \ {"idle"}, there \in Places \ {"idle"} : At(p, here, there)
<1> DEFINE Moves == \E here \in Places \ {"idle"}, there \in Places \ {"idle"} : At(p, here, there)
<1>1. Step(p) => End(p) \/ Moves
  <2> USE DEF Places
  <2>1. Fetch(p) => Moves
    BY DEF Fetch, Entry
  <2>2. Paint(p) \/ Column(p) => Moves
    BY DEF Paint, Column
  <2>3. Test(p) \/ Copy(p) => Moves
    BY DEF Test, Copy
  <2>4. Return(p) => Moves
    BY DEF Return
  <2>5. ASSUME NEW here \in Places \ {"idle"}, NEW there \in Places \ {"idle"}
        PROVE  /\ Load(p, here, there) => Moves
               /\ \A a : Save(p, here, a, there) => Moves
               /\ \A a : Select(p, here, a, there) => Moves
               /\ \A a : Out(p, here, a, there) => Moves
    <3> HIDE DEF Places
    <3> QED BY DEF Load, Save, Select, Out
  <2>6. {"load", "put", "right", "inc", "back", "dec", "line", "down", "col",
         "rem", "home", "test", "up", "sub", "curs", "sel14", "out14", "sel15", "out15",
         "ret"} \subseteq Places \ {"idle"}
    OBVIOUS
  <2> HIDE DEF Places, Moves
  <2>7. /\ Load(p, "load", "put") => Moves
        /\ Load(p, "right", "inc") => Moves
        /\ Load(p, "back", "dec") => Moves
        /\ Load(p, "line", "down") => Moves
        /\ Load(p, "col", "rem") => Moves
        /\ Load(p, "up", "sub") => Moves
        /\ Load(p, "curs", "sel14") => Moves
    BY <2>5, <2>6
  <2>8. /\ Save(p, "inc", reg[p] + 1, "test") => Moves
        /\ Save(p, "dec", reg[p] - 1, "test") => Moves
        /\ Save(p, "down", reg[p] + COL, "col") => Moves
        /\ Save(p, "home", reg[p], "test") => Moves
        /\ Save(p, "sub", reg[p] - COL, "curs") => Moves
    BY <2>5, <2>6
  <2>9. /\ Select(p, "sel14", 14, "out14") => Moves
        /\ Select(p, "sel15", 15, "out15") => Moves
        /\ Out(p, "out14", reg[p] \div BYTE, "sel15") => Moves
        /\ Out(p, "out15", reg[p] % BYTE, "ret") => Moves
    BY <2>5, <2>6
  <2> QED BY <2>1, <2>2, <2>3, <2>4, <2>7, <2>8, <2>9 DEF Step
<1> QED BY <1>1

\* A step of a program disturbs the others, and only its own last step ends it.
LEMMA StepDisturbs ==
  ASSUME Printing, NEW p \in Printer, Step(p)
  PROVE  /\ pc[p] # "idle" /\ before'[p] = before[p]
         /\ pc'[p] = "idle" => End(p)
         /\ \A q \in Printer \ {p} : pc'[q] = pc[q] /\ before'[q] = <<>>
<1>1. ASSUME NEW here, NEW there, At(p, here, there)
      PROVE  /\ pc[p] = here /\ pc'[p] = there /\ before'[p] = before[p]
             /\ \A q \in Printer \ {p} : pc'[q] = pc[q] /\ before'[q] = <<>>
  BY <1>1 DEF At, Printing
<1>2. CASE End(p)
  BY <1>1, <1>2 DEF End
<1>3. CASE ~End(p)
  <2>1. PICK here \in Places \ {"idle"}, there \in Places \ {"idle"} : At(p, here, there)
    BY <1>3, StepAt
  <2>2. here # "idle" /\ there # "idle"
    OBVIOUS
  <2> QED BY <1>1, <2>1, <2>2
<1> QED BY <1>2, <1>3

\* It holds at first,
LEMMA UndisturbedInit == Init => Undisturbed
<1> SUFFICES ASSUME Init PROVE Undisturbed
  OBVIOUS
<1>1. \A p \in Printer : pc[p] = "idle"
  BY DEF Init
<1> QED BY <1>1, InitPrinting DEF Undisturbed

\* every step keeps it,
LEMMA UndisturbedNext == Undisturbed /\ [Next]_vars => Undisturbed'
<1> SUFFICES ASSUME Undisturbed, [Next]_vars PROVE Undisturbed'
  OBVIOUS
<1>1. Printing /\ Printing'
  BY NextPrinting DEF Undisturbed
<1> SUFFICES ASSUME NEW p \in Printer, pc'[p] # "idle", before'[p] # <<>> PROVE Kept(p)'
  BY <1>1 DEF Undisturbed
<1>2. ASSUME NEW s \in KernelText, KernelPrint(s) PROVE FALSE
  BY <1>2 DEF KernelPrint
<1>3. ASSUME NEW q \in Printer, NEW s \in UserText, Begin(q, s) PROVE Kept(p)'
  <2>1. q = p
    BY <1>3 DEF Begin
  <2>2. /\ pc'[p] = "fetch" /\ todo'[p] = s /\ before'[p] = <<screen, crtat, s>>
        /\ screen' = screen /\ crtat' = crtat
    BY <1>1, <1>3, <2>1 DEF Begin, Printing, machine
  <2>3. before'[p][1] = screen /\ before'[p][2] = crtat /\ before'[p][3] = s
    BY <2>2
  <2>4. Aim(pc'[p], ch'[p], tab'[p], line'[p], screen', crtat') = Now(screen, crtat)
    BY <2>2 DEF Aim
  <2>5. InStep(p)'
    BY <2>2, <2>3 DEF InStep
  <2>6. Kprintf(Aim(pc'[p], ch'[p], tab'[p], line'[p], screen', crtat'), todo'[p])
          = Kprintf(Now(before'[p][1], before'[p][2]), before'[p][3])
    BY <2>2, <2>3, <2>4
  <2> QED BY <2>5, <2>6 DEF Kept
<1>4. ASSUME NEW q \in Printer, Step(q) PROVE Kept(p)'
  <2>1. q = p
    BY <1>1, <1>4, StepDisturbs
  <2>2. pc[p] # "idle" /\ before[p] # <<>>
    BY <1>1, <1>4, <2>1, StepDisturbs
  <2>3. Kept(p)
    BY <2>2 DEF Undisturbed
  <2> QED BY <1>1, <1>4, <2>1, <2>2, <2>3, KeptStep
<1>5. ASSUME UNCHANGED vars PROVE Kept(p)'
  <2>1. /\ pc' = pc /\ before' = before /\ todo' = todo /\ ch' = ch /\ tab' = tab
        /\ reg' = reg /\ line' = line /\ screen' = screen /\ crtat' = crtat /\ crtc' = crtc
    BY <1>5 DEF vars, machine, local
  <2>2. Kept(p)
    BY <2>1 DEF Undisturbed
  <2> QED BY <2>1, <2>2 DEF Kept, InStep
<1> QED BY <1>2, <1>3, <1>4, <1>5 DEF Next

\* and so it holds in every state.
LEMMA UndisturbedAlways == Spec => []Undisturbed
BY UndisturbedInit, UndisturbedNext, PTL DEF Spec

\* TypeOK of Console: screen, cursor and the variables of every kprintf() keep
\* their types, for any screen, any texts and any races for crtat.
THEOREM ConsoleTypesHold == Spec => []TypeOK
<1>1. Undisturbed => TypeOK
  <2> SUFFICES ASSUME Undisturbed PROVE TypeOK
    OBVIOUS
  <2>1. screen \in [Cell -> Char] /\ crtat \in Int /\ crtc.sel \in {14, 15} /\ prints \in 0 .. MaxPrints
    BY DEF Undisturbed, Printing, Screens
  <2>2. ASSUME NEW p \in Printer
        PROVE  /\ pc[p] = "idle" => todo[p] = <<>> /\ ~tab[p]
               /\ reg[p] \in Int /\ line[p] \in 0 .. ROW - 1
    BY DEF Undisturbed, Printing
  <2> QED BY <2>1, <2>2 DEF TypeOK
<1> QED BY <1>1, UndisturbedAlways, PTL

\* Who ends a text does so in the step that finds no character left.
LEMMA EndIs ==
  ASSUME Undisturbed, [Next]_vars, NEW p \in Printer, pc[p] # "idle", pc'[p] = "idle",
         before[p] # <<>>
  PROVE  /\ Now(screen', crtat') = Kprintf(Now(before[p][1], before[p][2]), before[p][3])
         /\ before[p][3] = <<>> \/ HwPos(crtc') = crtat'
<1>0. Printing
  BY DEF Undisturbed
<1>1. End(p)
  <2>1. ASSUME NEW s \in KernelText, KernelPrint(s) PROVE FALSE
    BY <2>1 DEF KernelPrint, local
  <2>2. ASSUME NEW q \in Printer, NEW s \in UserText, Begin(q, s) PROVE FALSE
    BY <1>0, <2>2 DEF Begin, Printing
  <2>3. ASSUME NEW q \in Printer, Step(q) PROVE End(p)
    <3>1. q = p
      BY <1>0, <2>3, StepDisturbs
    <3> QED BY <1>0, <2>3, <3>1, StepDisturbs
  <2>4. ASSUME UNCHANGED vars PROVE FALSE
    BY <2>4 DEF vars, local
  <2> QED BY <2>1, <2>2, <2>3, <2>4 DEF Next
<1>2. /\ pc[p] = "fetch" /\ todo[p] = <<>>
      /\ screen' = screen /\ crtat' = crtat /\ crtc' = crtc
  BY <1>1 DEF End, At, machine
<1>3. InStep(p) /\ Kprintf(Now(screen, crtat), todo[p])
                    = Kprintf(Now(before[p][1], before[p][2]), before[p][3])
  <2>1. Aim(pc[p], ch[p], tab[p], line[p], screen, crtat) = Now(screen, crtat)
    BY <1>2 DEF Aim
  <2> QED BY <2>1 DEF Undisturbed, Kept
<1>4. Kprintf(Now(screen, crtat), todo[p]) = Now(screen, crtat)
  <2>1. Now(screen, crtat) \in Output /\ todo[p] \in Seq(Char)
    BY <1>0, ShowType DEF Printing, Now
  <2> QED BY <1>2, <2>1, KprintfHead
<1>5. before[p][3] = <<>> \/ HwPos(crtc') = crtat'
  BY <1>2, <1>3 DEF InStep
<1> QED BY <1>2, <1>3, <1>4, <1>5

\* A program that nobody interrupts with another text leaves exactly the screen
\* and the cursor that the kernel would have left, which prints in one piece.  The
\* cursor may have been carried beyond the screen before, and the text may have
\* any characters (kprintf.c, lines 94-173).
THEOREM UndisturbedIsOnePiece ==
  Spec => [][\A p \in Printer :
               pc[p] # "idle" /\ pc'[p] = "idle" /\ before[p] # <<>> =>
                 Now(screen', crtat')
                   = Kprintf(Now(before[p][1], before[p][2]), before[p][3])]_vars
<1>1. Undisturbed /\ [Next]_vars =>
        [\A p \in Printer :
           pc[p] # "idle" /\ pc'[p] = "idle" /\ before[p] # <<>> =>
             Now(screen', crtat')
               = Kprintf(Now(before[p][1], before[p][2]), before[p][3])]_vars
  BY EndIs
<1> QED BY <1>1, UndisturbedAlways, PTL DEF Spec
-----------------------------------------------------------------------------
(* The kernel and the terminal.                                              *)

\* The page of a screen, and the terminal with its cursor in row y and column x.
PageOf(scr) == [r \in 1 .. ROW |-> [c \in 1 .. COL |-> scr[(r - 1) * COL + c - 1]]]
View(scr, y, x) == [page |-> PageOf(scr), row |-> y + 1, col |-> x + 1]

\* The cell of a row and a column of the page.
LEMMA CellOn ==
  ASSUME NEW r \in 1 .. ROW, NEW c \in 1 .. COL
  PROVE  LET a == (r - 1) * COL + c - 1
         IN  /\ a \in Cell /\ a \in Int /\ a = COL * (r - 1) + (c - 1)
             /\ a \div COL = r - 1 /\ a % COL = c - 1
<1> DEFINE a == (r - 1) * COL + c - 1
<1>1. r - 1 \in 0 .. ROW - 1 /\ c - 1 \in 0 .. COL - 1
  BY Sizes
<1>2. a = COL * (r - 1) + (c - 1)
  <2>1. (r - 1) * COL = COL * (r - 1) /\ COL * (r - 1) \in Int /\ c \in Int
    BY <1>1, Sizes
  <2> QED BY <2>1
<1> HIDE DEF a
<1>3. /\ COL * (r - 1) + (c - 1) \in Cell /\ COL * (r - 1) + (c - 1) \in Int
      /\ (COL * (r - 1) + (c - 1)) \div COL = r - 1
      /\ (COL * (r - 1) + (c - 1)) % COL = c - 1
  BY <1>1, CellOf
<1> QED BY <1>2, <1>3 DEF a

\* A cell as row and column.
LEMMA ViewOf ==
  ASSUME NEW scr \in Screens, NEW y \in 0 .. ROW - 1, NEW x \in 0 .. COL - 1
  PROVE  /\ FromCells(scr, COL * y + x) = View(scr, y, x)
         /\ View(scr, y, x) \in Term
<1>1. (COL * y + x) \div COL = y /\ (COL * y + x) % COL = x
  BY CellOf
<1>2. PageOf(scr) \in Page
  <2> SUFFICES ASSUME NEW r \in 1 .. ROW, NEW c \in 1 .. COL
               PROVE  scr[(r - 1) * COL + c - 1] \in Char
    BY DEF PageOf, Page
  <2>1. (r - 1) * COL + c - 1 \in Cell
    BY CellOn
  <2> QED BY <2>1 DEF Screens
<1>3. y + 1 \in Int /\ x + 1 \in 1 .. COL
  BY Sizes
<1> QED BY <1>1, <1>2, <1>3 DEF FromCells, View, PageOf, Term

\* A scroll moves the page up.
LEMMA DownView ==
  ASSUME NEW scr \in Screens, NEW y \in 0 .. ROW - 1, NEW x \in 0 .. COL - 1
  PROVE  /\ y < ROW - 1 => Down(View(scr, y, x)) = View(scr, y + 1, x)
         /\ y = ROW - 1 => Down(View(scr, y, x)) = View(Scroll(scr), y, x)
<1>1. CASE y < ROW - 1
  <2>1. View(scr, y, x).row < ROW /\ y # ROW - 1
    BY <1>1, Sizes DEF View
  <2> QED BY <1>1, <2>1 DEF Down, View
<1>2. CASE y = ROW - 1
  <2> DEFINE t == View(scr, y, x)
             up == [r \in 1 .. ROW |-> IF r < ROW THEN t.page[r + 1] ELSE BlankRow]
             new == Scroll(scr)
  <2>1. ~ (t.row < ROW) /\ t.page = PageOf(scr) /\ ~ (y < ROW - 1)
    BY <1>2, Sizes DEF View
  <2>2. new = Scrolled(scr)
    BY ScrollIs
  <2>3. PageOf(new) = up
    <3>1. ASSUME NEW r \in 1 .. ROW, NEW c \in 1 .. COL
          PROVE  new[(r - 1) * COL + c - 1]
                   = IF r < ROW THEN t.page[r + 1][c] ELSE BlankRow[c]
      <4> DEFINE a == (r - 1) * COL + c - 1
                 b == ((r + 1) - 1) * COL + c - 1
      <4>1. /\ a \in Cell /\ a \in Int /\ a = COL * (r - 1) + (c - 1) /\ a \div COL = r - 1
        BY CellOn
      <4>2. new[a] = IF r - 1 = ROW - 1 THEN Blank ELSE scr[a + COL]
        <5> HIDE DEF a, new
        <5> QED BY <2>2, <4>1 DEF Scrolled
      <4>3. CASE r < ROW
        <5>1. r + 1 \in 1 .. ROW /\ r - 1 # ROW - 1
          BY <4>3, Sizes
        <5>2. t.page[r + 1][c] = scr[b]
          BY <2>1, <5>1 DEF PageOf
        <5>3. b = COL * ((r + 1) - 1) + (c - 1)
          BY <5>1, CellOn
        <5>4. COL * ((r + 1) - 1) = COL * (r - 1) + COL
          <6>1. r - 1 \in Int /\ (r + 1) - 1 = (r - 1) + 1
            OBVIOUS
          <6>2. COL * ((r - 1) + 1) = COL * (r - 1) + COL
            BY <6>1, Sizes, Times
          <6> QED BY <6>1, <6>2
        <5>5. b = a + COL
          <6>1. COL * (r - 1) \in Int /\ c - 1 \in Int /\ COL \in Int
            BY Sizes
          <6> HIDE DEF a, b
          <6> QED BY <4>1, <5>3, <5>4, <6>1
        <5> HIDE DEF a, b, new, t
        <5>6. new[a] = scr[a + COL]
          BY <4>2, <5>1
        <5>7. new[a] = t.page[r + 1][c]
          BY <5>2, <5>5, <5>6
        <5> QED BY <4>3, <5>7 DEF a
      <4>4. CASE ~ (r < ROW)
        <5>1. r - 1 = ROW - 1
          BY <4>4, Sizes
        <5>2. BlankRow[c] = Blank
          BY DEF BlankRow
        <5> HIDE DEF new, t
        <5>3. new[a] = BlankRow[c]
          BY <4>2, <5>1, <5>2
        <5> QED BY <4>4, <5>3 DEF a
      <4> QED BY <4>3, <4>4
    <3>2. ASSUME NEW r \in 1 .. ROW
          PROVE  [c \in 1 .. COL |-> new[(r - 1) * COL + c - 1]]
                   = IF r < ROW THEN t.page[r + 1] ELSE BlankRow
      <4>1. CASE r < ROW
        <5>1. r + 1 \in 1 .. ROW
          BY <4>1, Sizes
        <5>2. t.page[r + 1] = [c \in 1 .. COL |-> t.page[r + 1][c]]
          BY <2>1, <5>1 DEF PageOf
        <5> HIDE DEF new, t
        <5> QED BY <3>1, <4>1, <5>2
      <4>2. CASE ~ (r < ROW)
        <5>1. BlankRow = [c \in 1 .. COL |-> BlankRow[c]]
          BY DEF BlankRow
        <5> HIDE DEF new, t
        <5> QED BY <3>1, <4>2, <5>1
      <4> QED BY <4>1, <4>2
    <3> HIDE DEF new, t
    <3> QED BY <3>2 DEF PageOf
  <2>4. Down(t) = [t EXCEPT !.page = up]
    <3> HIDE DEF t
    <3> QED BY <2>1 DEF Down
  <2>5. Down(t) = View(new, y, x)
    <3> HIDE DEF up, new
    <3> QED BY <2>3, <2>4 DEF View
  <2> QED BY <1>2, <2>1, <2>5
<1>3. y < ROW - 1 \/ y = ROW - 1
  BY Sizes
<1> QED BY <1>1, <1>2, <1>3

\* A position on the screen stays where it is.
LEMMA Stays ==
  ASSUME NEW t \in Output, t.at \in Cell
  PROVE  ScrollIf(t) = t
<1>1. t.at < Limit /\ t.at \in Int
  BY CellAt
<1> QED BY <1>1, Sizes DEF ScrollIf

\* A position one row down, which may be below the screen.
LEMMA Falls ==
  ASSUME NEW scr \in Screens, NEW y \in 1 .. ROW, NEW x \in 0 .. COL - 1
  PROVE  LET u == ScrollIf(Now(scr, COL * y + x))
         IN  /\ u \in Output /\ u.at \in Cell /\ u.at > 0
             /\ FromCells(u.scr, u.at) = Down(View(scr, y - 1, x))
<1> DEFINE a == COL * y + x
           u == ScrollIf(Now(scr, a))
<1>1. y - 1 \in 0 .. ROW - 1 /\ (y - 1) + 1 = y /\ y \in Int /\ x \in Int
  BY Sizes
<1>2. COL * y \in Int /\ COL * (y - 1) = COL * y - COL /\ COL * y >= COL
  <2>1. COL * 1 <= COL * y
    BY <1>1, Sizes, Times
  <2>2. COL * y \in Int /\ COL * (y - 1) = COL * y - COL /\ COL * 1 = COL
    BY <1>1, Sizes, Times
  <2> QED BY <2>1, <2>2
<1>3. a \in Int /\ a >= COL /\ a > 0
  BY <1>1, <1>2, Sizes
<1>4. Now(scr, a) \in Output /\ u \in Output
  <2>1. Now(scr, a) \in Output
    BY <1>3, ShowType DEF Now
  <2> QED BY <2>1, ShowType
<1>5. CASE y < ROW
  <2>1. y \in 0 .. ROW - 1 /\ y - 1 < ROW - 1
    BY <1>1, <1>5, Sizes
  <2>2. a \in Cell
    BY <2>1, CellOf
  <2>3. u = Now(scr, a)
    <3> HIDE DEF a
    <3>1. Now(scr, a).at = a
      BY DEF Now
    <3> QED BY <1>4, <2>2, <3>1, Stays
  <2>4. u.scr = scr /\ u.at = a
    BY <2>3 DEF Now
  <2>5. FromCells(scr, a) = View(scr, y, x)
    BY <2>1, ViewOf
  <2>6. Down(View(scr, y - 1, x)) = View(scr, y, x)
    BY <1>1, <2>1, DownView
  <2> HIDE DEF u, a
  <2> QED BY <1>3, <1>4, <2>2, <2>4, <2>5, <2>6 DEF u, a
<1>6. CASE y = ROW
  <2>1. y - 1 = ROW - 1
    BY <1>6
  <2>2. a >= Limit
    BY <1>1, <1>2, <1>6, Sizes DEF Limit
  <2>3. u = [scr |-> Scroll(scr), at |-> a - COL]
    BY <2>2 DEF ScrollIf, Now
  <2>4. a - COL = COL * (y - 1) + x
    BY <1>1, <1>2, Sizes
  <2>5. a - COL \in Cell
    BY <1>1, <2>4, CellOf
  <2>6. a - COL > 0
    <3>1. COL * 1 <= COL * (y - 1) /\ COL * 1 = COL /\ COL * (y - 1) \in Int
      <4>1. 1 <= y - 1 /\ y - 1 \in Int
        BY <1>1, <1>6, Sizes
      <4> QED BY <4>1, Sizes, Times
    <3> QED BY <1>1, <2>4, <3>1, Sizes
  <2>7. Scroll(scr) \in Screens
    BY ScrollIs
  <2>8. FromCells(Scroll(scr), COL * (y - 1) + x) = View(Scroll(scr), y - 1, x)
    BY <1>1, <2>7, ViewOf
  <2>9. Down(View(scr, y - 1, x)) = View(Scroll(scr), y - 1, x)
    BY <1>1, <2>1, DownView
  <2>10. u.scr = Scroll(scr) /\ u.at = a - COL
    BY <2>3
  <2> HIDE DEF u, a
  <2> QED BY <1>4, <2>4, <2>5, <2>6, <2>8, <2>9, <2>10 DEF u, a
<1>7. y < ROW \/ y = ROW
  BY Sizes
<1> QED BY <1>5, <1>6, <1>7

\* A page with c in some columns of a row.
Written(pg, y, cols, c) == ReplaceAt(pg, y, Write(pg[y], cols, c))

\* Characters written into a row of a page.
LEMMA WriteIs ==
  ASSUME NEW pg \in Page, NEW y \in 1 .. ROW, NEW cols, NEW c \in Char
  PROVE  /\ Written(pg, y, cols, c) \in Page
         /\ \A r \in 1 .. ROW, k \in 1 .. COL :
              Written(pg, y, cols, c)[r][k] = IF r = y /\ k \in cols THEN c ELSE pg[r][k]
<1> DEFINE w == Write(pg[y], cols, c)
<1>1. \A r \in 1 .. ROW : pg[r] \in [1 .. COL -> Char]
  BY DEF Page
<1>2. w \in [1 .. COL -> Char] /\ \A k \in 1 .. COL : w[k] = IF k \in cols THEN c ELSE pg[y][k]
  BY <1>1 DEF Write
<1> HIDE DEF w
<1>3. Written(pg, y, cols, c) = [pg EXCEPT ![y] = w]
  BY DEF Written, ReplaceAt, w
<1>4. [pg EXCEPT ![y] = w] \in Page
  BY <1>2 DEF Page
<1>5. \A r \in 1 .. ROW : [pg EXCEPT ![y] = w][r] = IF r = y THEN w ELSE pg[r]
  BY DEF Page
<1> QED BY <1>2, <1>3, <1>4, <1>5

\* Pages with the same characters are the same.
LEMMA SamePage ==
  ASSUME NEW pg \in Page, NEW qg \in Page,
         \A r \in 1 .. ROW, k \in 1 .. COL : pg[r][k] = qg[r][k]
  PROVE  pg = qg
<1>1. ASSUME NEW r \in 1 .. ROW PROVE pg[r] = qg[r]
  <2>1. pg[r] \in [1 .. COL -> Char] /\ qg[r] \in [1 .. COL -> Char]
    BY DEF Page
  <2>2. pg[r] = [k \in 1 .. COL |-> pg[r][k]] /\ qg[r] = [k \in 1 .. COL |-> qg[r][k]]
    BY <2>1
  <2>3. [k \in 1 .. COL |-> pg[r][k]] = [k \in 1 .. COL |-> qg[r][k]]
    OBVIOUS
  <2> QED BY <2>2, <2>3, Zenon
<1>2. pg = [r \in 1 .. ROW |-> pg[r]] /\ qg = [r \in 1 .. ROW |-> qg[r]]
  BY DEF Page
<1>3. [r \in 1 .. ROW |-> pg[r]] = [r \in 1 .. ROW |-> qg[r]]
  BY <1>1
<1> QED BY <1>2, <1>3, Zenon

\* A character stored in a cell is one written into the page.
LEMMA StoreView ==
  ASSUME NEW scr \in Screens, NEW y \in 0 .. ROW - 1, NEW x \in 0 .. COL - 1, NEW c \in Char
  PROVE  LET new == Store(scr, COL * y + x, c)
         IN  /\ new \in Screens /\ PageOf(scr) \in Page /\ y + 1 \in 1 .. ROW
             /\ PageOf(new) = Written(PageOf(scr), y + 1, {x + 1}, c)
<1> DEFINE a == COL * y + x
           new == Store(scr, a, c)
           old == PageOf(scr)
<1>1. a \in Cell /\ a \div COL = y /\ a % COL = x
  BY CellOf
<1>2. new = [scr EXCEPT ![a] = c]
  BY <1>1 DEF Store
<1> HIDE DEF a
<1>3. new \in Screens
  BY <1>1, <1>2 DEF Screens
<1> HIDE DEF new
<1>4. ASSUME NEW r \in 1 .. ROW, NEW k \in 1 .. COL
      PROVE  PageOf(new)[r][k] = IF r = y + 1 /\ k \in {x + 1} THEN c ELSE old[r][k]
  <2> DEFINE b == (r - 1) * COL + k - 1
  <2>1. /\ b \in Cell /\ b \div COL = r - 1 /\ b % COL = k - 1
    BY CellOn
  <2>2. old[r][k] = scr[b] /\ PageOf(new)[r][k] = new[b]
    BY DEF PageOf
  <2>3. b = a <=> r = y + 1 /\ k = x + 1
    <3>1. b = a => r - 1 = y /\ k - 1 = x
      BY <1>1, <2>1
    <3>2. r = y + 1 /\ k = x + 1 => b = COL * y + x
      <4>1. b = COL * (r - 1) + (k - 1)
        BY CellOn
      <4> QED BY <4>1
    <3> HIDE DEF b
    <3> QED BY <3>1, <3>2 DEF a
  <2> HIDE DEF b, old
  <2>4. new[b] = IF b = a THEN c ELSE scr[b]
    BY <1>2, <2>1 DEF Screens
  <2> QED BY <2>2, <2>3, <2>4
<1>5. old \in Page /\ PageOf(new) \in Page /\ y + 1 \in 1 .. ROW
  <2>1. View(scr, y, x) \in Term /\ View(new, y, x) \in Term
    BY <1>3, ViewOf
  <2> QED BY <2>1, Sizes DEF Term, View
<1> HIDE DEF old
<1> DEFINE row == y + 1
           cols == {x + 1}
           out == Written(old, row, cols, c)
<1>6. row \in 1 .. ROW /\ \A r \in 1 .. ROW, k \in 1 .. COL :
        PageOf(new)[r][k] = IF r = row /\ k \in cols THEN c ELSE old[r][k]
  BY <1>4, <1>5
<1> HIDE DEF row, cols
<1>7. out \in Page /\ \A r \in 1 .. ROW, k \in 1 .. COL :
        out[r][k] = IF r = row /\ k \in cols THEN c ELSE old[r][k]
  BY <1>5, <1>6, WriteIs
<1> HIDE DEF out
<1>8. PageOf(new) = out
  BY <1>5, <1>6, <1>7, SamePage
<1> QED BY <1>3, <1>5, <1>8 DEF new, a, old, row, cols, out

\* What a terminal fills in.
LEMMA FillIs ==
  ASSUME NEW s, NEW y, NEW z, NEW k, NEW c
  PROVE  Fill(View(s, y, z), k, c)
           = Right([page |-> Written(PageOf(s), y + 1, z + 1 .. k - 1, c),
                    row |-> y + 1, col |-> k - 1])
<1> DEFINE t == View(s, y, z)
<1>1. t.row = y + 1 /\ t.col = z + 1 /\ t.page = PageOf(s)
  BY DEF View
<1>2. ASSUME NEW d, NEW pg
      PROVE  [t EXCEPT !.col = d, !.page = pg] = [page |-> pg, row |-> y + 1, col |-> d]
  <2>1. [t EXCEPT !.col = d] = [page |-> PageOf(s), row |-> y + 1, col |-> d]
    BY DEF View
  <2>2. [[page |-> PageOf(s), row |-> y + 1, col |-> d] EXCEPT !.page = pg]
          = [page |-> pg, row |-> y + 1, col |-> d]
    OBVIOUS
  <2> QED BY <2>1, <2>2
<1> HIDE DEF t
<1>3. Fill(t, k, c)
        = Right([t EXCEPT !.col = k - 1, !.page = Written(t.page, t.row, t.col .. k - 1, c)])
  BY DEF Fill, Written
<1>4. Fill(t, k, c)
        = Right([t EXCEPT !.col = k - 1, !.page = Written(PageOf(s), y + 1, z + 1 .. k - 1, c)])
  BY <1>1, <1>3
<1>5. Fill(t, k, c)
        = Right([page |-> Written(PageOf(s), y + 1, z + 1 .. k - 1, c),
                 row |-> y + 1, col |-> k - 1])
  BY <1>2, <1>4
<1> QED BY <1>5 DEF t

\* A character that a terminal shows.
LEMMA ShowIs ==
  ASSUME NEW scr \in Screens, NEW y \in 0 .. ROW - 1, NEW x \in 0 .. COL - 1, NEW c \in Char
  PROVE  Show(View(scr, y, x), c) = Right(View(Store(scr, COL * y + x, c), y, x))
<1> DEFINE new == Store(scr, COL * y + x, c)
<1>1. PageOf(new) = Written(PageOf(scr), y + 1, {x + 1}, c)
  BY StoreView
<1> HIDE DEF new
<1>2. x + 1 .. ((x + 1) + 1) - 1 = {x + 1} /\ ((x + 1) + 1) - 1 = x + 1
  BY Sizes
<1>3. Show(View(scr, y, x), c) = Fill(View(scr, y, x), (x + 1) + 1, c)
  BY DEF Show, View
<1>4. Fill(View(scr, y, x), (x + 1) + 1, c)
        = Right([page |-> Written(PageOf(scr), y + 1, x + 1 .. ((x + 1) + 1) - 1, c),
                 row |-> y + 1, col |-> ((x + 1) + 1) - 1])
  BY FillIs
<1>5. Show(View(scr, y, x), c) = Right(View(new, y, x))
  BY <1>1, <1>2, <1>3, <1>4 DEF View
<1> QED BY <1>5 DEF new

\* A character that kbmputc() shows is shown by the terminal.
LEMMA CharShown ==
  ASSUME NEW scr \in Screens, NEW y \in 0 .. ROW - 1, NEW x \in 0 .. COL - 1, NEW c \in Char
  PROVE  LET u == KernelShow(Now(scr, COL * y + x), c)
         IN  /\ u \in Output /\ u.at \in Cell /\ u.at > 0
             /\ FromCells(u.scr, u.at) = Show(View(scr, y, x), c)
             /\ x + 1 < COL => u = Now(Store(scr, COL * y + x, c), COL * y + (x + 1))
<1> DEFINE a == COL * y + x
           new == Store(scr, a, c)
           u == KernelShow(Now(scr, a), c)
<1>0. y \in Int /\ x \in Int /\ COL * y \in Int /\ a \in Int /\ a >= 0
  <2>1. a \in Cell
    BY CellOf
  <2>2. a \in Int /\ a >= 0
    BY <2>1, CellAt
  <2> QED BY <2>2, Sizes
<1>1. new \in Screens
  BY StoreView
<1>2. u = ScrollIf(Now(new, a + 1))
  BY DEF KernelShow, Now
<1> HIDE DEF u, new
<1>3. Show(View(scr, y, x), c) = Right(View(new, y, x))
  BY ShowIs DEF new, a
<1>4. CASE x + 1 < COL
  <2>1. x + 1 \in 0 .. COL - 1 /\ a + 1 = COL * y + (x + 1)
    BY <1>0, <1>4, Sizes
  <2>2. COL * y + (x + 1) \in Cell
    BY <2>1, CellOf
  <2>3. Now(new, a + 1) \in Output /\ Now(new, a + 1).at = a + 1 /\ a + 1 \in Cell
    BY <1>0, <1>1, <2>1, <2>2, ShowType DEF Now
  <2>4. u = Now(new, a + 1)
    BY <1>2, <2>3, Stays
  <2>5. u.scr = new /\ u.at = a + 1
    BY <2>4 DEF Now
  <2>6. FromCells(new, COL * y + (x + 1)) = View(new, y, x + 1)
    BY <1>1, <2>1, ViewOf
  <2>7. Right(View(new, y, x)) = View(new, y, x + 1)
    BY <1>4 DEF Right, View
  <2> HIDE DEF a
  <2>8. u \in Output /\ u.at \in Cell /\ u.at > 0
    BY <1>0, <2>3, <2>4, <2>5
  <2>9. FromCells(u.scr, u.at) = Show(View(scr, y, x), c)
    BY <1>3, <2>1, <2>5, <2>6, <2>7
  <2>10. u = Now(new, COL * y + (x + 1))
    BY <2>1, <2>4
  <2> QED BY <2>8, <2>9, <2>10 DEF u, new, a
<1>5. CASE ~ (x + 1 < COL)
  <2>1. y + 1 \in 1 .. ROW /\ 0 \in 0 .. COL - 1 /\ (y + 1) - 1 = y
    BY <1>0, Sizes
  <2>2. a + 1 = COL * (y + 1) + 0
    <3>1. COL * (y + 1) = COL * y + COL /\ x = COL - 1
      BY <1>0, <1>5, Sizes, Times
    <3> QED BY <1>0, <3>1, Sizes
  <2>3. LET v == ScrollIf(Now(new, COL * (y + 1) + 0))
        IN  /\ v \in Output /\ v.at \in Cell /\ v.at > 0
            /\ FromCells(v.scr, v.at) = Down(View(new, (y + 1) - 1, 0))
    BY <1>1, <2>1, Falls
  <2>4. /\ u \in Output /\ u.at \in Cell /\ u.at > 0
        /\ FromCells(u.scr, u.at) = Down(View(new, y, 0))
    BY <1>2, <2>1, <2>2, <2>3
  <2>5. Right(View(new, y, x)) = Down(View(new, y, 0))
    BY <1>5 DEF Right, Home, View
  <2> QED BY <1>3, <1>5, <2>4, <2>5 DEF u, new, a
<1> QED BY <1>4, <1>5

\* The column tells how far it is to the next tab stop.
LEMMA StopOfCell ==
  ASSUME NEW y \in 0 .. ROW - 1, NEW x \in 0 .. COL - 1
  PROVE  (COL * y + x) % TAB = x % TAB
<1>1. PICK m \in Nat : COL = TAB * m
  BY Sizes, ScreenAssumption, MultipleOf
<1> DEFINE q == x \div TAB
           r == x % TAB
<1>2. q \in Int /\ r \in 0 .. TAB - 1 /\ x = TAB * q + r /\ x \in Int /\ y \in Int
  BY Sizes, Quotient
<1> HIDE DEF q, r
<1>3. m * y + q \in Int /\ COL * y + x = TAB * (m * y + q) + r
  <2>1. m * y \in Int /\ TAB * (m * y) = (TAB * m) * y
    BY <1>1, <1>2, Sizes
  <2>2. TAB * (m * y + q) = TAB * (m * y) + TAB * q
    BY <1>2, <2>1, Sizes
  <2>3. TAB * (m * y) \in Int /\ TAB * q \in Int
    BY <1>2, <2>1, Sizes
  <2> QED BY <1>1, <1>2, <2>1, <2>2, <2>3
<1>4. (TAB * (m * y + q) + r) % TAB = r
  BY <1>2, <1>3, Sizes, QuotientIs
<1> QED BY <1>3, <1>4 DEF r

\* A blank written before the other blanks of a tab is one of them.
LEMMA FillOn ==
  ASSUME NEW scr \in Screens, NEW y \in 0 .. ROW - 1, NEW x \in 0 .. COL - 2,
         NEW k \in x + 3 .. COL + 1
  PROVE  Fill(View(Store(scr, COL * y + x, Blank), y, x + 1), k, Blank)
           = Fill(View(scr, y, x), k, Blank)
<1> DEFINE new == Store(scr, COL * y + x, Blank)
<1>0. /\ x \in 0 .. COL - 1 /\ x + 1 \in 0 .. COL - 1 /\ x \in Int /\ k \in Int /\ y \in Int
      /\ y + 1 \in 1 .. ROW /\ x + 3 <= k
  BY Sizes
<1>1. /\ new \in Screens /\ PageOf(scr) \in Page /\ Blank \in Char
      /\ PageOf(new) = Written(PageOf(scr), y + 1, {x + 1}, Blank)
  BY <1>0, StoreView, Sizes
<1> HIDE DEF new
<1> DEFINE pg == PageOf(scr)
           qg == PageOf(new)
           p1 == Written(qg, y + 1, (x + 1) + 1 .. k - 1, Blank)
           p2 == Written(pg, y + 1, x + 1 .. k - 1, Blank)
<1>2. qg \in Page /\ \A r \in 1 .. ROW, j \in 1 .. COL :
        qg[r][j] = IF r = y + 1 /\ j \in {x + 1} THEN Blank ELSE pg[r][j]
  BY <1>0, <1>1, WriteIs
<1>3. p1 \in Page /\ \A r \in 1 .. ROW, j \in 1 .. COL :
        p1[r][j] = IF r = y + 1 /\ j \in (x + 1) + 1 .. k - 1 THEN Blank ELSE qg[r][j]
  <2> HIDE DEF qg
  <2> QED BY <1>0, <1>1, <1>2, WriteIs
<1>4. p2 \in Page /\ \A r \in 1 .. ROW, j \in 1 .. COL :
        p2[r][j] = IF r = y + 1 /\ j \in x + 1 .. k - 1 THEN Blank ELSE pg[r][j]
  BY <1>0, <1>1, WriteIs
<1> HIDE DEF pg, qg, p1, p2
<1>5. ASSUME NEW r \in 1 .. ROW, NEW j \in 1 .. COL PROVE p1[r][j] = p2[r][j]
  <2>1. j \in x + 1 .. k - 1 <=> j = x + 1 \/ j \in (x + 1) + 1 .. k - 1
    BY <1>0
  <2> QED BY <1>2, <1>3, <1>4, <2>1
<1>6. p1 = p2
  BY <1>3, <1>4, <1>5, SamePage
<1>7. Fill(View(new, y, x + 1), k, Blank) = Right([page |-> p1, row |-> y + 1, col |-> k - 1])
  BY FillIs DEF p1, qg
<1>8. Fill(View(scr, y, x), k, Blank) = Right([page |-> p2, row |-> y + 1, col |-> k - 1])
  BY FillIs DEF p2, pg
<1> QED BY <1>6, <1>7, <1>8 DEF new

\* A tab that kbmputc() shows by blanks is shown by the terminal.
LEMMA TabShown ==
  ASSUME NEW y \in 0 .. ROW - 1
  PROVE  \A scr \in Screens, x \in 0 .. COL - 1 :
           LET u == KernelTab[Now(scr, COL * y + x)]
           IN  /\ u \in Output /\ u.at \in Cell /\ u.at > 0
               /\ FromCells(u.scr, u.at)
                    = Fill(View(scr, y, x), NextStop(View(scr, y, x)), Blank)
<1> DEFINE Good(scr, x) ==
             LET u == KernelTab[Now(scr, COL * y + x)]
             IN  /\ u \in Output /\ u.at \in Cell /\ u.at > 0
                 /\ FromCells(u.scr, u.at)
                      = Fill(View(scr, y, x), NextStop(View(scr, y, x)), Blank)
           U == {d \in 0 .. TAB : \A scr \in Screens, x \in 0 .. COL - 1 :
                   TAB - (x % TAB) <= d => Good(scr, x)}
<1>1. ASSUME NEW x \in 0 .. COL - 1
      PROVE  /\ x \in Int /\ x % TAB \in 0 .. TAB - 1 /\ TAB - (x % TAB) \in 1 .. TAB
             /\ x + TAB - (x % TAB) \in x + 1 .. COL
             /\ TAB - (x % TAB) # 1 => /\ x + 1 \in 0 .. COL - 1 /\ x \in 0 .. COL - 2
                                       /\ x + 1 < COL /\ (x + 1) % TAB = (x % TAB) + 1
  <2> DEFINE r == x % TAB
             q == x \div TAB
  <2>1. x + TAB - r \in x + 1 .. COL /\ r \in 0 .. TAB - 1
    BY StopAfter
  <2>2. q \in Int /\ x = TAB * q + r /\ x \in Int /\ TAB * q \in Int
    BY Sizes, Quotient
  <2> HIDE DEF r, q
  <2>3. TAB - r \in 1 .. TAB
    BY <2>1, Sizes
  <2>4. ASSUME TAB - r # 1
        PROVE  x + 1 \in 0 .. COL - 1 /\ x \in 0 .. COL - 2 /\ x + 1 < COL /\ (x + 1) % TAB = r + 1
    <3>1. r + 1 \in 0 .. TAB - 1 /\ TAB - r >= 2
      BY <2>1, <2>4, Sizes
    <3>2. x + 2 <= COL
      BY <2>1, <2>2, <3>1, Sizes
    <3>3. (TAB * q + (r + 1)) % TAB = r + 1
      BY <2>2, <3>1, Sizes, QuotientIs
    <3>4. x + 1 = TAB * q + (r + 1)
      BY <2>1, <2>2
    <3> QED BY <2>2, <3>2, <3>3, <3>4, Sizes
  <2> QED BY <2>1, <2>2, <2>3, <2>4 DEF r
<1>2. ASSUME NEW d \in 1 .. TAB, d - 1 \in U, NEW scr \in Screens, NEW x \in 0 .. COL - 1,
             TAB - (x % TAB) <= d
      PROVE  Good(scr, x)
  <2> DEFINE a == COL * y + x
             now == Now(scr, a)
             v == KernelShow(now, Blank)
             stop == NextStop(View(scr, y, x))
  <2>1. /\ v \in Output /\ v.at \in Cell /\ v.at > 0
        /\ FromCells(v.scr, v.at) = Show(View(scr, y, x), Blank)
        /\ x + 1 < COL => v = Now(Store(scr, a, Blank), COL * y + (x + 1))
    BY CharShown, Sizes
  <2>2. now \in Output /\ now.at = a /\ a % TAB = x % TAB
    <3>1. a \in Int
      BY CellOf
    <3> QED BY <3>1, StopOfCell, ShowType DEF Now
  <2>3. KernelTab[now] = IF v.at % TAB = 0 THEN ScrollIf(v) ELSE KernelTab[v]
    <3> HIDE DEF now
    <3> QED BY <2>2, TabEnds DEF TabTurn
  <2>4. /\ v.at % TAB \in 0 .. TAB - 1
        /\ v.at % TAB # 0 => v.at % TAB = (x % TAB) + 1
    <3> HIDE DEF now
    <3> QED BY <2>2, BlankMoves
  <2>5. stop = (x + 1) + TAB - (x % TAB)
    <3>1. (x + 1) - 1 = x
      BY <1>1
    <3> QED BY <3>1 DEF NextStop, View
  <2>6. CASE TAB - (x % TAB) = 1
    <3>1. v.at % TAB = 0
      BY <1>1, <2>4, <2>6, Sizes
    <3>2. KernelTab[now] = v
      BY <2>1, <2>3, <3>1, Stays
    <3>3. stop = (x + 1) + 1
      BY <1>1, <2>5, <2>6, Sizes
    <3>4. Fill(View(scr, y, x), stop, Blank) = Show(View(scr, y, x), Blank)
      BY <3>3 DEF Show, View
    <3> HIDE DEF v, stop
    <3> QED BY <2>1, <3>2, <3>4 DEF stop
  <2>7. CASE TAB - (x % TAB) # 1
    <3> DEFINE new == Store(scr, a, Blank)
    <3>1. /\ x + 1 \in 0 .. COL - 1 /\ x \in 0 .. COL - 2 /\ x + 1 < COL
          /\ (x + 1) % TAB = (x % TAB) + 1
      BY <1>1, <2>7
    <3>2. v = Now(new, COL * y + (x + 1))
      BY <2>1, <3>1
    <3>3. new \in Screens
      BY StoreView, Sizes
    <3>4. v.at % TAB # 0
      <4>1. (COL * y + (x + 1)) % TAB = (x + 1) % TAB
        BY <3>1, StopOfCell
      <4>2. v.at = COL * y + (x + 1)
        BY <3>2 DEF Now
      <4> HIDE DEF v
      <4> QED BY <1>1, <3>1, <4>1, <4>2
    <3>5. KernelTab[now] = KernelTab[v]
      BY <2>3, <3>4
    <3>6. Good(new, x + 1)
      <4>1. TAB - ((x + 1) % TAB) <= d - 1
        BY <1>1, <1>2, <3>1, Sizes
      <4> HIDE DEF Good, new
      <4> QED BY <1>2, <3>1, <3>3, <4>1
    <3>7. NextStop(View(new, y, x + 1)) = stop
      <4>1. NextStop(View(new, y, x + 1)) = ((x + 1) + 1) + TAB - ((x + 1) % TAB)
        <5>1. ((x + 1) + 1) - 1 = x + 1
          BY <1>1
        <5> QED BY <5>1 DEF NextStop, View
      <4> HIDE DEF stop
      <4> QED BY <1>1, <2>5, <3>1, <4>1, Sizes
    <3>8. stop \in x + 3 .. COL + 1
      <4> DEFINE r == x % TAB
      <4>1. /\ x \in Int /\ r \in 0 .. TAB - 1 /\ TAB - r \in 1 .. TAB /\ TAB - r # 1
            /\ x + TAB - r \in x + 1 .. COL /\ stop = (x + 1) + TAB - r
        BY <1>1, <2>5, <2>7
      <4> HIDE DEF stop, r
      <4> QED BY <4>1, Sizes
    <3>9. Fill(View(new, y, x + 1), stop, Blank) = Fill(View(scr, y, x), stop, Blank)
      <4> HIDE DEF stop
      <4> QED BY <3>1, <3>8, FillOn
    <3> DEFINE u == KernelTab[v]
    <3>10. /\ u \in Output /\ u.at \in Cell /\ u.at > 0
           /\ FromCells(u.scr, u.at) = Fill(View(new, y, x + 1), stop, Blank)
      BY <3>2, <3>6, <3>7
    <3> HIDE DEF v, new, stop, u
    <3> QED BY <3>5, <3>9, <3>10 DEF u, stop
  <2> QED BY <2>6, <2>7
<1> HIDE DEF Good
<1>3. TAB \in U
  <2>1. 0 \in U
    <3>1. \A x \in 0 .. COL - 1 : ~ (TAB - (x % TAB) <= 0)
      BY <1>1
    <3> QED BY <3>1, Sizes
  <2>2. ASSUME NEW d \in 1 .. TAB, d - 1 \in U PROVE d \in U
    <3>1. \A scr \in Screens, x \in 0 .. COL - 1 : TAB - (x % TAB) <= d => Good(scr, x)
      <4> HIDE DEF U
      <4> QED BY <1>2, <2>2
    <3>2. d \in 0 .. TAB
      BY Sizes
    <3> QED BY <3>1, <3>2
  <2> HIDE DEF U
  <2>3. 0 .. TAB \subseteq U /\ TAB \in 0 .. TAB
    <3>1. TAB \in Nat
      BY Sizes
    <3> QED BY <2>1, <2>2, <3>1, Counting
  <2> QED BY <2>3
<1>4. \A x \in 0 .. COL - 1 : TAB - (x % TAB) <= TAB
  BY <1>1, Sizes
<1>5. \A scr \in Screens, x \in 0 .. COL - 1 : Good(scr, x)
  BY <1>3, <1>4
<1> QED BY <1>5 DEF Good

\* One character is shown as a terminal shows it, if it does not go back over the
\* first cell of the screen.
LEMMA PutShown ==
  ASSUME NEW t \in Output, t.at \in Cell, NEW c \in Char, c = "bs" => t.at > 0
  PROVE  LET u == Kbmputc(t, c)
         IN  /\ u \in Output /\ u.at \in Cell /\ (c \notin {"bs", "cr"} => u.at > 0)
             /\ FromCells(u.scr, u.at) = Put(FromCells(t.scr, t.at), c)
<1> DEFINE scr == t.scr
           a == t.at
           y == a \div COL
           x == a % COL
<1>1. scr \in Screens /\ a \in Int /\ t = Now(scr, a) /\ t \in [scr : Screens, at : Int]
  BY ShowType DEF Now
<1>2. y \in 0 .. ROW - 1 /\ x \in 0 .. COL - 1 /\ a = COL * y + x /\ 0 <= a /\ a < Limit
  BY CellAt
<1> HIDE DEF y, x
<1>3. /\ y \in Int /\ x \in Int /\ 0 <= x /\ x <= COL - 1 /\ 0 <= y /\ y <= ROW - 1
      /\ COL * y \in Int
  BY <1>2, Sizes
<1>4. FromCells(scr, a) = View(scr, y, x)
  BY <1>1, <1>2, ViewOf
<1>5. ASSUME NEW b \in Int PROVE [t EXCEPT !.at = b] = Now(scr, b) /\ Now(scr, b) \in Output
  BY <1>1, ShowType DEF Now
<1>6. CASE c = "tab"
  <2>1. Kbmputc(t, c) = KernelTab[Now(scr, COL * y + x)]
    BY <1>1, <1>2, <1>6 DEF Kbmputc
  <2>2. Put(View(scr, y, x), c) = Fill(View(scr, y, x), NextStop(View(scr, y, x)), Blank)
    BY <1>6 DEF Put
  <2>3. LET u == KernelTab[Now(scr, COL * y + x)]
        IN  /\ u \in Output /\ u.at \in Cell /\ u.at > 0
            /\ FromCells(u.scr, u.at)
                 = Fill(View(scr, y, x), NextStop(View(scr, y, x)), Blank)
    BY <1>1, <1>2, TabShown
  <2> HIDE DEF scr, a
  <2> QED BY <1>4, <2>1, <2>2, <2>3 DEF scr, a
<1>7. CASE c = "nl"
  <2>1. CRem(a + COL, COL) = x
    <3>1. a + COL = COL * (y + 1) + x /\ y + 1 \in Int /\ a + COL >= 0
      BY <1>2, <1>3, Sizes, Times
    <3>2. (COL * (y + 1) + x) % COL = x
      BY <1>2, <3>1, Sizes, QuotientIs
    <3> QED BY <3>1, <3>2 DEF CRem
  <2>2. a + COL - CRem(a + COL, COL) = COL * (y + 1) + 0
    <3>1. COL * (y + 1) = COL * y + COL
      BY <1>3, Sizes, Times
    <3> HIDE DEF a
    <3> QED BY <1>2, <1>3, <2>1, <3>1, Sizes
  <2>3. COL * (y + 1) + 0 \in Int /\ y + 1 \in 1 .. ROW /\ 0 \in 0 .. COL - 1 /\ (y + 1) - 1 = y
    BY <1>3, Sizes
  <2>4. Kbmputc(t, c) = ScrollIf(Now(scr, COL * (y + 1) + 0))
    BY <1>5, <1>7, <2>2, <2>3 DEF Kbmputc
  <2>5. LET u == ScrollIf(Now(scr, COL * (y + 1) + 0))
        IN  /\ u \in Output /\ u.at \in Cell /\ u.at > 0
            /\ FromCells(u.scr, u.at) = Down(View(scr, (y + 1) - 1, 0))
    BY <1>1, <2>3, Falls
  <2>6. Put(View(scr, y, x), c) = Down(View(scr, y, 0))
    BY <1>7 DEF Put, Home, View
  <2> HIDE DEF scr, a
  <2> QED BY <1>4, <2>3, <2>4, <2>5, <2>6 DEF scr, a
<1>8. CASE c = "cr"
  <2>1. CRem(a, COL) = x
    <3>1. (COL * y + x) % COL = x
      BY <1>2, <1>3, CellOf
    <3> QED BY <1>2, <3>1 DEF CRem
  <2>2. a - CRem(a, COL) = COL * y + 0
    BY <1>2, <1>3, <2>1, Sizes
  <2>3. 0 \in 0 .. COL - 1
    BY Sizes
  <2>4. COL * y + 0 \in Cell /\ COL * y + 0 \in Int
    BY <1>2, <2>3, CellOf
  <2>5. Kbmputc(t, c) = ScrollIf(Now(scr, COL * y + 0))
    BY <1>5, <1>8, <2>2, <2>4 DEF Kbmputc
  <2> DEFINE now == Now(scr, COL * y + 0)
  <2>6. now \in Output /\ now.at \in Cell /\ now.at = COL * y + 0 /\ now.scr = scr
    BY <1>5, <2>4 DEF Now
  <2> HIDE DEF now
  <2>7. ScrollIf(now) = now
    BY <2>6, Stays
  <2>8. FromCells(scr, COL * y + 0) = View(scr, y, 0)
    BY <1>1, <1>2, <2>3, ViewOf
  <2>9. Put(View(scr, y, x), c) = View(scr, y, 0)
    BY <1>8 DEF Put, Home, View
  <2>10. Kbmputc(t, c) = now
    BY <2>5, <2>7 DEF now
  <2> HIDE DEF scr, a
  <2> QED BY <1>4, <1>8, <2>6, <2>8, <2>9, <2>10 DEF scr, a
<1>9. CASE c = "bs"
  <2>1. a - 1 \in Cell /\ a - 1 \in Int
    BY <1>1, <1>2, <1>9, Sizes DEF Cell, Limit
  <2>2. Kbmputc(t, c) = ScrollIf(Now(scr, a - 1))
    BY <1>5, <1>9, <2>1 DEF Kbmputc
  <2> DEFINE now == Now(scr, a - 1)
  <2>3. now \in Output /\ now.at \in Cell /\ now.at = a - 1 /\ now.scr = scr
    BY <1>5, <2>1 DEF Now
  <2> HIDE DEF now
  <2>4. ScrollIf(now) = now
    BY <2>3, Stays
  <2>5. Put(View(scr, y, x), c) = Left(View(scr, y, x))
    BY <1>9 DEF Put
  <2>6. CASE x > 0
    <3>1. x - 1 \in 0 .. COL - 1 /\ a - 1 = COL * y + (x - 1) /\ x + 1 > 1 /\ (x + 1) - 1 = (x - 1) + 1
      BY <1>2, <1>3, <2>6, Sizes
    <3>2. FromCells(scr, a - 1) = View(scr, y, x - 1)
      BY <1>1, <1>2, <3>1, ViewOf
    <3>3. Left(View(scr, y, x)) = View(scr, y, x - 1)
      BY <3>1 DEF Left, View
    <3> HIDE DEF scr, a
    <3> QED BY <1>4, <1>9, <2>2, <2>3, <2>4, <2>5, <3>2, <3>3 DEF scr, a, now
  <2>7. CASE ~ (x > 0)
    <3>1. x = 0 /\ a = COL * y /\ a > 0
      BY <1>2, <1>3, <1>9, <2>7
    <3>2. y > 0
      <4>1. y = 0 => COL * y = 0
        BY Sizes
      <4> HIDE DEF a
      <4> QED BY <1>3, <3>1, <4>1
    <3>3. COL * (y - 1) = COL * y - COL
      BY <1>3, Sizes, Times
    <3>4. y - 1 \in 0 .. ROW - 1 /\ COL - 1 \in 0 .. COL - 1
      BY <1>3, <3>2, Sizes
    <3>5. a - 1 = COL * (y - 1) + (COL - 1)
      <4> HIDE DEF a
      <4> QED BY <1>3, <3>1, <3>3, Sizes
    <3>6. FromCells(scr, a - 1) = View(scr, y - 1, COL - 1)
      BY <1>1, <3>4, <3>5, ViewOf
    <3>7. Left(View(scr, y, x)) = View(scr, y - 1, COL - 1)
      <4>1. /\ ~ (x + 1 > 1) /\ (y + 1) - 1 = (y - 1) + 1 /\ (COL - 1) + 1 = COL
        BY <1>3, <3>1, Sizes
      <4> DEFINE v == View(scr, y, x)
      <4>2. v = [page |-> PageOf(scr), row |-> y + 1, col |-> x + 1] /\ v.row = y + 1 /\ v.col = x + 1
        BY DEF View
      <4> HIDE DEF v
      <4>3. Left(v) = [v EXCEPT !.row = @ - 1, !.col = COL]
        BY <4>1, <4>2 DEF Left
      <4>4. [v EXCEPT !.row = @ - 1] = [page |-> PageOf(scr), row |-> (y + 1) - 1, col |-> x + 1]
        BY <4>2
      <4>5. [[page |-> PageOf(scr), row |-> (y + 1) - 1, col |-> x + 1] EXCEPT !.col = COL]
              = [page |-> PageOf(scr), row |-> (y + 1) - 1, col |-> COL]
        OBVIOUS
      <4>6. Left(v) = [page |-> PageOf(scr), row |-> (y + 1) - 1, col |-> COL]
        BY <4>3, <4>4, <4>5
      <4> QED BY <4>1, <4>6 DEF v, View
    <3> HIDE DEF scr, a
    <3> QED BY <1>4, <1>9, <2>2, <2>3, <2>4, <2>5, <3>6, <3>7 DEF scr, a, now
  <2> QED BY <2>6, <2>7
<1>10. CASE c \notin {"tab", "nl", "cr", "bs"}
  <2>1. Kbmputc(t, c) = KernelShow(Now(scr, COL * y + x), c)
    BY <1>1, <1>2, <1>10 DEF Kbmputc
  <2>2. Put(View(scr, y, x), c) = Show(View(scr, y, x), c)
    BY <1>10 DEF Put
  <2>3. LET u == KernelShow(Now(scr, COL * y + x), c)
        IN  /\ u \in Output /\ u.at \in Cell /\ u.at > 0
            /\ FromCells(u.scr, u.at) = Show(View(scr, y, x), c)
    BY <1>1, <1>2, CharShown
  <2> HIDE DEF scr, a
  <2> QED BY <1>4, <2>1, <2>2, <2>3 DEF scr, a
<1> QED BY <1>6, <1>7, <1>8, <1>9, <1>10

\* No backspace of the text goes back over a cell that the text itself has not
\* just passed.
NoBackOver(s) ==
  \A i \in 1 .. Len(s) : s[i] = "bs" => i > 1 /\ s[i - 1] \notin {"bs", "cr"}

\* A text that begins on the screen is shown as a terminal shows it.
LEMMA TextShown ==
  ASSUME NEW scr \in Screens, NEW a \in Cell, NEW s \in Seq(Char), NoBackOver(s)
  PROVE  LET u == Kprintf(Now(scr, a), s) IN Shows(scr, a, s, u.scr, u.at)
<1> DEFINE n == Len(s)
           t == Now(scr, a)
           v == FromCells(scr, a)
<1>1. n \in Nat /\ \A i \in 1 .. n : s[i] \in Char
  OBVIOUS
<1>2. t \in Output /\ t.scr = scr /\ t.at = a
  BY CellAt, ShowType DEF Now
<1>3. v \in Term
  <2>1. a \div COL \in 0 .. ROW - 1 /\ a % COL \in 0 .. COL - 1 /\ a = COL * (a \div COL) + (a % COL)
    BY CellAt
  <2> QED BY <2>1, ViewOf
<1> HIDE DEF t, v
<1>4. PICK h \in [0 .. n -> Output] :
           /\ h[0] = t
           /\ \A i \in 1 .. n : h[i] = Kbmputc(h[i - 1], s[i])
           /\ Kprintf(t, s) = h[n]
  BY <1>2, KprintfWalk
<1>5. PICK g \in [0 .. n -> Term] :
           /\ g[0] = v
           /\ \A i \in 1 .. n : g[i] = Put(g[i - 1], s[i])
           /\ PutText(v, s) = g[n]
  BY <1>3, PutTextWalk
<1> DEFINE U == {i \in 0 .. n :
                   /\ h[i].at \in Cell /\ FromCells(h[i].scr, h[i].at) = g[i]
                   /\ i > 0 /\ s[i] \notin {"bs", "cr"} => h[i].at > 0}
<1>6. 0 \in U
  BY <1>1, <1>2, <1>4, <1>5 DEF v
<1>7. ASSUME NEW i \in 1 .. n, i - 1 \in U PROVE i \in U
  <2>1. i \in 0 .. n /\ i - 1 \in 0 .. n /\ s[i] \in Char
    BY <1>1
  <2>2. /\ h[i - 1] \in Output /\ h[i - 1].at \in Cell
        /\ FromCells(h[i - 1].scr, h[i - 1].at) = g[i - 1]
        /\ i - 1 > 0 /\ s[i - 1] \notin {"bs", "cr"} => h[i - 1].at > 0
    BY <1>7, <2>1
  <2>3. s[i] = "bs" => h[i - 1].at > 0
    BY <2>1, <2>2 DEF NoBackOver
  <2>4. h[i] = Kbmputc(h[i - 1], s[i]) /\ g[i] = Put(g[i - 1], s[i])
    BY <1>4, <1>5
  <2> HIDE DEF U, n
  <2>5. LET u == Kbmputc(h[i - 1], s[i])
        IN  /\ u \in Output /\ u.at \in Cell /\ (s[i] \notin {"bs", "cr"} => u.at > 0)
            /\ FromCells(u.scr, u.at) = Put(FromCells(h[i - 1].scr, h[i - 1].at), s[i])
    BY <2>1, <2>2, <2>3, PutShown
  <2>6. /\ h[i].at \in Cell /\ (s[i] \notin {"bs", "cr"} => h[i].at > 0)
        /\ FromCells(h[i].scr, h[i].at) = g[i]
    BY <2>2, <2>4, <2>5
  <2> QED BY <2>1, <2>6 DEF U
<1>8. n \in U
  <2>1. n \in Nat /\ n \in 0 .. n
    BY <1>1
  <2> HIDE DEF U, n
  <2>2. \A i \in 1 .. n : i - 1 \in U => i \in U
    BY <1>7
  <2>3. 0 .. n \subseteq U
    BY <1>6, <2>1, <2>2, Counting
  <2> QED BY <2>1, <2>3
<1>9. FromCells(h[n].scr, h[n].at) = PutText(v, s)
  BY <1>5, <1>8
<1> QED BY <1>4, <1>9 DEF Shows, t, v

\* PrintShown of Console: when no race has carried the cursor off the screen before
\* it, a text that nobody interrupts with another is shown as a terminal shows it,
\* and the 6845 has the cursor where crtat is; the kernel's texts always are
\* (kprintf.c, lines 94-173).  The texts of the programs have a character, and no
\* text goes back over cells it has not passed: kbmputc() does not stop a
\* backspace at the first cell.
THEOREM PrintShownHolds ==
  ASSUME \A s \in UserText \cup KernelText : NoBackOver(s), <<>> \notin UserText
  PROVE  Spec => PrintShown
<1> DEFINE Shown ==
      /\ \A p \in Printer :
           /\ pc[p] # "idle" /\ pc'[p] = "idle"
           /\ before[p] # <<>> /\ before[p][2] \in Cell
           => /\ Shows(before[p][1], before[p][2], before[p][3], screen', crtat')
              /\ HwPos(crtc') = crtat'
      /\ \A s \in KernelText :
           KernelPrint(s) /\ crtat \in Cell => Shows(screen, crtat, s, screen', crtat')
<1>1. ASSUME Undisturbed, [Next]_vars, NEW p \in Printer,
             pc[p] # "idle", pc'[p] = "idle", before[p] # <<>>, before[p][2] \in Cell
      PROVE  /\ Shows(before[p][1], before[p][2], before[p][3], screen', crtat')
             /\ HwPos(crtc') = crtat'
  <2> DEFINE scr == before[p][1]
             a == before[p][2]
             s == before[p][3]
  <2>1. scr \in Screens /\ a \in Cell /\ s \in UserText
    BY <1>1 DEF Undisturbed, Printing
  <2>2. s \in Seq(Char) /\ s # <<>> /\ NoBackOver(s)
    BY <2>1, Texts
  <2>3. Now(screen', crtat') = Kprintf(Now(scr, a), s) /\ (s = <<>> \/ HwPos(crtc') = crtat')
    BY <1>1, EndIs
  <2> HIDE DEF scr, a, s
  <2>4. LET u == Kprintf(Now(scr, a), s) IN Shows(scr, a, s, u.scr, u.at)
    BY <2>1, <2>2, TextShown
  <2>5. Now(screen', crtat').scr = screen' /\ Now(screen', crtat').at = crtat'
    BY DEF Now
  <2>6. Shows(scr, a, s, screen', crtat')
    BY <2>3, <2>4, <2>5
  <2> QED BY <2>2, <2>3, <2>6 DEF scr, a, s
<1>2. ASSUME Undisturbed, NEW s \in KernelText, KernelPrint(s), crtat \in Cell
      PROVE  Shows(screen, crtat, s, screen', crtat')
  <2>1. screen \in Screens /\ crtat \in Cell /\ s \in Seq(Char) /\ NoBackOver(s)
    BY <1>2, Texts DEF Undisturbed, Printing
  <2>2. /\ screen' = Kprintf(Now(screen, crtat), s).scr
        /\ crtat' = Kprintf(Now(screen, crtat), s).at
    BY <1>2 DEF KernelPrint, Now
  <2>3. LET u == Kprintf(Now(screen, crtat), s) IN Shows(screen, crtat, s, u.scr, u.at)
    BY <2>1, TextShown
  <2> QED BY <2>2, <2>3
<1>3. Undisturbed /\ [Next]_vars => [Shown]_vars
  BY <1>1, <1>2
<1> HIDE DEF Shown
<1>4. Spec => [][Shown]_vars
  BY <1>3, UndisturbedAlways, PTL DEF Spec
<1> QED BY <1>4 DEF PrintShown, Shown
-----------------------------------------------------------------------------
(* The boot loader and the terminal.                                         *)

\* A text with what puts() knows: characters to show, and ends of lines.
Plain(s) == \A i \in 1 .. Len(s) : s[i] \notin {"tab", "bs", "cr"}

\* A character that puts() writes is shown by the terminal.
LEMMA PutsCharShown ==
  ASSUME NEW t \in Writer, t.y \in 0 .. ROW - 1, NEW c \in Char, c \notin {"tab", "bs", "cr"}
  PROVE  LET u == PutsChar(t, c)
         IN  /\ u \in Writer /\ u.y \in 0 .. ROW - 1
             /\ View(u.scr, u.y, u.x) = Put(View(t.scr, t.y, t.x), c)
<1> DEFINE y == t.y
           x == t.x
<1>1. t.scr \in Screens /\ x \in 0 .. COL - 1 /\ y \in 0 .. ROW - 1
  BY DEF Writer
<1>2. ASSUME NEW v \in Writer, v.y = y
      PROVE  /\ PutsDown(v).y \in 0 .. ROW - 1
             /\ View(PutsDown(v).scr, PutsDown(v).y, PutsDown(v).x) = Down(View(v.scr, y, 0))
  <2>1. v.scr \in Screens /\ 0 \in 0 .. COL - 1
    BY Sizes DEF Writer
  <2>2. /\ y < ROW - 1 => Down(View(v.scr, y, 0)) = View(v.scr, y + 1, 0)
        /\ y = ROW - 1 => Down(View(v.scr, y, 0)) = View(Scroll(v.scr), y, 0)
    BY <1>1, <2>1, DownView
  <2>3. CASE y < ROW - 1
    <3>1. ~ (y + 1 >= ROW) /\ y + 1 \in 0 .. ROW - 1
      BY <1>1, <2>3, Sizes
    <3>2. PutsDown(v) = [v EXCEPT !.x = 0, !.y = y + 1]
      BY <1>2, <3>1 DEF PutsDown
    <3>3. PutsDown(v).y = y + 1 /\ PutsDown(v).x = 0 /\ PutsDown(v).scr = v.scr
      BY <3>2 DEF Writer
    <3> HIDE DEF y
    <3> QED BY <2>2, <2>3, <3>1, <3>3
  <2>4. CASE y = ROW - 1
    <3>1. y + 1 >= ROW
      BY <2>4, Sizes
    <3>2. PutsDown(v).y = y /\ PutsDown(v).x = 0 /\ PutsDown(v).scr = Scroll(v.scr)
      BY <1>2, <3>1 DEF PutsDown
    <3> HIDE DEF y
    <3> QED BY <1>1, <2>2, <2>4, <3>2
  <2>5. y < ROW - 1 \/ y = ROW - 1
    BY <1>1, Sizes
  <2> QED BY <2>3, <2>4, <2>5
<1>3. PutsChar(t, c) \in Writer
  BY PutsCharType
<1>4. CASE c = "nl"
  <2>1. PutsChar(t, c) = PutsDown(t)
    BY <1>4 DEF PutsChar
  <2>2. Put(View(t.scr, y, x), c) = Down(View(t.scr, y, 0))
    BY <1>4 DEF Put, Home, View
  <2> QED BY <1>2, <1>3, <2>1, <2>2
<1>5. CASE c # "nl"
  <2> DEFINE new == Store(t.scr, COL * y + x, c)
             u == [t EXCEPT !.scr = new]
  <2>1. t.x + COL * t.y = COL * y + x
    <3>1. COL * y \in Int /\ x \in Int
      BY <1>1, Sizes
    <3> QED BY <3>1
  <2>2. new \in Screens
    BY <1>1, StoreView
  <2> HIDE DEF new
  <2>3. u \in Writer /\ u.scr = new /\ u.y = y /\ u.x = x
    BY <1>1, <2>2 DEF Writer
  <2>4. PutsChar(t, c) = IF u.x + 1 >= COL THEN PutsDown(u) ELSE [u EXCEPT !.x = u.x + 1]
    BY <1>5, <2>1 DEF PutsChar, new
  <2>5. Put(View(t.scr, y, x), c) = Right(View(new, y, x))
    <3>1. Put(View(t.scr, y, x), c) = Show(View(t.scr, y, x), c)
      BY <1>5 DEF Put
    <3> HIDE DEF y, x
    <3> QED BY <1>1, <3>1, ShowIs DEF new
  <2> HIDE DEF u
  <2>6. CASE x + 1 >= COL
    <3>1. Right(View(new, y, x)) = Down(View(new, y, 0))
      <4>1. ~ (x + 1 < COL)
        BY <1>1, <2>6, Sizes
      <4> HIDE DEF x
      <4> QED BY <4>1 DEF Right, Home, View
    <3>2. PutsChar(t, c) = PutsDown(u)
      BY <2>3, <2>4, <2>6
    <3>3. /\ PutsDown(u).y \in 0 .. ROW - 1
          /\ View(PutsDown(u).scr, PutsDown(u).y, PutsDown(u).x) = Down(View(u.scr, y, 0))
      BY <1>2, <2>3
    <3> QED BY <1>3, <2>3, <2>5, <3>1, <3>2, <3>3
  <2>7. CASE ~ (x + 1 >= COL)
    <3>1. Right(View(new, y, x)) = View(new, y, x + 1)
      <4>1. x + 1 < COL
        BY <1>1, <2>7, Sizes
      <4> HIDE DEF x
      <4> QED BY <4>1 DEF Right, View
    <3>2. PutsChar(t, c) = [u EXCEPT !.x = x + 1]
      BY <2>3, <2>4, <2>7
    <3>3. [u EXCEPT !.x = x + 1].scr = new /\ [u EXCEPT !.x = x + 1].y = y /\ [u EXCEPT !.x = x + 1].x = x + 1
      BY <2>3 DEF Writer
    <3> QED BY <1>1, <1>3, <2>5, <3>1, <3>2, <3>3
  <2> QED BY <2>6, <2>7
<1> QED BY <1>4, <1>5

\* puts() leaves the page of a terminal.
LEMMA PutsPage ==
  ASSUME NEW scr \in Screens, NEW a \in Cell, NEW s \in Seq(Char), Plain(s)
  PROVE  PageOf(Puts(scr, a, s)) = PutText(FromCells(scr, a), s).page
<1> DEFINE n == Len(s)
           y == a \div COL
           x == a % COL
           t == [scr |-> scr, x |-> x, y |-> y]
           v == FromCells(scr, a)
<1>1. n \in Nat /\ n \in 0 .. n /\ \A i \in 1 .. n : s[i] \in Char
  OBVIOUS
<1>2. y \in 0 .. ROW - 1 /\ x \in 0 .. COL - 1 /\ a = COL * y + x
  BY CellAt
<1> HIDE DEF x, y
<1>3. t \in Writer /\ t.y \in 0 .. ROW - 1 /\ v \in Term /\ View(t.scr, t.y, t.x) = v
  <2>1. y \in Int
    BY <1>2
  <2> QED BY <1>2, <2>1, ViewOf DEF Writer
<1>4. Puts(scr, a, s) = FoldLeft(PutsChar, t, s).scr
  BY DEF Puts, x, y
<1> HIDE DEF t, v
<1>5. PICK h \in [0 .. n -> Writer] :
           /\ h[0] = t
           /\ \A i \in 1 .. n : h[i] = PutsChar(h[i - 1], s[i])
           /\ FoldLeft(PutsChar, t, s) = h[n]
  BY <1>3, PutsWalk
<1>6. PICK g \in [0 .. n -> Term] :
           /\ g[0] = v
           /\ \A i \in 1 .. n : g[i] = Put(g[i - 1], s[i])
           /\ PutText(v, s) = g[n]
  BY <1>3, PutTextWalk
<1> DEFINE U == {i \in 0 .. n : h[i].y \in 0 .. ROW - 1 /\ View(h[i].scr, h[i].y, h[i].x) = g[i]}
<1>7. 0 \in U
  BY <1>1, <1>3, <1>5, <1>6
<1>8. ASSUME NEW i \in 1 .. n, i - 1 \in U PROVE i \in U
  <2>1. i \in 0 .. n /\ i - 1 \in 0 .. n /\ s[i] \in Char /\ s[i] \notin {"tab", "bs", "cr"}
    BY <1>1 DEF Plain
  <2>2. /\ h[i - 1] \in Writer /\ h[i - 1].y \in 0 .. ROW - 1
        /\ View(h[i - 1].scr, h[i - 1].y, h[i - 1].x) = g[i - 1]
    BY <1>8, <2>1
  <2>3. h[i] = PutsChar(h[i - 1], s[i]) /\ g[i] = Put(g[i - 1], s[i])
    BY <1>5, <1>6
  <2> HIDE DEF U, n
  <2>4. LET u == PutsChar(h[i - 1], s[i])
        IN  /\ u \in Writer /\ u.y \in 0 .. ROW - 1
            /\ View(u.scr, u.y, u.x) = Put(View(h[i - 1].scr, h[i - 1].y, h[i - 1].x), s[i])
    BY <2>1, <2>2, PutsCharShown
  <2>5. h[i].y \in 0 .. ROW - 1 /\ View(h[i].scr, h[i].y, h[i].x) = g[i]
    BY <2>2, <2>3, <2>4
  <2> QED BY <2>1, <2>5 DEF U
<1>9. n \in U
  <2>1. n \in Nat /\ n \in 0 .. n
    BY <1>1
  <2> HIDE DEF U, n
  <2>2. \A i \in 1 .. n : i - 1 \in U => i \in U
    BY <1>8
  <2>3. 0 .. n \subseteq U
    BY <1>7, <2>1, <2>2, Counting
  <2> QED BY <2>1, <2>3
<1>10. View(h[n].scr, h[n].y, h[n].x) = g[n]
  BY <1>9
<1>11. PageOf(h[n].scr) = g[n].page
  BY <1>10 DEF View
<1> QED BY <1>4, <1>5, <1>6, <1>11 DEF v

\* The cells of a page are the screen.
LEMMA CellsOf ==
  ASSUME NEW scr \in Screens
  PROVE  [i \in Cell |-> PageOf(scr)[(i \div COL) + 1][(i % COL) + 1]] = scr
<1>1. ASSUME NEW i \in Cell PROVE PageOf(scr)[(i \div COL) + 1][(i % COL) + 1] = scr[i]
  <2> DEFINE r == (i \div COL) + 1
             c == (i % COL) + 1
  <2>1. /\ r \in 1 .. ROW /\ c \in 1 .. COL /\ r - 1 = i \div COL /\ c - 1 = i % COL
        /\ i = COL * (i \div COL) + (i % COL)
    BY CellAt, Sizes
  <2> HIDE DEF r, c
  <2>2. (r - 1) * COL + c - 1 = i
    <3>1. (r - 1) * COL + c - 1 = COL * (r - 1) + (c - 1)
      BY <2>1, CellOn
    <3> QED BY <2>1, <3>1
  <2>3. PageOf(scr)[r][c] = scr[(r - 1) * COL + c - 1]
    BY <2>1 DEF PageOf
  <2> QED BY <2>2, <2>3 DEF r, c
<1>2. scr = [i \in Cell |-> scr[i]]
  BY DEF Screens
<1>3. [i \in Cell |-> PageOf(scr)[(i \div COL) + 1][(i % COL) + 1]] = [i \in Cell |-> scr[i]]
  BY <1>1
<1> QED BY <1>2, <1>3, Zenon

\* PutsShown of Console: until a second text is printed, the screen has what puts()
\* of the boot loader showed by its own column and row, blank from the cursor that
\* kprintf() asked the 6845 for, and behind that the first text of the kernel
\* (misc.c, lines 121-159; kprintf.c, lines 105-133).  The cursor of the 6845 is on
\* the screen, puts() has only characters that it knows, and no text of the kernel
\* goes back over cells it has not passed.
THEOREM PutsShownHolds ==
  ASSUME HwCursor \subseteq Cell,
         \A s \in BootText : Plain(s),
         \A s \in KernelText : NoBackOver(s)
  PROVE  Spec => []PutsShown
<1> DEFINE First(a, b, k) ==
             LET page  == PutText(FromCells([i \in Cell |-> Blank], a), b).page
                 cells == [i \in Cell |-> page[(i \div COL) + 1][(i % COL) + 1]]
             IN  Shows(ClearFrom(cells, FirstAt(a)), FirstAt(a), k, screen, crtat)
           Quiet == prints = 0 => \A p \in Printer : pc[p] = "idle"
<1>1. Init => PutsShown /\ Quiet
  <2> SUFFICES ASSUME Init PROVE PutsShown /\ Quiet
    OBVIOUS
  <2>1. PICK a \in HwCursor, b \in BootText, k \in KernelText :
          LET boot  == Puts([i \in Cell |-> Blank], a, b)
              first == Kprintf([scr |-> ClearFrom(boot, FirstAt(a)), at |-> FirstAt(a)], k)
          IN  screen = first.scr /\ crtat = first.at
    BY DEF Init
  <2> DEFINE blank == [i \in Cell |-> Blank]
             boot == Puts(blank, a, b)
             page == PutText(FromCells(blank, a), b).page
  <2>2. blank \in Screens /\ a \in Cell /\ FirstAt(a) = a
    <3>1. blank \in Screens
      BY BlankScreen
    <3>2. a \in Cell
      OBVIOUS
    <3>3. a \in Int /\ a <= Limit
      BY <3>2, CellAt, Sizes
    <3> QED BY <3>1, <3>2, <3>3 DEF FirstAt
  <2>3. b \in Seq(Char) /\ Plain(b) /\ k \in Seq(Char) /\ NoBackOver(k)
    BY Texts
  <2> HIDE DEF blank
  <2>4. boot \in Screens /\ PageOf(boot) = page
    BY <2>2, <2>3, CellAt, PutsType, PutsPage
  <2> HIDE DEF boot, page
  <2>5. [i \in Cell |-> page[(i \div COL) + 1][(i % COL) + 1]] = boot
    BY <2>4, CellsOf
  <2>6. ClearFrom(boot, a) \in Screens
    BY <2>2, <2>4, CellAt, ClearType
  <2>7. LET u == Kprintf(Now(ClearFrom(boot, a), a), k)
        IN  Shows(ClearFrom(boot, a), a, k, u.scr, u.at)
    BY <2>2, <2>3, <2>6, TextShown
  <2>8. /\ screen = Kprintf(Now(ClearFrom(boot, a), a), k).scr
        /\ crtat = Kprintf(Now(ClearFrom(boot, a), a), k).at
    BY <2>1, <2>2 DEF Now, boot, blank
  <2>9. Shows(ClearFrom(boot, a), a, k, screen, crtat)
    BY <2>7, <2>8
  <2>10. First(a, b, k)
    <3>1. page = PutText(FromCells([i \in Cell |-> Blank], a), b).page
      BY DEF page, blank
    <3> DEFINE cells == [i \in Cell |-> page[(i \div COL) + 1][(i % COL) + 1]]
    <3>2. Shows(ClearFrom(cells, FirstAt(a)), FirstAt(a), k, screen, crtat)
      BY <2>2, <2>5, <2>9
    <3> QED BY <3>1, <3>2
  <2>11. PutsShown
    BY <2>10 DEF PutsShown
  <2>12. Quiet
    BY DEF Init
  <2> QED BY <2>11, <2>12
<1>2. Undisturbed /\ PutsShown /\ Quiet /\ [Next]_vars => (PutsShown /\ Quiet)'
  <2> SUFFICES ASSUME Undisturbed, PutsShown, Quiet, [Next]_vars, prints' = 0
               PROVE  PutsShown' /\ (\A p \in Printer : pc'[p] = "idle")
    BY DEF PutsShown
  <2>1. Printing /\ prints \in Nat
    BY ConsoleAssumption DEF Undisturbed, Printing
  <2>2. ASSUME NEW s \in KernelText, KernelPrint(s) PROVE FALSE
    BY <2>1, <2>2 DEF KernelPrint
  <2>3. ASSUME NEW p \in Printer, NEW s \in UserText, Begin(p, s) PROVE FALSE
    BY <2>1, <2>3 DEF Begin
  <2>4. ASSUME NEW p \in Printer, Step(p) PROVE prints' = prints
    <3>1. End(p) => prints' = prints
      BY DEF End, At
    <3>2. \A here, there : At(p, here, there) => prints' = prints
      BY DEF At
    <3> QED BY <2>4, <3>1, <3>2, StepAt
  <2>5. ASSUME NEW p \in Printer, Step(p) PROVE FALSE
    BY <2>1, <2>4, <2>5, StepDisturbs
  <2>6. UNCHANGED <<screen, crtat, pc, prints>>
    BY <2>2, <2>3, <2>5 DEF Next, vars, machine, local
  <2>7. prints = 0
    BY <2>6
  <2>8. PutsShown'
    <3>1. PICK a \in HwCursor, b \in BootText, k \in KernelText : First(a, b, k)
      BY <2>7 DEF PutsShown
    <3>2. First(a, b, k)'
      BY <2>6, <3>1 DEF Shows
    <3> QED BY <3>2 DEF PutsShown
  <2> QED BY <2>6, <2>7, <2>8
<1> HIDE DEF Quiet
<1> QED BY <1>1, <1>2, UndisturbedAlways, PTL DEF Spec
=============================================================================
