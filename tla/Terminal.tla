------------------------------ MODULE Terminal ------------------------------
(***************************************************************************)
(* What a screen of text promises: rows of characters and a cursor that    *)
(* each character moves.  Nothing is said of how the screen lies in memory *)
(* or of who prints.  The two programs that write to the screen, the boot  *)
(* loader and the kernel, are compared with it.                            *)
(***************************************************************************)
EXTENDS Integers, Sequences, SequencesExt

CONSTANTS
  COL,         \* columns
  ROW,         \* rows
  TAB,         \* distance of the tab stops
  Char         \* what a program prints

Blank == " "

ASSUME ScreenAssumption ==
  /\ COL \in Nat \ {0} /\ ROW \in Nat \ {0, 1} /\ TAB \in Nat \ {0}
  /\ COL % TAB = 0
  /\ Blank \in Char

BlankRow == [i \in 1 .. COL |-> Blank]

\* A terminal is a page of rows and the place of its cursor, both from 1.
Down(t) ==
  IF t.row < ROW THEN [t EXCEPT !.row = @ + 1]
  ELSE [t EXCEPT !.page = [r \in 1 .. ROW |-> IF r < ROW THEN t.page[r + 1] ELSE BlankRow]]

Home(t) == [t EXCEPT !.col = 1]

Right(t) == IF t.col < COL THEN [t EXCEPT !.col = @ + 1] ELSE Down(Home(t))

Left(t) ==
  IF t.col > 1 THEN [t EXCEPT !.col = @ - 1]
  ELSE [t EXCEPT !.row = @ - 1, !.col = COL]

Write(row, cols, c) == [i \in 1 .. COL |-> IF i \in cols THEN c ELSE row[i]]

\* The columns of the cursor's row from it to column k - 1 become c, and the
\* cursor goes to column k or to the next row.
Fill(t, k, c) ==
  Right([t EXCEPT !.col = k - 1,
                  !.page = ReplaceAt(@, t.row, Write(@[t.row], t.col .. k - 1, c))])

Show(t, c) == Fill(t, t.col + 1, c)

\* A tab shows blanks up to the next stop, one at least.
NextStop(t) == t.col + TAB - ((t.col - 1) % TAB)

Put(t, c) ==
  CASE c = "nl"  -> Down(Home(t))
    [] c = "cr"  -> Home(t)
    [] c = "bs"  -> Left(t)
    [] c = "tab" -> Fill(t, NextStop(t), Blank)
    [] OTHER     -> Show(t, c)

\* The terminal after the text s.
PutText(t, s) == FoldLeft(Put, t, s)

\* The terminal whose cells, row after row from 0, are scr and whose cursor
\* is at cell a.
FromCells(scr, a) ==
  [page |-> [r \in 1 .. ROW |-> [c \in 1 .. COL |-> scr[(r - 1) * COL + c - 1]]],
   row |-> a \div COL + 1, col |-> (a % COL) + 1]
=============================================================================
