------------------------------ MODULE Console -------------------------------
(***************************************************************************)
(* The screen: puts() of the boot loader (boot/zBoot/misc.c), then         *)
(* kprintf() of the kernel (c/kprintf.c).  kprintf() is called by the      *)
(* kernel, where nothing interrupts it, and by programs, which the timer   *)
(* can stop between any two instructions: kbmputc() keeps the cursor in    *)
(* one static variable, crtat, that all of them load and store.  A step of *)
(* a program is one access to crtat, to the screen or to a port, in the    *)
(* order of the compiled kbmputc().  A cell is a character: its attribute  *)
(* is always att.  Formatting is left out (_doprnt is in Format).          *)
(***************************************************************************)
EXTENDS Terminal

CONSTANTS
  Printer,     \* the programs
  UserText,    \* what they print
  KernelText,  \* what the kernel prints meanwhile
  BootText,    \* what the boot loader printed
  HwCursor,    \* where the cursor of the 6845 may be at first
  BYTE,        \* a register of the 6845 holds 0 .. BYTE-1
  MaxPrints,   \* bound on the texts printed after the kernel's first
  MaxAt        \* bound on crtat, which lost updates can move on and on

ASSUME ConsoleAssumption ==
  /\ UserText \cup KernelText \cup BootText \subseteq Seq(Char)
  /\ HwCursor \subseteq Nat /\ BYTE \in Nat \ {0} /\ MaxPrints \in Nat

VARIABLES
  screen,      \* the cells of video memory that are shown
  crtat,       \* the cell of the cursor, as kbmputc() knows it
  crtc,        \* 6845: the register selected, and registers 14 and 15
  pc,          \* where each program is in kprintf()
  todo,        \* the characters it has still to print
  ch,          \* the character it is putting
  tab,         \* it is putting the blanks of a tab
  reg,         \* crtat as it loaded it
  line,        \* the row it is copying
  prints,      \* texts begun
  before       \* screen and cursor when the program began, or <<>> when
               \* somebody printed since then

machine == <<screen, crtat, crtc>>
local   == <<pc, todo, ch, tab, reg, line>>
vars    == <<machine, local, prints, before>>

Cell  == 0 .. ROW * COL - 1
Limit == ROW * COL

\* What is stored beyond the screen is neither shown nor copied.
Store(scr, a, c) == IF a \in Cell THEN [scr EXCEPT ![a] = c] ELSE scr

CopyRow(scr, r) ==
  [a \in Cell |-> IF a \div COL = r
                  THEN IF r = ROW - 1 THEN Blank ELSE scr[a + COL]
                  ELSE scr[a]]

Scroll(scr) == FoldLeft(CopyRow, scr, [i \in 1 .. ROW |-> i - 1])

\* C's remainder has the sign of the dividend.
CRem(a, m) == IF a >= 0 THEN a % m ELSE -((-a) % m)

\* puts() of the boot loader: its own cursor x, y, the same screen.
PutsDown(t) ==
  IF t.y + 1 >= ROW THEN [scr |-> Scroll(t.scr), x |-> 0, y |-> t.y]
  ELSE [t EXCEPT !.x = 0, !.y = @ + 1]

\* Wraps one column late.
BugPutsChar(t, c) ==
  IF c = "nl" THEN PutsDown(t)
  ELSE LET u == [t EXCEPT !.scr = Store(@, t.x + COL * t.y, c)]
       IN  IF u.x >= COL THEN PutsDown(u) ELSE [u EXCEPT !.x = @ + 1]

PutsChar(t, c) ==
  IF c = "nl" THEN PutsDown(t)
  ELSE LET u == [t EXCEPT !.scr = Store(@, t.x + COL * t.y, c)]
       IN  IF u.x + 1 >= COL THEN PutsDown(u) ELSE [u EXCEPT !.x = @ + 1]

Puts(scr, a, s) ==
  FoldLeft(PutsChar, [scr |-> scr, x |-> a % COL, y |-> a \div COL], s).scr

\* One call of kbmputc() with nothing in between: screen and crtat after it.
ScrollIf(t) ==
  IF t.at >= Limit THEN [scr |-> Scroll(t.scr), at |-> t.at - COL] ELSE t

KernelShow(t, c) == ScrollIf([scr |-> Store(t.scr, t.at, c), at |-> t.at + 1])

\* A screen and the static position of kbmputc().
Output == [scr : [Cell -> Char], at : Int]

KernelTab[t \in Output] ==
  LET u == KernelShow(t, Blank)
  IN  IF u.at % TAB = 0 THEN ScrollIf(u) ELSE KernelTab[u]

Kbmputc(t, c) ==
  CASE c = "tab" -> KernelTab[t]
    [] c = "bs"  -> ScrollIf([t EXCEPT !.at = @ - 1])
    [] c = "nl"  -> ScrollIf([t EXCEPT !.at = @ + COL - CRem(@ + COL, COL)])
    [] c = "cr"  -> ScrollIf([t EXCEPT !.at = @ - CRem(@, COL)])
    [] OTHER     -> KernelShow(t, c)

CursorSet(a) == [sel |-> 15, r14 |-> a \div BYTE, r15 |-> a % BYTE]
HwPos(r) == r.r14 * BYTE + r.r15

\* The first kprintf() of the kernel, in initproc(): it finds the cursor of the
\* 6845, which puts() has not moved, and clears the screen from there.
FirstAt(a) == IF a <= Limit THEN a ELSE 0
ClearFrom(scr, a) == [i \in Cell |-> IF i >= a THEN Blank ELSE scr[i]]

Kprintf(t, s) == FoldLeft(Kbmputc, t, s)

Init ==
  \E a \in HwCursor, b \in BootText, k \in KernelText :
    LET boot  == Puts([i \in Cell |-> Blank], a, b)
        first == Kprintf([scr |-> ClearFrom(boot, FirstAt(a)), at |-> FirstAt(a)], k)
    IN  /\ screen = first.scr
        /\ crtat = first.at
        /\ crtc = CursorSet(first.at)
        /\ pc = [p \in Printer |-> "idle"]
        /\ todo = [p \in Printer |-> <<>>]
        /\ ch = [p \in Printer |-> Blank]
        /\ tab = [p \in Printer |-> FALSE]
        /\ reg = [p \in Printer |-> 0]
        /\ line = [p \in Printer |-> 0]
        /\ prints = 0
        /\ before = [p \in Printer |-> <<>>]
-----------------------------------------------------------------------------
(* The kernel prints, in a system call or an interrupt of a program.        *)
KernelPrint(s) ==
  LET t == Kprintf([scr |-> screen, at |-> crtat], s)
  IN  /\ prints < MaxPrints
      /\ prints' = prints + 1
      /\ screen' = t.scr
      /\ crtat' = t.at
      /\ crtc' = CursorSet(t.at)
      /\ before' = [p \in Printer |-> <<>>]
      /\ UNCHANGED local

(* A program calls kprintf().                                              *)
Begin(p, s) ==
  /\ pc[p] = "idle" /\ prints < MaxPrints
  /\ prints' = prints + 1
  /\ pc' = [pc EXCEPT ![p] = "fetch"]
  /\ todo' = [todo EXCEPT ![p] = s]
  /\ before' = [q \in Printer |-> IF q = p THEN <<screen, crtat, s>> ELSE <<>>]
  /\ UNCHANGED <<machine, ch, tab, reg, line>>

\* A step of p from one place to another; whoever else is printing is disturbed.
At(p, here, there) ==
  /\ pc[p] = here
  /\ pc' = [pc EXCEPT ![p] = there]
  /\ before' = [q \in Printer |-> IF q = p THEN before[q] ELSE <<>>]
  /\ UNCHANGED prints

\* Where kbmputc() goes with each character.
Entry(c) ==
  CASE c = "nl" -> "line" [] c = "cr" -> "col" [] c = "bs" -> "back" [] OTHER -> "load"

Fetch(p) ==
  /\ todo[p] # <<>>
  /\ At(p, "fetch", Entry(Head(todo[p])))
  /\ tab' = [tab EXCEPT ![p] = Head(todo[p]) = "tab"]
  /\ ch' = [ch EXCEPT ![p] = IF Head(todo[p]) = "tab" THEN Blank ELSE Head(todo[p])]
  /\ todo' = [todo EXCEPT ![p] = Tail(@)]
  /\ UNCHANGED <<machine, reg, line>>

End(p) ==
  /\ todo[p] = <<>>
  /\ At(p, "fetch", "idle")
  /\ ch' = [ch EXCEPT ![p] = Blank]
  /\ UNCHANGED <<machine, todo, tab, reg, line>>

Load(p, here, there) ==
  /\ At(p, here, there)
  /\ reg' = [reg EXCEPT ![p] = crtat]
  /\ UNCHANGED <<machine, todo, ch, tab, line>>

\* The register is not used again: it is forgotten.
Save(p, here, a, there) ==
  /\ At(p, here, there)
  /\ a <= MaxAt
  /\ crtat' = a
  /\ reg' = [reg EXCEPT ![p] = 0]
  /\ UNCHANGED <<screen, crtc, todo, ch, tab, line>>

Paint(p) ==
  /\ At(p, "put", "right")
  /\ screen' = Store(screen, reg[p], ch[p])
  /\ reg' = [reg EXCEPT ![p] = 0]
  /\ UNCHANGED <<crtat, crtc, todo, ch, tab, line>>

\* crtat -= (crtat - Crtat) % (COL*CHR) loads crtat twice.
Column(p) ==
  /\ At(p, "rem", "home")
  /\ reg' = [reg EXCEPT ![p] = @ - CRem(crtat, COL)]
  /\ UNCHANGED <<machine, todo, ch, tab, line>>

\* The end of kbmputc(): a scroll when the cursor has left the screen.
BugTest(p) ==
  /\ At(p, "test", IF crtat > Limit THEN "copy" ELSE "curs")
  /\ UNCHANGED <<machine, todo, ch, tab, reg, line>>

Test(p) ==
  /\ At(p, "test", IF crtat >= Limit THEN "copy" ELSE "curs")
  /\ UNCHANGED <<machine, todo, ch, tab, reg, line>>

\* As in a copy that does not start over with the first row.
BugCopy(p) ==
  /\ At(p, "copy", IF line[p] = ROW - 1 THEN "up" ELSE "copy")
  /\ screen' = CopyRow(screen, line[p])
  /\ line' = [line EXCEPT ![p] = @ + 1]
  /\ UNCHANGED <<crtat, crtc, todo, ch, tab, reg>>

Copy(p) ==
  /\ At(p, "copy", IF line[p] = ROW - 1 THEN "up" ELSE "copy")
  /\ screen' = CopyRow(screen, line[p])
  /\ line' = [line EXCEPT ![p] = (@ + 1) % ROW]
  /\ UNCHANGED <<crtat, crtc, todo, ch, tab, reg>>

\* cursor(): select a register of the 6845, then write it.
Select(p, here, r, there) ==
  /\ At(p, here, there)
  /\ crtc' = [crtc EXCEPT !.sel = r]
  /\ UNCHANGED <<screen, crtat, todo, ch, tab, reg, line>>

Out(p, here, v, there) ==
  /\ At(p, here, there)
  /\ crtc' = IF crtc.sel = 14 THEN [crtc EXCEPT !.r14 = v] ELSE [crtc EXCEPT !.r15 = v]
  /\ UNCHANGED <<screen, crtat, todo, ch, tab, reg, line>>

\* kbmputc() returns: to itself between the blanks of a tab.
Return(p) ==
  LET more == tab[p] /\ crtat % TAB # 0
  IN  /\ At(p, "ret", IF more THEN "load" ELSE IF tab[p] THEN "test" ELSE "fetch")
      /\ tab' = [tab EXCEPT ![p] = more]
      /\ reg' = [reg EXCEPT ![p] = 0]
      /\ UNCHANGED <<machine, todo, ch, line>>

Step(p) ==
  \/ Fetch(p) \/ End(p)
  \/ Load(p, "load", "put") \/ Paint(p)
  \/ Load(p, "right", "inc") \/ Save(p, "inc", reg[p] + 1, "test")
  \/ Load(p, "back", "dec")  \/ Save(p, "dec", reg[p] - 1, "test")
  \/ Load(p, "line", "down") \/ Save(p, "down", reg[p] + COL, "col")
  \/ Load(p, "col", "rem") \/ Column(p) \/ Save(p, "home", reg[p], "test")
  \/ Test(p) \/ Copy(p)
  \/ Load(p, "up", "sub") \/ Save(p, "sub", reg[p] - COL, "curs")
  \/ Load(p, "curs", "sel14")
  \/ Select(p, "sel14", 14, "out14") \/ Out(p, "out14", reg[p] \div BYTE, "sel15")
  \/ Select(p, "sel15", 15, "out15") \/ Out(p, "out15", reg[p] % BYTE, "ret")
  \/ Return(p)

Next ==
  \/ \E s \in KernelText : KernelPrint(s)
  \/ \E p \in Printer : Step(p) \/ \E s \in UserText : Begin(p, s)

Spec == Init /\ [][Next]_vars
-----------------------------------------------------------------------------
\* Each variable keeps its type.
TypeOK ==
  /\ screen \in [Cell -> Char] /\ crtat \in Int
  /\ crtc.sel \in {14, 15}
  /\ \A p \in Printer :
       /\ pc[p] = "idle" => todo[p] = <<>> /\ ~tab[p]
       /\ reg[p] \in Int /\ line[p] \in 0 .. ROW - 1
  /\ prints \in 0 .. MaxPrints

\* What text s makes of the screen scr with its cursor at a.
Shows(scr, a, s, scr2, a2) == FromCells(scr2, a2) = PutText(FromCells(scr, a), s)

\* Whatever races moved the cursor before, as long as they left it on the
\* screen: a text that nobody interrupts with another is shown as a terminal
\* shows it, and the 6845 has the cursor where crtat is.  The kernel's texts are
\* never interrupted (kprintf.c, lines 94-173).
PrintShown ==
  [][/\ \A p \in Printer :
          /\ pc[p] # "idle" /\ pc'[p] = "idle"
          /\ before[p] # <<>> /\ before[p][2] \in Cell
          => /\ Shows(before[p][1], before[p][2], before[p][3], screen', crtat')
             /\ HwPos(crtc') = crtat'
     /\ \A s \in KernelText :
          KernelPrint(s) /\ crtat \in Cell => Shows(screen, crtat, s, screen', crtat')]_vars

\* What the programs find: the text that puts() of the boot loader showed by its
\* own column and row, blank from the cursor that kprintf() asked the 6845 for,
\* and behind that the first text of the kernel (misc.c, lines 121-159;
\* kprintf.c, lines 105-133).
PutsShown ==
  prints = 0 =>
    \E a \in HwCursor, b \in BootText, k \in KernelText :
      LET page  == PutText(FromCells([i \in Cell |-> Blank], a), b).page
          cells == [i \in Cell |-> page[(i \div COL) + 1][(i % COL) + 1]]
      IN  Shows(ClearFrom(cells, FirstAt(a)), FirstAt(a), k, screen, crtat)
=============================================================================
