------------------------------ MODULE Library ------------------------------
(***************************************************************************)
(* Programs that use the C library, lib/libxc, at the same time: sprintf() *)
(* and sscanf() of a text, and qsort().  All of it runs on a program's own *)
(* stack but two statics that the programs share, as they share the kernel *)
(* image: _sctab[] of doscan.c, where %[ puts the class it looks for, and  *)
(* qses of qsort.c, the size of an element.  The clock may stop a program  *)
(* between any two instructions, so a step reads or writes a static once   *)
(* at most.  A single bit of _sctab[] is set or cleared; the other bit of  *)
(* it never changes, so a read and the write that follows are one step.    *)
(***************************************************************************)
EXTENDS Format

CONSTANTS Programs, Jobs, Alphabet

\* Jobs is a set of functions from Programs to what each of them calls:
\*   [kind |-> "text", out, args, in]  sprintf(text, out, args), sscanf(text, in, ...)
\*   [kind |-> "sort", data, es]       qsort() of the bytes data, es to an element
\*   [kind |-> "none"]
\* An item of in is a character, a white space or a conversion, class what is
\* between [ and ].  Alphabet has the characters of the classes and of the texts
\* they are sought in.  Every argument fits its conversion.
Conversion == [type : {"d", "o", "x", "c", "s", "["}, len : Nat \ {0},
               size : {"short", "int", "long"}, star : BOOLEAN, neg : BOOLEAN, class : Seq(Alphabet)]
ScanItem == [type : {"space"}] \cup [type : {"char"}, c : Int] \cup Conversion

\* What a call prints, and whether it seeks a class there.
Printout(call) == _doprnt(call.out, call.args).out
HasClass(items) == \E i \in 1 .. Len(items) : items[i].type = "["

ASSUME LibraryAssumption ==
  /\ Alphabet \subseteq 1 .. 127
  /\ \A jobs \in Jobs : \A p \in Programs :
       /\ jobs[p].kind \in {"none", "text", "sort"}
       /\ jobs[p].kind = "text" =>
            /\ jobs[p].in \in Seq(ScanItem) /\ Printout(jobs[p]) \in Seq(Int)
            /\ HasClass(jobs[p].in) => Printout(jobs[p]) \in Seq(Alphabet)
       /\ jobs[p].kind = "sort" =>
            /\ jobs[p].data \in Seq(Int) /\ jobs[p].es \in Nat \ {0}
            /\ Len(jobs[p].data) % jobs[p].es = 0

VARIABLES
  job,     \* what each program calls
  pc,      \* where it is
  text,    \* the string it prints to and scans
  scan,    \* the locals of _doscan() and of what it calls
  sort,    \* the memory around the array, and the locals of qs1()
  _sctab,  \* the characters with the bit STP
  qses,    \* the size of an element
  alone    \* history: nobody else touched what the program's call relies on

vars == <<job, pc, text, scan, sort, _sctab, qses, alone>>

EOF == -1
DefaultLen == 30000
GUARD == 2      \* bytes the model keeps on each side of an array

IdleScan == [todo |-> <<>>, pos |-> 1, nmatch |-> 0, got |-> <<>>, ret |-> 0,
             len |-> 0, from |-> 1, buf |-> <<>>, clear |-> {}, class |-> <<>>]
IdleSort == [mem |-> <<>>, a |-> 0, l |-> 0, i |-> 0, j |-> 0, lp |-> 0, hp |-> 0,
             es |-> 0, stack |-> <<>>]

\* The bytes of the array from address 0 on, and the guards.
Array(data) ==
  [x \in -GUARD .. Len(data) + GUARD - 1 |-> IF x \in 0 .. Len(data) - 1 THEN data[x + 1] ELSE 0]

Init ==
  /\ job \in Jobs
  /\ pc = [p \in Programs |-> job[p].kind]
  /\ text = [p \in Programs |-> <<>>]
  /\ scan = [p \in Programs |-> IdleScan]
  /\ sort = [p \in Programs |-> IF job[p].kind = "sort"
                                THEN [IdleSort EXCEPT !.mem = Array(job[p].data)] ELSE IdleSort]
  /\ _sctab = {}
  /\ qses = 0
  /\ alone = [p \in Programs |-> TRUE]

Goto(p, label) == pc' = [pc EXCEPT ![p] = label]
-----------------------------------------------------------------------------
(* sprintf() and sscanf().                                                  *)

\* sprintf(): a number that does not fit its buffer ruins the stack.
sprintf(p) ==
  LET t == _doprnt(job[p].out, job[p].args)
  IN  /\ pc[p] = "text"
      /\ text' = [text EXCEPT ![p] = t.out]
      /\ scan' = [scan EXCEPT ![p].todo = job[p].in]
      /\ Goto(p, IF t.ok THEN "scan" ELSE "wild")
      /\ UNCHANGED <<job, sort, _sctab, qses, alone>>

InScan(p) == pc[p] = "scan" /\ UNCHANGED <<job, text, sort, _sctab, qses, alone>>
Item(p) == Head(scan[p].todo)

Return(p, s, ret) ==
  /\ scan' = [scan EXCEPT ![p] = [s EXCEPT !.ret = ret]]
  /\ Goto(p, "done")

Continue(p, s) ==
  /\ scan' = [scan EXCEPT ![p] = [s EXCEPT !.todo = Tail(@)]]
  /\ Goto(p, "scan")

\* sgetch() answers EOF at the end of the text, and stays there.
AtEnd(p, pos) == pos > Len(text[p])

\* What follows a conversion: a value goes to the next argument unless there
\* is a star, and one that failed leaves its argument as it was and is no
\* reason to stop; the end of the text is.
Converted(p, s, value, ended) ==
  LET item == Item(p)
      t == [s EXCEPT !.got = IF item.star THEN @ ELSE Append(@, value),
                     !.nmatch = IF item.star \/ value = <<>> THEN @ ELSE @ + 1]
  IN  IF ended THEN Return(p, t, IF t.nmatch # 0 THEN t.nmatch ELSE EOF) ELSE Continue(p, t)

EndOfFormat(p) ==
  /\ InScan(p)
  /\ scan[p].todo = <<>>
  /\ Return(p, scan[p], scan[p].nmatch)

WhiteSpace(p) ==
  /\ InScan(p)
  /\ scan[p].todo # <<>> /\ Item(p).type = "space"
  /\ Continue(p, [scan[p] EXCEPT !.pos = PastAll(text[p], @, Blanks)])

Character(p) ==
  LET s == scan[p]
  IN  /\ InScan(p)
      /\ s.todo # <<>> /\ Item(p).type = "char"
      /\ IF AtEnd(p, s.pos) THEN Return(p, s, EOF)
         ELSE IF text[p][s.pos] # Item(p).c THEN Return(p, s, s.nmatch)
         ELSE Continue(p, [s EXCEPT !.pos = @ + 1])

ReadNumber(p) ==
  LET s == scan[p]
      n == _innum(text[p], s.pos, Item(p).type, Item(p).len)
      value == IF n.some THEN <<Stored(Item(p).size, n.v)>> ELSE <<>>
  IN  /\ InScan(p)
      /\ s.todo # <<>> /\ Item(p).type \in {"d", "o", "x"}
      /\ Converted(p, [s EXCEPT !.pos = n.pos], value, AtEnd(p, n.pos))

\* _instr() up to the first character; %[ has _getccl() read the class before.
ReadString(p) ==
  LET s == scan[p]
      item == Item(p)
      pos == IF item.type = "s" THEN PastAll(text[p], s.pos, Blanks) ELSE s.pos
      len == IF item.type = "c" /\ item.len = DefaultLen THEN 1 ELSE item.len
  IN  /\ InScan(p)
      /\ s.todo # <<>> /\ item.type \in {"c", "s", "["}
      /\ scan' = [scan EXCEPT ![p] = [s EXCEPT !.pos = pos, !.len = len, !.from = pos, !.buf = <<>>,
                                               !.clear = Alphabet, !.class = item.class]]
      /\ Goto(p, IF item.type = "[" THEN "class" ELSE "take")

\* Forgets to take the bit away.
BugSetSTP(p, c, on) ==
  /\ _sctab' = IF on THEN _sctab \cup {c} ELSE _sctab
  /\ alone' = [q \in Programs |->
                 alone[q] /\ ~(q # p /\ pc[q] \in {"class", "take"} /\ Item(q).type = "[")]
  /\ UNCHANGED <<job, text, sort, qses>>

\* A write to the table is an interruption for whoever else is at a class.
SetSTP(p, c, on) ==
  /\ _sctab' = IF on THEN _sctab \cup {c} ELSE _sctab \ {c}
  /\ alone' = [q \in Programs |->
                 alone[q] /\ ~(q # p /\ pc[q] \in {"class", "take"} /\ Item(q).type = "[")]
  /\ UNCHANGED <<job, text, sort, qses>>

\* _getccl() gives every character the one value, in the order of their codes,
_getcclAll(p) ==
  LET c == Min(scan[p].clear)
  IN  /\ pc[p] = "class"
      /\ scan[p].clear # {}
      /\ SetSTP(p, c, ~Item(p).neg)
      /\ scan' = [scan EXCEPT ![p].clear = @ \ {c}]
      /\ UNCHANGED pc

\* and then those of the class the other.
_getcclClass(p) ==
  LET class == scan[p].class
  IN  /\ pc[p] = "class"
      /\ scan[p].clear = {}
      /\ IF class = <<>>
         THEN Goto(p, "take") /\ UNCHANGED <<job, text, scan, sort, _sctab, qses, alone>>
         ELSE /\ SetSTP(p, Head(class), Item(p).neg)
              /\ scan' = [scan EXCEPT ![p].class = Tail(@)]
              /\ UNCHANGED pc

\* One character of _instr().  The last one of a full field is not looked behind.
_instr(p) ==
  LET s == scan[p]
      c == text[p][s.pos]
      stop == CASE Item(p).type = "[" -> c \in _sctab
                [] Item(p).type = "s" -> c \in Blanks
                [] OTHER -> FALSE
      value == IF s.buf = <<>> THEN <<>> ELSE <<s.buf>>
      taken == [s EXCEPT !.buf = Append(@, c), !.pos = @ + 1, !.len = @ - 1]
  IN  /\ pc[p] = "take"
      /\ IF AtEnd(p, s.pos) THEN Converted(p, s, value, TRUE)
         ELSE IF stop THEN Converted(p, s, value, FALSE)
         ELSE IF s.len <= 1 THEN Converted(p, taken, <<taken.buf>>, FALSE)
         ELSE scan' = [scan EXCEPT ![p] = taken] /\ UNCHANGED pc
      /\ UNCHANGED <<job, text, sort, _sctab, qses, alone>>
-----------------------------------------------------------------------------
(* qsort().  An element is ordered by its first byte.                       *)

Sorting(q) == pc[q] \in {"enter", "start", "left", "right"}

qsort(p) ==
  /\ pc[p] = "sort"
  /\ qses' = job[p].es
  /\ sort' = [sort EXCEPT ![p].l = Len(job[p].data)]
  /\ alone' = [q \in Programs |-> alone[q] /\ (Sorting(q) => job[q].es = qses')]
  /\ Goto(p, "enter")
  /\ UNCHANGED <<job, text, scan, _sctab>>

\* The step of p leads to s at label, unless it went outside of what it may touch.
Then(p, s, label) ==
  /\ sort' = [sort EXCEPT ![p] = s]
  /\ Goto(p, label)
  /\ UNCHANGED <<job, text, scan, _sctab, qses, alone>>

\* qs1() keeps the size it found when it was entered.
Enter(p) ==
  /\ pc[p] = "enter"
  /\ Then(p, [sort[p] EXCEPT !.es = qses], "start")

\* The middle, between lp and hp, is one element at first.
BugMiddle(s) ==
  LET m == s.a + s.es * ((s.l - s.a) \div (2 * s.es))
  IN  [s EXCEPT !.lp = m, !.hp = m, !.i = s.a, !.j = s.l]

Middle(s) ==
  LET m == s.a + s.es * ((s.l - s.a) \div (2 * s.es))
  IN  [s EXCEPT !.lp = m, !.hp = m, !.i = s.a, !.j = s.l - s.es]

Start(p) ==
  LET s == sort[p]
  IN  /\ pc[p] = "start"
      /\ IF s.l < s.a THEN Then(p, s, "wild")
         ELSE IF s.l - s.a > s.es THEN Then(p, Middle(s), "left")
         ELSE IF s.stack = <<>> THEN Then(p, s, "done")
         ELSE LET caller == Head(s.stack)
              IN  Then(p, [s EXCEPT !.a = caller.a, !.l = caller.l, !.es = caller.es,
                                    !.stack = Tail(@)], "start")

Bytes(x, n) == x .. x + n - 1
Own(s, places, n) == \A x \in places : Bytes(x, n) \subseteq DOMAIN s.mem

\* qsexc(i, j): the bytes one after the other, qses of them.
qsexc(mem, i, j, n) ==
  FoldLeft(LAMBDA m, k : [m EXCEPT ![i + k] = m[j + k], ![j + k] = m[i + k]],
           mem, [k \in 1 .. n |-> k - 1])

\* qstexc(i, j, k): what k has goes to i, what j has to k, what i has to j.
Bug_qstexc(mem, i, j, k, n) ==
  FoldLeft(LAMBDA m, x : [m EXCEPT ![i + x] = m[k + x], ![k + x] = m[i + x]],
           mem, [x \in 1 .. n |-> x - 1])

qstexc(mem, i, j, k, n) ==
  FoldLeft(LAMBDA m, x : LET c == m[i + x]
                             m1 == [m EXCEPT ![i + x] = m[k + x]]
                             m2 == [m1 EXCEPT ![k + x] = m1[j + x]]
                         IN  [m2 EXCEPT ![j + x] = c],
           mem, [x \in 1 .. n |-> x - 1])

\* From the lower end: what equals the middle goes beside it.
Left(p) ==
  LET s == sort[p]
      c == s.mem[s.i] - s.mem[s.lp]
  IN  /\ pc[p] = "left"
      /\ IF s.i >= s.lp THEN Then(p, s, "right")
         ELSE IF ~Own(s, {s.i, s.lp}, 1) THEN Then(p, s, "wild")
         ELSE IF c < 0 THEN Then(p, [s EXCEPT !.i = @ + s.es], "left")
         ELSE IF c > 0 THEN Then(p, s, "right")
         ELSE IF ~Own(s, {s.i, s.lp - s.es}, qses) THEN Then(p, s, "wild")
         ELSE Then(p, [s EXCEPT !.lp = s.lp - s.es,
                                !.mem = qsexc(@, s.i, s.lp - s.es, qses)], "left")

\* Both ends met the middle: the smaller part is sorted by a call, the larger
\* one by going on.
BugRecur(s) ==
  IF s.lp - s.a >= s.l - s.hp
  THEN [s EXCEPT !.l = s.lp, !.stack = <<[a |-> s.hp + s.es, l |-> s.l, es |-> s.es]>> \o @]
  ELSE [s EXCEPT !.a = s.hp + s.es, !.stack = <<[a |-> s.a, l |-> s.lp, es |-> s.es]>> \o @]

Recur(s) ==
  IF s.lp - s.a >= s.l - s.hp
  THEN [s EXCEPT !.a = s.hp + s.es, !.stack = <<[a |-> s.a, l |-> s.lp, es |-> s.es]>> \o @]
  ELSE [s EXCEPT !.l = s.lp, !.stack = <<[a |-> s.hp + s.es, l |-> s.l, es |-> s.es]>> \o @]

\* From the upper end.
Right(p) ==
  LET s == sort[p]
      e == s.es
      c == s.mem[s.hp] - s.mem[s.j]
  IN  /\ pc[p] = "right"
      /\ IF s.j <= s.hp
         THEN IF s.i = s.lp THEN Then(p, Recur(s), "enter")
              ELSE IF ~Own(s, {s.j, s.lp - e, s.i}, qses) THEN Then(p, s, "wild")
              ELSE Then(p, [s EXCEPT !.lp = @ - e, !.hp = @ - e, !.j = s.hp - e,
                                     !.mem = qstexc(@, s.j, s.lp - e, s.i, qses)], "left")
         ELSE IF ~Own(s, {s.hp, s.j}, 1) THEN Then(p, s, "wild")
         ELSE IF c < 0 THEN Then(p, [s EXCEPT !.j = @ - e], "right")
         ELSE IF c = 0
         THEN IF ~Own(s, {s.hp + e, s.j}, qses) THEN Then(p, s, "wild")
              ELSE Then(p, [s EXCEPT !.hp = @ + e, !.mem = qsexc(@, s.hp + e, s.j, qses)], "right")
         ELSE IF ~Own(s, {s.i, s.hp + e, s.j}, qses) THEN Then(p, s, "wild")
         ELSE IF s.i = s.lp
         THEN Then(p, [s EXCEPT !.hp = @ + e, !.lp = @ + e, !.i = s.lp + e,
                                !.mem = qstexc(@, s.i, s.hp + e, s.j, qses)], "right")
         ELSE Then(p, [s EXCEPT !.i = @ + e, !.j = @ - e,
                                !.mem = qsexc(@, s.i, s.j, qses)], "left")
-----------------------------------------------------------------------------
Step(p) ==
  \/ sprintf(p) \/ EndOfFormat(p) \/ WhiteSpace(p) \/ Character(p)
  \/ ReadNumber(p) \/ ReadString(p)
  \/ _getcclAll(p) \/ _getcclClass(p) \/ _instr(p)
  \/ qsort(p) \/ Enter(p) \/ Start(p) \/ Left(p) \/ Right(p)

Next == \E p \in Programs : Step(p)

Spec == Init /\ [][Next]_vars
-----------------------------------------------------------------------------
Calls == {"none", "text", "scan", "class", "take", "sort", "enter", "start", "left", "right",
          "done", "wild"}

\* The pointers of a partition: what is sorted out lies below i and above j, the
\* middle between lp and hp.
PointersOrdered(p) ==
  LET s == sort[p]
  IN  /\ {s.a, s.l} \subseteq 0 .. Len(job[p].data)
      /\ pc[p] \in {"left", "right"} =>
           s.a <= s.i /\ s.i <= s.lp /\ s.lp <= s.hp /\ s.hp <= s.j /\ s.j <= s.l - s.es

\* Every program is at a place of the code, the table has bits for characters
\* only, a scan does not leave its text, and neither do the pointers of a sort
\* that has qses to itself leave their order.
TypeOK ==
  /\ pc \in [Programs -> Calls]
  /\ _sctab \subseteq Alphabet
  /\ alone \in [Programs -> BOOLEAN]
  /\ \A p \in Programs :
       /\ scan[p].pos \in 1 .. Len(text[p]) + 1
       /\ scan[p].ret \in EOF .. Len(scan[p].got)
       /\ Sorting(p) /\ alone[p] => PointersOrdered(p)

Printed(p) == job[p].kind = "text" /\ pc[p] \in {"scan", "class", "take", "done"}
NumberBase(conv) ==
  CASE conv = "o" -> 8 [] conv = "x" -> 16 [] conv = "b" -> 2 [] OTHER -> 10
IsNumber(item) == item.conv \in Numeric /\ ~(item.left /\ item.zero)

\* The text t of x: the numeral, whatever its base, has the value of x, has no
\* zeros in front but those that fill the field, and is as wide as asked for (a
\* width beyond MAXSTR asks for none).
NumberRight(item, width, x, t) ==
  LET shown  == SelectSeq(t, LAMBDA c : c # Space)
      blanks == [i \in 1 .. Len(t) - Len(shown) |-> Space]
      minus  == item.conv = "d" /\ x < 0
      digits == IF minus THEN Tail(shown) ELSE shown
  IN  /\ t = IF item.left THEN shown \o blanks ELSE blanks \o shown
      /\ minus => shown[1] = Minus
      /\ digits # <<>>
      /\ \A i \in DOMAIN digits : DigitValue(digits[i]) \in 0 .. NumberBase(item.conv) - 1
      /\ Value(digits, NumberBase(item.conv)) = Halves(IF minus THEN Neg(x) ELSE x)
      /\ Len(t) >= width
      /\ Len(t) > width => blanks = <<>>
      /\ digits[1] = Zero => Len(digits) = 1 \/ (item.zero /\ Len(t) = width)

\* What _doprnt() prints for a number is that number, in a field as wide as the
\* format wants: for the words a base or a sign makes hard, and for what the
\* loop of %u takes off and adds to the first digit.
PrintedRight ==
  \A p \in Programs :
    Printed(p) /\ Len(job[p].out) = 1 /\ IsNumber(job[p].out[1]) =>
      LET item == job[p].out[1]
      IN  NumberRight(item, Within(IF item.min = STAR THEN job[p].args[1] ELSE item.min),
                      Last(job[p].args), text[p])

\* Conversions that are each other's inverse, and are kept apart by a character
\* that is no digit or by the width of a field that is filled with zeros.
Inverts(out, in, args) ==
  LET Nth(i) == Cardinality({k \in 1 .. i : out[k].conv # "char"})
      Fits(i) == Len(Body(out[i].conv, args[Nth(i)], <<>>))
                   + (IF out[i].conv = "d" /\ args[Nth(i)] < 0 THEN 1 ELSE 0) <= out[i].min
  IN  /\ Len(out) = Len(in)
      /\ \A i \in DOMAIN out :
           IF out[i].conv = "char"
           THEN \/ in[i].type = "space" /\ out[i].c \in Blanks
                \/ in[i].type = "char" /\ out[i].c = in[i].c /\ ~IsDigit(in[i].c, 16)
           ELSE IF out[i].conv = "s"
           THEN /\ in[i].type = "s" /\ in[i].len = DefaultLen /\ ~in[i].star
                /\ args[Nth(i)] # <<>> /\ ToSet(args[Nth(i)]) \cap Blanks = {} /\ out[i].max = 0
                /\ i < Len(out) => in[i + 1].type = "space"
           ELSE /\ out[i].conv \in {"d", "u", "o", "x"} /\ IsNumber(out[i])
                /\ out[i].min # STAR
                /\ out[i].left /\ i < Len(out) => in[i + 1].type = "space"
                /\ in[i].type = IF out[i].conv = "u" THEN "d" ELSE out[i].conv
                /\ in[i].size # "short" /\ ~in[i].star
                /\ \/ in[i].len = DefaultLen /\ (i < Len(out) => out[i + 1].conv = "char")
                   \/ in[i].len = out[i].min /\ out[i].zero /\ Fits(i)

\* Numbers and words that are printed and scanned come back, each in its
\* argument, and atoi() and
\* atol() agree, whatever wraps on the way.
ScannedBack ==
  \A p \in Programs :
    /\ Printed(p) /\ pc[p] = "done" /\ Inverts(job[p].out, job[p].in, job[p].args) =>
         /\ scan[p].got = [i \in DOMAIN job[p].args |-> <<job[p].args[i]>>]
         /\ scan[p].ret = Len(job[p].args)
    /\ Printed(p) /\ Len(job[p].out) = 1 /\ IsNumber(job[p].out[1])
         /\ job[p].out[1].conv \in {"d", "u"} => {atoi(text[p]), atol(text[p])} = {Last(job[p].args)}

\* The characters a conversion accepts, and how many.
Accepts(item, c) ==
  CASE item.type = "[" -> (c \in ToSet(item.class)) # item.neg
    [] item.type = "s" -> c \notin Blanks
    [] OTHER -> TRUE
Limit(item) == IF item.type = "c" /\ item.len = DefaultLen THEN 1 ELSE item.len

\* A string conversion that ends has taken as many characters as it accepts and
\* no more, has stored them unless there is a star, and has not touched what
\* follows; %[ only if no other program used the table meanwhile, %s and %c in
\* any case.
ClassRight ==
  [][\A p \in Programs :
       LET s == scan[p]
           item == Item(p)
           end == Min({Len(text[p]) + 1, s.from + Limit(item)}
                        \cup {i \in s.from .. Len(text[p]) : ~Accepts(item, text[p][i])})
           taken == SubSeq(text[p], s.from, end - 1)
       IN  pc[p] = "take" /\ pc'[p] # "take" /\ (item.type = "[" => alone[p]) =>
             /\ scan'[p].pos = end
             /\ ~item.star =>
                  scan'[p].got = Append(s.got, IF taken = <<>> THEN <<>> ELSE <<taken>>)
    ]_vars

Elements(data, es) == [i \in 1 .. Len(data) \div es |-> SubSeq(data, (i - 1) * es + 1, i * es)]
\* A part of the array is at most half of the array for every call that is open.
Doublings[d \in Nat] == IF d = 0 THEN 1 ELSE 2 * Doublings[d - 1]

SortedData(p) == [i \in 1 .. Len(job[p].data) |-> sort[p].mem[i - 1]]
Count(e, elements) == Cardinality({i \in DOMAIN elements : elements[i] = e})

\* A sort that has qses to itself ends with its elements in order, none lost or
\* torn, and nothing around them touched; and as the smaller part is what it
\* calls itself for, it never has more calls open than the array can be halved,
\* which bounds what it needs of a stack that cannot grow.
SortedRight ==
  \A p \in Programs :
    job[p].kind = "sort" /\ alone[p] =>
      LET before == Elements(job[p].data, job[p].es)
          after  == Elements(SortedData(p), job[p].es)
          array  == 0 .. Len(job[p].data) - 1
      IN  /\ pc[p] # "wild"
          /\ \A x \in DOMAIN sort[p].mem \ array : sort[p].mem[x] = 0
          /\ pc[p] = "done" =>
               /\ \A i \in 1 .. Len(after) - 1 : after[i][1] <= after[i + 1][1]
               /\ \A i \in DOMAIN before : Count(before[i], before) = Count(before[i], after)
          /\ Doublings[Len(sort[p].stack)] <= Max({1, Len(before)})
=============================================================================
