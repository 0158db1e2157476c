------------------------------- MODULE Format -------------------------------
(***************************************************************************)
(* Numbers as text in the C library, lib/libxc: _doprnt() of doprnt.c, on  *)
(* which kprintf() and sprintf() rest, the numbers of _doscan() in         *)
(* doscan.c, and atoi().  A character is its code, a word a signed integer *)
(* of 32 bits, a text a sequence of codes without the final 0.  A format   *)
(* is a sequence of items: a character to copy, or a conversion.  All      *)
(* arguments have four bytes, so the branches for short ones are left out. *)
(***************************************************************************)
EXTENDS Integers, Sequences, FiniteSets, SequencesExt

MAXSTR == 80     \* the widest field
STRINGSIZE == 20 \* bytes of string[], where a number is put
STAR   == -1     \* the width that stands for the next argument

Space == 32
Minus == 45
Plus  == 43
Zero  == 48
Blanks == {9, 10, Space}

INT_MIN == -2147483647 - 1
Neg(x) == IF x = INT_MIN THEN x ELSE -x
Signed16(h) == ((h + 32768) % 65536) - 32768

\* x * f + c of 32-bit words, c and f small.
MulAdd(x, f, c) ==
  LET lo == (x % 65536) * f + c
      hi == (x \div 65536) * f + (lo \div 65536)
  IN  Signed16(hi) * 65536 + (lo % 65536)
-----------------------------------------------------------------------------
(* Printing.                                                                *)

\* temp[]: n digits of num, the last first; a shift keeps the sign.
Temp(num, base, n) ==
  LET q[i \in 1 .. n] == IF i = 1 THEN num ELSE q[i - 1] \div base
  IN  [i \in 1 .. n |-> q[i] % base]

\* Without leading zeros, but one digit at least.
Numeral(temp) ==
  Reverse(SubSeq(temp, 1, Max({1} \cup {i \in DOMAIN temp : temp[i] # 0})))

_prtl10(num) == Numeral(Temp(num, 10, 10))

\* Does not mask the last digit, which has two bits only.
Bug_prtl8(num) == Numeral(Temp(num, 8, 11))

_prtl8(num) == Numeral([Temp(num, 8, 11) EXCEPT ![11] = @ % 4])
_prtl16(num) == Numeral(Temp(num, 16, 8))
_prtl2(num) == Numeral(Temp(num, 2, 32))

\* A word that is negative as a signed one: less 10^9, modulo 2^32.
LessBillion(x) ==
  IF x >= INT_MIN + 1000000000 THEN x - 1000000000
  ELSE (x + 2147483647) + 1147483649

\* What is taken off until no sign is left is added to the first digit.
UnsignedDigits(x) ==
  LET y[k \in 0 .. 3] ==
        IF k = 0 THEN x ELSE IF y[k - 1] < 0 THEN LessBillion(y[k - 1]) ELSE y[k - 1]
      digit1 == Cardinality({k \in 0 .. 2 : y[k] < 0})
  IN  [_prtl10(y[3]) EXCEPT ![1] = @ + digit1]

DigitCode(d) == IF d < 10 THEN Zero + d ELSE 87 + d
Codes(digits) == [i \in DOMAIN digits |-> DigitCode(digits[i])]

Numeric == {"d", "u", "o", "x", "b"}

\* What a conversion of x prints but for sign and padding; str is string[] as
\* the conversion before left it, which is all that an unknown one has.
Body(conv, x, str) ==
  CASE conv = "d" -> Codes(UnsignedDigits(IF x < 0 THEN Neg(x) ELSE x))
    [] conv = "u" -> Codes(UnsignedDigits(x))
    [] conv = "o" -> Codes(_prtl8(x))
    [] conv = "x" -> Codes(_prtl16(x))
    [] conv = "b" -> Codes(_prtl2(x))
    [] conv = "c" -> IF x = 0 THEN <<>> ELSE <<x>>
    [] conv = "s" -> x
    [] OTHER      -> str

Within(w) == IF w \in 0 .. MAXSTR THEN w ELSE 0

\* The field: filled with blanks or zeros on the one side or the other.
Field(item, min, max, body, negative) ==
  LET fmax == IF item.conv \in Numeric \cup {"c"} THEN 0 ELSE Within(max)
      str  == IF fmax # 0 THEN SubSeq(body, 1, Min({fmax, Len(body)})) ELSE body
      sign == IF negative THEN <<Minus>> ELSE <<>>
      zero == item.zero /\ item.conv \notin {"c", "s"}
      pad  == [i \in 1 .. Within(min) - Len(str) - Len(sign) |-> IF zero THEN Zero ELSE Space]
  IN  IF item.left THEN sign \o str \o pad
      ELSE IF zero THEN sign \o pad \o str
      ELSE pad \o sign \o str

\* One turn of the loop: t has the arguments left, string[] and the output.  ok
\* turns FALSE when a number does not fit string[]: it is written over the stack.
Convert(t, item) ==
  LET stars == (IF item.min = STAR THEN 1 ELSE 0) + (IF item.max = STAR THEN 1 ELSE 0)
      min  == IF item.min = STAR THEN t.args[1] ELSE item.min
      max  == IF item.max = STAR THEN t.args[stars] ELSE item.max
      x    == t.args[stars + 1]
      body == Body(item.conv, x, t.str)
      echo == IF item.conv = "other" THEN <<item.c>> ELSE <<>>
  IN  [args |-> SubSeq(t.args, stars + 2, Len(t.args)),
       str  |-> IF item.conv = "s" THEN t.str ELSE body,
       ok   |-> t.ok /\ (item.conv \in Numeric => Len(body) < STRINGSIZE),
       out  |-> t.out \o echo
                  \o Field(item, min, max, body, item.conv = "d" /\ x < 0)]

_doprnt(fmt, args) ==
  FoldLeft(LAMBDA t, item : IF item.conv = "char" THEN [t EXCEPT !.out = Append(@, item.c)]
                            ELSE Convert(t, item),
           [args |-> args, str |-> <<>>, ok |-> TRUE, out |-> <<>>], fmt)
-----------------------------------------------------------------------------
(* Reading.                                                                 *)
Base(type) == CASE type = "o" -> 8 [] type = "x" -> 16 [] OTHER -> 10

\* Digits of an octal number may be 8 and 9.
IsDigit(c, base) ==
  c \in Zero .. Zero + 9 \/ (base = 16 /\ c \in 97 .. 102 \cup 65 .. 70)

DigitValue(c) ==
  IF c \in Zero .. Zero + 9 THEN c - Zero ELSE IF c >= 97 THEN c - 87 ELSE c - 55

\* The first place from pos on where the character is none of set, or the end.
PastAll(str, pos, set) ==
  Min({Len(str) + 1} \cup {i \in pos .. Len(str) : str[i] \notin set})

\* The end of at most len digits from pos on.
BugDigitsEnd(str, pos, len, base) ==
  Min({Len(str) + 1, pos + Max({len - 1, 0})}
        \cup {i \in pos .. Len(str) : ~IsDigit(str[i], base)})

DigitsEnd(str, pos, len, base) ==
  Min({Len(str) + 1, pos + Max({len, 0})}
        \cup {i \in pos .. Len(str) : ~IsDigit(str[i], base)})

Number(digits, base) ==
  FoldLeft(LAMBDA v, c : MulAdd(v, base, DigitValue(c)), 0, digits)

CharAt(str, pos) == IF pos <= Len(str) THEN str[pos] ELSE 0

\* _innum(): the value of at most len characters of str from pos on, the place
\* behind them, and whether there was anything: a sign is enough.
_innum(str, pos, type, len) ==
  LET start == PastAll(str, pos, Blanks)
      minus == CharAt(str, start) = Minus
      first == IF CharAt(str, start) \in {Minus, Plus} THEN start + 1 ELSE start
      next  == DigitsEnd(str, first, len - (first - start), Base(type))
      value == Number(SubSeq(str, first, next - 1), Base(type))
  IN  [v |-> IF minus THEN Neg(value) ELSE value, pos |-> next,
       some |-> minus \/ next > first]

\* The size of the argument: 'h' keeps 16 bits.
Stored(size, v) == IF size = "short" THEN Signed16(v % 65536) ELSE v

atoi(str) ==
  LET start == PastAll(str, 1, {9, Space})
      first == IF CharAt(str, start) \in {Minus, Plus} THEN start + 1 ELSE start
      value == Number(SubSeq(str, first, DigitsEnd(str, first, Len(str), 10) - 1), 10)
  IN  IF CharAt(str, start) = Minus THEN Neg(value) ELSE value

\* A long is an int here.
atol(str) == atoi(str)
-----------------------------------------------------------------------------
(* What a numeral is: its value as two halves of 16 bits, the first without *)
(* a bound.                                                                 *)
Halves(x) == <<(x \div 65536) % 65536, x % 65536>>

Value(digits, base) ==
  FoldLeft(LAMBDA v, c :
             LET lo == v[2] * base + DigitValue(c)
             IN  <<v[1] * base + (lo \div 65536), lo % 65536>>,
           <<0, 0>>, digits)
=============================================================================
