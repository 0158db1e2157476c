----------------------------- MODULE MCLibrary -----------------------------
(* Calls of the C library by two programs: of everything one program does   *)
(* by itself a wide choice, of what two do at once small ones.              *)
EXTENDS Library

CONSTANTS p1, p2

a == 97
b == 98
MCAlphabet == {Space, a, b, 99}

Idle == [kind |-> "none"]
Both(first, second) == p1 :> first @@ p2 :> second
Solo(calls) == {Both(call, Idle) : call \in calls}

Out(conv, min, zero, left) ==
  [conv |-> conv, min |-> min, max |-> 0, zero |-> zero, left |-> left, c |-> 0]
In(type, len, size) ==
  [type |-> type, len |-> len, size |-> size, star |-> FALSE, neg |-> FALSE, class |-> <<>>]
Copied(c)  == [conv |-> "char", c |-> c]
Matched(c) == IF c \in Blanks THEN [type |-> "space"] ELSE [type |-> "char", c |-> c]
Class(neg, class, len) ==
  [type |-> "[", len |-> len, size |-> "int", star |-> FALSE, neg |-> neg, class |-> class]
Starred(item) == [item EXCEPT !.star = TRUE]
Text(out, args, in) == [kind |-> "text", out |-> out, args |-> args, in |-> in]

\* Words at which a base, a sign or a width changes something.
Words == {0, 1, 7, 8, 9, 10, 255, 65535, 524287, 999999999, 1000000000, 2147483647, INT_MIN, -1,
          -8, -10, -1000000000, -1147483648, -1147483649, -294967296}

Scanned(conv) == IF conv = "u" THEN "d" ELSE conv
OneNumber ==
  {Text(<<Out(conv, min, zero, left)>>, <<x>>, <<In(Scanned(conv), DefaultLen, "int")>>) :
     conv \in Numeric \ {"b"}, x \in Words, min \in {0, 3, 12, 81}, zero, left \in BOOLEAN}
  \cup {Text(<<Out("b", min, FALSE, FALSE)>>, <<x>>, <<>>) : x \in Words, min \in {0, 8}}
  \cup {Text(<<Out("d", STAR, FALSE, FALSE)>>, <<w, x>>, <<In("d", DefaultLen, "short")>>) :
          w \in {4, -4}, x \in Words}

\* "%d,%-5u %04x", with a width for what is scanned or none; then "%03d%03d".
ThreeNumbers ==
  {Text(<<Out("d", 0, FALSE, FALSE), Copied(44), Out("u", 5, FALSE, TRUE), Copied(Space),
          Out("x", 4, TRUE, FALSE)>>, <<x, y, 10>>,
        <<In("d", len, "int"), Matched(44), In("d", DefaultLen, "int"), Matched(Space),
          In("x", DefaultLen, "int")>>) : x, y \in {0, 12, -1, -34}, len \in {1, DefaultLen}}
  \cup {Text(<<Out("d", 3, TRUE, FALSE), Out("d", 3, TRUE, FALSE)>>, <<x, y>>,
              <<In("d", 3, "int"), In("d", 3, "int")>>) : x, y \in {0, 12, 123, -1, -34, 1234}}

\* "%7s %-d %s", "%3.1s%c", and a conversion that does not exist.
Words1 == {<<>>, <<b>>, <<a, b, a>>, <<a, Space, b>>}
OneWord ==
  {Text(<<Out("s", 7, FALSE, left), Copied(Space), Out("d", 3, FALSE, TRUE), Copied(Space),
          Out("s", 0, FALSE, FALSE)>>, <<v, -5, w>>,
        <<In("s", DefaultLen, "int"), Matched(Space), In("d", DefaultLen, "int"), Matched(Space),
          In("s", DefaultLen, "int")>>) : v, w \in Words1, left \in BOOLEAN}
  \cup {Text(<<[Out("s", 3, TRUE, FALSE) EXCEPT !.max = 1], Out("c", 0, FALSE, FALSE)>>, <<w, c>>,
              <<In("s", 1, "int"), In("c", DefaultLen, "int")>>) : w \in Words1, c \in {0, b}}
  \cup {Text(<<Out("d", 0, FALSE, FALSE), [Out("other", 0, FALSE, FALSE) EXCEPT !.c = 99]>>, <<12, 0>>,
              <<In("d", 1, "int"), Matched(50), In("c", DefaultLen, "int")>>)}

\* Texts without a conversion, and formats that read parts of them as strings.
Letters == {<<>>, <<a, b, a>>, <<Space, a, Space, b>>, <<b, b, 99, a>>}
Strings ==
  {<<In("s", len, "int"), In("c", DefaultLen, "int"), In("s", DefaultLen, "int")>> : len \in {2, DefaultLen}}
  \cup {<<In("c", 3, "int")>>, <<In("d", DefaultLen, "int"), In("s", DefaultLen, "int")>>,
        <<Starred(In("s", DefaultLen, "int")), Matched(Space), In("s", DefaultLen, "int")>>,
        <<Matched(a), Matched(b), In("c", DefaultLen, "int")>>}
Classes ==
  {<<Class(neg, class, len)>> : neg \in BOOLEAN, class \in {<<a>>, <<b, a>>}, len \in {1, DefaultLen}}
Copy(chars) == [i \in DOMAIN chars |-> Copied(chars[i])]
OneText ==
  {Text(Copy(chars), <<>>, in) : chars \in Letters, in \in Strings \cup Classes}
  \cup {Text(Copy(<<a, b, a, Space>>), <<>>, <<Starred(c[1]), d[1], In("s", DefaultLen, "int")>>) :
          c, d \in Classes}
TwoTexts ==
  {Both(Text(Copy(<<a, b>>), <<>>, c), Text(Copy(<<b, 99>>), <<>>, d)) :
     c \in Classes, d \in Classes \cup {<<In("s", DefaultLen, "int")>>}}

\* What is sorted: one byte an element, or two of which the second is its number.
Bytes1 == UNION {[1 .. n -> 1 .. 3] : n \in 0 .. 5} \cup [1 .. 6 -> 1 .. 2]
Wide(keys) == [i \in 1 .. 2 * Len(keys) |-> IF i % 2 = 1 THEN keys[(i + 1) \div 2] ELSE i \div 2]
Sort(data, es) == [kind |-> "sort", data |-> data, es |-> es]
OneSort ==
  {Sort(data, 1) : data \in Bytes1}
  \cup {Sort(Wide(keys), 2) : keys \in UNION {[1 .. n -> 1 .. 3] : n \in 1 .. 4}}
TwoSorts ==
  {Both(Sort(data, 1), other) :
     data \in [1 .. 3 -> 1 .. 2],
     other \in {Sort(<<3, 2, 1>>, 1)} \cup {Sort(Wide(keys), 2) : keys \in [1 .. 2 -> 1 .. 2]}}

MCJobs == Solo(OneNumber \cup ThreeNumbers \cup OneWord \cup OneText \cup OneSort) \cup TwoTexts \cup TwoSorts
=============================================================================
