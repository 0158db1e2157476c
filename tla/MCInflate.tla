------------------------------ MODULE MCInflate -----------------------------
(***************************************************************************)
(* Kernels for TLC to unpack, packed as RFC 1951 and 1952 say: by the      *)
(* definitions below, which take no table, order or constant from the      *)
(* loader's.  They share with it what a canonical code is (Pattern of      *)
(* Huffman, which the loader does not use) and the sum SumOver.            *)
(***************************************************************************)
EXTENDS Inflate, TLC

\* Numbers go out with their lowest bit first, codes with their highest.
Number(v, c) == [j \in 1 .. c |-> (v \div 2 ^ (j - 1)) % 2]
Code(b, sym) == Number(Pattern(b, sym + 1), b[sym + 1])
HighFirst(v, c) == Reverse(Number(v, c))

\* The fixed code, by the values that the RFC lists.
FixedLiteral(v) ==
  CASE v < 144           -> HighFirst(48 + v, 8)
    [] v \in 144 .. 255  -> HighFirst(400 + v - 144, 9)
    [] v \in 256 .. 279  -> HighFirst(v - 256, 7)
    [] v \in 280 .. 287  -> HighFirst(192 + v - 280, 8)
FixedDistance(v) == HighFirst(v, 5)

\* The lengths of a dynamic block are sent from the middle outwards.
SentOrder ==
  <<16, 17, 18, 0>> \o
    [j \in 1 .. 15 |-> IF j % 2 = 1 THEN 8 + (j - 1) \div 2 ELSE 8 - j \div 2]

Pad(bits) == bits \o [j \in 1 .. (-Len(bits)) % 8 |-> 0]
ToBytes(bits) ==
  [i \in 1 .. Len(bits) \div 8 |-> SumOver(LAMBDA j : bits[8 * (i - 1) + j + 1] * 2 ^ j, 0, 7)]
ToBits(bytes) == [i \in 1 .. 8 * Len(bytes) |-> (bytes[(i + 7) \div 8] \div 2 ^ ((i - 1) % 8)) % 2]

\* Extra bits and first value of length and distance symbols.
LengthExtra(i) == Max({0, (i \div 4) - 1})
LengthBase(i) == 3 + SumOver(LAMBDA j : 2 ^ LengthExtra(j), 0, i - 1)
DistExtra(i) == Max({0, (i \div 2) - 1})
DistBase(i) == 1 + SumOver(LAMBDA j : 2 ^ DistExtra(j), 0, i - 1)

\* A token is a literal <<v>> or a match <<length, distance>>.
Token(lit(_), dist(_), t) ==
  IF Len(t) = 1 THEN lit(t[1])
  ELSE LET i == CHOOSE i \in 0 .. 27 : t[1] \in LengthBase(i) .. LengthBase(i + 1) - 1
           j == CHOOSE j \in 0 .. 29 : t[2] \in DistBase(j) .. DistBase(j + 1) - 1
       IN  lit(257 + i) \o Number(t[1] - LengthBase(i), LengthExtra(i))
             \o dist(j) \o Number(t[2] - DistBase(j), DistExtra(j))

Tokens(lit(_), dist(_), ts) ==
  FlattenSeq([i \in 1 .. Len(ts) |-> Token(lit, dist, ts[i])]) \o lit(256)

\* A dynamic block sends its lengths as items <<symbol, bits, value>> in the code
\* cl, of which nb lengths are sent.
Items(cl, items) ==
  FlattenSeq([i \in 1 .. Len(items) |->
                Code(cl, items[i][1]) \o Number(items[i][3], items[i][2])])

DynamicBits(b) ==
  Number(Len(b.lits) - 257, 5) \o Number(Len(b.dists) - 1, 5) \o Number(15, 4)
    \o FlattenSeq([j \in 1 .. 19 |-> Number(b.cl[SentOrder[j] + 1], 3)])
    \o Items(b.cl, b.items)
    \o Tokens(LAMBDA v : Code(b.lits, v), LAMBDA v : Code(b.dists, v), b.tokens)

\* A stream of blocks [type, final, ...]; type 3 stands for any bits.
AddBlock(bits, b) ==
  bits \o CASE b.type = 0 ->
             Number(b.final, 1) \o <<0, 0>>
               \o [j \in 1 .. (-(Len(bits) + 3)) % 8 |-> 0]
               \o Number(Len(b.bytes), 16) \o Number(65535 - Len(b.bytes), 16)
               \o ToBits(b.bytes)
         [] b.type = 1 ->
             <<b.final, 1, 0>> \o Tokens(FixedLiteral, FixedDistance, b.tokens)
         [] b.type = 2 -> <<b.final, 0, 1>> \o DynamicBits(b)
         [] OTHER -> b.bits

\* What a text becomes with one more token.
Copied(text, dist) == Append(text, text[Len(text) - dist + 1])
AddToken(text, t) ==
  IF Len(t) = 1 THEN text \o t
  ELSE Steps(Copied, text, [j \in 1 .. t[1] |-> t[2]])

AddText(text, b) ==
  CASE b.type = 0 -> text \o b.bytes
    [] b.type = 3 -> text
    [] OTHER -> Steps(AddToken, text, b.tokens)

\* The sum as the division of polynomials, bit for bit, by 16#EDB88320.
Polynomial ==
  {j \in 0 .. 31 : ((IF j < 16 THEN 33568 ELSE 60856) \div 2 ^ (j % 16)) % 2 = 1}

CrcBit(c, bit) ==
  LET odd == (0 \in c) # (bit = 1)
  IN  SymDiff({j - 1 : j \in c \ {0}}, IF odd THEN Polynomial ELSE {})
CrcByte(c, v) == Steps(CrcBit, c, Number(v, 8))
Crc(text) == (0 .. 31) \ Steps(CrcByte, 0 .. 31, text)
CrcBytes(text) ==
  [i \in 1 .. 4 |-> SumOver(LAMBDA j : IF 8 * (i - 1) + j \in Crc(text) THEN 2 ^ j ELSE 0, 0, 7)]

Packed(header, blocks) ==
  LET text == Steps(AddText, <<>>, blocks)
  IN  [data |-> header \o ToBytes(Pad(Steps(AddBlock, <<>>, blocks)))
                 \o CrcBytes(text) \o <<Len(text) % 256, Len(text) \div 256, 0, 0>>,
       plain |-> text, whole |-> TRUE, memory |-> 3072]
-----------------------------------------------------------------------------
HeaderOf(magic, method, flags) == <<31, magic, method, flags, 0, 0, 0, 0, 2, 3>>
Plain10 == HeaderOf(139, 8, 0)
WithExtra == HeaderOf(158, 8, 4 + 16 + 1) \o <<3, 0, 7, 7, 7, 67, 0>>

Short == <<<<65>>, <<66>>, <<67>>, <<3, 3>>, <<200>>, <<13, 2>>, <<4, 8>>>>
FixedBlock(final) == [type |-> 1, final |-> final, tokens |-> Short]
StoredBlock(final, c) == [type |-> 0, final |-> final, bytes |-> [j \in 1 .. c |-> (j * 7) % 256]]

\* "a" in one bit, the end and a length of 3 in two; one distance.
SmallBlock(final) ==
  [type |-> 2, final |-> final,
   lits |-> [j \in 1 .. 258 |-> CASE j = 98 -> 1 [] j \in {257, 258} -> 2 [] OTHER -> 0],
   dists |-> <<1>>,
   cl |-> [j \in 1 .. 19 |-> CASE j = 19 -> 1 [] j \in {2, 3} -> 2 [] OTHER -> 0],
   items |-> <<<<18, 7, 86>>, <<1, 0, 0>>, <<18, 7, 127>>, <<18, 7, 9>>,
               <<2, 0, 0>>, <<2, 0, 0>>, <<1, 0, 0>>>>,
   tokens |-> <<<<97>>, <<97>>, <<3, 1>>, <<97>>>>]

\* Codes of 11 bits for literals and of 9 for distances: tables of two levels.
\* All three repeats occur.
DeepBlock(final) ==
  [type |-> 2, final |-> final,
   lits |-> [j \in 1 .. 258 |-> CASE j \in 98 .. 106 -> j - 97 [] j >= 255 -> 11 [] OTHER -> 0],
   dists |-> <<9, 9, 8, 7, 0, 0, 0, 6, 5, 4, 3, 2, 1>>,
   cl |-> [j \in 1 .. 19 |-> CASE j \in {17, 18, 19} -> 3 [] j \in 2 .. 10 \cup {12} -> 4
                               [] OTHER -> 0],
   items |-> <<<<18, 7, 86>>>> \o [j \in 1 .. 9 |-> <<j, 0, 0>>]
               \o <<<<18, 7, 127>>, <<17, 3, 7>>, <<11, 0, 0>>, <<16, 2, 0>>>>
               \o <<<<9, 0, 0>>, <<9, 0, 0>>, <<8, 0, 0>>, <<7, 0, 0>>, <<17, 3, 0>>>>
               \o [j \in 1 .. 6 |-> <<7 - j, 0, 0>>],
   tokens |-> <<<<97>>, <<105>>, <<255>>, <<3, 1>>, <<103>>, <<3, 3>>, <<254>>, <<3, 4>>>>]

Raw(bits) == [type |-> 3, bits |-> bits]

Whole ==
  {Packed(Plain10, <<FixedBlock(1)>>),
   Packed(WithExtra, <<StoredBlock(0, 0), StoredBlock(0, 9), FixedBlock(0), StoredBlock(1, 3)>>),
   Packed(Plain10, <<DeepBlock(0), SmallBlock(1)>>),
   Packed(Plain10, <<FixedBlock(0), StoredBlock(0, 150), SmallBlock(1)>>)}

\* More memory than there is.
TooLarge == [Packed(Plain10, <<FixedBlock(0), SmallBlock(1)>>) EXCEPT !.whole = FALSE]

\* Less than the 2 M that the loader asks for.
LittleMemory == [Packed(Plain10, <<FixedBlock(1)>>) EXCEPT !.memory = 1023]

Damaged(m, j, v) == [m EXCEPT !.data = ReplaceAt(@, j, v), !.whole = FALSE]
Cut(m, j) == [m EXCEPT !.data = SubSeq(@, 1, Len(@) - j), !.whole = FALSE]
Refused(bits) == [Packed(Plain10, <<Raw(bits)>>) EXCEPT !.whole = FALSE]

One == Packed(Plain10, <<StoredBlock(1, 3)>>)

MCImage ==
  Whole \cup {TooLarge, LittleMemory}
    \cup {Damaged(One, 1, 80), Damaged(One, 2, 140), Damaged(One, 3, 0),  \* magic, method
          Damaged(One, 4, 2), Damaged(One, 4, 32), Damaged(One, 4, 64),   \* flags
          Damaged(One, 12, 4), Damaged(One, 14, 255),  \* length, complement
          Damaged(One, 17, 9), Damaged(One, 19, 1), Damaged(One, 22, 4)}  \* a byte, sum, length
    \cup {Cut(One, j) : j \in {1, 2, 6, 12}}
    \cup {Refused(<<1, 1, 1>>),                                   \* type 3
          Refused(<<1, 1, 0>> \o FixedLiteral(286)),
          Refused(<<1, 1, 0>> \o FixedLiteral(257) \o <<1, 1, 1, 1, 0>>),
          Refused(<<1, 0, 1>> \o Number(30, 5)),                  \* 287 literals
          Refused(<<1, 0, 1>> \o Number(0, 14) \o Number(585, 12)), \* too many codes
          Refused(<<1, 0, 1>> \o DynamicBits([SmallBlock(1) EXCEPT !.items[6] = <<18, 7, 0>>])),
          Refused(<<1, 0, 1>> \o DynamicBits([SmallBlock(1) EXCEPT !.items[6] = <<1, 0, 0>>]))}

\* All short lists, complete codes of five and six symbols, and one of seven places.
Codes(c) == {b \in [1 .. c -> 1 .. 5] :
               (\A i \in 1 .. c - 1 : b[i] <= b[i + 1]) /\ KraftResult(b) = 0}
MCCodeLists ==
  UNION {[1 .. c -> 0 .. 4] : c \in 1 .. 4} \cup Codes(5) \cup Codes(6)
    \cup {<<5, 3, 1, 0, 5, 4, 2>>}
=============================================================================
