------------------------------ MODULE Inflate -------------------------------
(***************************************************************************)
(* The boot loader, boot/zBoot: it unpacks the gzip'ed kernel that is      *)
(* linked behind it (misc.c, unzip.c, inflate.c) and jumps to it.  The     *)
(* input is read through a buffer, the output goes through a window that   *)
(* is written out when it is full, and malloc() takes the memory of input  *)
(* that has been read when there is no other.  error() halts the machine.  *)
(*                                                                         *)
(* The copy inbuf[] is the part of input_data[] that ends at ptr.  The     *)
(* local copies of the bit buffer and of the window's place are the        *)
(* globals: what they differ in is lost when the machine halts.            *)
(* Where a code is not assigned the tables hold what was in memory         *)
(* (Huffman); streams that use such a code are not modelled.               *)
(***************************************************************************)
EXTENDS Huffman

CONSTANTS
  Image,       \* what may be linked behind the loader: data, and what it is
               \* meant to unpack to, plain; whole is FALSE for a damaged one;
               \* and the memory it is loaded in, as EXT_MEM_K tells it
  BEYOND,      \* the byte in memory behind the input
  WSIZE,       \* bytes of the window, a power of two
  INBUFSIZ,    \* bytes of the input buffer
  INPUT_DATA,  \* address of the input
  END,         \* the end of the loader with its buffers
  TOP,         \* 0x90000, where the parameters of the BIOS lie
  CodeLists,   \* lists of code lengths that huft_build() is tried with
  Widths       \* and widths of the tables

ASSUME BufferAssumption ==
  WSIZE \in Nat \ {0} /\ INBUFSIZ \in Nat \ {0} /\ BEYOND \in 0 .. 255
\* The loader's buffers lie between the input and END: no block crosses them.
ASSUME LayoutAssumption ==
  /\ INPUT_DATA \in Nat \ {0} /\ END < TOP
  /\ \A m \in Image : INPUT_DATA + Len(m.data) < END

VARIABLES
  image,
  in,          \* b and k: bits read and how many; inptr, insize: the next byte of
               \* inbuf and how many it has; ptr: bytes copied to it; ok: FALSE
               \* when fill_inbuf() found nothing
  mem,         \* malloc(): free is free_mem_ptr, blocks are those of this block
  slide,       \* the window
  wp,          \* its place that is written next
  out,         \* the bytes at 0x100000
  crc,         \* updcrc()'s register, as the set of the bits that are 1
  ll, nl,      \* code lengths of the block, the first nl for literals
  tl, td,      \* its tables
  last,        \* the block is the last
  left, from,  \* bytes still to copy, and where from
  pc

vars == <<image, in, mem, slide, wp, out, crc, ll, nl, tl, td, last, left, from, pc>>

HUFT == 8  \* sizeof(struct huft)
DEFLATED == 8
border == <<16, 17, 18, 0, 8, 7, 9, 6, 10, 5, 11, 4, 12, 3, 13, 2, 14, 1, 15>>
cplens == <<3, 4, 5, 6, 7, 8, 9, 10, 11, 13, 15, 17, 19, 23, 27, 31, 35, 43, 51, 59,
            67, 83, 99, 115, 131, 163, 195, 227, 258, 0, 0>>
cplext == <<0, 0, 0, 0, 0, 0, 0, 0, 1, 1, 1, 1, 2, 2, 2, 2, 3, 3, 3, 3, 4, 4, 4, 4,
            5, 5, 5, 5, 0, 99, 99>>
cpdist == <<1, 2, 3, 4, 5, 7, 9, 13, 17, 25, 33, 49, 65, 97, 129, 193, 257, 385, 513,
            769, 1025, 1537, 2049, 3073, 4097, 6145, 8193, 12289, 16385, 24577>>
cpdext == <<0, 0, 0, 0, 1, 1, 2, 2, 3, 3, 4, 4, 5, 5, 6, 6, 7, 7, 8, 8, 9, 9, 10, 10,
            11, 11, 12, 12, 13, 13>>
lbits == 9
dbits == 6
-----------------------------------------------------------------------------
(* Bytes of input.                                                          *)
Byte(j) == IF j <= Len(image.data) THEN image.data[j] ELSE BEYOND

\* fill_inbuf() takes one byte more than there is.
fill_inbuf(s) ==
  LET len == Min({INBUFSIZ, Len(image.data) - s.ptr + 1})
  IN  IF len = 0 THEN [s EXCEPT !.ok = FALSE, !.insize = 0]
      ELSE [s EXCEPT !.insize = len, !.ptr = @ + len, !.inptr = 0]

\* The byte that get_byte() reads, and the input after it.
Filled(s) == IF s.inptr < s.insize THEN s ELSE fill_inbuf(s)
PeekByte(s) == Byte(s.ptr - s.insize + s.inptr + 1)
SkipByte(s) == [s EXCEPT !.inptr = @ + 1]

\* What a read leads to, the value and the input, [v, in].
get_byte(s) == LET f == Filled(s) IN [v |-> PeekByte(f), in |-> SkipByte(f)]

RECURSIVE NeedBits(_, _)
NeedBits(s, c) ==
  IF s.k >= c \/ ~s.ok THEN s
  ELSE LET g == get_byte(s)
       IN  NeedBits([g.in EXCEPT !.b = @ + g.v * 2 ^ s.k, !.k = @ + 8], c)

DumpBits(s, c) == [s EXCEPT !.b = @ \div 2 ^ c, !.k = @ - c]
TakeBits(s, c) == LET f == NeedBits(s, c) IN [v |-> f.b % 2 ^ c, in |-> DumpBits(f, c)]

RECURSIVE SkipBytes(_, _)
SkipBytes(s, c) == IF c = 0 \/ ~s.ok THEN s ELSE SkipBytes(get_byte(s).in, c - 1)

RECURSIVE SkipString(_)
SkipString(s) ==
  LET g == get_byte(s) IN IF g.v = 0 \/ ~g.in.ok THEN g.in ELSE SkipString(g.in)
-----------------------------------------------------------------------------
(* The check sum.                                                           *)
Bits(v, c) == {j \in 0 .. c - 1 : (v \div 2 ^ j) % 2 = 1}
ShiftRight(s, c) == {j - c : j \in {i \in s : i >= c}}
POLYNOMIAL == {31 - j : j \in {0, 1, 2, 4, 5, 7, 8, 10, 11, 12, 16, 22, 23, 26}}

\* makecrc(): from 256 and the bits of i, the lowest first, shifted in.
crc_32_tab ==
  LET step(c, bit) ==
        SymDiff(SymDiff(ShiftRight(c, 1), IF 0 \in c THEN POLYNOMIAL ELSE {}),
                IF bit THEN POLYNOMIAL ELSE {})
      after(i) == FoldLeft(LAMBDA c, j : step(c, j \in i), {}, <<0, 1, 2, 3, 4, 5, 6, 7>>)
  IN  [i \in SUBSET (0 .. 7) |-> after(i)]

UpdByte(c, v) ==
  SymDiff(crc_32_tab[SymDiff(c, Bits(v, 8)) \cap 0 .. 7], ShiftRight(c, 8))
updcrc(c, s) == FoldLeft(UpdByte, c, s)

\* flush_window() of the first c bytes of the window sl.
Flush(sl, c) ==
  /\ crc' = updcrc(crc, SubSeq(sl, 1, c))
  /\ out' = out \o SubSeq(sl, 1, c)


\* The window is sl and its place v: written out when it is full.
PutWindow(sl, v) ==
  /\ slide' = sl
  /\ wp' = v % WSIZE
  /\ IF v = WSIZE THEN Flush(sl, v) ELSE UNCHANGED <<crc, out>>
-----------------------------------------------------------------------------
(* malloc(): the result ok is FALSE when it calls error().                  *)
Align(a) == ((a + 3) \div 4) * 4

Place(m, p, size) ==
  [m EXCEPT !.free = p + size, !.blocks = @ \cup {[start |-> p, len |-> size]}]

\* Forgets that the input may not all be read yet.
BugMalloc(m, size, ptr) ==
  LET p == Align(m.free)
  IN  IF p + size < TOP THEN Place(m, p, size) ELSE Place(m, Align(INPUT_DATA), size)

RECURSIVE Malloc(_, _, _)
Malloc(m, size, ptr) ==
  LET p == Align(m.free)
  IN  IF p + size < END
      THEN IF p + size > INPUT_DATA + ptr THEN [m EXCEPT !.ok = FALSE] ELSE Place(m, p, size)
      ELSE IF p + size < TOP THEN Place(m, p, size)
      ELSE Malloc([m EXCEPT !.free = INPUT_DATA], size, ptr)

MallocTables(m, tables, ptr) ==
  FoldLeft(LAMBDA a, c : IF a.ok THEN Malloc(a, c * HUFT, ptr) ELSE a, m, Hufts(tables))
-----------------------------------------------------------------------------
Init ==
  /\ image \in Image
  /\ in = [b |-> 0, k |-> 0, inptr |-> 0, insize |-> 0, ptr |-> 0, ok |-> TRUE]
  /\ mem = [free |-> END, blocks |-> {}, ok |-> TRUE]
  /\ slide = [j \in 1 .. WSIZE |-> 0]
  /\ wp = 0 /\ out = <<>> /\ crc = {}
  /\ ll = <<>> /\ nl = 0 /\ tl = NoTables /\ td = NoTables
  /\ last = 0 /\ left = 0 /\ from = 0
  /\ pc = "start"

unpacking == <<slide, wp, out, crc, ll, nl, tl, td, last, left, from>>

Goto(place) == pc' = place /\ UNCHANGED <<image, in, mem, unpacking>>

(* error(), or a result that makes unzip() call it.                         *)
Halt == Goto("halted")

\* decompress_kernel() wants 2 M of memory.
TooLittle == image.memory < 1024

Start ==
  /\ pc = "start"
  /\ IF TooLittle THEN Halt ELSE Goto("header")

\* get_method(): flags, and what they say is in the header.  A name is not
\* skipped: there is one part, and the output is not to stdout.
ENCRYPTED == 5
CONTINUATION == 1
EXTRA_FIELD == 2
COMMENT == 4
RESERVED == {6, 7}

\* The input behind the header.
get_method(s, flags) ==
  LET fixed == SkipBytes(s, 6)
      lo    == get_byte(fixed)
      hi    == get_byte(lo.in)
      extra == IF EXTRA_FIELD \in flags THEN SkipBytes(hi.in, lo.v + 256 * hi.v) ELSE fixed
  IN  IF COMMENT \in flags THEN SkipString(extra) ELSE extra

(***************************************************************************)
(* memcmp() of misc.c finds no difference between magic[], which holds m1  *)
(* and m2, and 31 with c behind it.  Its counter starts at i, what was in  *)
(* memory: at 0 it goes on to the byte behind magic[], which has to be the *)
(* 0 that ends the string; at 2 or more the first byte is enough.          *)
(***************************************************************************)
SameMagic(m1, m2, c, i, behind) ==
  /\ m1 = 31
  /\ i >= 2 \/ (m2 = c /\ (i = 1 \/ behind = 0))

\* GZIP_MAGIC or OLD_GZIP_MAGIC; 2 stands for any larger i, 1 for any byte but 0.
Recognised(m1, m2) ==
  {SameMagic(m1, m2, 139, i, behind) \/ SameMagic(m1, m2, 158, j, behind) :
     i \in 0 .. 2, j \in 0 .. 2, behind \in {0, 1}}

Header ==
  LET m1 == get_byte(in)
      m2 == get_byte(m1.in)
      method == get_byte(m2.in)
      f  == get_byte(method.in)
      flags == Bits(f.v, 8)
      rest  == get_method(f.in, flags)
  IN  /\ pc = "header"
      /\ \E known \in Recognised(m1.v, m2.v) :
           IF ~m2.in.ok THEN Halt
           ELSE IF ~known THEN Goto("unknown")
           ELSE IF /\ rest.ok
                   /\ {ENCRYPTED, CONTINUATION} \cap flags = {} /\ RESERVED \cap flags = {}
                   /\ method.v = DEFLATED
           THEN /\ pc' = "block"
                /\ in' = rest
                /\ crc' = 0 .. 31
                /\ UNCHANGED <<image, mem, slide, wp, out, ll, nl, tl, td, last, left, from>>
           ELSE Halt

(* inflate_block(): is it the last, and of what type.                       *)
Block ==
  LET e == TakeBits(in, 1)
      t == TakeBits(e.in, 2)
  IN  /\ pc = "block"
      /\ IF t.in.ok /\ t.v # 3
         THEN /\ pc' = <<"stored", "fixed", "dynamic">>[t.v + 1]
              /\ in' = t.in
              /\ last' = e.v
              /\ mem' = [mem EXCEPT !.blocks = {}]
              /\ UNCHANGED <<image, slide, wp, out, crc, ll, nl, tl, td, left, from>>
         ELSE Halt

(* inflate_stored(): from the next byte on, a length and its complement.    *)
Stored ==
  LET len  == TakeBits(DumpBits(in, in.k % 8), 16)
      comp == TakeBits(len.in, 16)
  IN  /\ pc = "stored"
      /\ IF comp.in.ok /\ len.v + comp.v = 65535
         THEN /\ pc' = "bytes"
              /\ in' = comp.in
              /\ left' = len.v
              /\ UNCHANGED <<image, mem, slide, wp, out, crc, ll, nl, tl, td, last, from>>
         ELSE Halt

StoredByte ==
  LET g == TakeBits(in, 8)
  IN  /\ pc = "bytes" /\ left > 0
      /\ IF g.in.ok
         THEN /\ in' = g.in
              /\ left' = left - 1
              /\ PutWindow([slide EXCEPT ![wp + 1] = g.v], wp + 1)
              /\ UNCHANGED <<image, mem, ll, nl, tl, td, last, from, pc>>
         ELSE Halt

\* The end of a block: the next one, or the end of inflate().
AfterBlock == IF last = 1 THEN "finish" ELSE "block"

StoredEnd ==
  /\ pc = "bytes" /\ left = 0
  /\ pc' = AfterBlock
  /\ UNCHANGED <<image, in, mem, unpacking>>

Literals == [j \in 1 .. 288 |-> CASE j <= 144 -> 8 [] j \in 145 .. 256 -> 9
                                  [] j \in 257 .. 280 -> 7 [] OTHER -> 8]
Distances == [j \in 1 .. 30 |-> 5]
FixedLiterals == HuftBuild(Literals, 257, cplens, cplext, 7)
FixedDistances == HuftBuild(Distances, 0, cpdist, cpdext, 5)

\* The tables are there, if there was memory for them.
Decode(s, lens, literals, ltables, dtables, m) ==
  IF m.ok
  THEN /\ pc' = "codes"
       /\ in' = s /\ mem' = m
       /\ ll' = lens /\ nl' = literals
       /\ tl' = ltables /\ td' = dtables
       /\ UNCHANGED <<image, slide, wp, out, crc, last, left, from>>
  ELSE Halt

(* inflate_fixed().                                                         *)
Fixed ==
  /\ pc = "fixed"
  /\ \E literals \in {FixedLiterals}, distances \in {FixedDistances} :
       /\ literals.code = 0 /\ distances.code <= 1
       /\ \E m \in {MallocTables(mem, literals.tables, in.ptr)} :
            Decode(in, Literals \o Distances, 288, literals.tables, distances.tables,
                   MallocTables(m, distances.tables, in.ptr))

\* The lengths of the dynamic tables, coded with tables of their own: 16 repeats
\* the one before, 17 and 18 repeat zero.  ok is FALSE for a repeat too long.
Repeat(l, c) == IF c = 16 THEN l ELSE 0

RECURSIVE ReadLengths(_, _, _, _)
ReadLengths(tables, count, s, lens) ==
  LET f == NeedBits(s, tables.bits)
      t == At(tables, 1, f.b % 2 ^ tables.bits)
      c == DumpBits(f, t.b)
      l == IF lens = <<>> THEN 0 ELSE Last(lens)
      j == CASE t.n = 16 -> TakeBits(c, 2) [] t.n = 17 -> TakeBits(c, 3)
             [] OTHER -> TakeBits(c, 7)
      r == j.v + IF t.n = 18 THEN 11 ELSE 3
  IN  IF Len(lens) >= count THEN [ok |-> s.ok, in |-> s, lens |-> lens]
      ELSE IF ~f.ok THEN [ok |-> FALSE, in |-> s, lens |-> lens]
      ELSE IF t.n < 16 THEN ReadLengths(tables, count, c, Append(lens, t.n))
      ELSE IF Len(lens) + r > count THEN [ok |-> FALSE, in |-> s, lens |-> lens]
      ELSE ReadLengths(tables, count, j.in, lens \o [i \in 1 .. r |-> Repeat(l, t.n)])

\* c numbers of three bits, [v, in].
RECURSIVE ReadThrees(_, _, _)
ReadThrees(s, c, v) ==
  LET t == TakeBits(s, 3)
  IN  IF c = 0 THEN [v |-> v, in |-> s] ELSE ReadThrees(t.in, c - 1, Append(v, t.v))

\* The numbers of lengths, and the lengths of the code that they are sent in.
Counts(s) ==
  LET l == TakeBits(s, 5)
      e == TakeBits(l.in, 5)
      h == TakeBits(e.in, 4)
      b == ReadThrees(h.in, 4 + h.v, <<>>)
      Sent(j) == LET at == CHOOSE i \in 1 .. 19 : border[i] = j - 1
                 IN  IF at <= 4 + h.v THEN b.v[at] ELSE 0
  IN  [lits |-> 257 + l.v, nd |-> 1 + e.v, bl |-> Evaluated([j \in 1 .. 19 |-> Sent(j)]), in |-> b.in]

\* The tables for the block, from the lengths that have been read.
Built(lens, lits, nd) ==
  [literals  |-> HuftBuild(SubSeq(lens, 1, lits), 257, cplens, cplext, lbits),
   distances |-> HuftBuild(SubSeq(lens, lits + 1, lits + nd), 0, cpdist, cpdext, dbits)]

(* inflate_dynamic().                                                       *)
Dynamic ==
  /\ pc = "dynamic"
  /\ \E n \in {Counts(in)} : \E tree \in {HuftBuild(n.bl, 19, <<>>, <<>>, 7)} :
       IF n.lits > 286 \/ n.nd > 30 \/ ~n.in.ok \/ tree.code # 0 THEN Halt
       ELSE \E r \in {ReadLengths(tree.tables, n.lits + n.nd, n.in, <<>>)} :
         IF ~r.ok THEN Halt
         ELSE \E t \in {Built(r.lens, n.lits, n.nd)} :
           IF t.literals.code # 0 \/ t.distances.code # 0 THEN Halt
           ELSE \E m \in {MallocTables(MallocTables(mem, tree.tables, n.in.ptr),
                                       t.literals.tables, r.in.ptr)} :
                  Decode(r.in, r.lens, n.lits, t.literals.tables, t.distances.tables,
                         MallocTables(m, t.distances.tables, r.in.ptr))
-----------------------------------------------------------------------------
(* inflate_codes().                                                         *)
RECURSIVE Descend(_, _, _)
Descend(tables, t, s) ==
  LET f == NeedBits(DumpBits(s, t.b), t.e - 16)
  IN  IF t.e <= 16 \/ t.e >= STALE THEN [e |-> t.e, n |-> t.n, in |-> DumpBits(s, t.b)]
      ELSE Descend(tables, At(tables, t.n, f.b % 2 ^ (t.e - 16)), f)

\* The next symbol in the code of the tables: its entry, and the input.
Symbol(tables, s) ==
  LET f == NeedBits(s, tables.bits) IN Descend(tables, At(tables, 1, f.b % 2 ^ tables.bits), f)

Invalid ==
  /\ pc = "codes"
  /\ \E c \in {Symbol(tl, in)} : ~c.in.ok \/ c.e = INVALID
  /\ Halt

Literal ==
  /\ pc = "codes"
  /\ \E c \in {Symbol(tl, in)} :
       /\ c.in.ok /\ c.e = LITERAL
       /\ in' = c.in
       /\ PutWindow([slide EXCEPT ![wp + 1] = c.n], wp + 1)
  /\ UNCHANGED <<image, mem, ll, nl, tl, td, last, left, from, pc>>

CodesEnd ==
  /\ pc = "codes"
  /\ \E c \in {Symbol(tl, in)} :
       /\ c.in.ok /\ c.e = EOB
       /\ pc' = AfterBlock
       /\ in' = c.in
  /\ UNCHANGED <<image, mem, unpacking>>

Match ==
  /\ pc = "codes"
  /\ \E c \in {Symbol(tl, in)} :
       /\ c.in.ok /\ c.e < EOB
       /\ \E len \in {TakeBits(c.in, c.e)} : \E t \in {Symbol(td, len.in)} :
            /\ t.e # STALE
            /\ \E far \in {TakeBits(t.in, IF t.e = INVALID THEN 0 ELSE t.e)} :
                 IF t.e # INVALID /\ far.in.ok
                 THEN /\ pc' = "copy"
                      /\ in' = far.in
                      /\ left' = c.n + len.v
                      /\ from' = (wp - (t.n + far.v)) % WSIZE
                      /\ UNCHANGED <<image, mem, slide, wp, out, crc, ll, nl, tl, td, last>>
                 ELSE Halt

\* As a copy that reads everything before it writes.
BugCopyWithin(sl, p, v, c) ==
  [i \in 1 .. WSIZE |-> IF i - 1 \in v .. v + c - 1 THEN sl[p + i - v] ELSE sl[i]]

\* c bytes in the window from p to v, one after the other.
CopyWithin(sl, p, v, c) ==
  [i \in 1 .. WSIZE |->
     IF i - 1 \in v .. v + c - 1
     THEN sl[1 + p + IF p < v THEN (i - 1 - v) % (v - p) ELSE i - 1 - v]
     ELSE sl[i]]

\* Until one of the two places is at the end of the window.
Chunk(p, v, c) == Min({WSIZE - Max({p, v}), c})

Copy ==
  LET e == Chunk(from, wp, left)
  IN  /\ pc = "copy"
      /\ left' = left - e
      /\ from' = (from + e) % WSIZE
      /\ PutWindow(CopyWithin(slide, from, wp, e), wp + e)
      /\ pc' = IF left = e THEN "codes" ELSE "copy"
      /\ UNCHANGED <<image, in, mem, ll, nl, tl, td, last>>

(* The end of inflate(): whole bytes that were read too many go back, and   *)
(* the window is written.                                                   *)
GiveBack(s) == [s EXCEPT !.k = @ % 8, !.inptr = @ - (s.k \div 8)]

Finish ==
  /\ pc = "finish"
  /\ pc' = "trailer"
  /\ in' = GiveBack(in)
  /\ Flush(slide, wp)
  /\ wp' = 0
  /\ UNCHANGED <<image, mem, slide, ll, nl, tl, td, last, left, from>>

\* The numbers at the end: the sum, inverted, and the length, modulo 2^32.
RECURSIVE TakeBytes(_, _, _)
TakeBytes(s, c, v) ==
  LET g == get_byte(s)
  IN  IF c = 0 \/ ~s.ok THEN [v |-> v, in |-> s] ELSE TakeBytes(g.in, c - 1, Append(v, g.v))

LG(v) == UNION {{8 * (i - 1) + j : j \in Bits(v[i], 8)} : i \in 1 .. 4}

Matches(v) ==
  /\ LG(SubSeq(v, 1, 4)) = (0 .. 31) \ crc
  /\ LG(SubSeq(v, 5, 8)) = Bits(Len(out), 30)

(* The end of unzip(), and of decompress_kernel(): head.S jumps to what has *)
(* been unpacked.                                                           *)
Trailer ==
  LET r == TakeBytes(in, 8, <<>>)
  IN  /\ pc = "trailer"
      /\ IF r.in.ok /\ Matches(r.v)
         THEN /\ pc' = "booted"
              /\ in' = r.in
              /\ UNCHANGED <<image, mem, unpacking>>
         ELSE Halt

(* The kernel runs, or the machine is halted.                               *)
Done == pc \in {"booted", "halted", "unknown"} /\ UNCHANGED vars

Next ==
  \/ Start \/ Header \/ Block \/ Stored \/ StoredByte \/ StoredEnd \/ Fixed \/ Dynamic
  \/ Invalid \/ Literal \/ CodesEnd \/ Match \/ Copy \/ Finish \/ Trailer \/ Done

Spec == Init /\ [][Next]_vars
-----------------------------------------------------------------------------
\* Each variable keeps its type: the buffer holds the bits that are counted, and
\* no read or give-back leaves inbuf[].
TypeOK ==
  /\ in.b \in 0 .. 2 ^ in.k - 1 /\ in.k \in 0 .. 31
  /\ in.insize \in 0 .. INBUFSIZ /\ in.inptr \in 0 .. in.insize
  /\ in.ptr \in 0 .. Len(image.data) + 1
  /\ wp \in 0 .. WSIZE - 1 /\ from \in 0 .. WSIZE - 1 /\ left \in Nat
  /\ \A i \in 1 .. WSIZE : slide[i] \in 0 .. 255
  /\ crc \subseteq 0 .. 31

\* What is booted is the kernel that was packed, whatever happened to the image,
\* and a whole one, with the memory it needs, is refused by nothing but the test
\* of its magic bytes, which depends on what was in memory (misc.c, 181-189):
\* codes, window, buffer refills, the bits read too many and the check sum all
\* have to be right for it (inflate.c, unzip.c).
BootsRight ==
  /\ pc = "booted" => out = image.plain /\ ~TooLittle
  /\ pc = "halted" => ~image.whole \/ TooLittle

Bytes(b) == b.start .. b.start + b.len - 1

\* The tables of a block share no byte with each other, with the loader, with its
\* buffers or with input that has not been copied yet (misc.c, lines 85-115).
TablesSafe ==
  \A b \in mem.blocks :
    /\ \/ Bytes(b) \subseteq INPUT_DATA .. INPUT_DATA + in.ptr - 1
       \/ Bytes(b) \subseteq END .. TOP - 1
    /\ \A c \in mem.blocks : b # c => Bytes(b) \cap Bytes(c) = {}

\* The tables that a block is decoded with are those of its code lengths, though
\* some come out a bit wider than asked for (inflate.c, lines 208-232).
TablesRight ==
  [][pc # "codes" /\ pc' = "codes" /\ (Fixed \/ Dynamic) =>
       LET b == SubSeq(ll', 1, nl')
           c == SubSeq(ll', nl' + 1, Len(ll'))
       IN  /\ DecodesCode(b, 257, cplens, cplext, tl')
           /\ Used(c) # {} => DecodesCode(c, 0, cpdist, cpdext, td')]_vars

\* Lists and widths that huft_build() fails for: its result is not what Kraft's
\* sum calls for, or the code is complete and its tables do not decode it.  With
\* more than 2 ^ m + m symbols a second table can get one bit more than m, and
\* what hangs below it goes wrong, as for 1, 2, 4, 4, 4, 5, 5 with 2 bits; the
\* loader has 9 bits for 288 symbols, 7 for 19 and 6 for 30.
Failures ==
  {<<b, m>> \in {b \in CodeLists : Used(b) # {}} \X Widths :
     LET r == HuftBuild(b, Len(b), <<>>, <<>>, m)
     IN  \/ r.code # KraftResult(b)
         \/ /\ r.code = 0 /\ Len(b) <= 2 ^ m + m
            /\ ~DecodesCode(b, Len(b), <<>>, <<>>, r.tables)}

\* huft_build() does what its comment says (inflate.c, lines 107-111) for every
\* list but those of zeros, for which the comment promises 2 and the code returns
\* 0; and the tables of a complete code decode it, when they have as many bits for
\* their symbols as the loader's.  It depends on nothing but its arguments: it is
\* tried once, before a kernel is unpacked.
HuftBuildRight == pc = "start" => Failures = {}
=============================================================================
