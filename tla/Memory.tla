------------------------------- MODULE Memory -------------------------------
(***************************************************************************)
(* The memory manager, c/mem.c, as create() of c/create.c uses it: a list  *)
(* of holes, each with a header in its first bytes, and no kfree().        *)
(* kmalloc() cuts a block off the front of a hole and copies the header    *)
(* behind it, the size included: what is left of a hole goes on claiming   *)
(* the size of the whole.  How far that can be trusted is what the         *)
(* properties are about.                                                   *)
(***************************************************************************)
EXTENDS Integers, FiniteSets

CONSTANTS
  PARA,        \* a paragraph, 0x10 bytes: sizes are multiples of it
  HEADER,      \* sizeof(mem)
  FREEMEM,     \* the end of the kernel's image and stack
  HOLESTART,   \* 640K, where the memory of the adapters begins
  HOLEEND,     \* 1624K, where free memory goes on
  MEMEND,      \* 4M
  PROC_STACK,  \* the least stack of a process
  Stack,       \* the stacks that programs ask syscreate() for
  MaxBlocks    \* bound on the blocks

NULL == 0

ASSUME ParaAssumption ==
  /\ PARA \in Nat \ {0} /\ HEADER \in 1 .. PARA
  /\ HOLEEND % PARA = 0 /\ HOLESTART % PARA = 0
\* The gap between the holes is wider than the first: what overruns the first
\* does not reach the second.
ASSUME LayoutAssumption ==
  /\ {FREEMEM, HOLESTART, HOLEEND, MEMEND} \subseteq Nat
  /\ FREEMEM + PARA + HEADER <= HOLESTART
  /\ 2 * HOLESTART <= HOLEEND /\ HOLEEND + HEADER <= MEMEND
\* No stack is asked for that is below 0 or whose double, brought up to a
\* paragraph, is beyond an int (its top, 2^31 - 1, is 2147483647).
ASSUME StackAssumption ==
  /\ Stack \subseteq Nat /\ PROC_STACK \in Nat \ {0}
  /\ \A s \in Stack \cup {PROC_STACK} : 2 * s + PARA <= 2147483647
ASSUME BoundAssumption == MaxBlocks \in Nat

VARIABLES
  head,        \* the first hole, or NULL
  hdr,         \* the headers in memory: next, prev and size of each
  blocks       \* the blocks handed out: start and length

vars == <<head, hdr, blocks>>

Base == ((FREEMEM + PARA) \div PARA) * PARA

Init ==
  /\ head = Base
  /\ hdr = [a \in {Base, HOLEEND} |->
              IF a = Base
              THEN [next |-> HOLEEND, prev |-> NULL, size |-> HOLESTART - Base]
              ELSE [next |-> NULL, prev |-> Base, size |-> MEMEND - HOLEEND]]
  /\ blocks = {}

BugRound(n) == n

Round(n) == IF n % PARA = 0 THEN n ELSE ((n + PARA) \div PARA) * PARA

\* The list never has a third hole: no memory comes back.
Second == IF head = NULL THEN NULL ELSE hdr[head].next
Listed == {head, Second} \ {NULL}

\* The first hole that claims n bytes.
FirstFit(n) ==
  IF head # NULL /\ hdr[head].size >= n THEN head
  ELSE IF Second # NULL /\ hdr[Second].size >= n THEN Second
  ELSE NULL

\* Forgets the link forward to what takes p's place.
BugRelink(h, p, a, b) ==
  [x \in DOMAIN h |-> IF x = h[p].next THEN [h[x] EXCEPT !.prev = b] ELSE h[x]]

\* p->prev gets the link to a, p->next the link back to b.
Relink(h, p, a, b) ==
  [x \in DOMAIN h |->
     IF x = h[p].prev THEN [h[x] EXCEPT !.next = a]
     ELSE IF x = h[p].next THEN [h[x] EXCEPT !.prev = b]
     ELSE h[x]]

\* The hole p is used up, or nearly: it leaves the list.
Remove(p) ==
  /\ hdr' = Relink(hdr, p, hdr[p].next, hdr[p].prev)
  /\ head' = IF hdr[p].prev = NULL THEN hdr[p].next ELSE head

\* Leaves room for a header in front of what is left.
BugSplit(p, n) ==
  LET r == p + n + PARA
      h == Relink(hdr, p, r, r)
  IN  /\ hdr' = [x \in DOMAIN hdr \cup {r} |-> IF x = r THEN hdr[p] ELSE h[x]]
      /\ head' = IF hdr[p].prev = NULL THEN r ELSE head

\* r, behind the n bytes that p loses, takes p's place in the list.
Split(p, n) ==
  LET r == p + n
      h == Relink(hdr, p, r, r)
  IN  /\ hdr' = [x \in DOMAIN hdr \cup {r} |-> IF x = r THEN hdr[p] ELSE h[x]]
      /\ head' = IF hdr[p].prev = NULL THEN r ELSE head

\* kmalloc() finds p.
Kmalloc(p, n) ==
  /\ blocks' = blocks \cup {[start |-> p, len |-> n]}
  /\ IF hdr[p].size - n < HEADER THEN Remove(p) ELSE Split(p, n)

-----------------------------------------------------------------------------
(* Free memory, and whether a block or a header has left it: what happens   *)
(* in the memory of the adapters is not modelled.                          *)
Hole == {Base .. HOLESTART - 1, HOLEEND .. MEMEND - 1}
Bytes(b) == b.start .. b.start + b.len - 1
Header(a) == a .. a + HEADER - 1
Inside(bytes) == \E hole \in Hole : bytes \subseteq hole

Overrun ==
  \/ \E a \in Listed : ~Inside(Header(a))
  \/ \E b \in blocks : ~Inside(Bytes(b))

(* create(): a block of twice the stack.                                   *)
Size(stack) == Round(2 * IF stack < PROC_STACK THEN PROC_STACK ELSE stack)

Create(stack) ==
  LET p == FirstFit(Size(stack))
  IN  /\ ~Overrun /\ Cardinality(blocks) < MaxBlocks
      /\ p # NULL
      /\ Kmalloc(p, Size(stack))

(* No hole claims as much: create() answers -1.                            *)
CreateFails(stack) == FirstFit(Size(stack)) = NULL /\ UNCHANGED vars

Next == \E stack \in Stack : Create(stack) \/ CreateFails(stack)

Spec == Init /\ [][Next]_vars
-----------------------------------------------------------------------------
\* Each variable keeps its type, blocks start at paragraphs, and the list is
\* linked both ways.
TypeOK ==
  /\ \A a \in DOMAIN hdr : a \in Nat \ {NULL} /\ hdr[a].size \in Nat
  /\ Listed \subseteq DOMAIN hdr
  /\ head # NULL => hdr[head].prev = NULL
  /\ Second # NULL => hdr[Second].prev = head /\ hdr[Second].next = NULL
  /\ \A b \in blocks : b.start \in Nat /\ b.start % PARA = 0 /\ b.len \in Nat

\* No two processes share a byte, and no process has the header of a hole, as
\* long as neither has left free memory (mem.c, lines 60-87).
BlocksApart ==
  /\ \A b, c \in blocks : b # c => Bytes(b) \cap Bytes(c) = {}
  /\ ~Overrun => \A b \in blocks, a \in Listed : Bytes(b) \cap Header(a) = {}

\* Although sizes are never brought up to date, a block leaves free memory only
\* when nothing of its hole is left: every byte of the hole is in a block that
\* starts in it, none is lost between two (mem.c, lines 58-73).
OverrunWhenFull ==
  \A hole \in Hole :
    LET here == {b \in blocks : b.start \in hole}
    IN  (\E b \in here : ~ (Bytes(b) \subseteq hole))
        => hole \subseteq UNION {Bytes(b) : b \in here}
=============================================================================
