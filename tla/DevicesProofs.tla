---------------------------- MODULE DevicesProofs ----------------------------
(***************************************************************************)
(* What TLAPS proves about Devices, for any processes, keys, descriptors   *)
(* and length of the controller's queue: its types, that no process opens  *)
(* both keyboards, and that codes are translated with the modifier keys    *)
(* that were down when they were sent.                                     *)
(***************************************************************************)
EXTENDS Devices, SequenceTheorems, TLAPS

USE KeyAssumption, BoundAssumption
USE DEF LSHIFT, RSHIFT, LMETA, LCTL, CAPSL, KEY_UP, NOCHAR, CTL_D
USE DEF procVars, keyVars

\* The codes the keyboard sends, and what the controller keeps of each.
Code == Modifier \cup Key \cup {k + KEY_UP : k \in Modifier \cup Key}
Sent == [code : Code, held : SUBSET Modifier]

\* The flags of scanToASCII.c for the modifier keys of down.
Flags(down) == {Flag(k) : k \in down}

(***************************************************************************)
(* The two shift keys share the flag INSHIFT, which the first of the two   *)
(* to go up clears.  What is proved about modifier keys is for keyboards   *)
(* on which one of the two is used.                                        *)
(***************************************************************************)
OneShift == ~({LSHIFT, RSHIFT} \subseteq Modifier)

\* What the queue holds is what the user did after the codes that were handled.
InStep ==
  /\ queue = <<>> => state = Flags(held)
  /\ queue # <<>> =>
       /\ NextState(state, queue[1].code) = Flags(queue[1].held)
       /\ queue[Len(queue)].held = held
  /\ \A i \in 2 .. Len(queue) :
       NextState(Flags(queue[i - 1].held), queue[i].code) = Flags(queue[i].held)

Types == TypeOK /\ queue \in Seq(Sent)
-----------------------------------------------------------------------------
\* The tables hold characters, and the codes of keys are places in them or not.
LEMMA KbtoaIsNat ==
  ASSUME NEW s, NEW code \in Code
  PROVE  Kbtoa(s, code) \in Nat
<1>1. kbcode \in Seq(Nat) /\ kbshift \in Seq(Nat) /\ kbctl \in Seq(Nat)
  BY DEF kbcode, kbshift, kbctl
<1>3. code \in Nat \ {0}
  BY DEF Code
<1> DEFINE table == Table(s)
           meta  == IF "INMETA" \in s THEN 128 ELSE 0
<1>4. table \in {kbcode, kbshift, kbctl}
  BY DEF Table
<1> HIDE DEF table
<1>5. code <= Len(table) => table[code] \in Nat
  <2>1. table \in Seq(Nat)
    BY <1>1, <1>4
  <2> QED BY <1>3, <2>1
<1>6. meta \in Nat
  OBVIOUS
<1> HIDE DEF meta
<1>7. Kbtoa(s, code) = IF code >= KEY_UP \/ IsModifier(code) THEN NOCHAR
      ELSE IF code <= Len(table) THEN table[code] + meta
      ELSE IF {"INSHIFT", "INCTL"} \cap s # {} THEN NOCHAR ELSE NOCHAR + meta
  BY DEF Kbtoa, table, meta
<1> QED BY <1>5, <1>6, <1>7

\* A modifier key's flag is one of four.
LEMMA FlagNames ==
  ASSUME NEW k, IsModifier(k)
  PROVE  Flag(k) \in {"INSHIFT", "CAPSLOCK", "INCTL", "INMETA"}
BY DEF Flag, IsModifier

\* A code sets and clears flags of the four modifiers only.
LEMMA NextStateType ==
  ASSUME NEW s \in SUBSET {"INSHIFT", "CAPSLOCK", "INCTL", "INMETA"}, NEW code
  PROVE  NextState(s, code) \in SUBSET {"INSHIFT", "CAPSLOCK", "INCTL", "INMETA"}
BY FlagNames DEF NextState

\* The types hold at the start.
LEMMA InitTypes ==
  ASSUME Init
  PROVE  Types
<1>1. queue = <<>> /\ queue \in Seq(Sent) /\ DOMAIN queue = {}
  BY DEF Init
<1>2. device \in [Proc -> [0 .. 3 -> BOOLEAN]] /\ keyboardBuffer \in [0 .. 3 -> 0 .. 255]
  BY DEF Init
<1>m. live \subseteq Proc /\ masked \in BOOLEAN
  BY Zenon DEF Init, init8259
<1>3. /\ state \subseteq {"INSHIFT", "CAPSLOCK", "INCTL", "INMETA"}
      /\ justPressed \in 0 .. 255 /\ mode \in {"up", "wild"} /\ held \subseteq Modifier
  BY DEF Init
<1>4. \A i \in DOMAIN queue : queue[i].held \subseteq Modifier
  BY <1>1
<1> QED BY <1>1, <1>2, <1>m, <1>3, <1>4, Zenon DEF Types, TypeOK

\* A code that the user sends, as Press, Release and Type do.
LEMMA SentIsTyped ==
  ASSUME Types, NEW code, NEW down, Send(code, down), code \in Code, down \subseteq Modifier
  PROVE  /\ queue' \in Seq(Sent) /\ Len(queue') = Len(queue) + 1
         /\ \A i \in 1 .. Len(queue) : queue'[i] = queue[i]
         /\ queue'[Len(queue) + 1] = [code |-> code, held |-> down]
         /\ held' = down /\ state' = state
         /\ Len(queue) \in Nat
<1> DEFINE e == [code |-> code, held |-> down]
<1>1. queue \in Seq(Sent) /\ e \in Sent
  BY DEF Types, Sent
<1>2. queue' = Append(queue, e) /\ held' = down /\ state' = state
  BY DEF Send
<1> HIDE DEF e
<1>3. /\ Append(queue, e) \in Seq(Sent)
      /\ Len(Append(queue, e)) = Len(queue) + 1
      /\ \A i \in 1 .. Len(queue) : Append(queue, e)[i] = queue[i]
      /\ Append(queue, e)[Len(queue) + 1] = e
      /\ Len(queue) \in Nat
  BY <1>1, AppendProperties
<1> QED BY <1>2, <1>3 DEF e

\* What the user does sends a code, and says which modifier keys are down.
LEMMA UserSends ==
  ASSUME Types, Press \/ Release \/ Type
  PROVE  \E code \in Code, down \in SUBSET Modifier :
           /\ Send(code, down)
           /\ \/ code \in Modifier /\ down = held \cup {code}
              \/ \E k \in held : code = k + KEY_UP /\ down = held \ {k}
              \/ \E k \in Key : code \in {k, k + KEY_UP} /\ down = held
<1>1. held \subseteq Modifier
  BY DEF Types, TypeOK
<1>2. CASE Press
  <2>1. PICK k \in Modifier : Send(k, held \cup {k})
    BY <1>2 DEF Press
  <2>2. k \in Code /\ held \cup {k} \in SUBSET Modifier
    BY <1>1 DEF Code
  <2> QED BY <2>1, <2>2
<1>3. CASE Release
  <2>1. PICK k \in held : Send(k + KEY_UP, held \ {k})
    BY <1>3 DEF Release
  <2>2. k + KEY_UP \in Code /\ held \ {k} \in SUBSET Modifier
    BY <1>1 DEF Code
  <2> QED BY <2>1, <2>2
<1>4. CASE Type
  <2>1. PICK k \in Key : Send(k, held) \/ Send(k + KEY_UP, held)
    BY <1>4 DEF Type
  <2>2. k \in Code /\ k + KEY_UP \in Code /\ held \in SUBSET Modifier
    BY <1>1 DEF Code
  <2> QED BY <2>1, <2>2
<1> QED BY <1>2, <1>3, <1>4

\* A code is taken, by the interrupt or by a request.
LEMMA HandlerTypes ==
  ASSUME Types, kbd_handler
  PROVE  Types'
<1> DEFINE code == Head(queue).code
           c    == UnsignedChar(Kbtoa(state, code))
<1>1. /\ queue \in Seq(Sent) /\ queue # <<>>
      /\ state' = NextState(state, code)
      /\ \/ justPressed' = justPressed /\ keyboardBuffer' = keyboardBuffer
         \/ justPressed' = c /\ keyboardBuffer' = Fill(keyboardBuffer, c)
      /\ queue' = Tail(queue)
      /\ UNCHANGED <<procVars, masked, mode, held>>
  BY DEF kbd_handler, Types
<1>2. code \in Code
  <2>1. Head(queue) \in Sent
    BY <1>1
  <2> QED BY <2>1 DEF Sent
<1>3. c \in 0 .. 255
  BY <1>2, KbtoaIsNat DEF UnsignedChar
<1> HIDE DEF code, c
<1>4. queue' \in Seq(Sent)
  BY <1>1
<1>5. \A i \in DOMAIN queue' : queue'[i].held \subseteq Modifier
  <2> TAKE i \in DOMAIN queue'
  <2>1. queue'[i] \in Sent
    BY <1>4
  <2> QED BY <2>1 DEF Sent
<1>6. state' \subseteq {"INSHIFT", "CAPSLOCK", "INCTL", "INMETA"}
  BY <1>1, NextStateType DEF Types, TypeOK
<1>7. justPressed' \in 0 .. 255
  <2>1. justPressed \in 0 .. 255
    BY DEF Types, TypeOK
  <2>2. justPressed' = justPressed \/ justPressed' = c
    BY <1>1
  <2> QED BY <1>3, <2>1, <2>2
<1>8. keyboardBuffer' \in [0 .. 3 -> 0 .. 255]
  <2>1. keyboardBuffer \in [0 .. 3 -> 0 .. 255]
    BY DEF Types, TypeOK
  <2>2. Fill(keyboardBuffer, c) \in [0 .. 3 -> 0 .. 255]
    BY <1>3, <2>1 DEF Fill
  <2>3. CASE keyboardBuffer' = keyboardBuffer
    BY <2>1, <2>3
  <2>4. CASE keyboardBuffer' = Fill(keyboardBuffer, c)
    BY <2>2, <2>4, Zenon
  <2> QED BY <1>1, <2>3, <2>4
<1> QED BY <1>1, <1>4, <1>5, <1>6, <1>7, <1>8 DEF Types, TypeOK

\* A request of a process takes a code from the keyboard, or leaves it and its
\* controller alone.
LEMMA RequestTypes ==
  ASSUME Types, Create \/ \E p \in live : Request(p)
  PROVE  Types' /\ (kbd_handler \/ UNCHANGED <<keyVars, held, queue>>)
<1>1. CASE Create
  BY <1>1 DEF Create, Types, TypeOK
<1>2. ASSUME NEW p \in live, Stop(p) PROVE Types' /\ UNCHANGED <<keyVars, held, queue>>
  BY <1>2 DEF Stop, Types, TypeOK
<1>3. ASSUME NEW p \in live, NEW fd \in Fd, Open(p, fd)
      PROVE  Types' /\ UNCHANGED <<keyVars, held, queue>>
  <2>1. device' \in [Proc -> [0 .. 3 -> BOOLEAN]] /\ masked' \in BOOLEAN
    BY <1>3 DEF Open, kbdopen, enable_irq, Valid, Types, TypeOK
  <2> QED BY <1>3, <2>1 DEF Open, Types, TypeOK
<1>4. ASSUME NEW p \in live, NEW fd \in Fd, Close(p, fd)
      PROVE  Types' /\ UNCHANGED <<keyVars, held, queue>>
  <2>1. device' \in [Proc -> [0 .. 3 -> BOOLEAN]]
    <3>1. device \in [Proc -> [0 .. 3 -> BOOLEAN]]
      BY DEF Types, TypeOK
    <3>2. \/ device' = device
          \/ \E q \in Proc, d \in 0 .. 3 : device' = [device EXCEPT ![q][d] = FALSE]
      BY <1>4, Zenon DEF Close, kbdclose
    <3>3. ASSUME NEW q \in Proc, NEW d \in 0 .. 3, device' = [device EXCEPT ![q][d] = FALSE]
          PROVE  device' \in [Proc -> [0 .. 3 -> BOOLEAN]]
      <4>1. [device[q] EXCEPT ![d] = FALSE] \in [0 .. 3 -> BOOLEAN]
        BY <3>1, <3>3, Zenon
      <4> QED BY <3>1, <3>3, <4>1, Zenon
    <3> QED BY <3>1, <3>2, <3>3, Zenon
  <2>2. masked' \in BOOLEAN
    BY <1>4, Zenon DEF Close, kbdclose, enable_irq
  <2>3. mode' \in {"up", "wild"} /\ UNCHANGED <<live, keyVars, held, queue>>
    BY <1>4 DEF Close, kbdclose, Types, TypeOK
  <2> QED BY <2>1, <2>2, <2>3 DEF Types, TypeOK
<1>5. ASSUME NEW fd \in Fd, NoDriver(fd)
      PROVE  Types' /\ UNCHANGED <<keyVars, held, queue>>
  BY <1>5 DEF NoDriver, Types, TypeOK
<1>6. ASSUME NEW p \in live, NEW fd \in Fd, Read(p, fd)
      PROVE  Types' /\ UNCHANGED <<keyVars, held, queue>>
  <2>1. live' \subseteq Proc
    BY <1>6 DEF Read, Types, TypeOK
  <2> QED BY <1>6, <2>1 DEF Read, Types, TypeOK
<1>7. ASSUME KeyboardRequest PROVE Types' /\ kbd_handler
  BY <1>7, HandlerTypes DEF KeyboardRequest
<1> QED BY <1>1, <1>2, <1>3, <1>4, <1>5, <1>6, <1>7 DEF Request

\* Every step keeps the types.
LEMMA NextTypes ==
  ASSUME Types, [Next]_vars
  PROVE  Types'
<1>1. CASE Handler
  BY <1>1, HandlerTypes DEF Handler
<1>2. CASE Press \/ Release \/ Type
  <2>1. PICK code \in Code, down \in SUBSET Modifier : Send(code, down)
    BY <1>2, UserSends
  <2>2. queue' \in Seq(Sent) /\ held' = down
    BY <2>1, SentIsTyped
  <2>3. \A i \in DOMAIN queue' : queue'[i].held \subseteq Modifier
    <3> TAKE i \in DOMAIN queue'
    <3>1. queue'[i] \in Sent
      BY <2>2
    <3> QED BY <3>1 DEF Sent
  <2> QED BY <2>1, <2>2, <2>3 DEF Send, Types, TypeOK
<1>3. CASE Create \/ \E p \in live : Request(p)
  BY <1>3, RequestTypes
<1>4. CASE UNCHANGED vars
  BY <1>4 DEF vars, Types, TypeOK
<1> QED BY <1>1, <1>2, <1>3, <1>4 DEF Next

\* The types hold in every reachable state.
LEMMA TypesHold == Spec => []Types
BY InitTypes, NextTypes, PTL DEF Spec

(***************************************************************************)
(* The types of Devices: a character read from the tables fits a byte      *)
(* whatever flags are set, a code beyond the tables included (kbtoa()).    *)
(***************************************************************************)
THEOREM DeviceTypesHold == Spec => []TypeOK
<1>1. Types => TypeOK
  BY DEF Types
<1> QED BY <1>1, TypesHold, PTL

(***************************************************************************)
(* No process has both keyboards open: only kbdopen() sets a descriptor,   *)
(* and what kbdclose() may clear opens none.                               *)
(***************************************************************************)
THEOREM OneKeyboardHolds == Spec => []OneKeyboard
<1>1. Init => OneKeyboard
  BY DEF Init, OneKeyboard, KBD_NONECHO, KBD_ECHO
<1>2. ASSUME Types, OneKeyboard, [Next]_vars PROVE OneKeyboard'
  <2>1. ASSUME NEW p \in live, NEW d \in Fd, Open(p, d) PROVE OneKeyboard'
    <3>1. /\ device \in [Proc -> [0 .. 3 -> BOOLEAN]] /\ p \in Proc /\ d \in 0 .. 3
          /\ ~device[p][0] /\ ~device[p][1]
          /\ device' = [device EXCEPT ![p][d] = TRUE]
      BY <1>2, <2>1
      DEF Types, TypeOK, Open, Valid, kbdopen, MayOpen, KBD_NONECHO, KBD_ECHO
    <3> SUFFICES ASSUME NEW q \in Proc PROVE ~(device'[q][0] /\ device'[q][1])
      BY DEF OneKeyboard, KBD_NONECHO, KBD_ECHO
    <3>2. CASE q # p
      BY <1>2, <3>1, <3>2 DEF OneKeyboard, KBD_NONECHO, KBD_ECHO
    <3>3. CASE q = p
      BY <3>1, <3>3
    <3> QED BY <3>2, <3>3
  <2>2. ASSUME device' = device PROVE OneKeyboard'
    BY <1>2, <2>2 DEF OneKeyboard
  <2>3. CASE kbd_handler \/ Create \/ Press \/ Release \/ Type
    BY <2>2, <2>3 DEF kbd_handler, Create, Press, Release, Type, Send
  <2>6. ASSUME NEW p \in live, NEW fd \in Fd, Close(p, fd) PROVE OneKeyboard'
    <3>1. device \in [Proc -> [0 .. 3 -> BOOLEAN]]
      BY <1>2 DEF Types, TypeOK
    <3>2. ASSUME NEW q \in Proc, NEW d \in 0 .. 3, device' = [device EXCEPT ![q][d] = FALSE]
          PROVE  OneKeyboard'
      <4> SUFFICES ASSUME NEW r \in Proc PROVE ~(device'[r][0] /\ device'[r][1])
        BY DEF OneKeyboard, KBD_NONECHO, KBD_ECHO
      <4>1. \A e \in 0 .. 3 : device'[r][e] => device[r][e]
        BY <3>1, <3>2
      <4> QED BY <1>2, <4>1 DEF OneKeyboard, KBD_NONECHO, KBD_ECHO
    <3> QED BY <2>2, <2>6, <3>2, Zenon DEF Close, kbdclose
  <2>4. ASSUME NEW p \in live, Request(p) PROVE OneKeyboard'
    BY <2>1, <2>2, <2>3, <2>4, <2>6
    DEF Request, Stop, NoDriver, Read, KeyboardRequest
  <2>5. CASE UNCHANGED vars
    BY <2>2, <2>5 DEF vars
  <2> QED BY <1>2, <2>3, <2>4, <2>5 DEF Next, Handler
<1> QED BY <1>1, <1>2, TypesHold, PTL DEF Spec
-----------------------------------------------------------------------------
\* kbtoa() follows what the user does with a key.
LEMMA FlagsFollow ==
  ASSUME OneShift, NEW down \in SUBSET Modifier, NEW code, NEW then,
         \/ code \in Modifier /\ then = down \cup {code}
         \/ \E k \in down : code = k + KEY_UP /\ then = down \ {k}
         \/ \E k \in Key : code \in {k, k + KEY_UP} /\ then = down
  PROVE  NextState(Flags(down), code) = Flags(then)
<1>1. CASE code \in Modifier /\ then = down \cup {code}
  <2>1. IsModifier(code)
    BY <1>1 DEF IsModifier
  <2> QED BY <1>1, <2>1 DEF NextState, Flags
<1>2. ASSUME NEW k \in down, code = k + KEY_UP, then = down \ {k}
      PROVE  NextState(Flags(down), code) = Flags(then)
  <2>1. k \in {LSHIFT, RSHIFT, LMETA, LCTL, CAPSL}
    OBVIOUS
  <2>2. ~IsModifier(code) /\ code - KEY_UP = k /\ IsModifier(k)
    BY <1>2, <2>1 DEF IsModifier
  <2>3. NextState(Flags(down), code) = Flags(down) \ {Flag(k)}
    BY <2>2 DEF NextState
  <2>4. ASSUME NEW j \in down, j # k PROVE Flag(j) # Flag(k)
    <3>1. j \in {LSHIFT, RSHIFT, LMETA, LCTL, CAPSL}
      OBVIOUS
    <3>2. ~({j, k} = {LSHIFT, RSHIFT})
      BY DEF OneShift
    <3> QED BY <2>1, <2>4, <3>1, <3>2 DEF Flag
  <2> HIDE DEF IsModifier
  <2>5. Flags(down) \ {Flag(k)} = Flags(down \ {k})
    BY <2>4 DEF Flags
  <2> QED BY <1>2, <2>3, <2>5
<1>3. ASSUME NEW k \in Key, code \in {k, k + KEY_UP}, then = down
      PROVE  NextState(Flags(down), code) = Flags(then)
  <2>1. ~IsModifier(code) /\ ~IsModifier(code - KEY_UP)
    BY <1>3 DEF IsModifier
  <2> QED BY <1>3, <2>1 DEF NextState
<1> QED BY <1>1, <1>2, <1>3

\* One more code is sent.
LEMMA SendInStep ==
  ASSUME OneShift, Types, InStep, Press \/ Release \/ Type
  PROVE  InStep'
<1>1. PICK code \in Code, down \in SUBSET Modifier :
        /\ Send(code, down)
        /\ \/ code \in Modifier /\ down = held \cup {code}
           \/ \E k \in held : code = k + KEY_UP /\ down = held \ {k}
           \/ \E k \in Key : code \in {k, k + KEY_UP} /\ down = held
  BY UserSends
<1> DEFINE n == Len(queue)
           r == queue'
           e == [code |-> code, held |-> down]
<1>2. /\ r \in Seq(Sent) /\ Len(r) = n + 1 /\ n \in Nat
      /\ \A i \in 1 .. n : r[i] = queue[i]
      /\ r[n + 1] = e
      /\ held' = down /\ state' = state
  BY <1>1, SentIsTyped
<1>3. held \in SUBSET Modifier
  BY DEF Types, TypeOK
<1>4. NextState(Flags(held), code) = Flags(down)
  BY <1>1, <1>3, FlagsFollow
<1>5. e.code = code /\ e.held = down
  OBVIOUS
<1>6. /\ n = 0 => state = Flags(held)
      /\ n > 0 => /\ NextState(state, queue[1].code) = Flags(queue[1].held)
                  /\ queue[n].held = held
      /\ \A i \in 2 .. n :
           NextState(Flags(queue[i - 1].held), queue[i].code) = Flags(queue[i].held)
  <2>1. queue \in Seq(Sent) /\ (queue = <<>> <=> n = 0)
    BY DEF Types
  <2> QED BY <1>2, <2>1 DEF InStep
<1> HIDE DEF n, e
<1>7. r # <<>>
  BY <1>2
<1>8. NextState(state, r[1].code) = Flags(r[1].held)
  <2>1. CASE n = 0
    BY <1>2, <1>4, <1>5, <1>6, <2>1
  <2>2. CASE n > 0
    <3>1. 1 \in 1 .. n
      BY <1>2, <2>2
    <3> QED BY <1>2, <1>6, <2>2, <3>1
  <2> QED BY <1>2, <2>1, <2>2
<1>9. r[Len(r)].held = down
  BY <1>2, <1>5
<1>10. ASSUME NEW i \in 2 .. n + 1
       PROVE  NextState(Flags(r[i - 1].held), r[i].code) = Flags(r[i].held)
  <2>1. CASE i = n + 1
    <3>1. i - 1 = n /\ n \in 1 .. n /\ n > 0
      BY <1>2, <2>1
    <3>2. r[i - 1] = queue[n] /\ queue[n].held = held /\ r[i] = e
      BY <1>2, <1>6, <2>1, <3>1
    <3> QED BY <1>4, <1>5, <3>2
  <2>2. CASE i # n + 1
    <3>1. i \in 2 .. n /\ i \in 1 .. n /\ i - 1 \in 1 .. n
      BY <1>2, <2>2
    <3>2. r[i] = queue[i] /\ r[i - 1] = queue[i - 1]
      BY <1>2, <3>1
    <3> QED BY <1>6, <3>1, <3>2
  <2> QED BY <2>1, <2>2
<1>11. \A i \in 2 .. Len(r) :
         NextState(Flags(r[i - 1].held), r[i].code) = Flags(r[i].held)
  <2>1. Len(r) = n + 1
    BY <1>2
  <2> QED BY <1>10, <2>1
<1>12. state' = state /\ held' = down
  BY <1>2
<1> QED BY <1>7, <1>8, <1>9, <1>11, <1>12, Zenon DEF InStep

\* The first code is handled.
LEMMA HandlerInStep ==
  ASSUME Types, InStep, kbd_handler
  PROVE  InStep'
<1> DEFINE n == Len(queue)
           r == queue'
<1>1. /\ queue \in Seq(Sent) /\ queue # <<>> /\ n \in Nat /\ n > 0
      /\ queue' = Tail(queue) /\ held' = held
  BY DEF kbd_handler, Types
<1>2. state' = NextState(state, queue[1].code)
  BY <1>1 DEF kbd_handler
<1>3. /\ r \in Seq(Sent) /\ Len(r) = n - 1
      /\ \A i \in 1 .. n - 1 : r[i] = queue[i + 1]
  <2>1. /\ Tail(queue) \in Seq(Sent) /\ Len(Tail(queue)) = Len(queue) - 1
        /\ \A i \in 1 .. Len(Tail(queue)) : Tail(queue)[i] = queue[i + 1]
    BY <1>1, HeadTailProperties
  <2> QED BY <1>1, <2>1
<1>4. /\ NextState(state, queue[1].code) = Flags(queue[1].held)
      /\ queue[n].held = held
      /\ \A i \in 2 .. n :
           NextState(Flags(queue[i - 1].held), queue[i].code) = Flags(queue[i].held)
  BY <1>1 DEF InStep
<1> HIDE DEF n
<1>5. state' = Flags(queue[1].held)
  BY <1>2, <1>4
<1>6. r = <<>> => state' = Flags(held')
  <2>0. r = <<>> => Len(r) = 0
    OBVIOUS
  <2>1. r = <<>> => n = 1
    BY <1>1, <1>3, <2>0
  <2> QED BY <1>1, <1>4, <1>5, <2>1
<1>7. ASSUME r # <<>>
      PROVE  /\ NextState(state', r[1].code) = Flags(r[1].held)
             /\ r[Len(r)].held = held'
  <2>1. n >= 2
    BY <1>1, <1>3, <1>7
  <2>2. /\ 1 \in 1 .. n - 1 /\ n - 1 \in 1 .. n - 1 /\ 2 \in 2 .. n
        /\ (n - 1) + 1 = n /\ 1 + 1 = 2 /\ 2 - 1 = 1
    BY <1>1, <2>1
  <2>3. r[1] = queue[2] /\ r[n - 1] = queue[n]
    BY <1>3, <2>2
  <2>4. NextState(Flags(queue[1].held), queue[2].code) = Flags(queue[2].held)
    BY <1>4, <2>2
  <2>5. NextState(state', r[1].code) = Flags(r[1].held)
    BY <1>5, <2>3, <2>4
  <2>6. r[Len(r)].held = held'
    BY <1>1, <1>3, <1>4, <2>3
  <2> QED BY <2>5, <2>6
<1>8. ASSUME NEW i \in 2 .. Len(r)
      PROVE  NextState(Flags(r[i - 1].held), r[i].code) = Flags(r[i].held)
  <2>1. /\ i \in 1 .. n - 1 /\ i - 1 \in 1 .. n - 1 /\ i + 1 \in 2 .. n
        /\ (i - 1) + 1 = i /\ (i + 1) - 1 = i
    BY <1>1, <1>3
  <2>2. r[i] = queue[i + 1] /\ r[i - 1] = queue[i]
    BY <1>3, <2>1
  <2>3. NextState(Flags(queue[i].held), queue[i + 1].code) = Flags(queue[i + 1].held)
    BY <1>4, <2>1
  <2> QED BY <2>2, <2>3
<1> QED BY <1>6, <1>7, <1>8, Zenon DEF InStep

\* Every step keeps the flags in step with the codes that wait.
LEMMA NextInStep ==
  ASSUME OneShift, Types, InStep, [Next]_vars
  PROVE  InStep'
<1>1. CASE kbd_handler
  BY <1>1, HandlerInStep
<1>2. CASE Press \/ Release \/ Type
  BY <1>2, SendInStep
<1>3. ASSUME UNCHANGED <<keyVars, held, queue>> PROVE InStep'
  BY <1>3 DEF InStep
<1>4. CASE Create \/ \E p \in live : Request(p)
  BY <1>1, <1>3, <1>4, RequestTypes
<1>5. CASE UNCHANGED vars
  BY <1>3, <1>5 DEF vars
<1> QED BY <1>1, <1>2, <1>4, <1>5 DEF Next, Handler

\* The flags are in step in every reachable state.
LEMMA InStepHolds ==
  ASSUME OneShift
  PROVE  Spec => [](Types /\ InStep)
<1>1. Init => Types /\ InStep
  BY InitTypes DEF Init, InStep, Flags
<1>2. Types /\ InStep /\ [Next]_vars => (Types /\ InStep)'
  BY NextTypes, NextInStep
<1> QED BY <1>1, <1>2, PTL DEF Spec

(***************************************************************************)
(* Once every code has been handled, the flags of scanToASCII.c are those  *)
(* of the modifier keys that are down, on a keyboard with one shift key in *)
(* use: kbtoa() sees every change, in order, however long the keyboard was *)
(* masked.                                                                 *)
(***************************************************************************)
THEOREM ModifiersMatchHolds ==
  ASSUME OneShift
  PROVE  Spec => []ModifiersMatch
<1>1. InStep => ModifiersMatch
  BY DEF InStep, ModifiersMatch, Flags
<1> QED BY <1>1, InStepHolds, PTL
-----------------------------------------------------------------------------
\* Where the tables have the letters.
LEMMA LetterTables ==
  ASSUME NEW k \in LetterKey
  PROVE  /\ k \in 1 .. 50 /\ ~IsModifier(k)
         /\ Len(kbcode) >= 50 /\ Len(kbshift) >= 50 /\ Len(kbctl) >= 50
         /\ kbcode[k] \in 97 .. 122
         /\ kbshift[k] = kbcode[k] - 32
         /\ kbctl[k] = kbcode[k] - 96
<1>1. k \in {16, 17, 18, 19, 20, 21, 22, 23, 24, 25, 30, 31, 32, 33, 34, 35, 36, 37, 38,
             44, 45, 46, 47, 48, 49, 50}
  BY DEF LetterKey
<1>2. Len(kbcode) >= 50 /\ Len(kbshift) >= 50 /\ Len(kbctl) >= 50
  BY DEF kbcode, kbshift, kbctl
<1>3. k \in 1 .. 50 /\ ~IsModifier(k)
  BY <1>1 DEF IsModifier
<1>4. kbcode[k] \in 97 .. 122
  BY <1>1 DEF kbcode
<1>5. kbshift[k] = kbcode[k] - 32
  BY <1>1 DEF kbcode, kbshift
<1>6. kbctl[k] = kbcode[k] - 96
  BY <1>1 DEF kbcode, kbctl
<1> QED BY <1>2, <1>3, <1>4, <1>5, <1>6
\* kbtoa() and the cast to a character give what the key means.
LEMMA LetterTranslated ==
  ASSUME NEW h \in SUBSET Modifier, NEW k \in LetterKey
  PROVE  UnsignedChar(Kbtoa(Flags(h), k)) = Letter(k, h) /\ Letter(k, h) # 0
<1> DEFINE s == Flags(h)
           a == kbcode[k]
           m == IF LMETA \in h THEN 128 ELSE 0
           b == IF LCTL \in h THEN a - 96
                ELSE IF (h \cap {LSHIFT, RSHIFT} # {}) # (CAPSL \in h) THEN a - 32 ELSE a
<1>1. /\ k \in 1 .. 50 /\ ~IsModifier(k)
      /\ Len(kbcode) >= 50 /\ Len(kbshift) >= 50 /\ Len(kbctl) >= 50
      /\ a \in 97 .. 122
      /\ kbshift[k] = a - 32
      /\ kbctl[k] = a - 96
  BY LetterTables
<1>2. /\ "INSHIFT" \in s <=> h \cap {LSHIFT, RSHIFT} # {}
      /\ "CAPSLOCK" \in s <=> CAPSL \in h
      /\ "INCTL" \in s <=> LCTL \in h
      /\ "INMETA" \in s <=> LMETA \in h
  <2>1. h \subseteq {LSHIFT, RSHIFT, LMETA, LCTL, CAPSL}
    OBVIOUS
  <2>2. /\ Flag(LSHIFT) = "INSHIFT" /\ Flag(RSHIFT) = "INSHIFT" /\ Flag(CAPSL) = "CAPSLOCK"
        /\ Flag(LCTL) = "INCTL" /\ Flag(LMETA) = "INMETA"
    BY DEF Flag
  <2>3. \A f : f \in s <=> \E j \in h : Flag(j) = f
    BY DEF Flags
  <2> HIDE DEF s
  <2>4. "INSHIFT" \in s <=> h \cap {LSHIFT, RSHIFT} # {}
    BY <2>1, <2>2, <2>3
  <2>5. "CAPSLOCK" \in s <=> CAPSL \in h
    BY <2>1, <2>2, <2>3
  <2>6. "INCTL" \in s <=> LCTL \in h
    BY <2>1, <2>2, <2>3
  <2>7. "INMETA" \in s <=> LMETA \in h
    BY <2>1, <2>2, <2>3
  <2> QED BY <2>4, <2>5, <2>6, <2>7
<1> HIDE DEF s, a
<1> DEFINE table == Table(s)
<1>3. k <= Len(table) /\ table[k] = b
  <2> DEFINE shifted == (h \cap {LSHIFT, RSHIFT} # {}) # (CAPSL \in h)
  <2>1. CASE LCTL \in h
    <3>1. table = kbctl
      BY <1>2, <2>1 DEF Table
    <3> QED BY <1>1, <2>1, <3>1
  <2>2. CASE LCTL \notin h /\ shifted
    <3>1. table = kbshift
      BY <1>2, <2>2 DEF Table
    <3> QED BY <1>1, <2>2, <3>1
  <2>3. CASE LCTL \notin h /\ ~shifted
    <3>1. table = kbcode
      BY <1>2, <2>3 DEF Table
    <3>2. kbcode[k] = a
      BY DEF a
    <3> QED BY <1>1, <2>3, <3>1, <3>2
  <2> QED BY <2>1, <2>2, <2>3
<1>4. b \in 1 .. 122 /\ m \in {0, 128}
  BY <1>1
<1>5. Letter(k, h) = b + m
  BY DEF Letter, a
<1>6. Kbtoa(s, k) = table[k] + (IF "INMETA" \in s THEN 128 ELSE 0)
  <2>1. ~(k >= KEY_UP \/ IsModifier(k))
    BY <1>1
  <2> QED BY <1>3, <2>1 DEF Kbtoa
<1>7. m = IF "INMETA" \in s THEN 128 ELSE 0
  BY <1>2
<1> HIDE DEF b, m, table
<1>8. Kbtoa(s, k) = b + m
  BY <1>3, <1>6, <1>7
<1>9. (b + m) % 256 = b + m
  BY <1>4
<1> QED BY <1>4, <1>5, <1>8, <1>9 DEF UnsignedChar, s

(***************************************************************************)
(* Letters are read as what they meant when they were pressed: whatever    *)
(* keys changed while the code waited in the controller, whoever opened or *)
(* closed the keyboard meanwhile, and for every process and queue.         *)
(***************************************************************************)
THEOREM KeyTranslatedHolds ==
  ASSUME OneShift
  PROVE  Spec => KeyTranslated
<1> DEFINE Step ==
      queue # <<>> /\ queue' = Tail(queue) /\ Head(queue).code \in LetterKey =>
        LET c == Letter(Head(queue).code, Head(queue).held)
        IN  justPressed' = IF c = CTL_D THEN justPressed ELSE c
<1>1. ASSUME Types, InStep, [Next]_vars PROVE Step
  <2> SUFFICES ASSUME queue # <<>>, queue' = Tail(queue), Head(queue).code \in LetterKey
               PROVE  LET c == Letter(Head(queue).code, Head(queue).held)
                      IN  justPressed' = IF c = CTL_D THEN justPressed ELSE c
    OBVIOUS
  <2>1. /\ queue \in Seq(Sent) /\ Len(queue) \in Nat
        /\ Len(queue') = Len(queue) - 1
    BY <1>1, HeadTailProperties DEF Types
  <2>2. queue' # queue
    <3> DEFINE m == Len(queue')
               n == Len(queue)
    <3>1. queue' = queue => m = n
      BY Zenon
    <3>2. m = n - 1 /\ n \in Nat
      BY <2>1, Zenon
    <3> HIDE DEF m, n
    <3>3. m # n
      BY <3>2
    <3> QED BY <3>1, <3>3, Zenon
  <2>3. ~(Press \/ Release \/ Type)
    <3> SUFFICES ASSUME Press \/ Release \/ Type PROVE FALSE
      OBVIOUS
    <3>1. PICK code \in Code, down \in SUBSET Modifier : Send(code, down)
      BY <1>1, UserSends
    <3>2. Len(queue') = Len(queue) + 1
      BY <1>1, <3>1, SentIsTyped
    <3> QED BY <2>1, <3>2
  <2>4. Create \/ (\E p \in live : Request(p)) => kbd_handler
    BY <1>1, <2>2, RequestTypes
  <2>5. kbd_handler
    BY <1>1, <2>2, <2>3, <2>4 DEF Next, Handler, vars
  <2> DEFINE k == queue[1].code
             h == queue[1].held
             c == UnsignedChar(Kbtoa(state, k))
  <2>6. Head(queue) = queue[1]
    OBVIOUS
  <2>7. k \in LetterKey /\ h \in SUBSET Modifier
    <3>1. queue[1] \in Sent
      BY <2>1
    <3> QED BY <2>6, <3>1 DEF Sent
  <2> HIDE DEF k, h, c
  <2>8. state = Flags(h)
    <3>1. NextState(state, k) = Flags(h)
      BY <1>1 DEF InStep, k, h
    <3>2. ~IsModifier(k) /\ k \in 1 .. 50
      BY <2>7, LetterTables
    <3>3. ~IsModifier(k - KEY_UP)
      BY <3>2 DEF IsModifier
    <3> QED BY <3>1, <3>2, <3>3 DEF NextState
  <2>9. c = Letter(k, h) /\ c # 0
    BY <2>7, <2>8, LetterTranslated DEF c
  <2>10. IF c \in {0, CTL_D} THEN justPressed' = justPressed ELSE justPressed' = c
    BY <2>5, <2>6 DEF kbd_handler, c, k
  <2> QED BY <2>6, <2>9, <2>10 DEF k, h
<1> HIDE DEF Step
<1>2. Spec => [][Step]_vars
  BY <1>1, InStepHolds, PTL DEF Spec
<1> QED BY <1>2 DEF KeyTranslated, Step
=============================================================================
