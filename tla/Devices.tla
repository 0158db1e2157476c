------------------------------- MODULE Devices -------------------------------
(***************************************************************************)
(* The keyboard: the descriptors through which processes reach it          *)
(* (c/di_calls.c and the wrappers of c/syscall.c), its driver (c/kbd.c)    *)
(* and the translation of scan codes (c/scanToASCII.c).                    *)
(*                                                                         *)
(* Each request and each interrupt is one action, as in Dispatcher, which  *)
(* also says when a process runs: here any live process may make the next  *)
(* request.  The keyboard's controller is modelled from how kbd_handler()  *)
(* uses it: it queues the codes of keys that go down and up, and keeps its *)
(* interrupt raised as long as there is one.                               *)
(***************************************************************************)
EXTENDS Integers, SequencesExt

CONSTANTS
  Proc,        \* slots of proctab
  Modifier,    \* the codes of the modifier keys that are used
  Key,         \* the codes of the other keys that are used
  Fd,          \* descriptors and device numbers that programs pass
  MaxQueue     \* bound: codes in the controller

\* The codes of the modifier keys, and what is added when a key goes up.
LSHIFT == 42
RSHIFT == 54
LMETA  == 56
LCTL   == 29
CAPSL  == 58
KEY_UP == 128
NOCHAR == 256

CTL_D == 4
ENTERKEY == 10

ASSUME KeyAssumption ==
  /\ Modifier \subseteq {LSHIFT, RSHIFT, LMETA, LCTL, CAPSL}
  /\ Key \subseteq (1 .. 127) \ {LSHIFT, RSHIFT, LMETA, LCTL, CAPSL}
ASSUME BoundAssumption == MaxQueue \in Nat /\ Fd \subseteq Int

VARIABLES
  live,            \* the processes that have not stopped
  device,          \* fileDescriptorTable[fd].device is set, in each process
  masked,          \* the keyboard's bit in the mask of the controller
  state,           \* state of scanToASCII.c, as the set of its flags
  justPressed,     \* the last character, 0 before there is one
  keyboardBuffer,
  mode,            \* "up", or "wild" after a call of a null driver entry
  held,            \* the modifier keys that are down
  queue            \* the codes in the controller, each with the modifier
                   \* keys that were down when it was sent

procVars == <<live, device>>
keyVars  == <<state, justPressed, keyboardBuffer>>
vars == <<procVars, masked, keyVars, mode, held, queue>>

KBD_NONECHO == 0
KBD_ECHO    == 1

\* The request that the keyboard's entry point makes.
SYS_KEYBOARD == 20

\* init8259(): the first command word clears the mask, and nothing sets it again.
init8259 == masked = FALSE

Init ==
  /\ live = Proc
  /\ device = [p \in Proc |-> [fd \in 0 .. 3 |-> FALSE]]
  /\ init8259
  /\ state = {} /\ justPressed = 0 /\ keyboardBuffer = [i \in 0 .. 3 |-> 0]
  /\ mode = "up"
  /\ held = {} /\ queue = <<>>

Valid(fd) == fd \in 0 .. 3

\* enable_irq(1, ...): the other bits of the mask are read and written back.
enable_irq(disable) == masked' = disable

-----------------------------------------------------------------------------
(***************************************************************************)
(* sysopen(): whatever the number, major device 0 is opened, the keyboard  *)
(* without echo; the descriptor of that number is set unless one of the    *)
(* two keyboards has been opened.                                          *)
(***************************************************************************)
BugOneChecked(p) == ~device[p][KBD_NONECHO]

MayOpen(p) == ~device[p][KBD_NONECHO] /\ ~device[p][KBD_ECHO]

kbdopen(p, d) ==
  /\ MayOpen(p)
  /\ enable_irq(FALSE)
  /\ device' = [device EXCEPT ![p][d] = TRUE]

Open(p, d) ==
  /\ Valid(d)
  /\ kbdopen(p, d)
  /\ UNCHANGED <<live, keyVars, mode, held, queue>>

(***************************************************************************)
(* kbdclose(): di_close() passes none of the arguments it takes, so the    *)
(* word that is cleared is chosen by what the stack holds.  It may be of   *)
(* no account, some descriptor, or a word that the kernel lives on.        *)
(***************************************************************************)
kbdclose ==
  /\ enable_irq(TRUE)
  /\ \/ UNCHANGED <<device, mode>>
     \/ /\ \E q \in Proc, d \in 0 .. 3 : device' = [device EXCEPT ![q][d] = FALSE]
        /\ UNCHANGED mode
     \/ mode' = "wild" /\ UNCHANGED device

\* sysclose().
Close(p, fd) ==
  /\ Valid(fd) /\ device[p][fd]
  /\ kbdclose
  /\ UNCHANGED <<live, keyVars, held, queue>>

\* syswrite(), syscall(SYS_READ), syscall(SYS_IOCTL) where there is no driver.
NoDriver(fd) ==
  /\ fd \in {2, 3}
  /\ mode' = "wild"
  /\ UNCHANGED <<procVars, masked, keyVars, held, queue>>

(***************************************************************************)
(* sysread() and sysioctl() pass the descriptor as the number of the       *)
(* request: 0 is SYS_STOP and 2 SYS_CREATE; 1 and 3, SYS_YIELD and         *)
(* SYS_TIMER, leave this state alone, as a number of no request does, and  *)
(* SYS_KEYBOARD where no code waits.                                       *)
(***************************************************************************)
Read(p, fd) ==
  /\ fd = SYS_KEYBOARD => queue = <<>>
  /\ \/ fd = 0 /\ live' = live \ {p}
     \/ fd = 2 /\ \E q \in Proc \ live : live' = live \cup {q}
     \/ (fd = 2 => live = Proc) /\ fd # 0 /\ live' = live
  /\ UNCHANGED <<device, masked, keyVars, mode, held, queue>>

\* create(): the new process has the descriptors of the slot's last owner.
Create ==
  /\ \E q \in Proc \ live : live' = live \cup {q}
  /\ UNCHANGED <<device, masked, keyVars, mode, held, queue>>

Stop(p) ==
  /\ live' = live \ {p}
  /\ UNCHANGED <<device, masked, keyVars, mode, held, queue>>

-----------------------------------------------------------------------------
\* The three tables, from code 1 on.
kbcode == <<
  27, 49, 50, 51, 52, 53, 54, 55, 56, 57, 48, 45, 61, 8, 9, 113, 119, 101, 114, 116,
  121, 117, 105, 111, 112, 91, 93, 10, 0, 97, 115, 100, 102, 103, 104, 106, 107, 108, 59, 39,
  96, 0, 92, 122, 120, 99, 118, 98, 110, 109, 44, 46, 47, 0, 0, 0, 32>>

kbshift == <<
  0, 33, 64, 35, 36, 37, 94, 38, 42, 40, 41, 95, 43, 8, 9, 81, 87, 69, 82, 84,
  89, 85, 73, 79, 80, 123, 125, 10, 0, 65, 83, 68, 70, 71, 72, 74, 75, 76, 58, 34,
  126, 0, 124, 90, 88, 67, 86, 66, 78, 77, 60, 62, 63, 0, 0, 0, 32>>

kbctl == <<
  0, 0, 0, 0, 0, 0, 0, 0, 0, 0, 0, 31, 0, 8, 9, 17, 23, 5, 18, 20,
  25, 21, 9, 15, 16, 27, 29, 10, 0, 1, 19, 4, 6, 7, 8, 10, 11, 12, 0, 0,
  0, 0, 28, 26, 24, 3, 22, 2, 14, 13>>

\* The flag of a modifier key: both shift keys have the same.
Flag(code) ==
  CASE code \in {LSHIFT, RSHIFT} -> "INSHIFT"
    [] code = CAPSL -> "CAPSLOCK"
    [] code = LCTL  -> "INCTL"
    [] code = LMETA -> "INMETA"

IsModifier(code) == code \in {LSHIFT, RSHIFT, LMETA, LCTL, CAPSL}

\* state after kbtoa(code); what is not a modifier key leaves it alone.
BugShiftStays(s, code) ==
  IF IsModifier(code) THEN s \cup {Flag(code)}
  ELSE IF IsModifier(code - KEY_UP) /\ code # RSHIFT + KEY_UP /\ code # LSHIFT + KEY_UP
       THEN s \ {Flag(code - KEY_UP)} ELSE s

NextState(s, code) ==
  IF IsModifier(code) THEN s \cup {Flag(code)}
  ELSE IF IsModifier(code - KEY_UP) THEN s \ {Flag(code - KEY_UP)} ELSE s

\* The table kbtoa() takes a character from: the last flag it looks at decides.
BugCapsWins(s) ==
  IF "CAPSLOCK" \in s THEN kbshift ELSE IF "INCTL" \in s THEN kbctl
  ELSE IF "INSHIFT" \in s THEN kbshift ELSE kbcode

Table(s) ==
  IF "INCTL" \in s THEN kbctl
  ELSE IF ("INSHIFT" \in s) = ("CAPSLOCK" \in s) THEN kbcode ELSE kbshift

(***************************************************************************)
(* kbtoa(): the character of a key that goes down.  A code beyond a table  *)
(* gives NOCHAR, to which INMETA is added unless shift or ctl is down.     *)
(***************************************************************************)
Kbtoa(s, code) ==
  LET table == Table(s)
      meta  == IF "INMETA" \in s THEN 128 ELSE 0
  IN  IF code >= KEY_UP \/ IsModifier(code) THEN NOCHAR
      ELSE IF code <= Len(table) THEN table[code] + meta
      ELSE IF {"INSHIFT", "INCTL"} \cap s # {} THEN NOCHAR ELSE NOCHAR + meta

\* addCharToBuffer(): every free place is filled.
Fill(buffer, c) == [i \in DOMAIN buffer |-> IF buffer[i] = 0 THEN c ELSE buffer[i]]

\* What an unsigned char keeps of kbtoa()'s answer: 0 of NOCHAR.
BugWideChar(c) == c

UnsignedChar(c) == c % 256

(***************************************************************************)
(* kbd_handler() where a code waits, which is taken.                       *)
(***************************************************************************)
kbd_handler ==
  /\ queue # <<>>
  /\ LET code == Head(queue).code
         c    == UnsignedChar(Kbtoa(state, code))
     IN  /\ state' = NextState(state, code)
         /\ IF c \in {0, CTL_D} THEN UNCHANGED <<justPressed, keyboardBuffer>>
            ELSE /\ justPressed' = c
                 /\ keyboardBuffer' = Fill(keyboardBuffer, c)
  /\ queue' = Tail(queue)
  /\ UNCHANGED <<procVars, masked, mode, held>>

\* The keyboard's interrupt.
Handler == ~masked /\ kbd_handler

\* sysread(20, ...) and sysioctl(20, ...): the handler as a request, masked or not.
KeyboardRequest == SYS_KEYBOARD \in Fd /\ kbd_handler

-----------------------------------------------------------------------------
\* The user presses a key, or keeps it down, or releases it.
Send(code, down) ==
  /\ Len(queue) < MaxQueue
  /\ held' = down
  /\ queue' = Append(queue, [code |-> code, held |-> down])
  /\ UNCHANGED <<procVars, masked, keyVars, mode>>

Press   == \E k \in Modifier : Send(k, held \cup {k})
Release == \E k \in held : Send(k + KEY_UP, held \ {k})
Type    == \E k \in Key : Send(k, held) \/ Send(k + KEY_UP, held)

Request(p) ==
  \/ Stop(p)
  \/ KeyboardRequest
  \/ \E fd \in Fd : Open(p, fd) \/ Close(p, fd) \/ NoDriver(fd) \/ Read(p, fd)

Next ==
  /\ mode = "up"
  /\ Create \/ Handler \/ Press \/ Release \/ Type \/ \E p \in live : Request(p)

Spec == Init /\ [][Next]_vars
-----------------------------------------------------------------------------
\* Each variable keeps its type; a character fits its byte (kbd.c, line 13).
TypeOK ==
  /\ live \subseteq Proc
  /\ device \in [Proc -> [0 .. 3 -> BOOLEAN]]
  /\ masked \in BOOLEAN
  /\ state \subseteq {"INSHIFT", "CAPSLOCK", "INCTL", "INMETA"}
  /\ justPressed \in 0 .. 255
  /\ keyboardBuffer \in [0 .. 3 -> 0 .. 255]
  /\ mode \in {"up", "wild"}
  /\ held \subseteq Modifier
  /\ \A i \in DOMAIN queue : queue[i].held \subseteq Modifier

\* No process has both keyboards open, whatever it opened and closed before
\* and whoever had its slot (kbd.c, lines 42-46).
OneKeyboard == \A p \in Proc : ~(device[p][KBD_NONECHO] /\ device[p][KBD_ECHO])

\* Once every code has been handled, the flags of scanToASCII.c are those of
\* the modifier keys that are down, however long the keyboard was masked in
\* between (kbtoa()).  With both shift keys in use it does not hold: they
\* share a flag, which the first of the two to go up clears.
ModifiersMatch == queue = <<>> => state = {Flag(k) : k \in held}

\* The codes of the keys of letters.
LetterKey == (16 .. 25) \cup (30 .. 38) \cup (44 .. 50)

\* What a letter's key means while the keys of down are held.
Letter(k, down) ==
  LET shifted == (down \cap {LSHIFT, RSHIFT} # {}) # (CAPSL \in down)
  IN  (IF LCTL \in down THEN kbcode[k] - 96
       ELSE IF shifted THEN kbcode[k] - 32 ELSE kbcode[k])
      + (IF LMETA \in down THEN 128 ELSE 0)

\* A key of a letter is read as the character it meant when it was pressed,
\* not when its interrupt was served: the modifier keys that have changed
\* since have codes behind it (kbd_handler(), kbtoa()).  CTL-D is dropped.
KeyTranslated ==
  [][queue # <<>> /\ queue' = Tail(queue) /\ Head(queue).code \in LetterKey =>
       LET c == Letter(Head(queue).code, Head(queue).held)
       IN  justPressed' = IF c = CTL_D THEN justPressed ELSE c]_vars

-----------------------------------------------------------------------------
\* "Reads up to bufflen bytes ... @return The number of bytes read or -1 on
\* failure" (c/syscall.c, lines 168-173): the reader goes on after the call.
ReadReturns ==
  [][\A p \in live, fd \in Fd : Read(p, fd) => p \in live']_vars
=============================================================================
