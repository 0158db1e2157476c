# Xeros in TLA+

Xeros is a teaching kernel for the i386: one processor, up to 64 processes, a
software interrupt for system calls, a 100 Hz timer, a keyboard, a text screen.
It comes with a C library and with a boot loader that unpacks the kernel. This
project specifies it in TLA+, checks small instances with TLC and proves theorems about
every instance with TLAPS. It is written from the code. Where a comment
promises something else, the section "Where the code and its comments differ" says so,
and which of the differences a run shows.

## The system

| Part | Source | State | Operations |
|---|---|---|---|
| dispatcher | `c/disp.c` | process table `proctab`, ready list `head`/`tail`, running process `p` | one case of the switch in `dispatch()` for each request, `ready()`, `next()`, `findPCB()` |
| sleep device | `c/sleep.c` | delta list `sleepQ` | `sleep()`, `tick()` |
| signals | `c/signal.c` | `signalTable` of each process, frames on its stack | `signal()`, `sigtramp()`, sigreturn |
| process creation | `c/create.c` | `nextpid`, a slot of `proctab` | `create()` |
| context switcher | `c/ctsw.c` | saved contexts, `pcb.ret`, four globals | `contextswitch()`, three entry points |
| interrupts | `c/i386.c`, `c/evec.c` | controller (8259), vectors | `set_evec()`, `enable_irq()`, `end_of_intr()`, `trap()` |
| system call library | `c/syscall.c` | none | `syscall()` and its wrappers |
| memory manager | `c/mem.c` | list of holes | `kmalloc()`; `kfree()` is empty |
| device layer | `c/di_calls.c` | `deviceTable`, four descriptors in each process | `di_open()`, `di_close()`, `di_write()`, `di_read()`, `di_ioctl()` |
| keyboard | `c/kbd.c`, `c/scanToASCII.c` | buffer, last key, modifier bits | `kbd_handler()`, `kbtoa()`, `kbdopen()`, `kbdclose()` |
| console | `c/kprintf.c` | cursor `crtat`, screen memory, 6845 | `kprintf()`, `kbmputc()` |
| C library | `lib/libxc` | `_sctab` of `doscan.c`, `qses` of `qsort.c` | `sprintf()`, `sscanf()`, `atoi()`, `qsort()`, strings |
| boot loader | `boot/zBoot` | input buffer, window, free memory, cursor | `decompress_kernel()`: `unzip()`, `inflate()`, `malloc()`, `puts()` |
| image builder, set-up | `boot/build.c`, `boot/boot` | none | the BIOS assembly and the layout of the image |
| start | `c/startup.S`, `c/init.c` | all of the above | `initproc()`: idle and root are created, `dispatch()` never returns |

How they interact. A process issues a request with `int`, or an interrupt stops
it; the entry point in `ctsw.c` saves its registers on its own stack and returns
to `dispatch()`, which serves the request and calls `contextswitch()` for the
same process or for the one `next()` gives it. All that the parts share they
share through `proctab`: `disp.c` and `sleep.c` thread two lists through one
`next` field, `signal.c` writes to a stack that `ctsw.c` will restore, and
`pcb.ret` holds either an answer or the `eax` of a process that was interrupted.
Programs and kernel are one image: a program calls `kprintf()`, `sscanf()` or
`qsort()` as the kernel does, and shares their static variables with everybody.
The boot loader runs before all of it and leaves the screen to `kprintf()`.

What is hard. The kernel runs with interrupts off, so its own code is not
interleaved. The hazards are in what survives from one turn to another: a
process in two lists, a relative time that was not corrected, an answer that
another process's turn overwrites, a slot used again, a signal to a process in
any state. Then there is the one stretch that is interleaved: the vectors are
trap gates, and between an `int` and the `cli` of its entry point the process
can be interrupted again. Programs are interleaved at every instruction, and so
are the console and the library wherever they use a static. The boot loader is
sequential; its difficulty is arithmetic: tables of codes, a window that wraps,
buffers that are refilled, memory that is used twice. Nothing survives a restart, so there are no crashes to
recover from; there are states in which the machine is lost (an empty ready
list, a fault in the kernel, a null handler), and `mode` in Dispatcher names
them. `PROJECT.json` lists every hazard at its line, with the properties that
cover it.

## The modules

**Dispatcher** is the kernel at the grain of a turn of `dispatch()`: one action
for each case of the switch (a case with several outcomes has several: `Kill`,
`KillRefused`, `KillUnused`), and one for each interrupt. An action contains the
calls its case makes and the choice of the next process. The two lists are
sequences of slots; a sleeper's place in the delta list is `left`, the ticks it
has still to wait. `frames` holds the signal frames a stack has on it. `due` is
a history variable: what `eax` must hold when a process runs on. Each frame keeps
what was due to the context it covers, and `returned` says that the running process
has just come back to such a context, where sigreturn has put 0. `SigReturn` takes
`old_sp`: the trampoline's is that of the topmost frame, a program that makes the request
itself may name a frame further down, or anything else (`SigReturnElsewhere`). Programs are
not modelled: any process makes any request at any time, as long as it is not
stuck in a null handler, and idle only yields.

**KernelLists** is the same two lists as they are in memory: `head`, `tail`,
`sleepQ`, one `next` and one `sleepdiff` for each pcb. The loops of `sleep()` and
`tick()` take one step for each iteration.

**Scheduler** is what both promise: the ready processes run first come, first
served, and a process that sleeps n ticks becomes ready at the n-th tick from
then. Two processes whose time is up at the same tick may come in either order.
Dispatcher maps its queue and `left` to it; KernelLists reads the lists off
along the pointers, sums the differences, and counts what a tick has still to do
as done (`Line`, `Waits`).

**ContextSwitch** is the way in and out of the kernel: `stack` holds where each
saved context of a process goes on, `isr` the interrupts in service in the
controller, `frames` the `old_sp` of each signal frame. `owed` and `under` remember what
`eax` must be in the context a process is in and in those that frames cover, and the
contexts a signal found. An interrupt may come in user code and at each entry point before
its `cli`; from the `cli` to the `iret` is one action. It justifies the grain of
Dispatcher: a process that is stopped at an entry point goes on to make its
request later, as if the interrupt had come just before.

**Devices** is the keyboard: which descriptors are set in each process, the bit
that masks the interrupt, `kbd_handler()` with its buffer, and `kbtoa()` with its
tables. What one process closes is masked for all; the descriptor itself stays
set, since `di_close()` calls the driver without arguments: the 0 of `kbdclose()` goes to
an address that is left on the stack, which is no word of account, some descriptor, or a
word of the kernel, where the model ends. `sysread()` and
`sysioctl()` make the request their descriptor happens to number (`Read`), which for 20
is the handler of the keyboard (`KeyboardRequest`). The
user and the controller are the environment: a code waits in `queue` with the
modifier keys that were down when it was sent, until the handler takes it.

**Memory** is `kmalloc()` on its list of holes, as `create()` calls it. The header
of a hole lies in its first bytes (`hdr`); a block is cut off the front and the
header is copied behind it with the size of the whole hole, which is never
brought up to date. The model ends where a block or a header leaves free memory. That
the double of a stack fits an `int` is assumed (`StackAssumption`).

**Console** is the screen: `puts()` of the boot loader, then `kbmputc()`, which
the kernel runs in one step and a program in one step for each access to
`crtat`, to a cell or to a port (`pc`). `reg` is the copy of `crtat` the compiled
code holds between its load and its store, so a program that is interrupted
there takes back what others moved. **Terminal** is what both
promise: a page of rows and a cursor. `before` remembers screen and cursor as a
program found them, until somebody else prints.

**Huffman** is `huft_build()`: counts, offsets, values and the tables it makes,
each a function from its places to entries, with what an entry means to the
loops that decode. **Inflate** is the loader around it: the stages of `unzip()`
and of the three kinds of block (`pc`), the bit buffer and its input buffer
(`in`), the window, `malloc()`, the check sum, and `error()`, which halts. `Start` is
`decompress_kernel()` up to the first byte, with its test of the memory. `Recognised` is the
test of the magic bytes, whose counter nobody sets (see below). In
**MCInflate** kernels are packed by definitions that take RFC 1951 at its word: the fixed
code, the order in which lengths are sent and the polynomial of the check sum are written
down there once more. What they use of the loader's modules is `Pattern`, the words of a
canonical code, which the loader does not use, and `SumOver`, a sum.

**Format** is the arithmetic of text: `_doprnt()` with its five numerals,
`_innum()` of `doscan.c`, `atoi()` and `atol()`, on words of 32 bits. A format is a
sequence of items, so the parsing of one is left out. **Library** has two
programs call `sprintf()` and `sscanf()`, or `qsort()`. What touches no static is
one step; `%[` takes one for each character of the table it writes and of the
text it reads, and `qs1()` one for each turn of its loops, for each reads `qses`
once. `alone` is a history variable: nobody else has written the static that
this call relies on.

The **MC** modules give constants their values for TLC, and the symmetry of
slots and programs where nothing tells them apart.

Eight modules hold theorems: **QueueLemmas** is what the others need of
sequences (what `Append`, `Tail`, splitting, concatenation and insertion change), of
numbers (a least one, counting up to n, division with a remainder) and of the folds of
the community modules; **DispatcherProofs** has Dispatcher's types and lists, its action
properties, the answers of its requests, and that it implements Scheduler;
**KernelListsProofs**, **ContextSwitchProofs**, **DevicesProofs**, **MemoryProofs**,
**ConsoleProofs** and **LibraryProofs** are about the module they name.

A `Bug...` operator beside a definition is a slip the properties must notice;
`PROJECT.json` pairs them.

## The runs

| Run | Instance | Shows |
|---|---|---|
| `scheduling` | 4 slots, pids to 4, sleeps of 0, 1 and 2 ticks, fair timer, the requests that are not about signals | types, one place for each process, idle always there, distinct pids, sleepers in order, first in first out, `Scheduler` implemented; every ready process runs, every sleeper wakes |
| `signals` | 3 slots, pids to 4, one signal, one handler, two frames in all | what is due to a process in `eax` is lost to the 0 of sigreturn and to nothing else, in contexts under a frame too; sigwait ends on a signal and only then; a signal ends no sleep |
| `kernel_lists` | 5 pcbs, sleeps of 1, 2 and 3 ticks | the lists stay apart and well formed; only the first difference counts down; `Scheduler` implemented |
| `context_switch` | 3 processes, three contexts on a stack, one signal frame on each, seven contexts on all stacks | no register, answer or request is lost but to the 0 of sigreturn; a handler returns to the context its signal found; the timer is in service only at its own entry point |
| `devices` | 2 processes, descriptors 0 to 2 and 20, shift, caps lock, control and D, 2 codes waiting | one keyboard for each process; the modifier flags catch up; a letter is read as it was meant when pressed |
| `memory` | two holes of 8 and 12 paragraphs, six sizes of stack | blocks share no byte with each other or with the list; a hole is overrun only when more is asked of it than it has |
| `console` | 3 rows of 4 columns, two programs and the kernel, three texts | a text that is not interrupted by another is shown as a terminal shows it, whatever races went before; so is the boot loader's |
| `inflate` | kernels of a few bytes in stored, fixed and dynamic blocks, whole, cut off and with a byte changed; window of 8 bytes, input buffer of 5 | what is booted is what was packed, nothing whole is refused but by the test of the magic bytes; tables lie in free memory and decode their code; `huft_build()` is right for every list of up to four lengths, the complete codes of five and six symbols, and one longer list |
| `library` | every conversion of 20 words that are hard for some base or sign; texts with classes; arrays of up to 6 elements; pairs of small calls at once | numerals are exact and as wide as asked for, and come back through `sscanf()`; `%[`, `%s` and `%c` take what they accept; an undisturbed `qsort()` sorts, touches nothing else and needs a stack of log2 n calls |
| `request_vs_doc` | as `context_switch`, every program with 0 in `eax` | sigreturn does not recover the return code: a request that was interrupted becomes SYS_STOP |
| `read_vs_doc` | 2 processes | `sysread` on descriptor 0 ends the caller |
| `kill_vs_doc` | 3 slots | syskill to a pid no process has is not refused: for pid 0 the machine halts |

Bounds. `MaxPid` ends the supply of pids: with 3 slots and pids to 4, or 4 slots
and pids to 4, slots are used again by later processes. `MaxFrames` bounds the
signal frames on a stack, which the code does not; in `signals` the constraint
`FewFrames` looks no further than two frames on all stacks together, which is
two on one or one on each of two processes that signal each other. `MaxLate`
bounds the count of a sleeper that is past its time, which happens with sleeps
of less than a tick only; the runs have none, and `MaxLate` is 0 there. With
such a sleep `SleepersWake` is false: 1 to 9 ms become 0 ticks, `tick()` counts
down before it tests for 0, and the process and all behind it sleep for good.
In `context_switch` the constraint `FewContexts`
lets one process have the contexts of an interrupted request, of a signal and of what
its handler does, while the two others have one each. `MaxDepth` is what an `int`, a keyboard interrupt and a timer interrupt on top of
each other need. Three slots are the least in which two user processes and idle
interact; four or five are what it takes for the middle of a list to differ from
its ends. `MaxQueue` is what the controller holds before the user has to wait;
two codes let a modifier change behind a key that has not been served. The
numbers of milliseconds and the values of `eax` matter only as being equal or
not, so one or two of each do.

In `memory` the sizes are such that holes are used up to the byte, nearly, and
not at all; the gap between them is wide enough for a block that overruns the
first. In `console` the screen is small enough for every text to wrap or scroll;
`MaxPrints` lets a second text follow a race, and `MaxAt` stops a cursor that lost
updates carry beyond the screen for ever. In `inflate` window and buffer are so
small that both wrap within a kernel, and `END` leaves room for one table, so
that the next goes over the input; the lists of lengths for `huft_build()` have
more symbols than its smallest table. With m bits for more than 2^m + m symbols `huft_build()`
can make a second table of more than m bits, and what hangs below it goes wrong, as for
the lengths 1, 2, 4, 4, 4, 5, 5 and 2 bits; the loader has 9 bits for 288 symbols, 7 for
19 and 6 for 30, and `HuftBuildRight` asks no decoding of other tables. What a table of an
incomplete code decodes is checked by `TablesRight`, for those the kernels have. In `library` two calls at once are short,
as every interleaving of theirs is a behaviour, and the long ones run alone;
`GUARD` is how far around an array a stray exchange is still followed.

Fairness. `FairSpec` says that the timer interrupt happens again and again. The
timer is programmed once, in `contextinit()`, and never masked; user code runs
with interrupts enabled, and the kernel's turns are finite. Nothing is assumed
of the programs: they may compute forever.

## What is proved

A theorem holds for every value of the constants that meets the assumptions named in
the module: any number of processes from two up, any set of requests, signals,
handlers and lengths of sleeps, stacks and holes of any size, any bound. No
assumption says more than what the code fixes: idle and one process more, a null
handler that is no program's, `NULL` that is no pcb, the alignment of the holes, a
screen of two rows or more.
Some theorems have a hypothesis of their own, which is in their statement and is
discussed below.

| Theorem | Property | Inductive invariant |
|---|---|---|
| `TypeCorrect` | `Dispatcher!TypeOK` | itself |
| `OnePlaceHolds`, `NeverSpinsHolds` | `OnePlace`, `NeverSpins` | `Queues` |
| `PidsUniqueHolds` | `PidsUnique` | itself, with the types |
| `SleepSortedHolds` | `SleepSorted` | itself, with `Queues` |
| `FifoHolds`, `SigwaitEndsOnSignalHolds`, `SleepEndsOnTimeHolds` | the action properties of those names | `Queues`; `SleepSorted` for `SleepEndsOnTime` |
| `DueLostBySigreturnOnlyHolds` | `DueLostBySigreturnOnly` | `DueKept` |
| `DispatcherImplementsScheduler` | `ImplementsScheduler` | `SchedInv`; if `NoShortSleep` |
| `ListTypesHold`, `ListsApartHolds`, `DeltasPositiveHolds` | `KernelLists!TypeOK`, `ListsApart`, `DeltasPositive` | `Threads` |
| `ListsImplementScheduler` | `KernelLists!ImplementsScheduler` | `Threads` and `Clock`; if `NoZeroSleep` |
| `ContextTypesHold`, `EaxLostBySigreturnOnlyHolds`, `ReturnsWhereSignalledHolds`, `TimerPromptHolds` | `ContextSwitch!TypeOK`, `EaxLostBySigreturnOnly`, `ReturnsWhereSignalled`, `TimerPrompt` | `Saved` |
| `DeviceTypesHold`, `OneKeyboardHolds` | `Devices!TypeOK`, `OneKeyboard` | `Types`; for `OneKeyboard` also itself |
| `ModifiersMatchHolds`, `KeyTranslatedHolds` | `ModifiersMatch`, `KeyTranslated` | `InStep`; if `OneShift` |
| `MemoryTypesHold`, `BlocksApartHolds`, `OverrunWhenFullHolds` | `Memory!TypeOK`, `BlocksApart`, `OverrunWhenFull` | `Filled` |
| `ConsoleTypesHold`, `UndisturbedIsOnePiece` | `Console!TypeOK`; the second is a step to the next row | `Printing`; `Undisturbed` |
| `PrintShownHolds` | `PrintShown` | `Undisturbed`; if no text goes back over cells it has not passed, and no program prints nothing |
| `PutsShownHolds` | `PutsShown` | `Undisturbed`; if the 6845 has its cursor on the screen, `puts()` has only characters that it knows, and no text of the kernel goes back |
| `ClassRightHolds` | `ClassRight` | `Types` and `Scans` |
| `SortedRightHolds` | `SortedRight` | `Types` and `Sorts` |
| `LibraryTypesHold` | `Library!TypeOK` | `Types` and `Sorts` |

**The lists.** `OnePlace` and `NeverSpins` are not inductive one by one: that the ready
list is never empty when its head is needed follows from idle being in it, which in
turn follows from the list containing every ready process but the running one.
`Queues` says it in one: the ready list contains, once each, exactly the processes
that are ready and not running, the sleep list exactly the sleeping ones, the running
process is ready and idle is always ready. The action properties follow from it step
by step. For `Fifo` each step is first shown to do one of three things to the ready
list (`ReadyStep`): nothing, to append, or to append and take the head.

**Answers.** What a process must find in `eax` is remembered in `due` when it is
interrupted, answered or put to sleep, goes into the frame when it is signalled, and comes
back when sigreturn goes back to the context under the frame: the model expects there what the
signal found, not what sigreturn leaves. `DueLostBySigreturnOnly` says that a process which
may run finds what is due, except one that has just returned from a handler
(`returned`), which finds 0. A value owed to a process that may not run is carried over
the wait: `DueKept` says that a sleeper is owed 0 or nothing, a process in sigwait nothing,
since `signal()` writes its `eax`, and a stopped one nothing, since `create()` leaves
`pcb.ret` to the next owner of the slot.

**Scheduler.** A sleep in Scheduler ends at a tick that counts it to 0. In the code a
sleep of less than a tick is entered with 0 ticks, is counted to -1 and never ends, so
the refinement needs that there is none: `NoShortSleep` for milliseconds,
`NoZeroSleep` for ticks. It is no convenience of the proof: TLC finds a
counterexample without it. Under it every sleeper has a tick or more to wait
(`TicksLeft`), and those a tick wakes are the first ones of the sorted list.

**The pointers.** KernelLists reads its lists off with a recursive function along
`next`, of which no induction is at hand. The proof names the sequences instead: `r`
and `s` are threaded by the pointers (`Stand`), each step is shown to thread others,
and only then that reading the pointers gives what is threaded (`StandReads`). What
needs induction, along a list or its sums, uses that a set of places that is not empty
has a least one (`LeastOf`, from the well-founded order of finite subsets).
`Threads` adds that no difference but the first is negative and that a search is at
one of the sleepers. For the refinement `Clock` adds that the first sleeper has a tick
or more to wait between two ticks, and that during a search the sum of the
differences up to `tmp`, and what `sleep()` still has to count off, make the length
that was asked for; that is what the last step of the search shows to Scheduler.
`Reads` is how sequences and sums appear to Scheduler. It is a statement about one
state and true of all, so the proof of a step has it before and after.

**Contexts.** `Saved` says of each process that may run how the contexts on its stack
lie: user code at the bottom, as many pieces of user code more as it has signal frames,
and each request directly on the user code that made it (`Nested`); and that a process
without a frame has made no sigreturn, which would take off what is not there. `Kept` ties
each frame to what it covers: its `old_sp` is the height of the stack its signal found,
that stack is still there, below the handler's own contexts (`Above`), and the frames
below are covered with it. So a handler that returns finds the context it interrupted
(`ReturnsWhereSignalled`) whatever came in between, and the `owed` that is restored is of
that very context. Both modules take from the code that sigreturn writes 0 and from
nothing else: what the context was owed is not touched by it, which is why
`ReturnCodeRecovered` can be violated.

**The keyboard.** `InStep` relates the flags to the codes that wait: each code turns the
flags of the keys held before it into those of the keys held after it, up to the keys
that are down now. One bit stands for both shift keys, so this is false if both are
used, and so is `ModifiersMatch` (the first to go up clears the bit while the other is
held). `OneShift` says that the keyboard has one of them. Everything else, the
tables of `kbtoa()` for all letters and all sets of modifiers included, is for any
set of keys.

**Memory.** `Filled` says where the two holes have got to: the first hole up to `e1`, the
second up to `e2`, past their ends if they were overrun, are in blocks and nothing else
is; and the list is both holes, one of them, or empty, with the sizes they had at the
start.

**The screen.** A program prints in as many steps as `kbmputc()` has accesses, and
another may print between any two. `Undisturbed` says what nobody has spoiled: while no
other text has come between, what the text *will have made* of screen and cursor is what
the kernel would have made of it in one piece, from the screen and cursor it began with
(`Kept`). `Aim` is that for each place of the code: at `load` the whole character is
still to be shown, at `inc` only the cursor is to be moved, within the loop that scrolls
the rows from `line` on are still to be copied. Each step of the program keeps `Aim`, and
a step of another ends what `Undisturbed` speaks of. So `UndisturbedIsOnePiece`, for any
text and wherever races have carried the cursor before. What is left is sequential: that
the kernel's text, folded over the characters, and `puts()`, with its own column and row,
show what a terminal shows. The hypotheses are what the code needs: `kbmputc()` does not
stop a backspace at the first cell, so a text that goes back further than it came leaves
the screen; a text of no character does not send the cursor to the 6845; `puts()` knows
no tab, backspace or carriage return.

**The strings.** `ClassRight` compares what a string conversion has taken, at its end,
with what it accepts. `Types` keeps every scan within its text, whose characters
`_doprnt()` has printed. `Scans` has three parts. While `_instr()` takes characters, its
buffer is the text from where the conversion began, all of it accepted, and the count
it has left is what is missing to its width (`Taking`). While `_getccl()` writes
`_sctab`, the table says of each character it has passed whether it ends the string
(`ClassRead`); so at the first character the table is the class or what is not in it. A
program that writes the table while another is at a class ends what is said of that
one's table, and its `%[`; what is said of `%s` and `%c` holds in any case.

**The sort.** `SortedRight` holds of arrays of any length and contents, elements of any
size, and any number of programs. `Sorts` is about a sort that has `qses` to itself, and
so knows that the global is its element size; a `qsort()` of another program is what
ends that, and nothing more is said of the sort. The recursion of `qs1()` is a stack of
ranges that wait, and the invariant speaks of all of them at once: the one at hand and
those that wait do not overlap (`Apart`), and two elements are in order unless one range
has both (`InOrder`), so that with no range left the array is sorted. While `qs1()`
partitions, the smaller elements are below `i`, the larger above `j`, and what equals
the middle one from `lp` to `hp` (`Parted`). Each range is at most half of the
one of the call before (`Halved`), from which the bound on the open calls follows:
it is what calling itself for the smaller part achieves. `qsexc()` and
`qstexc()` move whole elements, so the array is at every step the first one with its
places permuted (`Rearranged`), and the memory around it is untouched; the numbers of
equal elements agree because the permutation is a bijection. That the pointers
stay in order (`TypeOK`) is part of it.

Only model-checked:

- `Served` and `SleepersWake`: liveness is out of the prover's reach.
- Inflate with Huffman, and of Library `PrintedRight` and `ScannedBack`: what their
  operators compute is recursive over the data (the bits of a kernel, the digits of a
  number), and induction over data is out of the prover's reach; the runs check them
  against reference definitions over the inputs listed above.
- What the three runs of a comment against the code show to be false.

## Where the code and its comments differ

Three runs check what a comment promises and end in a counterexample:

- `request_vs_doc`: "recovers any return code pushed onto the stack" (`syscall.c`, line
  100). sigreturn puts 0 in `eax` (`disp.c`, line 130). A process that was stopped between
  its `int` and the `cli`, and signalled there, makes request 0, which is SYS_STOP, in place
  of its own. A register a program had put there, or an answer it had not yet read, is lost
  in the same way: with another value in `Eax`, `ReturnCodeRecovered` fails for those. The
  properties `EaxLostBySigreturnOnly` and `DueLostBySigreturnOnly` say how far this goes:
  nothing else loses them.
- `kill_vs_doc`: "-18 if the target process doesn't exist" (`syscall.c`, line 115).
- `read_vs_doc`: "the number of bytes read or -1 on failure" (`syscall.c`, line 173).

Two more were met while modelling. The models have them as the code does and no run of
their own shows them:

- `huft_build()` promises 2 for a list of zeros (`inflate.c`, line 110) and returns 0, with
  no table. `HuftBuildRight` holds the code to the comment for every other list; this one is
  excluded there (`Used(b) # {}`), as it is where a block has no distance code.
- `get_method()` compares the magic bytes with a `memcmp()` of the loader's own
  (`misc.c`, lines 181-189), whose counter is never set. What was in memory decides whether
  the second byte counts at all, or the one behind `magic[2]` as well (`SameMagic`). So a
  whole kernel can be refused, and one whose second byte is damaged accepted: `BootsRight`
  allows both at this test (`"unknown"`), and nowhere else.

## What is not modelled, and the plan

Not modelled, though it is core code: a stack as so many bytes. A signal takes 64
of them and nothing counts, so `MaxFrames` stands for the end of the stack, and
what is written beyond it is not followed. Nor is a program that makes sigreturn itself
with a pointer to no frame: it goes on in a context it has made up (`SigReturnElsewhere`
leaves its `eax` and the machine to chance), and ContextSwitch has the trampoline's
sigreturn only. A code lost while the keyboard's own
buffer is full is not modelled either: then the flags would stay wrong until the
key is used again. `kbdioctl()` sets a variable that nothing reads.

Of the C library the parsing of formats, `scanf()` and `fscanf()` (there is no
device they could read), and the copying and comparing of strings are left out.
Two habits of `_doprnt()` are modelled but no property speaks of them: `%-0` fills
with zeros on the right, where they change the number (`doprnt.c`, line 226), and
`%b` of 2^19 or more writes beyond its buffer (line 42; `Library` stops there). A
`%[` without its `]` reads on behind the format (`doscan.c`, lines 272-278); formats
of the model have it.

Of the boot loader: streams that use a code their block does not assign, for
which the tables hold what was in memory before (`STALE`); archives of `pkzip`; a
file name in the header, which `get_method()` takes for the data (`misc.c`, line
419); and liveness, as TLC cannot evaluate the enabling of its long steps.

Left out for good: the BIOS assembly, the image builder and the segment set-up,
which run straight through once; the assembly stubs that only print and halt;
`c/old` and the files whose names end in `~`, which no Makefile builds; and the
bodies of programs.
