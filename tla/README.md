# A verification development of WNAJ_OS

WNAJ_OS (`src/student-distrib/`) is a uniprocessor x86 teaching kernel: three
terminals, six process slots, a 100 Hz timer that runs the terminals round
robin, a virtualised real-time clock, a read-only file system, and a keyboard
handler that edits and echoes lines.  This directory holds TLA+ models of it, the
TLC runs that check them and the theorems TLAPS proves about them.

There is one processor, so everything that can go wrong is decided by where
interrupts are on.  `cli()` and `sti()` do not nest: any helper that ends with
`sti()` turns interrupts on for its caller (`terminal_write`, `putc`,
`update_cursor`, `term_switch`, `send_signal`).  Interrupts and system calls enter
through interrupt gates (`idt.c:68-79`), that is with interrupts off, exceptions
through trap gates.  **A model's action is the code between two places where
interrupts are on**, and the modules differ in which places they keep apart.

## Inventory

| Component | State | Operations | Hard part | What makes it correct |
| --- | --- | --- | --- | --- |
| Processes and scheduling (`syscall_functions.c`, `pit.c`, `kernel.c`) | `pid[]`, `terms[].pid`, the pcbs, `this_pcb`, user page, `tss.esp0` | execute, halt, tick, boot of a shell | `sti()` in the middle of execute and halt; contexts saved on stacks that others use | the running context is the scheduled process's; every process has one continuation; stacks are exclusive; no slot leaks; every terminal runs |
| Line input (`kbd.c`, `term.c`) | `terms[].input`: buffer, idx, eol | keys, terminal_read | handler and reader interleave; idx is shared | typed characters delivered in order, once; Enter wakes the reader |
| Output and switching (`term.c`, `lib.c`, `pit.c`) | video pages, cursors, one `screen_x/screen_y`, two page table entries | terminal_write, echo, term_switch, tick, drawing through vidmap | three writers share one screen position and one window on video memory | every terminal's display is what it would be alone |
| Real-time clock (`rtc.c`) | `rtc_freq[]`, `rtc_counter[]` | open, write, read, the handler | readers see their countdown only in their slices | reads last their period and return |
| Files (`filesystem.c`, `syscall_functions.c`) | `fd_arr` of the pcb, the image | open, close, read, setup_fd, halt | end of file, block boundaries, bad pointers, pcb reuse | a descriptor is a stream of its own |
| Keyboard decoding (`kbd.c`) | `kbd_mods` | key_to_ascii, the switch of keyboard_handler | prefix bytes, two keys of one modifier, codes that mean two things | a key does what is written on it; modifiers follow the keys held |
| Status bar, mouse, CMOS clock (`mouse.c`, `rtc.c`, `lib.c`) | packet counter, buttons, `delay`, row 24 | mouse_handler, rtc_handler, print_time, status_puts | two handlers share `delay` and the row; packets found by counting; date arithmetic | a message lasts three seconds; movements are not presses; the time is Central time |
| Signals (`signals.c`) | `pending_sig`, `sig_handlers` | send_signal, set_handler | never delivered: nothing calls check_deliver_signal | Ctrl+C marks the foreground process of the visible terminal |
| Interrupt linkage, IDT, PIC (`ass_link_handler.S`, `idt.c`, `i8259.c`, `e_handler.c`, `kernel.c`) | masks, in-service bits, frames on the kernel stacks, `store_return` | entry, exit, EOI, enable_irq | `sti()` before the EOI; the timer leaves handlers half way | every interrupt is acknowledged once, every request served; a return value is its caller's |
| Command parsing, getargs (`syscall_functions.c`) | `args` of the pcb | execute, getargs, is_valid_exec | cuts at 32 bytes, pcb reuse | a program gets its own arguments |
| User programs (`src/syscalls`) | their buffers | shell, cat, ls, grep | buffers smaller than files, lines across reads | the output is what the command means |
| Paging set-up, boot, descriptor tables (`paging.c`, `boot.S`, `x86_desc.S`) | page tables | once, at boot | - | - |
| Kernel library, kernel tests, other programs | - | sequential | - | - |

Components interact through shared state only.  The keyboard handler writes the
input of the *visible* terminal and the reader of the *scheduled* one takes it;
`pit_handler` and `term_switch` decide where output goes; `halt` and `execute`
decide which process a terminal runs, which pcb and descriptor table system calls
use, and where they return.  `rtc_handler` counts down the clocks of all terminals,
the message the mouse left and the seconds of the time.

## Modules

| Module | What it is |
| --- | --- |
| `Process` | execute, halt and the timer over the process table |
| `Jobs`, `MCProcess` | abstract: a stack of jobs per terminal; the refinement mapping |
| `LineInput` | one terminal's input buffer, its keys and its reader |
| `LineQueue`, `MCLineInput` | abstract: a line that grows, shrinks at its end and is taken; the mapping |
| `Screen` | video pages, cursors, the screen position, switching |
| `Displays`, `MCScreen` | abstract: independent displays; the mapping |
| `Rtc` | the virtual clocks of the terminals |
| `Clocks` | `Rtc` composed with `Jobs`: clocks of processes that execute each other |
| `Files` | one descriptor table over the image |
| `Streams`, `MCFiles` | abstract: independent positions in files; a small image and the mapping |
| `Keyboard` | from scan codes to what keyboard_handler does, with send_signal |
| `Typist`, `MCKeyboard` | abstract: keys that do what is written on them; eighteen keys and the mapping |
| `StatusBar`, `MCStatusBar` | row 24: mouse, messages, time; texts and times for a run |
| `Interrupts` | devices, controllers, gates, handlers, linkage, boot order |
| `Programs`, `MCPrograms` | commands: shell, execute's parsing, cat, ls, grep over `Files`; what a command means, an image and command lines |
| `ProgramsAnswers`, `MCAnswers` | what a program has printed at every step; the image with and without its damaged file |
| `Process_proofs`, `LineInput_proofs`, `Screen_proofs`, `Rtc_proofs`, `Files_proofs`, `Keyboard_proofs`, `StatusBar_proofs`, `Interrupts_proofs` | theorems |

Definitions whose comment says *mutant* are slips that a run is known to notice; the
specifications do not use them.

### Process

State: `pid`, `term_pid` (`terms[t].pid`), `scheduled_term`, the pcb fields
`process_id`, `parent_id`, `saved_ctx` (`saved_ebp/esp`), `scheduled_ctx`
(`scheduled_ebp/esp`), `this_pcb`, `user_page` (page directory entry 32), `esp0`,
and `cpu`, the running context: where in the code it is, for which process, on whose
kernel stack.  `Execute`, `BootShell` and `RestartShell` are the three calls of
`syscall_execute` up to its `sti()`; `EnterUser` is the rest, up to `iret`.
`HaltChild` is a whole `syscall_halt` with a parent (interrupts stay off);
`HaltRoot` is the other path up to its `sti()`.  `TickResume` and `TickBoot` are
`pit_handler`.  A kernel stack is named by the pid whose 8 KB block holds it.
`MCProcess` maps the table to `Jobs`: a terminal's stack of jobs is its process and
that one's ancestors, read off `parent_id` (`Ancestry`, a recursive function).

Two windows of a few instructions are named by `TimerWindows`: `"restart"`, between
the `sti()` of a halting shell and the execute that restarts it, and `"bootEntry"`,
between the `sti()` of an execute the timer made and its `iret`.  `EarlyCommands`
says whether a shell may get a command before all shells have booted.  The kernel
is wrong in all three cases: TLC violates `OwnTerminal`, `StackExclusive` and
`CallerIsParent` respectively.  The main run and the theorems leave them out, and
so say exactly under which conditions the kernel is right.

### LineInput

`idx`, `eol`, `buffer` of one terminal; `reader` is where its process is in
`terminal_read`; `kbd` is what the handler has left to do after an echo turned
interrupts on.  A Tab's second and later spaces are stored with interrupts on in
three steps (the byte, load `idx`, store `idx + 1`: the build has no
optimisation, `src/student-distrib/Makefile` passes `-g` only).  `TabPreempted`
says whether the reader may run between them; it is the only window of that
module in which delivery goes wrong.  `EnterWhenFull` says whether Enter is
pressed when the buffer has no byte left, which stores outside it: the byte
behind the buffer is `idx`, and `Store` models what that does.  Stored
characters are identified by their turn, which is what "once" and "in order" need.

### Screen

`phys` is the displayed page, `mem[t]` the page a terminal's display waits in,
`pte` and `user_pte` what virtual 0xB8000 and the user's video page map to,
`screen` the pair `screen_x/screen_y` as one position.  A write is cut where
`putc` has turned interrupts on: before the cursor moves (`put`, `line`), after
it (`next`), and after `_screen_seek` (`seek`).  A key's echo is one step, as
`screen_putc` does not touch the interrupt flag.  Three windows are named by
`Windows`: `"stale"` (output in the slice in which the visible terminal changed:
`term_switch` does not update the page table entries), `"seek"` (the writer of the visible
terminal is preempted between `_screen_seek` and `putc`, and `pit_handler`
sets the position only for background terminals) and `"key"` (a key is handled
while a character is half written).  In each of them `ImplementsDisplays` fails;
without them it holds.

### Rtc and Clocks

`rtc_freq`, `rtc_counter` per terminal; `asked` and `waited` are history
variables that the code does not have, for the properties.  `ReadReturn` needs
the reader's own slice, `Tick` happens in anybody's.  A frequency above `HZ` makes the
countdown start at zero: such a read returns without an interrupt, which is what
`HZ \div asked[t]` = 0 says too.  A frequency of zero can be written
(`freq & (freq - 1)` is zero), and the next `rtc_read` divides by it: the process ends.

`Clocks` puts the stack of jobs that `Process` implements under every terminal.
`Execute` and `Halt` are those of `Jobs` (with the lowest free slot, as in the code), and move
the descriptor (`opened`) between the process and `kept`; the frequency stays with the
terminal, as in `rtc.c`, where `rtc_close` does nothing (the reset it has commented out
is the mutant).  So a child that opens the clock changes its parent's period, which `altered`
records: `FrequencyIsOwn` says that nothing else does.
`ImplementsRtc` is the specification of `Rtc`: what is proved of it, its `TypeOK`
included, holds of processes that execute each other.

### Files

One table `fd_arr` through the processes that have the pcb one after the other.
`Halt` is the end of a process with a parent, whose loop closes what is open; `HaltRoot`
is that of a parentless one, which goes on to execute before it comes to the loop and
leaves its descriptors in the pcb, for `setup_fd` to take.  `Streams` lets an ended
process leave anything and wants the next to begin with nothing open.
`ReadData` is `read_data` with its loop as a recursive function; a byte is the
block it is in and its place there.  `FileRead` keeps the code's way of taking a
return value of 0 for the end of the file and any other for a success.  `ReadTellsTransfer`
is what is written above `file_read`, "-1 (failure), or n bytes transferred (success)", and
the code keeps it but in two cases, which `ReadSizes` and `ReadsOn` leave out of the run:

- A read of no bytes moves the position to the end and returns what is left although
  nothing was copied.
- A read that meets a pointer out of range returns -1 and moves the position by all it was
  asked for, perhaps beyond the end; a process that reads on there gets the length less the
  position, a negative number: -4 for eight bytes of a file of four.  `Behind` is
  that state, and `ReadsOn` says whether processes read in it.

No program of the repository does either on the image it comes with.  `CopyStart` is what `read_data` does before its loop: it takes the
pointer of the block the position is in, which for a position at the end of a file of
whole blocks is the one behind its last.  If that pointer is out of range the read at the
end fails instead of returning nothing; `SoundEnds` says that there is no such file.
`MCFiles` maps a descriptor to its file and its position (`StreamOf`).

### Keyboard

`kbd_mods`, the key bytes the device still holds (`queue`, `sent`), and, of other
components, the visible terminal, `terms[].pid` and the pending bit of
`send_signal(2)`.  `Interrupt` is `keyboard_handler` with one byte: `ModsAfter` is
the switch on the modifier codes, `KeyToAscii` is `key_to_ascii` with its tables in
ASCII (`Layout` puts the rows at their codes), `Deed` the switch on its result.  `held` is the set of keys the
handler has been told are down.  `Typist` knows no codes: keys come and go as a whole, a
character types itself, and only a function key, with Alt, switches terminals.

What the code does that one may not expect, and the model keeps: the characters
`;` `<` `=` have the ASCII codes 59 to 61, the scan codes of F1 to F3, so typing them
switches terminals instead, without Alt (the run `keyboard_alt`); Caps Lock shifts every key,
digits too; Ctrl+C in a terminal that has no process yet dereferences the pcb of
slot -1, which no page maps (`fault`); the pending bit is set and never looked at.
The two keys of `MCKeys` with such a character, semicolon and equals, are `Mistaken`.  The
promise of `Typist` has no exception for them, so `keyboard` runs with the others, the
`HonestKeys`, and `KeysDoWhatTheySay` is about these; `EveryCharacterTypes` excepts the three
characters.  `KeyboardAssumption` excludes the prefixed shifts that Print Screen sends.

### StatusBar

The cells of row 24, `mouse_handler`'s index `i` and buttons, `delay`, `rtc_count`.
A step is a byte of the mouse (`Mouse`), an interrupt of the clock (`Tick`, or `Second`,
with `print_time`) or a change of the visible terminal.  `phase` and `buttons` are
the device's side of the packets: `ButtonsFollow` compares the two.  `AckBytes` is the
number of bytes IRQ 12 delivers before the first packet; the handler's index starts
at -1, so one is right and any other number leaves it out of step for ever (with
`AckBytes = 2` TLC violates `ButtonsFollow`).  With `TornReads` the clock may advance while
`print_time` reads its six registers; then `TimeIsCentral` fails.

`TimeIsCentral` is Central Standard Time by the calendar: before six o'clock UTC it is the day
before, which on a first is the last of the month before.  The code tests `day < 0`
where the day has become 0, and has no month to go back to, so on these mornings the row
says day 00 of the month that has begun in UTC only.  `MCTimes` has no such
instant; `FirstMornings` are three, and with them (`MCStatusBarFirst.cfg`) TLC violates the
property.  The code always takes six hours: it does not follow summer time, and the property does not
ask that of it.

### Interrupts

The requests, in-service bits and masks of the two controllers (`irr`, `isr`, `enabled`),
the frames on each terminal's kernel stack, `store_return`, and what `entry()` has
left to do.  A gate turns interrupts off, so a handler up to its `sti()` is one step;
what remains is a frame.  `TakeAtOnce` is `rtc_handler` and `mouse_handler`,
`TakeKey` the keyboard's, whose echo enables interrupts long before its end of
interrupt, `TakeTimer` is `pit_handler` with the change of stacks.  The linkage of
system calls is `ReturnAtOnce` when the handler comes back with interrupts off, and
`CallReturns` and `Load` when it does not.

The BIOS is taken to deliver nothing until `i8259_init`, although the first `printf`
enables interrupts.  `EarlyKeys` says whether a key may be pressed before every terminal
has a process: then `pit_handler` may drop a context without a process with a keyboard
handler in it, the keyboard stays in service for ever, and TLC violates
`ServiceMatchesHandlers`.  While a keyboard handler waits for its slice before its end
of interrupt, the clock and the mouse wait as well and ticks of the clock are lost;
that they are served in the end is `EveryRequestServed`.

### Programs

The shell, the parsing of `execute`, `getargs`, and cat, ls and grep, a step per
system call, over the operations of `Files`, which the module extends, in one slot whose pcb
is taken over again and again.  `Bytes` are small strings of one character.  `Meaning` in
`MCPrograms` is written from what a command is to a user: `AnswersCommand` compares
it with what was printed when the prompt is back.  `Fits` names the commands for which
this may be asked: those that execute does not cut.

`ProgramsAnswers` says it of every step.  `CatAnswers` and `LsAnswers`: what was printed is
the part of the meaning up to the descriptor's position.  `GrepAnswers`: what was printed, with
what the rest of the file will add to it, is the meaning up to the file that the
descriptor of the directory stands at; and grep's buffer holds the bytes in front of the position of
the file (`Buffered`), from the beginning of a line on.  Three operators say of what:

- `PlainImage`: names differ, only `.` is a directory and no file's name begins with a
  dot, the programs are executables, every block exists.  `src/student-distrib/filesys_img` does.
- `PlainInput`: the shell reads no zero byte.  No key makes one.
- `Searchable`: no file has a zero byte or a line longer than grep's buffer, and the buffer
  has no newline by chance.  This is asked for commands that grep only
  (`Answerable`).  It is a real restriction, which that image does not keep: executables
  have zero bytes, and `verylargetextwithverylongname.tx` a line of 1040 bytes.  With a zero
  byte in the file `hh` of the run's image, with a line longer than the buffer (its byte 5
  changed to a `b`) or with `Garbage = {"n"}`, TLC violates `AnswersCommand`.  A line with a
  zero byte is moved by `ece391_strcpy`, which stops there.

The image of the run without its damaged file has all three, as TLC finds when it
evaluates `PlainImageAssumption`; with `Entries <- PlainEntries` in `MCAnswers.cfg` it
also finds `Answers`, the invariant of the proof, to hold at each of the 18481 states.

Kept from the code: a name of exactly 32 characters gets no argument, an argument
is cut one byte behind the measured length (33 bytes for a pattern), two lines typed
before the shell reads them are one command, a file shorter than four bytes may pass
`is_valid_exec` with what the stack held (`MayBeTaken`), `syscall_execute` always returns 0
when the program has ended, so the shell never prints its "terminated abnormally" or
"terminated by exception" (`Returned`).  grep looks for a newline in `data[1024]`, which
it may never have written; `Garbage` is what is there.  With a newline in it
(`Garbage = {"n"}`) a line that ends the full buffer is cut in two and TLC violates
`AnswersCommand`.

## Runs

| Run | Instance | Shows |
| --- | --- | --- |
| `process` | 2 terminals, 4 slots, `FairSpec` | types, `ContextConsistent`, `OneContinuation`, `CallerIsParent`, `StackExclusive`, `OnlyOwnHaltFrees`, `ImplementsJobs`, `EveryTerminalRuns` |
| `process_restart` | window `"restart"` | **violation** of `OwnTerminal` |
| `line_input` | buffer of 5, reads of 2 and 8, 7 characters | types, `InOrderOnce`, `ImplementsLineQueue`, `EnterWakesReader` |
| `clocks` | 2 terminals, 3 slots, 2 interrupts a second, four frequencies, `FairClocksSpec` | `FrequencyIsOwn`, `ReadsLastTheirPeriod`, `ImplementsRtc`, `EveryReadReturns` |
| `files` | 4 descriptors, blocks of 2 bytes, 5 entries | types, `ReadTellsTransfer`, `StandardStreams`, `ImplementsStreams` |
| `screen` | 3 terminals of 2 by 2, 3 characters, no window | types, `PutsAtCursor`, `ImplementsDisplays`, `OthersUntouched` |
| `keyboard` | 16 keys, 2 held at a time, 1 waiting | types, `ModsFollowKeys`, `EveryCharacterTypes`, `ImplementsTypist` |
| `keyboard_alt` | 18 keys, semicolon and equals among them | **violation** of `FunctionKeysNeedAlt` |
| `status` | 3 interrupts a second, 6 times, texts of the code's lengths, `FairSpec` | types, `MessageLastsThreeSeconds`, `TimeIsCentral`, `ButtonsFollow`, `MessageGoes` |
| `interrupts` | 2 terminals, 3 frames, `FairSpec` | types, `ServiceMatchesHandlers`, `TicksFindTerminals`, `EveryRequestServed` |
| `interrupts_return` | 2 terminals, 2 frames | **violation** of `OwnReturn` |
| `programs` | names of 2, arguments and buffers of 4, blocks of 4, 9 entries, `FairProgramsSpec` | types, `AnswersCommand`, `CommandsEnd` |

Bounds, and why they are enough:

- `process`: two slots beyond the shells' let both terminals have a child, or
  one have two nested, and let execute find no slot.  With a smaller number of slots
  nothing nests; a fifth adds no new relation between two processes.  Two terminals boot in
  each other's slices.  What only a third could show is checked by `MCProcessWide.cfg`
  (three terminals, five slots, the safety properties, a minute and a half), and proved.
- `line_input`: five bytes leave room for three characters of text and the two
  bytes kept free, so the buffer fills, a Tab is cut short by its end, and reads
  are both shorter and longer than the line.  `MaxStored` = 7 refills it after a read.
- `clocks`: with `HZ` = 2 the frequency that opening gives is that of the device, 4 lies
  above it, 1 below, 3 is rejected and 0 ends the reader.  Three slots give either
  terminal a program under which its shell waits; deeper stacks repeat that step.
- `files`: two descriptors beyond the standard ones; files that end inside a block,
  at a block's end, and one with a bad pointer, at which a read ends with -1; reads of 1, 3 (across blocks) and 8
  (beyond every file).
- `screen`: two rows of two columns scroll and wrap with three
  characters; three terminals put two in the background.  `MaxWritten` bounds what is written.
- `keyboard`: keys of every kind, prefixed and not, and both of every modifier; two
  held at a time reach every pair, one waiting is enough for a key to go down while the
  handler is between the bytes of another.
- `status`: nine interrupts to a message, so that presses, seconds and switches fall on
  each of them; the times lie at midnight, around six, on the first and the second of a month, on
  the last of a year.
- `interrupts`: three frames let a device come on top of a keyboard handler on top
  of a system call.  A stack that is full takes no further interrupt but the timer.
- `programs`: every line of up to four bytes over a program's name, a file's name,
  the space and the newline, and about thirty chosen ones, in any order; files of
  lengths around the sizes of a block and of a buffer, one with lines across reads, one with
  a missing block, an empty one.

`CHECK_DEADLOCK FALSE` stands in `line_input` only: with `MaxStored` reached and no
eol the reader waits for a key, as it should.

Fairness.  `Process`: ticks come for ever and stay latched while interrupts are off,
so a tick that can be taken again and again is taken (strong fairness of the two
tick actions); the windows between a `sti()` and the next `iret` last a few
instructions of a 10 ms slice, so they are passed (strong fairness of the steps,
per terminal).  User code is under no obligation.  `LineInput`: the handler and a
reader finish; no key need ever be pressed.  `Rtc`, `Clocks`: both devices interrupt for
ever, and a reader whose count is zero sees it in one of its slices, which are
thousands of turns of its loop.  `StatusBar`: the clock interrupts for ever; the mouse need
never move.  `Interrupts`: the timer ticks and is taken (weak fairness: its line stays
requested), the initialisation goes on, a terminal gets on with what the kernel has to do for it in one of
its slices, and an interrupt that can be taken again and again is taken (strong
fairness, as a handler that comes in between suspends it); processes owe nothing.
`Programs`: a program makes its next call, which is what `EveryTerminalRuns` gives it.

Every property of a passing run is known to be falsifiable: `PROJECT.json` names for
each a plausible slip in one mapped definition with which TLC violates it.

The windows that the passing runs leave out are constants, so what is wrong in them
can be seen by giving the constant its other value: `TimerWindows = {"restart"}`
(`OwnTerminal`) or `{"bootEntry"}` (`StackExclusive`), `EarlyCommands = TRUE`
(`OneContinuation`, `CallerIsParent`), `EnterWhenFull = TRUE` (`ImplementsLineQueue`),
`TabPreempted = TRUE` (`InOrderOnce`), each of `Windows` (`ImplementsDisplays`, `PutsAtCursor`;
`"seek"` with `MaxWritten = 4` also `TypeOK`; none breaks `OthersUntouched`, which is proved for all),
`EarlyKeys = TRUE` (`ServiceMatchesHandlers`), `AckBytes = 2` (`ButtonsFollow`),
`TornReads = TRUE` or `Times <- FirstMornings` (`TimeIsCentral`), `ReadsOn = TRUE` or a 0 in
`ReadSizes` (`ReadTellsTransfer`), `Keys <- MCKeys` (`ImplementsTypist`), `Garbage = {"n"}` (`AnswersCommand`).

## Findings

1. `syscall_functions.c:59` - a halting shell frees its slot and enables interrupts
   before it executes its successor; two terminals can end up with one process
   (`process_restart`), against the comment "If no parent, reboots shell" and the README's
   "each process accessible via its own terminal".
2. `ass_link_handler.S:63` - `store_return` is there to "prevent from popal clobbering
   eax value", but it is one word for all processes, and `terminal_write` and
   `rtc_read` return to the linkage with interrupts on: a tick and another process's
   system call replace the value (`interrupts_return`).

3. `kbd.c:60` - "the function keys should only work if alt is pressed" (`kbd.c:180`), but
   keyboard_handler takes the characters `;` `<` `=` for them: typing one of these
   switches terminals, without Alt, and does not type it (`keyboard_alt`).

Two further disagreements have a configuration and no run of the project's list; TLC finds
each when it is given the configuration:

4. `filesystem.c:33-37` - `file_read` returns "-1 (failure), or n bytes transferred
   (success)" (`filesystem.c:25`), but a read behind the end of a file, where one that failed has left the
   position, returns a negative length (`MCFilesReadOn.cfg`, `ReadTellsTransfer`: -4);
   a read of no bytes, with 0 in `ReadSizes` of `MCFiles.cfg`, returns what is left.
5. `rtc.c:133` - the branch for the first of a month is never taken, as the day is 0
   and not below it: until six o'clock UTC the row has day 00 of the wrong month
   (`MCStatusBarFirst.cfg`, `TimeIsCentral`), against "current time (CT)" in `src/README.md`.

## Theorems

For every number of terminals and slots, every buffer size, image, interrupt rate and set
of keys that the named `ASSUME`s allow.  TLC evaluates those in every run.  Further
hypotheses stand in the theorems themselves: the windows, keys and reads that the passing
runs leave out too.  With any of these TLC finds a counterexample, so the theorems
say under which conditions the kernel is right.

- `Process_proofs`: `TypeCorrect` (with the timer in every window and commands at
  any time).  Under `Calm` (no fragile window, no early command):
  `ContextsStayConsistent`, `EveryProcessHasOneContinuation`, `HaltReturnsToCaller`,
  `KernelStacksAreExclusive`, `SlotsAreFreedByTheirOwner`.  All rest on the theorem
  `Invariant`: `Inv` is inductive.  The properties are not inductive by themselves:
  that a halt returns to a consistent context needs what the pcb of a live process
  holds (`LiveRecords`), that a tick resumes one needs what the timer saved for
  every other terminal (`SuspendedContexts`), and that the boot pids mark the
  parentless processes needs that the first shells got them and never lose them
  (`BootSlots`).  The step proof has a lemma per action and, under it, a step per conjunct.
  `ProcessTableIsJobStacks`, also under `Calm`, is the refinement `ImplementsJobs`.  The
  mapping follows parent links, so it is a stack only if they lead to a shell: the
  invariant adds that there is such a stack for every terminal (`IsJobTable`),
  without repetition or sharing.  That two stacks which agree at the top and with
  the links are the same is an induction on their length.
- `LineInput_proofs`: `TypeCorrect`, with Enter on a full buffer and the reader
  anywhere, needs that a Tab's half-stored space lies inside the buffer.
  `DeliveredInOrderOnce` under `~TabPreempted` needs in addition that turns only grow.
  `ReadsWhatWasTyped`, the refinement `ImplementsLineQueue`, is under `~TabPreempted` and
  `~EnterWhenFull`: a key is one append, a read one cut at the front.
- `Screen_proofs`: `CharactersGoHome`, `PutsAtCursor` under `Windows = {}`, needs
  that no writer waits at `seek` in the visible terminal unless it is running.
  `BackgroundsAreIsolated`, `OthersUntouched`, holds in every window: it needs that
  each mapping is to the displayed page or to that of the scheduled terminal, so a
  stale mapping or a moved screen position spoils the visible terminal or the writer's
  own, never a third.  `TypeCorrect` holds with the windows `"stale"` and `"key"` and not
  with `"seek"`: a writer preempted there in the visible terminal resumes with the
  position another terminal's character left, which may be one row below the display, and
  `putc` writes into the status bar.  `TerminalsHaveDisplays`, the refinement
  `ImplementsDisplays`, is under `Windows = {}`: a terminal shows the displayed page while
  it is visible and its own page while it is not, a switch keeps both, and `PutsAtCursor`
  makes a character that the writer puts one at the terminal's cursor.
- `Rtc_proofs`: `TypeCorrect`, which needs that no frequency but zero makes a period
  longer than a second.  `ReadsTakeTheirTime`, `ReadsLastTheirPeriod`: while a
  read waits, the countdown and the interrupts that came add up to at least the period
  of the frequency that was granted last, and that frequency is the terminal's.
  `ProcessesKeepTheClocks` is the refinement `ImplementsRtc` of `Clocks`; with it
  `NestedReadsTakeTheirTime` says the same of processes that execute each other.
  `ProcessesKeepTheirFrequency`, `FrequencyIsOwn`, needs that every job of a stack, the
  waiting ones too, would find its own frequency if those above it ended now
  (`FrequencyIsKept`), and that a slot is in one place of one stack.
- `Files_proofs`: `TypeCorrect` for every image whose entries name inodes of it, and
  `StreamsStayStandard`: descriptors 0 and 1 are taken as long as a process lives,
  `open` gives out vacant ones only and `close` refuses the first two.
  `TransfersAreTold`, `ReadTellsTransfer` under `0 \notin ReadSizes` and `~ReadsOn`, and
  `DescriptorsAreStreams`, the refinement `ImplementsStreams` under `0 \notin ReadSizes`
  and `SoundEnds`, rest on what the loop of `read_data` computes for any block size, any
  pointers and any length: as many bytes as asked for or as are left, the file's from the
  position on.  The loop is a recursive function, and what it computes is proved by
  induction on the number of bytes.
- `Files_proofs`, of `Programs`: `ProgramsKeepTypes`, `ProgramsTypeOK`, with `Places`: what a
  program reads from is open, and grep has room for a byte whenever it reads, since it empties
  the buffer when its one line fills it.  `ProgramsReadStreams` under `SoundEnds`: whatever is run, the
  descriptors of the slot are `Streams`.  `ProgramsAnswerOnTheWay`, `Answers` under
  `PlainImage` and `PlainInput`, and from it `CommandsAreAnswered`, `AnswersCommand` when
  grep's files are `Searchable` (or there is no grep).  `AnswersCommand` speaks of the prompt only and is
  far from inductive; `ProgramsInv /\ Answers` is.  Its step needs, for execute,
  that the two loops over the command find the word and the text after it (`Parsed`), and that
  `getargs` copies what was stored and nothing of an earlier program (`ArgGiven`); for cat and ls
  that parts of a file one behind the other are the part (`ReadHeld`, `PartsJoin`); for grep
  that a line of the buffer is a line of the file (`LineAdds`), that a line moved to the front
  is in the buffer up to its end and no further (`KeptBuffered`), and that one which fills the buffer
  is not cut (`FullBufferEnds`).  What the lines of a file add up to is a recursive function that
  counts up to the end (`LinesFrom`); that there is one is an induction from its end (`GoesBackExists`).
- `Keyboard_proofs`: `ModifiersFollowKeys`, for every keyboard without prefixed shifts
  and any number of keys that wait.  The invariant adds that a first byte is seen only
  of a prefixed key and that keys carry one code each, so the release that clears a flag is of the
  key whose press set it.  `TypeCorrect`; `CharactersCanBeTyped`, `EveryCharacterTypes`, from
  the two layouts key by key, and that Shift is chosen against Caps Lock.
  `KeysDoWhatTheySay`, the refinement `ImplementsTypist`, for any keys among the `HonestKeys`, the
  sixteen with a legend that is not taken for F1 to F3: a prefix byte is a stutter, and the flags after the last byte of a key that is
  no modifier are those of the keys held before it.
- `StatusBar_proofs`: `TypeCorrect`.  `MessagesStandThreeSeconds`, which needs that `delay` and the time since
  the last press add up to three seconds (`DelayLeft`), that the row has its eighty
  cells, and that no text reaches beyond the columns `status_puts` clears.
  `ButtonsStayInStep` under `AckBytes = 1`: the handler's index is the device's phase.
  `RowShowsCentralTime`, `TimeIsCentral` under `~TornReads` and `NoFirstMorning` (the clock is
  not read before six on a first): itoa (a recursive function) is
  followed for numbers of two digits, through BCD, the shift by six hours and the padding, and
  labels and messages keep off the columns of the time.
- `Interrupts_proofs`: `TypeCorrect`; `TicksComeLast`, from the order in which `entry()`
  enables the devices; and, under `~EarlyKeys`, `HandlersAreServed`: `ServiceMatchesHandlers` with
  the invariant that a keyboard handler stands on one stack at most, only when every
  terminal has a process (`KeysNeedTerminals`), so that the stack the timer drops never holds one.

`Process_proofs`, `LineInput_proofs`, `Screen_proofs`, `Files_proofs` (through `ProgramsAnswers`) and
`Keyboard_proofs` extend the MC module of their component, where the mapping to the abstract
specification or the meaning of a command is; the constants of the runs are not used in them, but
for the keys of `MCKeyboard` with their legends.

Induction: the library's theorems that take a predicate cannot be instantiated by the
provers.  Where a recursive function has to be evaluated for every length, the proofs state
for a *set* of numbers that it is all of `Nat` if it has 0 and the successor of each of its
members (`InductiveSetIsNat`, from the well-foundedness of `<` on `Nat`), and apply it to the set of the lengths
for which the claim holds.

Only model-checked: commands over an image with a missing block (the run `programs`; what
`Held` shows of such a file, and where the message stands, is right for the sizes of the run only), and
all liveness (`EveryTerminalRuns`, `EnterWakesReader`, `EveryReadReturns`, `MessageGoes`,
`EveryRequestServed`, `CommandsEnd`), which needs ENABLED and fairness and is outside the
prover's reach.

## Limits of the models

- `Process` takes every command to be valid or to change nothing; what is parsed and
  loaded is in `Programs`.  halt finding no slot for the restarted shell is not
  followed (it needs `OwnTerminal` to be broken first).
- `Screen` takes `cursor_increment` with `pan` as one step, leaves out the hardware
  cursor, and what a process writes has no backspaces (a tab is one character there).
  No program of the repository writes one; at the top left corner it would take the row to 255.
- `Interrupts` follows one request per line, spurious interrupts are left out, and so is what the
  handlers do to the other components.
- `Files` has one table, as no call touches another process's; `Programs` runs one
  program at a time in one slot.  Every executable of an image of `Programs` is cat, ls or grep
  (`ExecutablesAssumption`); the other programs of the repository are not followed.

## Not modelled

- `init_paging`, `boot.S`, `x86_desc.S` and the parts of `entry()` before interrupts are on run
  once, alone, and leave nothing to choose.  The page table entries that change later
  are in `Process` and `Screen`.
- `printf` and the number formats of `lib.c` other than itoa: sequential formatting
  without a property that depends on it.
- `check_deliver_signal` and the stack frame it would build are never called; `set_handler`
  stores an address that nothing reads; `sigreturn` returns -1.
- `tests.c` is compiled in and not called.
- fish, pingpong, counter, hello, sigtest, testprint and the `syserr` test make the system calls
  modelled here without interacting with anything else; `ece391emulate.c` replaces the
  kernel by the host's.

## What could come next

The backspaces a process may write, `Programs` over several terminals, and what grep
prints of files with zero bytes and of longer lines than its buffer.
