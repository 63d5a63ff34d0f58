------------------------------- MODULE Screen -------------------------------
(***************************************************************************)
(* Output: terminal_write and term_switch (term.c), putc and the screen    *)
(* position (lib.c), the two page table entries of video memory that       *)
(* pit_handler remaps (pit.c, paging.c), and programs that draw through    *)
(* vidmap.                                                                 *)
(*                                                                         *)
(* One page of video memory is displayed (virtual 0xB7000 always maps it); *)
(* the other terminals' displays wait in their own pages and term_switch   *)
(* copies them in and out.  The kernel writes a process's output through   *)
(* virtual 0xB8000 and a program draws through its own mapping; both are   *)
(* remapped once per slice.                                                *)
(*                                                                         *)
(* terminal_write starts with interrupts off, but putc ends with sti(), so *)
(* from the first character on the timer and the keyboard come in between: *)
(*   "out"  not in terminal_write                                          *)
(*   "put"  a character is in video memory, the cursor has not moved       *)
(*   "line" a newline, the cursor has not moved                            *)
(*   "next" the cursor has moved, more characters follow                   *)
(*   "seek" the screen position is set for the next one                    *)
(* Windows names three things that may happen in between and go wrong:     *)
(*   "stale" the process goes on writing or drawing in the slice in which  *)
(*           the visible terminal changed to or from its own               *)
(*   "seek"  a writer is resumed at "seek" in the visible terminal         *)
(*   "key"   a key is handled while a character of the visible terminal is *)
(*           half written, or at "seek"                                    *)
(*                                                                         *)
(* cursor_increment and pan, which follow a putc with interrupts on, are   *)
(* one step here, as is each echo of the keyboard handler.                 *)
(*                                                                         *)
(* Scaled down: TERM_ROWS (24) and TERM_COLS (80).  Not modelled: '\b' and *)
(* '\t' in what a process writes, the hardware cursor, the status bar.     *)
(***************************************************************************)
EXTENDS Integers

CONSTANTS
    NUM_TTYS,
    TERM_ROWS,
    TERM_COLS,
    Windows,
    MaxWritten  \* bound: characters and newlines written, echoed and drawn

ASSUME ScreenAssumption ==
    /\ NUM_TTYS \in Nat \ {0}
    /\ TERM_ROWS \in Nat \ {0}
    /\ TERM_COLS \in Nat \ {0}
    /\ Windows \subseteq {"stale", "seek", "key"}
    /\ MaxWritten \in Nat

VARIABLES
    scheduled_term,
    visible_term,
    phys,      \* the page that is displayed
    mem,       \* terms[t].mem: the page t's display waits in
    cursor,    \* terms[t].cursor, as a position
    screen,    \* screen_y, screen_x: where putc writes
    pte,       \* page_table_0[0xb8]: the page the kernel writes output to
    user_pte,  \* user_vidmap_table[0xb8]: the page a program draws on
    at,        \* at[t]: where t's process is in terminal_write
    more,      \* more[t]: characters it has left
    written    \* bounds the behaviour

vars == <<scheduled_term, visible_term, phys, mem, cursor, screen, pte, user_pte,
          at, more, written>>

Terms == 0 .. NUM_TTYS - 1
Positions == 0 .. TERM_ROWS * TERM_COLS - 1

\* Page table entries: the displayed page, or that of a terminal.
Displayed == -1
Pages == Terms \cup {Displayed}

\* Characters: a process's are told by its terminal, a typed one is Typed.
Space == -1
Typed == NUM_TTYS
Chars == {Space, Typed} \cup Terms

Display == [Positions -> Chars]

TypeOK ==
    /\ scheduled_term \in Terms
    /\ visible_term \in Terms
    /\ phys \in Display
    /\ mem \in [Terms -> Display]
    /\ cursor \in [Terms -> Positions]
    /\ screen \in 0 .. TERM_ROWS * TERM_COLS
    /\ pte \in Pages
    /\ user_pte \in Pages
    /\ at \in [Terms -> {"out", "put", "line", "next", "seek"}]
    /\ more \in [Terms -> 0 .. MaxWritten]
    /\ written \in 0 .. MaxWritten

Blank == [p \in Positions |-> Space]

\* init_terms and the first tick.
Init ==
    /\ scheduled_term = 0
    /\ visible_term = 0
    /\ phys = Blank
    /\ mem = [t \in Terms |-> Blank]
    /\ cursor = [t \in Terms |-> 0]
    /\ screen = 0
    /\ pte = Displayed
    /\ user_pte = Displayed
    /\ at = [t \in Terms |-> "out"]
    /\ more = [t \in Terms |-> 0]
    /\ written = 0
-----------------------------------------------------------------------------
\* The page that holds a terminal's display.
PageOf(t) == IF t = visible_term THEN Displayed ELSE t

\* Below the last row there is the status bar.
Store(page, p, c) ==
    /\ phys' = IF page = Displayed /\ p \in Positions THEN [phys EXCEPT ![p] = c] ELSE phys
    /\ mem' = IF page \in Terms /\ p \in Positions THEN [mem EXCEPT ![page][p] = c] ELSE mem

\* pan by one row.
Panned(display) ==
    [p \in Positions |->
        IF p + TERM_COLS \in Positions THEN display[p + TERM_COLS] ELSE Space]

Shown(t) == IF t = visible_term THEN phys ELSE mem[t]

Becomes(t, shown) ==
    IF t = visible_term
       THEN phys' = shown /\ UNCHANGED mem
       ELSE mem' = [mem EXCEPT ![t] = shown] /\ UNCHANGED phys

LastRowPast == TERM_ROWS * TERM_COLS  \* mutant: row TERM_ROWS
LastRow == (TERM_ROWS - 1) * TERM_COLS

\* The cursor of t goes to p; below the last row pan() scrolls t's display,
\* shown is what it holds by then.
CursorTo(t, p, shown) ==
    IF p \in Positions
       THEN /\ cursor' = [cursor EXCEPT ![t] = p]
            /\ Becomes(t, shown)
       ELSE /\ cursor' = [cursor EXCEPT ![t] = LastRow]
            /\ Becomes(t, Panned(shown))

NextRow(p) == (p \div TERM_COLS + 1) * TERM_COLS

\* Where putc leaves the screen position: it never takes it to the next row.
After(p) == (p \div TERM_COLS) * TERM_COLS + ((p + 1) % TERM_COLS)

\* terminal_write's first statement after cli(): a process whose terminal was
\* switched away from does not go on writing on the displayed page.
Remap ==
    IF scheduled_term # visible_term /\ pte = Displayed THEN scheduled_term ELSE pte

Fresh(page) == page = PageOf(scheduled_term) \/ "stale" \in Windows

\* A process writes n + 1 characters: up to the first putc's sti().
Write(n) ==
    LET t == scheduled_term IN
    /\ at[t] = "out"
    /\ Fresh(Remap)
    /\ written + n < MaxWritten
    /\ written' = written + n + 1
    /\ pte' = Remap
    /\ \/ /\ Store(Remap, cursor[t], t)
          /\ screen' = After(cursor[t])
          /\ at' = [at EXCEPT ![t] = "put"]
       \/ /\ screen' = NextRow(cursor[t])
          /\ at' = [at EXCEPT ![t] = "line"]
          /\ UNCHANGED <<phys, mem>>
    /\ more' = [more EXCEPT ![t] = n]
    /\ UNCHANGED <<scheduled_term, visible_term, cursor, user_pte>>

\* cursor_increment or cursor_increment_line, and terminal_write's return if
\* that was the last character.
Advance ==
    LET t == scheduled_term
        to == IF at[t] = "put" THEN cursor[t] + 1 ELSE NextRow(cursor[t])
    IN
    /\ at[t] \in {"put", "line"}
    /\ CursorTo(t, to, Shown(t))
    /\ screen' = IF to \in Positions THEN screen ELSE LastRow
    /\ at' = [at EXCEPT ![t] = IF more[t] = 0 THEN "out" ELSE "next"]
    /\ UNCHANGED <<scheduled_term, visible_term, pte, user_pte, more, written>>

Seek ==
    LET t == scheduled_term IN
    /\ at[t] = "next"
    /\ Fresh(pte)
    /\ screen' = cursor[t]
    /\ at' = [at EXCEPT ![t] = "seek"]
    /\ UNCHANGED <<scheduled_term, visible_term, phys, mem, cursor, pte, user_pte,
                   more, written>>

\* putc writes where the screen position and the page table say by now.
Put ==
    LET t == scheduled_term IN
    /\ at[t] = "seek"
    /\ \/ /\ Store(pte, screen, t)
          /\ screen' = After(screen)
          /\ at' = [at EXCEPT ![t] = "put"]
       \/ /\ screen' = NextRow(screen)
          /\ at' = [at EXCEPT ![t] = "line"]
          /\ UNCHANGED <<phys, mem>>
    /\ more' = [more EXCEPT ![t] = @ - 1]
    /\ UNCHANGED <<scheduled_term, visible_term, cursor, pte, user_pte, written>>

\* A program that called vidmap draws on its display.
Draw(p) ==
    LET t == scheduled_term IN
    /\ at[t] = "out"
    /\ Fresh(user_pte)
    /\ written < MaxWritten
    /\ written' = written + 1
    /\ Store(user_pte, p, t)
    /\ UNCHANGED <<scheduled_term, visible_term, cursor, screen, pte, user_pte, at, more>>
-----------------------------------------------------------------------------
\* keyboard_handler.

PositionUnused == at[scheduled_term] # "seek" \/ "key" \in Windows

NotHalfWritten == at[visible_term] # "put" \/ "key" \in Windows

\* The echo of a character, in the visible terminal.
Echo ==
    LET t == visible_term IN
    /\ PositionUnused
    /\ NotHalfWritten
    /\ written < MaxWritten
    /\ written' = written + 1
    /\ pte' = Remap
    /\ CursorTo(t, cursor[t] + 1, [phys EXCEPT ![cursor[t]] = Typed])
    /\ screen' = IF cursor[t] + 1 \in Positions THEN After(cursor[t]) ELSE LastRow
    /\ UNCHANGED <<scheduled_term, visible_term, user_pte, at, more>>

\* The echo of Enter: no character, the cursor goes to the next row.
EchoNewline ==
    LET t == visible_term IN
    /\ PositionUnused
    /\ NotHalfWritten
    /\ written < MaxWritten
    /\ written' = written + 1
    /\ pte' = Remap
    /\ CursorTo(t, NextRow(cursor[t]), phys)
    /\ screen' = IF NextRow(cursor[t]) \in Positions THEN NextRow(cursor[t]) ELSE LastRow
    /\ UNCHANGED <<scheduled_term, visible_term, user_pte, at, more>>

\* Backspace is handled when there is input to erase, which was echoed: the
\* cursor is not at the start of the display.
EchoErase ==
    LET t == visible_term IN
    /\ PositionUnused
    /\ NotHalfWritten
    /\ cursor[t] > 0
    /\ pte' = Remap
    /\ CursorTo(t, cursor[t] - 1, [phys EXCEPT ![cursor[t] - 1] = Space])
    /\ screen' = cursor[t] - 1
    /\ UNCHANGED <<scheduled_term, visible_term, user_pte, at, more, written>>

\* Ctrl+L: clear_phys_screen.
CtrlL ==
    /\ PositionUnused
    /\ phys' = Blank
    /\ screen' = 0
    /\ UNCHANGED <<scheduled_term, visible_term, mem, cursor, pte, user_pte, at,
                   more, written>>

SavedPageOfNew(t) == t  \* mutant: saved in the page of the terminal to show
SavedPage(t) == visible_term

\* term_switch to another terminal than the visible one.
Switch(t) ==
    /\ t # visible_term
    /\ PositionUnused
    /\ at[t] # "seek" \/ "seek" \in Windows
    /\ mem' = [mem EXCEPT ![SavedPage(t)] = phys]
    /\ phys' = mem'[t]
    /\ visible_term' = t
    /\ screen' = 0
    /\ UNCHANGED <<scheduled_term, cursor, pte, user_pte, at, more, written>>

\* pit_handler: the two mappings follow the terminal whose slice begins, and the
\* screen position that of a terminal in the background.
SoughtNever(t) == screen  \* mutant: no _screen_seek
Sought(t) == IF t = visible_term THEN screen ELSE cursor[t]

Tick ==
    LET t == (scheduled_term + 1) % NUM_TTYS IN
    /\ at[scheduled_term] # "seek" \/ scheduled_term # visible_term \/ "seek" \in Windows
    /\ scheduled_term' = t
    /\ pte' = PageOf(t)
    /\ user_pte' = PageOf(t)
    /\ screen' = Sought(t)
    /\ UNCHANGED <<visible_term, phys, mem, cursor, at, more, written>>

Next ==
    \/ \E n \in 0 .. MaxWritten - 1 : Write(n)
    \/ Advance
    \/ Seek
    \/ Put
    \/ \E p \in Positions : Draw(p)
    \/ Echo
    \/ EchoNewline
    \/ EchoErase
    \/ CtrlL
    \/ \E t \in Terms : Switch(t)
    \/ Tick

Spec == Init /\ [][Next]_vars
-----------------------------------------------------------------------------
\* putc turns interrupts off because "the proverbial screen_x/screen_y rug could
\* be yanked out from under us": when a character is about to be put, the screen
\* position is still the one _screen_seek set, and the page its own terminal's.
PutsAtCursor ==
    at[scheduled_term] = "seek" =>
        screen = cursor[scheduled_term] /\ pte = PageOf(scheduled_term)

\* Whatever goes wrong in the Windows is seen on the screen or in the writer's
\* own terminal: a step changes no page but that of the terminal whose slice it
\* is and, when it is taken off the screen, that of the visible one.
OthersUntouched ==
    [][\A t \in Terms :
          mem'[t] # mem[t] => t = scheduled_term \/ (t = visible_term /\ visible_term' # t)]_vars
=============================================================================
