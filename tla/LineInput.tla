----------------------------- MODULE LineInput -----------------------------
(***************************************************************************)
(* One terminal's line input: keyboard_handler (kbd.c) editing             *)
(* terms[t].input and terminal_read (term.c) taking it.                    *)
(*                                                                         *)
(* The handler runs with interrupts off until the sti() at the end of the  *)
(* terminal_write that echoes a character.  From there the timer may run   *)
(* the terminal's process, so a key whose handling goes on after the echo  *)
(* (Enter sets eol, Tab writes more spaces) has more steps; no other key   *)
(* can come between, IRQ 1 being still in service.  A Tab's later spaces   *)
(* are stored with interrupts on, in three steps of the unoptimised build: *)
(* the byte, then idx loaded, then idx + 1 stored.  terminal_read spins    *)
(* with interrupts on and disables them only after it has seen eol.        *)
(*                                                                         *)
(* Scaled down: INPUT_BUFFER_SIZE (128), TabWidth (4) and NewlineCode (10, *)
(* the byte '\n').                                                         *)
(***************************************************************************)
EXTENDS Integers

CONSTANTS
    INPUT_BUFFER_SIZE, \* bytes of input.buffer
    NewlineCode,       \* the byte '\n', as a number
    TabWidth,          \* spaces a Tab stands for
    ReadSizes,         \* the nbytes processes read with
    EnterWhenFull,     \* is Enter pressed again with the buffer full?
    TabPreempted,      \* may the reader run inside the three steps of a Tab's space?
    MaxStored          \* bound: characters stored in one behaviour

ASSUME LineInputAssumption ==
    /\ INPUT_BUFFER_SIZE \in Nat
    /\ NewlineCode \in Nat
    /\ TabWidth \in Nat \ {0}
    /\ NewlineCode + 1 < INPUT_BUFFER_SIZE
    /\ ReadSizes \subseteq Nat
    /\ EnterWhenFull \in BOOLEAN
    /\ TabPreempted \in BOOLEAN
    /\ MaxStored \in Nat

VARIABLES
    buffer,  \* input.buffer: which stored character each byte is
    idx,     \* input.idx
    eol,     \* input.eol
    kbd,     \* keyboard_handler: "idle", or what is left after an echo
    tabs,    \* spaces a Tab has left to write
    tab_idx, \* the value idx++ is about to store for a Tab's space
    reader,  \* the process: "away", "spin" in terminal_read, "copy" past the loop
    want,    \* nbytes of that read
    got,     \* what the last read put in the process's buf
    stored   \* how many characters the handler has stored

vars == <<buffer, idx, eol, kbd, tabs, tab_idx, reader, want, got, stored>>

\* A stored character is identified by its turn; nl tells the newlines.  The
\* buffer starts zeroed and erased bytes become blank.
Cells == [turn : 0 .. MaxStored, nl : BOOLEAN]
Blank == [turn |-> 0, nl |-> FALSE]
Positions == 0 .. INPUT_BUFFER_SIZE - 1

TypeOK ==
    /\ buffer \in [Positions -> Cells]
    /\ idx \in 0 .. INPUT_BUFFER_SIZE
    /\ eol \in BOOLEAN
    /\ kbd \in {"idle", "enter", "tab", "tabByte", "tabIdx"}
    /\ tabs \in 0 .. TabWidth
    /\ tab_idx \in 0 .. INPUT_BUFFER_SIZE
    /\ reader \in {"away", "spin", "copy"}
    /\ want \in Nat
    /\ stored \in 0 .. MaxStored

Init ==
    /\ buffer = [i \in Positions |-> Blank]
    /\ idx = 0
    /\ eol = FALSE
    /\ kbd = "idle"
    /\ tabs = 0
    /\ tab_idx = 0
    /\ reader = "away"
    /\ want = 0
    /\ got = <<>>
    /\ stored = 0
-----------------------------------------------------------------------------
\* Text leaves two bytes free, one of them for the newline.
HasRoom == idx < INPUT_BUFFER_SIZE - 2

\* The byte after the buffer is idx itself: a newline stored there sets idx to
\* the newline's code before idx++.
Store(nl) ==
    /\ stored < MaxStored
    /\ stored' = stored + 1
    /\ IF idx < INPUT_BUFFER_SIZE
          THEN /\ buffer' = [buffer EXCEPT ![idx] = [turn |-> stored + 1, nl |-> nl]]
               /\ idx' = idx + 1
          ELSE /\ idx' = NewlineCode + 1
               /\ UNCHANGED buffer

\* A printable key: stored if there is room, else ignored.
KeyText ==
    /\ kbd = "idle"
    /\ HasRoom
    /\ Store(FALSE)
    /\ UNCHANGED <<eol, kbd, tabs, tab_idx, reader, want, got>>

\* Enter is stored whether there is room or not; eol is set after the echo.
KeyEnter ==
    /\ kbd = "idle"
    /\ EnterWhenFull \/ idx < INPUT_BUFFER_SIZE
    /\ Store(TRUE)
    /\ kbd' = "enter"
    /\ UNCHANGED <<eol, tabs, tab_idx, reader, want, got>>

EnterDone ==
    /\ kbd = "enter"
    /\ eol' = TRUE
    /\ kbd' = "idle"
    /\ UNCHANGED <<buffer, idx, tabs, tab_idx, reader, want, got, stored>>

\* Tab stores its first space with interrupts off and goes on after the echo.
KeyTab ==
    /\ kbd = "idle"
    /\ HasRoom
    /\ Store(FALSE)
    /\ kbd' = "tab"
    /\ tabs' = TabWidth - 1
    /\ UNCHANGED <<eol, tab_idx, reader, want, got>>

TabByte ==
    /\ kbd = "tab"
    /\ tabs > 0
    /\ HasRoom
    /\ stored < MaxStored
    /\ buffer' = [buffer EXCEPT ![idx] = [turn |-> stored + 1, nl |-> FALSE]]
    /\ stored' = stored + 1
    /\ kbd' = "tabByte"
    /\ UNCHANGED <<idx, eol, tabs, tab_idx, reader, want, got>>

TabLoad ==
    /\ kbd = "tabByte"
    /\ tab_idx' = idx + 1
    /\ kbd' = "tabIdx"
    /\ UNCHANGED <<buffer, idx, eol, tabs, reader, want, got, stored>>

TabStore ==
    /\ kbd = "tabIdx"
    /\ idx' = tab_idx
    /\ kbd' = "tab"
    /\ tabs' = tabs - 1
    /\ UNCHANGED <<buffer, eol, tab_idx, reader, want, got, stored>>

TabDone ==
    /\ kbd = "tab"
    /\ tabs = 0 \/ ~HasRoom \/ stored = MaxStored
    /\ kbd' = "idle"
    /\ tabs' = 0
    /\ UNCHANGED <<buffer, idx, eol, tab_idx, reader, want, got, stored>>

ErasedIdxKept == idx  \* mutant: the byte is blanked but idx kept
ErasedIdx == idx - 1

KeyBackspaceAtStart ==  \* mutant: "input.idx != 0" dropped
    /\ kbd = "idle"
    /\ buffer' = [buffer EXCEPT ![idx - 1] = Blank]
    /\ idx' = ErasedIdx
    /\ UNCHANGED <<eol, kbd, tabs, tab_idx, reader, want, got, stored>>

\* Backspace blanks the last byte; it leaves eol as it is.
KeyBackspace ==
    /\ kbd = "idle"
    /\ idx # 0
    /\ buffer' = [buffer EXCEPT ![idx - 1] = Blank]
    /\ idx' = ErasedIdx
    /\ UNCHANGED <<eol, kbd, tabs, tab_idx, reader, want, got, stored>>

\* A process reads n bytes of its terminal ...
ReadCall(n) ==
    /\ reader = "away"
    /\ reader' = "spin"
    /\ want' = n
    /\ UNCHANGED <<buffer, idx, eol, kbd, tabs, tab_idx, got, stored>>

ReadSeesText ==  \* mutant: waits for text, and the text may have been erased
    /\ reader = "spin"
    /\ eol /\ idx > 0
    /\ reader' = "copy"
    /\ UNCHANGED <<buffer, idx, eol, kbd, tabs, tab_idx, want, got, stored>>

\* ... leaves the loop when it sees eol ...
ReadSeesEol ==
    /\ reader = "spin"
    /\ eol
    /\ reader' = "copy"
    /\ UNCHANGED <<buffer, idx, eol, kbd, tabs, tab_idx, want, got, stored>>

ReadLength == IF idx < want THEN idx ELSE want

IdxAfterPartial == idx - ReadLength  \* mutant: the rest is kept at the front
IdxAfterRead == 0

EolAfterRead == FALSE

\* ... and, interrupts off, takes the line.
ReadCopy ==
    /\ reader = "copy"
    /\ TabPreempted \/ kbd \notin {"tabByte", "tabIdx"}
    /\ got' = [i \in 1 .. ReadLength |-> buffer[i - 1]]
    /\ eol' = EolAfterRead
    /\ idx' = IdxAfterRead
    /\ reader' = "away"
    /\ UNCHANGED <<buffer, kbd, tabs, tab_idx, want, stored>>

Next ==
    \/ KeyText
    \/ KeyEnter
    \/ EnterDone
    \/ KeyTab
    \/ TabByte
    \/ TabLoad
    \/ TabStore
    \/ TabDone
    \/ KeyBackspace
    \/ \E n \in ReadSizes : ReadCall(n)
    \/ ReadSeesEol
    \/ ReadCopy

Spec == Init /\ [][Next]_vars

\* The handler returns once its process runs again, and a process that reads is
\* scheduled round robin.  Nobody has to press a key.
FairSpec ==
    /\ Spec
    /\ WF_vars(EnterDone)
    /\ WF_vars(TabLoad)
    /\ WF_vars(TabStore)
    /\ WF_vars(ReadSeesEol)
    /\ WF_vars(ReadCopy)
-----------------------------------------------------------------------------
\* No character is delivered twice or out of order, whatever keys come between
\* the reader's steps and even when a newline overruns the buffer: the unread
\* bytes are in typing order and none of them was handed over before.
InOrderOnce ==
    /\ \A i, j \in 0 .. idx - 1 : i < j => buffer[i].turn < buffer[j].turn
    /\ \A i \in 0 .. idx - 1 : buffer[i].turn > 0
    /\ \A i, j \in DOMAIN got : i < j => got[i].turn < got[j].turn
    /\ \A i \in 0 .. idx - 1, j \in DOMAIN got : got[j].turn < buffer[i].turn

\* A reader that waits when Enter is pressed gets its answer: the wake-up is
\* not lost between the handler's two steps and the reader's three.
EnterWakesReader == (kbd = "enter" /\ reader = "spin") ~> (reader = "away")
=============================================================================
