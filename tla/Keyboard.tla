------------------------------ MODULE Keyboard ------------------------------
(***************************************************************************)
(* The keyboard from the keys to what keyboard_handler does with them: the *)
(* scan codes of set 1, the modifiers kbd_mods remembers between them,     *)
(* key_to_ascii and the switch on its result, with send_signal.            *)
(*                                                                         *)
(* The device sends a key as one byte or, for the keys added to the first  *)
(* PC keyboard, as 0xE0 and a byte; every byte is an interrupt of its own, *)
(* and keys are pressed and released in between.  What becomes of a        *)
(* character in the line and on the screen is in LineInput and Screen.     *)
(*                                                                         *)
(* Bounds: MaxDown, MaxQueue.                                              *)
(***************************************************************************)
EXTENDS Integers, FiniteSets, Sequences

CONSTANTS
    Keys,        \* the keys of the keyboard: [code, ext] with ext for 0xE0
    NUM_TTYS,    \* terminals (3)
    Pids,        \* the slots of pcbs
    MaxDown,     \* bound: keys held down at a time
    MaxQueue     \* bound: presses and releases the device holds back

\* The codes of set 1 fit under the prefix with the release bit, and the device
\* never sends the prefixed shifts of Print Screen.
ASSUME KeyboardAssumption ==
    /\ Keys \subseteq [code : 1 .. 95, ext : BOOLEAN]
    /\ \A k \in Keys : k.ext => k.code \notin {42, 54, 58}
    /\ NUM_TTYS \in Nat /\ NUM_TTYS >= 3
    /\ MaxDown \in Nat
    /\ MaxQueue \in Nat
    /\ -1 \notin Pids

VARIABLES
    down,         \* the keys that are down
    queue,        \* presses and releases the handler has not seen whole
    sent,         \* bytes of the first of them that it has seen
    mods,         \* kbd_mods
    visible_term,
    pid,          \* terms[t].pid, -1 without a process
    pending,      \* the slots with pending_sig & (1 << 2)
    held,         \* history: the keys that are down as far as seen
    did           \* history: what the last key did

vars == <<down, queue, sent, mods, visible_term, pid, pending, held, did>>

Terms == 0 .. NUM_TTYS - 1
Events == [key : Keys, make : BOOLEAN]
Mods == [lshift : BOOLEAN, rshift : BOOLEAN, caps_lock : BOOLEAN,
         lcontrol : BOOLEAN, rcontrol : BOOLEAN,
         lalt : BOOLEAN, ralt : BOOLEAN, extended : BOOLEAN]
Deeds == [do : {"none", "type", "enter", "tab", "erase", "switch", "clear",
                "signal", "fault"},
          arg : 0 .. 127]

TypeOK ==
    /\ down \subseteq Keys
    /\ queue \in Seq(Events)
    /\ sent \in {0, 1}
    /\ sent = 1 => queue # <<>> /\ Head(queue).key.ext
    /\ mods \in Mods
    /\ visible_term \in Terms
    /\ pid \in [Terms -> Pids \cup {-1}]
    /\ pending \subseteq Pids
    /\ held \subseteq Keys
    /\ did \in Deeds

Nothing == [do |-> "none", arg |-> 0]

Init ==
    /\ down = {}
    /\ queue = <<>>
    /\ sent = 0
    /\ mods = [lshift |-> FALSE, rshift |-> FALSE, caps_lock |-> FALSE,
               lcontrol |-> FALSE, rcontrol |-> FALSE,
               lalt |-> FALSE, ralt |-> FALSE, extended |-> FALSE]
    /\ visible_term = 0
    /\ pid = [t \in Terms |-> -1]
    /\ pending = {}
    /\ held = {}
    /\ did = Nothing
-----------------------------------------------------------------------------
PREFIX == 224

\* The bytes of a press or a release.
Code(e) == IF e.make THEN e.key.code ELSE e.key.code + 128
Byte(e, n) == IF e.key.ext /\ n = 0 THEN PREFIX ELSE Code(e)
IsLast(e, n) == e.key.ext => n = 1

\* A flag that one code sets and another clears.
Flag(old, byte, code) ==
    IF byte = code THEN TRUE ELSE IF byte = code + 128 THEN FALSE ELSE old

\* Mutant: the right-hand key is not told from the left-hand one.
ModsAfterOneSided(m, byte) ==
    [lshift |-> Flag(m.lshift, byte, 42), rshift |-> Flag(m.rshift, byte, 54),
     caps_lock |-> IF byte = 58 THEN ~m.caps_lock ELSE m.caps_lock,
     lcontrol |-> Flag(m.lcontrol, byte, 29), rcontrol |-> m.rcontrol,
     lalt |-> Flag(m.lalt, byte, 56), ralt |-> m.ralt,
     extended |-> byte = PREFIX]

\* kbd_mods after a byte.
ModsAfter(m, byte) ==
    [lshift |-> Flag(m.lshift, byte, 42), rshift |-> Flag(m.rshift, byte, 54),
     caps_lock |-> IF byte = 58 THEN ~m.caps_lock ELSE m.caps_lock,
     lcontrol |-> IF m.extended THEN m.lcontrol ELSE Flag(m.lcontrol, byte, 29),
     rcontrol |-> IF m.extended THEN Flag(m.rcontrol, byte, 29) ELSE m.rcontrol,
     lalt |-> IF m.extended THEN m.lalt ELSE Flag(m.lalt, byte, 56),
     ralt |-> IF m.extended THEN Flag(m.ralt, byte, 56) ELSE m.ralt,
     extended |-> byte = PREFIX]

Control(m) == m.lcontrol \/ m.rcontrol
Alt(m) == m.lalt \/ m.ralt
Shifted(m) == (m.lshift \/ m.rshift) # m.caps_lock

\* The codes of the four rows of character keys and of the two keys at their ends.
CharCodes == (2 .. 13) \cup (16 .. 27) \cup (30 .. 40) \cup (44 .. 53) \cup {41, 43}

\* What the keys type, in ASCII.
Layout(row0, row1, row2, row3, grave, backslash) ==
    [code \in CharCodes |->
        CASE code \in 2 .. 13 -> row0[code - 1]
          [] code \in 16 .. 27 -> row1[code - 15]
          [] code \in 30 .. 40 -> row2[code - 29]
          [] code \in 44 .. 53 -> row3[code - 43]
          [] code = 41 -> grave
          [] code = 43 -> backslash]

Plain ==
    Layout(<<49, 50, 51, 52, 53, 54, 55, 56, 57, 48, 45, 61>>,
           <<113, 119, 101, 114, 116, 121, 117, 105, 111, 112, 91, 93>>,
           <<97, 115, 100, 102, 103, 104, 106, 107, 108, 59, 39>>,
           <<122, 120, 99, 118, 98, 110, 109, 44, 46, 47>>, 96, 92)

\* Mutant: the last two keys of the top row type the same.
ShiftRepeats ==
    Layout(<<33, 64, 35, 36, 37, 94, 38, 42, 40, 41, 95, 95>>,
           <<81, 87, 69, 82, 84, 89, 85, 73, 79, 80, 123, 125>>,
           <<65, 83, 68, 70, 71, 72, 74, 75, 76, 58, 34>>,
           <<90, 88, 67, 86, 66, 78, 77, 60, 62, 63>>, 126, 124)

Shift ==
    Layout(<<33, 64, 35, 36, 37, 94, 38, 42, 40, 41, 95, 43>>,
           <<81, 87, 69, 82, 84, 89, 85, 73, 79, 80, 123, 125>>,
           <<65, 83, 68, 70, 71, 72, 74, 75, 76, 58, 34>>,
           <<90, 88, 67, 86, 66, 78, 77, 60, 62, 63>>, 126, 124)

FunctionKeysPast == 59 .. 62  \* mutant: F4 too
\* The codes term_switch is called for, less 59.
FunctionKeys == 59 .. 61

\* key_to_ascii, with the modifiers after the byte.
KeyToAscii(m, byte) ==
    CASE byte = 15 -> 9
      [] byte = 28 -> 10
      [] byte = 14 -> 8
      [] byte = 1 -> 27
      [] byte = 57 -> 32
      [] byte \in FunctionKeys /\ Alt(m) -> byte
      [] byte \in CharCodes -> IF Shifted(m) THEN Shift[byte] ELSE Plain[byte]
      [] OTHER -> 0

\* The switch in keyboard_handler.
Deed(m, byte) ==
    LET chr == KeyToAscii(m, byte)
    IN CASE chr \in {0, 27} -> Nothing
         [] chr \in FunctionKeys -> [do |-> "switch", arg |-> chr - 59]
         [] chr = 10 -> [do |-> "enter", arg |-> 0]
         [] chr = 9 -> [do |-> "tab", arg |-> 0]
         [] chr \in {8, 127} -> [do |-> "erase", arg |-> 0]
         [] chr \in {76, 108} /\ Control(m) -> [do |-> "clear", arg |-> 0]
         [] chr \in {67, 99} /\ Control(m) -> [do |-> "signal", arg |-> 0]
         [] OTHER -> [do |-> "type", arg |-> chr]

\* The slot whose pcb send_signal(2) marks.
SignalledLowest == CHOOSE p \in Pids : \A q \in Pids : p <= q  \* mutant: the first process
Signalled == pid[visible_term]

\* send_signal(2).  The pcb of slot -1 would lie at 8 MB, which no page maps.
Signal(deed) ==
    IF pid[visible_term] = -1
    THEN /\ did' = [deed EXCEPT !.do = "fault"]
         /\ UNCHANGED pending
    ELSE /\ did' = deed
         /\ pending' = pending \cup {Signalled}

\* One interrupt.  What page_fault makes of the fault is left out.
Handler(byte) ==
    LET m == ModsAfter(mods, byte)
        deed == Deed(m, byte)
    IN /\ mods' = m
       /\ IF deed.do = "signal" THEN Signal(deed)
          ELSE /\ did' = IF byte = PREFIX THEN did ELSE deed
               /\ UNCHANGED pending
       /\ visible_term' = IF deed.do = "switch" THEN deed.arg ELSE visible_term

Interrupt ==
    /\ queue # <<>>
    /\ LET e == Head(queue)
       IN /\ Handler(Byte(e, sent))
          /\ IF IsLast(e, sent)
             THEN /\ sent' = 0
                  /\ queue' = Tail(queue)
                  /\ held' = IF e.make THEN held \cup {e.key} ELSE held \ {e.key}
             ELSE /\ sent' = 1
                  /\ UNCHANGED <<queue, held>>
    /\ UNCHANGED <<down, pid>>

\* A key goes down, or is held long enough to be sent again.
Press(k) ==
    /\ Len(queue) < MaxQueue
    /\ Cardinality(down \cup {k}) <= MaxDown
    /\ down' = down \cup {k}
    /\ queue' = Append(queue, [key |-> k, make |-> TRUE])
    /\ UNCHANGED <<sent, mods, visible_term, pid, pending, held, did>>

Release(k) ==
    /\ Len(queue) < MaxQueue
    /\ k \in down
    /\ down' = down \ {k}
    /\ queue' = Append(queue, [key |-> k, make |-> FALSE])
    /\ UNCHANGED <<sent, mods, visible_term, pid, pending, held, did>>

\* A shell is booted, or execute or halt put another process in the foreground
\* of a terminal.
Foreground(t, p) ==
    /\ \A u \in Terms : pid[u] # p
    /\ pid' = [pid EXCEPT ![t] = p]
    /\ UNCHANGED <<down, queue, sent, mods, visible_term, pending, held, did>>

Next ==
    \/ Interrupt
    \/ \E k \in Keys : Press(k)
    \/ \E k \in Keys : Release(k)
    \/ \E t \in Terms, p \in Pids : Foreground(t, p)

Spec == Init /\ [][Next]_vars
-----------------------------------------------------------------------------
Left(code) == [code |-> code, ext |-> FALSE]
Right(code) == [code |-> code, ext |-> TRUE]

\* Every modifier flag is on exactly while its own key is held, as far as the
\* handler has seen: "consider the case where 2 of the same mod are held at the
\* same time (but released separately)" (kbd.c).  The prefix byte is remembered
\* for one byte and tells the right-hand Control and Alt from the left-hand.
ModsFollowKeys ==
    /\ mods.lshift <=> Left(42) \in held
    /\ mods.rshift <=> Left(54) \in held
    /\ mods.lcontrol <=> Left(29) \in held
    /\ mods.rcontrol <=> Right(29) \in held
    /\ mods.lalt <=> Left(56) \in held
    /\ mods.ralt <=> Right(56) \in held
    /\ mods.extended <=> sent = 1

\* "The function keys should only work if alt is pressed" (key_to_ascii): whatever
\* is pressed and released around it, no key changes the visible terminal but one
\* that goes down with Alt.
FunctionKeysNeedAlt == [][visible_term' # visible_term => Alt(mods')]_vars

\* What the keys do without Shift and with it.
KeyDeeds(m) ==
    {Deed([m EXCEPT !.lshift = shift, !.rshift = FALSE], byte) :
        byte \in 1 .. 95, shift \in BOOLEAN}

\* Whatever is held, locked or was pressed before, every printable character
\* has a key that types it with Shift or without, but for the three whose ASCII
\* codes are the scan codes of F1 to F3 and, under Control, C and L.  Those three
\* switch terminals: FunctionKeysNeedAlt.
EveryCharacterTypes ==
    LET deeds == KeyDeeds(mods)
    IN \A c \in (32 .. 126) \ {59, 60, 61} :
          \/ [do |-> "type", arg |-> c] \in deeds
          \/ Control(mods) /\ c \in {67, 76, 99, 108}
=============================================================================
