----------------------------- MODULE StatusBar -----------------------------
(***************************************************************************)
(* The row under the terminals: which of them is shown, what the mouse     *)
(* makes the kernel say, and the time.                                     *)
(*                                                                         *)
(* mouse_handler finds the first byte of a packet by counting bytes, and a *)
(* press puts a message on the row and sets `delay`; rtc_handler counts    *)
(* `delay` down, takes the message away and reads the CMOS clock once a    *)
(* second.  Both handlers run with interrupts off, so each is one step.    *)
(*                                                                         *)
(* Scaled down: HZ (512).  The columns, the lengths of the texts and the   *)
(* conversions of the time are those of the code.                          *)
(***************************************************************************)
EXTENDS Integers, Sequences, SequencesExt

CONSTANTS
    NUM_TTYS,  \* terminals (3)
    HZ,        \* interrupts of the device per second
    Lengths,   \* the lengths of the texts: kalbaking[0] to [9], the right button's
    Times,     \* what the CMOS clock may say, in decimal
    AckBytes,  \* bytes IRQ 12 delivers before the first packet
    TornReads  \* window: the clock may advance while print_time reads it

ASSUME StatusBarAssumption ==
    /\ NUM_TTYS \in 1 .. 10
    /\ HZ \in Nat \ {0, 1}
    /\ Lengths \in [0 .. 10 -> 1 .. 47]
    /\ Times \subseteq [sec : 0 .. 59, min : 0 .. 59, hr : 0 .. 23,
                        day : 1 .. 31, mon : 1 .. 12, yr : 0 .. 99]
    /\ AckBytes \in Nat
    /\ TornReads \in BOOLEAN

VARIABLES
    bar,          \* the cells of row 24
    visible_term,
    i,            \* mouse_handler's count of bytes
    left_btn, right_btn,
    delay,
    rtc_count,
    randomizer,
    phase,        \* the bytes of its packet the device has sent, negative
                  \* while it acknowledges commands
    buttons,      \* the buttons in the packet that is being sent
    now,          \* history: the time print_time last read
    since,        \* history: interrupts of the clock since the last press
    said          \* history: the text of that press

mouse == <<i, left_btn, right_btn, phase, buttons, said>>
clock == <<rtc_count, randomizer, now>>
vars == <<bar, visible_term, delay, since, mouse, clock>>

Columns == 0 .. 79
Texts == 0 .. 10
None == [sec |-> 0, min |-> 0, hr |-> 0, day |-> 0, mon |-> 0, yr |-> 0]
Label == 11
Digit == 12
Mark == 13

\* A cell holds a character: the n-th of a text or of the label, a digit, a mark.
Ch(text, n) == <<text, n>>
Space == Ch(Mark, 0)
Colon == Ch(Mark, 1)
Slash == Ch(Mark, 2)

TypeOK ==
    /\ bar \in [Columns -> (0 .. Mark) \X (0 .. 46)]
    /\ visible_term \in 0 .. NUM_TTYS - 1
    /\ i \in -1 .. 2
    /\ left_btn \in BOOLEAN /\ right_btn \in BOOLEAN
    /\ delay \in 0 .. 3 * HZ
    /\ rtc_count \in 0 .. HZ - 1
    /\ randomizer \in 0 .. 9
    /\ phase \in -AckBytes .. 2
    /\ buttons \in [left : BOOLEAN, right : BOOLEAN]
    /\ now \in Times \cup {None}
    /\ since \in 0 .. 3 * HZ
    /\ said \in Texts
-----------------------------------------------------------------------------
\* status_puts of a terminal's label and of a message in the middle.
Written(row, text, length, first) ==
    [c \in Columns |-> IF c \in first .. first + length - 1
                       THEN Ch(text, c - first) ELSE row[c]]
Erased(row) == [c \in Columns |-> IF c \in 10 .. 62 THEN Space ELSE row[c]]

Offset(text) == 36 - Lengths[text] \div 2

MessagePutOver(row, text) == Written(row, text, Lengths[text], Offset(text))  \* mutant: not erased first
MessagePut(row, text) == Written(Erased(row), text, Lengths[text], Offset(text))

\* itoa in base ten: the digits from the last to the first, then strrev.
Reversed[n \in 0 .. 99] == IF n < 10 THEN <<n>> ELSE <<n % 10>> \o Reversed[n \div 10]
Itoa(n) == Reverse(Reversed[n])

TwoDigitsUnpadded(n) == IF n > 9 THEN Itoa(n) ELSE Itoa(n) \o <<0>>  \* mutant: the zero on the wrong side
TwoDigits(n) == IF n > 9 THEN Itoa(n) ELSE <<0>> \o Itoa(n)

\* What a CMOS register holds, and print_time's way back.
Bcd(n) == (n \div 10) * 16 + (n % 10)
FromBcd(b) == (b \div 16) * 10 + (b % 16)

\* The six registers in the order in which print_time reads them; those from the
\* n-th on may be read after the clock advanced.
Registers(before, after, n) ==
    LET from(k) == IF n < k THEN after ELSE before
        value(x) == FromBcd(Bcd(x))
    IN [sec |-> value(from(1).sec), min |-> value(from(2).min),
        hr |-> value(from(3).hr), day |-> value(from(4).day),
        mon |-> value(from(5).mon), yr |-> value(from(6).yr)]

\* print_time's way from universal time: six hours back, into the day before for
\* the first six.  "day < 0" holds of no day, so month and year stay.
Central(t) == IF t.hr - 6 < 0 THEN [t EXCEPT !.hr = t.hr + 18, !.day = t.day - 1]
              ELSE [t EXCEPT !.hr = t.hr - 6]

\* The cells that print_time puts, from column 63.
Stamp(t) ==
    LET d(n) == LET s == TwoDigits(n) IN <<Ch(Digit, s[1]), Ch(Digit, s[2])>>
    IN d(t.day) \o <<Slash>> \o d(t.mon) \o <<Slash>> \o d(t.yr)
       \o <<Space>> \o d(t.hr) \o <<Colon>> \o d(t.min) \o <<Colon>> \o d(t.sec)

TimePut(row, t) ==
    LET stamp == Stamp(Central(t))
    IN [c \in Columns |-> IF c \in 63 .. 79 THEN stamp[c - 62] ELSE row[c]]

LabelDigit(row, t) == [row EXCEPT ![9] = Ch(Digit, t)]
-----------------------------------------------------------------------------
\* init_terms; the clock interrupts since rtc_init, the mouse since mouse_init.
Init ==
    /\ visible_term = 0
    /\ bar = LabelDigit(Written([c \in Columns |-> Space], Label, 9, 0), 0)
    /\ i = -1
    /\ left_btn = FALSE /\ right_btn = FALSE
    /\ delay = 0
    /\ rtc_count \in 0 .. HZ - 1
    /\ randomizer = 0
    /\ phase = -AckBytes
    /\ buttons = [left |-> FALSE, right |-> FALSE]
    /\ now = None
    /\ since = 3 * HZ
    /\ said = 0

IndexAfterLate(n) == n % 3  \* mutant: the index never moves on
IndexAfter(n) == (n + 1) % 3

\* The messages a first byte asks for, the last of which stays.
Presses(byte) ==
    (IF ~left_btn /\ byte.left THEN <<randomizer>> ELSE <<>>) \o
    (IF ~right_btn /\ byte.right THEN <<10>> ELSE <<>>)

DelayAfterPress == 3 * HZ

\* mouse_handler with the next byte of the device: it takes the lowest bits of
\* the byte for the buttons where it expects them.
MouseHandler(byte) ==
    /\ IF i = 0
       THEN LET texts == Presses(byte)
            IN /\ bar' = IF texts # <<>> THEN MessagePut(bar, Last(texts)) ELSE bar
               /\ delay' = IF texts # <<>> THEN DelayAfterPress ELSE delay
               /\ since' = IF texts # <<>> THEN 0 ELSE since
               /\ said' = IF texts # <<>> THEN Last(texts) ELSE said
               /\ left_btn' = byte.left
               /\ right_btn' = byte.right
       ELSE UNCHANGED <<bar, delay, since, said, left_btn, right_btn>>
    /\ i' = IndexAfter(i)

\* The next byte of the device: an acknowledgement, the buttons, or a movement
\* with any bits in the places of the buttons.
Mouse(byte) ==
    /\ MouseHandler(byte)
    /\ buttons' = IF phase = 0 THEN byte ELSE buttons
    /\ phase' = IF phase < 0 THEN phase + 1 ELSE (phase + 1) % 3
    /\ UNCHANGED <<visible_term, clock>>

Randomizer(t) == ((t.sec * 20 + t.min * 10 + t.hr) \div t.day) % 10

\* print_time, on a clock that says `before` when it starts: the row with the time.
PrintTime(row, before, after, n) ==
    LET t == Registers(before, after, n)
    IN /\ row = TimePut(bar, t)
       /\ randomizer' = Randomizer(t)
       /\ now' = before

CountDownPast(d) == d - 1  \* mutant: "if(delay > 0)" dropped
CountDown(d) == IF d > 0 THEN d - 1 ELSE d

ErasedAtStart == DelayAfterPress  \* mutant: compared with what a press sets
ErasedAt == 1

\* Only rtc_handler does this, and always.
Count == rtc_count' = (rtc_count + 1) % HZ

\* rtc_handler after it has left the time on the row, but for Rtc's countdowns.
Elapse(row) ==
    /\ Count
    /\ delay' = CountDown(delay)
    /\ bar' = IF delay' = ErasedAt THEN Erased(row) ELSE row
    /\ since' = IF since < 3 * HZ THEN since + 1 ELSE since
    /\ UNCHANGED <<visible_term, mouse>>

IsSecond == (rtc_count + 1) % HZ = 0

Tick == ~IsSecond /\ Elapse(bar) /\ UNCHANGED <<randomizer, now>>

\* The clock may advance by a second at most while the registers are read.
Second ==
    /\ IsSecond
    /\ \E before, after \in Times, n \in 0 .. 6 :
          /\ n = 6 => after = before
          /\ n # 6 => TornReads
          /\ \E row \in {TimePut(bar, Registers(before, after, n))} :
                PrintTime(row, before, after, n) /\ Elapse(row)

\* term_switch puts the number of the terminal behind the label.
Switch(t) ==
    /\ t # visible_term
    /\ visible_term' = t
    /\ bar' = LabelDigit(bar, t)
    /\ UNCHANGED <<delay, since, mouse, clock>>

Next ==
    \/ \E byte \in [left : BOOLEAN, right : BOOLEAN] : Mouse(byte)
    \/ Tick
    \/ Second
    \/ \E t \in 0 .. NUM_TTYS - 1 : Switch(t)

Spec == Init /\ [][Next]_vars

\* The clock interrupts for ever.
FairSpec == Spec /\ WF_rtc_count(Count)
-----------------------------------------------------------------------------
MessageDue == since < 3 * HZ - 1

\* The three parts of the row keep to their columns: a message stands by itself
\* in the middle, at most a cell off the centre, from the press for three
\* seconds less one interrupt, however often other presses, bytes, seconds and
\* switches come in between, and leaves nothing behind.
MessageLastsThreeSeconds ==
    LET length == Lengths[said]
        first == 36 - length \div 2
    IN \A c \in 10 .. 62 :
          bar[c] = IF MessageDue /\ c \in first .. first + length - 1
                   THEN Ch(said, c - first) ELSE Space

\* The calendar: the years are 2000 to 2099, every fourth a leap year.
DaysOf(mon, yr) ==
    CASE mon \in {4, 6, 9, 11} -> 30
      [] mon = 2 -> IF yr % 4 = 0 THEN 29 ELSE 28
      [] OTHER -> 31

DayBefore(t) ==
    CASE t.day > 1 -> [t EXCEPT !.day = t.day - 1]
      [] t.day = 1 /\ t.mon > 1 ->
            [t EXCEPT !.day = DaysOf(t.mon - 1, t.yr), !.mon = t.mon - 1]
      [] t.day = 1 /\ t.mon = 1 ->
            [t EXCEPT !.day = 31, !.mon = 12, !.yr = (t.yr + 99) % 100]

\* Central Standard Time, six hours behind.
CentralStandard(utc) ==
    IF utc.hr < 6 THEN [DayBefore(utc) EXCEPT !.hr = utc.hr + 18]
                  ELSE [utc EXCEPT !.hr = utc.hr - 6]

\* The date and time on the row are, in two digits each, Central Standard Time at
\* the second print_time last read, also on the day before the first of a month.
\* The code does not keep this before six o'clock UTC on a first: it has a day zero.
TimeIsCentral ==
    LET ct == CentralStandard(now)
        digits(n, c) == bar[c] = Ch(Digit, n \div 10) /\ bar[c + 1] = Ch(Digit, n % 10)
    IN now # None =>
          /\ digits(ct.hr, 72) /\ digits(ct.min, 75) /\ digits(ct.sec, 78)
          /\ digits(ct.day, 63) /\ digits(ct.mon, 66) /\ digits(ct.yr, 69)

\* mouse_handler stays in step with the packets: between two of them it holds
\* the buttons of the last, so no movement is ever taken for a press.
ButtonsFollow ==
    phase = 0 => /\ left_btn = buttons.left
                 /\ right_btn = buttons.right

\* A message goes once the buttons are left alone.
MessageGoes ==
    <>[](~left_btn /\ ~right_btn) => <>[](\A c \in 10 .. 62 : bar[c] = Space)
=============================================================================
