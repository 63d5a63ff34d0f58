-------------------------- MODULE StatusBar_proofs --------------------------
(***************************************************************************)
(* That a message stands for three seconds less one interrupt and leaves   *)
(* nothing behind, for any rate of the clock, any texts and any times,     *)
(* that the mouse's packets are told apart, and that the row keeps its     *)
(* type and shows the time that was read: the conversions of print_time    *)
(* and itoa, and the seventeen cells they fill.                            *)
(***************************************************************************)
EXTENDS StatusBar, TLAPS

\* The cells of the middle of a row that shows text s from the offset of its
\* length, or nothing.
Middle(row, due, s) ==
    \A c \in 10 .. 62 :
        row[c] = IF due /\ c \in Offset(s) .. Offset(s) + Lengths[s] - 1
                 THEN Ch(s, c - Offset(s)) ELSE Space

\* The countdown is what is left of the three seconds since the last press.
DelayLeft ==
    /\ since \in 0 .. 3 * HZ
    /\ delay = 3 * HZ - since

Inv ==
    /\ DOMAIN bar = Columns
    /\ DelayLeft
    /\ Middle(bar, MessageDue, said)

LEMMA MiddleIsMessage == Middle(bar, MessageDue, said) <=> MessageLastsThreeSeconds
BY DEF Middle, MessageLastsThreeSeconds, Offset

LEMMA Interval ==
    /\ 3 * HZ \in Nat /\ 3 * HZ > 1
    /\ 10 .. 62 \subseteq Columns
BY StatusBarAssumption DEF Columns

LEMMA InvInit == Init => Inv
<1>1. SUFFICES ASSUME Init PROVE Inv
  OBVIOUS
<1>2. DOMAIN bar = Columns /\ \A c \in 10 .. 62 : bar[c] = Space
  <2>. DEFINE row == Written([c \in Columns |-> Space], Label, 9, 0)
  <2>1. DOMAIN row = Columns /\ \A c \in Columns : c \notin 0 .. 8 => row[c] = Space
    BY DEF Written
  <2>. HIDE DEF row
  <2>2. bar = [row EXCEPT ![9] = Ch(Digit, 0)]
    BY <1>1 DEF Init, LabelDigit, row
  <2>3. DOMAIN bar = Columns /\ \A c \in Columns : c # 9 => bar[c] = row[c]
    BY <2>1, <2>2
  <2>4. \A c \in 10 .. 62 : c \in Columns /\ c \notin 0 .. 8 /\ c # 9
    BY Interval
  <2>. QED
    BY <2>1, <2>3, <2>4
<1>3. DelayLeft /\ ~MessageDue
  BY <1>1, Interval DEF Init, DelayLeft, MessageDue
<1>4. QED
  BY <1>2, <1>3 DEF Inv, Middle

\* A message that is put is all there is in the middle.
LEMMA PutShows ==
    ASSUME NEW row, NEW s
    PROVE  /\ DOMAIN MessagePut(row, s) = Columns
           /\ Middle(MessagePut(row, s), TRUE, s)
BY Interval DEF MessagePut, Written, Erased, Middle

\* A byte of the mouse: a press puts its message and starts the countdown.
LEMMA MouseKeeps ==
    ASSUME Inv, NEW byte, Mouse(byte)
    PROVE  Inv'
<1>1. CASE UNCHANGED <<bar, delay, since, said>>
  BY <1>1 DEF Inv, DelayLeft, MessageDue
<1>2. ASSUME NEW s, bar' = MessagePut(bar, s), delay' = 3 * HZ, since' = 0, said' = s
      PROVE  Inv'
  <2>1. DelayLeft'
    BY <1>2, Interval DEF DelayLeft
  <2>2. MessageDue'
    BY <1>2, Interval DEF MessageDue
  <2>3. DOMAIN bar' = Columns /\ Middle(bar', TRUE, said')
    BY <1>2, PutShows
  <2>4. Middle(bar', MessageDue', said')
    BY <2>2, <2>3 DEF Middle
  <2>5. QED
    BY <2>1, <2>3, <2>4 DEF Inv
<1>3. UNCHANGED <<bar, delay, since, said>>
        \/ \E s : /\ bar' = MessagePut(bar, s) /\ delay' = 3 * HZ
                  /\ since' = 0 /\ said' = s
  <2>1. CASE i = 0 /\ Presses(byte) # <<>>
    BY <2>1 DEF Mouse, MouseHandler, DelayAfterPress
  <2>2. CASE ~(i = 0 /\ Presses(byte) # <<>>)
    BY <2>2 DEF Mouse, MouseHandler
  <2>3. QED
    BY <2>1, <2>2
<1>4. QED
  BY <1>1, <1>2, <1>3

LEMMA LastOne ==
    ASSUME NEW w \in Int, NEW n \in Int, w - n = 1
    PROVE  n = w - 1
OBVIOUS

\* An interrupt of the clock, with any row that has the middle of the old one.
LEMMA ElapseKeeps ==
    ASSUME Inv, NEW row, DOMAIN row = Columns,
           \A c \in 10 .. 62 : row[c] = bar[c],
           Elapse(row)
    PROVE  Inv'
<1>1. /\ since \in 0 .. 3 * HZ /\ delay = 3 * HZ - since
      /\ 3 * HZ \in Nat /\ 3 * HZ > 1
  BY Interval DEF Inv, DelayLeft
<1>2. /\ delay' = IF delay > 0 THEN delay - 1 ELSE delay
      /\ since' = IF since < 3 * HZ THEN since + 1 ELSE since
      /\ bar' = IF delay' = 1 THEN Erased(row) ELSE row
      /\ said' = said
  BY DEF Elapse, CountDown, ErasedAt, mouse
<1> DEFINE whole == 3 * HZ
<1> HIDE DEF whole
<1>3. since' \in 0 .. whole /\ delay' = whole - since'
  BY <1>1, <1>2 DEF whole
<1>4. DelayLeft'
  BY <1>3 DEF DelayLeft, whole
<1>5. DOMAIN bar' = Columns
  BY <1>2 DEF Erased
<1>6. CASE delay' = 1
  <2>1. ~MessageDue'
    <3>1. whole \in Nat
      BY <1>1 DEF whole
    <3>2. whole \in Int /\ since' \in Int
      BY <1>3, <3>1
    <3>3. whole - since' = 1
      BY <1>3, <1>6
    <3>4. since' = whole - 1
      BY <3>2, <3>3, LastOne, Zenon
    <3>5. QED
      BY <3>1, <3>4 DEF MessageDue, whole
  <2>2. \A c \in 10 .. 62 : bar'[c] = Space
    BY <1>2, <1>6, Interval DEF Erased
  <2>3. QED
    BY <1>4, <1>5, <2>1, <2>2 DEF Inv, Middle
<1>7. CASE delay' # 1
  <2>1. MessageDue' <=> MessageDue
    BY <1>1, <1>2, <1>3, <1>7 DEF MessageDue, whole
  <2>2. \A c \in 10 .. 62 : bar'[c] = bar[c]
    BY <1>2, <1>7
  <2>3. QED
    BY <1>2, <1>4, <1>5, <2>1, <2>2 DEF Inv, Middle
<1>8. QED
  BY <1>6, <1>7

\* The time and the number of the terminal are outside the middle.
LEMMA TimeAside ==
    ASSUME NEW row, NEW t
    PROVE  /\ DOMAIN TimePut(row, t) = Columns
           /\ \A c \in 10 .. 62 : TimePut(row, t)[c] = row[c]
BY Interval DEF TimePut

LEMMA SwitchKeeps ==
    ASSUME Inv, NEW t, Switch(t)
    PROVE  Inv'
<1>1. /\ DOMAIN bar' = Columns
      /\ \A c \in 10 .. 62 : bar'[c] = bar[c]
  BY Interval DEF Inv, Switch, LabelDigit
<1>2. UNCHANGED <<delay, since, said>>
  BY DEF Switch, mouse
<1>3. QED
  BY <1>1, <1>2 DEF Inv, DelayLeft, MessageDue, Middle

LEMMA InvStep == Inv /\ [Next]_vars => Inv'
<1>1. SUFFICES ASSUME Inv, [Next]_vars PROVE Inv'
  OBVIOUS
<1>2. ASSUME NEW byte, Mouse(byte) PROVE Inv'
  BY <1>1, <1>2, MouseKeeps
<1>3. CASE Tick
  BY <1>1, <1>3, ElapseKeeps DEF Tick, Inv
<1>4. CASE Second
  <2>1. PICK before, after, n :
            Elapse(TimePut(bar, Registers(before, after, n)))
    BY <1>4 DEF Second
  <2>2. QED
    BY <1>1, <2>1, TimeAside, ElapseKeeps
<1>5. ASSUME NEW t, Switch(t) PROVE Inv'
  BY <1>1, <1>5, SwitchKeeps
<1>6. CASE UNCHANGED vars
  BY <1>1, <1>6 DEF vars, mouse, Inv, DelayLeft, MessageDue
<1>7. QED
  BY <1>1, <1>2, <1>3, <1>4, <1>5, <1>6 DEF Next

\* mouse_handler, rtc_handler, status_puts: a message stands by itself in the
\* middle of the row from the press for three seconds less one interrupt,
\* however often presses, bytes, seconds and switches come in between, and
\* leaves nothing behind.
THEOREM MessagesStandThreeSeconds == Spec => []MessageLastsThreeSeconds
<1>1. Inv => MessageLastsThreeSeconds
  BY MiddleIsMessage DEF Inv
<1>2. QED
  BY <1>1, InvInit, InvStep, PTL DEF Spec

\* The index of the handler is the place of the next byte in its packet, and the
\* buttons are those of the last packet from its first byte on.
Packets ==
    /\ i = phase
    /\ phase \in -1 .. 2
    /\ left_btn = buttons.left
    /\ right_btn = buttons.right

\* mouse_init leaves one acknowledgement to be delivered: after it the handler
\* stays in step with the packets, and no movement is taken for a press.
THEOREM ButtonsStayInStep ==
    ASSUME AckBytes = 1
    PROVE  Spec => []ButtonsFollow
<1>1. ASSUME Init PROVE Packets
  <2>1. left_btn = buttons.left /\ right_btn = buttons.right
    BY <1>1 DEF Init
  <2>2. phase = -1 /\ i = -1
    BY <1>1 DEF Init
  <2>3. i = phase /\ phase \in -1 .. 2
    BY <2>2
  <2>4. QED
    BY <2>1, <2>3 DEF Packets
<1>2. Packets /\ [Next]_vars => Packets'
  <2>1. SUFFICES ASSUME Packets, [Next]_vars PROVE Packets'
    OBVIOUS
  <2>2. ASSUME NEW byte \in [left : BOOLEAN, right : BOOLEAN], Mouse(byte)
        PROVE  Packets'
    <3>1. i' = (i + 1) % 3 /\ phase' = IF phase < 0 THEN phase + 1 ELSE (phase + 1) % 3
      BY <2>2 DEF Mouse, MouseHandler, IndexAfter
    <3>2. i' = phase' /\ phase' \in -1 .. 2
      BY <2>1, <3>1 DEF Packets
    <3>3. CASE phase = 0
      BY <2>1, <2>2, <3>2, <3>3 DEF Packets, Mouse, MouseHandler
    <3>4. CASE phase # 0
      BY <2>1, <2>2, <3>2, <3>4 DEF Packets, Mouse, MouseHandler
    <3>5. QED
      BY <3>3, <3>4
  <2>3. CASE UNCHANGED mouse
    BY <2>1, <2>3 DEF mouse, Packets
  <2>4. QED
    BY <2>1, <2>2, <2>3 DEF Next, Tick, Second, Switch, Elapse, vars
<1>3. Packets => ButtonsFollow
  BY DEF Packets, ButtonsFollow
<1>4. QED
  BY <1>1, <1>2, <1>3, PTL DEF Spec
-----------------------------------------------------------------------------
\* What a cell may hold.
Cells == (0 .. Mark) \X (0 .. 46)

LEMMA QuotientOfTen ==
    ASSUME NEW n \in 0 .. 99
    PROVE  n \div 10 \in 0 .. 9 /\ n % 10 \in 0 .. 9
OBVIOUS

LEMMA BcdReturns ==
    ASSUME NEW n \in 0 .. 99
    PROVE  FromBcd(Bcd(n)) = n
<1>1. /\ n \div 10 \in 0 .. 9 /\ n % 10 \in 0 .. 9
      /\ n = 10 * (n \div 10) + (n % 10)
  <2>1. n \in Int
    OBVIOUS
  <2>2. n = 10 * (n \div 10) + (n % 10)
    BY <2>1
  <2>. QED
    BY <2>2, QuotientOfTen
<1>. DEFINE q == n \div 10
            r == n % 10
<1>2. q \in 0 .. 9 /\ r \in 0 .. 9 /\ n = 10 * q + r
  BY <1>1
<1>3. Bcd(n) = q * 16 + r
  BY DEF Bcd
<1>. HIDE DEF q, r
<1>4. (q * 16 + r) \div 16 = q /\ (q * 16 + r) % 16 = r
  BY <1>2
<1>. QED
  BY <1>2, <1>3, <1>4 DEF FromBcd

LEMMA Joined ==
    ASSUME NEW S, NEW s \in Seq(S), NEW t \in Seq(S)
    PROVE  /\ s \o t \in Seq(S)
           /\ Len(s \o t) = Len(s) + Len(t)
           /\ \A j \in 1 .. Len(s) + Len(t) :
                 (s \o t)[j] = IF j <= Len(s) THEN s[j] ELSE t[j - Len(s)]
OBVIOUS
LEMMA PairOf ==
    ASSUME NEW a, NEW b
    PROVE  <<a>> \o <<b>> = <<a, b>>
<1>. DEFINE S == {a, b}
            t == <<a>> \o <<b>>
<1>1. <<a>> \in Seq(S) /\ <<b>> \in Seq(S) /\ Len(<<a>>) = 1 /\ Len(<<b>>) = 1
  OBVIOUS
<1>2. /\ t \in Seq(S) /\ Len(t) = 2
      /\ t[1] = a /\ t[2] = b
  BY <1>1, Joined
<1>. HIDE DEF t, S
<1>3. t = <<t[1], t[2]>>
  BY <1>2
<1>. QED
  BY <1>2, <1>3 DEF t

\* itoa before strrev.
LEMMA ReversedDigits ==
    ASSUME NEW n \in 0 .. 99
    PROVE  Reversed[n] = IF n < 10 THEN <<n>> ELSE <<n % 10, n \div 10>>
<1>. DEFINE Body(f, k) == IF k < 10 THEN <<k>> ELSE <<k % 10>> \o f[k \div 10]
            Solves(f) == f = [k \in 0 .. 99 |-> Body(f, k)]
            g == [k \in 0 .. 99 |-> IF k < 10 THEN <<k>> ELSE <<k % 10>> \o <<k \div 10>>]
<1>1. Solves(g)
  <2>1. \A k \in 0 .. 99 : k >= 10 => g[k \div 10] = <<k \div 10>>
    <3>. SUFFICES ASSUME NEW k \in 0 .. 99, k >= 10
                  PROVE  g[k \div 10] = <<k \div 10>>
      OBVIOUS
    <3>1. k \div 10 \in 0 .. 99 /\ k \div 10 < 10
      BY QuotientOfTen
    <3>. QED
      BY <3>1
  <2>2. \A k \in 0 .. 99 : Body(g, k) = IF k < 10 THEN <<k>> ELSE <<k % 10>> \o <<k \div 10>>
    <3>. HIDE DEF g
    <3>. SUFFICES ASSUME NEW k \in 0 .. 99
                  PROVE  Body(g, k) = IF k < 10 THEN <<k>> ELSE <<k % 10>> \o <<k \div 10>>
      OBVIOUS
    <3>1. CASE k < 10
      BY <3>1
    <3>2. CASE ~(k < 10)
      <4>1. g[k \div 10] = <<k \div 10>>
        BY <2>1, <3>2
      <4>. QED
        BY <3>2, <4>1
    <3>. QED
      BY <3>1, <3>2
  <2>. HIDE DEF Body
  <2>3. \A k \in 0 .. 99 : g[k] = Body(g, k)
    BY <2>2
  <2>4. g = [k \in 0 .. 99 |-> g[k]]
    OBVIOUS
  <2>. HIDE DEF g
  <2>. QED
    BY <2>3, <2>4
<1>2. Reversed = CHOOSE f : Solves(f)
  BY DEF Reversed
<1>3. Solves(Reversed)
  <2>. HIDE DEF Solves, g
  <2>. QED
    BY <1>1, <1>2
<1>4. \A k \in 0 .. 99 : Reversed[k] = Body(Reversed, k)
  <2>. HIDE DEF Body
  <2>. QED
    BY <1>3
<1>5. CASE n < 10
  BY <1>4, <1>5
<1>6. CASE ~(n < 10)
  <2>1. n \div 10 \in 0 .. 99 /\ n \div 10 < 10
    BY QuotientOfTen
  <2>2. Reversed[n \div 10] = <<n \div 10>>
    BY <1>4, <2>1
  <2>3. Reversed[n] = <<n % 10>> \o <<n \div 10>>
    BY <1>4, <1>6, <2>2
  <2>4. <<n % 10>> \o <<n \div 10>> = <<n % 10, n \div 10>>
    BY PairOf
  <2>. QED
    BY <1>6, <2>3, <2>4
<1>. QED
  BY <1>5, <1>6

\* A number under a hundred takes two cells, the tens first.
LEMMA TwoDigitsAre ==
    ASSUME NEW n \in 0 .. 99
    PROVE  TwoDigits(n) = <<n \div 10, n % 10>>
<1>1. CASE n < 10
  <2>1. n \div 10 = 0 /\ n % 10 = n
    BY <1>1
  <2>2. Reversed[n] = <<n>>
    BY <1>1, ReversedDigits
  <2>3. TwoDigits(n) = <<0>> \o Reverse(<<n>>)
    <3>1. ~(n > 9)
      BY <1>1
    <3>2. Itoa(n) = Reverse(<<n>>)
      BY <2>2 DEF Itoa
    <3>. QED
      BY <3>1, <3>2 DEF TwoDigits
  <2>4. Reverse(<<n>>) = <<n>>
    BY DEF Reverse
  <2>5. <<0>> \o <<n>> = <<0, n>>
    BY PairOf
  <2>. QED
    BY <2>1, <2>3, <2>4, <2>5
<1>2. CASE ~(n < 10)
  <2>1. Reversed[n] = <<n % 10, n \div 10>>
    BY <1>2, ReversedDigits
  <2>2. TwoDigits(n) = Reverse(<<n % 10, n \div 10>>)
    BY <1>2, <2>1 DEF TwoDigits, Itoa
  <2>3. \A a, b : Reverse(<<a, b>>) = <<b, a>>
    <3>. SUFFICES ASSUME NEW a, NEW b PROVE Reverse(<<a, b>>) = <<b, a>>
      OBVIOUS
    <3>1. Reverse(<<a, b>>) = [j \in 1 .. 2 |-> <<a, b>>[(2 - j) + 1]]
      BY DEF Reverse
    <3>2. \A j \in 1 .. 2 : <<a, b>>[(2 - j) + 1] = <<b, a>>[j]
      OBVIOUS
    <3>3. <<b, a>> = [j \in 1 .. 2 |-> <<b, a>>[j]]
      OBVIOUS
    <3>. QED
      BY <3>1, <3>2, <3>3
  <2>. QED
    BY <2>2, <2>3
<1>. QED
  BY <1>1, <1>2
-----------------------------------------------------------------------------
Row(s, n) == s \in Seq(Cells) /\ Len(s) = n

\* u is the n cells of s and then the k cells of t.
Follows(u, s, n, t, k) ==
    /\ Row(u, n + k)
    /\ \A j \in 1 .. n : u[j] = s[j]
    /\ \A j \in 1 .. k : u[n + j] = t[j]

LEMMA RowGrows ==
    ASSUME NEW s, NEW n \in Nat, Row(s, n), NEW t, NEW k \in Nat, Row(t, k)
    PROVE  Follows(s \o t, s, n, t, k)
<1>1. s \in Seq(Cells) /\ t \in Seq(Cells) /\ Len(s) = n /\ Len(t) = k
  BY DEF Row
<1>2. /\ s \o t \in Seq(Cells)
      /\ Len(s \o t) = Len(s) + Len(t)
      /\ \A j \in 1 .. Len(s) + Len(t) :
            (s \o t)[j] = IF j <= Len(s) THEN s[j] ELSE t[j - Len(s)]
  BY <1>1, Joined
<1>. DEFINE u == s \o t
<1>3. /\ u \in Seq(Cells) /\ Len(u) = n + k
      /\ \A j \in 1 .. n + k : u[j] = IF j <= n THEN s[j] ELSE t[j - n]
  BY <1>1, <1>2
<1>. HIDE DEF u
<1>4. \A j \in 1 .. n : u[j] = s[j]
  BY <1>3
<1>5. \A j \in 1 .. k : u[n + j] = t[j]
  <2>. SUFFICES ASSUME NEW j \in 1 .. k PROVE u[n + j] = t[j]
    OBVIOUS
  <2>1. n + j \in 1 .. n + k /\ ~(n + j <= n) /\ (n + j) - n = j
    OBVIOUS
  <2>. QED
    BY <1>3, <2>1
<1>. QED
  BY <1>3, <1>4, <1>5 DEF Follows, Row, u

\* A time all of whose parts take two digits.
TwoDigitTime(t) ==
    /\ t.sec \in 0 .. 99 /\ t.min \in 0 .. 99 /\ t.hr \in 0 .. 99
    /\ t.day \in 0 .. 99 /\ t.mon \in 0 .. 99 /\ t.yr \in 0 .. 99

\* The digits of v are the k-th and the next cell of s.
DigitsAt(s, k, v) == s[k] = Ch(Digit, v \div 10) /\ s[k + 1] = Ch(Digit, v % 10)

LEMMA StampIs ==
    ASSUME NEW t, TwoDigitTime(t)
    PROVE  /\ Stamp(t) \in Seq(Cells) /\ Len(Stamp(t)) = 17
           /\ DigitsAt(Stamp(t), 1, t.day) /\ DigitsAt(Stamp(t), 4, t.mon)
           /\ DigitsAt(Stamp(t), 7, t.yr) /\ DigitsAt(Stamp(t), 10, t.hr)
           /\ DigitsAt(Stamp(t), 13, t.min) /\ DigitsAt(Stamp(t), 16, t.sec)
<1>. DEFINE T(v) == Ch(Digit, v \div 10)
            U(v) == Ch(Digit, v % 10)
            D(v) == <<T(v), U(v)>>
            a0 == D(t.day)
            a1 == a0 \o <<Slash>>
            a2 == a1 \o D(t.mon)
            a3 == a2 \o <<Slash>>
            a4 == a3 \o D(t.yr)
            a5 == a4 \o <<Space>>
            a6 == a5 \o D(t.hr)
            a7 == a6 \o <<Colon>>
            a8 == a7 \o D(t.min)
            a9 == a8 \o <<Colon>>
            a10 == a9 \o D(t.sec)
<1>1. \A v \in 0 .. 99 :
         LET s == TwoDigits(v) IN <<Ch(Digit, s[1]), Ch(Digit, s[2])>> = D(v)
  <2>. SUFFICES ASSUME NEW v \in 0 .. 99
                PROVE  LET s == TwoDigits(v)
                       IN  <<Ch(Digit, s[1]), Ch(Digit, s[2])>> = D(v)
    OBVIOUS
  <2>1. TwoDigits(v)[1] = v \div 10 /\ TwoDigits(v)[2] = v % 10
    <3>1. TwoDigits(v) = <<v \div 10, v % 10>>
      BY TwoDigitsAre
    <3>2. \A s, a, b : s = <<a, b>> => s[1] = a /\ s[2] = b
      OBVIOUS
    <3>. QED
      BY <3>1, <3>2
  <2>. QED
    BY <2>1
<1>2. Stamp(t) = a10
  BY <1>1 DEF Stamp, TwoDigitTime
<1>3. \A v \in 0 .. 99 : T(v) \in Cells /\ U(v) \in Cells
  BY QuotientOfTen DEF Cells, Ch, Digit, Mark
<1>4. Slash \in Cells /\ Colon \in Cells /\ Space \in Cells
  BY DEF Slash, Colon, Space, Cells, Ch, Mark
<1>. HIDE DEF T, U
<1>5. \A v \in 0 .. 99 : Row(D(v), 2) /\ D(v)[1] = T(v) /\ D(v)[2] = U(v)
  BY <1>3 DEF Row
<1>6. \A c \in {Slash, Colon, Space} : Row(<<c>>, 1)
  BY <1>4 DEF Row
<1>. HIDE DEF D
<1>7. Row(a0, 2) /\ a0[1] = T(t.day) /\ a0[2] = U(t.day)
  BY <1>5 DEF TwoDigitTime
<1>. HIDE DEF a0
<1>8. /\ Row(a1, 3)
       /\ \A j \in 1 .. 2 : a1[j] = a0[j]
  <2>1. Row(<<Slash>>, 1)
    BY <1>6
  <2>2. 2 \in Nat /\ 1 \in Nat
    OBVIOUS
  <2>3. Follows(a1, a0, 2, <<Slash>>, 1)
    BY <1>7, <2>1, <2>2, RowGrows, Zenon
  <2>. HIDE DEF a1
  <2>. QED
    BY <2>1, <2>3 DEF Follows
<1>. HIDE DEF a1
<1>9. /\ Row(a2, 5)
       /\ \A j \in 1 .. 3 : a2[j] = a1[j]
       /\ a2[4] = T(t.mon) /\ a2[5] = U(t.mon)
  <2>1. Row(D(t.mon), 2) /\ D(t.mon)[1] = T(t.mon) /\ D(t.mon)[2] = U(t.mon)
    BY <1>5 DEF TwoDigitTime
  <2>2. 3 \in Nat /\ 2 \in Nat
    OBVIOUS
  <2>3. Follows(a2, a1, 3, D(t.mon), 2)
    BY <1>8, <2>1, <2>2, RowGrows, Zenon
  <2>. HIDE DEF a2
  <2>. QED
    BY <2>1, <2>3 DEF Follows
<1>. HIDE DEF a2
<1>10. /\ Row(a3, 6)
       /\ \A j \in 1 .. 5 : a3[j] = a2[j]
  <2>1. Row(<<Slash>>, 1)
    BY <1>6
  <2>2. 5 \in Nat /\ 1 \in Nat
    OBVIOUS
  <2>3. Follows(a3, a2, 5, <<Slash>>, 1)
    BY <1>9, <2>1, <2>2, RowGrows, Zenon
  <2>. HIDE DEF a3
  <2>. QED
    BY <2>1, <2>3 DEF Follows
<1>. HIDE DEF a3
<1>11. /\ Row(a4, 8)
       /\ \A j \in 1 .. 6 : a4[j] = a3[j]
       /\ a4[7] = T(t.yr) /\ a4[8] = U(t.yr)
  <2>1. Row(D(t.yr), 2) /\ D(t.yr)[1] = T(t.yr) /\ D(t.yr)[2] = U(t.yr)
    BY <1>5 DEF TwoDigitTime
  <2>2. 6 \in Nat /\ 2 \in Nat
    OBVIOUS
  <2>3. Follows(a4, a3, 6, D(t.yr), 2)
    BY <1>10, <2>1, <2>2, RowGrows, Zenon
  <2>. HIDE DEF a4
  <2>. QED
    BY <2>1, <2>3 DEF Follows
<1>. HIDE DEF a4
<1>12. /\ Row(a5, 9)
       /\ \A j \in 1 .. 8 : a5[j] = a4[j]
  <2>1. Row(<<Space>>, 1)
    BY <1>6
  <2>2. 8 \in Nat /\ 1 \in Nat
    OBVIOUS
  <2>3. Follows(a5, a4, 8, <<Space>>, 1)
    BY <1>11, <2>1, <2>2, RowGrows, Zenon
  <2>. HIDE DEF a5
  <2>. QED
    BY <2>1, <2>3 DEF Follows
<1>. HIDE DEF a5
<1>13. /\ Row(a6, 11)
       /\ \A j \in 1 .. 9 : a6[j] = a5[j]
       /\ a6[10] = T(t.hr) /\ a6[11] = U(t.hr)
  <2>1. Row(D(t.hr), 2) /\ D(t.hr)[1] = T(t.hr) /\ D(t.hr)[2] = U(t.hr)
    BY <1>5 DEF TwoDigitTime
  <2>2. 9 \in Nat /\ 2 \in Nat
    OBVIOUS
  <2>3. Follows(a6, a5, 9, D(t.hr), 2)
    BY <1>12, <2>1, <2>2, RowGrows, Zenon
  <2>. HIDE DEF a6
  <2>. QED
    BY <2>1, <2>3 DEF Follows
<1>. HIDE DEF a6
<1>14. /\ Row(a7, 12)
       /\ \A j \in 1 .. 11 : a7[j] = a6[j]
  <2>1. Row(<<Colon>>, 1)
    BY <1>6
  <2>2. 11 \in Nat /\ 1 \in Nat
    OBVIOUS
  <2>3. Follows(a7, a6, 11, <<Colon>>, 1)
    BY <1>13, <2>1, <2>2, RowGrows, Zenon
  <2>. HIDE DEF a7
  <2>. QED
    BY <2>1, <2>3 DEF Follows
<1>. HIDE DEF a7
<1>15. /\ Row(a8, 14)
       /\ \A j \in 1 .. 12 : a8[j] = a7[j]
       /\ a8[13] = T(t.min) /\ a8[14] = U(t.min)
  <2>1. Row(D(t.min), 2) /\ D(t.min)[1] = T(t.min) /\ D(t.min)[2] = U(t.min)
    BY <1>5 DEF TwoDigitTime
  <2>2. 12 \in Nat /\ 2 \in Nat
    OBVIOUS
  <2>3. Follows(a8, a7, 12, D(t.min), 2)
    BY <1>14, <2>1, <2>2, RowGrows, Zenon
  <2>. HIDE DEF a8
  <2>. QED
    BY <2>1, <2>3 DEF Follows
<1>. HIDE DEF a8
<1>16. /\ Row(a9, 15)
       /\ \A j \in 1 .. 14 : a9[j] = a8[j]
  <2>1. Row(<<Colon>>, 1)
    BY <1>6
  <2>2. 14 \in Nat /\ 1 \in Nat
    OBVIOUS
  <2>3. Follows(a9, a8, 14, <<Colon>>, 1)
    BY <1>15, <2>1, <2>2, RowGrows, Zenon
  <2>. HIDE DEF a9
  <2>. QED
    BY <2>1, <2>3 DEF Follows
<1>. HIDE DEF a9
<1>17. /\ Row(a10, 17)
       /\ \A j \in 1 .. 15 : a10[j] = a9[j]
       /\ a10[16] = T(t.sec) /\ a10[17] = U(t.sec)
  <2>1. Row(D(t.sec), 2) /\ D(t.sec)[1] = T(t.sec) /\ D(t.sec)[2] = U(t.sec)
    BY <1>5 DEF TwoDigitTime
  <2>2. 15 \in Nat /\ 2 \in Nat
    OBVIOUS
  <2>3. Follows(a10, a9, 15, D(t.sec), 2)
    BY <1>16, <2>1, <2>2, RowGrows, Zenon
  <2>. HIDE DEF a10
  <2>. QED
    BY <2>1, <2>3 DEF Follows
<1>. HIDE DEF a10
<1>18. /\ a10[1] = T(t.day) /\ a10[2] = U(t.day) /\ a10[4] = T(t.mon) /\ a10[5] = U(t.mon)
       /\ a10[7] = T(t.yr) /\ a10[8] = U(t.yr) /\ a10[10] = T(t.hr) /\ a10[11] = U(t.hr)
       /\ a10[13] = T(t.min) /\ a10[14] = U(t.min) /\ a10[16] = T(t.sec) /\ a10[17] = U(t.sec)
  BY <1>7, <1>8, <1>9, <1>10, <1>11, <1>12, <1>13, <1>14, <1>15, <1>16, <1>17
<1>. QED
  BY <1>2, <1>17, <1>18 DEF DigitsAt, Row, T, U
-----------------------------------------------------------------------------
Instants == [sec : 0 .. 59, min : 0 .. 59, hr : 0 .. 23,
             day : 1 .. 31, mon : 1 .. 12, yr : 0 .. 99]

\* What print_time has read is an instant, whatever the clock did meanwhile, and
\* that of the clock when it did not advance.
LEMMA RegistersRead ==
    ASSUME NEW before \in Times, NEW after \in Times, NEW n \in 0 .. 6
    PROVE  /\ Registers(before, after, n) \in Instants
           /\ after = before => Registers(before, after, n) = before
<1>1. before \in Instants /\ after \in Instants
  BY StatusBarAssumption DEF Instants
<1>2. \A x \in 0 .. 99 : FromBcd(Bcd(x)) = x
  BY BcdReturns
<1>. DEFINE from(k) == IF n < k THEN after ELSE before
            r == Registers(before, after, n)
<1>3. \A k \in 1 .. 6 : from(k) \in Instants /\ (after = before => from(k) = before)
  BY <1>1
<1>. HIDE DEF from
<1>4. r = [sec |-> FromBcd(Bcd(from(1).sec)), min |-> FromBcd(Bcd(from(2).min)),
           hr |-> FromBcd(Bcd(from(3).hr)), day |-> FromBcd(Bcd(from(4).day)),
           mon |-> FromBcd(Bcd(from(5).mon)), yr |-> FromBcd(Bcd(from(6).yr))]
  BY DEF Registers, from
<1>5. /\ from(1).sec \in 0 .. 59 /\ from(2).min \in 0 .. 59 /\ from(3).hr \in 0 .. 23
      /\ from(4).day \in 1 .. 31 /\ from(5).mon \in 1 .. 12 /\ from(6).yr \in 0 .. 99
  BY <1>3 DEF Instants
<1>6. /\ from(1).sec \in 0 .. 99 /\ from(2).min \in 0 .. 99 /\ from(3).hr \in 0 .. 99
      /\ from(4).day \in 0 .. 99 /\ from(5).mon \in 0 .. 99 /\ from(6).yr \in 0 .. 99
  BY <1>5
<1>7. r = [sec |-> from(1).sec, min |-> from(2).min, hr |-> from(3).hr,
           day |-> from(4).day, mon |-> from(5).mon, yr |-> from(6).yr]
  BY <1>2, <1>4, <1>6
<1>. HIDE DEF r
<1>8. r \in Instants
  BY <1>5, <1>7 DEF Instants
<1>9. ASSUME after = before
      PROVE  r = before
  <2>1. \A k \in 1 .. 6 : from(k) = before
    BY <1>3, <1>9
  <2>2. r = [sec |-> before.sec, min |-> before.min, hr |-> before.hr,
             day |-> before.day, mon |-> before.mon, yr |-> before.yr]
    BY <1>7, <2>1
  <2>. QED
    BY <1>1, <2>2 DEF Instants
<1>. QED
  BY <1>8, <1>9 DEF r

\* Central time takes two digits, also the day before the first.
LEMMA CentralIs ==
    ASSUME NEW t \in Instants
    PROVE  /\ TwoDigitTime(Central(t))
           /\ Central(t).hr = (t.hr + 18) % 24
           /\ Central(t).day = IF t.hr < 6 THEN t.day - 1 ELSE t.day
           /\ Central(t).min = t.min /\ Central(t).sec = t.sec
           /\ Central(t).mon = t.mon /\ Central(t).yr = t.yr
<1>1. /\ t.sec \in 0 .. 59 /\ t.min \in 0 .. 59 /\ t.hr \in 0 .. 23
      /\ t.day \in 1 .. 31 /\ t.mon \in 1 .. 12 /\ t.yr \in 0 .. 99
  BY DEF Instants
<1>2. /\ Central(t).hr = IF t.hr < 6 THEN t.hr + 18 ELSE t.hr - 6
      /\ Central(t).day = IF t.hr < 6 THEN t.day - 1 ELSE t.day
      /\ Central(t).min = t.min /\ Central(t).sec = t.sec
      /\ Central(t).mon = t.mon /\ Central(t).yr = t.yr
  <2>1. t.hr - 6 < 0 <=> t.hr < 6
    BY <1>1
  <2>2. CASE t.hr < 6
    <3>1. Central(t) = [t EXCEPT !.hr = t.hr + 18, !.day = t.day - 1]
      BY <2>1, <2>2 DEF Central
    <3>. QED
      BY <2>2, <3>1 DEF Instants
  <2>3. CASE ~(t.hr < 6)
    <3>1. Central(t) = [t EXCEPT !.hr = t.hr - 6]
      BY <2>1, <2>3 DEF Central
    <3>. QED
      BY <2>3, <3>1 DEF Instants
  <2>. QED
    BY <2>2, <2>3
<1>3. Central(t).hr = (t.hr + 18) % 24
  <2>1. CASE t.hr < 6
    BY <1>1, <1>2, <2>1
  <2>2. CASE ~(t.hr < 6)
    BY <1>1, <1>2, <2>2
  <2>. QED
    BY <2>1, <2>2
<1>4. /\ Central(t).hr \in 0 .. 99 /\ Central(t).day \in 0 .. 99
  BY <1>1, <1>2
<1>. QED
  BY <1>1, <1>2, <1>3, <1>4 DEF TwoDigitTime

LEMMA ElementOf ==
    ASSUME NEW S, NEW s \in Seq(S)
    PROVE  \A k \in 1 .. Len(s) : s[k] \in S
OBVIOUS

Rows == [Columns -> Cells]

\* The time that a row shows, from column 63.
Shows(row, t) ==
    /\ DigitsAt(row, 63, t.day) /\ DigitsAt(row, 66, t.mon) /\ DigitsAt(row, 69, t.yr)
    /\ DigitsAt(row, 72, t.hr) /\ DigitsAt(row, 75, t.min) /\ DigitsAt(row, 78, t.sec)

LEMMA TimePutShows ==
    ASSUME NEW row \in Rows, NEW t \in Instants
    PROVE  TimePut(row, t) \in Rows /\ Shows(TimePut(row, t), Central(t))
<1>. DEFINE stamp == Stamp(Central(t))
            u == Central(t)
            new == TimePut(row, t)
<1>1. TwoDigitTime(u)
  BY CentralIs
<1>2. /\ stamp \in Seq(Cells) /\ Len(stamp) = 17
      /\ DigitsAt(stamp, 1, u.day) /\ DigitsAt(stamp, 4, u.mon)
      /\ DigitsAt(stamp, 7, u.yr) /\ DigitsAt(stamp, 10, u.hr)
      /\ DigitsAt(stamp, 13, u.min) /\ DigitsAt(stamp, 16, u.sec)
  BY <1>1, StampIs
<1>3. new = [c \in Columns |-> IF c \in 63 .. 79 THEN stamp[c - 62] ELSE row[c]]
  BY DEF TimePut
<1>. HIDE DEF new, stamp, u
<1>4. \A c \in 63 .. 79 : c - 62 \in 1 .. 17
  OBVIOUS
<1>5. \A k \in 1 .. 17 : stamp[k] \in Cells
  <2>1. stamp \in Seq(Cells) /\ Len(stamp) = 17
    BY <1>2
  <2>. QED
    BY <2>1, ElementOf
<1>6. new \in Rows
  BY <1>3, <1>4, <1>5 DEF Rows
<1>7. \A c \in 63 .. 79 : new[c] = stamp[c - 62]
  BY <1>3 DEF Columns
<1>8. \A k \in 1 .. 16 : \A v : DigitsAt(stamp, k, v) => DigitsAt(new, k + 62, v)
  <2>. SUFFICES ASSUME NEW k \in 1 .. 16, NEW v, DigitsAt(stamp, k, v)
                PROVE  DigitsAt(new, k + 62, v)
    OBVIOUS
  <2>1. new[k + 62] = stamp[k]
    <3>1. k + 62 \in 63 .. 79 /\ (k + 62) - 62 = k
      OBVIOUS
    <3>. QED
      BY <1>7, <3>1
  <2>2. new[k + 62 + 1] = stamp[k + 1]
    <3>1. k + 62 + 1 \in 63 .. 79 /\ (k + 62 + 1) - 62 = k + 1
      OBVIOUS
    <3>. QED
      BY <1>7, <3>1
  <2>. QED
    BY <2>1, <2>2 DEF DigitsAt
<1>9. Shows(new, u)
  <2>1. /\ DigitsAt(new, 1 + 62, u.day) /\ DigitsAt(new, 4 + 62, u.mon)
        /\ DigitsAt(new, 7 + 62, u.yr) /\ DigitsAt(new, 10 + 62, u.hr)
        /\ DigitsAt(new, 13 + 62, u.min) /\ DigitsAt(new, 16 + 62, u.sec)
    BY <1>2, <1>8
  <2>2. /\ 1 + 62 = 63 /\ 4 + 62 = 66 /\ 7 + 62 = 69
        /\ 10 + 62 = 72 /\ 13 + 62 = 75 /\ 16 + 62 = 78
    OBVIOUS
  <2>. QED
    BY <2>1, <2>2 DEF Shows
<1>. QED
  BY <1>6, <1>9 DEF new, u
-----------------------------------------------------------------------------
\* The other writers of the row keep it a row and leave the time alone.
SameTime(row, new) == \A c \in 63 .. 79 : new[c] = row[c]

LEMMA SameTimeShows ==
    ASSUME NEW row, NEW new, SameTime(row, new), NEW t, Shows(row, t)
    PROVE  Shows(new, t)
<1>1. /\ new[63] = row[63] /\ new[64] = row[64] /\ new[66] = row[66]
      /\ new[67] = row[67] /\ new[69] = row[69] /\ new[70] = row[70]
      /\ new[72] = row[72] /\ new[73] = row[73] /\ new[75] = row[75]
      /\ new[76] = row[76] /\ new[78] = row[78] /\ new[79] = row[79]
  BY DEF SameTime
<1>. QED
  BY <1>1 DEF Shows, DigitsAt

LEMMA ErasedRow ==
    ASSUME NEW row \in Rows
    PROVE  Erased(row) \in Rows /\ SameTime(row, Erased(row))
<1>1. Space \in Cells
  BY DEF Space, Cells, Ch, Mark
<1>2. Erased(row) \in Rows
  BY <1>1 DEF Erased, Rows
<1>3. SameTime(row, Erased(row))
  BY DEF Erased, SameTime, Columns
<1>. QED
  BY <1>2, <1>3

LEMMA MessageRow ==
    ASSUME NEW row \in Rows, NEW text \in Texts
    PROVE  MessagePut(row, text) \in Rows /\ SameTime(row, MessagePut(row, text))
<1>. DEFINE l == Lengths[text]
            f == Offset(text)
            old == Erased(row)
            new == MessagePut(row, text)
<1>1. l \in 1 .. 47
  BY StatusBarAssumption DEF Texts
<1>2. f \in 13 .. 36 /\ f + l - 1 <= 59
  <2>1. l \div 2 \in 0 .. 23 /\ l <= 2 * (l \div 2) + 1
    BY <1>1
  <2>2. f = 36 - l \div 2
    BY DEF Offset
  <2>. HIDE DEF f, l
  <2>. QED
    BY <1>1, <2>1, <2>2
<1>3. old \in Rows /\ SameTime(row, old)
  BY ErasedRow
<1>4. new = [c \in Columns |-> IF c \in f .. f + l - 1 THEN Ch(text, c - f) ELSE old[c]]
  BY DEF MessagePut, Written
<1>. HIDE DEF new, old, f, l
<1>5. \A c \in f .. f + l - 1 : Ch(text, c - f) \in Cells
  <2>. SUFFICES ASSUME NEW c \in f .. f + l - 1 PROVE Ch(text, c - f) \in Cells
    OBVIOUS
  <2>1. c - f \in 0 .. 46 /\ text \in 0 .. 13
    BY <1>1, <1>2 DEF Texts
  <2>. QED
    BY <2>1 DEF Ch, Cells, Mark
<1>6. new \in Rows
  BY <1>3, <1>4, <1>5 DEF Rows
<1>7. \A c \in 63 .. 79 : c \in Columns /\ c \notin f .. f + l - 1
  BY <1>1, <1>2 DEF Columns
<1>8. SameTime(row, new)
  BY <1>3, <1>4, <1>7 DEF SameTime
<1>. QED
  BY <1>6, <1>8 DEF new

LEMMA LabelRow ==
    ASSUME NEW row \in Rows, NEW t \in 0 .. NUM_TTYS - 1
    PROVE  LabelDigit(row, t) \in Rows /\ SameTime(row, LabelDigit(row, t))
<1>1. t \in 0 .. 46
  BY StatusBarAssumption
<1>2. Ch(Digit, t) \in Cells
  BY <1>1 DEF Ch, Digit, Cells, Mark
<1>3. LabelDigit(row, t) \in Rows
  BY <1>2 DEF LabelDigit, Rows
<1>4. SameTime(row, LabelDigit(row, t))
  BY DEF LabelDigit, SameTime, Rows, Columns
<1>. QED
  BY <1>3, <1>4
-----------------------------------------------------------------------------
\* The time that was read, on the row in Central time.
TimeShown == now # None => Shows(bar, Central(now))

TimeInv == TypeOK /\ (~TornReads => TimeShown)

LEMMA NoneIsNoTime == None \notin Times
BY StatusBarAssumption DEF None

LEMMA TypeInit == Init => TypeOK /\ TimeShown
<1>. SUFFICES ASSUME Init PROVE TypeOK /\ TimeShown
  OBVIOUS
<1>. DEFINE blank == [c \in Columns |-> Space]
            label == Written(blank, Label, 9, 0)
<1>1. bar \in Rows
  <2>1. blank \in Rows
    BY DEF Rows, Space, Cells, Ch, Mark
  <2>2. \A c \in 0 .. 0 + 9 - 1 : Ch(Label, c - 0) \in Cells
    <3>. SUFFICES ASSUME NEW c \in 0 .. 0 + 9 - 1 PROVE Ch(Label, c - 0) \in Cells
      OBVIOUS
    <3>1. c - 0 \in 0 .. 46 /\ Label \in 0 .. Mark
      BY DEF Label, Mark
    <3>. QED
      BY <3>1 DEF Ch, Cells
  <2>. HIDE DEF blank
  <2>3. label \in Rows
    BY <2>1, <2>2 DEF Written, Rows
  <2>. HIDE DEF label
  <2>4. 0 \in 0 .. NUM_TTYS - 1
    BY StatusBarAssumption
  <2>5. bar = LabelDigit(label, 0)
    BY DEF Init, label, blank
  <2>. QED
    BY <2>3, <2>4, <2>5, LabelRow
<1>2. /\ visible_term \in 0 .. NUM_TTYS - 1 /\ delay \in 0 .. 3 * HZ
      /\ since \in 0 .. 3 * HZ /\ phase \in -AckBytes .. 2
  <2>1. 0 \in 0 .. NUM_TTYS - 1 /\ 0 \in 0 .. 3 * HZ /\ 3 * HZ \in 0 .. 3 * HZ
        /\ -AckBytes \in -AckBytes .. 2
    BY StatusBarAssumption
  <2>. QED
    BY <2>1 DEF Init
<1>3. /\ i \in -1 .. 2 /\ randomizer \in 0 .. 9 /\ rtc_count \in 0 .. HZ - 1
      /\ said \in Texts
  BY DEF Init, Texts
<1>4. left_btn \in BOOLEAN /\ right_btn \in BOOLEAN
      /\ buttons \in [left : BOOLEAN, right : BOOLEAN]
  BY DEF Init
<1>5. now = None
  BY DEF Init
<1>. QED
  BY <1>1, <1>2, <1>3, <1>4, <1>5 DEF TypeOK, TimeShown, Rows, Cells

\* A byte of the mouse.
LEMMA MouseTypes ==
    ASSUME TimeInv, NEW byte \in [left : BOOLEAN, right : BOOLEAN], Mouse(byte)
    PROVE  TimeInv'
<1>1. bar \in Rows /\ randomizer \in 0 .. 9 /\ HZ \in Nat /\ AckBytes \in Nat
  BY StatusBarAssumption DEF TimeInv, TypeOK, Rows, Cells
<1>2. Presses(byte) \in {<<>>, <<randomizer>>, <<10>>, <<randomizer, 10>>}
  <2>1. <<>> \o <<>> = <<>> /\ <<randomizer>> \o <<>> = <<randomizer>>
        /\ <<>> \o <<10>> = <<10>>
    OBVIOUS
  <2>2. <<randomizer>> \o <<10>> = <<randomizer, 10>>
    BY PairOf
  <2>. QED
    BY <2>1, <2>2 DEF Presses
<1>3. Presses(byte) # <<>> => Last(Presses(byte)) \in Texts
  <2>1. /\ \A x : Last(<<x>>) = x
        /\ \A x, y : Last(<<x, y>>) = y
    BY DEF Last
  <2>2. randomizer \in Texts /\ 10 \in Texts
    BY <1>1 DEF Texts
  <2>. QED
    BY <1>2, <2>1, <2>2
<1>4. \/ UNCHANGED <<bar, delay, since, said>>
      \/ \E s \in Texts : /\ bar' = MessagePut(bar, s) /\ delay' = 3 * HZ
                          /\ since' = 0 /\ said' = s
  <2>1. CASE i = 0 /\ Presses(byte) # <<>>
    BY <1>3, <2>1 DEF Mouse, MouseHandler, DelayAfterPress
  <2>2. CASE ~(i = 0 /\ Presses(byte) # <<>>)
    BY <2>2 DEF Mouse, MouseHandler
  <2>. QED
    BY <2>1, <2>2
<1>5. /\ bar' \in Rows /\ SameTime(bar, bar')
      /\ delay' \in 0 .. 3 * HZ /\ since' \in 0 .. 3 * HZ /\ said' \in Texts
  <2>1. CASE UNCHANGED <<bar, delay, since, said>>
    BY <1>1, <2>1 DEF TimeInv, TypeOK, SameTime
  <2>2. ASSUME NEW s \in Texts, bar' = MessagePut(bar, s), delay' = 3 * HZ,
               since' = 0, said' = s
        PROVE  /\ bar' \in Rows /\ SameTime(bar, bar')
               /\ delay' \in 0 .. 3 * HZ /\ since' \in 0 .. 3 * HZ /\ said' \in Texts
    <3>1. bar' \in Rows /\ SameTime(bar, bar')
      BY <1>1, <2>2, MessageRow
    <3>. QED
      BY <1>1, <2>2, <3>1
  <2>. QED
    BY <1>4, <2>1, <2>2
<1>6. i' \in -1 .. 2 /\ phase' \in -AckBytes .. 2
  BY <1>1 DEF TimeInv, TypeOK, Mouse, MouseHandler, IndexAfter
<1>7. left_btn' \in BOOLEAN /\ right_btn' \in BOOLEAN
      /\ buttons' \in [left : BOOLEAN, right : BOOLEAN]
  <2>1. byte.left \in BOOLEAN /\ byte.right \in BOOLEAN
    OBVIOUS
  <2>. QED
    BY <2>1 DEF TimeInv, TypeOK, Mouse, MouseHandler
<1>8. UNCHANGED <<visible_term, rtc_count, randomizer, now>>
  BY DEF Mouse, clock
<1>9. TypeOK'
  BY <1>5, <1>6, <1>7, <1>8 DEF TimeInv, TypeOK, Rows, Cells
<1>10. TimeShown => TimeShown'
  BY <1>5, <1>8, SameTimeShows DEF TimeShown
<1>. QED
  BY <1>9, <1>10 DEF TimeInv

\* An interrupt of the clock, after the row has the time.
LEMMA ElapseTypes ==
    ASSUME TypeOK, NEW row \in Rows, Elapse(row)
    PROVE  /\ bar' \in Rows /\ SameTime(row, bar')
           /\ randomizer' \in 0 .. 9 /\ now' \in Times \cup {None} => TypeOK'
<1>1. /\ HZ \in Nat \ {0, 1} /\ rtc_count \in 0 .. HZ - 1
      /\ delay \in 0 .. 3 * HZ /\ since \in 0 .. 3 * HZ
  BY StatusBarAssumption DEF TypeOK
<1>2. /\ rtc_count' = (rtc_count + 1) % HZ
      /\ delay' = IF delay > 0 THEN delay - 1 ELSE delay
      /\ since' = IF since < 3 * HZ THEN since + 1 ELSE since
      /\ bar' = IF delay' = ErasedAt THEN Erased(row) ELSE row
      /\ UNCHANGED <<visible_term, i, left_btn, right_btn, phase, buttons, said>>
  BY DEF Elapse, Count, CountDown, mouse
<1>3. bar' \in Rows /\ SameTime(row, bar')
  <2>1. SameTime(row, row)
    BY DEF SameTime
  <2>. QED
    BY <1>2, <2>1, ErasedRow
<1>4. /\ rtc_count' \in 0 .. HZ - 1
      /\ delay' \in 0 .. 3 * HZ /\ since' \in 0 .. 3 * HZ
  BY <1>1, <1>2
<1>5. ASSUME randomizer' \in 0 .. 9, now' \in Times \cup {None}
      PROVE  TypeOK'
  BY <1>2, <1>3, <1>4, <1>5 DEF TypeOK, Rows, Cells
<1>. QED
  BY <1>3, <1>5

LEMMA RandomizerType ==
    ASSUME NEW t \in Instants
    PROVE  Randomizer(t) \in 0 .. 9
<1>. DEFINE x == t.sec * 20 + t.min * 10 + t.hr
            d == t.day
<1>1. x \in Nat /\ d \in Nat \ {0}
  <2>1. t.sec \in Nat /\ t.min \in Nat /\ t.hr \in Nat /\ t.day \in Nat \ {0}
    BY DEF Instants
  <2>. QED
    BY <2>1
<1>. HIDE DEF x, d
<1>2. x \div d \in Int
  BY <1>1
<1>3. (x \div d) % 10 \in 0 .. 9
  BY <1>2
<1>. QED
  BY <1>3 DEF Randomizer, x, d

LEMMA TickTypes == TimeInv /\ Tick => TimeInv'
<1>. SUFFICES ASSUME TimeInv, Tick PROVE TimeInv'
  OBVIOUS
<1>1. Elapse(bar) /\ UNCHANGED <<randomizer, now>> /\ bar \in Rows
  BY DEF Tick, TimeInv, TypeOK, Rows, Cells
<1>2. TypeOK' /\ SameTime(bar, bar')
  BY <1>1, ElapseTypes DEF TimeInv, TypeOK
<1>3. TimeShown => TimeShown'
  BY <1>1, <1>2, SameTimeShows DEF TimeShown
<1>. QED
  BY <1>2, <1>3 DEF TimeInv

LEMMA SecondTypes == TimeInv /\ Second => TimeInv'
<1>. SUFFICES ASSUME TimeInv, Second PROVE TimeInv'
  OBVIOUS
<1>1. PICK before \in Times, after \in Times, n \in 0 .. 6 :
         /\ n = 6 => after = before
         /\ n # 6 => TornReads
         /\ PrintTime(TimePut(bar, Registers(before, after, n)), before, after, n)
         /\ Elapse(TimePut(bar, Registers(before, after, n)))
  BY DEF Second
<1>. DEFINE t == Registers(before, after, n)
            row == TimePut(bar, t)
<1>2. /\ randomizer' = Randomizer(t) /\ now' = before /\ Elapse(row)
  BY <1>1 DEF PrintTime
<1>3. /\ t \in Instants
      /\ ~TornReads => t = before
  BY <1>1, RegistersRead
<1>. HIDE DEF t
<1>4. row \in Rows /\ Shows(row, Central(t))
  BY <1>3, TimePutShows DEF TimeInv, TypeOK, Rows, Cells
<1>. HIDE DEF row
<1>5. randomizer' \in 0 .. 9 /\ now' \in Times
  BY <1>2, <1>3, RandomizerType
<1>6. TypeOK' /\ SameTime(row, bar')
  BY <1>2, <1>4, <1>5, ElapseTypes DEF TimeInv
<1>7. Shows(bar', Central(t))
  BY <1>4, <1>6, SameTimeShows
<1>8. ~TornReads => TimeShown'
  BY <1>2, <1>3, <1>7 DEF TimeShown
<1>. QED
  BY <1>6, <1>8 DEF TimeInv

LEMMA SwitchTypes ==
    ASSUME TimeInv, NEW t \in 0 .. NUM_TTYS - 1, Switch(t)
    PROVE  TimeInv'
<1>1. /\ visible_term' = t /\ bar' = LabelDigit(bar, t)
      /\ UNCHANGED <<delay, since, i, left_btn, right_btn, phase, buttons, said,
                     rtc_count, randomizer, now>>
  BY DEF Switch, mouse, clock
<1>2. bar' \in Rows /\ SameTime(bar, bar')
  BY <1>1, LabelRow DEF TimeInv, TypeOK, Rows, Cells
<1>3. TypeOK'
  BY <1>1, <1>2 DEF TimeInv, TypeOK, Rows, Cells
<1>4. TimeShown => TimeShown'
  BY <1>1, <1>2, SameTimeShows DEF TimeShown
<1>. QED
  BY <1>3, <1>4 DEF TimeInv

LEMMA TimeStep == TimeInv /\ [Next]_vars => TimeInv'
<1>. SUFFICES ASSUME TimeInv, [Next]_vars PROVE TimeInv'
  OBVIOUS
<1>1. ASSUME NEW byte \in [left : BOOLEAN, right : BOOLEAN], Mouse(byte) PROVE TimeInv'
  BY <1>1, MouseTypes
<1>2. CASE Tick \/ Second
  BY <1>2, TickTypes, SecondTypes
<1>3. ASSUME NEW t \in 0 .. NUM_TTYS - 1, Switch(t) PROVE TimeInv'
  BY <1>3, SwitchTypes
<1>4. CASE UNCHANGED vars
  BY <1>4 DEF vars, mouse, clock, TimeInv, TypeOK, TimeShown
<1>. QED
  BY <1>1, <1>2, <1>3, <1>4 DEF Next

\* The clock is not read before six on the first of a month, when it is still the
\* month before in Central time.
NoFirstMorning == \A t \in Times : t.hr < 6 => t.day > 1

\* On every other morning the code's conversion is that of the calendar.
LEMMA CentralAgrees ==
    ASSUME NEW t \in Instants, t.hr < 6 => t.day > 1
    PROVE  LET u == Central(t)
               ct == CentralStandard(t)
           IN  /\ u.sec = ct.sec /\ u.min = ct.min /\ u.hr = ct.hr
               /\ u.day = ct.day /\ u.mon = ct.mon /\ u.yr = ct.yr
<1>1. t.hr \in 0 .. 23 /\ t.day \in 1 .. 31
  BY DEF Instants
<1>2. CASE t.hr < 6
  <2>1. DayBefore(t) = [t EXCEPT !.day = t.day - 1]
    BY <1>1, <1>2 DEF DayBefore
  <2>2. CentralStandard(t) = [[t EXCEPT !.day = t.day - 1] EXCEPT !.hr = t.hr + 18]
    BY <1>2, <2>1 DEF CentralStandard
  <2>3. Central(t) = [t EXCEPT !.hr = t.hr + 18, !.day = t.day - 1]
    BY <1>1, <1>2 DEF Central
  <2>. QED
    BY <2>2, <2>3 DEF Instants
<1>3. CASE ~(t.hr < 6)
  <2>1. CentralStandard(t) = [t EXCEPT !.hr = t.hr - 6]
    BY <1>3 DEF CentralStandard
  <2>2. Central(t) = [t EXCEPT !.hr = t.hr - 6]
    BY <1>1, <1>3 DEF Central
  <2>. QED
    BY <2>1, <2>2
<1>. QED
  BY <1>2, <1>3

LEMMA ShownIsCentral ==
    ASSUME TypeOK, TimeShown, NoFirstMorning
    PROVE  TimeIsCentral
<1>. SUFFICES ASSUME now # None PROVE TimeIsCentral
  BY DEF TimeIsCentral
<1>1. now \in Times
  BY DEF TypeOK
<1>2. now \in Instants /\ (now.hr < 6 => now.day > 1)
  BY <1>1, StatusBarAssumption DEF Instants, NoFirstMorning
<1>3. Shows(bar, Central(now))
  BY DEF TimeShown
<1>. DEFINE u == Central(now)
            ct == CentralStandard(now)
<1>4. /\ u.sec = ct.sec /\ u.min = ct.min /\ u.hr = ct.hr
      /\ u.day = ct.day /\ u.mon = ct.mon /\ u.yr = ct.yr
  BY <1>2, CentralAgrees
<1>5. Shows(bar, u)
  BY <1>3
<1>. HIDE DEF u, ct
<1>6. /\ DigitsAt(bar, 63, ct.day) /\ DigitsAt(bar, 66, ct.mon) /\ DigitsAt(bar, 69, ct.yr)
      /\ DigitsAt(bar, 72, ct.hr) /\ DigitsAt(bar, 75, ct.min) /\ DigitsAt(bar, 78, ct.sec)
  BY <1>4, <1>5 DEF Shows
<1>. QED
  BY <1>6 DEF TimeIsCentral, DigitsAt, ct

\* The row, the counters and what the handlers remember keep their types, whatever
\* the clock says while print_time reads it.
THEOREM TypeCorrect == Spec => []TypeOK
<1>1. Init => TimeInv
  BY TypeInit DEF TimeInv
<1>2. TimeInv => TypeOK
  BY DEF TimeInv
<1>. QED
  BY <1>1, <1>2, TimeStep, PTL DEF Spec

\* print_time, itoa, status_puts: the row shows Central Standard Time at the second
\* that was last read in two digits each, whatever messages are put and erased and
\* whatever terminals are switched to in between.  It does not if the clock advances
\* while its registers are read, nor before six on the first of a month, where the
\* code leaves a day zero of the wrong month.
THEOREM RowShowsCentralTime ==
    ASSUME ~TornReads, NoFirstMorning
    PROVE  Spec => []TimeIsCentral
<1>1. Init => TimeInv
  BY TypeInit DEF TimeInv
<1>2. TimeInv => TimeIsCentral
  BY ShownIsCentral DEF TimeInv
<1>. QED
  BY <1>1, <1>2, TimeStep, PTL DEF Spec
=============================================================================
