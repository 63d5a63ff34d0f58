----------------------------- MODULE Rtc_proofs -----------------------------
(***************************************************************************)
(* That no read of a virtual clock is over before its period, for any      *)
(* number of terminals, any rate of the device and any frequencies; that   *)
(* processes which execute each other change nothing in that; and that     *)
(* they keep the frequencies they were granted.                            *)
(***************************************************************************)
EXTENDS Clocks, TLAPS

\* What a process was last granted is the frequency of its terminal.
FrequencyAsAsked == asked = rtc_freq

\* The interrupts a read has seen and those its countdown still wants make up
\* its period, or there were more.
CountdownCovers ==
    \A t \in Terms :
        reading[t] => /\ rtc_freq[t] # 0
                      /\ waited[t] + rtc_counter[t] >= Period(t)

Inv == TypeOK /\ FrequencyAsAsked /\ CountdownCovers

\* A period is a number of interrupts that the counter holds.
LEMMA PeriodInRange ==
    ASSUME NEW f \in Nat \ {0}
    PROVE  HZ \div f \in 0 .. HZ
<1>1. /\ HZ \in Nat
      /\ HZ \div f \in Int
      /\ f * (HZ \div f) <= HZ
      /\ HZ < f * (HZ \div f) + f
  BY SMT, RtcAssumption
<1> DEFINE q == HZ \div f
<1> HIDE DEF q
<1>2. q >= 0
  <2>1. SUFFICES ASSUME q <= -1 PROVE FALSE
    BY <1>1, SMT DEF q
  <2>2. f * q <= f * (-1)
    BY <1>1, <2>1, SMT DEF q
  <2>3. QED
    BY <1>1, <2>2, SMT DEF q
<1>3. q <= HZ
  <2>1. SUFFICES ASSUME q > HZ PROVE FALSE
    BY <1>1, SMT DEF q
  <2>2. f * q >= 1 * q
    BY <1>1, <1>2, SMT DEF q
  <2>3. QED
    BY <1>1, <2>1, <2>2, SMT DEF q
<1>4. QED
  BY <1>1, <1>2, <1>3 DEF q

\* The scheduler's next terminal is a terminal.
LEMMA NextIsTerm ==
    ASSUME NEW t \in Terms
    PROVE  (t + 1) % NUM_TTYS \in Terms
BY RtcAssumption DEF Terms

LEMMA FrequencyIsNumber ==
    ASSUME TypeOK, NEW t \in Terms
    PROVE  rtc_freq[t] \in Nat
<1>1. rtc_freq[t] \in {0, 2} \cup Frequencies
  BY DEF TypeOK
<1>2. Frequencies \subseteq Nat
  BY RtcAssumption
<1>3. CASE rtc_freq[t] \in Frequencies
  BY <1>2, <1>3, Zenon
<1>4. CASE rtc_freq[t] \in {0, 2}
  BY <1>4
<1>5. QED
  BY <1>1, <1>3, <1>4

LEMMA InvInit == Init => Inv
<1>1. HZ \in Nat \ {0, 1}
  BY RtcAssumption
<1>2. QED
  BY <1>1 DEF Init, Inv, TypeOK, FrequencyAsAsked, CountdownCovers

\* An accepted write or an open: nobody of that terminal is reading.
LEMMA GrantKeeps ==
    ASSUME Inv, NEW f \in {0, 2} \cup Frequencies, Grant(f)
    PROVE  Inv'
<1>1. PICK t \in Terms : /\ Running(t)
                         /\ rtc_freq' = [rtc_freq EXCEPT ![t] = f]
                         /\ asked' = [asked EXCEPT ![t] = f]
                         /\ opened' = [opened EXCEPT ![t] = TRUE]
                         /\ UNCHANGED <<rtc_counter, scheduled_term, reading, waited>>
  BY DEF Grant, SetFreq, Running
<1>2. TypeOK'
  BY <1>1 DEF Inv, TypeOK
<1>3. FrequencyAsAsked'
  BY <1>1 DEF Inv, FrequencyAsAsked
<1>4. CountdownCovers'
  <2>1. SUFFICES ASSUME NEW u \in Terms, reading[u]
                 PROVE  /\ rtc_freq'[u] # 0
                        /\ waited[u] + rtc_counter[u] >= HZ \div rtc_freq'[u]
    BY <1>1 DEF CountdownCovers, Period
  <2>2. rtc_freq'[u] = rtc_freq[u]
    BY <1>1, <2>1 DEF Running, Inv, TypeOK
  <2>3. QED
    BY <2>1, <2>2 DEF Inv, CountdownCovers, Period
<1>5. QED
  BY <1>2, <1>3, <1>4 DEF Inv

LEMMA ReadCallKeeps == Inv /\ ReadCall => Inv'
<1>1. SUFFICES ASSUME Inv, ReadCall PROVE Inv'
  OBVIOUS
<1>2. PICK t \in Terms :
        /\ rtc_freq[t] # 0
        /\ rtc_counter' = [rtc_counter EXCEPT ![t] = Period(t)]
        /\ reading' = [reading EXCEPT ![t] = TRUE]
        /\ waited' = [waited EXCEPT ![t] = 0]
        /\ UNCHANGED <<rtc_freq, scheduled_term, opened, asked>>
  BY <1>1 DEF ReadCall
<1>3. rtc_freq[t] \in Nat \ {0}
  BY <1>1, <1>2, FrequencyIsNumber DEF Inv
<1>4. Period(t) \in 0 .. HZ
  BY <1>3, PeriodInRange DEF Period
<1>5. TypeOK'
  BY <1>1, <1>2, <1>4, RtcAssumption DEF Inv, TypeOK
<1>6. CountdownCovers'
  <2>1. SUFFICES ASSUME NEW u \in Terms, reading'[u]
                 PROVE  /\ rtc_freq[u] # 0
                        /\ waited'[u] + rtc_counter'[u] >= Period(u)
    BY <1>2 DEF CountdownCovers, Period
  <2>2. CASE u = t
    BY <1>1, <1>2, <1>4, <2>2, RtcAssumption DEF Inv, TypeOK
  <2>3. CASE u # t
    BY <1>1, <1>2, <2>1, <2>3 DEF Inv, TypeOK, CountdownCovers
  <2>4. QED
    BY <2>2, <2>3
<1>7. QED
  BY <1>1, <1>2, <1>5, <1>6 DEF Inv, FrequencyAsAsked

\* An interrupt counts for every read, and against every countdown that is not
\* over.
LEMMA TickKeeps == Inv /\ Tick => Inv'
<1>1. SUFFICES ASSUME Inv, Tick PROVE Inv'
  OBVIOUS
<1>2. HZ \in Nat
  BY RtcAssumption
<1>3. TypeOK'
  BY <1>1, <1>2 DEF Inv, TypeOK, Tick, CountDown
<1>4. CountdownCovers'
  <2>1. SUFFICES ASSUME NEW u \in Terms, reading[u]
                 PROVE  /\ rtc_freq[u] # 0
                        /\ waited'[u] + rtc_counter'[u] >= Period(u)
    BY <1>1 DEF Tick, CountdownCovers, Period
  <2>2. rtc_freq[u] \in Nat \ {0} /\ waited[u] + rtc_counter[u] >= Period(u)
    BY <1>1, <2>1, FrequencyIsNumber DEF Inv, CountdownCovers
  <2>3. Period(u) \in 0 .. HZ
    BY <2>2, PeriodInRange DEF Period
  <2>4. /\ waited[u] \in 0 .. HZ
        /\ rtc_counter[u] \in 0 .. HZ
        /\ rtc_counter'[u] = IF rtc_counter[u] # 0 THEN rtc_counter[u] - 1 ELSE rtc_counter[u]
        /\ waited'[u] = IF waited[u] < HZ THEN waited[u] + 1 ELSE waited[u]
    BY <1>1, <2>1 DEF Inv, TypeOK, Tick, CountDown
  <2>5. QED
    BY <1>2, <2>2, <2>3, <2>4
<1>5. QED
  BY <1>1, <1>3, <1>4 DEF Inv, Tick, FrequencyAsAsked

\* A read that ends, a process that leaves, the next slice: no frequency, no
\* countdown and no read that goes on is touched.
LEMMA OthersKeep == Inv /\ (ReadReturn \/ Another \/ Switch) => Inv'
<1>1. SUFFICES ASSUME Inv, ReadReturn \/ Another \/ Switch PROVE Inv'
  OBVIOUS
<1>2. TypeOK'
  BY <1>1, NextIsTerm DEF Inv, TypeOK, ReadReturn, Another, Switch
<1>3. \A t \in Terms : reading'[t] => reading[t]
  BY <1>1 DEF Inv, TypeOK, ReadReturn, Another, Switch
<1>4. UNCHANGED <<rtc_freq, rtc_counter, asked, waited>>
  BY <1>1 DEF ReadReturn, Another, Switch
<1>5. QED
  BY <1>1, <1>2, <1>3, <1>4 DEF Inv, FrequencyAsAsked, CountdownCovers, Period

\* The countdown invariant is inductive.
LEMMA InvStep == Inv /\ [Next]_vars => Inv'
<1>1. SUFFICES ASSUME Inv, [Next]_vars PROVE Inv'
  OBVIOUS
<1>2. CASE Open
  BY <1>1, <1>2, GrantKeeps DEF Open
<1>3. ASSUME NEW f \in Frequencies, Write(f) PROVE Inv'
  BY <1>1, <1>3, GrantKeeps DEF Write
<1>4. CASE ReadCall
  BY <1>1, <1>4, ReadCallKeeps
<1>5. CASE Tick
  BY <1>1, <1>5, TickKeeps
<1>6. CASE ReadReturn \/ Another \/ Switch
  BY <1>1, <1>6, OthersKeep
<1>7. CASE UNCHANGED vars
  BY <1>1, <1>7 DEF vars, Inv, TypeOK, FrequencyAsAsked, CountdownCovers, Period
<1>8. QED
  BY <1>1, <1>2, <1>3, <1>4, <1>5, <1>6, <1>7 DEF Next

\* Every variable keeps its type: a countdown is never negative and never more
\* than a second, whatever frequencies processes ask for.
THEOREM TypeCorrect == Spec => []TypeOK
<1>1. Inv => TypeOK
  BY DEF Inv
<1>2. QED
  BY <1>1, InvInit, InvStep, PTL DEF Spec

\* A step that ends a read ends one whose countdown is at zero.
LEMMA ReadEnds ==
    ASSUME Inv, [Next]_vars, NEW t \in Terms, reading[t], ~reading'[t]
    PROVE  rtc_counter[t] = 0
<1>1. CASE ReadReturn
  BY <1>1 DEF Inv, TypeOK, ReadReturn
<1>2. CASE ReadCall
  BY <1>2 DEF Inv, TypeOK, ReadCall
<1>3. QED
  BY <1>1, <1>2 DEF Next, vars, Open, Write, Grant, Another, Tick, Switch

\* rtc_read: a read takes at least the period of the frequency its process was
\* granted, whatever other terminals ask for, read and count down meanwhile.
THEOREM ReadsTakeTheirTime == Spec => ReadsLastTheirPeriod
<1>1. Inv /\ [Next]_vars =>
        [\A t \in Terms :
            reading[t] /\ ~reading'[t] => waited[t] >= HZ \div asked[t]]_vars
  <2>1. SUFFICES ASSUME Inv, [Next]_vars, NEW t \in Terms, reading[t], ~reading'[t]
                 PROVE  waited[t] >= HZ \div asked[t]
    OBVIOUS
  <2>2. rtc_counter[t] = 0
    BY <2>1, ReadEnds
  <2>3. waited[t] \in 0 .. HZ
    BY <2>1 DEF Inv, TypeOK
  <2>4. waited[t] + rtc_counter[t] >= HZ \div asked[t]
    BY <2>1 DEF Inv, CountdownCovers, FrequencyAsAsked, Period
  <2>5. QED
    BY <2>2, <2>3, <2>4, RtcAssumption
<1>2. QED
  BY <1>1, InvInit, InvStep, PTL DEF Spec, ReadsLastTheirPeriod
-----------------------------------------------------------------------------
(***************************************************************************)
(* The clocks of processes that execute each other (Clocks).               *)
(***************************************************************************)

Granting == {0, 2} \cup Frequencies

Records == [opened : BOOLEAN, own : Granting, altered : BOOLEAN]

StackTypes ==
    /\ jobs \in [Terms -> Seq(Slots)]
    /\ kept \in [Slots -> Records]
    /\ own \in [Terms -> Granting]
    /\ altered \in [Terms -> BOOLEAN]

\* A terminal without a process has no clock open.
EmptyIsClosed == \A t \in Terms : jobs[t] = <<>> => ~opened[t]

\* A process is in one place of one stack.
PlacesDiffer ==
    \A t, u \in Terms : \A i \in 1 .. Len(jobs[t]), j \in 1 .. Len(jobs[u]) :
        jobs[t][i] = jobs[u][j] => t = u /\ i = j

\* What belongs to the i-th process of t's stack.
Record(t, i) == IF i = Len(jobs[t]) THEN OfTop(t) ELSE kept[jobs[t][i]]

Untouched(record) == ~record.opened /\ ~record.altered

\* No program above the i-th process of t's stack has opened the clock.
CleanAbove(t, i) == \A j \in i + 1 .. Len(jobs[t]) : Untouched(Record(t, j))

\* FrequencyIsOwn for every process of the stack, the waiting ones included:
\* it would hold of each if those above it ended now.
FrequencyIsKept ==
    \A t \in Terms : \A i \in 1 .. Len(jobs[t]) :
        Record(t, i).opened /\ ~Record(t, i).altered /\ CleanAbove(t, i)
           => rtc_freq[t] = Record(t, i).own

StacksInv ==
    /\ StackTypes
    /\ EmptyIsClosed
    /\ PlacesDiffer
    /\ FrequencyIsKept

LEMMA FreshIsRecord == Fresh \in Records
BY DEF Fresh, Records, Granting

LEMMA TopIsRecord ==
    ASSUME TypeOK, StackTypes, NEW t \in Terms
    PROVE  OfTop(t) \in Records
BY DEF TypeOK, StackTypes, OfTop, Records

\* The process on top of a terminal's stack changes: to the clocks that is
\* Another, or nothing.
LEMMA BecomesAnother ==
    ASSUME TypeOK, Running(scheduled_term), NEW record \in Records,
           Becomes(scheduled_term, record), UNCHANGED scheduled_term
    PROVE  [Next]_vars
<1> DEFINE t == scheduled_term
<1>1. /\ t \in Terms
      /\ opened \in [Terms -> BOOLEAN]
  BY DEF TypeOK
<1>2. /\ opened' = [opened EXCEPT ![t] = record.opened]
      /\ UNCHANGED <<rtc_freq, rtc_counter, scheduled_term, reading, asked, waited>>
  BY DEF Becomes, FrequencyAfter
<1>3. record.opened \in BOOLEAN
  BY DEF Records
<1>4. CASE record.opened = opened[t]
  BY <1>1, <1>2, <1>4 DEF vars
<1>5. CASE record.opened = ~opened[t]
  BY <1>1, <1>2, <1>5 DEF Next, Another
<1>6. QED
  BY <1>1, <1>3, <1>4, <1>5

\* execute, halt, and the calls and interrupts of the clock itself: each is a
\* step of Rtc or none of its business.
LEMMA StepIsRtc ==
    ASSUME TypeOK, StackTypes, [ClocksNext]_clockVars
    PROVE  [Next]_vars
<1>1. ASSUME NEW p \in Slots, Execute(p) PROVE [Next]_vars
  BY <1>1, BecomesAnother, FreshIsRecord DEF Execute, Stacks!Start
<1>2. CASE Halt
  <2> DEFINE t == scheduled_term
             parent == jobs[t][Len(jobs[t]) - 1]
             record == [kept[parent] EXCEPT !.altered = @ \/ opened[t] \/ altered[t]]
  <2>1. t \in Terms /\ Len(jobs[t]) > 1 /\ jobs[t] \in Seq(Slots)
    BY <1>2 DEF Halt, Stacks!End, TypeOK, StackTypes
  <2>2. parent \in Slots
    BY <2>1
  <2>3. record \in Records
    BY <2>1, <2>2 DEF StackTypes, Records, TypeOK
  <2>4. QED
    BY <1>2, <2>3, BecomesAnother DEF Halt, Stacks!End
<1>3. CASE HaltShell
  BY <1>3, BecomesAnother, FreshIsRecord DEF HaltShell
<1>4. CASE Granted
  BY <1>4 DEF Granted, Next
<1>5. CASE ReadOrCount
  BY <1>5 DEF ReadOrCount, Next
<1>6. CASE NextSlice
  BY <1>6 DEF NextSlice, Next
<1>7. CASE UNCHANGED clockVars
  BY <1>7 DEF clockVars, vars
<1>8. QED
  BY <1>1, <1>2, <1>3, <1>4, <1>5, <1>6, <1>7 DEF ClocksNext

LEMMA StacksInit == ClocksInit => StacksInv
<1>1. SUFFICES ASSUME ClocksInit PROVE StacksInv
  OBVIOUS
<1>2. jobs = [t \in Terms |-> <<>>]
  BY <1>1 DEF ClocksInit, Stacks!Init, Stacks!Terminals, Terms
<1>3. StackTypes
  BY <1>1, <1>2, FreshIsRecord DEF ClocksInit, StackTypes, Granting
<1>4. EmptyIsClosed
  BY <1>1 DEF ClocksInit, Init, EmptyIsClosed
<1>5. PlacesDiffer /\ FrequencyIsKept
  BY <1>2 DEF PlacesDiffer, FrequencyIsKept
<1>6. QED
  BY <1>3, <1>4, <1>5 DEF StacksInv

\* execute: the process that had the terminal keeps its record, the new one
\* starts without the clock, and no other record changes.
LEMMA ExecuteKeeps ==
    ASSUME TypeOK, StacksInv, NEW p \in Slots, Execute(p)
    PROVE  StacksInv'
<1>0. PICK t, n : t = scheduled_term /\ n = Len(jobs[t])
  OBVIOUS
<1>1. /\ t = scheduled_term
      /\ n = Len(jobs[t])
      /\ t \in Terms
      /\ jobs \in [Terms -> Seq(Slots)]
      /\ kept \in [Slots -> Records]
      /\ own \in [Terms -> Granting]
      /\ altered \in [Terms -> BOOLEAN]
      /\ opened \in [Terms -> BOOLEAN]
  BY <1>0 DEF TypeOK, StacksInv, StackTypes
<1>2. /\ jobs' = [jobs EXCEPT ![t] = Append(jobs[t], p)]
      /\ \A u \in Terms : p \notin ToSet(jobs[u])
      /\ kept' = IF jobs[t] = <<>> THEN kept ELSE [kept EXCEPT ![Top(t)] = OfTop(t)]
      /\ opened' = [opened EXCEPT ![t] = FALSE]
      /\ own' = [own EXCEPT ![t] = 0]
      /\ altered' = [altered EXCEPT ![t] = FALSE]
      /\ rtc_freq' = rtc_freq
  <2>1. /\ Stacks!Start(p)
        /\ Becomes(t, Fresh)
        /\ kept' = IF jobs[t] = <<>> THEN kept ELSE [kept EXCEPT ![Top(t)] = OfTop(t)]
    BY <1>0 DEF Execute
  <2>2. /\ jobs' = [jobs EXCEPT ![t] = Append(jobs[t], p)]
        /\ \A u \in Terms : p \notin ToSet(jobs[u])
    BY <1>0, <2>1 DEF Stacks!Start, Stacks!Unused, Stacks!Terminals, Terms, ToSet, Stacks!ToSet
  <2>3. /\ opened' = [opened EXCEPT ![t] = FALSE]
        /\ own' = [own EXCEPT ![t] = 0]
        /\ altered' = [altered EXCEPT ![t] = FALSE]
        /\ rtc_freq' = rtc_freq
    BY <2>1 DEF Becomes, Fresh, FrequencyAfter
  <2>4. QED
    BY <2>1, <2>2, <2>3
<1>3. /\ n \in Nat
      /\ jobs'[t] = Append(jobs[t], p)
      /\ Len(jobs'[t]) = n + 1
      /\ jobs'[t][n + 1] = p
      /\ \A i \in 1 .. n : jobs'[t][i] = jobs[t][i]
      /\ \A u \in Terms \ {t} : jobs'[u] = jobs[u]
  BY <1>0, <1>1, <1>2
<1>4. \A u \in Terms : \A i \in 1 .. Len(jobs[u]) : jobs[u][i] \in Slots /\ jobs[u][i] # p
  BY <1>1, <1>2 DEF ToSet
<1> \A u \in Terms : \A i \in 1 .. Len(jobs[u]) : jobs'[u][i] = jobs[u][i]
  BY <1>1, <1>3
<1>5. StackTypes'
  <2>1. jobs' \in [Terms -> Seq(Slots)]
    BY <1>1, <1>2
  <2>2. kept' \in [Slots -> Records]
    BY <1>1, <1>2, TopIsRecord DEF StacksInv
  <2>3. own' \in [Terms -> Granting] /\ altered' \in [Terms -> BOOLEAN]
    BY <1>1, <1>2 DEF Granting
  <2>4. QED
    BY <2>1, <2>2, <2>3 DEF StackTypes
<1>6. EmptyIsClosed'
  BY <1>1, <1>2, <1>3 DEF StacksInv, EmptyIsClosed
<1>7. PlacesDiffer'
  <2>1. SUFFICES ASSUME NEW u \in Terms, NEW v \in Terms,
                        NEW i \in 1 .. Len(jobs'[u]), NEW j \in 1 .. Len(jobs'[v]),
                        jobs'[u][i] = jobs'[v][j]
                 PROVE  u = v /\ i = j
    BY DEF PlacesDiffer
  <2>2. CASE i \in 1 .. Len(jobs[u]) /\ j \in 1 .. Len(jobs[v])
    BY <2>1, <2>2 DEF StacksInv, PlacesDiffer
  <2>3. ASSUME i \notin 1 .. Len(jobs[u]) PROVE u = t /\ i = n + 1 /\ jobs'[u][i] = p
    BY <1>1, <1>3, <2>3
  <2>4. ASSUME j \notin 1 .. Len(jobs[v]) PROVE v = t /\ j = n + 1 /\ jobs'[v][j] = p
    BY <1>1, <1>3, <2>4
  <2>5. ASSUME i \in 1 .. Len(jobs[u]) PROVE jobs'[u][i] # p
    BY <1>3, <1>4, <2>5
  <2>6. ASSUME j \in 1 .. Len(jobs[v]) PROVE jobs'[v][j] # p
    BY <1>3, <1>4, <2>6
  <2>7. QED
    BY <2>1, <2>2, <2>3, <2>4, <2>5, <2>6
<1>8. \A u \in Terms : \A i \in 1 .. Len(jobs[u]) : Record(u, i)' = Record(u, i)
  <2>1. SUFFICES ASSUME NEW u \in Terms, NEW i \in 1 .. Len(jobs[u])
                 PROVE  Record(u, i)' = Record(u, i)
    OBVIOUS
  <2>2. jobs'[u][i] = jobs[u][i]
    BY <1>3
  <2>3. CASE u = t /\ i = n
    <3>1. n \in 1 .. n /\ jobs[t] # <<>>
      BY <2>3
    <3>2. Top(t) \in Slots /\ Top(t) = jobs[t][n]
      BY <1>1, <1>4, <3>1 DEF Top
    <3>3. Record(u, i)' = kept'[jobs[t][n]]
      BY <1>3, <2>2, <2>3 DEF Record
    <3>4. QED
      BY <1>1, <1>2, <2>3, <3>1, <3>2, <3>3 DEF Record
  <2>4. CASE ~(u = t /\ i = n)
    <3>1. kept'[jobs[u][i]] = kept[jobs[u][i]]
      <4>1. CASE jobs[t] = <<>>
        BY <1>2, <4>1
      <4>2. CASE jobs[t] # <<>>
        <5>1. n \in 1 .. n
          BY <1>1, <1>3, <4>2
        <5>2. jobs[u][i] # Top(t)
          BY <1>1, <2>4, <5>1 DEF StacksInv, PlacesDiffer, Top
        <5>3. QED
          BY <1>1, <1>2, <1>4, <5>2
      <4>3. QED
        BY <4>1, <4>2
    <3>2. CASE u # t
      BY <1>1, <1>2, <1>3, <3>1, <3>2 DEF Record, OfTop
    <3>3. CASE u = t
      BY <1>1, <1>3, <2>2, <2>4, <3>1, <3>3 DEF Record
    <3>4. QED
      BY <3>2, <3>3
  <2>5. QED
    BY <2>3, <2>4
<1>9. Record(t, n + 1)'.opened = FALSE
  BY <1>1, <1>2, <1>3 DEF Record, OfTop
<1>10. FrequencyIsKept'
  <2>1. SUFFICES ASSUME NEW u \in Terms, NEW i \in 1 .. Len(jobs'[u]),
                        Record(u, i)'.opened, ~Record(u, i)'.altered, CleanAbove(u, i)'
                 PROVE  rtc_freq[u] = Record(u, i)'.own
    BY <1>2 DEF FrequencyIsKept
  <2>2. Len(jobs[u]) \in Nat /\ Len(jobs'[u]) >= Len(jobs[u]) /\ Len(jobs'[u]) \in Nat
    <3>1. jobs[u] \in Seq(Slots)
      BY <1>1
    <3>2. Len(jobs[u]) \in Nat
      BY <3>1
    <3>3. CASE u = t
      BY <1>3, <3>2, <3>3
    <3>4. CASE u # t
      BY <1>3, <3>2, <3>4
    <3>5. QED
      BY <3>2, <3>3, <3>4
  <2>3. i \in 1 .. Len(jobs[u])
    <3>1. SUFFICES ASSUME i \notin 1 .. Len(jobs[u]) PROVE FALSE
      OBVIOUS
    <3>2. u = t /\ i = n + 1
      BY <1>1, <1>3, <2>2, <3>1
    <3>3. QED
      BY <1>9, <2>1, <3>2, Zenon
  <2>4. CleanAbove(u, i)
    <3>1. SUFFICES ASSUME NEW j \in i + 1 .. Len(jobs[u])
                   PROVE  Untouched(Record(u, j))
      BY DEF CleanAbove
    <3>2. j \in i + 1 .. Len(jobs'[u]) /\ j \in 1 .. Len(jobs[u])
      BY <2>2, <2>3
    <3>3. Record(u, j)' = Record(u, j)
      BY <1>8, <3>2
    <3>4. ~Record(u, j)'.opened /\ ~Record(u, j)'.altered
      BY <2>1, <3>2 DEF CleanAbove, Untouched
    <3>5. QED
      BY <3>3, <3>4 DEF Untouched
  <2>5. QED
    BY <1>8, <2>1, <2>3, <2>4 DEF StacksInv, FrequencyIsKept
<1>11. QED
  BY <1>5, <1>6, <1>7, <1>10 DEF StacksInv

\* halt: the parent takes its record back with what its child did, and no
\* other record changes.
LEMMA HaltKeeps ==
    ASSUME TypeOK, StacksInv, Halt
    PROVE  StacksInv'
<1>0. PICK t, n, parent : /\ t = scheduled_term
                          /\ n = Len(jobs[t])
                          /\ parent = jobs[t][n - 1]
  OBVIOUS
<1>1. /\ t = scheduled_term
      /\ n = Len(jobs[t])
      /\ t \in Terms
      /\ jobs \in [Terms -> Seq(Slots)]
      /\ kept \in [Slots -> Records]
      /\ own \in [Terms -> Granting]
      /\ altered \in [Terms -> BOOLEAN]
      /\ opened \in [Terms -> BOOLEAN]
  BY <1>0 DEF TypeOK, StacksInv, StackTypes
<1>2. /\ n > 1
      /\ jobs' = [jobs EXCEPT ![t] = SubSeq(jobs[t], 1, n - 1)]
      /\ kept' = [kept EXCEPT ![parent] = Fresh]
      /\ opened' = [opened EXCEPT ![t] = kept[parent].opened]
      /\ own' = [own EXCEPT ![t] = kept[parent].own]
      /\ altered' = [altered EXCEPT ![t] = kept[parent].altered \/ opened[t] \/ altered[t]]
      /\ rtc_freq' = rtc_freq
  <2>1. Stacks!End /\ kept' = [kept EXCEPT ![parent] = Fresh]
    BY <1>0 DEF Halt
  <2>2. n > 1 /\ jobs' = [jobs EXCEPT ![t] = SubSeq(jobs[t], 1, n - 1)]
    BY <1>0, <2>1 DEF Stacks!End, Stacks!Front, Front
  <2>3. parent \in Slots
    BY <1>0, <1>1, <2>2
  <2>4. kept[parent] = [opened |-> kept[parent].opened, own |-> kept[parent].own,
                        altered |-> kept[parent].altered]
    BY <1>1, <2>3 DEF Records
  <2>5. Becomes(t, [kept[parent] EXCEPT !.altered = @ \/ opened[t] \/ altered[t]])
    BY <1>0 DEF Halt
  <2> DEFINE flag == kept[parent].altered \/ opened[t] \/ altered[t]
  <2>6. Becomes(t, [kept[parent] EXCEPT !.altered = flag])
    BY <2>5
  <2> HIDE DEF flag
  <2>7. [kept[parent] EXCEPT !.altered = flag]
          = [opened |-> kept[parent].opened, own |-> kept[parent].own, altered |-> flag]
    BY <2>4
  <2>8. Becomes(t, [opened |-> kept[parent].opened, own |-> kept[parent].own,
                    altered |-> flag])
    BY <2>6, <2>7
  <2>9. /\ opened' = [opened EXCEPT ![t] = kept[parent].opened]
        /\ own' = [own EXCEPT ![t] = kept[parent].own]
        /\ altered' = [altered EXCEPT ![t] = flag]
        /\ rtc_freq' = rtc_freq
    BY <2>8 DEF Becomes, FrequencyAfter
  <2>10. QED
    BY <2>1, <2>2, <2>9 DEF flag
<1>3. /\ n \in Nat
      /\ Len(jobs'[t]) = n - 1
      /\ \A i \in 1 .. n - 1 : jobs'[t][i] = jobs[t][i]
      /\ \A u \in Terms \ {t} : jobs'[u] = jobs[u]
      /\ jobs' \in [Terms -> Seq(Slots)]
  BY <1>1, <1>2
<1>4. parent \in Slots /\ parent = jobs[t][n - 1]
  BY <1>0, <1>1, <1>2, <1>3
<1>5. StackTypes'
  <2>1. kept[parent] \in Records
    BY <1>1, <1>4
  <2>2. kept' \in [Slots -> Records]
    BY <1>1, <1>2, FreshIsRecord
  <2>3. kept[parent].own \in Granting /\ kept[parent].altered \in BOOLEAN
    BY <2>1 DEF Records
  <2>4. own' \in [Terms -> Granting] /\ altered' \in [Terms -> BOOLEAN]
    BY <1>1, <1>2, <2>3
  <2>5. QED
    BY <1>3, <2>2, <2>4 DEF StackTypes
<1>6. \A u \in Terms : /\ Len(jobs[u]) \in Nat
                       /\ Len(jobs'[u]) \in Nat
                       /\ Len(jobs'[u]) <= Len(jobs[u])
                       /\ \A i \in 1 .. Len(jobs'[u]) : jobs'[u][i] = jobs[u][i]
  BY <1>1, <1>2, <1>3
<1>7. EmptyIsClosed'
  <2>1. jobs'[t] # <<>>
    <3>1. Len(jobs'[t]) # 0 /\ Len(<<>>) = 0
      BY <1>2, <1>3
    <3>2. QED
      BY <3>1
  <2>2. \A u \in Terms \ {t} : jobs'[u] = jobs[u] /\ opened'[u] = opened[u]
    BY <1>1, <1>2, <1>3
  <2>3. QED
    BY <2>1, <2>2 DEF StacksInv, EmptyIsClosed
<1>8. PlacesDiffer'
  BY <1>6 DEF StacksInv, PlacesDiffer
<1>9. \A u \in Terms : \A i \in 1 .. Len(jobs'[u]) :
         ~(u = t /\ i = n - 1) => Record(u, i)' = Record(u, i)
  <2>1. SUFFICES ASSUME NEW u \in Terms, NEW i \in 1 .. Len(jobs'[u]),
                        ~(u = t /\ i = n - 1)
                 PROVE  Record(u, i)' = Record(u, i)
    OBVIOUS
  <2>2. i \in 1 .. Len(jobs[u]) /\ n - 1 \in 1 .. Len(jobs[t])
    BY <1>1, <1>2, <1>3, <1>6
  <2>3. jobs[u][i] # parent
    BY <1>1, <1>4, <2>1, <2>2 DEF StacksInv, PlacesDiffer
  <2>4. kept'[jobs[u][i]] = kept[jobs[u][i]]
    BY <1>1, <1>2, <2>2, <2>3
  <2>5. CASE u = t
    <3>1. i # Len(jobs'[u]) /\ i # Len(jobs[u]) /\ jobs'[u][i] = jobs[u][i]
      BY <1>1, <1>3, <1>6, <2>1, <2>5
    <3>2. QED
      BY <2>4, <3>1 DEF Record
  <2>6. CASE u # t
    BY <1>1, <1>2, <1>3, <2>4, <2>6 DEF Record, OfTop
  <2>7. QED
    BY <2>5, <2>6
<1>10. /\ Record(t, n - 1) = kept[parent]
       /\ Record(t, n).opened = opened[t]
       /\ Record(t, n).altered = altered[t]
  BY <1>1, <1>2, <1>3, <1>4 DEF Record, OfTop
<1>11. \A u, i : u = t /\ i = n - 1 =>
          /\ Record(u, i)'.opened = kept[parent].opened
          /\ Record(u, i)'.own = kept[parent].own
          /\ Record(u, i)'.altered <=> kept[parent].altered \/ opened[t] \/ altered[t]
  <2>1. Record(t, n - 1)' = OfTop(t)'
    BY <1>1, <1>2, <1>3 DEF Record
  <2>2. /\ OfTop(t)'.opened = opened'[t]
        /\ OfTop(t)'.own = own'[t]
        /\ OfTop(t)'.altered = altered'[t]
    BY DEF OfTop
  <2>3. /\ opened'[t] = kept[parent].opened
        /\ own'[t] = kept[parent].own
        /\ altered'[t] <=> kept[parent].altered \/ opened[t] \/ altered[t]
    BY <1>1, <1>2
  <2>4. QED
    BY <2>1, <2>2, <2>3
<1>12. FrequencyIsKept'
  <2>1. SUFFICES ASSUME NEW u \in Terms, NEW i \in 1 .. Len(jobs'[u]),
                        Record(u, i)'.opened, ~Record(u, i)'.altered, CleanAbove(u, i)'
                 PROVE  rtc_freq[u] = Record(u, i)'.own
    BY <1>2 DEF FrequencyIsKept
  <2>2. i \in 1 .. Len(jobs[u])
    BY <1>6
  <2>3. CASE u = t /\ i = n - 1
    <3>1. CleanAbove(t, n - 1)
      BY <1>1, <1>3, <1>10, <1>11, <2>1, <2>3 DEF CleanAbove, Untouched
    <3>2. QED
      BY <1>1, <1>4, <1>10, <1>11, <2>1, <2>2, <2>3, <3>1 DEF StacksInv, FrequencyIsKept
  <2>4. CASE u = t /\ i # n - 1
    <3>1. Untouched(Record(t, n - 1)') /\ n - 1 \in i + 1 .. n - 1
      BY <1>1, <1>3, <2>1, <2>4 DEF CleanAbove
    <3>2. Untouched(Record(t, n - 1)) /\ Untouched(Record(t, n))
      BY <1>10, <1>11, <3>1 DEF Untouched
    <3>3. \A j \in i + 1 .. n - 2 : Untouched(Record(t, j))
      <4>1. SUFFICES ASSUME NEW j \in i + 1 .. n - 2 PROVE Untouched(Record(t, j))
        OBVIOUS
      <4>2. j \in i + 1 .. Len(jobs'[t]) /\ j \in 1 .. Len(jobs'[t]) /\ j # n - 1
        BY <1>3, <2>1, <2>4
      <4>3. Untouched(Record(t, j)')
        BY <2>1, <2>4, <4>2 DEF CleanAbove
      <4>4. QED
        BY <1>1, <1>9, <4>2, <4>3
    <3>4. CleanAbove(t, i)
      <4>1. SUFFICES ASSUME NEW j \in i + 1 .. n PROVE Untouched(Record(t, j))
        BY <1>1 DEF CleanAbove
      <4>2. j \in i + 1 .. n - 2 \/ j = n - 1 \/ j = n
        BY <1>3, <2>1, <2>4
      <4>3. QED
        BY <3>2, <3>3, <4>2, Zenon
    <3>5. QED
      BY <1>9, <2>1, <2>2, <2>4, <3>4 DEF StacksInv, FrequencyIsKept
  <2>5. CASE u # t
    <3>1. CleanAbove(u, i)
      BY <1>3, <1>9, <2>1, <2>5 DEF CleanAbove, Untouched
    <3>2. QED
      BY <1>9, <2>1, <2>2, <2>5, <3>1 DEF StacksInv, FrequencyIsKept
  <2>6. QED
    BY <2>3, <2>4, <2>5
<1>13. QED
  BY <1>5, <1>7, <1>8, <1>12 DEF StacksInv

\* A halt of a shell leaves one record, which has no clock.
LEMMA HaltShellKeeps ==
    ASSUME TypeOK, StacksInv, HaltShell
    PROVE  StacksInv'
<1>0. PICK t : t = scheduled_term
  OBVIOUS
<1>1. /\ t \in Terms
      /\ Len(jobs[t]) = 1
      /\ own \in [Terms -> Granting]
      /\ altered \in [Terms -> BOOLEAN]
      /\ opened \in [Terms -> BOOLEAN]
  BY <1>0 DEF HaltShell, TypeOK, StacksInv, StackTypes
<1>2. /\ UNCHANGED <<jobs, kept, rtc_freq>>
      /\ opened' = [opened EXCEPT ![t] = FALSE]
      /\ own' = [own EXCEPT ![t] = 0]
      /\ altered' = [altered EXCEPT ![t] = FALSE]
  BY <1>0 DEF HaltShell, Becomes, Fresh, FrequencyAfter
<1>3. StackTypes'
  BY <1>1, <1>2 DEF StacksInv, StackTypes, Granting
<1>4. EmptyIsClosed' /\ PlacesDiffer'
  BY <1>1, <1>2 DEF StacksInv, EmptyIsClosed, PlacesDiffer
<1>5. \A u \in Terms \ {t} : \A i : Record(u, i)' = Record(u, i)
  BY <1>1, <1>2 DEF Record, OfTop
<1>6. \A u, i : u = t /\ i \in 1 .. Len(jobs[u]) => ~Record(u, i)'.opened
  <2>1. SUFFICES ASSUME NEW i \in 1 .. Len(jobs[t]) PROVE ~Record(t, i)'.opened
    BY Zenon
  <2>2. i = Len(jobs'[t])
    BY <1>1, <1>2
  <2>3. ~opened'[t]
    BY <1>1, <1>2
  <2>4. QED
    BY <2>2, <2>3 DEF Record, OfTop
<1>7. FrequencyIsKept'
  <2>1. SUFFICES ASSUME NEW u \in Terms, NEW i \in 1 .. Len(jobs[u]),
                        Record(u, i)'.opened, ~Record(u, i)'.altered, CleanAbove(u, i)'
                 PROVE  rtc_freq[u] = Record(u, i)'.own
    BY <1>2 DEF FrequencyIsKept
  <2>2. u # t
    BY <1>6, <2>1
  <2>3. CleanAbove(u, i)
    BY <1>2, <1>5, <2>1, <2>2 DEF CleanAbove, Untouched
  <2>4. QED
    BY <1>5, <2>1, <2>2, <2>3 DEF StacksInv, FrequencyIsKept
<1>8. QED
  BY <1>3, <1>4, <1>7 DEF StacksInv

\* rtc_open and rtc_write: the process on top has what it asked for, and those
\* below it have been told.
LEMMA GrantedKeeps ==
    ASSUME Inv, StacksInv, Granted
    PROVE  StacksInv'
<1>0. PICK t, n : t = scheduled_term /\ n = Len(jobs[t])
  OBVIOUS
<1>1. /\ t \in Terms
      /\ n = Len(jobs[t])
      /\ jobs \in [Terms -> Seq(Slots)]
      /\ jobs[t] # <<>>
      /\ own \in [Terms -> Granting]
      /\ altered \in [Terms -> BOOLEAN]
      /\ opened \in [Terms -> BOOLEAN]
      /\ asked \in [Terms -> Granting]
      /\ rtc_freq \in [Terms -> Granting]
  BY <1>0 DEF Granted, Granting, Inv, TypeOK, StacksInv, StackTypes
<1>2. PICK f \in Granting : Grant(f)
  BY DEF Granted, Granting, Open, Write
<1>3. /\ rtc_freq' = [rtc_freq EXCEPT ![t] = f]
      /\ asked' = [asked EXCEPT ![t] = f]
      /\ opened' = [opened EXCEPT ![t] = TRUE]
  BY <1>0, <1>2 DEF Grant, SetFreq, Running
<1>4. /\ UNCHANGED <<jobs, kept>>
      /\ own' = [own EXCEPT ![t] = f]
      /\ altered' = [altered EXCEPT ![t] = FALSE]
  BY <1>0, <1>1, <1>3 DEF Granted
<1>5. StackTypes'
  BY <1>1, <1>4 DEF StacksInv, StackTypes
<1>6. EmptyIsClosed' /\ PlacesDiffer'
  BY <1>1, <1>3, <1>4 DEF StacksInv, EmptyIsClosed, PlacesDiffer
<1>7. n \in Nat /\ n \in 1 .. Len(jobs[t])
  BY <1>1
<1>8. \A u \in Terms \ {t} : rtc_freq'[u] = rtc_freq[u] /\ \A i : Record(u, i)' = Record(u, i)
  BY <1>1, <1>3, <1>4 DEF Record, OfTop
<1>9. \A u, i : u = t /\ i = n =>
         Record(u, i)' = [opened |-> TRUE, own |-> f, altered |-> FALSE]
  BY <1>1, <1>3, <1>4 DEF Record, OfTop
<1>10. FrequencyIsKept'
  <2>1. SUFFICES ASSUME NEW u \in Terms, NEW i \in 1 .. Len(jobs[u]),
                        Record(u, i)'.opened, ~Record(u, i)'.altered, CleanAbove(u, i)'
                 PROVE  rtc_freq'[u] = Record(u, i)'.own
    BY <1>4 DEF FrequencyIsKept
  <2>2. CASE u = t /\ i = n
    <3>1. rtc_freq'[u] = f
      BY <1>1, <1>3, <2>2
    <3>2. Record(u, i)'.own = f
      BY <1>9, <2>2
    <3>3. QED
      BY <3>1, <3>2
  <2>3. CASE u = t /\ i # n
    <3>1. n \in i + 1 .. Len(jobs'[t])
      BY <1>1, <1>4, <1>7, <2>1, <2>3
    <3>2. Untouched(Record(t, n)')
      BY <2>1, <2>3, <3>1 DEF CleanAbove
    <3>3. QED
      BY <1>9, <3>2 DEF Untouched
  <2>4. CASE u # t
    <3>1. CleanAbove(u, i)
      BY <1>4, <1>8, <2>1, <2>4 DEF CleanAbove, Untouched
    <3>2. QED
      BY <1>8, <2>1, <2>4, <3>1 DEF StacksInv, FrequencyIsKept
  <2>5. QED
    BY <2>2, <2>3, <2>4
<1>11. QED
  BY <1>5, <1>6, <1>10 DEF StacksInv

LEMMA UnchangedKeeps ==
    ASSUME StacksInv, UNCHANGED <<rtc_freq, opened, jobs, kept, own, altered>>
    PROVE  StacksInv'
BY DEF StacksInv, StackTypes, EmptyIsClosed, PlacesDiffer, FrequencyIsKept, Record, OfTop,
       Top, CleanAbove, Untouched

ClocksInv == Inv /\ StacksInv

LEMMA ClocksInvInit == ClocksInit => ClocksInv
BY InvInit, StacksInit DEF ClocksInit, ClocksInv

LEMMA ClocksInvStep == ClocksInv /\ [ClocksNext]_clockVars => ClocksInv'
<1>1. SUFFICES ASSUME Inv, StacksInv, [ClocksNext]_clockVars PROVE Inv' /\ StacksInv'
  BY DEF ClocksInv
<1>2. TypeOK /\ StackTypes
  BY <1>1 DEF Inv, StacksInv
<1>3. Inv'
  BY <1>1, <1>2, StepIsRtc, InvStep
<1>4. ASSUME NEW p \in Slots, Execute(p) PROVE StacksInv'
  BY <1>1, <1>2, <1>3, <1>4, ExecuteKeeps
<1>5. CASE Halt
  BY <1>1, <1>2, <1>3, <1>5, HaltKeeps
<1>6. CASE HaltShell
  BY <1>1, <1>2, <1>3, <1>6, HaltShellKeeps
<1>7. CASE Granted
  BY <1>1, <1>3, <1>7, GrantedKeeps
<1>8. CASE ReadOrCount
  BY <1>1, <1>3, <1>8, UnchangedKeeps DEF ReadOrCount, processes, ReadCall, ReadReturn, Tick
<1>9. CASE NextSlice
  BY <1>1, <1>3, <1>9, UnchangedKeeps DEF NextSlice, Switch, Stacks!Yield
<1>10. CASE UNCHANGED clockVars
  BY <1>1, <1>3, <1>10, UnchangedKeeps DEF clockVars, vars, processes
<1>11. QED
  BY <1>1, <1>3, <1>4, <1>5, <1>6, <1>7, <1>8, <1>9, <1>10 DEF ClocksNext

\* execute and halt, of any program by any program, are to the clocks what Rtc
\* says of them: every step of Clocks is a step of Rtc or leaves its variables.
THEOREM ProcessesKeepTheClocks == ClocksSpec => ImplementsRtc
<1>1. ClocksInv /\ [ClocksNext]_clockVars => [Next]_vars
  BY StepIsRtc DEF ClocksInv, Inv, StacksInv
<1>2. ClocksInit => Init
  BY DEF ClocksInit
<1>3. QED
  BY <1>1, <1>2, ClocksInvInit, ClocksInvStep, PTL DEF ClocksSpec, ImplementsRtc, Spec

\* rtc_read, of processes that execute each other: what Rtc guarantees is
\* guaranteed to each of them.
THEOREM NestedReadsTakeTheirTime == ClocksSpec => ReadsLastTheirPeriod
BY ProcessesKeepTheClocks, ReadsTakeTheirTime, PTL DEF ImplementsRtc

\* rtc_open, rtc_write, execute and halt: a process finds the frequency it was
\* last granted, unless a program it executed opened the clock itself.
THEOREM ProcessesKeepTheirFrequency == ClocksSpec => []FrequencyIsOwn
<1>1. ClocksInv => FrequencyIsOwn
  <2>1. SUFFICES ASSUME ClocksInv, NEW t \in Terms, opened[t], ~altered[t]
                 PROVE  rtc_freq[t] = own[t]
    BY DEF FrequencyIsOwn
  <2> DEFINE n == Len(jobs[t])
  <2>2. jobs[t] \in Seq(Slots) /\ jobs[t] # <<>>
    BY <2>1 DEF ClocksInv, StacksInv, StackTypes, EmptyIsClosed
  <2>3. n \in 1 .. n /\ n \in Nat
    BY <2>2
  <2>4. /\ Record(t, n).opened = opened[t]
        /\ Record(t, n).altered = altered[t]
        /\ Record(t, n).own = own[t]
    BY DEF Record, OfTop
  <2>5. CleanAbove(t, n)
    BY <2>3 DEF CleanAbove
  <2>6. QED
    BY <2>1, <2>3, <2>4, <2>5 DEF ClocksInv, StacksInv, FrequencyIsKept
<1>2. QED
  BY <1>1, ClocksInvInit, ClocksInvStep, PTL DEF ClocksSpec

=============================================================================
