-------------------------------- MODULE Rtc --------------------------------
(***************************************************************************)
(* The virtual real-time clocks of rtc.c: the device interrupts at HZ and  *)
(* every terminal has a frequency and a countdown of its own.              *)
(*                                                                         *)
(* rtc_open, rtc_write and the start of rtc_read run with interrupts off   *)
(* in the slice of the scheduled terminal.  rtc_read then spins with       *)
(* interrupts on until its countdown is zero, which it can only see in its *)
(* own slices, while rtc_handler counts down in anybody's.                 *)
(*                                                                         *)
(* Scaled down: HZ (512).                                                  *)
(***************************************************************************)
EXTENDS Integers

CONSTANTS
    NUM_TTYS,    \* terminals (3)
    HZ,          \* interrupts of the device per second
    Frequencies  \* the values processes write

ASSUME RtcAssumption ==
    /\ NUM_TTYS \in Nat \ {0}
    /\ HZ \in Nat \ {0, 1}
    /\ Frequencies \subseteq Nat

VARIABLES
    rtc_freq,       \* rtc_freq[t]
    rtc_counter,    \* rtc_counter[t]: interrupts until t's read returns
    scheduled_term, \* the terminal whose slice is running
    reading,        \* reading[t]: t's process spins in rtc_read
    opened,         \* opened[t]: t's process has the clock open
    asked,          \* history: asked[t]: the frequency last granted in t
    waited          \* history: interrupts since t's read began, HZ at most

vars == <<rtc_freq, rtc_counter, scheduled_term, reading, opened, asked,
          waited>>

Terms == 0 .. NUM_TTYS - 1

TypeOK ==
    /\ rtc_freq \in [Terms -> {0, 2} \cup Frequencies]
    /\ rtc_counter \in [Terms -> 0 .. HZ]
    /\ scheduled_term \in Terms
    /\ reading \in [Terms -> BOOLEAN]
    /\ opened \in [Terms -> BOOLEAN]
    /\ asked \in [Terms -> {0, 2} \cup Frequencies]
    /\ waited \in [Terms -> 0 .. HZ]

Init ==
    /\ rtc_freq = [t \in Terms |-> 0]
    /\ rtc_counter = [t \in Terms |-> 0]
    /\ scheduled_term \in Terms
    /\ reading = [t \in Terms |-> FALSE]
    /\ opened = [t \in Terms |-> FALSE]
    /\ asked = [t \in Terms |-> 0]
    /\ waited = [t \in Terms |-> 0]
-----------------------------------------------------------------------------
\* The scheduled terminal's process is in user mode and makes a system call.
Running(t) == scheduled_term = t /\ ~reading[t]

\* freq & (freq - 1) = 0, which zero passes too.
PowerOfTwoOrZero(freq) == freq = 0 \/ \E k \in 0 .. freq : 2 ^ k = freq

SetFreqAll(f) == [t \in Terms |-> f]  \* mutant: one frequency for all
SetFreq(f) == [rtc_freq EXCEPT ![scheduled_term] = f]

\* rtc_open and an accepted rtc_write.
Grant(f) ==
    \E t \in Terms :
        /\ Running(t)
        /\ rtc_freq' = SetFreq(f)
        /\ asked' = [asked EXCEPT ![t] = f]
        /\ opened' = [opened EXCEPT ![t] = TRUE]
        /\ UNCHANGED <<rtc_counter, scheduled_term, reading, waited>>

Open == Grant(2)

\* A rejected write returns -1 and changes nothing.
Write(f) ==
    /\ opened[scheduled_term]
    /\ PowerOfTwoOrZero(f)
    /\ Grant(f)

Period(t) == HZ \div rtc_freq[t]

\* rtc_read up to its sti().
ReadCall ==
    \E t \in Terms :
        /\ Running(t)
        /\ opened[t]
        /\ rtc_freq[t] # 0
        /\ rtc_counter' = [rtc_counter EXCEPT ![t] = Period(t)]
        /\ reading' = [reading EXCEPT ![t] = TRUE]
        /\ waited' = [waited EXCEPT ![t] = 0]
        /\ UNCHANGED <<rtc_freq, scheduled_term, opened, asked>>

\* execute and halt, also of a process whose rtc_read divided by a frequency of
\* zero: another process of the terminal runs, which starts without the clock
\* or had opened it before.
Another ==
    \E t \in Terms :
        /\ Running(t)
        /\ opened' = [opened EXCEPT ![t] = ~opened[t]]
        /\ UNCHANGED <<rtc_freq, rtc_counter, scheduled_term, reading, asked, waited>>

\* The loop ends when the process finds its countdown at zero.
ReadReturn ==
    \E t \in Terms :
        /\ scheduled_term = t
        /\ reading[t]
        /\ rtc_counter[t] = 0
        /\ reading' = [reading EXCEPT ![t] = FALSE]
        /\ UNCHANGED <<rtc_freq, rtc_counter, scheduled_term, opened, asked, waited>>

CountDownWraps(c) == (c - 1) % (HZ + 1)  \* mutant: "if != 0" dropped, the counter wraps
CountDown(c) == IF c # 0 THEN c - 1 ELSE c

\* rtc_handler.
Tick ==
    /\ rtc_counter' = [t \in Terms |-> CountDown(rtc_counter[t])]
    /\ waited' = [t \in Terms |->
                    IF reading[t] /\ waited[t] < HZ THEN waited[t] + 1
                                                    ELSE waited[t]]
    /\ UNCHANGED <<rtc_freq, scheduled_term, reading, opened, asked>>

\* pit_handler's round robin.
Switch ==
    /\ scheduled_term' = (scheduled_term + 1) % NUM_TTYS
    /\ UNCHANGED <<rtc_freq, rtc_counter, reading, opened, asked, waited>>

Next ==
    \/ Open
    \/ \E f \in Frequencies : Write(f)
    \/ ReadCall
    \/ ReadReturn
    \/ Another
    \/ Tick
    \/ Switch

Spec == Init /\ [][Next]_vars

\* Both devices interrupt for ever.  A slice is thousands of turns of
\* rtc_read's loop, so a read that is over is seen in one of its slices.
FairSpec ==
    /\ Spec
    /\ WF_vars(Tick)
    /\ WF_vars(Switch)
    /\ \A t \in Terms : SF_vars(scheduled_term = t /\ ReadReturn)
-----------------------------------------------------------------------------
\* A read takes at least the period of the frequency last granted in its
\* terminal, whatever other terminals ask for, read and count down meanwhile.
ReadsLastTheirPeriod ==
    [][\A t \in Terms :
          reading[t] /\ ~reading'[t] => waited[t] >= HZ \div asked[t]]_vars

\* Every read returns: the countdown does not run past zero while its process
\* waits for a slice, and no other terminal's read holds it up.
EveryReadReturns == \A t \in Terms : reading[t] ~> ~reading[t]
=============================================================================
