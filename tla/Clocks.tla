-------------------------------- MODULE Clocks --------------------------------
(***************************************************************************)
(* The clocks of Rtc used by the job stacks that Process implements: a     *)
(* program may open the clock, execute another one that opens it too, and  *)
(* read on when that one has ended.                                        *)
(*                                                                         *)
(* The frequency belongs to the terminal, the open descriptor to the       *)
(* process.  Of Rtc, opened, reading and waited are those of the process   *)
(* on top of its terminal's stack, and every step is one of Rtc or is none *)
(* of its business.                                                        *)
(***************************************************************************)
EXTENDS Rtc, Sequences, SequencesExt

CONSTANT Slots  \* of processes, lowest first (0 to 5)

ASSUME SlotsAssumption == Slots \subseteq Nat

VARIABLES
    jobs,     \* jobs[t]: the terminal's processes, its shell first
    kept,     \* kept[p]: opened, own and altered of a process that waits for its child
    own,      \* history: own[t]: the frequency t's process was last granted itself
    altered   \* history: altered[t]: a program it executed, or one of that program's,
              \* opened the clock since

processes == <<jobs, kept, own, altered>>
clockVars == <<vars, processes>>

Stacks == INSTANCE Jobs WITH NumTerms <- NUM_TTYS, Processes <- Slots,
                             turn <- scheduled_term

Fresh == [opened |-> FALSE, own |-> 0, altered |-> FALSE]

ClocksInit ==
    /\ Init
    /\ Stacks!Init
    /\ kept = [p \in Slots |-> Fresh]
    /\ own = [t \in Terms |-> 0]
    /\ altered = [t \in Terms |-> FALSE]
-----------------------------------------------------------------------------
Top(t) == jobs[t][Len(jobs[t])]
OfTop(t) == [opened |-> opened[t], own |-> own[t], altered |-> altered[t]]

\* rtc_close leaves the terminal its frequency.
FrequencyAfterReset(t) == [rtc_freq EXCEPT ![t] = 0]  \* mutant: the line rtc_close has commented out
FrequencyAfter(t) == rtc_freq

\* A process with this record is on top of t's stack.
Becomes(t, record) ==
    /\ opened' = [opened EXCEPT ![t] = record.opened]
    /\ own' = [own EXCEPT ![t] = record.own]
    /\ altered' = [altered EXCEPT ![t] = record.altered]
    /\ rtc_freq' = FrequencyAfter(t)
    /\ UNCHANGED <<rtc_counter, reading, asked, waited>>

\* execute, by the shell or the program that runs or by the timer for the first shell:
\* it opens the terminal's two descriptors and leaves the clock as it is.
Execute(p) ==
    LET t == scheduled_term IN
    /\ Running(t)
    /\ \A q \in Slots : Stacks!Unused(q) => p <= q
    /\ Stacks!Start(p)
    /\ kept' = IF jobs[t] = <<>> THEN kept ELSE [kept EXCEPT ![Top(t)] = OfTop(t)]
    /\ Becomes(t, Fresh)

\* halt, also of a process that divided by a frequency of zero: neither it nor
\* rtc_close gives back the frequency.
Halt ==
    LET t == scheduled_term
        parent == jobs[t][Len(jobs[t]) - 1]
    IN
    /\ Running(t)
    /\ Stacks!End
    /\ Becomes(t, [kept[parent] EXCEPT !.altered = @ \/ opened[t] \/ altered[t]])
    /\ kept' = [kept EXCEPT ![parent] = Fresh]

\* halt of a shell, whose successor starts without the clock.
HaltShell ==
    LET t == scheduled_term IN
    /\ Running(t)
    /\ Len(jobs[t]) = 1
    /\ Becomes(t, Fresh)
    /\ UNCHANGED <<scheduled_term, jobs, kept>>

\* rtc_open and rtc_write of the process on top.
Granted ==
    /\ jobs[scheduled_term] # <<>>
    /\ Open \/ \E f \in Frequencies : Write(f)
    /\ own' = [own EXCEPT ![scheduled_term] = asked'[scheduled_term]]
    /\ altered' = [altered EXCEPT ![scheduled_term] = FALSE]
    /\ UNCHANGED <<jobs, kept>>

ReadOrCount ==
    /\ ReadCall \/ ReadReturn \/ Tick
    /\ UNCHANGED processes

NextSlice ==
    /\ Switch
    /\ Stacks!Yield
    /\ UNCHANGED <<kept, own, altered>>

ClocksNext ==
    \/ \E p \in Slots : Execute(p)
    \/ Halt
    \/ HaltShell
    \/ Granted
    \/ ReadOrCount
    \/ NextSlice

ClocksSpec == ClocksInit /\ [][ClocksNext]_clockVars

\* The fairness of Rtc.
FairClocksSpec ==
    /\ ClocksSpec
    /\ WF_clockVars(Tick /\ UNCHANGED processes)
    /\ WF_clockVars(NextSlice)
    /\ \A t \in Terms :
          SF_clockVars(scheduled_term = t /\ ReadReturn /\ UNCHANGED processes)
-----------------------------------------------------------------------------
\* execute and halt are to the clocks what Rtc says of them, so what is proved
\* of Rtc holds of processes that execute each other.
ImplementsRtc == Spec

\* Who has the clock open finds the frequency it was last granted, so that its
\* reads last that period, through any number of programs it executed and
\* whatever the other terminals' processes did, unless one of those programs
\* opened the clock itself (rtc_open, execute, halt).
FrequencyIsOwn ==
    \A t \in Terms : opened[t] /\ ~altered[t] => rtc_freq[t] = own[t]
=============================================================================
