-------------------------------- MODULE Jobs --------------------------------
(***************************************************************************)
(* What the kernel promises about processes, apart from how it keeps them: *)
(* every terminal holds a stack of jobs, only the job on top runs, and     *)
(* only in its terminal's turn.  A program started from the terminal is    *)
(* pushed, a program that ends is popped, the bottom one (the terminal's   *)
(* shell) is never lost, and a process is in one place of one stack only.  *)
(***************************************************************************)
EXTENDS Integers, Sequences, SequencesExt

CONSTANTS NumTerms, Processes

VARIABLES
    jobs,  \* jobs[t]: the terminal's processes, its shell first
    turn   \* the terminal whose slice is running

vars == <<jobs, turn>>

Terminals == 0 .. NumTerms - 1

Unused(p) == \A t \in Terminals : p \notin ToSet(jobs[t])

Init ==
    /\ jobs = [t \in Terminals |-> <<>>]
    /\ turn \in Terminals

Yield ==
    /\ turn' = (turn + 1) % NumTerms
    /\ UNCHANGED jobs

Start(p) ==
    /\ Unused(p)
    /\ \/ jobs[turn] = <<>>
       \/ \A t \in Terminals : jobs[t] # <<>>
    /\ jobs' = [jobs EXCEPT ![turn] = Append(@, p)]
    /\ UNCHANGED turn

End ==
    /\ Len(jobs[turn]) > 1
    /\ jobs' = [jobs EXCEPT ![turn] = Front(@)]
    /\ UNCHANGED turn

Next == Yield \/ End \/ \E p \in Processes : Start(p)

Spec == Init /\ [][Next]_vars
=============================================================================
