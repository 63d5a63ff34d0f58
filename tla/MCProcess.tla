----------------------------- MODULE MCProcess -----------------------------
(***************************************************************************)
(* The process table as job stacks: following parent_id from a terminal's  *)
(* pid gives the terminal's processes, and read that way every step of     *)
(* Process is a step of Jobs.                                              *)
(***************************************************************************)
EXTENDS Process, Sequences

\* Up[n][p]: the processes from p to the shell it descends from, the shell
\* first, for at most n parents.
Ancestry(parents) ==
    LET Up[n \in 0 .. MAX_PIDs] ==
            [p \in Pids \cup {None} |->
                IF n = 0 \/ p = None THEN <<>>
                                     ELSE Append(Up[n - 1][parents[p]], p)]
    IN  Up[MAX_PIDs]

JobsOf(tops, parents) == [t \in Terms |-> Ancestry(parents)[tops[t]]]

JobStacks ==
    INSTANCE Jobs WITH
        NumTerms <- NUM_TTYS,
        Processes <- Pids,
        jobs <- JobsOf(term_pid, parent_id),
        turn <- scheduled_term

\* The kernel implements job stacks: in every terminal programs end in the
\* reverse of the order execute started them, back to a shell that is never
\* lost, and nothing one terminal does moves a process of another.
ImplementsJobs == JobStacks!Spec
=============================================================================
