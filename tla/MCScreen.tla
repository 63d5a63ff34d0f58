----------------------------- MODULE MCScreen -----------------------------
(***************************************************************************)
(* The video pages read as Displays: a terminal's display is the displayed *)
(* page while it is visible and its own page while it is not.              *)
(***************************************************************************)
EXTENDS Screen

D ==
    INSTANCE Displays WITH
        Rows <- TERM_ROWS,
        Cols <- TERM_COLS,
        shown <- [t \in Terms |-> Shown(t)],
        half <- [t \in Terms |-> at[t] = "put"]

\* What a process writes, draws or has echoed appears at its own terminal's
\* cursor, on its own terminal's display, whichever terminal is visible and
\* wherever the timer, a key or a switch comes in between; switching terminals
\* changes no display.
ImplementsDisplays == D!Spec
=============================================================================
