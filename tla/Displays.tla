------------------------------ MODULE Displays ------------------------------
(***************************************************************************)
(* What terminals promise about output: each has a display of its own, a   *)
(* character appears in it at its cursor and the cursor moves on, the      *)
(* display scrolls by a row when the cursor leaves it, and which display   *)
(* is on the screen makes no difference to any of this.                    *)
(***************************************************************************)
EXTENDS Integers

CONSTANTS
    Terms, Rows, Cols,
    Chars,  \* what can be written
    Space   \* what a cell shows that nothing was written to

VARIABLES
    shown,   \* shown[t]: the cells of t's display
    cursor,  \* cursor[t]: where t writes next
    half     \* half[t]: t's character is shown, its cursor has yet to move

vars == <<shown, cursor, half>>

Cells == 0 .. Rows * Cols - 1

Scrolled(display) ==
    [p \in Cells |-> IF p + Cols \in Cells THEN display[p + Cols] ELSE Space]

\* The cursor of t goes to position p, which may lie just below the display.
MoveTo(t, p, display) ==
    IF p \in Cells
       THEN /\ cursor' = [cursor EXCEPT ![t] = p]
            /\ shown' = [shown EXCEPT ![t] = display]
       ELSE /\ cursor' = [cursor EXCEPT ![t] = (Rows - 1) * Cols]
            /\ shown' = [shown EXCEPT ![t] = Scrolled(display)]

With(t, p, c) == [shown[t] EXCEPT ![p] = c]

Show(t, c) ==
    /\ ~half[t]
    /\ half' = [half EXCEPT ![t] = TRUE]
    /\ shown' = [shown EXCEPT ![t] = With(t, cursor[t], c)]
    /\ UNCHANGED cursor

Advance(t) ==
    /\ half[t]
    /\ half' = [half EXCEPT ![t] = FALSE]
    /\ MoveTo(t, cursor[t] + 1, shown[t])

\* Both at once.
Type(t, c) ==
    /\ ~half[t]
    /\ MoveTo(t, cursor[t] + 1, With(t, cursor[t], c))
    /\ UNCHANGED half

NewLine(t) ==
    /\ ~half[t]
    /\ MoveTo(t, (cursor[t] \div Cols + 1) * Cols, shown[t])
    /\ UNCHANGED half

Erase(t) ==
    /\ ~half[t]
    /\ cursor[t] > 0
    /\ MoveTo(t, cursor[t] - 1, With(t, cursor[t] - 1, Space))
    /\ UNCHANGED half

\* A program draws in its display; Ctrl+L clears one.
Draw(t, p, c) ==
    /\ shown' = [shown EXCEPT ![t] = With(t, p, c)]
    /\ UNCHANGED <<cursor, half>>

Clear(t) ==
    /\ shown' = [shown EXCEPT ![t] = [p \in Cells |-> Space]]
    /\ UNCHANGED <<cursor, half>>

Init ==
    /\ shown = [t \in Terms |-> [p \in Cells |-> Space]]
    /\ cursor = [t \in Terms |-> 0]
    /\ half = [t \in Terms |-> FALSE]

Next ==
    \E t \in Terms :
        \/ \E c \in Chars : Show(t, c) \/ Type(t, c) \/ \E p \in Cells : Draw(t, p, c)
        \/ Advance(t)
        \/ NewLine(t)
        \/ Erase(t)
        \/ Clear(t)

Spec == Init /\ [][Next]_vars
=============================================================================
