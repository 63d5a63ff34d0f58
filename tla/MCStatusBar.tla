---------------------------- MODULE MCStatusBar ----------------------------
(***************************************************************************)
(* The texts of mouse.c by their lengths, and instants around the borders  *)
(* of the conversion: midnight, six o'clock, the first and the second of a *)
(* month and of a year, values of one digit and of two.                    *)
(***************************************************************************)
EXTENDS StatusBar

MCLengths ==
    [k \in Texts |-> <<45, 29, 47, 30, 22, 47, 45, 24, 32, 47, 37>>[k + 1]]

At(day, mon, yr, hr, min, sec) ==
    [sec |-> sec, min |-> min, hr |-> hr, day |-> day, mon |-> mon, yr |-> yr]

MCTimes ==
    {At(2, 1, 24, 0, 0, 0), At(1, 3, 0, 6, 0, 0), At(1, 12, 23, 6, 0, 9),
     At(2, 2, 9, 5, 10, 10), At(31, 12, 99, 23, 59, 59), At(11, 10, 10, 5, 59, 59)}

\* Before six on the first of a month, of a leap year's March and of a year: it is
\* still the month before in Central time.
FirstMornings ==
    {At(1, 1, 24, 0, 0, 0), At(1, 3, 0, 5, 59, 59), At(1, 12, 23, 3, 30, 0)}
=============================================================================
