----------------------------- MODULE LineQueue -----------------------------
(***************************************************************************)
(* What a terminal's input promises a reader: the keys typed since the     *)
(* last read, in order, less those erased from the end, and nothing else.  *)
(* A read takes them all, handing over as many as were asked for.          *)
(***************************************************************************)
EXTENDS Naturals, Sequences, SequencesExt

CONSTANTS Cells, Capacity

VARIABLES
    line,  \* the keys typed and not yet read
    got    \* what the last read handed over

vars == <<line, got>>

Init == line = <<>> /\ got = <<>>

Type(c) ==
    /\ Len(line) < Capacity
    /\ line' = Append(line, c)
    /\ UNCHANGED got

Erase ==
    /\ line # <<>>
    /\ line' = Front(line)
    /\ UNCHANGED got

Take ==
    /\ line' = <<>>
    /\ got' \in {SubSeq(line, 1, n) : n \in 0 .. Len(line)}

Next == (\E c \in Cells : Type(c)) \/ Erase \/ Take

Spec == Init /\ [][Next]_vars
=============================================================================
