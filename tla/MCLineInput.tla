---------------------------- MODULE MCLineInput ----------------------------
(***************************************************************************)
(* The input buffer read as a LineQueue: its first idx bytes are the line. *)
(***************************************************************************)
EXTENDS LineInput, Sequences

Queue ==
    INSTANCE LineQueue WITH
        Capacity <- INPUT_BUFFER_SIZE,
        line <- [i \in 1 .. idx |-> buffer[i - 1]]

\* A read hands over exactly what was typed since the last one, less what was
\* erased, as long as Enter is not pressed again on a full buffer.
ImplementsLineQueue == Queue!Spec
=============================================================================
