------------------------------ MODULE Streams ------------------------------
(***************************************************************************)
(* What descriptors promise a process: each one that is open is a stream   *)
(* over one file or directory, of its own position.  A read hands over the *)
(* next items, none of them only at the end, and moves past exactly those; *)
(* nothing else moves a stream.                                            *)
(***************************************************************************)
EXTENDS Integers, Sequences

CONSTANTS
    Descriptors,  \* those open hands out
    Contents,     \* Contents[f]: the items of file f, in order
    Sound,        \* the files all of whose items can be read
    Closed        \* what a descriptor that is not open holds

VARIABLES
    streams,  \* streams[d]: Closed, or the file and position of d
    out,      \* what the last read handed over
    alive     \* there is a process

vars == <<streams, out, alive>>

AllClosed == [d \in Descriptors |-> Closed]

Init == streams = AllClosed /\ out = <<>> /\ alive = FALSE

Open(d, f) ==
    /\ streams[d] = Closed
    /\ streams' = [streams EXCEPT ![d] = [file |-> f, pos |-> 0]]
    /\ UNCHANGED <<out, alive>>

Close(d) ==
    /\ streams[d] # Closed
    /\ streams' = [streams EXCEPT ![d] = Closed]
    /\ UNCHANGED <<out, alive>>

\* A process starts with nothing open, whatever the one before it left.
Begin == ~alive /\ alive' = TRUE /\ streams' = AllClosed /\ UNCHANGED out

\* What an ended process leaves is nobody's.
End == alive /\ alive' = FALSE /\ UNCHANGED out

Read(d) ==
    LET s == streams[d]
        left == Len(Contents[s.file]) - s.pos
    IN
    /\ s # Closed
    /\ s.file \in Sound
    /\ \E n \in 0 .. left :
          /\ n = 0 => left = 0
          /\ out' = SubSeq(Contents[s.file], s.pos + 1, s.pos + n)
          /\ streams' = [streams EXCEPT ![d].pos = @ + n]
    /\ UNCHANGED alive

\* A file with a missing block promises nothing about its position.
ReadDamaged(d) ==
    LET s == streams[d] IN
    /\ s # Closed
    /\ s.file \notin Sound
    /\ streams' = [streams EXCEPT ![d] = streams'[d]]
    /\ streams'[d] # Closed
    /\ streams'[d].file = s.file
    /\ UNCHANGED alive

Next ==
    \/ \E d \in Descriptors :
          \/ \E f \in DOMAIN Contents : Open(d, f)
          \/ Close(d)
          \/ Read(d)
          \/ ReadDamaged(d)
    \/ Begin
    \/ End

Spec == Init /\ [][Next]_vars
=============================================================================
