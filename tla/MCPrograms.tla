----------------------------- MODULE MCPrograms -----------------------------
(***************************************************************************)
(* A small image, the commands a user may give, and what they mean.        *)
(***************************************************************************)
EXTENDS Programs, MCFiles

File(name, inode) == [name |-> name, type |-> "file", inode |-> inode]

ImageEntries ==
    <<[name |-> <<".">>, type |-> "dir", inode |-> 0],
      File(<<"c">>, 1),
      [name |-> <<"r">>, type |-> "rtc", inode |-> 0],
      File(<<"l">>, 2),
      File(<<"g">>, 3),
      File(<<"f">>, 4),      \* lines across reads and blocks, no newline at the end
      File(<<"h", "h">>, 5), \* a name of the longest length; lines of the buffer's size
      File(<<"k">>, 6),      \* an empty file
      File(<<"t">>, 7)>>     \* one whose second block is missing

ImageBlocks ==
    <<<<"b", "a", "b", "n">>, <<"a", "b", "n", "b">>, <<"E", "F", "a", "n">>,
      <<"a", "n", "n", "b">>, <<"b", "a", "b", "a">>, <<"n", "a", "a", "b">>,
      <<"n", "n", "n", "n">>>>

ImageInodes ==
    <<[length |-> 0, data_blocks |-> <<0>>],
      [length |-> 4, data_blocks |-> <<2, 0>>],
      [length |-> 2, data_blocks |-> <<2>>],
      [length |-> 7, data_blocks |-> <<2, 5, 0>>],
      [length |-> 11, data_blocks |-> <<1, 3, 4>>],
      [length |-> 9, data_blocks |-> <<4, 5, 0>>],
      [length |-> 0, data_blocks |-> <<3>>],
      [length |-> 6, data_blocks |-> <<6, 9>>]>>

ImageBytes ==
    {NUL, NL, SP, ".", ":", "a", "b", "c", "E", "e", "F", "f", "g", "h", "i", "k", "l", "r", "t", "x"}

ImageELF == <<"E", "F">>

ImageProgram == 1 :> "cat" @@ 2 :> "ls" @@ 3 :> "grep"

\* Everything of up to four bytes, with and without the newline a Backspace
\* may have taken; longer names and arguments; two lines at once; exit.
Commands ==
    UNION {[1 .. n -> {"c", "k", SP, NL}] : n \in 0 .. 4}
    \cup {<<"l">>, <<"l", NL>>, <<"l", SP, "c">>, <<"h", "h">>, <<"h", "h", "c">>, <<"r">>, <<".">>,
          <<"c", SP, "f">>, <<"c", SP, "h", "h">>, <<"c", SP, "h", "h", "h">>, <<"c", SP, ".">>,
          <<"c", SP, "r">>, <<"c", SP, "t">>, <<"c", SP, SP, "f">>, <<"c", SP, "f", NL, "l">>, <<"g">>,
          <<"g", SP, "a">>, <<"g", SP, "b">>, <<"g", SP, "a", "b">>, <<"g", SP, "b", "a", "b">>,
          <<"g", SP, "a", "a">>, <<"g", SP, "E", NL>>, <<"e", "x", "i", "t">>, <<"e", "x", "i", "t", NL>>}
-----------------------------------------------------------------------------
Node(i) == Inodes[Entries[i].inode + 1]
Damaged(i) == \E b \in DOMAIN Node(i).data_blocks : Node(i).data_blocks[b] >= NumBlocks
Failure(i) == IF Damaged(i) THEN <<"file read failed">> ELSE <<>>

\* Up to a missing block: in the small image a read never crosses into one.
Held(i) ==
    LET node == Node(i) IN
    CASE Entries[i].type = "file" ->
            [p \in 1 .. IF Damaged(i) THEN DATA_BLK_SIZE ELSE node.length |->
                Blocks[node.data_blocks[((p - 1) \div DATA_BLK_SIZE) + 1] + 1]
                      [((p - 1) % DATA_BLK_SIZE) + 1]]
      [] Entries[i].type = "dir" -> FlattenSeq([j \in DOMAIN Entries |-> Entries[j].name])
      [] Entries[i].type = "rtc" -> <<>>

\* The lines of a text that have text s in them, each with its file's name.
IsLine(text, a, b) ==
    /\ \A p \in a .. b : text[p] # NL
    /\ a = 1 \/ text[a - 1] = NL
    /\ b = Len(text) \/ text[b + 1] = NL

Has(text, a, b, s) == \E p \in a .. b : p + Len(s) - 1 <= b /\ SubSeq(text, p, p + Len(s) - 1) = s

LinesFrom(i, s) ==
    LET text == Held(i)
        From[a \in 1 .. Len(text) + 1] ==
            IF a > Len(text) THEN <<>>
            ELSE LET b == {e \in a .. Len(text) : IsLine(text, a, e) /\ Has(text, a, e, s)}
                 IN  (IF b = {} THEN <<>>
                      ELSE Entries[i].name \o <<":">>
                             \o SubSeq(text, a, CHOOSE e \in b : TRUE) \o <<NL>>)
                     \o From[a + 1]
    IN  From

GrepOf(i, s) == LinesFrom(i, s)[1]

\* A command as a user means it: the word before the first space and the text
\* after it.
Word(c) == CHOOSE w \in {SubSeq(c, 1, n) : n \in 0 .. Len(c)} :
               /\ SP \notin Range(w)
               /\ Len(w) < Len(c) => c[Len(w) + 1] = SP
Rest(c) == SubSeq(c, Len(Word(c)) + 2, Len(c))

Numbered(name) == {i \in DOMAIN Entries : Entries[i].name = name}

\* The commands this is about.  A name longer than the longest is cut, one of just that length has no
\* argument, an argument is cut to its room, and a file shorter than the mark
\* may pass for a program.
Fits(c) ==
    /\ Len(Word(c)) < MAX_FILENAME_LEN \/ (Word(c) = c /\ Len(c) <= MAX_FILENAME_LEN)
    /\ Len(Rest(c)) <= MAX_FILENAME_LEN + 1
    /\ \A i \in Numbered(Word(c)) : ~MayBeTaken(i)

Meaning(c) ==
    LET e == Numbered(Word(c))
        inode == Entries[CHOOSE i \in e : TRUE].inode
        arg == Numbered(Rest(c))
    IN
    IF c \in {<<>>, <<"e", "x", "i", "t">>} THEN <<>>
    ELSE IF e = {} \/ inode \notin DOMAIN Program THEN <<"no such command">>
    ELSE CASE Program[inode] = "ls" ->
                 FlattenSeq([j \in DOMAIN Entries |-> Append(Entries[j].name, NL)])
           [] Program[inode] = "cat" ->
                 IF Rest(c) = <<>> THEN <<"could not read arguments">>
                 ELSE IF arg = {} THEN <<"file not found">>
                 ELSE LET i == CHOOSE i \in arg : TRUE IN Held(i) \o Failure(i)
           [] Program[inode] = "grep" ->
                 IF Rest(c) = <<>> THEN <<"could not read argument">>
                 ELSE FlattenSeq([i \in DOMAIN Entries |->
                          IF Entries[i].type = "file" THEN GrepOf(i, Rest(c)) \o Failure(i) ELSE <<>>])

\* What a command leaves on the terminal is what that command means, whatever
\* was run before it: the file it names and no other, the lines that match and
\* no others, its own argument and never one an earlier program left in the
\* pcb (execute, getargs, cat, ls, grep, the shell).
AnswersCommand == pc = "prompt" /\ Fits(asked) => printed = Meaning(asked)
=============================================================================
