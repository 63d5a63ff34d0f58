-------------------------- MODULE ProgramsAnswers --------------------------
(***************************************************************************)
(* What a program of Programs has printed at every step, and what cat, ls  *)
(* and grep hold of what they read: the invariant under which a command is *)
(* answered as it is meant.                                                *)
(***************************************************************************)
EXTENDS MCPrograms

\* The images this is about.  Every block exists; names differ; "." is the directory,
\* and no file's name begins with a dot; the programs are executables.
PlainImage ==
    /\ \A i, j \in DOMAIN Entries : Entries[i].name = Entries[j].name => i = j
    /\ \A i \in DOMAIN Entries :
          /\ ~Damaged(i)
          /\ Entries[i].type = "dir" <=> Entries[i].name = <<".">>
          /\ Entries[i].name[1] = "." => Entries[i].type # "file"
          /\ Entries[i].inode \in DOMAIN Program => IsExecutable(i)

\* No key makes a zero byte.
PlainInput == \A l \in Lines : NUL \notin Range(l)

\* What grep is for: no file has a zero byte, or a line longer than its buffer, and
\* there is no newline in the buffer by chance.
Searchable ==
    /\ NL \notin Garbage
    /\ \A i \in DOMAIN Entries : Entries[i].type = "file" =>
          /\ NUL \notin Range(Held(i))
          /\ \A a, b \in DOMAIN Held(i) : IsLine(Held(i), a, b) => b - a < BUFSIZE

-----------------------------------------------------------------------------
\* A program has descriptor d open.
IsOpen(d) == d \in Above /\ fd_arr[d].flags = 1

\* A process exists while a program runs; what the program reads from is open, and
\* grep has room in its buffer for a byte more whenever it reads.
Places ==
    /\ alive <=> pc \notin {"prompt", "execute"}
    /\ prog = "shell" <=> ~alive
    /\ prog \in {"cat", "ls"} => pc \in {"start", "read", "done", "failed"}
    /\ prog = "grep" => pc # "read"
    /\ prog = "unknown" => pc = "start"
    /\ pc = "start" => \A d \in Above : fd_arr[d].flags = 0
    /\ pc \in {"read", "search", "line", "close"} => IsOpen(file)
    /\ pc \in {"next", "file", "search", "line", "close"} => IsOpen(dir)
    /\ pc \in {"search", "line", "close"} => dir # file
    /\ pc = "search" => last < BUFSIZE
    /\ pc = "line" => start <= last /\ (start = last => last = 0)

ProgramsInv == ProgramsTypeOK /\ StandardStreams /\ Places
-----------------------------------------------------------------------------
\* The first n of a family of sequences, one behind the other.
Joined(g, n) == FlattenSeq([i \in 1 .. n |-> g[i]])

\* What ls prints up to an entry, cat of an entry up to a position, and grep up to
\* an entry.
LsUpTo(n) == Joined([j \in DOMAIN Entries |-> Append(Entries[j].name, NL)], n)

NamesUpTo(n) == Joined([j \in DOMAIN Entries |-> Entries[j].name], n)

CatUpTo(i, pos) == IF Entries[i].type = "dir" THEN NamesUpTo(pos) ELSE SubSeq(Held(i), 1, pos)

FoundIn(i, s) == IF Entries[i].type = "file" THEN GrepOf(i, s) \o Failure(i) ELSE <<>>
GrepUpTo(n, s) == Joined([i \in DOMAIN Entries |-> FoundIn(i, s)], n)

NotRun == {<<>>, <<"e", "x", "i", "t">>}
-----------------------------------------------------------------------------
Named(name, i) == i \in DOMAIN Entries /\ Entries[i].name = name

\* d is open on entry i, at a position in it.
Reading(d, i) ==
    /\ i \in DOMAIN Entries
    /\ IsOpen(d)
    /\ fd_arr[d].ops = Entries[i].type
    /\ fd_arr[d].inode = Entries[i].inode
    /\ fd_arr[d].file_pos <= CASE Entries[i].type = "file" -> Len(Held(i))
                               [] Entries[i].type = "dir" -> Len(Entries)
                               [] Entries[i].type = "rtc" -> 0

\* What cat, and ls, have printed when they have read up to a position.
CatAnswers ==
    /\ pc \in {"read", "done"}
    /\ \E i \in DOMAIN Entries :
          /\ Named(Rest(asked), i)
          /\ pc = "read" => Reading(file, i) /\ printed = CatUpTo(i, fd_arr[file].file_pos)
          /\ pc = "done" => printed = Held(i)

LsAnswers ==
    /\ pc \in {"read", "done"}
    /\ pc = "read" =>
          /\ \E i \in DOMAIN Entries : Named(<<".">>, i) /\ Reading(file, i)
          /\ printed = LsUpTo(fd_arr[file].file_pos)
    /\ pc = "done" => printed = LsUpTo(Len(Entries))

\* A place from which the lines of a text can be told: the first of a line, a
\* newline, or the end.
Begins(text, a) ==
    \/ a = 1 \/ a = Len(text) + 1
    \/ text[a - 1] = NL \/ text[a] = NL

\* The first n bytes of grep's buffer hold a text from place base + 1 on; where they
\* do not, in front of the line it is at and behind the last, there is no newline.
Buffered(bytes, n, text, base, from) ==
    /\ base \in Nat
    /\ base + n <= Len(text)
    /\ \A i \in from + 1 .. n : bytes[i] = text[base + i]
    /\ \A i \in 1 .. BUFSIZE + 1 : i <= from \/ i > n => bytes[i] # NL
    /\ Begins(text, base + from + 1)

NoNewline(bytes, n) == \A i \in 1 .. n : bytes[i] # NL

\* What grep has printed, with what the part of the file it has not searched will
\* add to it.
GrepAnswers ==
    LET s == Rest(asked)
        k == fd_arr[dir].file_pos
        pos == fd_arr[file].file_pos
        base == pos - last
    IN
    /\ pc \in {"next", "file", "search", "line", "close", "done"}
    /\ pc # "done" => \E i \in DOMAIN Entries : Named(<<".">>, i) /\ Reading(dir, i)
    /\ pc \in {"file", "search", "line", "close"} =>
          Named(fname, k) /\ Entries[k].type \in {"file", "rtc"}
    /\ pc \in {"next", "close"} => printed = GrepUpTo(k, s)
    /\ pc = "file" => printed = GrepUpTo(k - 1, s)
    /\ pc = "search" =>
          /\ Reading(file, k)
          /\ Buffered(data, last, Held(k), base, 0)
          /\ NoNewline(data, last)
          /\ printed \o LinesFrom(k, s)[base + 1] = GrepUpTo(k, s)
    /\ pc = "line" =>
          /\ Reading(file, k)
          /\ Buffered(data, last, Held(k), base, start)
          /\ last = BUFSIZE \/ pos = Len(Held(k))
          /\ ret = 0 => start = 0 /\ pos = Len(Held(k)) /\ NoNewline(data, last)
          /\ printed \o LinesFrom(k, s)[base + start + 1] = GrepUpTo(k, s)
    /\ pc = "done" => printed = GrepUpTo(Len(Entries), s)

\* The program is the one the command names, and has its argument.
RunsCommand ==
    /\ \E i \in DOMAIN Entries :
          /\ Named(Word(asked), i)
          /\ Entries[i].inode \in DOMAIN Program
          /\ prog = Program[Entries[i].inode]
    /\ Text(args) = Rest(asked)

\* A command that fits is answered; one that greps, if the files can be searched.
Greps(c) ==
    \E i \in DOMAIN Entries :
        /\ Named(Word(c), i)
        /\ Entries[i].inode \in DOMAIN Program
        /\ Program[Entries[i].inode] = "grep"

Answerable(c) == Fits(c) /\ (Greps(c) => Searchable)

\* What is on the terminal while a command is carried out.
Answered ==
    /\ pc = "prompt" => printed = Meaning(asked)
    /\ pc \in {"execute", "start"} => printed = <<>>
    /\ alive => RunsCommand
    /\ pc # "start" =>
          /\ prog \in {"cat", "grep"} => Rest(asked) # <<>>
          /\ prog = "cat" => CatAnswers
          /\ prog = "ls" => LsAnswers
          /\ prog = "grep" => GrepAnswers

\* At every step what a program has printed, and what it will print of what it has
\* read and not yet shown, is the part of the command's meaning up to where its
\* descriptors stand: no byte is shown twice, left out or taken from an earlier
\* program's buffer, also when a line of grep's goes over several reads.
Answers ==
    /\ NUL \notin Range(asked)
    /\ pc # "prompt" => asked \notin NotRun
    /\ Answerable(asked) => Answered
=============================================================================
