------------------------------ MODULE Programs ------------------------------
(***************************************************************************)
(* Commands, from the bytes a shell reads to the text they leave on the    *)
(* terminal: ece391shell.c, the parsing of execute and getargs             *)
(* (syscall_functions.c), and the programs cat, ls and grep over the       *)
(* descriptors of Files.                                                   *)
(*                                                                         *)
(* One shell and one program at a time, in one slot whose pcb each program *)
(* takes over from the one before.  A step is a system call of the program *)
(* with what it computes from the answer; its opens, reads and closes are  *)
(* those of Files.  A name or a text is a sequence of bytes; a message of  *)
(* a program is one item of the output, and the prompts are left out.      *)
(* Scaled down: MAX_FILENAME_LEN (32), MAX_ARG_LEN, BUFSIZE (1024) and the *)
(* four bytes of the ELF mark.                                             *)
(***************************************************************************)
EXTENDS Files, SequencesExt

CONSTANTS
    MAX_FILENAME_LEN,
    MAX_ARG_LEN,
    BUFSIZE,           \* of the buffers of cat and grep
    Bytes,             \* the characters
    Blocks,            \* block n holds the bytes Blocks[n + 1]
    ELF,               \* the first bytes of an executable
    Program,           \* the program an inode is the image of
    Lines,             \* what terminal_read hands the shell
    Garbage            \* what grep may find in its buffer before it fills it

NUL == "0"
NL == "n"
SP == " "
None == -1

ASSUME ProgramsAssumption ==
    /\ MAX_FILENAME_LEN \in Nat \ {0}
    /\ MAX_ARG_LEN \in Nat /\ MAX_ARG_LEN > MAX_FILENAME_LEN + 1
    /\ BUFSIZE \in 1 .. MAX_ARG_LEN
    /\ {NUL, NL, SP, ".", ":"} \subseteq Bytes
    /\ Blocks \in [1 .. NumBlocks -> [1 .. DATA_BLK_SIZE -> Bytes]]
    \* The buffer of ls, and grep's for a name, have 33 bytes.
    /\ \A i \in DOMAIN Entries :
          /\ Entries[i].name \in Seq(Bytes)
          /\ Len(Entries[i].name) \in 1 .. MAX_FILENAME_LEN
    /\ ELF \in Seq(Bytes) /\ ELF # <<>>
    /\ \A n \in DOMAIN Program : Program[n] \in {"cat", "ls", "grep"}
    /\ Lines \subseteq Seq(Bytes)
    /\ Garbage \subseteq Bytes

VARIABLES
    args,     \* this_pcb->args
    pc,       \* "prompt", "execute", then where the program is
    prog,     \* the program
    asked,    \* the command
    printed,  \* the output since it was given
    dir,      \* grep: the descriptor of the directory
    file,     \* fd of cat, ls, grep: the one it reads
    fname,    \* grep: the file it searches
    data,     \* grep: the bytes it has of it
    last,     \* grep: how many
    start     \* grep: where the line it searches begins

local == <<dir, file, fname, data, last, start>>
programsVars == <<vars, args, pc, prog, asked, printed, local>>

\* What the shell and the programs say of their own.
Messages ==
    {"no such command", "program terminated by exception", "program terminated abnormally",
     "could not read arguments", "could not read argument", "file not found",
     "file read failed", "directory entry read failed"}

ProgramsTypeOK ==
    /\ TypeOK
    /\ args \in [1 .. MAX_ARG_LEN -> Bytes]
    /\ pc \in {"prompt", "execute", "start", "read",
               "next", "file", "search", "line", "close", "done", "failed"}
    /\ prog \in {"shell", "cat", "ls", "grep", "unknown"}
    /\ {asked, fname} \subseteq Seq(Bytes)
    /\ printed \in Seq(Bytes \cup Messages)
    /\ {dir, file} \subseteq Fds \cup {None}
    /\ data \in [1 .. BUFSIZE + 1 -> Bytes]
    /\ last \in 0 .. BUFSIZE
    /\ start \in 0 .. BUFSIZE + 1

\* The C string at the start of an array.
Text(a) ==
    LET ends == {i \in DOMAIN a : a[i] = NUL}
        len == IF ends = {} THEN Len(a) ELSE (CHOOSE i \in ends : \A j \in ends : i <= j) - 1
    IN  SubSeq(a, 1, len)

\* The bytes Files identifies by their place, or the name by its entry.
Item(p) == IF p[1] < 0 THEN Entries[p[2] + 1].name ELSE <<Blocks[p[1] + 1][p[2] + 1]>>
Taken(b) == FlattenSeq([i \in DOMAIN b |-> Item(b[i])])
-----------------------------------------------------------------------------
(***************************************************************************)
(* execute and getargs (syscall_functions.c)                               *)
(***************************************************************************)

\* The first space among the first MAX_FILENAME_LEN bytes, or where they end.
CmdLen(c) == IF Len(c) > MAX_FILENAME_LEN THEN MAX_FILENAME_LEN ELSE Len(c)
HasArgs(c) == \E i \in 1 .. CmdLen(c) : c[i] = SP
NameEnd(c) ==
    IF HasArgs(c) THEN (CHOOSE i \in 1 .. CmdLen(c) :
                            c[i] = SP /\ \A j \in 1 .. i - 1 : c[j] # SP) - 1
    ELSE CmdLen(c)
FileName(c) == SubSeq(c, 1, NameEnd(c))

\* The argument keeps the spaces in front of it and loses what is beyond one
\* byte more than the command was measured to have.
ArgText(c) ==
    LET after == SubSeq(c, NameEnd(c) + 2, Len(c))
    IN  IF ~HasArgs(c) THEN <<>>
        ELSE IF Len(after) > CmdLen(c) + 1 THEN SubSeq(after, 1, CmdLen(c) + 1) ELSE after

Copied(to, text) == [i \in DOMAIN to |-> IF i <= Len(text) THEN text[i] ELSE to[i]]
Cleared(a) == [i \in DOMAIN a |-> NUL]
NewArgsOver(old, text) == Copied(old, text)  \* mutant: memset of args dropped
NewArgs(old, text) == Copied(Cleared(old), text)

\* A file shorter than the mark leaves the rest of is_valid_exec's buffer as
\* the stack had it: with the right bytes there, the clock or the directory
\* is taken for a program.
Mark == [i \in DOMAIN Entries |-> Taken(ReadData(Entries[i].inode, 0, Len(ELF)).data)]
IsExecutable(i) == Mark[i] = ELF
MayBeTaken(i) == Len(Mark[i]) < Len(ELF) /\ IsPrefix(Mark[i], ELF)

ASSUME ExecutablesAssumption ==
    \A i \in DOMAIN Entries : IsExecutable(i) => Entries[i].inode \in DOMAIN Program

Found(name) == \E i \in DOMAIN Entries : IsEntry(i, name)

\* What execute returns of a program that ended: halt puts the status in eax,
\* but at LUMETTA execute goes on to its own "return 0".
Returned(status) == 0

Says(rval) ==
    CASE rval = 0 -> <<>>
      [] rval = -1 -> <<"no such command">>
      [] rval = 256 -> <<"program terminated by exception">>
      [] OTHER -> <<"program terminated abnormally">>

ExecuteFails ==
    /\ pc = "execute"
    /\ \A i \in DOMAIN Entries : IsEntry(i, FileName(asked)) => ~IsExecutable(i)
    /\ printed' = Says(-1)
    /\ pc' = "prompt"
    /\ UNCHANGED <<vars, args, prog, asked, local>>

ExecuteStarts ==
    /\ pc = "execute"
    /\ \E i \in DOMAIN Entries :
          /\ IsEntry(i, FileName(asked))
          /\ \/ IsExecutable(i) /\ prog' = Program[Entries[i].inode]
             \/ MayBeTaken(i) /\ prog' = "unknown"
    /\ Execute
    /\ args' = NewArgs(args, ArgText(asked))
    /\ pc' = "start"
    /\ UNCHANGED <<asked, printed, local>>

\* getargs of a whole buffer fails for an empty argument only.
HasArg == Text(args) # <<>>

NoLocals == dir' = None /\ file' = None /\ fname' = <<>> /\ last' = 0 /\ start' = 0
            /\ data' = [i \in 1 .. BUFSIZE + 1 |-> NUL]

\* A program returns from main or halts, and its shell resumes.
Ends(status, text) ==
    /\ Halt
    /\ printed' = printed \o text \o Says(Returned(status))
    /\ pc' = "prompt" /\ prog' = "shell"
    /\ NoLocals
    /\ UNCHANGED <<args, asked>>

\* The answer of open: a descriptor, or -1 for a name no entry has.
Opens(name) == Open(name) /\ file' = CHOOSE d \in Fds : LowestVacant(d)
CannotOpen(name) == ~Found(name) \/ \A d \in Fds : fd_arr[d].flags = 1

\* A read of the clock returns 0 after its period (Rtc).
ClockRead(d) ==
    /\ fd_arr[d].ops = "rtc"
    /\ ret' = 0 /\ buf' = <<>>
    /\ UNCHANGED <<fd_arr, alive>>

Reads(d, n) == FileRead(d, n) \/ DirRead(d) \/ ClockRead(d)

At(p, where) == prog = p /\ pc = where
-----------------------------------------------------------------------------
(***************************************************************************)
(* src/syscalls                                                            *)
(***************************************************************************)

Chopped(l) == IF l # <<>> /\ l[Len(l)] = NL THEN Front(l) ELSE l

\* The shell takes one newline off and runs the rest as one command, also
\* when the bytes it was handed hold several lines or none.
ShellReads ==
    \E l \in Lines :
        /\ pc = "prompt"
        /\ asked' = Chopped(l)
        /\ printed' = <<>>
        /\ pc' = IF asked' \in {<<>>, <<"e", "x", "i", "t">>} THEN "prompt" ELSE "execute"
        /\ UNCHANGED <<vars, args, prog, local>>

CatStarts ==
    /\ At("cat", "start")
    /\ \/ /\ ~HasArg
          /\ Ends(3, <<"could not read arguments">>)
       \/ /\ HasArg
          /\ Opens(Text(args))
          /\ pc' = "read"
          /\ UNCHANGED <<args, prog, asked, printed, dir, fname, data, last, start>>
       \/ /\ HasArg /\ CannotOpen(Text(args))
          /\ Ends(2, <<"file not found">>)

LsStarts ==
    /\ At("ls", "start")
    /\ Opens(<<".">>)
    /\ pc' = "read"
    /\ UNCHANGED <<args, prog, asked, printed, dir, fname, data, last, start>>

\* cat and ls: write what was read, ls with a newline after it.
ReadAndWrite ==
    /\ prog \in {"cat", "ls"} /\ pc = "read"
    /\ Reads(file, BUFSIZE)
    /\ \/ /\ ret' > 0
          /\ printed' = printed \o Taken(buf') \o (IF prog = "ls" THEN <<NL>> ELSE <<>>)
          /\ UNCHANGED pc
       \/ ret' = 0 /\ pc' = "done" /\ UNCHANGED printed
       \/ ret' = -1 /\ pc' = "failed" /\ UNCHANGED printed
    /\ UNCHANGED <<args, prog, asked, local>>

GrepStarts ==
    /\ At("grep", "start")
    /\ \/ /\ ~HasArg
          /\ Ends(3, <<"could not read argument">>)
       \/ /\ HasArg
          /\ Open(<<".">>)
          /\ dir' = CHOOSE d \in Fds : LowestVacant(d)
          /\ pc' = "next"
          /\ UNCHANGED <<args, prog, asked, printed, file, fname, data, last, start>>

\* Names that begin with a dot are passed over.
GrepNext ==
    /\ At("grep", "next")
    /\ DirRead(dir)
    /\ fname' = Taken(buf')
    /\ pc' = IF ret' = 0 THEN "done" ELSE IF fname'[1] = "." THEN "next" ELSE "file"
    /\ UNCHANGED <<args, prog, asked, printed, dir, file, data, last, start>>

\* The directory has the name, and the table room for a second descriptor.
GrepOpens ==
    /\ At("grep", "file")
    /\ Opens(fname)
    /\ \E g \in Garbage : data' = [i \in 1 .. BUFSIZE + 1 |-> g]
    /\ last' = 0
    /\ pc' = "search"
    /\ UNCHANGED <<args, prog, asked, printed, dir, fname, start>>

Filled(bytes) ==
    [i \in DOMAIN data |-> IF i - last \in DOMAIN bytes THEN bytes[i - last] ELSE data[i]]

GrepReads ==
    /\ At("grep", "search")
    /\ Reads(file, BUFSIZE - last)
    /\ \/ /\ ret' = -1
          /\ pc' = "failed"
          /\ UNCHANGED <<data, last, start>>
       \/ /\ ret' >= 0
          /\ data' = Filled(Taken(buf'))
          /\ last' = last + ret'
          /\ start' = 0
          /\ pc' = "line"
    /\ UNCHANGED <<args, prog, asked, printed, dir, file, fname>>

\* Positions in data count from 0, as in the code.
LineEnd ==
    CHOOSE e \in start .. last :
        /\ e = last \/ data[e + 1] = NL
        /\ \A i \in start .. e - 1 : data[i + 1] # NL

Matches(line, text) ==
    \E i \in 1 .. Len(line) : IsPrefix(text, SubSeq(line, i, Len(line)))

KeptAlways(e) == data[e + 1] # NL /\ ret # 0  \* mutant: "line_start != 0" dropped
Kept(e) == data[e + 1] # NL /\ ret # 0 /\ start # 0

\* do_one_file's turn for one line: the last one in the buffer is moved to its
\* front when it may go on in the next read, any other is searched.
GrepSearches ==
    LET e == LineEnd
        ended == [data EXCEPT ![e + 1] = NUL]
        line == SubSeq(data, start + 1, e)
        again == IF ret = 0 THEN "close" ELSE "search"
    IN
    /\ At("grep", "line")
    /\ \/ /\ Kept(e)
          \* ece391_strcpy
          /\ data' = Copied(ended, Append(Text(SubSeq(ended, start + 1, Len(data))), NUL))
          /\ last' = last - start
          /\ pc' = again
          /\ UNCHANGED <<start, printed>>
       \/ /\ ~Kept(e)
          /\ data' = ended
          /\ start' = e + 1
          /\ last' = IF start' >= last THEN 0 ELSE last
          /\ pc' = IF start' >= last THEN again ELSE "line"
          /\ printed' = IF Matches(line, Text(args))
                           THEN printed \o fname \o <<":">> \o Text(line) \o <<NL>>
                           ELSE printed
    /\ UNCHANGED <<vars, args, prog, asked, dir, file, fname>>

GrepCloses ==
    /\ At("grep", "close")
    /\ Close(file)
    /\ file' = None
    /\ pc' = "next"
    /\ UNCHANGED <<args, prog, asked, printed, dir, fname, data, last, start>>

Returns ==
    \/ pc = "done" /\ Ends(0, <<>>)
    \/ pc = "failed" /\ Ends(3, <<IF prog = "ls" THEN "directory entry read failed"
                                  ELSE "file read failed">>)

\* A file without code that was taken for a program: what runs is whatever
\* the page held, and nothing says that it ends.
UnknownEnds == prog = "unknown" /\ \E status \in 0 .. 1 : Ends(status, <<>>)

ProgramsInit ==
    /\ Init
    /\ args = [i \in 1 .. MAX_ARG_LEN |-> NUL]
    /\ pc = "prompt" /\ prog = "shell"
    /\ asked = <<>> /\ printed = <<>>
    /\ dir = None /\ file = None /\ fname = <<>> /\ last = 0 /\ start = 0
    /\ data = [i \in 1 .. BUFSIZE + 1 |-> NUL]

Runs ==
    \/ ExecuteFails \/ ExecuteStarts
    \/ CatStarts \/ LsStarts \/ ReadAndWrite
    \/ GrepStarts \/ GrepNext \/ GrepOpens \/ GrepReads
    \/ GrepSearches \/ GrepCloses
    \/ Returns

ProgramsNext == ShellReads \/ Runs \/ UnknownEnds

ProgramsSpec == ProgramsInit /\ [][ProgramsNext]_programsVars

\* A program makes its next call: the scheduler runs every terminal (Process).
FairProgramsSpec == ProgramsSpec /\ WF_programsVars(Runs)
-----------------------------------------------------------------------------
\* Every command whose program is one of these is answered: cat, ls and grep
\* find the end of what they read, whatever its length and the buffer's, and
\* every way out of them leads back to the prompt of the shell.
CommandsEnd == (pc # "prompt" /\ prog # "unknown") ~> (pc = "prompt" \/ prog = "unknown")
=============================================================================
