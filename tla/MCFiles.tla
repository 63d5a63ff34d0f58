------------------------------ MODULE MCFiles ------------------------------
(***************************************************************************)
(* A small image, and the descriptor table read as Streams.                *)
(***************************************************************************)
EXTENDS Files

\* The directory itself, the clock, a file that ends inside a block, one that
\* ends with a block, and one whose second block does not exist.
MCEntries ==
    <<[name |-> ".", type |-> "dir", inode |-> 0],
      [name |-> "rtc", type |-> "rtc", inode |-> 0],
      [name |-> "odd", type |-> "file", inode |-> 1],
      [name |-> "even", type |-> "file", inode |-> 2],
      [name |-> "torn", type |-> "file", inode |-> 3]>>

MCInodes ==
    <<[length |-> 0, data_blocks |-> <<0>>],
      [length |-> 5, data_blocks |-> <<3, 0, 2, 0>>],
      [length |-> 4, data_blocks |-> <<1, 4, 0>>],
      [length |-> 4, data_blocks |-> <<5, 9, 0>>]>>

MCNames == {".", "rtc", "odd", "even", "torn", "missing"}

\* What a file holds, from its length and blocks alone.
FileContent(inode) ==
    [i \in 1 .. InodeOf(inode).length |->
        <<Pointer(inode, (i - 1) \div DATA_BLK_SIZE), (i - 1) % DATA_BLK_SIZE>>]

Content(type, inode) ==
    CASE type = "file" -> FileContent(inode)
      [] type = "dir" -> [i \in 1 .. Len(Entries) |-> EntryName(i - 1)]
      [] type = "rtc" -> <<>>

Opened == {<<Entries[i].type, Entries[i].inode>> : i \in DOMAIN Entries}

SoundFiles ==
    {f \in Opened :
        f[1] = "file" =>
            \A i \in 1 .. InodeOf(f[2]).length : FileContent(f[2])[i][1] < NumBlocks}

NoStream == [file |-> <<"none", 0>>, pos |-> 0]

StreamOf(fd) ==
    IF fd.flags = 0 THEN NoStream
                    ELSE [file |-> <<fd.ops, fd.inode>>, pos |-> fd.file_pos]

Above == 2 .. MAX_FD_ARR_SIZE - 1

Table ==
    INSTANCE Streams WITH
        Descriptors <- Above,
        Contents <- [f \in Opened |-> Content(f[1], f[2])],
        Sound <- SoundFiles,
        Closed <- NoStream,
        streams <- [d \in Above |-> StreamOf(fd_arr[d])],
        out <- buf

\* The descriptor table implements streams: every read, of whatever size and
\* wherever blocks begin, hands over the next bytes of the file (or the next
\* name of the directory) and the descriptors of one process never disturb
\* each other; the next process finds none of them open, also after the halt
\* that does not close them.
ImplementsStreams == Table!Spec
=============================================================================
