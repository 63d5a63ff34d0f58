------------------------------- MODULE Files -------------------------------
(***************************************************************************)
(* Files as a process sees them: the descriptor table of its pcb           *)
(* (syscall_functions.c: open, close, setup_fd and what halt clears) and   *)
(* the reads of filesystem.c over the read-only image.                     *)
(*                                                                         *)
(* Every call runs with interrupts off and touches only the table of the   *)
(* calling process, so one table is modelled, through the processes that   *)
(* have its pcb one after the other.  Terminal and clock descriptors keep  *)
(* no position; their reads are those of LineInput and Rtc.  Writes to     *)
(* files and directories return -1 and change nothing.                     *)
(*                                                                         *)
(* A byte is identified by the block it is in and its place there, an      *)
(* entry's name by the entry's number.  Scaled down: MAX_FD_ARR_SIZE (8),  *)
(* DATA_BLK_SIZE (4096).                                                   *)
(***************************************************************************)
EXTENDS Integers, Sequences

CONSTANTS
    MAX_FD_ARR_SIZE, \* descriptors of a process
    DATA_BLK_SIZE,   \* bytes of a data block
    NumBlocks,       \* data blocks of the image
    Entries,         \* the directory: a sequence of [name, type, inode]
    Inodes,          \* inode n is Inodes[n + 1]: [length, data_blocks]
    Names,           \* the names processes open
    ReadSizes,       \* the nbytes processes read with
    ReadsOn          \* window: a process may read on behind the end of a file,
                     \* where a failed read has left its position

ASSUME FilesAssumption ==
    /\ MAX_FD_ARR_SIZE \in Nat /\ MAX_FD_ARR_SIZE > 2
    /\ DATA_BLK_SIZE \in Nat \ {0}
    /\ NumBlocks \in Nat \ {0}
    /\ Inodes \in Seq([length : Nat, data_blocks : Seq(Nat)])
    /\ Inodes # <<>>
    \* The pointer array is longer than a file needs.
    /\ \A i \in DOMAIN Inodes :
          Len(Inodes[i].data_blocks) * DATA_BLK_SIZE > Inodes[i].length
    /\ Len(Entries) \in Nat /\ DOMAIN Entries = 1 .. Len(Entries)
    /\ \A i \in DOMAIN Entries :
          /\ Entries[i].type \in {"rtc", "dir", "file"}
          /\ Entries[i].inode \in 0 .. Len(Inodes) - 1
    /\ ReadSizes \subseteq Nat
    /\ ReadsOn \in BOOLEAN

VARIABLES
    fd_arr,  \* this_pcb->fd_arr
    alive,   \* a process has this pcb
    ret,     \* what the last read returned
    buf      \* the bytes, or the name, it put in the caller's buffer

vars == <<fd_arr, alive, ret, buf>>

Fds == 0 .. MAX_FD_ARR_SIZE - 1

TypeOK ==
    /\ fd_arr \in [Fds -> [flags : {0, 1},
                           ops : {"none", "stdin", "stdout", "rtc", "dir", "file"},
                           inode : 0 .. Len(Inodes) - 1,
                           file_pos : Nat]]
    /\ alive \in BOOLEAN
    /\ ret \in Int

Vacant(ops) == [flags |-> 0, ops |-> ops, inode |-> 0, file_pos |-> 0]
-----------------------------------------------------------------------------
(***************************************************************************)
(* filesystem.c                                                            *)
(***************************************************************************)

InodeOf(inode) == Inodes[inode + 1]
Pointer(inode, idx) == InodeOf(inode).data_blocks[idx + 1]
BadPointer(inode, idx) == Pointer(inode, idx) > NumBlocks - 1

NextBlockFirst(k, pos) == pos % DATA_BLK_SIZE = 0  \* mutant: "buf_counter != 0" dropped
NextBlock(k, pos) == k # 0 /\ pos % DATA_BLK_SIZE = 0

\* Before read_data's loop, and its k-th turn: the block it is in, the bytes
\* copied, and whether it met a pointer out of range.
CopyStart(inode, offset) ==
    [idx |-> offset \div DATA_BLK_SIZE, data |-> <<>>,
     bad |-> BadPointer(inode, offset \div DATA_BLK_SIZE)]

CopyByte(inode, offset, k, s) ==
    LET pos == offset + k - 1
        idx == IF NextBlock(k - 1, pos) THEN s.idx + 1 ELSE s.idx
    IN  IF s.bad \/ pos >= InodeOf(inode).length THEN s
        ELSE IF BadPointer(inode, idx) THEN [s EXCEPT !.bad = TRUE]
        ELSE [s EXCEPT !.idx = idx,
                 !.data = Append(@, <<Pointer(inode, idx), pos % DATA_BLK_SIZE>>)]

Copy(inode, offset, length) ==
    LET After[k \in 0 .. length] ==
          IF k = 0 THEN CopyStart(inode, offset)
                   ELSE CopyByte(inode, offset, k, After[k - 1])
    IN  After[length]

\* read_data: its return value and what it leaves in the buffer.
ReadData(inode, offset, length) ==
    IF offset > InodeOf(inode).length THEN [ret |-> 0, data |-> <<>>]
    ELSE LET c == Copy(inode, offset, length)
         IN  [ret |-> IF c.bad THEN -1
                      ELSE IF Len(c.data) = length THEN length ELSE 0,
              data |-> c.data]

EofRetAsked(n, rest) == n  \* mutant: never 0, so a reader never stops
EofRet(n, rest) == rest

AdvanceByReturn(n, got) == got  \* mutant: the -1 of a failed read too
Advance(n, got) == n

\* file_read: a read that could not be filled is taken for the end of the file.
FileRead(fd, n) ==
    LET f == fd_arr[fd]
        r == ReadData(f.inode, f.file_pos, n)
        rest == InodeOf(f.inode).length - f.file_pos
    IN
    /\ alive
    /\ fd >= 2
    /\ f.flags = 1 /\ f.ops = "file"
    /\ buf' = r.data
    /\ \/ /\ r.ret = 0
          /\ ret' = EofRet(n, rest)
          /\ fd_arr' = [fd_arr EXCEPT ![fd].file_pos = @ + rest]
       \/ /\ r.ret # 0
          /\ ret' = r.ret
          /\ fd_arr' = [fd_arr EXCEPT ![fd].file_pos = @ + Advance(n, r.ret)]
    /\ UNCHANGED alive

\* The position is beyond the end: a read that failed moved it by all it was
\* asked for.
Behind(fd) == fd_arr[fd].file_pos > InodeOf(fd_arr[fd].inode).length

EntryName(i) == <<-1, i>>

\* dir_read, of the entry file_pos counts to.
DirRead(fd) ==
    LET f == fd_arr[fd] IN
    /\ alive
    /\ f.flags = 1 /\ f.ops = "dir"
    /\ \/ /\ f.file_pos >= Len(Entries)
          /\ ret' = 0 /\ buf' = <<>>
          /\ UNCHANGED fd_arr
       \/ /\ f.file_pos < Len(Entries)
          /\ buf' = <<EntryName(f.file_pos)>>
          /\ ret' = 1
          /\ fd_arr' = [fd_arr EXCEPT ![fd].file_pos = @ + 1]
    /\ UNCHANGED alive
-----------------------------------------------------------------------------
(***************************************************************************)
(* syscall_functions.c                                                     *)
(***************************************************************************)

\* The first entry of that name (read_dentry_by_name).
IsEntry(i, name) ==
    /\ Entries[i].name = name
    /\ \A j \in 1 .. i - 1 : Entries[j].name # name

LowestVacant(fd) ==
    /\ fd_arr[fd].flags = 0
    /\ \A d \in Fds : d < fd => fd_arr[d].flags # 0

\* A name not found, or a full table, makes open return -1.
Open(name) ==
    \E i \in DOMAIN Entries, fd \in Fds :
        /\ alive
        /\ IsEntry(i, name)
        /\ LowestVacant(fd)
        /\ fd_arr' = [fd_arr EXCEPT ![fd] =
                        [flags |-> 1, ops |-> Entries[i].type,
                         inode |-> Entries[i].inode, file_pos |-> 0]]
        /\ UNCHANGED <<alive, ret, buf>>

CloseableAll == Fds  \* mutant: "fd < 2" dropped
Closeable == Fds \ {0, 1}

\* The file_ops stay.
Close(fd) ==
    /\ alive
    /\ fd \in Closeable
    /\ fd_arr[fd].flags = 1
    /\ fd_arr' = [fd_arr EXCEPT ![fd] = Vacant(@.ops)]
    /\ UNCHANGED <<alive, ret, buf>>

\* halt of a process with a parent closes what is open above stdout and clears
\* the file_ops.
HaltTable ==
    [d \in Fds |-> IF d < 2 THEN fd_arr[d]
                   ELSE IF fd_arr[d].flags = 1 THEN Vacant("none")
                   ELSE [fd_arr[d] EXCEPT !.ops = "none"]]

Halt ==
    /\ alive
    /\ alive' = FALSE
    /\ fd_arr' = HaltTable
    /\ UNCHANGED <<ret, buf>>

\* halt of a parentless process goes on to execute and never comes to its loop
\* over the descriptors: those that are open stay so in the pcb.
HaltRoot ==
    /\ alive
    /\ alive' = FALSE
    /\ UNCHANGED <<fd_arr, ret, buf>>

\* setup_fd, for the process execute gives this pcb to.
SetupTable ==
    [d \in Fds |->
        CASE d = 0 -> [Vacant("stdin") EXCEPT !.flags = 1]
          [] d = 1 -> [Vacant("stdout") EXCEPT !.flags = 1]
          [] d > 1 -> Vacant(fd_arr[d].ops)]

Execute ==
    /\ ~alive
    /\ alive' = TRUE
    /\ fd_arr' = SetupTable
    /\ UNCHANGED <<ret, buf>>

\* The pcb area is zero before its first process.
Init ==
    /\ fd_arr = [d \in Fds |-> Vacant("none")]
    /\ alive = FALSE
    /\ ret = 0
    /\ buf = <<>>

Next ==
    \/ Execute
    \/ Halt
    \/ HaltRoot
    \/ \E name \in Names : Open(name)
    \/ \E fd \in Fds : Close(fd)
    \/ \E fd \in Fds, n \in ReadSizes : (Behind(fd) => ReadsOn) /\ FileRead(fd, n)
    \/ \E fd \in Fds : DirRead(fd)

Spec == Init /\ [][Next]_vars
-----------------------------------------------------------------------------
\* file_read returns "-1 (failure), or n bytes transferred (success)", and never
\* anything else: no other negative number, and no count of bytes that are not
\* in the buffer.
ReadTellsTransfer == ret = -1 \/ ret = Len(buf)

\* Whatever a process opens and closes, its descriptors 0 and 1 stay those of
\* its terminal, and no other descriptor becomes one.
StandardStreams ==
    alive =>
        /\ \A fd \in {0, 1} : fd_arr[fd].flags = 1
        /\ \A fd \in Fds :
              fd_arr[fd].flags = 1 =>
                 /\ fd = 0 <=> fd_arr[fd].ops = "stdin"
                 /\ fd = 1 <=> fd_arr[fd].ops = "stdout"
                 /\ fd_arr[fd].ops # "none"
=============================================================================
