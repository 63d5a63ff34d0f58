---------------------------- MODULE Files_proofs ----------------------------
(****************************************************************************)
(* That descriptors keep their types and the standard ones their meaning,   *)
(* for any image, any size of the table and any names and sizes of reads;   *)
(* what a read of a file hands over, by induction over the turns of         *)
(* read_data's loop; that the descriptor table implements Streams; and that *)
(* the programs which use it, the shell, execute, cat, ls and grep, answer  *)
(* every command as it is meant, whatever was run before it.                *)
(****************************************************************************)
EXTENDS ProgramsAnswers, TLAPS, SequenceTheorems, WellFoundedInduction

Descriptors == [flags : {0, 1},
                ops : {"none", "stdin", "stdout", "rtc", "dir", "file"},
                inode : 0 .. Len(Inodes) - 1,
                file_pos : Nat]

Inv == TypeOK /\ StandardStreams

LEMMA ElementType ==
    ASSUME NEW S, NEW s \in Seq(S)
    PROVE  \A i \in 1 .. Len(s) : s[i] \in S
OBVIOUS

\* The image has an inode, and a file's length is a number.
LEMMA ImageTypes ==
    /\ Len(Inodes) \in Nat \ {0}
    /\ \A inode \in 0 .. Len(Inodes) - 1 : InodeOf(inode).length \in Nat
<1>1. /\ Inodes \in Seq([length : Nat, data_blocks : Seq(Nat)])
      /\ Inodes # <<>>
  BY FilesAssumption
<1>2. Len(Inodes) \in Nat \ {0}
  BY <1>1
<1>3. \A i \in 1 .. Len(Inodes) : Inodes[i].length \in Nat
  <2>1. \A i \in 1 .. Len(Inodes) : Inodes[i] \in [length : Nat, data_blocks : Seq(Nat)]
    BY <1>1, ElementType, Zenon
  <2>2. QED
    BY <2>1
<1>4. QED
  BY <1>2, <1>3 DEF InodeOf

LEMMA VacantType ==
    ASSUME NEW ops \in {"none", "stdin", "stdout", "rtc", "dir", "file"}
    PROVE  Vacant(ops) \in Descriptors
BY ImageTypes DEF Vacant, Descriptors

\* A descriptor of the table by its fields.
LEMMA FieldTypes ==
    ASSUME TypeOK, NEW fd \in Fds
    PROVE  /\ fd_arr[fd] \in Descriptors
           /\ fd_arr[fd].flags \in {0, 1}
           /\ fd_arr[fd].ops \in {"none", "stdin", "stdout", "rtc", "dir", "file"}
           /\ fd_arr[fd].inode \in 0 .. Len(Inodes) - 1
           /\ fd_arr[fd].file_pos \in Nat
BY DEF TypeOK, Descriptors

LEMMA StandardFds == 0 \in Fds /\ 1 \in Fds /\ Fds \subseteq Nat
BY FilesAssumption DEF Fds

LEMMA InvInit == Init => Inv
<1>1. SUFFICES ASSUME Init PROVE Inv
  OBVIOUS
<1>2. TypeOK
  <2>1. Vacant("none") \in Descriptors
    BY VacantType
  <2>2. fd_arr \in [Fds -> Descriptors]
    BY <1>1, <2>1 DEF Init
  <2>3. alive \in BOOLEAN
    BY <1>1, Zenon DEF Init
  <2>4. ret \in Int
    <3>1. ret = 0
      BY <1>1 DEF Init
    <3>2. QED
      BY <3>1
  <2>5. QED
    BY <2>2, <2>3, <2>4, Zenon DEF TypeOK, Descriptors
<1>3. StandardStreams
  BY <1>1 DEF Init, StandardStreams
<1>4. QED
  BY <1>2, <1>3 DEF Inv

\* A read that moves a position and nothing else of the table.
LEMMA PositionMoves ==
    ASSUME Inv, NEW fd \in Fds, NEW pos \in Nat,
           fd_arr' = [fd_arr EXCEPT ![fd].file_pos = pos],
           alive' = alive, ret' \in Int
    PROVE  Inv'
<1>1. fd_arr[fd] \in Descriptors
  BY FieldTypes DEF Inv
<1>2. [fd_arr[fd] EXCEPT !.file_pos = pos] \in Descriptors
  BY <1>1 DEF Descriptors
<1>3. \A d \in Fds : fd_arr'[d] = IF d = fd THEN [fd_arr[d] EXCEPT !.file_pos = pos]
                                          ELSE fd_arr[d]
  BY DEF Inv, TypeOK
<1>4. TypeOK'
  BY <1>2 DEF Inv, TypeOK, Descriptors
<1>5. \A d \in Fds : /\ fd_arr'[d].flags = fd_arr[d].flags
                     /\ fd_arr'[d].ops = fd_arr[d].ops
  BY <1>1, <1>3 DEF Descriptors
<1>6. StandardStreams'
  BY <1>5, StandardFds DEF Inv, StandardStreams
<1>7. QED
  BY <1>4, <1>6 DEF Inv

\* What read_data returns, whatever it finds in the image.
LEMMA ReadReturns ==
    ASSUME NEW inode, NEW offset, NEW length \in Nat
    PROVE  ReadData(inode, offset, length).ret \in {-1, 0, length}
BY DEF ReadData

LEMMA FileReadMoves ==
    ASSUME Inv, NEW fd \in Fds, NEW n \in Nat, FileRead(fd, n)
    PROVE  \E pos \in Nat : /\ fd_arr' = [fd_arr EXCEPT ![fd].file_pos = pos]
                            /\ alive' = alive
                            /\ ret' \in Int
<1> DEFINE f == fd_arr[fd]
           r == ReadData(f.inode, f.file_pos, n)
           rest == InodeOf(f.inode).length - f.file_pos
<1>1. n \in Nat
  BY FilesAssumption
<1>2. f.inode \in 0 .. Len(Inodes) - 1 /\ f.file_pos \in Nat
  BY FieldTypes DEF Inv
<1>3. InodeOf(f.inode).length \in Nat
  BY <1>2, ImageTypes
<1>4. rest \in Int /\ f.file_pos + rest \in Nat
  BY <1>2, <1>3
<1>5. r.ret \in Int
  BY <1>1, ReadReturns
<1> HIDE DEF r, rest
<1>6. CASE r.ret = 0
  <2>1. ret' = rest /\ fd_arr' = [fd_arr EXCEPT ![fd].file_pos = f.file_pos + rest]
    BY <1>6 DEF FileRead, EofRet, r, rest, Inv, TypeOK
  <2>2. QED
    BY <1>4, <2>1 DEF FileRead
<1>7. CASE r.ret # 0
  <2>1. ret' = r.ret /\ fd_arr' = [fd_arr EXCEPT ![fd].file_pos = f.file_pos + n]
    BY <1>7 DEF FileRead, Advance, r, rest, Inv, TypeOK
  <2>2. f.file_pos + n \in Nat
    BY <1>1, <1>2
  <2>3. QED
    BY <1>5, <2>1, <2>2 DEF FileRead
<1>8. QED
  BY <1>6, <1>7

LEMMA FileReadKeeps ==
    ASSUME Inv, NEW fd \in Fds, NEW n \in Nat, FileRead(fd, n)
    PROVE  Inv'
BY FileReadMoves, PositionMoves

LEMMA DirReadKeeps ==
    ASSUME Inv, NEW fd \in Fds, DirRead(fd)
    PROVE  Inv'
<1>1. fd_arr[fd].file_pos + 1 \in Nat
  BY FieldTypes DEF Inv
<1>2. CASE UNCHANGED fd_arr
  BY <1>2 DEF DirRead, Inv, TypeOK, StandardStreams
<1>3. CASE fd_arr' = [fd_arr EXCEPT ![fd].file_pos = fd_arr[fd].file_pos + 1]
  <2>1. alive' = alive /\ ret' \in Int
    BY DEF DirRead
  <2>2. QED
    BY <1>1, <1>3, <2>1, PositionMoves
<1>4. QED
  BY <1>2, <1>3 DEF DirRead

\* The lowest vacant descriptor is never a standard one.
LEMMA OpenKeeps ==
    ASSUME Inv, NEW name, Open(name)
    PROVE  Inv'
<1>1. PICK i \in DOMAIN Entries, fd \in Fds :
        /\ LowestVacant(fd)
        /\ fd_arr' = [fd_arr EXCEPT ![fd] =
                        [flags |-> 1, ops |-> Entries[i].type,
                         inode |-> Entries[i].inode, file_pos |-> 0]]
  BY DEF Open
<1>2. alive /\ alive' = alive /\ ret' = ret
  BY DEF Open
<1> DEFINE new == [flags |-> 1, ops |-> Entries[i].type,
                   inode |-> Entries[i].inode, file_pos |-> 0]
<1>3. /\ Entries[i].type \in {"rtc", "dir", "file"}
      /\ Entries[i].inode \in 0 .. Len(Inodes) - 1
  BY FilesAssumption
<1>4. new \in Descriptors
  BY <1>3 DEF Descriptors
<1>5. TypeOK'
  BY <1>1, <1>2, <1>4 DEF Inv, TypeOK, Descriptors
<1>6. fd \notin {0, 1}
  BY <1>1, <1>2 DEF LowestVacant, Inv, StandardStreams
<1>7. \A d \in Fds : fd_arr'[d] = IF d = fd THEN new ELSE fd_arr[d]
  BY <1>1 DEF Inv, TypeOK
<1>8. new.flags = 1 /\ new.ops = Entries[i].type
  OBVIOUS
<1> HIDE DEF new
<1>9. StandardStreams'
  BY <1>2, <1>3, <1>6, <1>7, <1>8, StandardFds DEF Inv, StandardStreams
<1>10. QED
  BY <1>5, <1>9 DEF Inv

LEMMA CloseKeeps ==
    ASSUME Inv, NEW fd \in Fds, Close(fd)
    PROVE  Inv'
<1> DEFINE new == Vacant(fd_arr[fd].ops)
<1>1. new \in Descriptors /\ new.flags = 0
  <2>1. fd_arr[fd].ops \in {"none", "stdin", "stdout", "rtc", "dir", "file"}
    BY FieldTypes DEF Inv
  <2>2. QED
    BY <2>1, VacantType DEF Vacant
<1>2. /\ fd_arr' = [fd_arr EXCEPT ![fd] = new]
      /\ alive' = alive /\ ret' = ret
      /\ fd \notin {0, 1}
  BY DEF Close, Closeable
<1> HIDE DEF new
<1>3. TypeOK'
  BY <1>1, <1>2 DEF Inv, TypeOK, Descriptors
<1>4. \A d \in Fds : fd_arr'[d] = IF d = fd THEN new ELSE fd_arr[d]
  BY <1>2 DEF Inv, TypeOK
<1>5. StandardStreams'
  BY <1>1, <1>2, <1>4, StandardFds DEF Inv, StandardStreams
<1>6. QED
  BY <1>3, <1>5 DEF Inv

LEMMA HaltKeeps == Inv /\ Halt => Inv'
<1>1. SUFFICES ASSUME Inv, Halt PROVE Inv'
  OBVIOUS
<1>2. \A d \in Fds : HaltTable[d] \in Descriptors
  <2>1. SUFFICES ASSUME NEW d \in Fds PROVE HaltTable[d] \in Descriptors
    OBVIOUS
  <2>2. /\ fd_arr[d] \in Descriptors
        /\ Vacant("none") \in Descriptors
        /\ [fd_arr[d] EXCEPT !.ops = "none"] \in Descriptors
    BY <1>1, FieldTypes, VacantType DEF Inv, Descriptors
  <2>3. QED
    BY <2>2 DEF HaltTable
<1>3. TypeOK'
  BY <1>1, <1>2 DEF Inv, TypeOK, Descriptors, Halt, HaltTable
<1>4. StandardStreams'
  BY <1>1 DEF Halt, StandardStreams
<1>5. QED
  BY <1>3, <1>4 DEF Inv

LEMMA HaltRootKeeps == Inv /\ HaltRoot => Inv'
BY DEF HaltRoot, Inv, TypeOK, StandardStreams

\* setup_fd gives the next process of a pcb the two streams, whatever is left of
\* the one before.
LEMMA ExecuteKeeps == Inv /\ Execute => Inv'
<1>1. SUFFICES ASSUME Inv, Execute PROVE Inv'
  OBVIOUS
<1> DEFINE stdin == [Vacant("stdin") EXCEPT !.flags = 1]
           stdout == [Vacant("stdout") EXCEPT !.flags = 1]
<1>2. \A d \in Fds : fd_arr'[d] = IF d = 0 THEN stdin
                                  ELSE IF d = 1 THEN stdout
                                  ELSE Vacant(fd_arr[d].ops)
  BY <1>1, StandardFds DEF Execute, SetupTable
<1>3. /\ stdin \in Descriptors /\ stdin.flags = 1 /\ stdin.ops = "stdin"
      /\ stdout \in Descriptors /\ stdout.flags = 1 /\ stdout.ops = "stdout"
  BY ImageTypes DEF Vacant, Descriptors
<1>4. \A d \in Fds : /\ Vacant(fd_arr[d].ops) \in Descriptors
                     /\ Vacant(fd_arr[d].ops).flags = 0
  BY <1>1, FieldTypes, VacantType DEF Inv, Vacant
<1> HIDE DEF stdin, stdout
<1>5. \A d \in Fds : fd_arr'[d] \in Descriptors
  BY <1>2, <1>3, <1>4
<1>6. TypeOK'
  BY <1>1, <1>5 DEF Inv, TypeOK, Descriptors, Execute, SetupTable
<1>7. StandardStreams'
  <2>1. 0 \in Fds /\ 1 \in Fds /\ 0 # 1
    BY StandardFds
  <2>2. fd_arr'[0] = stdin /\ fd_arr'[1] = stdout
    BY <1>2, <2>1
  <2>3. \A d \in Fds : fd_arr'[d].flags = 1 => d = 0 \/ d = 1
    BY <1>2, <1>4
  <2>4. QED
    BY <1>3, <2>1, <2>2, <2>3 DEF StandardStreams
<1>8. QED
  BY <1>6, <1>7 DEF Inv

LEMMA InvStep == Inv /\ [Next]_vars => Inv'
<1>1. SUFFICES ASSUME Inv, [Next]_vars PROVE Inv'
  OBVIOUS
<1>2. CASE Execute \/ Halt \/ HaltRoot
  BY <1>1, <1>2, ExecuteKeeps, HaltKeeps, HaltRootKeeps
<1>3. ASSUME NEW name \in Names, Open(name) PROVE Inv'
  BY <1>1, <1>3, OpenKeeps
<1>4. ASSUME NEW fd \in Fds, Close(fd) PROVE Inv'
  BY <1>1, <1>4, CloseKeeps
<1>5. ASSUME NEW fd \in Fds, NEW n \in ReadSizes, FileRead(fd, n) PROVE Inv'
  BY FilesAssumption, <1>1, <1>5, FileReadKeeps
<1>6. ASSUME NEW fd \in Fds, DirRead(fd) PROVE Inv'
  BY <1>1, <1>6, DirReadKeeps
<1>7. CASE UNCHANGED vars
  BY <1>1, <1>7 DEF vars, Inv, TypeOK, StandardStreams
<1>8. QED
  BY <1>1, <1>2, <1>3, <1>4, <1>5, <1>6, <1>7 DEF Next

\* Every descriptor keeps its type: its inode is one of the image and no read
\* moves a position below the start of the file, also behind the end of it.
THEOREM TypeCorrect == Spec => []TypeOK
<1>1. Inv => TypeOK
  BY DEF Inv
<1>2. QED
  BY <1>1, InvInit, InvStep, PTL DEF Spec

\* open, close, setup_fd, halt: descriptors 0 and 1 of a process are those of its
\* terminal and no other becomes one, whatever it and the processes that had the
\* pcb before have opened and closed.
THEOREM StreamsStayStandard == Spec => []StandardStreams
<1>1. Inv => StandardStreams
  BY DEF Inv
<1>2. QED
  BY <1>1, InvInit, InvStep, PTL DEF Spec
-----------------------------------------------------------------------------
\* Induction on the natural numbers, for a set of them.
LEMMA InductiveSetIsNat ==
    ASSUME NEW T, T \subseteq Nat, 0 \in T, \A n \in T : n + 1 \in T
    PROVE  T = Nat
<1>. SUFFICES ASSUME Nat \ T # {}
              PROVE  FALSE
  OBVIOUS
<1>. DEFINE R == OpToRel(<, Nat)
            Out == Nat \ T
<1>1. IsWellFoundedOn(R, Nat)
  BY NatLessThanWellFounded
<1>2. Out \subseteq Nat /\ Out # {}
  OBVIOUS
<1>. HIDE DEF R, Out
<1>3. PICK x \in Out : \A y \in Out : ~ (<<y, x>> \in R)
  BY <1>1, <1>2, WFMin
<1>. USE DEF Out
<1>4. x \in Nat /\ x # 0 /\ x - 1 \in Nat
  BY <1>3
<1>5. x - 1 \in Out
  BY <1>3, <1>4
<1>6. <<x - 1, x>> \in R
  BY <1>4 DEF R, OpToRel
<1>. QED
  BY <1>3, <1>5, <1>6

\* A quotient and a remainder are the quotient and the remainder.
LEMMA DivisionIsUnique ==
    ASSUME NEW b \in Nat \ {0}, NEW a \in Nat, NEW q \in Int, NEW r \in 0 .. b - 1,
           a = b * q + r
    PROVE  a \div b = q /\ a % b = r
<1>. DEFINE d == a \div b
            m == a % b
<1>1. d \in Int /\ m \in 0 .. b - 1 /\ a = b * d + m
  OBVIOUS
<1>. HIDE DEF d, m
<1>2. ~(d >= q + 1)
  <2>. SUFFICES ASSUME d >= q + 1 PROVE FALSE
    OBVIOUS
  <2>1. b * d >= b * (q + 1)
    BY <1>1
  <2>2. b * (q + 1) = b * q + b
    BY <1>1
  <2>. QED
    BY <1>1, <2>1, <2>2
<1>3. ~(q >= d + 1)
  <2>. SUFFICES ASSUME q >= d + 1 PROVE FALSE
    OBVIOUS
  <2>1. b * q >= b * (d + 1)
    BY <1>1
  <2>2. b * (d + 1) = b * d + b
    BY <1>1
  <2>. QED
    BY <1>1, <2>1, <2>2
<1>4. d = q
  BY <1>1, <1>2, <1>3
<1>. QED
  BY <1>1, <1>4 DEF d, m

\* The block of a position is the block of the one before, or the next one when
\* the position is a block's first.
LEMMA BlockOfNext ==
    ASSUME NEW p \in Nat
    PROVE  /\ p \div DATA_BLK_SIZE \in Nat
           /\ (p + 1) \div DATA_BLK_SIZE =
                 IF (p + 1) % DATA_BLK_SIZE = 0 THEN p \div DATA_BLK_SIZE + 1
                                                ELSE p \div DATA_BLK_SIZE
<1>. DEFINE b == DATA_BLK_SIZE
            q == p \div b
            r == p % b
<1>1. b \in Nat \ {0}
  BY FilesAssumption
<1>. HIDE DEF b
<1>2. q \in Int /\ r \in 0 .. b - 1 /\ p = b * q + r
  BY <1>1
<1>. HIDE DEF q, r
<1>3. q >= 0
  <2>. SUFFICES ASSUME q <= -1 PROVE FALSE
    BY <1>2
  <2>1. b * q <= b * (-1)
    BY <1>1, <1>2
  <2>. QED
    BY <1>1, <1>2, <2>1
<1>4. CASE r = b - 1
  <2>1. p + 1 = b * (q + 1) + 0
    BY <1>1, <1>2, <1>4
  <2>2. (p + 1) \div b = q + 1 /\ (p + 1) % b = 0
    BY <1>1, <1>2, <2>1, DivisionIsUnique
  <2>. QED
    BY <1>2, <1>3, <2>2 DEF b, q
<1>5. CASE r # b - 1
  <2>1. p + 1 = b * q + (r + 1) /\ r + 1 \in 0 .. b - 1 /\ r + 1 # 0
    BY <1>1, <1>2, <1>5
  <2>2. (p + 1) \div b = q /\ (p + 1) % b = r + 1
    BY <1>1, <1>2, <2>1, DivisionIsUnique
  <2>. QED
    BY <1>2, <1>3, <2>1, <2>2 DEF b, q
<1>. QED
  BY <1>4, <1>5
-----------------------------------------------------------------------------
\* f is Copy's recursive function for up to m turns.
TurnsTo(m, f, inode, offset) ==
    f = [k \in 0 .. m |-> IF k = 0 THEN CopyStart(inode, offset)
                                   ELSE CopyByte(inode, offset, k, f[k - 1])]

LEMMA TurnsExist ==
    ASSUME NEW inode, NEW offset, NEW m \in Nat
    PROVE  \E f : TurnsTo(m, f, inode, offset)
<1>. DEFINE T == {n \in Nat : \E f : TurnsTo(n, f, inode, offset)}
<1>1. 0 \in T
  <2>. DEFINE f == [k \in 0 .. 0 |-> CopyStart(inode, offset)]
  <2>1. TurnsTo(0, f, inode, offset)
    BY DEF TurnsTo
  <2>. QED
    BY <2>1
<1>2. ASSUME NEW n \in T
      PROVE  n + 1 \in T
  <2>1. n \in Nat /\ n + 1 \in Nat
    OBVIOUS
  <2>2. PICK f : TurnsTo(n, f, inode, offset)
    OBVIOUS
  <2>. DEFINE Value(g, k) == IF k = 0 THEN CopyStart(inode, offset)
                                      ELSE CopyByte(inode, offset, k, g[k - 1])
              g == [k \in 0 .. n + 1 |-> IF k <= n THEN f[k] ELSE Value(f, k)]
  <2>3. \A k \in 0 .. n : f[k] = Value(f, k)
    BY <2>2 DEF TurnsTo
  <2>4. \A k \in 0 .. n + 1 : k <= n => k \in 0 .. n
    BY <2>1
  <2>5. \A k \in 0 .. n + 1 : k # 0 => g[k - 1] = f[k - 1]
    BY <2>1
  <2>6. \A k \in 0 .. n + 1 : Value(g, k) = Value(f, k)
    <3>. HIDE DEF g
    <3>. QED
      BY <2>5
  <2>7. g = [k \in 0 .. n + 1 |-> Value(g, k)]
    <3>. HIDE DEF Value
    <3>1. \A k \in 0 .. n + 1 : g[k] = Value(f, k)
      BY <2>3, <2>4
    <3>2. g = [k \in 0 .. n + 1 |-> g[k]]
      OBVIOUS
    <3>. HIDE DEF g
    <3>. QED
      BY <3>1, <3>2, <2>6
  <2>8. TurnsTo(n + 1, g, inode, offset)
    <3>. HIDE DEF g
    <3>. QED
      BY <2>7 DEF TurnsTo
  <2>. QED
    BY <2>1, <2>8
<1>3. T = Nat
  <2>. HIDE DEF T
  <2>1. T \subseteq Nat
    BY DEF T
  <2>. QED
    BY <1>1, <1>2, <2>1, InductiveSetIsNat
<1>. QED
  BY <1>3

LEMMA CopyTurns ==
    ASSUME NEW inode, NEW offset, NEW length \in Nat
    PROVE  \E f : /\ Copy(inode, offset, length) = f[length]
                  /\ f[0] = CopyStart(inode, offset)
                  /\ \A k \in 1 .. length :
                        f[k] = CopyByte(inode, offset, k, f[k - 1])
<1>. DEFINE f == CHOOSE g :
                   g = [k \in 0 .. length |->
                          IF k = 0 THEN CopyStart(inode, offset)
                                   ELSE CopyByte(inode, offset, k, g[k - 1])]
<1>1. Copy(inode, offset, length) = f[length]
  BY DEF Copy
<1>2. \E g : TurnsTo(length, g, inode, offset)
  BY TurnsExist
<1>3. TurnsTo(length, f, inode, offset)
  BY <1>2 DEF TurnsTo
<1>. HIDE DEF f
<1>4. f[0] = CopyStart(inode, offset)
  BY <1>3 DEF TurnsTo
<1>5. \A k \in 1 .. length : f[k] = CopyByte(inode, offset, k, f[k - 1])
  BY <1>3 DEF TurnsTo
<1>. QED
  BY <1>1, <1>4, <1>5
-----------------------------------------------------------------------------
\* How many of the k bytes asked for at offset the file has.
Within(k, inode, offset) ==
    IF k <= InodeOf(inode).length - offset THEN k
                                           ELSE InodeOf(inode).length - offset

Fields == {"idx", "data", "bad"}

\* What the loop has done after k turns: the bytes of the file from offset on, as
\* many as there are, unless one of their blocks does not exist.
CopiedSoFar(s, k, inode, offset) ==
    LET n == Within(k, inode, offset) IN
    /\ DOMAIN s = Fields
    /\ s.bad => \E p \in offset .. InodeOf(inode).length :
                   /\ BadPointer(inode, p \div DATA_BLK_SIZE)
                   /\ p < InodeOf(inode).length \/ p = offset
    /\ ~s.bad =>
          /\ s.data = SubSeq(FileContent(inode), offset + 1, offset + n)
          /\ s.idx = (IF n = 0 THEN offset ELSE offset + n - 1) \div DATA_BLK_SIZE
          /\ \A p \in offset .. offset + n - 1 : ~BadPointer(inode, p \div DATA_BLK_SIZE)

LEMMA ContentIsSeq ==
    ASSUME NEW inode, InodeOf(inode).length \in Nat
    PROVE  \E S : /\ FileContent(inode) \in Seq(S)
                  /\ Len(FileContent(inode)) = InodeOf(inode).length
                  /\ \A p \in 0 .. InodeOf(inode).length - 1 :
                        FileContent(inode)[p + 1] =
                           <<Pointer(inode, p \div DATA_BLK_SIZE), p % DATA_BLK_SIZE>>
<1>. DEFINE c == FileContent(inode)
            L == InodeOf(inode).length
            S == {c[i] : i \in 1 .. L}
<1>1. c = [i \in 1 .. L |-> <<Pointer(inode, (i - 1) \div DATA_BLK_SIZE),
                             (i - 1) % DATA_BLK_SIZE>>]
  BY DEF FileContent
<1>2. \A p \in 0 .. L - 1 :
         c[p + 1] = <<Pointer(inode, p \div DATA_BLK_SIZE), p % DATA_BLK_SIZE>>
  <2>. SUFFICES ASSUME NEW p \in 0 .. L - 1
                PROVE  c[p + 1] = <<Pointer(inode, p \div DATA_BLK_SIZE),
                                    p % DATA_BLK_SIZE>>
    OBVIOUS
  <2>1. p + 1 \in 1 .. L /\ (p + 1) - 1 = p
    OBVIOUS
  <2>. HIDE DEF c, L
  <2>. QED
    BY <1>1, <2>1
<1>3. c \in [1 .. L -> S]
  <2>1. c = [i \in 1 .. L |-> c[i]]
    BY <1>1
  <2>. HIDE DEF c, L
  <2>. QED
    BY <2>1
<1>. HIDE DEF c, S
<1>4. c \in Seq(S) /\ Len(c) = L
  <2>. HIDE DEF L
  <2>0. L \in Nat
    BY DEF L
  <2>1. DOMAIN c = 1 .. L
    BY <1>3
  <2>2. c \in Seq(S)
    BY <1>3, <2>0
  <2>. QED
    BY <2>0, <2>1, <2>2
<1>. QED
  BY <1>2, <1>4 DEF c

LEMMA SubSeqGrows ==
    ASSUME NEW S, NEW c \in Seq(S), NEW m \in Nat \ {0}, NEW n \in Nat,
           m <= n + 1, n + 1 <= Len(c)
    PROVE  Append(SubSeq(c, m, n), c[n + 1]) = SubSeq(c, m, n + 1)
<1>1. /\ m \in 1 .. Len(c) /\ n + 1 \in m .. Len(c) /\ n + 1 \in 1 .. Len(c)
      /\ (n + 1) - 1 = n
  OBVIOUS
<1>2. SubSeq(c, m, n + 1) = SubSeq(c, m, n) \o <<c[n + 1]>>
  BY <1>1, SubSeqRecursiveSecond
<1>3. c[n + 1] \in S /\ SubSeq(c, m, n) \in Seq(S)
  <2>1. \A i \in m .. n : c[i] \in S
    BY <1>1
  <2>. QED
    BY <1>1, <2>1, SubSeqProperties
<1>. QED
  BY <1>2, <1>3, AppendIsConcat

LEMMA CopyBegins ==
    ASSUME NEW inode, NEW offset \in Nat, InodeOf(inode).length \in Nat,
           offset <= InodeOf(inode).length
    PROVE  CopiedSoFar(CopyStart(inode, offset), 0, inode, offset)
<1>. DEFINE s == CopyStart(inode, offset)
<1>1. /\ s = [idx |-> offset \div DATA_BLK_SIZE, data |-> <<>>,
              bad |-> BadPointer(inode, offset \div DATA_BLK_SIZE)]
  BY DEF CopyStart
<1>2. Within(0, inode, offset) = 0
  BY DEF Within
<1>3. SubSeq(FileContent(inode), offset + 1, offset + 0) = <<>>
  BY SubSeqEmpty
<1>5. s.bad => \E p \in offset .. InodeOf(inode).length :
                   /\ BadPointer(inode, p \div DATA_BLK_SIZE)
                   /\ p < InodeOf(inode).length \/ p = offset
  <2>1. offset \in offset .. InodeOf(inode).length
    OBVIOUS
  <2>2. s.bad => BadPointer(inode, offset \div DATA_BLK_SIZE)
    BY <1>1
  <2>. QED
    BY <2>1, <2>2
<1>6. s.data = <<>> /\ s.idx = offset \div DATA_BLK_SIZE
      /\ DOMAIN s = Fields
  BY <1>1 DEF Fields
<1>7. \A p \in offset .. offset + 0 - 1 : FALSE
  OBVIOUS
<1>. HIDE DEF s
<1>8. CopiedSoFar(s, 0, inode, offset)
  BY <1>2, <1>3, <1>5, <1>6, <1>7 DEF CopiedSoFar
<1>. QED
  BY <1>8 DEF s

LEMMA BadField ==
    ASSUME NEW s, DOMAIN s = Fields, NEW t, t = [s EXCEPT !.bad = TRUE]
    PROVE  t.bad /\ DOMAIN t = Fields
BY DEF Fields

LEMMA CopyGoesOn ==
    ASSUME NEW inode, NEW offset \in Nat, InodeOf(inode).length \in Nat,
           offset <= InodeOf(inode).length,
           NEW k \in Nat \ {0}, NEW s, CopiedSoFar(s, k - 1, inode, offset)
    PROVE  CopiedSoFar(CopyByte(inode, offset, k, s), k, inode, offset)
<1>. DEFINE L == InodeOf(inode).length
            pos == offset + k - 1
            idx == IF NextBlock(k - 1, pos) THEN s.idx + 1 ELSE s.idx
            t == CopyByte(inode, offset, k, s)
<1>0. /\ k - 1 \in Nat /\ pos \in Nat /\ L \in Nat
      /\ DOMAIN s = Fields
      /\ s.bad => \E p \in offset .. InodeOf(inode).length :
                     /\ BadPointer(inode, p \div DATA_BLK_SIZE)
                     /\ p < InodeOf(inode).length \/ p = offset
  BY DEF CopiedSoFar
<1>1. CASE s.bad
  <2>1. t = s
    BY <1>1 DEF CopyByte
  <2>. QED
    BY <1>0, <1>1, <2>1 DEF CopiedSoFar
<1>2. CASE ~s.bad /\ pos >= L
  <2>1. t = s
    BY <1>2 DEF CopyByte
  <2>2. Within(k - 1, inode, offset) = Within(k, inode, offset)
    BY <1>0, <1>2 DEF Within
  <2>. QED
    BY <1>0, <1>2, <2>1, <2>2 DEF CopiedSoFar
<1>3. CASE ~s.bad /\ ~(pos >= L)
  <2>1. /\ Within(k - 1, inode, offset) = k - 1
        /\ Within(k, inode, offset) = k
        /\ pos \in 0 .. L - 1 /\ pos \in offset .. L /\ pos < L
    BY <1>0, <1>3 DEF Within
  <2>2. /\ s.data = SubSeq(FileContent(inode), offset + 1, offset + (k - 1))
        /\ s.idx = (IF k - 1 = 0 THEN offset ELSE offset + (k - 1) - 1) \div DATA_BLK_SIZE
        /\ \A p \in offset .. offset + (k - 1) - 1 : ~BadPointer(inode, p \div DATA_BLK_SIZE)
    BY <1>3, <2>1 DEF CopiedSoFar
  <2>3. idx = pos \div DATA_BLK_SIZE
    <3>1. CASE k = 1
      BY <2>2, <3>1 DEF NextBlock
    <3>2. CASE k # 1
      <4>1. /\ pos - 1 \in Nat /\ (pos - 1) + 1 = pos
            /\ offset + (k - 1) - 1 = pos - 1 /\ k - 1 # 0
        BY <1>0, <3>2
      <4>2. pos \div DATA_BLK_SIZE =
               IF pos % DATA_BLK_SIZE = 0 THEN (pos - 1) \div DATA_BLK_SIZE + 1
                                          ELSE (pos - 1) \div DATA_BLK_SIZE
        <5>. DEFINE p == pos - 1
        <5>1. p \in Nat /\ p + 1 = pos
          BY <4>1
        <5>. HIDE DEF p, pos
        <5>2. (p + 1) \div DATA_BLK_SIZE =
                 IF (p + 1) % DATA_BLK_SIZE = 0 THEN p \div DATA_BLK_SIZE + 1
                                                ELSE p \div DATA_BLK_SIZE
          BY <5>1, BlockOfNext
        <5>. QED
          BY <5>1, <5>2 DEF p
      <4>3. s.idx = (pos - 1) \div DATA_BLK_SIZE
        BY <2>2, <4>1
      <4>4. NextBlock(k - 1, pos) <=> pos % DATA_BLK_SIZE = 0
        BY <4>1 DEF NextBlock
      <4>. HIDE DEF pos
      <4>. QED
        BY <4>2, <4>3, <4>4
    <3>. QED
      BY <3>1, <3>2
  <2>4. CASE BadPointer(inode, idx)
    <3>1. t = [s EXCEPT !.bad = TRUE]
      BY <1>3, <2>4 DEF CopyByte
    <3>2. t.bad /\ DOMAIN t = Fields
      <4>. HIDE DEF t
      <4>. QED
        BY <1>0, <3>1, BadField
    <3>3. BadPointer(inode, pos \div DATA_BLK_SIZE)
      BY <2>3, <2>4
    <3>. HIDE DEF t, pos
    <3>4. \E p \in offset .. L :
             /\ BadPointer(inode, p \div DATA_BLK_SIZE)
             /\ p < L \/ p = offset
      BY <2>1, <3>3
    <3>5. CopiedSoFar(t, k, inode, offset)
      BY <3>2, <3>4 DEF CopiedSoFar
    <3>. QED
      BY <3>5 DEF t
  <2>5. CASE ~BadPointer(inode, idx)
    <3>. DEFINE byte == <<Pointer(inode, idx), pos % DATA_BLK_SIZE>>
    <3>1. t = [s EXCEPT !.idx = idx, !.data = Append(@, byte)]
      BY <1>3, <2>5 DEF CopyByte
    <3>2. /\ t.bad = s.bad /\ t.idx = idx /\ t.data = Append(s.data, byte)
          /\ DOMAIN t = Fields
      <4>1. DOMAIN s = Fields
        BY <1>0
      <4>. HIDE DEF idx, byte, t
      <4>. QED
        BY <3>1, <4>1 DEF Fields
    <3>3. byte = FileContent(inode)[pos + 1]
      <4>1. FileContent(inode)[pos + 1] =
              <<Pointer(inode, pos \div DATA_BLK_SIZE), pos % DATA_BLK_SIZE>>
        BY <1>0, <2>1, ContentIsSeq
      <4>. QED
        BY <2>3, <4>1
    <3>. HIDE DEF t, byte, idx
    <3>4. t.data = SubSeq(FileContent(inode), offset + 1, offset + k)
      <4>1. PICK S : /\ FileContent(inode) \in Seq(S)
                     /\ Len(FileContent(inode)) = L
        BY <1>0, ContentIsSeq
      <4>2. /\ offset + 1 \in Nat \ {0} /\ pos \in Nat
            /\ offset + 1 <= pos + 1 /\ pos + 1 <= L
            /\ offset + (k - 1) = pos /\ offset + k = pos + 1
        BY <1>0, <2>1
      <4>. HIDE DEF pos, L
      <4>3. Append(SubSeq(FileContent(inode), offset + 1, pos),
                   FileContent(inode)[pos + 1])
               = SubSeq(FileContent(inode), offset + 1, pos + 1)
        BY <4>1, <4>2, SubSeqGrows
      <4>. QED
        BY <2>2, <3>2, <3>3, <4>2, <4>3
    <3>5. offset + k - 1 = pos /\ k # 0
      BY <1>0
    <3>6. \A p \in offset .. offset + k - 1 :
             p \in offset .. offset + (k - 1) - 1 \/ p = pos
      BY <1>0
    <3>7. ~BadPointer(inode, pos \div DATA_BLK_SIZE)
      BY <2>3, <2>5 DEF idx
    <3>. HIDE DEF pos
    <3>8. \A p \in offset .. offset + k - 1 : ~BadPointer(inode, p \div DATA_BLK_SIZE)
      BY <2>2, <3>6, <3>7
    <3>. QED
      BY <1>3, <2>1, <2>3, <3>2, <3>4, <3>5, <3>8 DEF CopiedSoFar, t
  <2>. QED
    BY <2>4, <2>5
<1>. QED
  BY <1>0, <1>1, <1>2, <1>3

LEMMA CopyCopies ==
    ASSUME NEW inode, NEW offset \in Nat, InodeOf(inode).length \in Nat,
           offset <= InodeOf(inode).length, NEW length \in Nat
    PROVE  CopiedSoFar(Copy(inode, offset, length), length, inode, offset)
<1>1. PICK f : /\ Copy(inode, offset, length) = f[length]
               /\ f[0] = CopyStart(inode, offset)
               /\ \A k \in 1 .. length :
                     f[k] = CopyByte(inode, offset, k, f[k - 1])
  BY CopyTurns
<1>. DEFINE T == {k \in Nat : k <= length => CopiedSoFar(f[k], k, inode, offset)}
<1>2. 0 \in T
  BY <1>1, CopyBegins
<1>3. ASSUME NEW k \in T
      PROVE  k + 1 \in T
  <2>. SUFFICES ASSUME k + 1 <= length
                PROVE  CopiedSoFar(f[k + 1], k + 1, inode, offset)
    OBVIOUS
  <2>1. k \in Nat /\ k + 1 \in 1 .. length /\ k + 1 \in Nat \ {0} /\ (k + 1) - 1 = k
    OBVIOUS
  <2>2. f[k + 1] = CopyByte(inode, offset, k + 1, f[k])
    BY <1>1, <2>1
  <2>3. CopiedSoFar(f[k], k, inode, offset)
    BY <2>1
  <2>. HIDE DEF T
  <2>4. CopiedSoFar(CopyByte(inode, offset, k + 1, f[k]), k + 1, inode, offset)
    BY <2>1, <2>3, CopyGoesOn
  <2>. QED
    BY <2>2, <2>4
<1>4. T = Nat
  <2>. HIDE DEF T
  <2>1. T \subseteq Nat
    BY DEF T
  <2>. QED
    BY <1>2, <1>3, <2>1, InductiveSetIsNat
<1>. QED
  BY <1>1, <1>4
-----------------------------------------------------------------------------
LEMMA QuotientBelow ==
    ASSUME NEW b \in Nat \ {0}, NEW a \in Nat, NEW n \in Nat, a < n * b
    PROVE  a \div b < n
<1>. DEFINE q == a \div b
            r == a % b
<1>1. q \in Int /\ r \in 0 .. b - 1 /\ a = b * q + r
  OBVIOUS
<1>. HIDE DEF q, r
<1>2. ~(q >= n)
  <2>. SUFFICES ASSUME q >= n PROVE FALSE
    OBVIOUS
  <2>1. b * q >= b * n
    BY <1>1
  <2>2. b * n = n * b
    OBVIOUS
  <2>. QED
    BY <1>1, <2>1, <2>2
<1>. QED
  BY <1>1, <1>2 DEF q

\* The pointers of a file's blocks, and the one a position at its end falls in, are
\* in its array.
LEMMA PointerIsNumber ==
    ASSUME NEW inode \in 0 .. Len(Inodes) - 1, NEW p \in 0 .. InodeOf(inode).length
    PROVE  /\ p \div DATA_BLK_SIZE + 1 \in DOMAIN InodeOf(inode).data_blocks
           /\ Pointer(inode, p \div DATA_BLK_SIZE) \in Nat
<1>. DEFINE L == InodeOf(inode).length
            blocks == InodeOf(inode).data_blocks
            q == p \div DATA_BLK_SIZE
            b == DATA_BLK_SIZE
            n == Len(blocks)
<1>1. inode + 1 \in 1 .. Len(Inodes)
  BY ImageTypes
<1>2. InodeOf(inode) \in [length : Nat, data_blocks : Seq(Nat)]
  <2>1. \A i \in 1 .. Len(Inodes) : Inodes[i] \in [length : Nat, data_blocks : Seq(Nat)]
    BY FilesAssumption, ElementType, Zenon
  <2>. QED
    BY <1>1, <2>1 DEF InodeOf
<1>3. L \in Nat /\ blocks \in Seq(Nat) /\ n \in Nat
  BY <1>2
<1>4. n * b > L
  <2>1. inode + 1 \in DOMAIN Inodes
    BY <1>1, FilesAssumption
  <2>2. \A i \in DOMAIN Inodes :
           Len(Inodes[i].data_blocks) * DATA_BLK_SIZE > Inodes[i].length
    BY FilesAssumption
  <2>. QED
    BY <2>1, <2>2 DEF InodeOf
<1>5. b \in Nat \ {0} /\ p \in Nat /\ p <= L
  BY <1>3, FilesAssumption
<1>6. p < n * b
  <2>. HIDE DEF n, b, L
  <2>1. n * b \in Nat
    BY <1>3, <1>5
  <2>. QED
    BY <1>3, <1>4, <1>5, <2>1
<1>7. q \in Nat /\ q < n
  <2>1. q \in Nat
    BY <1>5, BlockOfNext
  <2>. HIDE DEF n, L
  <2>2. q < n
    BY <1>3, <1>5, <1>6, QuotientBelow
  <2>. QED
    BY <2>1, <2>2
<1>. HIDE DEF q, b, L, n
<1>8. q + 1 \in 1 .. Len(blocks)
  BY <1>3, <1>7 DEF n
<1>9. blocks[q + 1] \in Nat /\ q + 1 \in DOMAIN blocks
  BY <1>3, <1>8, ElementType
<1>. QED
  BY <1>9 DEF Pointer, q

\* What file_read does with n bytes asked for, before the end of the file or at it:
\* they are handed over, as many as the file has.
Transfers(fd, n) ==
    LET f == fd_arr[fd]
        m == Within(n, f.inode, f.file_pos)
    IN
    /\ f.file_pos <= InodeOf(f.inode).length
    /\ m \in 0 .. InodeOf(f.inode).length - f.file_pos
    /\ m = 0 => f.file_pos = InodeOf(f.inode).length
    /\ ret' = m
    /\ Len(buf') = m
    /\ \A p \in f.file_pos .. f.file_pos + m - 1 : ~BadPointer(f.inode, p \div DATA_BLK_SIZE)
    /\ buf' = SubSeq(FileContent(f.inode), f.file_pos + 1, f.file_pos + m)
    /\ fd_arr' = [fd_arr EXCEPT ![fd].file_pos = f.file_pos + m]

\* or a block it needs, or the one at the position itself, does not exist,
Fails(fd) ==
    LET f == fd_arr[fd] IN
    /\ ret' = -1
    /\ \E p \in f.file_pos .. InodeOf(f.inode).length :
          /\ BadPointer(f.inode, p \div DATA_BLK_SIZE)
          /\ p < InodeOf(f.inode).length \/ p = f.file_pos

\* or a failed read has left the position behind the end.
Overruns(fd) ==
    LET f == fd_arr[fd] IN
    /\ f.file_pos > InodeOf(f.inode).length
    /\ ret' < 0

LEMMA FileReadDoes ==
    ASSUME Inv, NEW fd \in Fds, NEW n \in Nat, n # 0, FileRead(fd, n)
    PROVE  Transfers(fd, n) \/ Fails(fd) \/ Overruns(fd)
<1>. DEFINE inode == fd_arr[fd].inode
            pos == fd_arr[fd].file_pos
            L == InodeOf(inode).length
            r == ReadData(inode, pos, n)
            c == Copy(inode, pos, n)
            m == Within(n, inode, pos)
<1>1. n \in Nat \ {0} /\ inode \in 0 .. Len(Inodes) - 1 /\ pos \in Nat /\ L \in Nat
  BY FilesAssumption, FieldTypes, ImageTypes DEF Inv
<1>2. /\ buf' = r.data
      /\ r.ret = 0 => /\ ret' = L - pos
                      /\ fd_arr' = [fd_arr EXCEPT ![fd].file_pos = @ + (L - pos)]
      /\ r.ret # 0 => /\ ret' = r.ret
                      /\ fd_arr' = [fd_arr EXCEPT ![fd].file_pos = @ + n]
  BY DEF FileRead, EofRet, Advance
<1>3. CASE pos > L
  <2>1. r.ret = 0
    BY <1>3 DEF ReadData
  <2>2. ret' < 0
    <3>1. ret' = L - pos
      BY <1>2, <2>1
    <3>. HIDE DEF r, L, pos
    <3>. QED
      BY <1>1, <1>3, <3>1
  <2>. QED
    BY <1>3, <2>2 DEF Overruns
<1>4. CASE ~(pos > L)
  <2>1. r = [ret |-> IF c.bad THEN -1 ELSE IF Len(c.data) = n THEN n ELSE 0,
             data |-> c.data]
    BY <1>4 DEF ReadData
  <2>. HIDE DEF r
  <2>2. CopiedSoFar(c, n, inode, pos)
    BY <1>1, <1>4, CopyCopies
  <2>. HIDE DEF c
  <2>3. CASE c.bad
    <3>1. r.ret = -1
      BY <2>1, <2>3
    <3>2. ret' = -1
      BY <1>2, <3>1
    <3>3. \E p \in pos .. L :
             /\ BadPointer(inode, p \div DATA_BLK_SIZE)
             /\ p < L \/ p = pos
      BY <2>2, <2>3 DEF CopiedSoFar
    <3>. QED
      BY <3>2, <3>3 DEF Fails
  <2>4. CASE ~c.bad
    <3>1. m \in 0 .. L - pos /\ (m = 0 => pos = L) /\ (m # n => m = L - pos)
      BY <1>1, <1>4 DEF Within
    <3>2. c.data = SubSeq(FileContent(inode), pos + 1, pos + m)
      BY <2>2, <2>4 DEF CopiedSoFar
    <3>3. PICK S : FileContent(inode) \in Seq(S) /\ Len(FileContent(inode)) = L
      BY <1>1, ContentIsSeq
    <3>4. Len(c.data) = m
      <4>1. CASE m = 0
        <5>1. SubSeq(FileContent(inode), pos + 1, pos + m) = <<>>
          BY <1>1, <4>1, SubSeqEmpty
        <5>2. c.data = <<>>
          BY <3>2, <5>1
        <5>. HIDE DEF m
        <5>. QED
          BY <4>1, <5>2
      <4>2. CASE m # 0
        <5>. HIDE DEF m, L, pos
        <5>1. \A i \in pos + 1 .. pos + m : i \in 1 .. Len(FileContent(inode))
          BY <1>1, <3>1, <3>3
        <5>2. \A i \in pos + 1 .. pos + m : FileContent(inode)[i] \in S
          BY <3>3, <5>1, ElementType
        <5>3. /\ pos + 1 \in Int /\ pos + m \in Int /\ m \in Nat
              /\ (IF pos + 1 <= pos + m THEN (pos + m) - (pos + 1) + 1 ELSE 0) = m
          BY <1>1, <3>1, <4>2
        <5>4. Len(SubSeq(FileContent(inode), pos + 1, pos + m)) = m
          BY <3>3, <5>2, <5>3, SubSeqProperties
        <5>. QED
          BY <3>2, <5>4
      <4>. QED
        BY <4>1, <4>2
    <3>5. ret' = m /\ fd_arr' = [fd_arr EXCEPT ![fd].file_pos = pos + m]
      <4>1. CASE m = n
        <5>1. r.ret = n /\ n # 0
          BY <1>1, <2>1, <2>4, <3>4, <4>1
        <5>. HIDE DEF m
        <5>. QED
          BY <1>2, <4>1, <5>1 DEF Inv, TypeOK
      <4>2. CASE m # n
        <5>1. r.ret = 0
          BY <2>1, <2>4, <3>4, <4>2
        <5>2. m = L - pos
          BY <3>1, <4>2
        <5>. HIDE DEF m
        <5>. QED
          BY <1>2, <5>1, <5>2 DEF Inv, TypeOK
      <4>. QED
        BY <4>1, <4>2
    <3>6. buf' = c.data
      BY <1>2, <2>1
    <3>7. Len(buf') = m /\ buf' = SubSeq(FileContent(inode), pos + 1, pos + m)
      BY <3>2, <3>4, <3>6
    <3>8. pos <= L
      BY <1>1, <1>4
    <3>9. \A p \in pos .. pos + m - 1 : ~BadPointer(inode, p \div DATA_BLK_SIZE)
      BY <2>2, <2>4 DEF CopiedSoFar
    <3>. QED
      BY <3>1, <3>5, <3>7, <3>8, <3>9 DEF Transfers
  <2>. QED
    BY <2>3, <2>4
<1>. QED
  BY <1>3, <1>4

LEMMA TransferTold ==
    ASSUME Inv, 0 \notin ReadSizes, ~ReadsOn, ReadTellsTransfer, [Next]_vars
    PROVE  ReadTellsTransfer'
<1>1. CASE UNCHANGED <<ret, buf>>
  BY <1>1 DEF ReadTellsTransfer
<1>2. CASE Execute \/ Halt \/ HaltRoot
  BY <1>1, <1>2 DEF Execute, Halt, HaltRoot
<1>3. ASSUME NEW name \in Names, Open(name) PROVE ReadTellsTransfer'
  BY <1>1, <1>3 DEF Open
<1>4. ASSUME NEW fd \in Fds, Close(fd) PROVE ReadTellsTransfer'
  BY <1>1, <1>4 DEF Close
<1>5. ASSUME NEW fd \in Fds, NEW n \in ReadSizes, ~Behind(fd), FileRead(fd, n)
      PROVE  ReadTellsTransfer'
  <2>1. Transfers(fd, n) \/ Fails(fd) \/ Overruns(fd)
    <3>1. n # 0
      OBVIOUS
    <3>. QED
      BY FilesAssumption, <1>5, <3>1, FileReadDoes
  <2>2. CASE Transfers(fd, n)
    BY <2>2 DEF Transfers, ReadTellsTransfer
  <2>3. CASE Fails(fd)
    BY <2>3 DEF Fails, ReadTellsTransfer
  <2>4. ~Overruns(fd)
    BY <1>5 DEF Overruns, Behind
  <2>. QED
    BY <2>1, <2>2, <2>3, <2>4
<1>6. ASSUME NEW fd \in Fds, DirRead(fd) PROVE ReadTellsTransfer'
  <2>1. \/ ret' = 0 /\ buf' = <<>>
        \/ ret' = 1 /\ buf' = <<EntryName(fd_arr[fd].file_pos)>>
    BY <1>6 DEF DirRead
  <2>2. Len(<<>>) = 0 /\ \A x : Len(<<x>>) = 1
    OBVIOUS
  <2>3. ret' = Len(buf')
    BY <2>1, <2>2, Zenon
  <2>. QED
    BY <2>3 DEF ReadTellsTransfer
<1>7. CASE UNCHANGED vars
  BY <1>1, <1>7 DEF vars
<1>. QED
  BY <1>2, <1>3, <1>4, <1>5, <1>6, <1>7 DEF Next

\* file_read returns -1 or the number of bytes it put in the buffer, across blocks
\* and at the end of a file, for any image, also one with blocks missing, to
\* processes that ask for at least a byte and do not read on behind the end of a
\* file, where a read that failed leaves them.  A read of no bytes returns the rest
\* of the file although it copies nothing, one from behind the end a negative
\* number that is the distance to it.
THEOREM TransfersAreTold ==
    ASSUME 0 \notin ReadSizes, ~ReadsOn
    PROVE  Spec => []ReadTellsTransfer
<1>1. Init => ReadTellsTransfer
  BY DEF Init, ReadTellsTransfer
<1>2. Inv /\ ReadTellsTransfer /\ [Next]_vars => ReadTellsTransfer'
  BY TransferTold
<1>. QED
  BY <1>1, <1>2, InvInit, InvStep, PTL DEF Spec
-----------------------------------------------------------------------------
\* The entry of a sound file's pointer array behind its end, which read_data looks
\* at when the position is at the end and the end is a block's, is in range too.
SoundEnds ==
    \A f \in SoundFiles :
        f[1] = "file" => ~BadPointer(f[2], InodeOf(f[2]).length \div DATA_BLK_SIZE)

\* What is open is an entry of the directory; in one that can be read no position
\* is behind the end.
AtEntry(fd) ==
    fd.flags = 1 =>
        /\ <<fd.ops, fd.inode>> \in Opened
        /\ <<fd.ops, fd.inode>> \in SoundFiles =>
              fd.file_pos <= Len(Content(fd.ops, fd.inode))

OpenAreEntries == \A d \in Above : AtEntry(fd_arr[d])

StreamsInv == Inv /\ OpenAreEntries

LEMMA AboveFds ==
    /\ Above \subseteq Fds
    /\ \A d \in Above : d \in Nat /\ d # 0 /\ d # 1
    /\ \A d \in Fds : d # 0 /\ d # 1 => d \in Above
BY FilesAssumption DEF Above, Fds

LEMMA FunctionIsSeq ==
    ASSUME NEW S, NEW N \in Nat, NEW c \in [1 .. N -> S]
    PROVE  c \in Seq(S) /\ Len(c) = N
<1>1. DOMAIN c = 1 .. N
  OBVIOUS
<1>2. c \in Seq(S)
  OBVIOUS
<1>. QED
  BY <1>1, <1>2

LEMMA NamesAreSeq ==
    LET c == Content("dir", 0) IN
    /\ \A inode : Content("dir", inode) = c
    /\ Len(c) = Len(Entries)
    /\ \E S : c \in Seq(S)
    /\ \A p \in 0 .. Len(Entries) - 1 : c[p + 1] = EntryName(p)
<1>. DEFINE c == [i \in 1 .. Len(Entries) |-> EntryName(i - 1)]
            S == {EntryName(i - 1) : i \in 1 .. Len(Entries)}
<1>1. \A inode : Content("dir", inode) = c
  BY DEF Content
<1>2. Len(Entries) \in Nat
  BY FilesAssumption
<1>3. c \in [1 .. Len(Entries) -> S]
  OBVIOUS
<1>4. \A p \in 0 .. Len(Entries) - 1 : c[p + 1] = EntryName(p)
  <2>. SUFFICES ASSUME NEW p \in 0 .. Len(Entries) - 1
                PROVE  c[p + 1] = EntryName(p)
    OBVIOUS
  <2>1. p + 1 \in 1 .. Len(Entries) /\ (p + 1) - 1 = p
    BY <1>2
  <2>. QED
    BY <2>1
<1>. HIDE DEF c, S
<1>5. c \in Seq(S) /\ Len(c) = Len(Entries)
  BY <1>2, <1>3, FunctionIsSeq
<1>. QED
  BY <1>1, <1>4, <1>5

LEMMA SingleOf ==
    ASSUME NEW S, NEW c \in Seq(S), NEW p \in 0 .. Len(c) - 1
    PROVE  SubSeq(c, p + 1, p + 1) = <<c[p + 1]>>
<1>1. /\ p + 1 \in 1 .. Len(c) /\ p + 1 \in (p + 1) .. Len(c)
      /\ (p + 1) - 1 = p
  OBVIOUS
<1>2. SubSeq(c, p + 1, p + 1) = SubSeq(c, p + 1, p) \o <<c[p + 1]>>
  BY <1>1, SubSeqRecursiveSecond
<1>3. SubSeq(c, p + 1, p) = <<>>
  BY SubSeqEmpty
<1>4. <<c[p + 1]>> \in Seq(S)
  BY <1>1
<1>. QED
  BY <1>2, <1>3, <1>4, ConcatEmptySeq

LEMMA ContentLength ==
    ASSUME NEW inode, InodeOf(inode).length \in Nat
    PROVE  /\ Content("file", inode) = FileContent(inode)
           /\ Len(Content("file", inode)) = InodeOf(inode).length
BY ContentIsSeq DEF Content
-----------------------------------------------------------------------------
\* A sound file, up to its end and with the pointer behind it, has no bad pointer.
LEMMA SoundHasPointers ==
    ASSUME SoundEnds, NEW inode \in 0 .. Len(Inodes) - 1,
           <<"file", inode>> \in SoundFiles,
           NEW p \in 0 .. InodeOf(inode).length
    PROVE  ~BadPointer(inode, p \div DATA_BLK_SIZE)
<1>. DEFINE L == InodeOf(inode).length
<1>1. L \in Nat
  BY ImageTypes
<1>2. CASE p = L
  <2>1. /\ <<"file", inode>>[1] = "file"
        /\ <<"file", inode>>[2] = inode
    OBVIOUS
  <2>. QED
    BY <1>2, <2>1 DEF SoundEnds
<1>3. CASE p # L
  <2>1. p \in 0 .. L - 1 /\ p + 1 \in 1 .. L
    BY <1>1, <1>3
  <2>2. FileContent(inode)[p + 1][1] < NumBlocks
    BY <2>1 DEF SoundFiles
  <2>3. FileContent(inode)[p + 1] =
           <<Pointer(inode, p \div DATA_BLK_SIZE), p % DATA_BLK_SIZE>>
    BY <1>1, <2>1, ContentIsSeq
  <2>4. Pointer(inode, p \div DATA_BLK_SIZE) < NumBlocks
    BY <2>2, <2>3
  <2>5. Pointer(inode, p \div DATA_BLK_SIZE) \in Nat /\ NumBlocks \in Nat
    BY PointerIsNumber, FilesAssumption
  <2>. QED
    BY <2>4, <2>5 DEF BadPointer
<1>. QED
  BY <1>2, <1>3

\* A read of a sound file transfers.
LEMMA SoundTransfers ==
    ASSUME StreamsInv, SoundEnds, NEW fd \in Above, NEW n \in Nat, n # 0,
           FileRead(fd, n), <<"file", fd_arr[fd].inode>> \in SoundFiles
    PROVE  Transfers(fd, n)
<1>. DEFINE inode == fd_arr[fd].inode
            pos == fd_arr[fd].file_pos
            L == InodeOf(inode).length
<1>1. fd \in Fds /\ fd_arr[fd].flags = 1 /\ fd_arr[fd].ops = "file"
  BY AboveFds DEF FileRead
<1>2. inode \in 0 .. Len(Inodes) - 1 /\ pos \in Nat /\ L \in Nat
  BY <1>1, FieldTypes, ImageTypes DEF StreamsInv, Inv
<1>3. pos <= L
  <2>1. pos <= Len(Content("file", inode))
    BY <1>1 DEF StreamsInv, OpenAreEntries, AtEntry
  <2>. QED
    BY <1>2, <2>1, ContentLength
<1>4. Transfers(fd, n) \/ Fails(fd) \/ Overruns(fd)
  BY <1>1, FileReadDoes DEF StreamsInv
<1>5. ~Fails(fd)
  <2>1. \A p \in pos .. L : ~BadPointer(inode, p \div DATA_BLK_SIZE)
    <3>1. \A p \in pos .. L : p \in 0 .. L
      BY <1>2
    <3>. QED
      BY <1>2, <3>1, SoundHasPointers
  <2>. QED
    BY <2>1 DEF Fails
<1>6. ~Overruns(fd)
  BY <1>2, <1>3 DEF Overruns
<1>. QED
  BY <1>4, <1>5, <1>6
-----------------------------------------------------------------------------
\* A table read as streams.
StreamsOf(arr) == [d \in Above |-> StreamOf(arr[d])]

LEMMA OneStreamMoves ==
    ASSUME NEW arr, DOMAIN arr = Fds, NEW fd \in Above, NEW new
    PROVE  StreamsOf([arr EXCEPT ![fd] = new]) =
              [StreamsOf(arr) EXCEPT ![fd] = StreamOf(new)]
<1>1. \A d \in Above : d \in DOMAIN arr
  BY AboveFds
<1>. QED
  BY <1>1 DEF StreamsOf

LEMMA MovedStream ==
    ASSUME NEW fd \in Descriptors, fd.flags = 1, NEW pos \in Nat
    PROVE  LET new == [fd EXCEPT !.file_pos = pos] IN
           /\ StreamOf(fd) = [file |-> <<fd.ops, fd.inode>>, pos |-> fd.file_pos]
           /\ StreamOf(new) = [file |-> <<fd.ops, fd.inode>>, pos |-> pos]
           /\ StreamOf(new) = [StreamOf(fd) EXCEPT !.pos = pos]
           /\ new.flags = 1 /\ new.ops = fd.ops /\ new.inode = fd.inode
           /\ new.file_pos = pos
BY DEF Descriptors, StreamOf

\* An open entry is not what a closed descriptor holds.
LEMMA OpenIsNotClosed ==
    ASSUME NEW fd, NEW pos, <<fd.ops, fd.inode>> \in Opened
    PROVE  [file |-> <<fd.ops, fd.inode>>, pos |-> pos] # NoStream
<1>1. PICK i \in DOMAIN Entries : <<fd.ops, fd.inode>> = <<Entries[i].type, Entries[i].inode>>
  BY DEF Opened
<1>2. Entries[i].type # "none"
  BY FilesAssumption
<1>3. fd.ops # "none"
  BY <1>1, <1>2
<1>. QED
  BY <1>3 DEF NoStream
-----------------------------------------------------------------------------
LEMMA EntryKept ==
    ASSUME StreamsInv, NEW fd \in Above, NEW new, AtEntry(new),
           fd_arr' = [fd_arr EXCEPT ![fd] = new]
    PROVE  /\ OpenAreEntries'
           /\ StreamsOf(fd_arr') = [StreamsOf(fd_arr) EXCEPT ![fd] = StreamOf(new)]
<1>1. DOMAIN fd_arr = Fds
  BY DEF StreamsInv, Inv, TypeOK
<1>2. \A d \in Above : fd_arr'[d] = IF d = fd THEN new ELSE fd_arr[d]
  BY <1>1, AboveFds
<1>3. \A d \in Above : AtEntry(fd_arr'[d])
  BY <1>2 DEF StreamsInv, OpenAreEntries
<1>4. OpenAreEntries'
  BY <1>3 DEF OpenAreEntries
<1>. QED
  BY <1>1, <1>4, OneStreamMoves

LEMMA ContentLengthIsNat ==
    ASSUME NEW f \in Opened
    PROVE  Len(Content(f[1], f[2])) \in Nat
<1>1. PICK i \in DOMAIN Entries : f = <<Entries[i].type, Entries[i].inode>>
  BY DEF Opened
<1>2. Entries[i].type \in {"rtc", "dir", "file"} /\ Entries[i].inode \in 0 .. Len(Inodes) - 1
  BY FilesAssumption
<1>3. CASE f[1] = "rtc"
  <2>1. Content(f[1], f[2]) = <<>>
    BY <1>3 DEF Content
  <2>. QED
    BY <2>1
<1>4. CASE f[1] = "dir"
  BY <1>4, NamesAreSeq, FilesAssumption
<1>5. CASE f[1] = "file"
  <2>1. InodeOf(f[2]).length \in Nat
    BY <1>1, <1>2, ImageTypes
  <2>. QED
    BY <1>5, <2>1, ContentLength
<1>. QED
  BY <1>1, <1>2, <1>3, <1>4, <1>5

LEMMA OpenSteps ==
    ASSUME StreamsInv, NEW name, Open(name)
    PROVE  OpenAreEntries' /\ Table!Next
<1>1. PICK i \in DOMAIN Entries, fd \in Fds :
        /\ LowestVacant(fd)
        /\ fd_arr' = [fd_arr EXCEPT ![fd] =
                        [flags |-> 1, ops |-> Entries[i].type,
                         inode |-> Entries[i].inode, file_pos |-> 0]]
  BY DEF Open
<1>. DEFINE new == [flags |-> 1, ops |-> Entries[i].type,
                    inode |-> Entries[i].inode, file_pos |-> 0]
            f == <<Entries[i].type, Entries[i].inode>>
<1>2. alive /\ buf' = buf /\ alive' = alive
  BY DEF Open
<1>3. fd \in Above /\ fd_arr[fd].flags = 0
  <2>1. fd # 0 /\ fd # 1
    BY <1>1, <1>2 DEF LowestVacant, StreamsInv, Inv, StandardStreams
  <2>. QED
    BY <1>1, <2>1, AboveFds DEF LowestVacant
<1>4. f \in Opened
  BY DEF Opened
<1>5. /\ <<new.ops, new.inode>> = f /\ new.flags = 1 /\ new.file_pos = 0
      /\ StreamOf(new) = [file |-> f, pos |-> 0]
      /\ f[1] = new.ops /\ f[2] = new.inode
  BY DEF StreamOf
<1>6. AtEntry(new)
  <2>1. 0 <= Len(Content(f[1], f[2]))
    BY <1>4, ContentLengthIsNat
  <2>. HIDE DEF new, f
  <2>. QED
    BY <1>4, <1>5, <2>1 DEF AtEntry
<1>10. fd_arr' = [fd_arr EXCEPT ![fd] = new]
  BY <1>1
<1>. HIDE DEF new, f
<1>7. /\ OpenAreEntries'
      /\ StreamsOf(fd_arr') = [StreamsOf(fd_arr) EXCEPT ![fd] = [file |-> f, pos |-> 0]]
  <2>1. /\ OpenAreEntries'
        /\ StreamsOf(fd_arr') = [StreamsOf(fd_arr) EXCEPT ![fd] = StreamOf(new)]
    BY <1>3, <1>6, <1>10, EntryKept
  <2>2. StreamOf(new) = [file |-> f, pos |-> 0]
    BY <1>5
  <2>. QED
    BY <2>1, <2>2
<1>8. StreamsOf(fd_arr)[fd] = NoStream
  BY <1>3 DEF StreamsOf, StreamOf
<1>9. Table!Open(fd, f)
  BY <1>2, <1>7, <1>8 DEF Table!Open, StreamsOf
<1>. QED
  BY <1>3, <1>4, <1>7, <1>9 DEF Table!Next

LEMMA CloseSteps ==
    ASSUME StreamsInv, NEW fd \in Fds, Close(fd)
    PROVE  OpenAreEntries' /\ Table!Next
<1>. DEFINE new == Vacant(fd_arr[fd].ops)
<1>1. /\ fd_arr' = [fd_arr EXCEPT ![fd] = new]
      /\ fd_arr[fd].flags = 1 /\ buf' = buf /\ alive' = alive
      /\ fd \in Above
  BY AboveFds DEF Close, Closeable
<1>2. new.flags = 0
  BY DEF Vacant
<1>. HIDE DEF new
<1>3. AtEntry(new) /\ StreamOf(new) = NoStream
  BY <1>2 DEF AtEntry, StreamOf
<1>4. /\ OpenAreEntries'
      /\ StreamsOf(fd_arr') = [StreamsOf(fd_arr) EXCEPT ![fd] = NoStream]
  BY <1>1, <1>3, EntryKept
<1>5. StreamsOf(fd_arr)[fd] # NoStream
  <2>1. <<fd_arr[fd].ops, fd_arr[fd].inode>> \in Opened
    BY <1>1 DEF StreamsInv, OpenAreEntries, AtEntry
  <2>2. StreamsOf(fd_arr)[fd] =
          [file |-> <<fd_arr[fd].ops, fd_arr[fd].inode>>, pos |-> fd_arr[fd].file_pos]
    BY <1>1 DEF StreamsOf, StreamOf
  <2>. QED
    BY <2>1, <2>2, OpenIsNotClosed
<1>6. Table!Close(fd)
  BY <1>1, <1>4, <1>5 DEF Table!Close, StreamsOf
<1>. QED
  BY <1>1, <1>4, <1>6 DEF Table!Next

\* A process begins with no stream open above the standard ones; the end of one
\* is an end, whether halt closes what is open or leaves it.
LEMMA ProcessSteps ==
    ASSUME StreamsInv, Execute \/ Halt \/ HaltRoot
    PROVE  OpenAreEntries' /\ Table!Next
<1>1. CASE Execute
  <2>1. \A d \in Above : fd_arr'[d].flags = 0
    <3>1. \A d \in Above : fd_arr'[d] = Vacant(fd_arr[d].ops)
      BY <1>1, AboveFds DEF Execute, SetupTable
    <3>2. \A ops : Vacant(ops).flags = 0
      BY DEF Vacant
    <3>. QED
      BY <3>1, <3>2
  <2>2. OpenAreEntries'
    BY <2>1 DEF OpenAreEntries, AtEntry
  <2>3. StreamsOf(fd_arr') = [d \in Above |-> NoStream]
    BY <2>1 DEF StreamsOf, StreamOf
  <2>4. Table!Begin
    BY <1>1, <2>3 DEF Execute, Table!Begin, Table!AllClosed, StreamsOf
  <2>. QED
    BY <2>2, <2>4 DEF Table!Next
<1>2. CASE Halt
  <2>1. \A d \in Above : fd_arr'[d].flags = 0
    <3>. SUFFICES ASSUME NEW d \in Above PROVE fd_arr'[d].flags = 0
      OBVIOUS
    <3>1. d \in Fds /\ ~(d < 2)
      BY AboveFds
    <3>2. fd_arr'[d] = IF fd_arr[d].flags = 1 THEN Vacant("none")
                       ELSE [fd_arr[d] EXCEPT !.ops = "none"]
      BY <1>2, <3>1 DEF Halt, HaltTable
    <3>3. fd_arr[d] \in Descriptors
      BY <3>1, FieldTypes DEF StreamsInv, Inv
    <3>. QED
      BY <3>2, <3>3 DEF Vacant, Descriptors
  <2>2. OpenAreEntries'
    BY <2>1 DEF OpenAreEntries, AtEntry
  <2>3. Table!End
    BY <1>2 DEF Halt, Table!End
  <2>. QED
    BY <2>2, <2>3 DEF Table!Next
<1>3. CASE HaltRoot
  <2>1. OpenAreEntries'
    BY <1>3 DEF HaltRoot, StreamsInv, OpenAreEntries
  <2>2. Table!End
    BY <1>3 DEF HaltRoot, Table!End
  <2>. QED
    BY <2>1, <2>2 DEF Table!Next
<1>. QED
  BY <1>1, <1>2, <1>3
-----------------------------------------------------------------------------
\* A read hands over the next n items of an entry that can be read.
LEMMA ReadSteps ==
    ASSUME StreamsInv, NEW fd \in Above, fd_arr[fd].flags = 1,
           NEW n \in Nat,
           <<fd_arr[fd].ops, fd_arr[fd].inode>> \in SoundFiles,
           NEW c, c = Content(fd_arr[fd].ops, fd_arr[fd].inode),
           fd_arr[fd].file_pos + n <= Len(c),
           n = 0 => fd_arr[fd].file_pos = Len(c),
           buf' = SubSeq(c, fd_arr[fd].file_pos + 1, fd_arr[fd].file_pos + n),
           fd_arr' = [fd_arr EXCEPT ![fd].file_pos = fd_arr[fd].file_pos + n],
           alive' = alive
    PROVE  OpenAreEntries' /\ Table!Next
<1>. DEFINE old == fd_arr[fd]
            pos == old.file_pos
            new == [old EXCEPT !.file_pos = pos + n]
            f == <<old.ops, old.inode>>
<1>1. /\ old \in Descriptors /\ pos \in Nat /\ pos + n \in Nat
      /\ fd \in Fds
  BY AboveFds, FieldTypes DEF StreamsInv, Inv
<1>2. fd_arr' = [fd_arr EXCEPT ![fd] = new]
  BY <1>1 DEF StreamsInv, Inv, TypeOK
<1>3. f \in Opened
  BY DEF StreamsInv, OpenAreEntries, AtEntry
<1>4. /\ StreamOf(old) = [file |-> f, pos |-> pos]
      /\ StreamOf(new) = [StreamOf(old) EXCEPT !.pos = pos + n]
      /\ new.ops = old.ops /\ new.inode = old.inode /\ new.file_pos = pos + n
      /\ new.flags = 1
  <2>1. old \in Descriptors /\ old.flags = 1 /\ pos + n \in Nat
    BY <1>1
  <2>. HIDE DEF old
  <2>. QED
    BY <2>1, MovedStream
<1>5. AtEntry(new)
  <2>. HIDE DEF new
  <2>. QED
    BY <1>3, <1>4 DEF AtEntry
<1>. HIDE DEF new
<1>6. /\ OpenAreEntries'
      /\ StreamsOf(fd_arr') = [StreamsOf(fd_arr) EXCEPT ![fd] = StreamOf(new)]
  BY <1>2, <1>5, EntryKept
<1>7. StreamsOf(fd_arr)[fd] = StreamOf(old)
  BY DEF StreamsOf
<1>. DEFINE contents == [g \in Opened |-> Content(g[1], g[2])]
            s == StreamsOf(fd_arr)[fd]
            left == Len(contents[s.file]) - s.pos
<1>8. s.file = f /\ s.pos = pos /\ contents[s.file] = c
  <2>1. s.file = f /\ s.pos = pos
    BY <1>4, <1>7
  <2>2. contents[f] = c
    BY <1>3
  <2>. QED
    BY <2>1, <2>2
<1>9. s # NoStream
  BY <1>3, <1>4, <1>7, OpenIsNotClosed
<1>10. n \in 0 .. left /\ (n = 0 => left = 0)
  <2>1. left = Len(c) - pos
    BY <1>8
  <2>2. Len(c) \in Nat
    BY <1>3, ContentLengthIsNat
  <2>. HIDE DEF left, pos
  <2>. QED
    BY <1>1, <2>1, <2>2 DEF pos
<1>11. StreamsOf(fd_arr') = [StreamsOf(fd_arr) EXCEPT ![fd].pos = @ + n]
  <2>1. StreamOf(new) = [s EXCEPT !.pos = s.pos + n]
    BY <1>4, <1>7, <1>8
  <2>. QED
    BY <1>6, <2>1
<1>12. buf' = SubSeq(contents[s.file], s.pos + 1, s.pos + n)
  BY <1>8
<1>13. s.file \in SoundFiles
  BY <1>8
<1>14. Table!Read(fd)
  <2>. QED
    BY <1>9, <1>10, <1>11, <1>12, <1>13 DEF Table!Read, StreamsOf
<1>. QED
  BY <1>6, <1>14 DEF Table!Next
-----------------------------------------------------------------------------
LEMMA DamagedSteps ==
    ASSUME StreamsInv, NEW fd \in Above, fd_arr[fd].flags = 1, NEW pos \in Nat,
           <<fd_arr[fd].ops, fd_arr[fd].inode>> \notin SoundFiles,
           fd_arr' = [fd_arr EXCEPT ![fd].file_pos = pos],
           alive' = alive
    PROVE  OpenAreEntries' /\ Table!Next
<1>. DEFINE old == fd_arr[fd]
            new == [old EXCEPT !.file_pos = pos]
            f == <<old.ops, old.inode>>
<1>1. old \in Descriptors /\ fd \in Fds
  BY AboveFds, FieldTypes DEF StreamsInv, Inv
<1>2. fd_arr' = [fd_arr EXCEPT ![fd] = new]
  BY <1>1 DEF StreamsInv, Inv, TypeOK
<1>3. f \in Opened
  BY DEF StreamsInv, OpenAreEntries, AtEntry
<1>4. /\ StreamOf(old) = [file |-> f, pos |-> old.file_pos]
      /\ StreamOf(new) = [file |-> f, pos |-> pos]
      /\ new.ops = old.ops /\ new.inode = old.inode
  BY <1>1, MovedStream
<1>5. AtEntry(new)
  <2>. HIDE DEF new
  <2>. QED
    BY <1>3, <1>4 DEF AtEntry
<1>. HIDE DEF new
<1>6. /\ OpenAreEntries'
      /\ StreamsOf(fd_arr') = [StreamsOf(fd_arr) EXCEPT ![fd] = StreamOf(new)]
  BY <1>2, <1>5, EntryKept
<1>7. /\ StreamsOf(fd_arr)[fd] = [file |-> f, pos |-> old.file_pos]
      /\ StreamsOf(fd_arr)[fd] # NoStream
  <2>1. StreamsOf(fd_arr)[fd] = StreamOf(old)
    BY DEF StreamsOf
  <2>. QED
    BY <1>3, <1>4, <2>1, OpenIsNotClosed
<1>8. /\ StreamsOf(fd_arr')[fd] = [file |-> f, pos |-> pos]
      /\ StreamsOf(fd_arr')[fd] # NoStream
      /\ StreamsOf(fd_arr')[fd] = StreamOf(new)
  <2>1. StreamsOf(fd_arr')[fd] = StreamOf(new)
    BY <1>6 DEF StreamsOf
  <2>. QED
    BY <1>3, <1>4, <2>1, OpenIsNotClosed
<1>9. StreamsOf(fd_arr') = [StreamsOf(fd_arr) EXCEPT ![fd] = StreamsOf(fd_arr')[fd]]
  <2>1. StreamsOf(fd_arr') = [StreamsOf(fd_arr) EXCEPT ![fd] = StreamOf(new)]
    BY <1>6
  <2>2. StreamOf(new) = StreamsOf(fd_arr')[fd]
    BY <1>8
  <2>. QED
    BY <2>1, <2>2
<1>10. /\ StreamsOf(fd_arr)[fd].file = f /\ StreamsOf(fd_arr')[fd].file = f
  <2>1. \A g, p : [file |-> g, pos |-> p].file = g
    OBVIOUS
  <2>. HIDE DEF f
  <2>2. \A x, p : x = [file |-> f, pos |-> p] => x.file = f
    BY <2>1
  <2>3. StreamsOf(fd_arr)[fd].file = f
    BY <1>7, <2>2
  <2>4. StreamsOf(fd_arr')[fd].file = f
    BY <1>8, <2>2
  <2>. QED
    BY <2>3, <2>4
<1>11. Table!ReadDamaged(fd)
  <2>1. f \notin SoundFiles
    OBVIOUS
  <2>. HIDE DEF f
  <2>. QED
    BY <1>7, <1>8, <1>9, <1>10, <2>1 DEF Table!ReadDamaged, StreamsOf
<1>. QED
  BY <1>6, <1>11 DEF Table!Next

LEMMA FileReadSteps ==
    ASSUME StreamsInv, SoundEnds, NEW fd \in Fds, NEW n \in Nat, n # 0,
           FileRead(fd, n)
    PROVE  OpenAreEntries' /\ Table!Next
<1>. DEFINE inode == fd_arr[fd].inode
            pos == fd_arr[fd].file_pos
            c == Content(fd_arr[fd].ops, inode)
            L == InodeOf(inode).length
<1>1. fd \in Above /\ fd_arr[fd].flags = 1 /\ fd_arr[fd].ops = "file"
  <2>1. fd >= 2 /\ fd_arr[fd].flags = 1 /\ fd_arr[fd].ops = "file"
    BY DEF FileRead
  <2>2. fd # 0 /\ fd # 1
    BY <2>1, StandardFds
  <2>. QED
    BY <2>1, <2>2, AboveFds
<1>2. inode \in 0 .. Len(Inodes) - 1 /\ pos \in Nat /\ L \in Nat
  BY FieldTypes, ImageTypes DEF StreamsInv, Inv
<1>5. alive' = alive
  BY DEF FileRead
<1>3. CASE <<"file", inode>> \in SoundFiles
  <2>1. Transfers(fd, n)
    BY <1>1, <1>3, SoundTransfers
  <2>2. c = FileContent(inode) /\ Len(c) = L
    BY <1>1, <1>2, ContentLength
  <2>3. PICK m : m = Within(n, inode, pos)
    OBVIOUS
  <2>4. /\ m \in 0 .. L - pos /\ (m = 0 => pos = L)
        /\ buf' = SubSeq(FileContent(inode), pos + 1, pos + m)
        /\ fd_arr' = [fd_arr EXCEPT ![fd].file_pos = pos + m]
    BY <2>1, <2>3 DEF Transfers
  <2>. HIDE DEF c
  <2>5. m \in Nat /\ pos + m <= Len(c) /\ (m = 0 => pos = Len(c))
    <3>. HIDE DEF L, pos
    <3>. QED
      BY <1>2, <2>2, <2>4
  <2>6. /\ <<fd_arr[fd].ops, inode>> \in SoundFiles
        /\ buf' = SubSeq(c, pos + 1, pos + m)
    BY <1>1, <1>3, <2>2, <2>4
  <2>. QED
    BY <1>1, <1>5, <2>4, <2>5, <2>6, ReadSteps DEF c
<1>4. CASE <<"file", inode>> \notin SoundFiles
  <2>1. PICK p \in Nat : fd_arr' = [fd_arr EXCEPT ![fd].file_pos = p]
    BY FileReadMoves DEF StreamsInv
  <2>2. <<fd_arr[fd].ops, inode>> \notin SoundFiles
    BY <1>1, <1>4
  <2>. QED
    BY <1>1, <1>5, <2>1, <2>2, DamagedSteps
<1>. QED
  BY <1>3, <1>4

LEMMA DirReadSteps ==
    ASSUME StreamsInv, NEW fd \in Fds, DirRead(fd)
    PROVE  OpenAreEntries' /\ Table!Next
<1>. DEFINE inode == fd_arr[fd].inode
            pos == fd_arr[fd].file_pos
            c == Content(fd_arr[fd].ops, inode)
<1>1. fd \in Above /\ fd_arr[fd].flags = 1 /\ fd_arr[fd].ops = "dir" /\ pos \in Nat
  <2>1. alive /\ fd_arr[fd].flags = 1 /\ fd_arr[fd].ops = "dir"
    BY DEF DirRead
  <2>2. fd # 0 /\ fd # 1
    BY <2>1 DEF StreamsInv, Inv, StandardStreams
  <2>. QED
    BY <2>1, <2>2, AboveFds, FieldTypes DEF StreamsInv, Inv
<1>2. /\ <<"dir", inode>> \in SoundFiles
      /\ pos <= Len(c)
  <2>1. <<"dir", inode>> \in Opened
    BY <1>1 DEF StreamsInv, OpenAreEntries, AtEntry
  <2>2. <<"dir", inode>>[1] # "file"
    OBVIOUS
  <2>3. <<"dir", inode>> \in SoundFiles
    BY <2>1, <2>2 DEF SoundFiles
  <2>4. pos <= Len(c)
    BY <1>1, <2>3 DEF StreamsInv, OpenAreEntries, AtEntry
  <2>. QED
    BY <2>3, <2>4
<1>3. /\ Len(c) = Len(Entries) /\ Len(Entries) \in Nat
      /\ \E S : c \in Seq(S)
      /\ \A p \in 0 .. Len(Entries) - 1 : c[p + 1] = EntryName(p)
  BY <1>1, NamesAreSeq, FilesAssumption
<1>6. alive' = alive
  BY DEF DirRead
<1>4. CASE pos >= Len(Entries)
  <2>1. pos = Len(c) /\ pos + 0 = pos
    <3>. HIDE DEF pos, c
    <3>. QED
      BY <1>1, <1>2, <1>3, <1>4
  <2>2. buf' = <<>> /\ fd_arr' = fd_arr
    BY <1>1, <1>3, <1>4 DEF DirRead
  <2>3. SubSeq(c, pos + 1, pos + 0) = <<>>
    BY <1>1, SubSeqEmpty
  <2>4. fd_arr' = [fd_arr EXCEPT ![fd].file_pos = pos + 0]
    <3>1. fd \in Fds /\ fd_arr[fd] \in Descriptors
      BY FieldTypes DEF StreamsInv, Inv
    <3>2. [fd_arr[fd] EXCEPT !.file_pos = fd_arr[fd].file_pos] = fd_arr[fd]
      BY <3>1 DEF Descriptors
    <3>3. [fd_arr EXCEPT ![fd] = fd_arr[fd]] = fd_arr
      BY DEF StreamsInv, Inv, TypeOK
    <3>4. [fd_arr EXCEPT ![fd].file_pos = pos] = [fd_arr EXCEPT ![fd] = [fd_arr[fd] EXCEPT !.file_pos = pos]]
      OBVIOUS
    <3>. QED
      BY <2>1, <2>2, <3>2, <3>3, <3>4
  <2>5. /\ <<fd_arr[fd].ops, inode>> \in SoundFiles
        /\ pos + 0 <= Len(c)
        /\ buf' = SubSeq(c, pos + 1, pos + 0)
    BY <1>1, <1>2, <2>1, <2>2, <2>3
  <2>. HIDE DEF c
  <2>. QED
    BY <1>1, <1>6, <2>1, <2>4, <2>5, ReadSteps DEF c
<1>5. CASE ~(pos >= Len(Entries))
  <2>1. pos \in 0 .. Len(c) - 1 /\ pos + 1 <= Len(c)
    <3>. HIDE DEF pos, c
    <3>. QED
      BY <1>1, <1>3, <1>5
  <2>2. /\ buf' = <<EntryName(pos)>>
        /\ fd_arr' = [fd_arr EXCEPT ![fd].file_pos = pos + 1]
    BY <1>1, <1>3, <1>5 DEF DirRead, StreamsInv, Inv, TypeOK
  <2>3. SubSeq(c, pos + 1, pos + 1) = <<EntryName(pos)>>
    <3>1. c[pos + 1] = EntryName(pos)
      BY <1>3, <2>1
    <3>2. PICK S : c \in Seq(S)
      BY <1>3
    <3>. HIDE DEF c, pos
    <3>3. SubSeq(c, pos + 1, pos + 1) = <<c[pos + 1]>>
      BY <2>1, <3>2, SingleOf
    <3>. QED
      BY <3>1, <3>3
  <2>4. /\ <<fd_arr[fd].ops, inode>> \in SoundFiles
        /\ buf' = SubSeq(c, pos + 1, pos + 1)
    BY <1>1, <1>2, <2>2, <2>3
  <2>5. PICK m \in Nat : m = 1
    OBVIOUS
  <2>6. /\ pos + m <= Len(c) /\ (m = 0 => pos = Len(c))
        /\ buf' = SubSeq(c, pos + 1, pos + m)
        /\ fd_arr' = [fd_arr EXCEPT ![fd].file_pos = pos + m]
    <3>1. pos + m <= Len(c) /\ m # 0
      BY <2>1, <2>5
    <3>2. pos + m = pos + 1
      BY <2>5
    <3>. HIDE DEF c, pos
    <3>. QED
      BY <2>2, <2>4, <3>1, <3>2
  <2>. HIDE DEF c
  <2>. QED
    BY <1>1, <1>6, <2>4, <2>6, ReadSteps DEF c
<1>. QED
  BY <1>4, <1>5
-----------------------------------------------------------------------------
LEMMA StreamsInit == Init => OpenAreEntries /\ Table!Init
<1>. SUFFICES ASSUME Init PROVE OpenAreEntries /\ Table!Init
  OBVIOUS
<1>1. \A d \in Above : fd_arr[d].flags = 0
  BY AboveFds DEF Init, Vacant
<1>2. OpenAreEntries
  BY <1>1 DEF OpenAreEntries, AtEntry
<1>3. [d \in Above |-> StreamOf(fd_arr[d])] = [d \in Above |-> NoStream]
  BY <1>1 DEF StreamOf
<1>4. buf = <<>> /\ alive = FALSE
  BY DEF Init
<1>. QED
  BY <1>2, <1>3, <1>4 DEF Table!Init, Table!AllClosed

LEMMA StreamsStep ==
    ASSUME StreamsInv, SoundEnds, 0 \notin ReadSizes, [Next]_vars
    PROVE  OpenAreEntries' /\ [Table!Next]_(Table!vars)
<1>1. CASE Execute \/ Halt \/ HaltRoot
  BY <1>1, ProcessSteps
<1>2. ASSUME NEW name \in Names, Open(name) PROVE OpenAreEntries' /\ Table!Next
  BY <1>2, OpenSteps
<1>3. ASSUME NEW fd \in Fds, Close(fd) PROVE OpenAreEntries' /\ Table!Next
  BY <1>3, CloseSteps
<1>4. ASSUME NEW fd \in Fds, NEW n \in ReadSizes, FileRead(fd, n)
      PROVE  OpenAreEntries' /\ Table!Next
  <2>1. n # 0
    OBVIOUS
  <2>. QED
    BY FilesAssumption, <1>4, <2>1, FileReadSteps
<1>5. ASSUME NEW fd \in Fds, DirRead(fd) PROVE OpenAreEntries' /\ Table!Next
  BY <1>5, DirReadSteps
<1>6. CASE UNCHANGED vars
  <2>1. fd_arr' = fd_arr /\ buf' = buf /\ alive' = alive
    BY <1>6 DEF vars
  <2>2. OpenAreEntries'
    BY <2>1 DEF StreamsInv, OpenAreEntries
  <2>3. UNCHANGED Table!vars
    BY <2>1 DEF Table!vars
  <2>. QED
    BY <2>2, <2>3
<1>. QED
  BY <1>1, <1>2, <1>3, <1>4, <1>5, <1>6 DEF Next

\* open, close, read, halt and setup_fd implement Streams: a descriptor is a stream
\* over one entry of the directory, of its own position, a read hands over the next
\* items of the entry, as many as were asked for or are left, and no process finds a
\* descriptor of the one before.  For any image in which the pointer behind the end
\* of a whole-block file is in range: where it is not, read_data fails at the end of
\* the file instead of returning 0, and file_read moves past it.
THEOREM DescriptorsAreStreams ==
    ASSUME 0 \notin ReadSizes, SoundEnds
    PROVE  Spec => ImplementsStreams
<1>1. Init => StreamsInv /\ Table!Init
  BY InvInit, StreamsInit DEF StreamsInv
<1>2. StreamsInv /\ [Next]_vars => StreamsInv' /\ [Table!Next]_(Table!vars)
  BY InvStep, StreamsStep DEF StreamsInv
<1>. QED
  BY <1>1, <1>2, PTL DEF Spec, ImplementsStreams, Table!Spec
-----------------------------------------------------------------------------
(***************************************************************************)
(* FlattenSeq of a sequence of sequences: its recursive function exists,   *)
(* and one sequence more is put behind what there is.                      *)
(***************************************************************************)

FlattensTo(m, f, g) ==
    f = [i \in 1 .. m |-> IF i = 1 THEN g[i] ELSE f[i - 1] \o g[i]]

LEMMA FlatteningExists ==
    ASSUME NEW g, NEW m \in Nat
    PROVE  \E f : FlattensTo(m, f, g)
<1>. DEFINE T == {n \in Nat : \E f : FlattensTo(n, f, g)}
<1>1. 0 \in T
  <2>. DEFINE f == [i \in 1 .. 0 |-> i]
  <2>1. f = [i \in 1 .. 0 |-> IF i = 1 THEN g[i] ELSE f[i - 1] \o g[i]]
    OBVIOUS
  <2>. QED
    BY <2>1 DEF FlattensTo
<1>2. ASSUME NEW n \in T
      PROVE  n + 1 \in T
  <2>1. n \in Nat /\ n + 1 \in Nat
    OBVIOUS
  <2>2. PICK f : FlattensTo(n, f, g)
    OBVIOUS
  <2>. DEFINE Value(h, i) == IF i = 1 THEN g[i] ELSE h[i - 1] \o g[i]
              h == [i \in 1 .. n + 1 |-> IF i <= n THEN f[i] ELSE Value(f, i)]
  <2>3. \A i \in 1 .. n : f[i] = Value(f, i)
    BY <2>2 DEF FlattensTo
  <2>4. \A i \in 1 .. n + 1 : i <= n => i \in 1 .. n
    BY <2>1
  <2>5. \A i \in 1 .. n + 1 : i # 1 => h[i - 1] = f[i - 1]
    BY <2>1
  <2>6. \A i \in 1 .. n + 1 : Value(h, i) = Value(f, i)
    <3>. HIDE DEF h
    <3>. QED
      BY <2>5
  <2>7. h = [i \in 1 .. n + 1 |-> Value(h, i)]
    <3>. HIDE DEF Value
    <3>1. \A i \in 1 .. n + 1 : h[i] = Value(f, i)
      BY <2>3, <2>4
    <3>2. h = [i \in 1 .. n + 1 |-> h[i]]
      OBVIOUS
    <3>. HIDE DEF h
    <3>. QED
      BY <3>1, <3>2, <2>6
  <2>8. FlattensTo(n + 1, h, g)
    <3>. HIDE DEF h
    <3>. QED
      BY <2>7 DEF FlattensTo
  <2>. QED
    BY <2>1, <2>8
<1>3. T = Nat
  <2>. HIDE DEF T
  <2>1. T \subseteq Nat
    BY DEF T
  <2>. QED
    BY <1>1, <1>2, <2>1, InductiveSetIsNat
<1>. QED
  BY <1>3

\* Two of them agree as far as their sequences do.
LEMMA FlatteningsAgree ==
    ASSUME NEW m \in Nat, NEW n \in Nat, m <= n, NEW f, NEW g, NEW e, NEW h,
           FlattensTo(m, e, g), FlattensTo(n, f, h), \A i \in 1 .. m : g[i] = h[i]
    PROVE  \A i \in 1 .. m : e[i] = f[i]
<1>. DEFINE T == {i \in Nat : i \in 1 .. m => e[i] = f[i]}
<1>1. 0 \in T
  OBVIOUS
<1>2. ASSUME NEW i \in T
      PROVE  i + 1 \in T
  <2>. SUFFICES ASSUME i + 1 \in 1 .. m
                PROVE  e[i + 1] = f[i + 1]
    OBVIOUS
  <2>1. i \in Nat /\ i + 1 \in 1 .. n /\ (i + 1) - 1 = i /\ g[i + 1] = h[i + 1]
    OBVIOUS
  <2>2. /\ e[i + 1] = IF i + 1 = 1 THEN g[i + 1] ELSE e[(i + 1) - 1] \o g[i + 1]
        /\ f[i + 1] = IF i + 1 = 1 THEN h[i + 1] ELSE f[(i + 1) - 1] \o h[i + 1]
    <3>1. /\ e = [j \in 1 .. m |-> IF j = 1 THEN g[j] ELSE e[j - 1] \o g[j]]
          /\ f = [j \in 1 .. n |-> IF j = 1 THEN h[j] ELSE f[j - 1] \o h[j]]
      BY DEF FlattensTo
    <3>. QED
      BY <2>1, <3>1
  <2>3. i # 0 => e[i] = f[i]
    BY <2>1
  <2>. QED
    BY <2>1, <2>2, <2>3
<1>3. T = Nat
  <2>. HIDE DEF T
  <2>1. T \subseteq Nat
    BY DEF T
  <2>. QED
    BY <1>1, <1>2, <2>1, InductiveSetIsNat
<1>. QED
  BY <1>3

LEMMA FlattenIs ==
    ASSUME NEW n \in Nat \ {0}, NEW g, Len(g) = n
    PROVE  \E f : FlattensTo(n, f, g) /\ FlattenSeq(g) = f[n]
<1>. DEFINE f == CHOOSE h : h = [i \in 1 .. n |-> IF i = 1 THEN g[i] ELSE h[i - 1] \o g[i]]
<1>1. FlattenSeq(g) = f[n]
  BY DEF FlattenSeq
<1>2. FlattensTo(n, f, g)
  <2>1. \E h : FlattensTo(n, h, g)
    BY FlatteningExists
  <2>. QED
    BY <2>1 DEF FlattensTo
<1>. QED
  BY <1>1, <1>2

LEMMA LenOfFunction ==
    ASSUME NEW n \in Nat, NEW g
    PROVE  Len([i \in 1 .. n |-> g[i]]) = n
<1>. DEFINE c == [i \in 1 .. n |-> g[i]]
            S == {g[i] : i \in 1 .. n}
<1>1. c \in [1 .. n -> S]
  OBVIOUS
<1>. HIDE DEF c, S
<1>2. Len(c) = n
  BY <1>1, FunctionIsSeq
<1>. QED
  BY <1>2 DEF c

LEMMA JoinedNone == \A g : Joined(g, 0) = <<>>
<1>. SUFFICES ASSUME NEW g PROVE Joined(g, 0) = <<>>
  OBVIOUS
<1>1. [i \in 1 .. 0 |-> g[i]] = <<>>
  OBVIOUS
<1>2. Len(<<>>) = 0
  OBVIOUS
<1>. QED
  BY <1>1, <1>2 DEF Joined, FlattenSeq

LEMMA JoinedNext ==
    ASSUME NEW S, NEW n \in Nat, NEW g, \A i \in 1 .. n + 1 : g[i] \in Seq(S)
    PROVE  Joined(g, n + 1) = Joined(g, n) \o g[n + 1]
<1>. DEFINE G == [i \in 1 .. n |-> g[i]]
            H == [i \in 1 .. n + 1 |-> g[i]]
<1>0. n + 1 \in Nat \ {0} /\ n + 1 \in 1 .. n + 1 /\ (n + 1) - 1 = n
  OBVIOUS
<1>1. Len(G) = n /\ Len(H) = n + 1
  BY <1>0, LenOfFunction
<1>2. \A i \in 1 .. n : G[i] = H[i]
  OBVIOUS
<1>3. H[n + 1] = g[n + 1]
  BY <1>0
<1>. HIDE DEF G, H
<1>4. PICK f : FlattensTo(n + 1, f, H) /\ FlattenSeq(H) = f[n + 1]
  BY <1>0, <1>1, FlattenIs
<1>5. f[n + 1] = IF n = 0 THEN H[n + 1] ELSE f[n] \o H[n + 1]
  <2>1. f[n + 1] = IF n + 1 = 1 THEN H[n + 1] ELSE f[(n + 1) - 1] \o H[n + 1]
    BY <1>0, <1>4 DEF FlattensTo
  <2>2. n + 1 = 1 <=> n = 0
    OBVIOUS
  <2>. QED
    BY <1>0, <2>1, <2>2
<1>6. CASE n = 0
  <2>1. FlattenSeq(G) = <<>>
    BY <1>6, JoinedNone DEF G, Joined
  <2>2. g[n + 1] \in Seq(S)
    BY <1>0
  <2>3. <<>> \o g[n + 1] = g[n + 1]
    BY <2>2, ConcatEmptySeq
  <2>. QED
    BY <1>3, <1>4, <1>5, <1>6, <2>1, <2>3 DEF Joined, G, H
<1>7. CASE n # 0
  <2>1. PICK e : FlattensTo(n, e, G) /\ FlattenSeq(G) = e[n]
    BY <1>1, <1>7, FlattenIs
  <2>2. n <= n + 1 /\ n \in 1 .. n
    BY <1>7
  <2>3. e[n] = f[n]
    BY <1>0, <1>2, <1>4, <2>1, <2>2, FlatteningsAgree
  <2>. QED
    BY <1>3, <1>4, <1>5, <1>7, <2>1, <2>3 DEF Joined, G, H
<1>. QED
  BY <1>6, <1>7

LEMMA JoinedType ==
    ASSUME NEW S, NEW N \in Nat, NEW g, \A i \in 1 .. N : g[i] \in Seq(S)
    PROVE  \A n \in 0 .. N : Joined(g, n) \in Seq(S)
<1>. DEFINE T == {n \in Nat : n <= N => Joined(g, n) \in Seq(S)}
<1>1. 0 \in T
  <2>1. <<>> \in Seq(S)
    OBVIOUS
  <2>. QED
    BY <2>1, JoinedNone
<1>2. ASSUME NEW n \in T
      PROVE  n + 1 \in T
  <2>. SUFFICES ASSUME n + 1 <= N
                PROVE  Joined(g, n + 1) \in Seq(S)
    OBVIOUS
  <2>1. n \in Nat /\ n <= N /\ n + 1 \in 1 .. N /\ \A i \in 1 .. n + 1 : i \in 1 .. N
    OBVIOUS
  <2>2. Joined(g, n + 1) = Joined(g, n) \o g[n + 1]
    BY <2>1, JoinedNext
  <2>3. Joined(g, n) \in Seq(S) /\ g[n + 1] \in Seq(S)
    BY <2>1
  <2>. QED
    BY <2>2, <2>3, ConcatProperties
<1>3. T = Nat
  <2>. HIDE DEF T
  <2>1. T \subseteq Nat
    BY DEF T
  <2>. QED
    BY <1>1, <1>2, <2>1, InductiveSetIsNat
<1>. QED
  BY <1>3

\* The items of a sequence, each as a sequence, are the sequence.
LEMMA JoinedSingles ==
    ASSUME NEW S, NEW c \in Seq(S), NEW g, NEW N \in Nat, N <= Len(c),
           \A i \in 1 .. N : g[i] = <<c[i]>>
    PROVE  \A n \in 0 .. N : Joined(g, n) = SubSeq(c, 1, n)
<1>. DEFINE T == {n \in Nat : n <= N => Joined(g, n) = SubSeq(c, 1, n)}
<1>1. 0 \in T
  <2>1. SubSeq(c, 1, 0) = <<>>
    BY SubSeqEmpty
  <2>. QED
    BY <2>1, JoinedNone
<1>2. ASSUME NEW n \in T
      PROVE  n + 1 \in T
  <2>. SUFFICES ASSUME n + 1 <= N
                PROVE  Joined(g, n + 1) = SubSeq(c, 1, n + 1)
    OBVIOUS
  <2>1. /\ n \in Nat /\ n <= N /\ n + 1 \in 1 .. N /\ (n + 1) - 1 = n
        /\ \A i \in 1 .. n + 1 : i \in 1 .. N
    OBVIOUS
  <2>2. \A i \in 1 .. n + 1 : g[i] \in Seq(S)
    <3>1. \A i \in 1 .. N : c[i] \in S
      BY ElementType
    <3>2. \A i \in 1 .. n + 1 : g[i] = <<c[i]>> /\ c[i] \in S
      BY <2>1, <3>1
    <3>3. \A x \in S : <<x>> \in Seq(S)
      OBVIOUS
    <3>. QED
      BY <3>2, <3>3, Zenon
  <2>3. Joined(g, n + 1) = Joined(g, n) \o <<c[n + 1]>>
    BY <2>1, <2>2, JoinedNext
  <2>4. Joined(g, n) = SubSeq(c, 1, n)
    BY <2>1
  <2>5. 1 \in 1 .. Len(c) /\ n + 1 \in 1 .. Len(c)
    BY <2>1
  <2>. HIDE DEF T
  <2>6. SubSeq(c, 1, n + 1) = SubSeq(c, 1, n) \o <<c[n + 1]>>
    BY <2>1, <2>5, SubSeqRecursiveSecond
  <2>. QED
    BY <2>3, <2>4, <2>6
<1>3. T = Nat
  <2>. HIDE DEF T
  <2>1. T \subseteq Nat
    BY DEF T
  <2>. QED
    BY <1>1, <1>2, <2>1, InductiveSetIsNat
<1>4. \A n \in 0 .. N : n \in T /\ n <= N
  <2>. HIDE DEF T
  <2>. QED
    BY <1>3
<1>. QED
  BY <1>4
-----------------------------------------------------------------------------
(***************************************************************************)
(* Programs: what a program has open, and where its buffer is.             *)
(***************************************************************************)

LEMMA Least ==
    ASSUME NEW T, T \subseteq Nat, T # {}
    PROVE  \E x \in T : \A y \in T : x <= y
<1>. DEFINE R == OpToRel(<, Nat)
<1>1. IsWellFoundedOn(R, Nat)
  BY NatLessThanWellFounded
<1>. HIDE DEF R
<1>2. PICK x \in T : \A y \in T : ~ (<<y, x>> \in R)
  BY <1>1, WFMin
<1>3. \A y \in T : ~ (y < x)
  BY <1>2 DEF R, OpToRel
<1>4. \A y \in T : y \in Nat /\ x \in Nat
  OBVIOUS
<1>. QED
  BY <1>3, <1>4

LEMMA Sizes ==
    /\ MAX_FILENAME_LEN \in Nat \ {0}
    /\ MAX_ARG_LEN \in Nat /\ MAX_ARG_LEN > MAX_FILENAME_LEN + 1
    /\ BUFSIZE \in Nat \ {0} /\ BUFSIZE <= MAX_ARG_LEN
    /\ BUFSIZE + 1 \in Nat
    /\ DATA_BLK_SIZE \in Nat \ {0}
    /\ NumBlocks \in Nat \ {0}
    /\ Len(Entries) \in Nat /\ DOMAIN Entries = 1 .. Len(Entries)
BY ProgramsAssumption, FilesAssumption

\* A part of a sequence.
LEMMA PartType ==
    ASSUME NEW S, NEW c \in Seq(S), NEW m \in Nat \ {0}, NEW n \in Int, n <= Len(c)
    PROVE  /\ SubSeq(c, m, n) \in Seq(S)
           /\ Len(SubSeq(c, m, n)) = IF m <= n THEN n - m + 1 ELSE 0
           /\ \A i \in 1 .. n - m + 1 : SubSeq(c, m, n)[i] = c[m + i - 1]
<1>1. \A i \in m .. n : c[i] \in S
  <2>1. \A i \in m .. n : i \in 1 .. Len(c)
    OBVIOUS
  <2>. QED
    BY <2>1, ElementType
<1>. QED
  BY <1>1, SubSeqProperties
-----------------------------------------------------------------------------
\* The byte of a file at a position.
ByteAt(inode, p) ==
    Blocks[Pointer(inode, p \div DATA_BLK_SIZE) + 1][(p % DATA_BLK_SIZE) + 1]

LEMMA ByteType ==
    ASSUME NEW inode \in 0 .. Len(Inodes) - 1, NEW p \in 0 .. InodeOf(inode).length,
           ~BadPointer(inode, p \div DATA_BLK_SIZE)
    PROVE  /\ ByteAt(inode, p) \in Bytes
           /\ Item(<<Pointer(inode, p \div DATA_BLK_SIZE), p % DATA_BLK_SIZE>>)
                 = <<ByteAt(inode, p)>>
<1>. DEFINE n == Pointer(inode, p \div DATA_BLK_SIZE)
            k == p % DATA_BLK_SIZE
<1>1. n \in Nat
  BY PointerIsNumber
<1>2. n + 1 \in 1 .. NumBlocks
  <2>1. ~(n > NumBlocks - 1)
    BY DEF BadPointer
  <2>. HIDE DEF n
  <2>. QED
    BY <1>1, <2>1, Sizes
<1>3. k + 1 \in 1 .. DATA_BLK_SIZE
  <2>1. p \in Nat
    BY ImageTypes
  <2>. QED
    BY <2>1, Sizes
<1>. HIDE DEF n, k
<1>4. Blocks[n + 1] \in [1 .. DATA_BLK_SIZE -> Bytes]
  BY <1>2, ProgramsAssumption
<1>5. Blocks[n + 1][k + 1] \in Bytes
  BY <1>3, <1>4
<1>6. <<n, k>>[1] = n /\ <<n, k>>[2] = k
  OBVIOUS
<1>7. Item(<<n, k>>) = <<Blocks[n + 1][k + 1]>>
  BY <1>1, <1>6 DEF Item
<1>. QED
  BY <1>5, <1>7 DEF ByteAt, n, k

LEMMA TakenNothing == Taken(<<>>) = <<>>
<1>1. [i \in DOMAIN <<>> |-> Item(<<>>[i])] = <<>> /\ Len(<<>>) = 0
  OBVIOUS
<1>. QED
  BY <1>1 DEF Taken, FlattenSeq

\* A name is taken from dir_read's answer.
LEMMA TakenName ==
    ASSUME NEW k \in 0 .. Len(Entries) - 1
    PROVE  /\ Taken(<<EntryName(k)>>) = Entries[k + 1].name
           /\ Entries[k + 1].name \in Seq(Bytes)
           /\ Len(Entries[k + 1].name) \in 1 .. MAX_FILENAME_LEN
<1>1. k + 1 \in DOMAIN Entries
  BY Sizes
<1>2. /\ Entries[k + 1].name \in Seq(Bytes)
      /\ Len(Entries[k + 1].name) \in 1 .. MAX_FILENAME_LEN
  BY <1>1, ProgramsAssumption
<1>. DEFINE b == <<EntryName(k)>>
            g == [i \in DOMAIN b |-> Item(b[i])]
<1>3. g[1] = Entries[k + 1].name /\ g = [i \in 1 .. 1 |-> g[i]]
  <2>1. DOMAIN b = 1 .. 1 /\ b[1] = <<-1, k>> /\ 1 \in 1 .. 1
    BY DEF EntryName
  <2>2. Item(<<-1, k>>) = Entries[k + 1].name
    BY DEF Item
  <2>. HIDE DEF b
  <2>. QED
    BY <2>1, <2>2
<1>. HIDE DEF g
<1>4. \A i \in 1 .. 0 + 1 : g[i] \in Seq(Bytes)
  <2>1. \A i \in 1 .. 0 + 1 : i = 1
    OBVIOUS
  <2>. QED
    BY <1>2, <1>3, <2>1
<1>5. Joined(g, 0 + 1) = Joined(g, 0) \o g[0 + 1]
  BY <1>4, JoinedNext
<1>6. Joined(g, 1) = <<>> \o g[1]
  <2>1. 0 + 1 = 1
    OBVIOUS
  <2>. QED
    BY <1>5, <2>1, JoinedNone, Zenon
<1>7. <<>> \o g[1] = g[1]
  BY <1>2, <1>3, ConcatEmptySeq
<1>8. Taken(b) = FlattenSeq(g)
  BY DEF Taken, g
<1>. QED
  BY <1>2, <1>3, <1>6, <1>7, <1>8 DEF Joined

\* The bytes of a file are taken from read_data's.
LEMMA TakenBytes ==
    ASSUME NEW inode \in 0 .. Len(Inodes) - 1, NEW pos \in Nat, NEW m \in Nat,
           pos + m <= InodeOf(inode).length,
           \A p \in pos .. pos + m - 1 : ~BadPointer(inode, p \div DATA_BLK_SIZE)
    PROVE  LET t == Taken(SubSeq(FileContent(inode), pos + 1, pos + m)) IN
           /\ t = [i \in 1 .. m |-> ByteAt(inode, pos + i - 1)]
           /\ t \in Seq(Bytes) /\ Len(t) = m
<1>. DEFINE L == InodeOf(inode).length
            b == SubSeq(FileContent(inode), pos + 1, pos + m)
            c == [i \in 1 .. m |-> ByteAt(inode, pos + i - 1)]
            g == [i \in DOMAIN b |-> Item(b[i])]
<1>1. L \in Nat
  BY ImageTypes
<1>2. PICK S : /\ FileContent(inode) \in Seq(S) /\ Len(FileContent(inode)) = L
               /\ \A p \in 0 .. L - 1 :
                     FileContent(inode)[p + 1] =
                        <<Pointer(inode, p \div DATA_BLK_SIZE), p % DATA_BLK_SIZE>>
  BY <1>1, ContentIsSeq
<1>3. /\ b \in Seq(S) /\ Len(b) = m
      /\ \A i \in 1 .. m : b[i] = FileContent(inode)[pos + i]
  <2>1. pos + 1 \in Nat \ {0} /\ pos + m \in Int /\ pos + m <= L
    OBVIOUS
  <2>2. /\ b \in Seq(S)
        /\ Len(b) = IF pos + 1 <= pos + m THEN (pos + m) - (pos + 1) + 1 ELSE 0
        /\ \A i \in 1 .. (pos + m) - (pos + 1) + 1 :
              b[i] = FileContent(inode)[(pos + 1) + i - 1]
    BY <1>2, <2>1, PartType
  <2>3. (pos + m) - (pos + 1) + 1 = m /\ (pos + 1 <= pos + m <=> m # 0)
    OBVIOUS
  <2>4. \A i \in 1 .. m : (pos + 1) + i - 1 = pos + i
    OBVIOUS
  <2>. HIDE DEF b
  <2>. QED
    BY <2>2, <2>3, <2>4
<1>4. DOMAIN b = 1 .. m
  <2>. HIDE DEF b
  <2>. QED
    BY <1>3
<1>5. \A i \in 1 .. m : Item(b[i]) = <<ByteAt(inode, pos + i - 1)>>
                        /\ ByteAt(inode, pos + i - 1) \in Bytes
  <2>. SUFFICES ASSUME NEW i \in 1 .. m
                PROVE  Item(b[i]) = <<ByteAt(inode, pos + i - 1)>>
                       /\ ByteAt(inode, pos + i - 1) \in Bytes
    OBVIOUS
  <2>1. PICK p : p = pos + i - 1
    OBVIOUS
  <2>2. p \in 0 .. L - 1 /\ p \in 0 .. L /\ p \in pos .. pos + m - 1 /\ p + 1 = pos + i
    BY <1>1, <2>1
  <2>3. b[i] = <<Pointer(inode, p \div DATA_BLK_SIZE), p % DATA_BLK_SIZE>>
    <3>1. b[i] = FileContent(inode)[p + 1]
      BY <1>3, <2>2
    <3>. HIDE DEF b
    <3>. QED
      BY <1>2, <2>2, <3>1
  <2>4. ~BadPointer(inode, p \div DATA_BLK_SIZE)
    BY <2>2
  <2>. HIDE DEF b
  <2>. QED
    BY <2>1, <2>2, <2>3, <2>4, ByteType
<1>6. c \in [1 .. m -> Bytes]
  BY <1>5
<1>7. \A i \in 1 .. m : g[i] = <<c[i]>>
  <2>. HIDE DEF b
  <2>. QED
    BY <1>4, <1>5
<1>8. g = [i \in 1 .. m |-> g[i]]
  <2>. HIDE DEF b
  <2>. QED
    BY <1>4
<1>. HIDE DEF b, c, g
<1>9. c \in Seq(Bytes) /\ Len(c) = m
  BY <1>6, FunctionIsSeq
<1>10. m \in 0 .. m /\ m <= Len(c)
  BY <1>9
<1>11. Joined(g, m) = SubSeq(c, 1, m)
  <2>1. \A n \in 0 .. m : Joined(g, n) = SubSeq(c, 1, n)
    BY <1>7, <1>9, <1>10, JoinedSingles
  <2>. QED
    BY <1>10, <2>1
<1>12. SubSeq(c, 1, m) = c
  BY <1>9, SubSeqFull
<1>13. Taken(b) = FlattenSeq(g)
  BY DEF Taken, g
<1>14. Taken(b) = c
  BY <1>8, <1>11, <1>12, <1>13 DEF Joined
<1>. QED
  BY <1>9, <1>14 DEF b, c
-----------------------------------------------------------------------------
LEMMA SamePosition ==
    ASSUME Inv, NEW fd \in Fds
    PROVE  [fd_arr EXCEPT ![fd].file_pos = fd_arr[fd].file_pos] = fd_arr
<1>1. fd_arr[fd] \in Descriptors
  BY FieldTypes DEF Inv
<1>2. [fd_arr[fd] EXCEPT !.file_pos = fd_arr[fd].file_pos] = fd_arr[fd]
  BY <1>1 DEF Descriptors
<1>3. [fd_arr EXCEPT ![fd] = fd_arr[fd]] = fd_arr
  BY DEF Inv, TypeOK
<1>. QED
  BY <1>2, <1>3

\* A read moves one position and nothing else.
LEMMA ReadMoves ==
    ASSUME Inv, NEW fd \in Fds, NEW n \in Nat, Reads(fd, n)
    PROVE  \E pos \in Nat : /\ fd_arr' = [fd_arr EXCEPT ![fd].file_pos = pos]
                            /\ alive' = alive
                            /\ ret' \in Int
<1>1. fd_arr[fd].file_pos \in Nat
  BY FieldTypes DEF Inv
<1>2. CASE FileRead(fd, n)
  BY <1>2, FileReadMoves
<1>3. CASE DirRead(fd)
  <2>1. CASE UNCHANGED fd_arr
    <3>1. alive' = alive /\ ret' \in Int
      BY <1>3 DEF DirRead
    <3>. QED
      BY <1>1, <2>1, <3>1, SamePosition
  <2>2. CASE fd_arr' = [fd_arr EXCEPT ![fd].file_pos = fd_arr[fd].file_pos + 1]
    <3>1. alive' = alive /\ ret' \in Int
      BY <1>3 DEF DirRead
    <3>2. fd_arr[fd].file_pos + 1 \in Nat
      BY <1>1
    <3>. QED
      BY <2>2, <3>1, <3>2
  <2>. QED
    BY <1>3, <2>1, <2>2 DEF DirRead
<1>4. CASE ClockRead(fd)
  <2>1. fd_arr' = fd_arr /\ alive' = alive /\ ret' \in Int
    BY <1>4 DEF ClockRead
  <2>. QED
    BY <1>1, <2>1, SamePosition
<1>. QED
  BY <1>2, <1>3, <1>4 DEF Reads

LEMMA PositionOnly ==
    ASSUME Inv, NEW fd \in Fds, NEW pos, fd_arr' = [fd_arr EXCEPT ![fd].file_pos = pos]
    PROVE  /\ \A d \in Fds : fd_arr'[d].flags = fd_arr[d].flags
           /\ \A d \in Fds : d # fd => fd_arr'[d] = fd_arr[d]
           /\ fd_arr'[fd].ops = fd_arr[fd].ops /\ fd_arr'[fd].inode = fd_arr[fd].inode
           /\ fd_arr'[fd].file_pos = pos
<1>1. \A d \in Fds : fd_arr'[d] = IF d = fd THEN [fd_arr[d] EXCEPT !.file_pos = pos]
                                          ELSE fd_arr[d]
  BY DEF Inv, TypeOK
<1>2. fd_arr[fd] \in Descriptors
  BY FieldTypes DEF Inv
<1>3. LET f == [fd_arr[fd] EXCEPT !.file_pos = pos] IN
      /\ f.flags = fd_arr[fd].flags /\ f.ops = fd_arr[fd].ops
      /\ f.inode = fd_arr[fd].inode /\ f.file_pos = pos
  BY <1>2 DEF Descriptors
<1>. QED
  BY <1>1, <1>3

LEMMA ReadKeeps ==
    ASSUME Inv, NEW fd \in Fds, NEW n \in Nat, Reads(fd, n)
    PROVE  /\ Inv' /\ alive' = alive
           /\ \A d \in Fds : fd_arr'[d].flags = fd_arr[d].flags
BY ReadMoves, PositionMoves, PositionOnly

\* What a read that does not fail hands over is text, of no more bytes than were
\* asked for.
LEMMA ReadText ==
    ASSUME Inv, NEW fd \in Fds, NEW n \in Nat \ {0}, Reads(fd, n), ret' >= 0
    PROVE  Taken(buf') \in Seq(Bytes) /\ ret' \in 0 .. n
<1>0. /\ \A b : b = <<>> => Taken(b) \in Seq(Bytes)
      /\ 0 \in 0 .. n /\ 1 \in 0 .. n
  <2>1. \A b : b = <<>> => Taken(b) \in Seq(Bytes)
    BY TakenNothing, EmptySeq, Zenon
  <2>2. 0 \in 0 .. n /\ 1 \in 0 .. n
    OBVIOUS
  <2>. QED
    BY <2>1, <2>2
<1>1. CASE FileRead(fd, n)
  <2>. DEFINE inode == fd_arr[fd].inode
              pos == fd_arr[fd].file_pos
              m == Within(n, inode, pos)
  <2>1. inode \in 0 .. Len(Inodes) - 1 /\ pos \in Nat /\ InodeOf(inode).length \in Nat
    BY FieldTypes, ImageTypes DEF Inv
  <2>2. Transfers(fd, n) \/ Fails(fd) \/ Overruns(fd)
    BY <1>1, FileReadDoes
  <2>3. ret' \in Int
    BY ReadKeeps DEF Inv, TypeOK
  <2>4. Transfers(fd, n)
    BY <2>2, <2>3 DEF Fails, Overruns
  <2>5. /\ m \in 0 .. InodeOf(inode).length - pos /\ ret' = m
        /\ \A p \in pos .. pos + m - 1 : ~BadPointer(inode, p \div DATA_BLK_SIZE)
        /\ buf' = SubSeq(FileContent(inode), pos + 1, pos + m)
    BY <2>4 DEF Transfers
  <2>6. m <= n
    BY <2>1 DEF Within
  <2>7. m \in Nat /\ pos + m <= InodeOf(inode).length
    <3>. HIDE DEF m, pos
    <3>. QED
      BY <2>1, <2>5
  <2>. HIDE DEF m, pos, inode
  <2>8. Taken(buf') \in Seq(Bytes)
    BY <2>1, <2>5, <2>7, TakenBytes
  <2>. QED
    BY <2>5, <2>6, <2>7, <2>8
<1>2. CASE DirRead(fd)
  <2>1. fd_arr[fd].file_pos \in Nat
    BY FieldTypes DEF Inv
  <2>2. CASE fd_arr[fd].file_pos >= Len(Entries)
    <3>1. ret' = 0 /\ buf' = <<>>
      BY <1>2, <2>1, <2>2, Sizes DEF DirRead
    <3>. QED
      BY <1>0, <3>1
  <2>3. CASE ~(fd_arr[fd].file_pos >= Len(Entries))
    <3>1. ret' = 1 /\ buf' = <<EntryName(fd_arr[fd].file_pos)>>
      BY <1>2, <2>1, <2>3, Sizes DEF DirRead
    <3>2. fd_arr[fd].file_pos \in 0 .. Len(Entries) - 1
      BY <2>1, <2>3, Sizes
    <3>. QED
      BY <1>0, <3>1, <3>2, TakenName
  <2>. QED
    BY <2>2, <2>3
<1>3. CASE ClockRead(fd)
  <2>1. ret' = 0 /\ buf' = <<>>
    BY <1>3 DEF ClockRead
  <2>. QED
    BY <1>0, <2>1
<1>. QED
  BY <1>1, <1>2, <1>3 DEF Reads

LEMMA LowestIsUnique ==
    ASSUME NEW fd \in Fds, LowestVacant(fd)
    PROVE  (CHOOSE d \in Fds : LowestVacant(d)) = fd
<1>1. \A d \in Fds : LowestVacant(d) => d = fd
  <2>. SUFFICES ASSUME NEW d \in Fds, LowestVacant(d) PROVE d = fd
    OBVIOUS
  <2>1. d \in Nat /\ fd \in Nat
    BY StandardFds
  <2>2. ~(d < fd) /\ ~(fd < d)
    BY DEF LowestVacant
  <2>. QED
    BY <2>1, <2>2
<1>. QED
  BY <1>1

\* open hands out the lowest vacant descriptor, above the standard ones, on the
\* first entry of that name.
LEMMA OpenDoes ==
    ASSUME Inv, NEW name, Open(name)
    PROVE  LET d == CHOOSE fd \in Fds : LowestVacant(fd) IN
           /\ d \in Above /\ fd_arr[d].flags = 0
           /\ \E i \in DOMAIN Entries :
                 /\ IsEntry(i, name)
                 /\ fd_arr'[d] = [flags |-> 1, ops |-> Entries[i].type,
                                  inode |-> Entries[i].inode, file_pos |-> 0]
           /\ \A fd \in Fds : fd # d => fd_arr'[fd] = fd_arr[fd]
           /\ alive /\ alive' = alive /\ ret' = ret
<1>1. PICK i \in DOMAIN Entries, d \in Fds :
        /\ alive
        /\ IsEntry(i, name)
        /\ LowestVacant(d)
        /\ fd_arr' = [fd_arr EXCEPT ![d] =
                        [flags |-> 1, ops |-> Entries[i].type,
                         inode |-> Entries[i].inode, file_pos |-> 0]]
        /\ UNCHANGED <<alive, ret, buf>>
  BY DEF Open
<1>2. d = CHOOSE fd \in Fds : LowestVacant(fd)
  BY <1>1, LowestIsUnique
<1>3. d \in Above /\ fd_arr[d].flags = 0
  <2>1. d # 0 /\ d # 1
    BY <1>1 DEF LowestVacant, Inv, StandardStreams
  <2>. QED
    BY <1>1, <2>1, AboveFds DEF LowestVacant
<1>4. /\ fd_arr'[d] = [flags |-> 1, ops |-> Entries[i].type,
                       inode |-> Entries[i].inode, file_pos |-> 0]
      /\ \A fd \in Fds : fd # d => fd_arr'[fd] = fd_arr[fd]
  BY <1>1 DEF Inv, TypeOK
<1>. QED
  BY <1>1, <1>2, <1>3, <1>4

\* Nothing is open above the standard descriptors when a process starts or has ended.
LEMMA NothingOpen ==
    ASSUME Inv, Execute \/ Halt
    PROVE  \A d \in Above : fd_arr'[d].flags = 0
<1>1. CASE Execute
  <2>1. \A d \in Above : fd_arr'[d] = Vacant(fd_arr[d].ops)
    BY <1>1, AboveFds DEF Execute, SetupTable
  <2>2. \A ops : Vacant(ops).flags = 0
    BY DEF Vacant
  <2>. QED
    BY <2>1, <2>2
<1>2. CASE Halt
  <2>. SUFFICES ASSUME NEW d \in Above PROVE fd_arr'[d].flags = 0
    OBVIOUS
  <2>1. d \in Fds /\ ~(d < 2)
    BY AboveFds
  <2>2. fd_arr'[d] = IF fd_arr[d].flags = 1 THEN Vacant("none")
                     ELSE [fd_arr[d] EXCEPT !.ops = "none"]
    BY <1>2, <2>1 DEF Halt, HaltTable
  <2>3. fd_arr[d] \in Descriptors
    BY <2>1, FieldTypes DEF Inv
  <2>. QED
    BY <2>2, <2>3 DEF Vacant, Descriptors
<1>. QED
  BY <1>1, <1>2
-----------------------------------------------------------------------------
\* The C string of a text, and the parts of a command, are parts of it.
LEMMA TextType ==
    ASSUME NEW a \in Seq(Bytes)
    PROVE  /\ Text(a) \in Seq(Bytes) /\ Len(Text(a)) <= Len(a)
           /\ \A n \in 0 .. Len(a) :
                 /\ \A i \in 1 .. n : a[i] # NUL
                 /\ n = Len(a) \/ a[n + 1] = NUL
                 => Text(a) = SubSeq(a, 1, n)
<1>. DEFINE ends == {i \in DOMAIN a : a[i] = NUL}
            m == CHOOSE i \in ends : \A j \in ends : i <= j
            len == IF ends = {} THEN Len(a) ELSE m - 1
<1>1. Len(a) \in Nat /\ DOMAIN a = 1 .. Len(a)
  OBVIOUS
<1>2. ends # {} => m \in ends /\ \A j \in ends : m <= j
  <2>1. ends \subseteq Nat
    BY <1>1
  <2>. HIDE DEF ends
  <2>2. ends # {} => \E i \in ends : \A j \in ends : i <= j
    BY <2>1, Least
  <2>. QED
    BY <2>2
<1>3. Text(a) = SubSeq(a, 1, len)
  BY DEF Text
<1>. HIDE DEF m
<1>4. len \in 0 .. Len(a)
  BY <1>1, <1>2
<1>. HIDE DEF len
<1>5. Text(a) \in Seq(Bytes) /\ Len(Text(a)) <= Len(a)
  <2>1. /\ SubSeq(a, 1, len) \in Seq(Bytes)
        /\ Len(SubSeq(a, 1, len)) = IF 1 <= len THEN len - 1 + 1 ELSE 0
    BY <1>1, <1>4, PartType
  <2>. QED
    BY <1>1, <1>3, <1>4, <2>1
<1>6. ASSUME NEW n \in 0 .. Len(a), \A i \in 1 .. n : a[i] # NUL,
             n = Len(a) \/ a[n + 1] = NUL
      PROVE  len = n
  <2>0. \A i : i \in ends <=> i \in 1 .. Len(a) /\ a[i] = NUL
    BY <1>1
  <2>. HIDE DEF ends
  <2>1. \A i \in ends : i \in 1 .. Len(a) /\ i > n
    <3>. SUFFICES ASSUME NEW i \in ends PROVE i \in 1 .. Len(a) /\ i > n
      OBVIOUS
    <3>1. i \in 1 .. Len(a) /\ i \notin 1 .. n
      BY <1>6, <2>0
    <3>. QED
      BY <1>6, <3>1
  <2>2. CASE n = Len(a)
    <3>1. ends = {}
      BY <1>1, <2>1, <2>2
    <3>. QED
      BY <2>2, <3>1 DEF len
  <2>3. CASE n # Len(a)
    <3>1. n + 1 \in ends
      <4>1. n + 1 \in 1 .. Len(a)
        <5>1. PICK L \in Nat : L = Len(a)
          BY <1>1
        <5>2. n \in 0 .. L /\ n # L
          BY <1>6, <2>3, <5>1
        <5>. QED
          BY <5>1, <5>2
      <4>. QED
        BY <1>6, <2>0, <2>3, <4>1
    <3>2. m \in ends /\ m <= n + 1
      BY <1>2, <3>1
    <3>3. m = n + 1
      BY <1>1, <2>1, <3>2
    <3>. QED
      BY <3>1, <3>3 DEF len
  <2>. QED
    BY <2>2, <2>3
<1>. QED
  BY <1>3, <1>5, <1>6

LEMMA NameEndIs ==
    ASSUME NEW c \in Seq(Bytes)
    PROVE  /\ CmdLen(c) \in 0 .. Len(c) /\ CmdLen(c) \in 0 .. MAX_FILENAME_LEN
           /\ NameEnd(c) \in 0 .. CmdLen(c)
           /\ \A j \in 1 .. NameEnd(c) : c[j] # SP
           /\ HasArgs(c) => NameEnd(c) + 1 \in 1 .. CmdLen(c) /\ c[NameEnd(c) + 1] = SP
           /\ ~HasArgs(c) => NameEnd(c) = CmdLen(c)
<1>1. CmdLen(c) \in 0 .. Len(c) /\ CmdLen(c) \in 0 .. MAX_FILENAME_LEN
  BY Sizes DEF CmdLen
<1>2. CASE HasArgs(c)
  <2>. DEFINE T == {i \in 1 .. CmdLen(c) : c[i] = SP}
              P(i) == c[i] = SP /\ \A j \in 1 .. i - 1 : c[j] # SP
              k == CHOOSE i \in 1 .. CmdLen(c) : P(i)
  <2>1. T \subseteq Nat /\ T # {}
    BY <1>2 DEF HasArgs
  <2>2. PICK x \in T : \A y \in T : x <= y
    <3>. HIDE DEF T
    <3>. QED
      BY <2>1, Least
  <2>3. x \in 1 .. CmdLen(c) /\ P(x)
    <3>1. \A j \in 1 .. x - 1 : j \in 1 .. CmdLen(c) /\ ~(x <= j)
      BY <1>1
    <3>2. \A j \in 1 .. x - 1 : j \notin T
      BY <2>2, <3>1
    <3>. QED
      BY <3>1, <3>2
  <2>4. k \in 1 .. CmdLen(c) /\ P(k)
    <3>. HIDE DEF P
    <3>. QED
      BY <2>3
  <2>5. NameEnd(c) = k - 1
    BY <1>2 DEF NameEnd
  <2>. HIDE DEF k
  <2>6. NameEnd(c) + 1 = k /\ NameEnd(c) \in 0 .. CmdLen(c)
    BY <1>1, <2>4, <2>5
  <2>. QED
    BY <1>1, <1>2, <2>4, <2>5, <2>6
<1>3. CASE ~HasArgs(c)
  <2>1. NameEnd(c) = CmdLen(c)
    BY <1>3 DEF NameEnd
  <2>2. \A j \in 1 .. CmdLen(c) : c[j] # SP
    BY <1>3 DEF HasArgs
  <2>. QED
    BY <1>1, <1>3, <2>1, <2>2
<1>. QED
  BY <1>2, <1>3

LEMMA ArgTextType ==
    ASSUME NEW c \in Seq(Bytes)
    PROVE  /\ ArgText(c) \in Seq(Bytes)
           /\ Len(ArgText(c)) <= MAX_FILENAME_LEN + 1
<1>. DEFINE after == SubSeq(c, NameEnd(c) + 2, Len(c))
            n == CmdLen(c) + 1
<1>1. /\ CmdLen(c) \in 0 .. MAX_FILENAME_LEN /\ n \in Nat
      /\ NameEnd(c) + 2 \in Nat \ {0} /\ Len(c) \in Int /\ Len(c) <= Len(c)
  BY NameEndIs
<1>2. after \in Seq(Bytes)
  BY <1>1, PartType
<1>3. ArgText(c) = IF ~HasArgs(c) THEN <<>>
                   ELSE IF Len(after) > n THEN SubSeq(after, 1, n) ELSE after
  BY DEF ArgText
<1>. HIDE DEF after
<1>4. ASSUME Len(after) > n
      PROVE  SubSeq(after, 1, n) \in Seq(Bytes) /\ Len(SubSeq(after, 1, n)) = n
  <2>1. n <= Len(after) /\ 1 <= n
    BY <1>1, <1>2, <1>4
  <2>. HIDE DEF n
  <2>2. /\ SubSeq(after, 1, n) \in Seq(Bytes)
        /\ Len(SubSeq(after, 1, n)) = IF 1 <= n THEN n - 1 + 1 ELSE 0
    BY <1>1, <1>2, <2>1, PartType
  <2>. QED
    BY <1>1, <2>1, <2>2
<1>. QED
  BY <1>1, <1>2, <1>3, <1>4, Sizes

LEMMA NewArgsType ==
    ASSUME NEW text \in Seq(Bytes), args \in [1 .. MAX_ARG_LEN -> Bytes]
    PROVE  /\ NewArgs(args, text) \in [1 .. MAX_ARG_LEN -> Bytes]
           /\ \A i \in 1 .. MAX_ARG_LEN :
                 NewArgs(args, text)[i] = IF i <= Len(text) THEN text[i] ELSE NUL
<1>1. DOMAIN args = 1 .. MAX_ARG_LEN
  OBVIOUS
<1>2. NewArgs(args, text) =
        [i \in 1 .. MAX_ARG_LEN |-> IF i <= Len(text) THEN text[i] ELSE NUL]
  BY <1>1 DEF NewArgs, Copied, Cleared
<1>3. \A i \in 1 .. MAX_ARG_LEN : i <= Len(text) => text[i] \in Bytes
  <2>1. \A i \in 1 .. MAX_ARG_LEN : i <= Len(text) => i \in 1 .. Len(text)
    BY Sizes
  <2>. QED
    BY <2>1, ElementType
<1>4. NUL \in Bytes
  BY ProgramsAssumption
<1>. QED
  BY <1>2, <1>3, <1>4
-----------------------------------------------------------------------------
Output == Bytes \cup Messages

LEMMA Outputs ==
    /\ \A text \in Seq(Bytes) : text \in Seq(Output)
    /\ \A m \in Messages : <<m>> \in Seq(Output)
    /\ <<>> \in Seq(Output) /\ <<>> \in Seq(Bytes)
    /\ {<<NL>>, <<":">>, <<".">>} \subseteq Seq(Bytes)
    /\ NUL \in Bytes
<1>1. \A text \in Seq(Bytes) : text \in Seq(Output)
  BY DEF Output
<1>2. \A S : \A x \in S : <<x>> \in Seq(S)
  OBVIOUS
<1>3. \A m \in Messages : <<m>> \in Seq(Output)
  BY <1>2 DEF Output
<1>4. {NUL, NL, ".", ":"} \subseteq Bytes
  BY ProgramsAssumption
<1>. QED
  BY <1>1, <1>2, <1>3, <1>4, EmptySeq

LEMMA InvOfPrograms ==
    ASSUME ProgramsInv
    PROVE  /\ Inv /\ Places
           /\ args \in [1 .. MAX_ARG_LEN -> Bytes]
           /\ asked \in Seq(Bytes) /\ fname \in Seq(Bytes) /\ printed \in Seq(Output)
           /\ data \in [1 .. BUFSIZE + 1 -> Bytes]
           /\ data \in Seq(Bytes) /\ Len(data) = BUFSIZE + 1
           /\ args \in Seq(Bytes) /\ Len(args) = MAX_ARG_LEN
           /\ last \in 0 .. BUFSIZE /\ start \in 0 .. BUFSIZE + 1
<1>1. /\ args \in [1 .. MAX_ARG_LEN -> Bytes] /\ data \in [1 .. BUFSIZE + 1 -> Bytes]
      /\ asked \in Seq(Bytes) /\ fname \in Seq(Bytes) /\ printed \in Seq(Output)
      /\ last \in 0 .. BUFSIZE /\ start \in 0 .. BUFSIZE + 1
      /\ Inv /\ Places
  BY DEF ProgramsInv, ProgramsTypeOK, Output, Inv
<1>. QED
  BY <1>1, Sizes, FunctionIsSeq

\* halt puts nothing on the terminal but what the program said.
LEMMA EndsPrints ==
    ASSUME printed \in Seq(Output), NEW status, NEW text \in Seq(Output), Ends(status, text)
    PROVE  printed' = printed \o text /\ printed' \in Seq(Output)
<1>1. Says(Returned(status)) = <<>>
  BY DEF Says, Returned
<1>2. printed' = (printed \o text) \o <<>>
  BY <1>1 DEF Ends
<1>3. printed \o text \in Seq(Output)
  BY ConcatProperties
<1>. QED
  BY <1>2, <1>3, ConcatEmptySeq

LEMMA EndsKeeps ==
    ASSUME ProgramsInv, NEW status, NEW text \in Seq(Output), Ends(status, text)
    PROVE  ProgramsInv'
<1>1. Inv' /\ alive' = FALSE
  BY InvOfPrograms, HaltKeeps DEF Ends, Halt
<1>2. printed' \in Seq(Output)
  BY InvOfPrograms, EndsPrints
<1>3. /\ pc' = "prompt" /\ prog' = "shell"
      /\ dir' = None /\ file' = None /\ fname' = <<>> /\ last' = 0 /\ start' = 0
      /\ data' = [i \in 1 .. BUFSIZE + 1 |-> NUL]
      /\ args' = args /\ asked' = asked
  BY DEF Ends, NoLocals
<1>4. ProgramsTypeOK'
  BY <1>1, <1>2, <1>3, Outputs, Sizes DEF ProgramsInv, ProgramsTypeOK, Output, Inv
<1>5. Places'
  BY <1>1, <1>3 DEF Places
<1>. QED
  BY <1>1, <1>4, <1>5 DEF ProgramsInv, Inv

LEMMA ShellReadsKeeps ==
    ASSUME ProgramsInv, ShellReads
    PROVE  ProgramsInv'
<1>1. PICK l \in Lines :
        /\ pc = "prompt"
        /\ asked' = Chopped(l)
        /\ printed' = <<>>
        /\ pc' \in {"prompt", "execute"}
        /\ UNCHANGED <<vars, args, prog, local>>
  BY DEF ShellReads
<1>2. Chopped(l) \in Seq(Bytes)
  <2>1. l \in Seq(Bytes)
    BY ProgramsAssumption
  <2>2. SubSeq(l, 1, Len(l) - 1) \in Seq(Bytes)
    BY <2>1, PartType
  <2>. QED
    BY <2>1, <2>2 DEF Chopped, Front
<1>3. UNCHANGED <<fd_arr, alive, ret, buf, args, prog, dir, file, fname, data, last, start>>
  BY <1>1 DEF vars, local
<1>4. ProgramsTypeOK'
  BY <1>1, <1>2, <1>3, Outputs DEF ProgramsInv, ProgramsTypeOK, TypeOK, Output
<1>5. Places' /\ StandardStreams'
  BY <1>1, <1>3 DEF ProgramsInv, Places, StandardStreams
<1>. QED
  BY <1>4, <1>5 DEF ProgramsInv

LEMMA ExecuteFailsKeeps ==
    ASSUME ProgramsInv, ExecuteFails
    PROVE  ProgramsInv'
<1>1. /\ pc = "execute" /\ pc' = "prompt" /\ printed' = <<"no such command">>
      /\ UNCHANGED <<fd_arr, alive, ret, buf, args, prog, asked,
                     dir, file, fname, data, last, start>>
  <2>1. Says(-1) = <<"no such command">>
    <3>1. -1 # 0 /\ -1 # 256
      OBVIOUS
    <3>. QED
      BY <3>1, Zenon DEF Says
  <2>. QED
    BY <2>1 DEF ExecuteFails, vars, local
<1>2. ProgramsTypeOK'
  <2>1. "no such command" \in Messages
    BY DEF Messages
  <2>2. printed' \in Seq(Output)
    BY <1>1, <2>1, Outputs
  <2>. QED
    BY <1>1, <2>2 DEF ProgramsInv, ProgramsTypeOK, TypeOK, Output
<1>3. Places' /\ StandardStreams'
  BY <1>1 DEF ProgramsInv, Places, StandardStreams
<1>. QED
  BY <1>2, <1>3 DEF ProgramsInv

LEMMA ExecuteStartsKeeps ==
    ASSUME ProgramsInv, ExecuteStarts
    PROVE  ProgramsInv'
<1>1. /\ pc = "execute" /\ pc' = "start"
      /\ prog' \in {"cat", "ls", "grep", "unknown"}
      /\ args' = NewArgs(args, ArgText(asked))
      /\ UNCHANGED <<asked, printed, dir, file, fname, data, last, start>>
  <2>1. PICK i \in DOMAIN Entries :
           \/ IsExecutable(i) /\ prog' = Program[Entries[i].inode]
           \/ MayBeTaken(i) /\ prog' = "unknown"
    BY DEF ExecuteStarts
  <2>2. IsExecutable(i) => Program[Entries[i].inode] \in {"cat", "ls", "grep"}
    BY ExecutablesAssumption, ProgramsAssumption
  <2>3. prog' \in {"cat", "ls", "grep", "unknown"}
    BY <2>1, <2>2
  <2>. QED
    BY <2>3 DEF ExecuteStarts, local
<1>2. Inv' /\ alive'
  BY InvOfPrograms, ExecuteKeeps DEF ExecuteStarts, Execute
<1>3. \A d \in Above : fd_arr'[d].flags = 0
  BY InvOfPrograms, NothingOpen DEF ExecuteStarts
<1>4. args' \in [1 .. MAX_ARG_LEN -> Bytes]
  BY <1>1, InvOfPrograms, ArgTextType, NewArgsType
<1>5. ProgramsTypeOK'
  BY <1>1, <1>2, <1>4 DEF ProgramsInv, ProgramsTypeOK, Inv
<1>6. Places'
  BY <1>1, <1>2, <1>3 DEF ProgramsInv, Places
<1>. QED
  BY <1>2, <1>5, <1>6 DEF ProgramsInv, Inv

\* A program opens what it goes on to read.
LEMMA OpensKeeps ==
    ASSUME ProgramsInv, NEW name, Opens(name),
           prog \in {"cat", "ls"}, pc = "start", pc' = "read",
           UNCHANGED <<args, prog, asked, printed, dir, fname, data, last, start>>
    PROVE  ProgramsInv'
<1>1. Inv'
  BY InvOfPrograms, OpenKeeps DEF Opens
<1>2. file' \in Above /\ fd_arr'[file'].flags = 1 /\ alive /\ alive' = alive
  <2>. DEFINE d == CHOOSE fd \in Fds : LowestVacant(fd)
  <2>1. file' = d
    BY DEF Opens
  <2>2. /\ d \in Above /\ alive /\ alive' = alive
        /\ \E i \in DOMAIN Entries :
              fd_arr'[d] = [flags |-> 1, ops |-> Entries[i].type,
                            inode |-> Entries[i].inode, file_pos |-> 0]
    BY InvOfPrograms, OpenDoes DEF Opens
  <2>3. fd_arr'[d].flags = 1
    BY <2>2
  <2>. HIDE DEF d
  <2>. QED
    BY <2>1, <2>2, <2>3
<1>3. ProgramsTypeOK'
  BY <1>1, <1>2, AboveFds DEF ProgramsInv, ProgramsTypeOK, Inv
<1>4. Places'
  BY <1>2 DEF ProgramsInv, Places, IsOpen
<1>. QED
  BY <1>1, <1>3, <1>4 DEF ProgramsInv, Inv

LEMMA CatStartsKeeps ==
    ASSUME ProgramsInv, CatStarts
    PROVE  ProgramsInv'
<1>1. ASSUME Ends(3, <<"could not read arguments">>) PROVE ProgramsInv'
  <2>1. <<"could not read arguments">> \in Seq(Output)
    BY Outputs DEF Messages
  <2>. QED
    BY <1>1, <2>1, EndsKeeps
<1>2. ASSUME Ends(2, <<"file not found">>) PROVE ProgramsInv'
  <2>1. <<"file not found">> \in Seq(Output)
    BY Outputs DEF Messages
  <2>. QED
    BY <1>2, <2>1, EndsKeeps
<1>3. ASSUME Opens(Text(args)), pc' = "read",
             UNCHANGED <<args, prog, asked, printed, dir, fname, data, last, start>>
      PROVE  ProgramsInv'
  BY <1>3, OpensKeeps DEF CatStarts, At
<1>. QED
  BY <1>1, <1>2, <1>3 DEF CatStarts

LEMMA LsStartsKeeps ==
    ASSUME ProgramsInv, LsStarts
    PROVE  ProgramsInv'
BY OpensKeeps DEF LsStarts, At

LEMMA ReadAndWriteKeeps ==
    ASSUME ProgramsInv, ReadAndWrite
    PROVE  ProgramsInv'
<1>1. /\ prog \in {"cat", "ls"} /\ pc = "read" /\ Reads(file, BUFSIZE)
      /\ pc' \in {"read", "done", "failed"}
      /\ UNCHANGED <<args, prog, asked, dir, file, fname, data, last, start>>
  BY DEF ReadAndWrite, local
<1>2. file \in Above /\ file \in Fds /\ alive
  BY <1>1, InvOfPrograms, AboveFds DEF Places, IsOpen
<1>3. /\ Inv' /\ alive' = alive
      /\ \A d \in Fds : fd_arr'[d].flags = fd_arr[d].flags
  BY <1>1, <1>2, InvOfPrograms, Sizes, ReadKeeps
<1>4. printed' \in Seq(Output)
  <2>1. CASE ret' > 0 /\ printed' = printed \o Taken(buf') \o (IF prog = "ls" THEN <<NL>> ELSE <<>>)
    <3>1. Taken(buf') \in Seq(Output)
      <4>1. ret' >= 0
        BY <1>3, <2>1 DEF Inv, TypeOK
      <4>2. Taken(buf') \in Seq(Bytes)
        BY <1>1, <1>2, <4>1, InvOfPrograms, Sizes, ReadText
      <4>. QED
        BY <4>2, Outputs
    <3>2. printed \in Seq(Output) /\ (IF prog = "ls" THEN <<NL>> ELSE <<>>) \in Seq(Output)
      BY InvOfPrograms, Outputs
    <3>3. printed \o Taken(buf') \in Seq(Output)
      BY <3>1, <3>2, ConcatProperties
    <3>. QED
      BY <2>1, <3>2, <3>3, ConcatProperties
  <2>2. CASE UNCHANGED printed
    BY <2>2, InvOfPrograms
  <2>. QED
    BY <2>1, <2>2 DEF ReadAndWrite
<1>5. ProgramsTypeOK'
  BY <1>1, <1>3, <1>4 DEF ProgramsInv, ProgramsTypeOK, Inv, Output
<1>6. Places'
  BY <1>1, <1>2, <1>3, AboveFds DEF ProgramsInv, Places, IsOpen
<1>. QED
  BY <1>3, <1>5, <1>6 DEF ProgramsInv, Inv
-----------------------------------------------------------------------------
LEMMA GrepStartsKeeps ==
    ASSUME ProgramsInv, GrepStarts
    PROVE  ProgramsInv'
<1>1. ASSUME Ends(3, <<"could not read argument">>) PROVE ProgramsInv'
  <2>1. <<"could not read argument">> \in Seq(Output)
    BY Outputs DEF Messages
  <2>. QED
    BY <1>1, <2>1, EndsKeeps
<1>2. ASSUME Open(<<".">>), dir' = CHOOSE d \in Fds : LowestVacant(d), pc' = "next",
             UNCHANGED <<args, prog, asked, printed, file, fname, data, last, start>>
      PROVE  ProgramsInv'
  <2>. DEFINE d == CHOOSE fd \in Fds : LowestVacant(fd)
  <2>1. Inv'
    BY <1>2, InvOfPrograms, OpenKeeps
  <2>2. d \in Above /\ alive /\ alive' = alive /\ fd_arr'[d].flags = 1
    <3>1. /\ d \in Above /\ alive /\ alive' = alive
          /\ \E i \in DOMAIN Entries :
                fd_arr'[d] = [flags |-> 1, ops |-> Entries[i].type,
                              inode |-> Entries[i].inode, file_pos |-> 0]
      BY <1>2, InvOfPrograms, OpenDoes
    <3>. QED
      BY <3>1
  <2>. HIDE DEF d
  <2>3. dir' = d /\ dir' \in Fds
    BY <1>2, <2>2, AboveFds DEF d
  <2>4. ProgramsTypeOK'
    BY <1>2, <2>1, <2>3 DEF ProgramsInv, ProgramsTypeOK, Inv
  <2>5. Places'
    BY <1>2, <2>2, <2>3 DEF ProgramsInv, Places, IsOpen, GrepStarts, At
  <2>. QED
    BY <2>1, <2>4, <2>5 DEF ProgramsInv, Inv
<1>. QED
  BY <1>1, <1>2 DEF GrepStarts

LEMMA GrepNextKeeps ==
    ASSUME ProgramsInv, GrepNext
    PROVE  ProgramsInv'
<1>1. /\ prog = "grep" /\ pc = "next" /\ DirRead(dir)
      /\ fname' = Taken(buf')
      /\ pc' \in {"done", "next", "file"}
      /\ UNCHANGED <<args, prog, asked, printed, dir, file, data, last, start>>
  BY DEF GrepNext, At
<1>2. dir \in Above /\ dir \in Fds /\ alive /\ Reads(dir, BUFSIZE)
  BY <1>1, InvOfPrograms, AboveFds DEF Places, IsOpen, Reads
<1>3. /\ Inv' /\ alive' = alive
      /\ \A d \in Fds : fd_arr'[d].flags = fd_arr[d].flags
  BY <1>2, InvOfPrograms, Sizes, ReadKeeps
<1>4. fname' \in Seq(Bytes)
  <2>1. ret' >= 0
    BY <1>1 DEF DirRead
  <2>. QED
    BY <1>1, <1>2, <2>1, InvOfPrograms, Sizes, ReadText
<1>5. ProgramsTypeOK'
  BY <1>1, <1>3, <1>4 DEF ProgramsInv, ProgramsTypeOK, Inv
<1>6. Places'
  BY <1>1, <1>2, <1>3, AboveFds DEF ProgramsInv, Places, IsOpen
<1>. QED
  BY <1>3, <1>5, <1>6 DEF ProgramsInv, Inv

LEMMA GrepOpensKeeps ==
    ASSUME ProgramsInv, GrepOpens
    PROVE  ProgramsInv'
<1>. DEFINE d == CHOOSE fd \in Fds : LowestVacant(fd)
<1>1. PICK g \in Garbage :
        /\ prog = "grep" /\ pc = "file" /\ Open(fname) /\ file' = d
        /\ data' = [i \in 1 .. BUFSIZE + 1 |-> g]
        /\ last' = 0 /\ pc' = "search"
        /\ UNCHANGED <<args, prog, asked, printed, dir, fname, start>>
  BY DEF GrepOpens, At, Opens
<1>2. Inv'
  BY <1>1, InvOfPrograms, OpenKeeps
<1>3. /\ d \in Above /\ fd_arr[d].flags = 0
      /\ \E i \in DOMAIN Entries :
            fd_arr'[d] = [flags |-> 1, ops |-> Entries[i].type,
                          inode |-> Entries[i].inode, file_pos |-> 0]
      /\ \A fd \in Fds : fd # d => fd_arr'[fd] = fd_arr[fd]
      /\ alive /\ alive' = alive
  BY <1>1, InvOfPrograms, OpenDoes
<1>4. fd_arr'[d].flags = 1
  BY <1>3
<1>. HIDE DEF d
<1>5. file' \in Above /\ file' \in Fds /\ fd_arr'[file'].flags = 1
  BY <1>1, <1>3, <1>4, AboveFds
<1>6. dir \in Above /\ dir # d /\ fd_arr'[dir].flags = 1
  <2>1. dir \in Above /\ fd_arr[dir].flags = 1
    BY <1>1, InvOfPrograms DEF Places, IsOpen
  <2>. QED
    BY <1>3, <2>1, AboveFds
<1>7. g \in Bytes
  BY ProgramsAssumption
<1>8. data' \in [1 .. BUFSIZE + 1 -> Bytes]
  BY <1>1, <1>7
<1>9. ProgramsTypeOK'
  <2>1. last' \in 0 .. BUFSIZE /\ {dir, file}' \subseteq Fds \cup {None}
    BY <1>1, <1>5, Sizes DEF ProgramsInv, ProgramsTypeOK
  <2>. QED
    BY <1>1, <1>2, <1>8, <2>1 DEF ProgramsInv, ProgramsTypeOK, Inv
<1>10. Places'
  BY <1>1, <1>3, <1>5, <1>6, Sizes DEF ProgramsInv, Places, IsOpen
<1>. QED
  BY <1>2, <1>9, <1>10 DEF ProgramsInv, Inv

\* The bytes read are put behind those that are there.
LEMMA FilledIs ==
    ASSUME data \in [1 .. BUFSIZE + 1 -> Bytes], last \in 0 .. BUFSIZE,
           NEW bytes \in Seq(Bytes)
    PROVE  /\ Filled(bytes) \in [1 .. BUFSIZE + 1 -> Bytes]
           /\ \A i \in 1 .. BUFSIZE + 1 :
                 Filled(bytes)[i] = IF i - last \in 1 .. Len(bytes) THEN bytes[i - last]
                                                                     ELSE data[i]
<1>1. DOMAIN bytes = 1 .. Len(bytes)
  OBVIOUS
<1>2. Filled(bytes) =
        [i \in 1 .. BUFSIZE + 1 |-> IF i - last \in 1 .. Len(bytes) THEN bytes[i - last]
                                                                     ELSE data[i]]
  BY <1>1 DEF Filled
<1>3. \A k \in 1 .. Len(bytes) : bytes[k] \in Bytes
  BY ElementType
<1>. QED
  BY <1>2, <1>3

LEMMA GrepReadsKeeps ==
    ASSUME ProgramsInv, GrepReads
    PROVE  ProgramsInv'
<1>1. /\ prog = "grep" /\ pc = "search" /\ Reads(file, BUFSIZE - last)
      /\ UNCHANGED <<args, prog, asked, printed, dir, file, fname>>
  BY DEF GrepReads, At
<1>2. /\ file \in Above /\ file \in Fds /\ alive
      /\ BUFSIZE - last \in Nat \ {0}
  <2>1. last < BUFSIZE
    BY <1>1, InvOfPrograms DEF Places
  <2>. QED
    BY <1>1, <2>1, InvOfPrograms, AboveFds, Sizes DEF Places, IsOpen
<1>3. /\ Inv' /\ alive' = alive
      /\ \A d \in Fds : fd_arr'[d].flags = fd_arr[d].flags
  BY <1>1, <1>2, InvOfPrograms, ReadKeeps
<1>4. CASE pc' = "failed" /\ UNCHANGED <<data, last, start>>
  <2>1. ProgramsTypeOK'
    BY <1>1, <1>3, <1>4 DEF ProgramsInv, ProgramsTypeOK, Inv
  <2>2. Places'
    BY <1>1, <1>2, <1>3, <1>4 DEF ProgramsInv, Places
  <2>. QED
    BY <1>3, <2>1, <2>2 DEF ProgramsInv, Inv
<1>5. CASE /\ ret' >= 0
           /\ data' = Filled(Taken(buf'))
           /\ last' = last + ret' /\ start' = 0 /\ pc' = "line"
  <2>1. Taken(buf') \in Seq(Bytes) /\ ret' \in 0 .. BUFSIZE - last
    BY <1>1, <1>2, <1>5, InvOfPrograms, ReadText
  <2>2. data' \in [1 .. BUFSIZE + 1 -> Bytes]
    BY <1>5, <2>1, InvOfPrograms, FilledIs
  <2>3. last' \in 0 .. BUFSIZE /\ start' \in 0 .. BUFSIZE + 1
    BY <1>5, <2>1, InvOfPrograms, Sizes
  <2>4. ProgramsTypeOK'
    BY <1>1, <1>3, <1>5, <2>2, <2>3 DEF ProgramsInv, ProgramsTypeOK, Inv
  <2>5. Places'
    BY <1>1, <1>2, <1>3, <1>5, <2>3, AboveFds DEF ProgramsInv, Places, IsOpen
  <2>. QED
    BY <1>3, <2>4, <2>5 DEF ProgramsInv, Inv
<1>. QED
  BY <1>4, <1>5 DEF GrepReads

\* The line that starts at start ends at the next newline or with the buffer.
LEMMA LineEndIs ==
    ASSUME start \in Nat, last \in Nat, start <= last
    PROVE  /\ LineEnd \in start .. last
           /\ LineEnd = last \/ data[LineEnd + 1] = NL
           /\ \A i \in start .. LineEnd - 1 : data[i + 1] # NL
<1>. DEFINE T == {e \in start .. last : e = last \/ data[e + 1] = NL}
            P(e) == /\ e = last \/ data[e + 1] = NL
                    /\ \A i \in start .. e - 1 : data[i + 1] # NL
<1>1. T \subseteq Nat /\ last \in T
  OBVIOUS
<1>2. PICK x \in T : \A y \in T : x <= y
  <2>. HIDE DEF T
  <2>. QED
    BY <1>1, Least
<1>3. x \in start .. last /\ P(x)
  <2>1. \A i \in start .. x - 1 : i \in start .. last /\ ~(x <= i)
    OBVIOUS
  <2>2. \A i \in start .. x - 1 : i \notin T
    BY <1>2, <2>1
  <2>. QED
    BY <2>1, <2>2
<1>4. LineEnd = CHOOSE e \in start .. last : P(e)
  BY DEF LineEnd
<1>. HIDE DEF P
<1>5. LineEnd \in start .. last /\ P(LineEnd)
  BY <1>3, <1>4
<1>. QED
  BY <1>5 DEF P

LEMMA CopiedType ==
    ASSUME NEW to \in [1 .. BUFSIZE + 1 -> Bytes], NEW text \in Seq(Bytes)
    PROVE  /\ Copied(to, text) \in [1 .. BUFSIZE + 1 -> Bytes]
           /\ \A i \in 1 .. BUFSIZE + 1 :
                 Copied(to, text)[i] = IF i <= Len(text) THEN text[i] ELSE to[i]
<1>1. Copied(to, text) = [i \in 1 .. BUFSIZE + 1 |-> IF i <= Len(text) THEN text[i] ELSE to[i]]
  BY DEF Copied
<1>2. \A i \in 1 .. BUFSIZE + 1 : i <= Len(text) => text[i] \in Bytes
  <2>1. \A i \in 1 .. BUFSIZE + 1 : i <= Len(text) => i \in 1 .. Len(text)
    BY Sizes
  <2>. QED
    BY <2>1, ElementType
<1>. QED
  BY <1>1, <1>2

LEMMA GrepSearchesKeeps ==
    ASSUME ProgramsInv, GrepSearches
    PROVE  ProgramsInv'
<1>. DEFINE e == LineEnd
            ended == [data EXCEPT ![e + 1] = NUL]
            line == SubSeq(data, start + 1, e)
            again == IF ret = 0 THEN "close" ELSE "search"
            tail == SubSeq(ended, start + 1, Len(data))
<1>1. /\ prog = "grep" /\ pc = "line"
      /\ UNCHANGED <<fd_arr, alive, ret, buf, args, prog, asked, dir, file, fname>>
  BY DEF GrepSearches, At, vars
<1>2. /\ start \in Nat /\ last \in Nat /\ start <= last /\ last <= BUFSIZE
      /\ start = last => last = 0
  BY <1>1, InvOfPrograms, Sizes DEF Places
<1>3. e \in start .. last
  BY <1>2, LineEndIs
<1>4. e + 1 \in 1 .. BUFSIZE + 1 /\ e \in Nat
  BY <1>2, <1>3, Sizes
<1>5. ended \in [1 .. BUFSIZE + 1 -> Bytes]
  BY <1>4, InvOfPrograms, Outputs
<1>6. Inv' /\ alive
  BY <1>1, InvOfPrograms DEF Inv, TypeOK, StandardStreams, Places
<1>7. CASE /\ Kept(e)
           /\ data' = Copied(ended, Append(Text(tail), NUL))
           /\ last' = last - start /\ pc' = again
           /\ UNCHANGED <<start, printed>>
  <2>1. start # 0
    BY <1>7 DEF Kept
  <2>2. last' \in 0 .. BUFSIZE /\ last' < BUFSIZE
    BY <1>2, <1>7, <2>1, Sizes
  <2>3. data' \in [1 .. BUFSIZE + 1 -> Bytes]
    <3>. HIDE DEF ended
    <3>1. ended \in Seq(Bytes) /\ Len(ended) = BUFSIZE + 1 /\ Len(data) = BUFSIZE + 1
      BY <1>5, Sizes, FunctionIsSeq, InvOfPrograms
    <3>2. tail \in Seq(Bytes)
      BY <1>2, <3>1, Sizes, PartType
    <3>3. Append(Text(tail), NUL) \in Seq(Bytes)
      BY <3>2, TextType, Outputs, AppendProperties
    <3>. QED
      BY <1>5, <1>7, <3>3, CopiedType
  <2>4. pc' \in {"close", "search"}
    BY <1>7
  <2>. HIDE DEF e, again
  <2>5. ProgramsTypeOK'
    BY <1>1, <1>6, <1>7, <2>2, <2>3, <2>4 DEF ProgramsInv, ProgramsTypeOK, Inv
  <2>6. Places'
    BY <1>1, <1>7, <2>2, <2>4 DEF ProgramsInv, Places, IsOpen
  <2>. QED
    BY <1>6, <2>5, <2>6 DEF ProgramsInv, Inv
<1>8. CASE /\ data' = ended
           /\ start' = e + 1
           /\ last' = IF start' >= last THEN 0 ELSE last
           /\ pc' = IF start' >= last THEN again ELSE "line"
           /\ printed' = IF Matches(line, Text(args))
                            THEN printed \o fname \o <<":">> \o Text(line) \o <<NL>>
                            ELSE printed
  <2>1. /\ start' \in 0 .. BUFSIZE + 1
        /\ last' \in 0 .. BUFSIZE
        /\ start' >= last => last' = 0 /\ last' < BUFSIZE /\ pc' \in {"close", "search"}
        /\ ~(start' >= last) => last' = last /\ start' < last' /\ pc' = "line"
    <3>. HIDE DEF e
    <3>. QED
      BY <1>2, <1>4, <1>8, Sizes
  <2>2. printed' \in Seq(Output)
    <3>1. line \in Seq(Bytes)
      <4>1. e <= Len(data) /\ start + 1 \in Nat \ {0} /\ e \in Int
        <5>. HIDE DEF e
        <5>. QED
          BY <1>2, <1>3, <1>4, InvOfPrograms
      <4>. HIDE DEF e
      <4>. QED
        BY <4>1, InvOfPrograms, PartType
    <3>. HIDE DEF line
    <3>2. Text(line) \in Seq(Output) /\ fname \in Seq(Output) /\ printed \in Seq(Output)
          /\ <<":">> \in Seq(Output) /\ <<NL>> \in Seq(Output)
      BY <3>1, TextType, Outputs, InvOfPrograms
    <3>3. printed \o fname \in Seq(Output)
      BY <3>2, ConcatProperties
    <3>4. printed \o fname \o <<":">> \in Seq(Output)
      BY <3>2, <3>3, ConcatProperties
    <3>5. printed \o fname \o <<":">> \o Text(line) \in Seq(Output)
      BY <3>2, <3>4, ConcatProperties
    <3>6. printed \o fname \o <<":">> \o Text(line) \o <<NL>> \in Seq(Output)
      BY <3>2, <3>5, ConcatProperties
    <3>. QED
      BY <1>8, <3>2, <3>6
  <2>. HIDE DEF e, again, ended
  <2>3. pc' \in {"close", "search", "line"} /\ data' \in [1 .. BUFSIZE + 1 -> Bytes]
    BY <1>5, <1>8, <2>1
  <2>4. ProgramsTypeOK'
    BY <1>1, <1>6, <2>1, <2>2, <2>3 DEF ProgramsInv, ProgramsTypeOK, Inv, Output
  <2>5. Places'
    <3>1. pc' = "search" => last' < BUFSIZE
      BY <2>1
    <3>2. pc' = "line" => start' <= last' /\ (start' = last' => last' = 0)
      BY <2>1
    <3>. QED
      BY <1>1, <2>3, <3>1, <3>2 DEF ProgramsInv, Places, IsOpen
  <2>. QED
    BY <1>6, <2>4, <2>5 DEF ProgramsInv, Inv
<1>. QED
  BY <1>7, <1>8 DEF GrepSearches

LEMMA GrepClosesKeeps ==
    ASSUME ProgramsInv, GrepCloses
    PROVE  ProgramsInv'
<1>1. /\ prog = "grep" /\ pc = "close" /\ Close(file) /\ file' = None /\ pc' = "next"
      /\ UNCHANGED <<args, prog, asked, printed, dir, fname, data, last, start>>
  BY DEF GrepCloses, At
<1>2. /\ file \in Above /\ file \in Fds /\ dir \in Above /\ dir \in Fds /\ dir # file
      /\ fd_arr[dir].flags = 1
  BY <1>1, InvOfPrograms, AboveFds DEF Places, IsOpen
<1>3. Inv' /\ alive' = alive /\ alive
  BY <1>1, <1>2, InvOfPrograms, CloseKeeps DEF Close
<1>4. fd_arr'[dir] = fd_arr[dir]
  BY <1>1, <1>2 DEF Close
<1>5. ProgramsTypeOK'
  BY <1>1, <1>3 DEF ProgramsInv, ProgramsTypeOK, Inv
<1>6. Places'
  BY <1>1, <1>2, <1>3, <1>4 DEF ProgramsInv, Places, IsOpen
<1>. QED
  BY <1>3, <1>5, <1>6 DEF ProgramsInv, Inv

LEMMA ReturnsKeeps ==
    ASSUME ProgramsInv, Returns \/ UnknownEnds
    PROVE  ProgramsInv'
<1>1. \A status : Ends(status, <<>>) => ProgramsInv'
  BY Outputs, EndsKeeps
<1>2. ASSUME Ends(3, <<IF prog = "ls" THEN "directory entry read failed" ELSE "file read failed">>)
      PROVE  ProgramsInv'
  <2>1. (IF prog = "ls" THEN "directory entry read failed" ELSE "file read failed") \in Messages
    BY DEF Messages
  <2>2. <<IF prog = "ls" THEN "directory entry read failed" ELSE "file read failed">> \in Seq(Output)
    BY <2>1, Outputs
  <2>. QED
    BY <1>2, <2>2, EndsKeeps
<1>. QED
  BY <1>1, <1>2 DEF Returns, UnknownEnds

LEMMA ProgramsInvInit == ProgramsInit => ProgramsInv
<1>. SUFFICES ASSUME ProgramsInit PROVE ProgramsInv
  OBVIOUS
<1>1. Inv
  BY InvInit DEF ProgramsInit
<1>2. ProgramsTypeOK
  BY <1>1, Outputs, Sizes DEF ProgramsInit, ProgramsTypeOK, Inv, Output
<1>3. Places
  BY DEF ProgramsInit, Init, Places
<1>. QED
  BY <1>1, <1>2, <1>3 DEF ProgramsInv, Inv

LEMMA ProgramsInvStep == ProgramsInv /\ [ProgramsNext]_programsVars => ProgramsInv'
<1>. SUFFICES ASSUME ProgramsInv, [ProgramsNext]_programsVars PROVE ProgramsInv'
  OBVIOUS
<1>1. CASE ShellReads
  BY <1>1, ShellReadsKeeps
<1>2. CASE ExecuteFails \/ ExecuteStarts
  BY <1>2, ExecuteFailsKeeps, ExecuteStartsKeeps
<1>3. CASE CatStarts \/ LsStarts \/ ReadAndWrite
  BY <1>3, CatStartsKeeps, LsStartsKeeps, ReadAndWriteKeeps
<1>4. CASE GrepStarts \/ GrepNext \/ GrepOpens
  BY <1>4, GrepStartsKeeps, GrepNextKeeps, GrepOpensKeeps
<1>5. CASE GrepReads \/ GrepSearches \/ GrepCloses
  BY <1>5, GrepReadsKeeps, GrepSearchesKeeps, GrepClosesKeeps
<1>6. CASE Returns \/ UnknownEnds
  BY <1>6, ReturnsKeeps
<1>7. CASE UNCHANGED programsVars
  BY <1>7 DEF programsVars, vars, local, ProgramsInv, ProgramsTypeOK, TypeOK,
              StandardStreams, Places, IsOpen
<1>. QED
  BY <1>1, <1>2, <1>3, <1>4, <1>5, <1>6, <1>7 DEF ProgramsNext, Runs

\* execute, getargs, cat, ls, grep and the shell, over any image and any lines: no read
\* or copy leaves a buffer, no descriptor is used that the program does not hold,
\* and what is printed are bytes of files, names and messages.
THEOREM ProgramsKeepTypes == ProgramsSpec => []ProgramsTypeOK
<1>1. ProgramsInv => ProgramsTypeOK
  BY DEF ProgramsInv
<1>. QED
  BY <1>1, ProgramsInvInit, ProgramsInvStep, PTL DEF ProgramsSpec
-----------------------------------------------------------------------------
\* A read of the clock is one of a file with nothing in it.
LEMMA ClockReadSteps ==
    ASSUME StreamsInv, NEW fd \in Above, fd_arr[fd].flags = 1, ClockRead(fd)
    PROVE  OpenAreEntries' /\ Table!Next
<1>. DEFINE pos == fd_arr[fd].file_pos
            c == Content(fd_arr[fd].ops, fd_arr[fd].inode)
            f == <<fd_arr[fd].ops, fd_arr[fd].inode>>
<1>1. /\ fd \in Fds /\ fd_arr[fd].ops = "rtc" /\ pos \in Nat
      /\ buf' = <<>> /\ fd_arr' = fd_arr /\ alive' = alive
  BY AboveFds, FieldTypes DEF StreamsInv, Inv, ClockRead
<1>2. c = <<>> /\ Len(c) = 0
  BY <1>1 DEF Content
<1>3. f \in SoundFiles
  <2>1. f \in Opened
    BY DEF StreamsInv, OpenAreEntries, AtEntry
  <2>2. f[1] # "file"
    BY <1>1
  <2>. QED
    BY <2>1, <2>2 DEF SoundFiles
<1>4. pos = 0
  <2>1. pos <= Len(c)
    BY <1>3 DEF StreamsInv, OpenAreEntries, AtEntry
  <2>. HIDE DEF pos, c
  <2>. QED
    BY <1>1, <1>2, <2>1
<1>5. PICK n \in Nat : n = 0
  OBVIOUS
<1>. HIDE DEF c
<1>6. pos + n = pos /\ pos + n <= Len(c) /\ pos = Len(c)
  BY <1>1, <1>2, <1>4, <1>5
<1>7. fd_arr' = [fd_arr EXCEPT ![fd].file_pos = pos + n]
  BY <1>1, <1>6, SamePosition DEF StreamsInv
<1>8. buf' = SubSeq(c, pos + 1, pos + n)
  <2>1. SubSeq(c, pos + 1, pos + n) = <<>>
    BY <1>1, <1>6, SubSeqEmpty
  <2>. QED
    BY <1>1, <2>1
<1>. QED
  BY <1>1, <1>3, <1>6, <1>7, <1>8, ReadSteps DEF c

LEMMA ReadsStep ==
    ASSUME StreamsInv, SoundEnds, NEW fd \in Above, fd_arr[fd].flags = 1,
           NEW n \in Nat \ {0}, Reads(fd, n)
    PROVE  OpenAreEntries' /\ Table!Next
<1>1. fd \in Fds /\ n \in Nat /\ n # 0
  BY AboveFds
<1>. QED
  BY <1>1, FileReadSteps, DirReadSteps, ClockReadSteps DEF Reads

LEMMA ProgramsStreamsStep ==
    ASSUME ProgramsInv, OpenAreEntries, SoundEnds, [ProgramsNext]_programsVars
    PROVE  OpenAreEntries' /\ [Table!Next]_(Table!vars)
<1>1. StreamsInv
  BY InvOfPrograms DEF StreamsInv
<1>2. CASE UNCHANGED <<fd_arr, buf, alive>>
  <2>1. OpenAreEntries'
    BY <1>2 DEF OpenAreEntries
  <2>2. UNCHANGED Table!vars
    BY <1>2 DEF Table!vars
  <2>. QED
    BY <2>1, <2>2
<1>3. CASE ShellReads \/ ExecuteFails \/ GrepSearches \/ UNCHANGED programsVars
  <2>1. UNCHANGED <<fd_arr, buf, alive>>
    BY <1>3 DEF ShellReads, ExecuteFails, GrepSearches, programsVars, vars
  <2>. QED
    BY <1>2, <2>1
<1>4. ASSUME Execute \/ Halt PROVE OpenAreEntries' /\ Table!Next
  BY <1>1, <1>4, ProcessSteps
<1>5. CASE ExecuteStarts
  BY <1>4, <1>5 DEF ExecuteStarts
<1>6. ASSUME NEW status, NEW text, Ends(status, text) PROVE OpenAreEntries' /\ Table!Next
  BY <1>4, <1>6 DEF Ends
<1>7. ASSUME NEW name, Open(name) PROVE OpenAreEntries' /\ Table!Next
  BY <1>1, <1>7, OpenSteps
<1>8. CASE CatStarts \/ LsStarts \/ GrepStarts \/ GrepOpens
  BY <1>6, <1>7, <1>8 DEF CatStarts, LsStarts, GrepStarts, GrepOpens, Opens
<1>9. CASE Returns \/ UnknownEnds
  BY <1>6, <1>9 DEF Returns, UnknownEnds
<1>10. CASE ReadAndWrite
  <2>1. pc = "read" /\ Reads(file, BUFSIZE)
    BY <1>10 DEF ReadAndWrite
  <2>2. file \in Above /\ fd_arr[file].flags = 1
    BY <2>1, InvOfPrograms DEF Places, IsOpen
  <2>. QED
    BY <1>1, <2>1, <2>2, Sizes, ReadsStep
<1>11. CASE GrepNext
  <2>1. pc = "next" /\ DirRead(dir)
    BY <1>11 DEF GrepNext, At
  <2>2. dir \in Fds
    BY <2>1, InvOfPrograms, AboveFds DEF Places, IsOpen
  <2>. QED
    BY <1>1, <2>1, <2>2, DirReadSteps
<1>12. CASE GrepReads
  <2>1. pc = "search" /\ Reads(file, BUFSIZE - last)
    BY <1>12 DEF GrepReads, At
  <2>2. file \in Above /\ fd_arr[file].flags = 1 /\ last < BUFSIZE
    BY <2>1, InvOfPrograms DEF Places, IsOpen
  <2>3. BUFSIZE - last \in Nat \ {0}
    BY <2>2, InvOfPrograms, Sizes
  <2>. QED
    BY <1>1, <2>1, <2>2, <2>3, ReadsStep
<1>13. CASE GrepCloses
  <2>1. pc = "close" /\ Close(file)
    BY <1>13 DEF GrepCloses, At
  <2>2. file \in Fds
    BY <2>1, InvOfPrograms, AboveFds DEF Places, IsOpen
  <2>. QED
    BY <1>1, <2>1, <2>2, CloseSteps
<1>. QED
  BY <1>3, <1>5, <1>8, <1>9, <1>10, <1>11, <1>12, <1>13 DEF ProgramsNext, Runs

\* cat, ls and grep are clients of Streams: whatever they open, read and close, through the
\* programs that have the pcb one after the other, each descriptor is a stream of
\* its own over one entry, also the clock's, and none outlives its program.
THEOREM ProgramsReadStreams ==
    ASSUME SoundEnds
    PROVE  ProgramsSpec => ImplementsStreams
<1>1. ProgramsInit => OpenAreEntries /\ Table!Init
  BY StreamsInit DEF ProgramsInit
<1>2. ProgramsInv /\ OpenAreEntries /\ [ProgramsNext]_programsVars
        => OpenAreEntries' /\ [Table!Next]_(Table!vars)
  BY ProgramsStreamsStep
<1>. QED
  BY <1>1, <1>2, ProgramsInvInit, ProgramsInvStep, PTL
  DEF ProgramsSpec, ImplementsStreams, Table!Spec
-----------------------------------------------------------------------------
(***************************************************************************)
(* Reading an entry of a plain image.                                      *)
(***************************************************************************)

LEMMA EntryTypes ==
    ASSUME NEW i \in DOMAIN Entries
    PROVE  /\ i \in 1 .. Len(Entries) /\ i \in Nat \ {0} /\ i - 1 \in 0 .. Len(Entries) - 1
           /\ Entries[i].type \in {"rtc", "dir", "file"}
           /\ Entries[i].inode \in 0 .. Len(Inodes) - 1
           /\ InodeOf(Entries[i].inode).length \in Nat
           /\ Entries[i].name \in Seq(Bytes) /\ Entries[i].name # <<>>
<1>1. i \in 1 .. Len(Entries) /\ i \in Nat \ {0} /\ i - 1 \in 0 .. Len(Entries) - 1
  BY Sizes
<1>2. /\ Entries[i].type \in {"rtc", "dir", "file"}
      /\ Entries[i].inode \in 0 .. Len(Inodes) - 1
  BY FilesAssumption
<1>3. Entries[i].name \in Seq(Bytes) /\ Len(Entries[i].name) \in 1 .. MAX_FILENAME_LEN
  BY ProgramsAssumption
<1>4. Entries[i].name # <<>>
  BY <1>3, EmptySeq
<1>. QED
  BY <1>1, <1>2, <1>3, <1>4, ImageTypes

LEMMA HeldFile ==
    ASSUME PlainImage, NEW i \in DOMAIN Entries, Entries[i].type = "file"
    PROVE  LET inode == Entries[i].inode
               L == InodeOf(inode).length
           IN  /\ Held(i) = [p \in 1 .. L |-> ByteAt(inode, p - 1)]
               /\ Held(i) \in Seq(Bytes) /\ Len(Held(i)) = L
               /\ \A p \in 0 .. L : ~BadPointer(inode, p \div DATA_BLK_SIZE)
<1>. DEFINE inode == Entries[i].inode
            L == InodeOf(inode).length
<1>1. inode \in 0 .. Len(Inodes) - 1 /\ L \in Nat
  BY EntryTypes
<1>2. ASSUME NEW p \in 0 .. L PROVE ~BadPointer(inode, p \div DATA_BLK_SIZE)
  <2>. DEFINE q == p \div DATA_BLK_SIZE
  <2>1. q + 1 \in DOMAIN InodeOf(inode).data_blocks /\ Pointer(inode, q) \in Nat
    BY <1>1, PointerIsNumber
  <2>2. ~Damaged(i)
    BY DEF PlainImage
  <2>. HIDE DEF q
  <2>3. ~(Pointer(inode, q) >= NumBlocks)
    BY <2>1, <2>2 DEF Damaged, Node, Pointer, InodeOf
  <2>. QED
    BY <2>1, <2>3, Sizes DEF BadPointer, q
<1>3. Held(i) = [p \in 1 .. L |-> ByteAt(inode, p - 1)]
  <2>1. ~Damaged(i)
    BY DEF PlainImage
  <2>2. Node(i) = InodeOf(inode)
    BY DEF Node, InodeOf
  <2>. QED
    BY <2>1, <2>2 DEF Held, ByteAt, Pointer
<1>4. \A p \in 1 .. L : ByteAt(inode, p - 1) \in Bytes
  <2>. SUFFICES ASSUME NEW p \in 1 .. L PROVE ByteAt(inode, p - 1) \in Bytes
    OBVIOUS
  <2>1. PICK r : r = p - 1
    OBVIOUS
  <2>2. r \in 0 .. L
    BY <1>1, <2>1
  <2>. QED
    BY <1>1, <1>2, <2>1, <2>2, ByteType
<1>5. Held(i) \in [1 .. L -> Bytes]
  BY <1>3, <1>4
<1>6. Held(i) \in Seq(Bytes) /\ Len(Held(i)) = L
  BY <1>1, <1>5, FunctionIsSeq
<1>. QED
  BY <1>2, <1>3, <1>6

LEMMA HeldClock ==
    ASSUME NEW i, Entries[i].type = "rtc"
    PROVE  Held(i) = <<>> /\ Len(Held(i)) = 0 /\ Held(i) \in Seq(Bytes)
<1>1. Held(i) = <<>>
  BY DEF Held
<1>. QED
  BY <1>1

LEMMA PartFrom ==
    ASSUME NEW S, NEW c \in Seq(S), NEW a \in Nat, NEW m \in Nat, a + m <= Len(c)
    PROVE  /\ SubSeq(c, a + 1, a + m) \in Seq(S)
           /\ Len(SubSeq(c, a + 1, a + m)) = m
           /\ \A k \in 1 .. m : SubSeq(c, a + 1, a + m)[k] = c[a + k]
<1>1. a + 1 \in Nat \ {0} /\ a + m \in Int /\ a + m <= Len(c)
  OBVIOUS
<1>. DEFINE part == SubSeq(c, a + 1, a + m)
<1>2. /\ part \in Seq(S)
      /\ Len(part) = IF a + 1 <= a + m THEN (a + m) - (a + 1) + 1 ELSE 0
      /\ \A k \in 1 .. (a + m) - (a + 1) + 1 : part[k] = c[(a + 1) + k - 1]
  BY <1>1, PartType, SMTT(30)
<1>3. (a + m) - (a + 1) + 1 = m /\ (a + 1 <= a + m <=> m # 0)
  OBVIOUS
<1>4. \A k \in 1 .. m : (a + 1) + k - 1 = a + k
  OBVIOUS
<1>. HIDE DEF part
<1>5. /\ part \in Seq(S) /\ Len(part) = m
      /\ \A k \in 1 .. m : part[k] = c[a + k]
  BY <1>2, <1>3, <1>4
<1>. QED
  BY <1>5 DEF part

\* A file, or the clock, is read in parts that follow each other, up to the end.
LEMMA ReadHeld ==
    ASSUME PlainImage, Inv, NEW d, NEW i, Reading(d, i), Entries[i].type \in {"file", "rtc"},
           NEW n \in Nat \ {0}, Reads(d, n)
    PROVE  LET pos == fd_arr[d].file_pos
               L == Len(Held(i))
           IN  /\ Reading(d, i)'
               /\ pos \in 0 .. L /\ L \in Nat
               /\ ret' \in 0 .. n /\ pos + ret' <= L
               /\ ret' # n => pos + ret' = L
               /\ fd_arr'[d].file_pos = pos + ret'
               /\ \A fd \in Fds : fd # d => fd_arr'[fd] = fd_arr[fd]
               /\ Taken(buf') = SubSeq(Held(i), pos + 1, pos + ret')
<1>. DEFINE inode == Entries[i].inode
            pos == fd_arr[d].file_pos
            L == Len(Held(i))
            t == Entries[i].type
            end == CASE t = "file" -> Len(Held(i)) [] t = "dir" -> Len(Entries) [] t = "rtc" -> 0
<1>1. /\ i \in DOMAIN Entries /\ d \in Above /\ d \in Fds /\ pos \in Nat
      /\ fd_arr[d].flags = 1 /\ fd_arr[d].ops = t /\ fd_arr[d].inode = inode
      /\ pos <= end
  BY AboveFds, FieldTypes DEF Reading, IsOpen, Inv
<1>2. CASE t = "file"
  <2>1. /\ Held(i) = [p \in 1 .. L |-> ByteAt(inode, p - 1)]
        /\ Held(i) \in Seq(Bytes)
        /\ L = InodeOf(inode).length /\ L \in Nat
        /\ \A p \in 0 .. L : ~BadPointer(inode, p \div DATA_BLK_SIZE)
        /\ inode \in 0 .. Len(Inodes) - 1
    BY <1>1, <1>2, HeldFile, EntryTypes
  <2>2. pos <= L /\ end = L
    BY <1>1, <1>2
  <2>3. FileRead(d, n)
    BY <1>1, <1>2 DEF Reads, DirRead, ClockRead
  <2>4. Transfers(d, n)
    <3>1. Transfers(d, n) \/ Fails(d) \/ Overruns(d)
      BY <1>1, <2>3, FileReadDoes
    <3>2. ~Fails(d)
      <4>1. \A p \in pos .. L : p \in 0 .. L
        BY <1>1, <2>1
      <4>2. \A p \in pos .. L : ~BadPointer(inode, p \div DATA_BLK_SIZE)
        BY <2>1, <4>1
      <4>3. fd_arr[d].inode = inode /\ InodeOf(inode).length = L
        BY <1>1, <2>1
      <4>. HIDE DEF inode, pos, L
      <4>. QED
        BY <4>2, <4>3 DEF Fails, pos
    <3>3. ~Overruns(d)
      <4>1. ~(pos > InodeOf(fd_arr[d].inode).length)
        BY <1>1, <2>1, <2>2
      <4>. QED
        BY <4>1 DEF Overruns
    <3>. QED
      BY <3>1, <3>2, <3>3
  <2>5. PICK m : m = Within(n, inode, pos)
    OBVIOUS
  <2>6. /\ m \in 0 .. L - pos /\ ret' = m
        /\ buf' = SubSeq(FileContent(inode), pos + 1, pos + m)
        /\ fd_arr' = [fd_arr EXCEPT ![d].file_pos = pos + m]
    BY <1>1, <2>1, <2>4, <2>5 DEF Transfers
  <2>7. m \in 0 .. n /\ (m # n => m = L - pos)
    <3>1. m = IF n <= L - pos THEN n ELSE L - pos
      BY <2>1, <2>5 DEF Within
    <3>. HIDE DEF L, pos
    <3>. QED
      BY <1>1, <2>1, <2>2, <3>1
  <2>8. m \in Nat /\ pos + m \in Nat /\ pos + m <= L /\ (m # n => pos + m = L)
    <3>. HIDE DEF L, pos
    <3>. QED
      BY <1>1, <2>1, <2>2, <2>6, <2>7
  <2>9. /\ fd_arr'[d].flags = 1 /\ fd_arr'[d].ops = t /\ fd_arr'[d].inode = inode
        /\ fd_arr'[d].file_pos = pos + m
        /\ \A fd \in Fds : fd # d => fd_arr'[fd] = fd_arr[fd]
    BY <1>1, <2>6, PositionOnly
  <2>10. Reading(d, i)'
    <3>1. fd_arr'[d].file_pos <= end
      BY <2>2, <2>8, <2>9
    <3>. QED
      BY <1>1, <2>9, <3>1 DEF Reading, IsOpen
  <2>11. Taken(buf') = SubSeq(Held(i), pos + 1, pos + m)
    <3>1. \A p \in pos .. pos + m - 1 : p \in 0 .. L
      <4>. HIDE DEF L, pos
      <4>. QED
        BY <1>1, <2>1, <2>8
    <3>2. \A p \in pos .. pos + m - 1 : ~BadPointer(inode, p \div DATA_BLK_SIZE)
      BY <2>1, <3>1
    <3>. DEFINE taken == Taken(SubSeq(FileContent(inode), pos + 1, pos + m))
    <3>3. /\ taken = [k \in 1 .. m |-> ByteAt(inode, pos + k - 1)]
          /\ taken \in Seq(Bytes) /\ Len(taken) = m
      <4>1. pos + m <= InodeOf(inode).length
        BY <2>1, <2>8
      <4>. HIDE DEF inode, pos, L
      <4>. QED
        BY <1>1, <2>1, <2>8, <3>2, <4>1, TakenBytes
    <3>. DEFINE part == SubSeq(Held(i), pos + 1, pos + m)
    <3>4. /\ part \in Seq(Bytes) /\ Len(part) = m
          /\ \A k \in 1 .. m : part[k] = Held(i)[pos + k]
      <4>1. PICK c \in Seq(Bytes) : c = Held(i)
        BY <2>1
      <4>2. PICK a \in Nat : a = pos
        BY <1>1
      <4>3. a + m <= Len(c) /\ m \in Nat
        BY <2>8, <4>1, <4>2
      <4>4. /\ SubSeq(c, a + 1, a + m) \in Seq(Bytes)
            /\ Len(SubSeq(c, a + 1, a + m)) = m
            /\ \A k \in 1 .. m : SubSeq(c, a + 1, a + m)[k] = c[a + k]
        BY <4>3, PartFrom
      <4>. QED
        BY <4>1, <4>2, <4>4
    <3>5. \A k \in 1 .. m : part[k] = taken[k]
      <4>. SUFFICES ASSUME NEW k \in 1 .. m PROVE part[k] = taken[k]
        OBVIOUS
      <4>. HIDE DEF part, taken, pos, inode
      <4>1. pos + k \in 1 .. L /\ (pos + k) - 1 = pos + k - 1
        BY <1>1, <2>1, <2>8
      <4>2. Held(i)[pos + k] = ByteAt(inode, pos + k - 1)
        <5>. HIDE DEF L
        <5>. QED
          BY <2>1, <4>1
      <4>. QED
        BY <3>3, <3>4, <4>2
    <3>. HIDE DEF part, taken
    <3>6. part = taken
      BY <3>3, <3>4, <3>5, SeqEqual
    <3>. QED
      BY <2>6, <3>6 DEF part, taken
  <2>. HIDE DEF pos, L
  <2>. QED
    BY <1>1, <2>1, <2>2, <2>6, <2>7, <2>8, <2>9, <2>10, <2>11 DEF pos, L
<1>3. CASE t = "rtc"
  <2>1. Held(i) = <<>> /\ L = 0 /\ end = 0 /\ pos = 0
    <3>1. Held(i) = <<>> /\ L = 0 /\ end = 0
      BY <1>3, HeldClock
    <3>. HIDE DEF end, pos
    <3>. QED
      BY <1>1, <3>1
  <2>2. ClockRead(d)
    BY <1>1, <1>3 DEF Reads, FileRead, DirRead
  <2>3. ret' = 0 /\ buf' = <<>> /\ fd_arr' = fd_arr
    BY <2>2 DEF ClockRead
  <2>4. Reading(d, i)'
    BY <2>3 DEF Reading, IsOpen
  <2>5. Taken(buf') = SubSeq(Held(i), pos + 1, pos + ret')
    <3>1. SubSeq(Held(i), 0 + 1, 0 + 0) = <<>>
      BY SubSeqEmpty
    <3>. QED
      BY <2>1, <2>3, <3>1, TakenNothing, Zenon
  <2>. HIDE DEF pos
  <2>. QED
    BY <2>1, <2>3, <2>4, <2>5 DEF pos
<1>. QED
  BY <1>2, <1>3
-----------------------------------------------------------------------------
(***************************************************************************)
(* The word and the argument of a command, as a user and as execute and    *)
(* getargs find them.                                                      *)
(***************************************************************************)

LEMMA WordIs ==
    ASSUME NEW c \in Seq(Bytes), NEW n \in 0 .. Len(c),
           \A j \in 1 .. n : c[j] # SP, n < Len(c) => c[n + 1] = SP
    PROVE  Word(c) = SubSeq(c, 1, n) /\ Len(Word(c)) = n /\ Rest(c) = SubSeq(c, n + 2, Len(c))
<1>. DEFINE Cut(k) == SubSeq(c, 1, k)
            IsWord(w) == /\ SP \notin Range(w)
                         /\ Len(w) < Len(c) => c[Len(w) + 1] = SP
            W == {Cut(k) : k \in 0 .. Len(c)}
<1>1. ASSUME NEW k \in 0 .. Len(c)
      PROVE  /\ Cut(k) \in Seq(Bytes) /\ Len(Cut(k)) = k
             /\ \A j \in 1 .. k : Cut(k)[j] = c[j]
  <2>1. /\ Cut(k) \in Seq(Bytes)
        /\ Len(Cut(k)) = IF 1 <= k THEN k - 1 + 1 ELSE 0
        /\ \A j \in 1 .. k - 1 + 1 : Cut(k)[j] = c[1 + j - 1]
    BY PartType
  <2>2. k - 1 + 1 = k /\ \A j \in 1 .. k : 1 + j - 1 = j
    OBVIOUS
  <2>. HIDE DEF Cut
  <2>. QED
    BY <2>1, <2>2
<1>2. ASSUME NEW k \in 0 .. Len(c)
      PROVE  IsWord(Cut(k)) <=> /\ \A j \in 1 .. k : c[j] # SP
                                /\ k < Len(c) => c[k + 1] = SP
  <2>1. DOMAIN Cut(k) = 1 .. k
    BY <1>1
  <2>2. SP \notin Range(Cut(k)) <=> \A j \in 1 .. k : c[j] # SP
    <3>. HIDE DEF Cut
    <3>. QED
      BY <1>1, <2>1 DEF Range
  <2>. HIDE DEF Cut
  <2>. QED
    BY <1>1, <2>2
<1>. HIDE DEF Cut
<1>3. IsWord(Cut(n)) /\ Cut(n) \in W
  BY <1>2
<1>4. ASSUME NEW k \in 0 .. Len(c), IsWord(Cut(k)) PROVE k = n
  <2>. HIDE DEF IsWord
  <2>1. /\ \A j \in 1 .. k : c[j] # SP
        /\ k < Len(c) => c[k + 1] = SP
    BY <1>2, <1>4
  <2>2. CASE k < n
    BY <2>1, <2>2
  <2>3. CASE n < k
    BY <2>1, <2>3
  <2>. QED
    BY <2>2, <2>3
<1>5. \A w \in W : IsWord(w) => w = Cut(n)
  <2>. HIDE DEF IsWord
  <2>. QED
    BY <1>4
<1>6. Word(c) = CHOOSE w \in W : IsWord(w)
  BY DEF Word, Cut
<1>. HIDE DEF W, IsWord
<1>7. Word(c) = Cut(n)
  BY <1>3, <1>5, <1>6
<1>. QED
  BY <1>1, <1>7 DEF Cut, Rest

LEMMA WordExists ==
    ASSUME NEW c \in Seq(Bytes)
    PROVE  \E n \in 0 .. Len(c) :
              (\A j \in 1 .. n : c[j] # SP) /\ (n < Len(c) => c[n + 1] = SP)
<1>. DEFINE T == {j \in 1 .. Len(c) : c[j] = SP}
<1>1. CASE T = {}
  <2>1. Len(c) \in 0 .. Len(c) /\ ~(Len(c) < Len(c))
    OBVIOUS
  <2>. QED
    BY <1>1, <2>1
<1>2. CASE T # {}
  <2>1. T \subseteq Nat
    OBVIOUS
  <2>2. PICK x \in T : \A y \in T : x <= y
    BY <1>2, <2>1, Least
  <2>3. x \in 1 .. Len(c) /\ c[x] = SP
    OBVIOUS
  <2>4. \A j \in 1 .. x - 1 : c[j] # SP
    BY <2>2, <2>3
  <2>5. x - 1 \in 0 .. Len(c) /\ (x - 1) + 1 = x
    BY <2>3
  <2>. QED
    BY <2>3, <2>4, <2>5
<1>. QED
  BY <1>1, <1>2

\* execute and getargs find, of a command that fits, the word and the text after it.
LEMMA Parsed ==
    ASSUME NEW c \in Seq(Bytes), Fits(c), NUL \notin Range(c)
    PROVE  /\ FileName(c) = Word(c) /\ ArgText(c) = Rest(c)
           /\ Rest(c) \in Seq(Bytes) /\ Len(Rest(c)) <= MAX_FILENAME_LEN + 1
           /\ \A i \in 1 .. Len(Rest(c)) : Rest(c)[i] # NUL
           /\ \A i \in DOMAIN Entries : Named(Word(c), i) => ~MayBeTaken(i)
<1>. DEFINE M == MAX_FILENAME_LEN
            E == NameEnd(c)
            L == Len(c)
<1>1. PICK n \in 0 .. L : (\A j \in 1 .. n : c[j] # SP) /\ (n < L => c[n + 1] = SP)
  BY WordExists
<1>2. Word(c) = SubSeq(c, 1, n) /\ Len(Word(c)) = n /\ Rest(c) = SubSeq(c, n + 2, L)
  BY <1>1, WordIs
<1>3. /\ n < M \/ (n = L /\ L <= M)
      /\ Len(Rest(c)) <= M + 1
      /\ \A i \in Numbered(Word(c)) : ~MayBeTaken(i)
  BY <1>2 DEF Fits
<1>4. /\ CmdLen(c) \in 0 .. L /\ CmdLen(c) \in 0 .. M /\ E \in 0 .. CmdLen(c)
      /\ \A j \in 1 .. E : c[j] # SP
      /\ HasArgs(c) => E + 1 \in 1 .. CmdLen(c) /\ c[E + 1] = SP
      /\ ~HasArgs(c) => E = CmdLen(c)
  BY NameEndIs
<1>5. CmdLen(c) = IF L > M THEN M ELSE L
  BY DEF CmdLen
<1>6. M \in Nat \ {0} /\ L \in Nat
  BY Sizes
<1>. HIDE DEF M, E, L
<1>7. E = n
  <2>1. CASE HasArgs(c)
    BY <1>1, <1>4, <1>6, <2>1
  <2>2. CASE ~HasArgs(c)
    BY <1>1, <1>3, <1>4, <1>5, <1>6, <2>2
  <2>. QED
    BY <2>1, <2>2
<1>8. FileName(c) = Word(c)
  BY <1>2, <1>7 DEF FileName, E
<1>9. /\ Rest(c) \in Seq(Bytes)
      /\ Len(Rest(c)) = IF n + 2 <= L THEN L - (n + 2) + 1 ELSE 0
      /\ \A i \in 1 .. L - (n + 2) + 1 : Rest(c)[i] = c[n + 2 + i - 1]
  <2>1. n + 2 \in Nat \ {0} /\ L \in Int /\ L <= Len(c)
    BY <1>6 DEF L
  <2>. QED
    BY <1>2, <2>1, PartType
<1>10. ArgText(c) = Rest(c)
  <2>1. CASE HasArgs(c)
    <3>1. ~(Len(Rest(c)) > CmdLen(c) + 1)
      BY <1>1, <1>3, <1>4, <1>5, <1>6, <1>9
    <3>. QED
      BY <1>2, <1>7, <2>1, <3>1 DEF ArgText, E, L
  <2>2. CASE ~HasArgs(c)
    <3>1. n = L
      BY <1>3, <1>4, <1>5, <1>6, <1>7, <2>2
    <3>2. Len(Rest(c)) = 0
      BY <1>6, <1>9, <3>1
    <3>3. Rest(c) = <<>>
      BY <1>9, <3>2, EmptySeq
    <3>. QED
      BY <2>2, <3>3 DEF ArgText
  <2>. QED
    BY <2>1, <2>2
<1>11. ASSUME NEW i \in 1 .. Len(Rest(c)) PROVE Rest(c)[i] # NUL
  <2>1. n + 2 + i - 1 \in 1 .. L /\ i \in 1 .. L - (n + 2) + 1
    BY <1>1, <1>6, <1>9
  <2>2. \A j \in 1 .. L : c[j] # NUL
    BY DEF Range, L
  <2>. QED
    BY <1>9, <2>1, <2>2
<1>12. ASSUME NEW i \in DOMAIN Entries, Named(Word(c), i) PROVE ~MayBeTaken(i)
  BY <1>3, <1>12 DEF Numbered, Named
<1>. QED
  BY <1>3, <1>8, <1>9, <1>10, <1>11, <1>12 DEF M

\* getargs' copy of an argument that has room is the argument.
LEMMA ArgGiven ==
    ASSUME args \in [1 .. MAX_ARG_LEN -> Bytes], NEW text \in Seq(Bytes),
           Len(text) <= MAX_FILENAME_LEN + 1, \A i \in 1 .. Len(text) : text[i] # NUL
    PROVE  Text(NewArgs(args, text)) = text
<1>. DEFINE a == NewArgs(args, text)
            n == Len(text)
<1>1. /\ a \in [1 .. MAX_ARG_LEN -> Bytes]
      /\ \A i \in 1 .. MAX_ARG_LEN : a[i] = IF i <= n THEN text[i] ELSE NUL
  BY NewArgsType
<1>. HIDE DEF a
<1>2. n \in Nat /\ n < MAX_ARG_LEN /\ MAX_ARG_LEN \in Nat
  BY Sizes
<1>3. a \in Seq(Bytes) /\ Len(a) = MAX_ARG_LEN
  BY <1>1, <1>2, FunctionIsSeq
<1>. HIDE DEF n
<1>4. /\ n \in 0 .. Len(a)
      /\ \A i \in 1 .. n : a[i] # NUL
      /\ a[n + 1] = NUL
  BY <1>1, <1>2, <1>3 DEF n
<1>5. Text(a) = SubSeq(a, 1, n)
  BY <1>3, <1>4, TextType
<1>6. 0 + 1 = 1 /\ 0 + n = n /\ 0 + n <= Len(a) /\ \A i \in 1 .. n : 0 + i = i
  BY <1>2, <1>3
<1>7. /\ SubSeq(a, 1, n) \in Seq(Bytes) /\ Len(SubSeq(a, 1, n)) = n
      /\ \A i \in 1 .. n : SubSeq(a, 1, n)[i] = a[i]
  <2>1. /\ SubSeq(a, 0 + 1, 0 + n) \in Seq(Bytes) /\ Len(SubSeq(a, 0 + 1, 0 + n)) = n
        /\ \A i \in 1 .. n : SubSeq(a, 0 + 1, 0 + n)[i] = a[0 + i]
    BY <1>2, <1>3, <1>6, PartFrom
  <2>. QED
    BY <1>6, <2>1
<1>8. \A i \in 1 .. n : SubSeq(a, 1, n)[i] = text[i]
  BY <1>1, <1>2, <1>7
<1>9. SubSeq(a, 1, n) = text
  <2>. DEFINE part == SubSeq(a, 1, n)
  <2>. HIDE DEF part
  <2>1. part \in Seq(Bytes) /\ Len(part) = Len(text) /\ \A i \in 1 .. Len(text) : part[i] = text[i]
    BY <1>7, <1>8 DEF part, n
  <2>2. part = text
    BY <2>1, SeqEqual
  <2>. QED
    BY <2>2 DEF part
<1>. QED
  BY <1>5, <1>9 DEF a
-----------------------------------------------------------------------------
(***************************************************************************)
(* What a command means, on a plain image.                                 *)
(***************************************************************************)

LEMMA JoinedAll ==
    ASSUME NEW g
    PROVE  Joined([i \in DOMAIN Entries |-> g[i]], Len(Entries)) = FlattenSeq([i \in DOMAIN Entries |-> g[i]])
<1>. DEFINE h == [i \in DOMAIN Entries |-> g[i]]
<1>1. DOMAIN Entries = 1 .. Len(Entries)
  BY Sizes
<1>2. [i \in 1 .. Len(Entries) |-> h[i]] = h
  BY <1>1
<1>. QED
  BY <1>2 DEF Joined

LEMMA EntryNamed ==
    ASSUME PlainImage, NEW i \in DOMAIN Entries, NEW name
    PROVE  IsEntry(i, name) <=> Named(name, i)
<1>1. i \in 1 .. Len(Entries) /\ DOMAIN Entries = 1 .. Len(Entries) /\ Len(Entries) \in Nat
  BY Sizes
<1>2. ASSUME Named(name, i), NEW j \in 1 .. i - 1 PROVE Entries[j].name # name
  <2>1. j \in DOMAIN Entries /\ j # i
    BY <1>1
  <2>. QED
    BY <1>2, <2>1 DEF PlainImage, Named
<1>. QED
  BY <1>2 DEF IsEntry, Named

LEMMA FoundNamed ==
    ASSUME PlainImage, NEW name
    PROVE  Found(name) <=> \E i \in DOMAIN Entries : Named(name, i)
BY EntryNamed DEF Found

LEMMA OneNumbered ==
    ASSUME PlainImage, NEW name, NEW i, Named(name, i)
    PROVE  Numbered(name) = {i} /\ (CHOOSE j \in Numbered(name) : TRUE) = i
<1>1. Numbered(name) = {i}
  BY DEF PlainImage, Named, Numbered
<1>. QED
  BY <1>1

LEMMA NoneNumbered ==
    ASSUME NEW name, \A i \in DOMAIN Entries : ~Named(name, i)
    PROVE  Numbered(name) = {}
BY DEF Named, Numbered

LEMMA NothingFails ==
    ASSUME PlainImage, NEW i \in DOMAIN Entries
    PROVE  Failure(i) = <<>>
BY DEF PlainImage, Failure

LEMMA NoCommandMeans ==
    ASSUME PlainImage, NEW c, c \notin NotRun,
           \A i \in DOMAIN Entries : Named(Word(c), i) => Entries[i].inode \notin DOMAIN Program
    PROVE  Meaning(c) = <<"no such command">>
<1>. DEFINE e == Numbered(Word(c))
<1>1. e = {} \/ Entries[CHOOSE i \in e : TRUE].inode \notin DOMAIN Program
  <2>1. CASE \E i \in DOMAIN Entries : Named(Word(c), i)
    <3>1. PICK i \in DOMAIN Entries : Named(Word(c), i)
      BY <2>1
    <3>. QED
      BY <3>1, OneNumbered
  <2>2. CASE \A i \in DOMAIN Entries : ~Named(Word(c), i)
    BY <2>2, NoneNumbered
  <2>. QED
    BY <2>1, <2>2
<1>2. c \notin {<<>>, <<"e", "x", "i", "t">>}
  BY DEF NotRun
<1>. HIDE DEF e
<1>. QED
  BY <1>1, <1>2, Zenon DEF Meaning, e

LEMMA CommandMeans ==
    ASSUME PlainImage, NEW c, c \notin NotRun, NEW i, Named(Word(c), i),
           Entries[i].inode \in DOMAIN Program
    PROVE  LET program == Program[Entries[i].inode] IN
           /\ program = "ls" => Meaning(c) = LsUpTo(Len(Entries))
           /\ program = "cat" /\ Rest(c) = <<>> => Meaning(c) = <<"could not read arguments">>
           /\ program = "cat" /\ Rest(c) # <<>> =>
                 /\ ~Found(Rest(c)) => Meaning(c) = <<"file not found">>
                 /\ \A j : Named(Rest(c), j) => Meaning(c) = Held(j) \o <<>>
           /\ program = "grep" /\ Rest(c) = <<>> => Meaning(c) = <<"could not read argument">>
           /\ program = "grep" /\ Rest(c) # <<>> => Meaning(c) = GrepUpTo(Len(Entries), Rest(c))
<1>. DEFINE e == Numbered(Word(c))
            arg == Numbered(Rest(c))
            program == Program[Entries[i].inode]
            All == FlattenSeq([j \in DOMAIN Entries |-> Append(Entries[j].name, NL)])
            Grep == FlattenSeq([j \in DOMAIN Entries |->
                          IF Entries[j].type = "file" THEN GrepOf(j, Rest(c)) \o Failure(j) ELSE <<>>])
            Cat == LET j == CHOOSE j \in arg : TRUE IN Held(j) \o Failure(j)
<1>1. e = {i} /\ (CHOOSE j \in e : TRUE) = i
  BY OneNumbered
<1>2. c \notin {<<>>, <<"e", "x", "i", "t">>}
  BY DEF NotRun
<1>3. Meaning(c) = CASE program = "ls" -> All
                     [] program = "cat" ->
                           IF Rest(c) = <<>> THEN <<"could not read arguments">>
                           ELSE IF arg = {} THEN <<"file not found">>
                           ELSE Cat
                     [] program = "grep" ->
                           IF Rest(c) = <<>> THEN <<"could not read argument">>
                           ELSE Grep
  <2>1. ~(e = {} \/ Entries[CHOOSE j \in e : TRUE].inode \notin DOMAIN Program)
    BY <1>1
  <2>2. Entries[CHOOSE j \in e : TRUE].inode = Entries[i].inode
    BY <1>1
  <2>. QED
    BY <1>2, <2>1, <2>2, Zenon DEF Meaning
<1>. HIDE DEF All, Grep, Cat
<1>4. All = LsUpTo(Len(Entries))
  <2>. DEFINE g == [j \in DOMAIN Entries |-> Append(Entries[j].name, NL)]
  <2>1. Joined([j \in DOMAIN Entries |-> g[j]], Len(Entries)) = FlattenSeq([j \in DOMAIN Entries |-> g[j]])
    BY JoinedAll
  <2>2. [j \in DOMAIN Entries |-> g[j]] = g
    OBVIOUS
  <2>. QED
    BY <2>1, <2>2 DEF LsUpTo, All
<1>5. Grep = GrepUpTo(Len(Entries), Rest(c))
  <2>. DEFINE g == [j \in DOMAIN Entries |-> FoundIn(j, Rest(c))]
  <2>1. Joined([j \in DOMAIN Entries |-> g[j]], Len(Entries)) = FlattenSeq([j \in DOMAIN Entries |-> g[j]])
    BY JoinedAll
  <2>2. [j \in DOMAIN Entries |-> g[j]] = g
    OBVIOUS
  <2>. QED
    BY <2>1, <2>2 DEF GrepUpTo, Grep, FoundIn
<1>6. ~Found(Rest(c)) => arg = {}
  BY FoundNamed, NoneNumbered
<1>7. ASSUME NEW j, Named(Rest(c), j) PROVE arg # {} /\ Cat = Held(j) \o <<>>
  <2>1. arg = {j} /\ (CHOOSE k \in arg : TRUE) = j
    BY <1>7, OneNumbered
  <2>2. Failure(j) = <<>>
    BY <1>7, NothingFails DEF Named
  <2>. QED
    BY <2>1, <2>2 DEF Cat
<1>. HIDE DEF program, arg
<1>8. program = "ls" => Meaning(c) = All
  BY <1>3
<1>9. program = "cat" => Meaning(c) = IF Rest(c) = <<>> THEN <<"could not read arguments">>
                                      ELSE IF arg = {} THEN <<"file not found">>
                                      ELSE Cat
  BY <1>3
<1>10. program = "grep" => Meaning(c) = IF Rest(c) = <<>> THEN <<"could not read argument">>
                                        ELSE Grep
  BY <1>3
<1>. QED
  BY <1>4, <1>5, <1>6, <1>7, <1>8, <1>9, <1>10 DEF program

LEMMA NotRunMeans == \A c \in NotRun : Meaning(c) = <<>>
BY DEF NotRun, Meaning
-----------------------------------------------------------------------------
(***************************************************************************)
(* The lines of a text that have another text in them.                     *)
(***************************************************************************)

\* What a line that begins at a place adds, and what its lines from a place on do.
LineAt(i, s, a) ==
    LET text == Held(i)
        b == {e \in a .. Len(text) : IsLine(text, a, e) /\ Has(text, a, e, s)}
    IN  IF b = {} THEN <<>>
        ELSE Entries[i].name \o <<":">> \o SubSeq(text, a, CHOOSE e \in b : TRUE) \o <<NL>>

GoesBackTo(L, f, g) ==
    f = [a \in 1 .. L + 1 |-> IF a > L THEN <<>> ELSE g[a] \o f[a + 1]]

LEMMA GoesBackExists ==
    ASSUME NEW L \in Nat, NEW g
    PROVE  \E f : GoesBackTo(L, f, g)
<1>. DEFINE Value(f, a) == IF a > L THEN <<>> ELSE g[a] \o f[a + 1]
            Right(f, k) == \A a \in 1 .. L + 1 : a > L - k => f[a] = Value(f, a)
            T == {k \in Nat : \E f : Right(f, k)}
<1>1. 0 \in T
  <2>. DEFINE f == [a \in 1 .. L + 1 |-> <<>>]
  <2>1. Right(f, 0)
    OBVIOUS
  <2>. QED
    BY <2>1
<1>2. ASSUME NEW k \in T
      PROVE  k + 1 \in T
  <2>1. k \in Nat /\ k + 1 \in Nat
    OBVIOUS
  <2>2. PICK f : Right(f, k)
    OBVIOUS
  <2>. DEFINE h == [a \in 1 .. L + 1 |-> IF a > L - k THEN f[a] ELSE Value(f, a)]
  <2>3. ASSUME NEW a \in 1 .. L + 1, a > L - (k + 1) PROVE h[a] = Value(h, a)
    <3>1. h[a] = Value(f, a)
      BY <2>2
    <3>2. a <= L => h[a + 1] = f[a + 1]
      BY <2>1, <2>3
    <3>. HIDE DEF h
    <3>3. Value(h, a) = Value(f, a)
      BY <3>2
    <3>. QED
      BY <3>1, <3>3
  <2>. HIDE DEF h, Value
  <2>4. Right(h, k + 1)
    BY <2>3
  <2>. QED
    BY <2>1, <2>4
<1>3. T = Nat
  <2>. HIDE DEF T
  <2>1. T \subseteq Nat
    BY DEF T
  <2>. QED
    BY <1>1, <1>2, <2>1, InductiveSetIsNat
<1>4. PICK f : Right(f, L)
  BY <1>3
<1>5. \A a \in 1 .. L + 1 : a > L - L /\ f[a] = Value(f, a)
  <2>1. \A a \in 1 .. L + 1 : a > L - L
    OBVIOUS
  <2>. HIDE DEF Value
  <2>. QED
    BY <1>4, <2>1
<1>. DEFINE h == [a \in 1 .. L + 1 |-> f[a]]
<1>6. \A a \in 1 .. L + 1 : Value(h, a) = Value(f, a)
  <2>1. \A a \in 1 .. L + 1 : a <= L => h[a + 1] = f[a + 1]
    OBVIOUS
  <2>. HIDE DEF h
  <2>. QED
    BY <2>1
<1>7. h = [a \in 1 .. L + 1 |-> Value(h, a)]
  <2>1. \A a \in 1 .. L + 1 : h[a] = f[a]
    OBVIOUS
  <2>2. h = [a \in 1 .. L + 1 |-> h[a]]
    OBVIOUS
  <2>. HIDE DEF h, Value
  <2>. QED
    BY <1>5, <1>6, <2>1, <2>2
<1>8. GoesBackTo(L, h, g)
  <2>. HIDE DEF h
  <2>. QED
    BY <1>7 DEF GoesBackTo
<1>. QED
  BY <1>8

LEMMA LinesGoBack ==
    ASSUME NEW i, NEW s, Held(i) \in Seq(Bytes)
    PROVE  LET From == LinesFrom(i, s)
               L == Len(Held(i))
           IN  /\ From[L + 1] = <<>>
               /\ \A a \in 1 .. L : From[a] = LineAt(i, s, a) \o From[a + 1]
<1>. DEFINE L == Len(Held(i))
            g == [a \in 1 .. L + 1 |-> LineAt(i, s, a)]
            Right(f) == f = [a \in 1 .. L + 1 |-> IF a > L THEN <<>> ELSE LineAt(i, s, a) \o f[a + 1]]
            From == LinesFrom(i, s)
<1>1. L \in Nat
  OBVIOUS
<1>2. PICK f : GoesBackTo(L, f, g)
  <2>. HIDE DEF g, L
  <2>. QED
    BY <1>1, GoesBackExists
<1>3. \A a \in 1 .. L + 1 : g[a] = LineAt(i, s, a)
  OBVIOUS
<1>4. Right(f)
  <2>. HIDE DEF g, L
  <2>1. f = [a \in 1 .. L + 1 |-> IF a > L THEN <<>> ELSE g[a] \o f[a + 1]]
    BY <1>2 DEF GoesBackTo
  <2>. QED
    BY <1>3, <2>1
<1>5. From = CHOOSE h : Right(h)
  BY DEF LinesFrom, LineAt
<1>6. Right(From)
  <2>. HIDE DEF Right
  <2>. QED
    BY <1>4, <1>5
<1>7. \A a \in 1 .. L + 1 : From[a] = IF a > L THEN <<>> ELSE LineAt(i, s, a) \o From[a + 1]
  <2>. HIDE DEF From, L
  <2>. QED
    BY <1>6
<1>8. L + 1 \in 1 .. L + 1 /\ L + 1 > L /\ \A a \in 1 .. L : a \in 1 .. L + 1 /\ ~(a > L)
  BY <1>1
<1>. HIDE DEF From, L
<1>9. From[L + 1] = <<>> /\ \A a \in 1 .. L : From[a] = LineAt(i, s, a) \o From[a + 1]
  BY <1>7, <1>8
<1>. QED
  BY <1>9 DEF From, L

\* A line that begins at a place ends at one place.
LEMMA LineAtIs ==
    ASSUME NEW i \in DOMAIN Entries, NEW s, Held(i) \in Seq(Bytes),
           NEW a \in 1 .. Len(Held(i))
    PROVE  /\ \A b \in a .. Len(Held(i)) : IsLine(Held(i), a, b) =>
                 LineAt(i, s, a) =
                    IF Has(Held(i), a, b, s)
                    THEN Entries[i].name \o <<":">> \o SubSeq(Held(i), a, b) \o <<NL>>
                    ELSE <<>>
           /\ Held(i)[a] = NL \/ (a # 1 /\ Held(i)[a - 1] # NL) => LineAt(i, s, a) = <<>>
           /\ LineAt(i, s, a) \in Seq(Bytes)
<1>1. PICK text \in Seq(Bytes) : text = Held(i)
  OBVIOUS
<1>2. a \in 1 .. Len(text)
  BY <1>1
<1>. DEFINE ends == {e \in a .. Len(text) : IsLine(text, a, e) /\ Has(text, a, e, s)}
            Line(b) == Entries[i].name \o <<":">> \o SubSeq(text, a, b) \o <<NL>>
<1>3. LineAt(i, s, a) = IF ends = {} THEN <<>> ELSE Line(CHOOSE e \in ends : TRUE)
  BY <1>1 DEF LineAt
<1>4. ASSUME NEW b \in a .. Len(text), IsLine(text, a, b),
             NEW e \in a .. Len(text), IsLine(text, a, e)
      PROVE  e = b
  <2>1. \A p \in a .. b : text[p] # NL
    BY <1>4 DEF IsLine
  <2>2. \A p \in a .. e : text[p] # NL
    BY <1>4 DEF IsLine
  <2>3. b = Len(text) \/ text[b + 1] = NL
    BY <1>4 DEF IsLine
  <2>4. e = Len(text) \/ text[e + 1] = NL
    BY <1>4 DEF IsLine
  <2>5. CASE e < b
    <3>1. e + 1 \in a .. b
      BY <1>2, <2>5
    <3>. QED
      BY <2>1, <2>4, <2>5, <3>1
  <2>6. CASE b < e
    <3>1. b + 1 \in a .. e
      BY <1>2, <2>6
    <3>. QED
      BY <2>2, <2>3, <2>6, <3>1
  <2>. QED
    BY <1>2, <2>5, <2>6
<1>. HIDE DEF Line
<1>5. ASSUME NEW b \in a .. Len(text), IsLine(text, a, b)
      PROVE  LineAt(i, s, a) = IF Has(text, a, b, s) THEN Line(b) ELSE <<>>
  <2>1. CASE Has(text, a, b, s)
    <3>1. ends = {b}
      BY <1>4, <1>5, <2>1
    <3>2. (CHOOSE e \in ends : TRUE) = b
      BY <3>1
    <3>. QED
      BY <1>3, <2>1, <3>1, <3>2
  <2>2. CASE ~Has(text, a, b, s)
    <3>1. ends = {}
      BY <1>4, <1>5, <2>2
    <3>. QED
      BY <1>3, <2>2, <3>1
  <2>. QED
    BY <2>1, <2>2
<1>6. ASSUME text[a] = NL \/ (a # 1 /\ text[a - 1] # NL)
      PROVE  LineAt(i, s, a) = <<>>
  <2>1. \A e \in a .. Len(text) : a \in a .. e
    BY <1>2
  <2>2. ends = {}
    BY <1>6, <2>1 DEF IsLine
  <2>. QED
    BY <1>3, <2>2
<1>7. \A b \in a .. Len(text) : Line(b) \in Seq(Bytes)
  <2>. SUFFICES ASSUME NEW b \in a .. Len(text) PROVE Line(b) \in Seq(Bytes)
    OBVIOUS
  <2>1. b \in Int /\ b <= Len(text) /\ a \in Nat \ {0}
    BY <1>2
  <2>2. SubSeq(text, a, b) \in Seq(Bytes)
    BY <2>1, PartType
  <2>3. Entries[i].name \in Seq(Bytes)
    BY EntryTypes
  <2>. QED
    BY <2>2, <2>3, Outputs DEF Line
<1>8. LineAt(i, s, a) \in Seq(Bytes)
  <2>1. ends # {} => (CHOOSE e \in ends : TRUE) \in a .. Len(text)
    OBVIOUS
  <2>. HIDE DEF ends
  <2>. QED
    BY <1>3, <1>7, <2>1, Outputs
<1>. QED
  BY <1>1, <1>5, <1>6, <1>8 DEF Line

LEMMA LinesType ==
    ASSUME NEW i \in DOMAIN Entries, NEW s, Held(i) \in Seq(Bytes)
    PROVE  \A a \in 1 .. Len(Held(i)) + 1 : LinesFrom(i, s)[a] \in Seq(Bytes)
<1>. DEFINE L == Len(Held(i))
            From == LinesFrom(i, s)
            T == {k \in Nat : \A a \in 1 .. L + 1 : a > L - k => From[a] \in Seq(Bytes)}
<1>1. L \in Nat
  OBVIOUS
<1>2. From[L + 1] = <<>> /\ \A a \in 1 .. L : From[a] = LineAt(i, s, a) \o From[a + 1]
  BY LinesGoBack
<1>3. \A a \in 1 .. L : LineAt(i, s, a) \in Seq(Bytes)
  BY LineAtIs
<1>. HIDE DEF L, From
<1>4. 0 \in T
  <2>1. \A a \in 1 .. L + 1 : a > L - 0 => a = L + 1
    BY <1>1
  <2>. QED
    BY <1>2, <2>1, Outputs
<1>5. ASSUME NEW k \in T
      PROVE  k + 1 \in T
  <2>1. k \in Nat /\ k + 1 \in Nat
    OBVIOUS
  <2>2. ASSUME NEW a \in 1 .. L + 1, a > L - (k + 1) PROVE From[a] \in Seq(Bytes)
    <3>1. CASE a = L + 1
      BY <1>2, <3>1, Outputs
    <3>2. CASE a # L + 1
      <4>1. a \in 1 .. L /\ a + 1 \in 1 .. L + 1 /\ a + 1 > L - k
        BY <1>1, <2>1, <2>2, <3>2
      <4>2. From[a + 1] \in Seq(Bytes)
        BY <4>1
      <4>. QED
        BY <1>2, <1>3, <4>1, <4>2, ConcatProperties, ZenonT(30)
    <3>. QED
      BY <3>1, <3>2
  <2>. QED
    BY <2>1, <2>2
<1>6. T = Nat
  <2>. HIDE DEF T
  <2>1. T \subseteq Nat
    BY DEF T
  <2>. QED
    BY <1>4, <1>5, <2>1, InductiveSetIsNat
<1>7. L \in T
  <2>. HIDE DEF T
  <2>. QED
    BY <1>1, <1>6
<1>8. \A a \in 1 .. L + 1 : a > L - L
  BY <1>1
<1>. QED
  BY <1>7, <1>8 DEF From, L

\* Inside a line, and at a newline, no line begins.
LEMMA LinesSkip ==
    ASSUME NEW i \in DOMAIN Entries, NEW s, Held(i) \in Seq(Bytes),
           NEW a \in 1 .. Len(Held(i)),
           Held(i)[a] = NL \/ (a # 1 /\ Held(i)[a - 1] # NL)
    PROVE  LinesFrom(i, s)[a] = LinesFrom(i, s)[a + 1]
<1>1. LinesFrom(i, s)[a] = LineAt(i, s, a) \o LinesFrom(i, s)[a + 1]
  BY LinesGoBack
<1>2. LineAt(i, s, a) = <<>>
  BY LineAtIs
<1>3. a + 1 \in 1 .. Len(Held(i)) + 1
  OBVIOUS
<1>4. LinesFrom(i, s)[a + 1] \in Seq(Bytes)
  BY <1>3, LinesType
<1>. QED
  BY <1>1, <1>2, <1>4, ConcatEmptySeq

LEMMA LinesOfOne ==
    ASSUME NEW i \in DOMAIN Entries, NEW s, Held(i) \in Seq(Bytes),
           NEW a \in 1 .. Len(Held(i)), NEW b \in a .. Len(Held(i)), IsLine(Held(i), a, b)
    PROVE  LinesFrom(i, s)[a] =
              (IF Has(Held(i), a, b, s)
               THEN Entries[i].name \o <<":">> \o SubSeq(Held(i), a, b) \o <<NL>>
               ELSE <<>>) \o LinesFrom(i, s)[b + 1]
<1>. DEFINE L == Len(Held(i))
            From == LinesFrom(i, s)
            text == Held(i)
            T == {k \in Nat : a + 1 + k <= b + 1 => From[a + 1] = From[a + 1 + k]}
<1>1. L \in Nat /\ a \in Nat /\ b \in Nat
  OBVIOUS
<1>2. From[a] = LineAt(i, s, a) \o From[a + 1]
  BY LinesGoBack
<1>3. \A p \in a .. b : text[p] # NL
  BY DEF IsLine
<1>4. \A c \in 1 .. L : c # 1 /\ text[c - 1] # NL => From[c] = From[c + 1]
  BY LinesSkip
<1>. HIDE DEF From, L, text
<1>5. 0 \in T
  BY <1>1
<1>6. ASSUME NEW k \in T
      PROVE  k + 1 \in T
  <2>1. k \in Nat /\ k + 1 \in Nat
    OBVIOUS
  <2>2. ASSUME a + 1 + (k + 1) <= b + 1 PROVE From[a + 1] = From[a + 1 + (k + 1)]
    <3>1. PICK c : c = a + 1 + k
      OBVIOUS
    <3>2. c \in 1 .. L /\ c # 1 /\ c - 1 \in a .. b /\ c + 1 = a + 1 + (k + 1) /\ c <= b + 1
      BY <1>1, <2>1, <2>2, <3>1 DEF L
    <3>3. From[c] = From[c + 1]
      BY <1>3, <1>4, <3>2
    <3>. QED
      BY <3>1, <3>2, <3>3
  <2>. QED
    BY <2>1, <2>2
<1>7. T = Nat
  <2>. HIDE DEF T
  <2>1. T \subseteq Nat
    BY DEF T
  <2>. QED
    BY <1>5, <1>6, <2>1, InductiveSetIsNat
<1>8. b - a \in Nat /\ a + 1 + (b - a) = b + 1
  BY <1>1
<1>9. From[a + 1] = From[b + 1]
  <2>1. b - a \in T
    BY <1>7, <1>8
  <2>. QED
    BY <1>1, <1>8, <2>1
<1>10. LineAt(i, s, a) = IF Has(text, a, b, s)
                         THEN Entries[i].name \o <<":">> \o SubSeq(text, a, b) \o <<NL>>
                         ELSE <<>>
  BY LineAtIs DEF text
<1>. QED
  BY <1>2, <1>9, <1>10 DEF From, text
-----------------------------------------------------------------------------
(***************************************************************************)
(* A text in grep's buffer.                                                *)
(***************************************************************************)

LEMMA PartOfPart ==
    ASSUME NEW S, NEW c \in Seq(S), NEW a \in Nat, NEW m \in Nat, a + m <= Len(c),
           NEW b \in Nat, NEW n \in Nat, b + n <= m
    PROVE  SubSeq(SubSeq(c, a + 1, a + m), b + 1, b + n) = SubSeq(c, a + b + 1, a + b + n)
<1>. DEFINE d == SubSeq(c, a + 1, a + m)
            e == SubSeq(d, b + 1, b + n)
            f == SubSeq(c, a + b + 1, a + b + n)
<1>1. d \in Seq(S) /\ Len(d) = m /\ \A k \in 1 .. m : d[k] = c[a + k]
  BY PartFrom
<1>2. b + n <= Len(d)
  BY <1>1
<1>3. e \in Seq(S) /\ Len(e) = n /\ \A k \in 1 .. n : e[k] = d[b + k]
  <2>. HIDE DEF d
  <2>. QED
    BY <1>1, <1>2, PartFrom
<1>4. PICK x \in Nat : x = a + b
  OBVIOUS
<1>5. x + n <= Len(c)
  BY <1>4
<1>6. /\ SubSeq(c, x + 1, x + n) \in Seq(S) /\ Len(SubSeq(c, x + 1, x + n)) = n
      /\ \A k \in 1 .. n : SubSeq(c, x + 1, x + n)[k] = c[x + k]
  BY <1>5, PartFrom
<1>7. f \in Seq(S) /\ Len(f) = n /\ \A k \in 1 .. n : f[k] = c[x + k]
  BY <1>4, <1>6
<1>8. \A k \in 1 .. n : b + k \in 1 .. m /\ a + (b + k) = x + k
  BY <1>4
<1>. HIDE DEF d, e, f
<1>9. \A k \in 1 .. n : e[k] = f[k]
  BY <1>1, <1>3, <1>7, <1>8
<1>10. e = f
  BY <1>3, <1>7, <1>9, SeqEqual
<1>. QED
  BY <1>10 DEF d, e, f

LEMMA WithoutNUL ==
    ASSUME NEW c \in Seq(Bytes), \A i \in 1 .. Len(c) : c[i] # NUL
    PROVE  Text(c) = c
<1>1. Len(c) \in 0 .. Len(c)
  OBVIOUS
<1>2. Text(c) = SubSeq(c, 1, Len(c))
  BY <1>1, TextType
<1>. QED
  BY <1>2, SubSeqFull

\* A line matches when it has the text in it.
LEMMA MatchesHas ==
    ASSUME NEW text \in Seq(Bytes), NEW s \in Seq(Bytes), s # <<>>,
           NEW a \in Nat, NEW m \in Nat, a + m <= Len(text)
    PROVE  Matches(SubSeq(text, a + 1, a + m), s) <=> Has(text, a + 1, a + m, s)
<1>. DEFINE line == SubSeq(text, a + 1, a + m)
            n == Len(s)
<1>1. line \in Seq(Bytes) /\ Len(line) = m
  BY PartFrom
<1>2. n \in Nat \ {0}
  BY EmptySeq
<1>3. SubSeq(s, 1, n) = s
  BY SubSeqFull
<1>. HIDE DEF n
<1>4. ASSUME NEW k \in 0 .. m - 1
      PROVE  IsPrefix(s, SubSeq(line, k + 1, m))
                <=> /\ (a + k + 1) + n - 1 <= a + m
                    /\ SubSeq(text, a + k + 1, (a + k + 1) + n - 1) = s
  <2>1. k \in Nat /\ m - k \in Nat /\ k + (m - k) = m /\ k + (m - k) <= Len(line)
    BY <1>1
  <2>. DEFINE tail == SubSeq(line, k + 1, m)
  <2>2. tail \in Seq(Bytes) /\ Len(tail) = m - k
    <3>1. /\ SubSeq(line, k + 1, k + (m - k)) \in Seq(Bytes)
          /\ Len(SubSeq(line, k + 1, k + (m - k))) = m - k
      <4>. HIDE DEF line
      <4>. QED
        BY <1>1, <2>1, PartFrom
    <3>. QED
      BY <2>1, <3>1
  <2>3. IsPrefix(s, tail) <=> n <= m - k /\ SubSeq(s, 1, n) = SubSeq(tail, 1, n)
    <3>. HIDE DEF tail
    <3>. QED
      BY <1>2, <2>1, <2>2 DEF IsPrefix, n
  <2>4. ASSUME n <= m - k
        PROVE  SubSeq(tail, 1, n) = SubSeq(text, a + k + 1, (a + k + 1) + n - 1)
    <3>1. tail = SubSeq(text, a + k + 1, a + k + (m - k))
      <4>1. SubSeq(SubSeq(text, a + 1, a + m), k + 1, k + (m - k))
              = SubSeq(text, a + k + 1, a + k + (m - k))
        <5>1. k + (m - k) <= m
          BY <2>1
        <5>. QED
          BY <2>1, <5>1, PartOfPart
      <4>. QED
        BY <2>1, <4>1
    <3>2. PICK x \in Nat : x = a + k
      BY <2>1
    <3>3. PICK y \in Nat : y = m - k
      BY <2>1
    <3>4. x + y <= Len(text) /\ 0 + n <= y /\ n \in Nat /\ 0 \in Nat
      BY <1>2, <2>1, <2>4, <3>2, <3>3
    <3>5. SubSeq(SubSeq(text, x + 1, x + y), 0 + 1, 0 + n) = SubSeq(text, x + 0 + 1, x + 0 + n)
      BY <3>4, PartOfPart
    <3>6. /\ 0 + 1 = 1 /\ 0 + n = n /\ x + 0 + 1 = a + k + 1
          /\ x + 0 + n = (a + k + 1) + n - 1 /\ x + y = a + k + (m - k)
      BY <1>2, <2>1, <3>2, <3>3
    <3>7. tail = SubSeq(text, x + 1, x + y)
      BY <3>1, <3>2, <3>6
    <3>. QED
      BY <3>5, <3>6, <3>7
  <2>5. n <= m - k <=> (a + k + 1) + n - 1 <= a + m
    BY <1>2, <2>1
  <2>. HIDE DEF tail
  <2>6. IsPrefix(s, tail) <=> /\ (a + k + 1) + n - 1 <= a + m
                              /\ SubSeq(text, a + k + 1, (a + k + 1) + n - 1) = s
    BY <1>3, <2>3, <2>4, <2>5
  <2>. QED
    BY <2>6 DEF tail
<1>. HIDE DEF line
<1>5. Matches(line, s) <=> \E i \in 1 .. m : IsPrefix(s, SubSeq(line, i, m))
  BY <1>1 DEF Matches
<1>6. Has(text, a + 1, a + m, s)
        <=> \E p \in a + 1 .. a + m : p + n - 1 <= a + m /\ SubSeq(text, p, p + n - 1) = s
  BY DEF Has, n
<1>7. ASSUME NEW i \in 1 .. m, IsPrefix(s, SubSeq(line, i, m))
      PROVE  Has(text, a + 1, a + m, s)
  <2>1. PICK k \in 0 .. m - 1 : k = i - 1 /\ k + 1 = i
    OBVIOUS
  <2>2. IsPrefix(s, SubSeq(line, k + 1, m))
    BY <1>7, <2>1
  <2>3. a + k + 1 \in a + 1 .. a + m
    OBVIOUS
  <2>. QED
    BY <1>4, <1>6, <2>2, <2>3
<1>8. ASSUME NEW p \in a + 1 .. a + m, p + n - 1 <= a + m, SubSeq(text, p, p + n - 1) = s
      PROVE  Matches(line, s)
  <2>1. PICK k \in 0 .. m - 1 : k = p - a - 1 /\ a + k + 1 = p
    OBVIOUS
  <2>2. IsPrefix(s, SubSeq(line, k + 1, m))
    BY <1>4, <1>8, <2>1
  <2>3. k + 1 \in 1 .. m
    OBVIOUS
  <2>. QED
    BY <1>5, <2>2, <2>3
<1>9. Matches(line, s) <=> Has(text, a + 1, a + m, s)
  BY <1>5, <1>6, <1>7, <1>8
<1>. QED
  BY <1>9 DEF line
-----------------------------------------------------------------------------
(***************************************************************************)
(* What a program has printed, at every step.                              *)
(***************************************************************************)

LEMMA AskedStays ==
    ASSUME Answers, asked' = asked, pc # "prompt", Answerable(asked) => Answered'
    PROVE  Answers'
BY DEF Answers

LEMMA EndsAnswers ==
    ASSUME ProgramsInv, Answers, NEW status, NEW text \in Seq(Output), Ends(status, text),
           pc # "prompt", Answerable(asked) => printed \o text = Meaning(asked)
    PROVE  Answers'
<1>1. printed' = printed \o text
  BY InvOfPrograms, EndsPrints
<1>2. pc' = "prompt" /\ prog' = "shell" /\ asked' = asked /\ ~alive'
  BY DEF Ends, Halt
<1>3. ASSUME Answerable(asked) PROVE Answered'
  BY <1>1, <1>2, <1>3 DEF Answered
<1>. QED
  BY <1>2, <1>3, AskedStays

LEMMA ShellReadsAnswers ==
    ASSUME ProgramsInv, Answers, PlainInput, ShellReads
    PROVE  Answers'
<1>1. PICK l \in Lines : /\ pc = "prompt" /\ asked' = Chopped(l) /\ printed' = <<>>
                         /\ pc' = IF asked' \in NotRun THEN "prompt" ELSE "execute"
                         /\ prog' = prog /\ alive' = alive
  BY DEF ShellReads, NotRun, vars
<1>2. l \in Seq(Bytes) /\ NUL \notin Range(l)
  BY ProgramsAssumption DEF PlainInput
<1>3. NUL \notin Range(Chopped(l))
  <2>1. CASE Chopped(l) = l
    BY <1>2, <2>1
  <2>2. CASE Chopped(l) # l
    <3>1. l # <<>> /\ Chopped(l) = SubSeq(l, 1, Len(l) - 1)
      BY <2>2 DEF Chopped, Front
    <3>2. PICK m \in Nat : m = Len(l) - 1 /\ 0 + m <= Len(l)
      BY <1>2, <3>1, EmptySeq
    <3>3. /\ SubSeq(l, 0 + 1, 0 + m) \in Seq(Bytes) /\ Len(SubSeq(l, 0 + 1, 0 + m)) = m
          /\ \A k \in 1 .. m : SubSeq(l, 0 + 1, 0 + m)[k] = l[0 + k]
      BY <1>2, <3>2, PartFrom
    <3>4. 0 + 1 = 1 /\ 0 + m = m /\ \A k \in 1 .. m : 0 + k = k /\ k \in 1 .. Len(l)
      BY <1>2, <3>2
    <3>5. /\ Chopped(l) \in Seq(Bytes) /\ Len(Chopped(l)) = m
          /\ \A k \in 1 .. m : Chopped(l)[k] = l[k]
      BY <3>1, <3>2, <3>3, <3>4
    <3>6. \A k \in 1 .. Len(l) : l[k] # NUL
      BY <1>2 DEF Range
    <3>7. \A k \in DOMAIN Chopped(l) : Chopped(l)[k] # NUL
      BY <3>4, <3>5, <3>6
    <3>. QED
      BY <3>7 DEF Range
  <2>. QED
    BY <2>1, <2>2
<1>4. ~alive' /\ prog' = "shell"
  BY <1>1, InvOfPrograms DEF Places
<1>5. pc' = "prompt" => printed' = Meaning(asked')
  BY <1>1, NotRunMeans
<1>6. Answered'
  BY <1>1, <1>4, <1>5 DEF Answered
<1>. QED
  BY <1>1, <1>3, <1>6 DEF Answers

LEMMA ExecuteFailsAnswers ==
    ASSUME ProgramsInv, Answers, PlainImage, ExecuteFails
    PROVE  Answers'
<1>1. /\ pc = "execute" /\ printed' = Says(-1) /\ pc' = "prompt"
      /\ prog' = prog /\ asked' = asked /\ alive' = alive
      /\ \A i \in DOMAIN Entries : IsEntry(i, FileName(asked)) => ~IsExecutable(i)
  BY DEF ExecuteFails, vars
<1>2. asked \notin NotRun /\ NUL \notin Range(asked) /\ asked \in Seq(Bytes)
  BY <1>1, InvOfPrograms DEF Answers
<1>3. ~alive /\ prog = "shell"
  BY <1>1, InvOfPrograms DEF Places
<1>4. ASSUME Answerable(asked) PROVE Answered'
  <2>1. FileName(asked) = Word(asked)
    BY <1>2, <1>4, Parsed DEF Answerable
  <2>2. \A i \in DOMAIN Entries : Named(Word(asked), i) => Entries[i].inode \notin DOMAIN Program
    BY <1>1, <2>1, EntryNamed DEF PlainImage
  <2>3. Meaning(asked) = <<"no such command">>
    BY <1>2, <2>2, NoCommandMeans
  <2>4. Says(-1) = <<"no such command">>
    <3>1. -1 # 0 /\ -1 # 256
      OBVIOUS
    <3>. QED
      BY <3>1, Zenon DEF Says
  <2>. QED
    BY <1>1, <1>3, <2>3, <2>4 DEF Answered
<1>. QED
  BY <1>1, <1>4, AskedStays

LEMMA ExecuteStartsAnswers ==
    ASSUME ProgramsInv, Answers, PlainImage, ExecuteStarts
    PROVE  Answers'
<1>1. PICK i \in DOMAIN Entries :
          /\ IsEntry(i, FileName(asked))
          /\ \/ IsExecutable(i) /\ prog' = Program[Entries[i].inode]
             \/ MayBeTaken(i) /\ prog' = "unknown"
  BY DEF ExecuteStarts
<1>2. /\ pc = "execute" /\ pc' = "start" /\ asked' = asked /\ printed' = printed
      /\ args' = NewArgs(args, ArgText(asked))
  BY DEF ExecuteStarts
<1>3. NUL \notin Range(asked) /\ asked \in Seq(Bytes)
      /\ args \in [1 .. MAX_ARG_LEN -> Bytes]
  BY <1>2, InvOfPrograms DEF Answers
<1>4. ASSUME Answerable(asked) PROVE Answered'
  <2>1. /\ FileName(asked) = Word(asked) /\ ArgText(asked) = Rest(asked)
        /\ Rest(asked) \in Seq(Bytes) /\ Len(Rest(asked)) <= MAX_FILENAME_LEN + 1
        /\ \A k \in 1 .. Len(Rest(asked)) : Rest(asked)[k] # NUL
        /\ \A k \in DOMAIN Entries : Named(Word(asked), k) => ~MayBeTaken(k)
    BY <1>3, <1>4, Parsed DEF Answerable
  <2>2. Named(Word(asked), i)
    BY <1>1, <2>1, EntryNamed
  <2>3. IsExecutable(i) /\ prog' = Program[Entries[i].inode]
    BY <1>1, <2>1, <2>2
  <2>4. Entries[i].inode \in DOMAIN Program
    BY <2>3, ExecutablesAssumption
  <2>5. Text(args') = Rest(asked)
    BY <1>2, <1>3, <2>1, ArgGiven
  <2>6. RunsCommand'
    BY <1>2, <2>2, <2>3, <2>4, <2>5 DEF RunsCommand
  <2>7. printed = <<>>
    BY <1>2, <1>4 DEF Answers, Answered
  <2>. QED
    BY <1>2, <2>6, <2>7 DEF Answered
<1>. QED
  BY <1>2, <1>4, AskedStays

LEMMA UnknownEndsAnswers ==
    ASSUME ProgramsInv, Answers, UnknownEnds
    PROVE  Answers'
<1>1. prog = "unknown" /\ pc # "prompt"
  BY InvOfPrograms DEF UnknownEnds, Places
<1>2. PICK status : Ends(status, <<>>)
  BY DEF UnknownEnds
<1>3. ~Answerable(asked)
  <2>. SUFFICES ASSUME Answerable(asked) PROVE FALSE
    OBVIOUS
  <2>1. RunsCommand
    BY <1>1, InvOfPrograms DEF Answers, Answered, Places
  <2>. QED
    BY <1>1, <2>1, ProgramsAssumption DEF RunsCommand
<1>. QED
  BY <1>1, <1>2, <1>3, Outputs, EndsAnswers
-----------------------------------------------------------------------------
(***************************************************************************)
(* cat and ls.                                                             *)
(***************************************************************************)

\* What is open is an entry of the name, at its first byte.
LEMMA OpenReading ==
    ASSUME PlainImage, Inv, NEW name, NEW d, Open(name), d = CHOOSE fd \in Fds : LowestVacant(fd)
    PROVE  /\ \E i \in DOMAIN Entries : Named(name, i) /\ Reading(d, i)'
           /\ d \in Above /\ fd_arr[d].flags = 0 /\ fd_arr'[d].file_pos = 0
           /\ \A fd \in Fds : fd # d => fd_arr'[fd] = fd_arr[fd]
           /\ alive' = alive /\ ret' = ret
<1>1. /\ d \in Above /\ fd_arr[d].flags = 0
      /\ \E i \in DOMAIN Entries :
            /\ IsEntry(i, name)
            /\ fd_arr'[d] = [flags |-> 1, ops |-> Entries[i].type,
                             inode |-> Entries[i].inode, file_pos |-> 0]
      /\ \A fd \in Fds : fd # d => fd_arr'[fd] = fd_arr[fd]
      /\ alive' = alive /\ ret' = ret
  BY OpenDoes
<1>2. PICK i \in DOMAIN Entries :
            /\ IsEntry(i, name)
            /\ fd_arr'[d] = [flags |-> 1, ops |-> Entries[i].type,
                             inode |-> Entries[i].inode, file_pos |-> 0]
  BY <1>1
<1>3. Named(name, i)
  BY <1>2, EntryNamed
<1>4. /\ fd_arr'[d].flags = 1 /\ fd_arr'[d].ops = Entries[i].type
      /\ fd_arr'[d].inode = Entries[i].inode /\ fd_arr'[d].file_pos = 0
  BY <1>2
<1>5. 0 <= CASE Entries[i].type = "file" -> Len(Held(i))
             [] Entries[i].type = "dir" -> Len(Entries)
             [] Entries[i].type = "rtc" -> 0
  <2>1. Entries[i].type = "file" => Len(Held(i)) >= 0
    BY HeldFile, EntryTypes
  <2>2. Len(Entries) >= 0 /\ Entries[i].type \in {"rtc", "dir", "file"}
    BY Sizes, EntryTypes
  <2>. QED
    BY <2>1, <2>2
<1>6. Reading(d, i)'
  BY <1>1, <1>4, <1>5 DEF Reading, IsOpen
<1>. QED
  BY <1>1, <1>3, <1>4, <1>6

\* A directory is read one entry at a time.
LEMMA ReadDir ==
    ASSUME Inv, NEW d, NEW i, Reading(d, i), DirRead(d)
    PROVE  LET k == fd_arr[d].file_pos IN
           /\ Entries[i].type = "dir"
           /\ Reading(d, i)'
           /\ k \in Nat
           /\ \A fd \in Fds : fd # d => fd_arr'[fd] = fd_arr[fd]
           /\ \/ /\ k + 1 \in DOMAIN Entries
                 /\ ret' = 1 /\ fd_arr'[d].file_pos = k + 1
                 /\ Taken(buf') = Entries[k + 1].name
              \/ /\ k = Len(Entries)
                 /\ ret' = 0 /\ fd_arr'[d].file_pos = k
<1>. DEFINE k == fd_arr[d].file_pos
<1>1. /\ i \in DOMAIN Entries /\ d \in Above /\ d \in Fds /\ k \in Nat
      /\ fd_arr[d].flags = 1 /\ fd_arr[d].ops = Entries[i].type
      /\ fd_arr[d].inode = Entries[i].inode
  BY AboveFds, FieldTypes DEF Reading, IsOpen, Inv
<1>2. Entries[i].type = "dir"
  BY <1>1 DEF DirRead
<1>3. k <= Len(Entries)
  BY <1>2 DEF Reading
<1>4. CASE k >= Len(Entries)
  <2>1. k = Len(Entries) /\ ret' = 0 /\ fd_arr' = fd_arr
    BY <1>1, <1>3, <1>4, Sizes DEF DirRead
  <2>. QED
    BY <1>1, <1>2, <2>1 DEF Reading, IsOpen
<1>5. CASE k < Len(Entries)
  <2>1. /\ buf' = <<EntryName(k)>> /\ ret' = 1
        /\ fd_arr' = [fd_arr EXCEPT ![d].file_pos = k + 1]
    BY <1>5, <1>1, Sizes DEF DirRead
  <2>2. k \in 0 .. Len(Entries) - 1 /\ k + 1 \in DOMAIN Entries /\ k + 1 <= Len(Entries)
    BY <1>1, <1>5, Sizes
  <2>3. /\ fd_arr'[d].flags = 1 /\ fd_arr'[d].ops = Entries[i].type
        /\ fd_arr'[d].inode = Entries[i].inode /\ fd_arr'[d].file_pos = k + 1
        /\ \A fd \in Fds : fd # d => fd_arr'[fd] = fd_arr[fd]
    BY <1>1, <2>1, PositionOnly
  <2>4. Taken(buf') = Entries[k + 1].name
    BY <2>1, <2>2, TakenName
  <2>5. Reading(d, i)'
    BY <1>1, <1>2, <2>2, <2>3 DEF Reading, IsOpen
  <2>. HIDE DEF k
  <2>. QED
    BY <1>1, <1>2, <2>1, <2>2, <2>3, <2>4, <2>5 DEF k
<1>. QED
  BY <1>1, <1>4, <1>5, Sizes

LEMMA NamesNext ==
    ASSUME NEW k \in Nat, k + 1 \in DOMAIN Entries
    PROVE  /\ NamesUpTo(k + 1) = NamesUpTo(k) \o Entries[k + 1].name
           /\ LsUpTo(k + 1) = LsUpTo(k) \o (Entries[k + 1].name \o <<NL>>)
           /\ LsUpTo(k) \in Seq(Bytes)
<1>. DEFINE g == [j \in DOMAIN Entries |-> Entries[j].name]
            h == [j \in DOMAIN Entries |-> Append(Entries[j].name, NL)]
<1>1. \A j \in 1 .. k + 1 : j \in DOMAIN Entries
  BY Sizes
<1>2. \A j \in 1 .. k + 1 : g[j] = Entries[j].name /\ g[j] \in Seq(Bytes)
  BY <1>1, EntryTypes
<1>3. \A j \in 1 .. k + 1 : h[j] = Entries[j].name \o <<NL>> /\ h[j] \in Seq(Bytes)
  <2>. SUFFICES ASSUME NEW j \in 1 .. k + 1
                PROVE  h[j] = Entries[j].name \o <<NL>> /\ h[j] \in Seq(Bytes)
    OBVIOUS
  <2>1. Entries[j].name \in Seq(Bytes) /\ NL \in Bytes
    BY <1>1, EntryTypes, ProgramsAssumption
  <2>2. /\ Append(Entries[j].name, NL) = Entries[j].name \o <<NL>>
        /\ Append(Entries[j].name, NL) \in Seq(Bytes)
    BY <2>1, AppendIsConcat, AppendProperties
  <2>. QED
    BY <1>1, <2>2
<1>. HIDE DEF g, h
<1>4. Joined(g, k + 1) = Joined(g, k) \o g[k + 1]
  BY <1>2, JoinedNext
<1>5. Joined(h, k + 1) = Joined(h, k) \o h[k + 1]
  BY <1>3, JoinedNext
<1>6. Joined(h, k) \in Seq(Bytes)
  <2>1. k + 1 \in Nat /\ k \in 0 .. k + 1
    OBVIOUS
  <2>2. \A n \in 0 .. k + 1 : Joined(h, n) \in Seq(Bytes)
    BY <1>3, <2>1, JoinedType
  <2>. QED
    BY <2>1, <2>2
<1>7. k + 1 \in 1 .. k + 1
  OBVIOUS
<1>. QED
  BY <1>2, <1>3, <1>4, <1>5, <1>6, <1>7 DEF NamesUpTo, LsUpTo, g, h

LEMMA PartsJoin ==
    ASSUME NEW S, NEW c \in Seq(S), NEW a \in Nat, NEW m \in Nat, a + m <= Len(c)
    PROVE  SubSeq(c, 1, a) \o SubSeq(c, a + 1, a + m) = SubSeq(c, 1, a + m)
<1>1. /\ 1 \in 1 .. Len(c) + 1 /\ a \in 1 - 1 .. Len(c) /\ a + m \in a .. Len(c)
  OBVIOUS
<1>. QED
  BY <1>1, ConcatAdjacentSubSeq

LEMMA CatReads ==
    ASSUME PlainImage, Inv, NEW d, NEW i, Reading(d, i), Reads(d, BUFSIZE)
    PROVE  /\ Reading(d, i)' /\ ret' \in Nat
           /\ ret' > 0 => CatUpTo(i, fd_arr[d].file_pos) \o Taken(buf')
                            = CatUpTo(i, fd_arr'[d].file_pos)
           /\ ret' = 0 => CatUpTo(i, fd_arr[d].file_pos) = Held(i)
<1>. DEFINE pos == fd_arr[d].file_pos
<1>1. BUFSIZE \in Nat \ {0}
  BY Sizes
<1>2. i \in DOMAIN Entries /\ fd_arr[d].ops = Entries[i].type
  BY DEF Reading
<1>3. CASE Entries[i].type = "dir"
  <2>1. DirRead(d)
    BY <1>2, <1>3 DEF Reads, FileRead, ClockRead
  <2>2. /\ Reading(d, i)' /\ pos \in Nat
        /\ \/ /\ pos + 1 \in DOMAIN Entries
              /\ ret' = 1 /\ fd_arr'[d].file_pos = pos + 1
              /\ Taken(buf') = Entries[pos + 1].name
           \/ pos = Len(Entries) /\ ret' = 0 /\ fd_arr'[d].file_pos = pos
    BY <2>1, ReadDir
  <2>. HIDE DEF pos
  <2>3. CASE ret' = 1
    <3>0. PICK k \in Nat : k = pos /\ k + 1 \in DOMAIN Entries
      BY <2>2, <2>3
    <3>1. NamesUpTo(pos + 1) = NamesUpTo(pos) \o Entries[pos + 1].name
      BY <3>0, NamesNext
    <3>2. CatUpTo(i, fd_arr[d].file_pos) = NamesUpTo(pos)
      BY <1>3 DEF CatUpTo, pos
    <3>3. CatUpTo(i, fd_arr'[d].file_pos) = NamesUpTo(pos + 1)
      BY <1>3, <2>2, <2>3 DEF CatUpTo
    <3>4. ret' = 1 /\ ret' \in Nat /\ ~(ret' = 0) /\ ret' > 0
      BY <2>3
    <3>5. Reading(d, i)' /\ Taken(buf') = Entries[pos + 1].name
      BY <2>2, <3>4
    <3>. QED
      BY <3>1, <3>2, <3>3, <3>4, <3>5, Zenon
  <2>4. CASE ret' = 0
    <3>1. pos = Len(Entries)
      BY <2>2, <2>4
    <3>. DEFINE g == [j \in DOMAIN Entries |-> Entries[j].name]
    <3>2. g = [j \in DOMAIN Entries |-> g[j]]
      OBVIOUS
    <3>3. Joined([j \in DOMAIN Entries |-> g[j]], Len(Entries)) = FlattenSeq([j \in DOMAIN Entries |-> g[j]])
      BY JoinedAll
    <3>4. Held(i) = FlattenSeq(g)
      BY <1>3 DEF Held
    <3>5. NamesUpTo(pos) = Joined(g, Len(Entries))
      BY <3>1 DEF NamesUpTo
    <3>. HIDE DEF g
    <3>. QED
      BY <1>3, <2>2, <2>4, <3>2, <3>3, <3>4, <3>5 DEF CatUpTo, pos
  <2>. QED
    BY <2>2, <2>3, <2>4
<1>4. CASE Entries[i].type # "dir"
  <2>1. Entries[i].type \in {"file", "rtc"}
    BY <1>2, <1>4, EntryTypes
  <2>2. /\ Reading(d, i)'
        /\ pos \in 0 .. Len(Held(i)) /\ Len(Held(i)) \in Nat
        /\ ret' \in 0 .. BUFSIZE /\ pos + ret' <= Len(Held(i))
        /\ ret' # BUFSIZE => pos + ret' = Len(Held(i))
        /\ fd_arr'[d].file_pos = pos + ret'
        /\ Taken(buf') = SubSeq(Held(i), pos + 1, pos + ret')
    BY <1>1, <2>1, ReadHeld
  <2>3. Held(i) \in Seq(Bytes)
    BY <1>2, <2>1, HeldFile, HeldClock
  <2>4. pos \in Nat /\ ret' \in Nat
    BY <2>2
  <2>. HIDE DEF pos
  <2>5. SubSeq(Held(i), 1, pos) \o Taken(buf') = SubSeq(Held(i), 1, pos + ret')
    <3>1. PICK c \in Seq(Bytes) : c = Held(i)
      BY <2>3
    <3>2. PICK a \in Nat : a = pos
      BY <2>4
    <3>3. PICK m \in Nat : m = ret'
      BY <2>4
    <3>4. a + m <= Len(c)
      BY <2>2, <3>1, <3>2, <3>3
    <3>5. SubSeq(c, 1, a) \o SubSeq(c, a + 1, a + m) = SubSeq(c, 1, a + m)
      BY <3>4, PartsJoin
    <3>. QED
      BY <2>2, <3>1, <3>2, <3>3, <3>5
  <2>6. ret' = 0 => SubSeq(Held(i), 1, pos) = Held(i)
    <3>. SUFFICES ASSUME ret' = 0 PROVE SubSeq(Held(i), 1, pos) = Held(i)
      OBVIOUS
    <3>1. pos = Len(Held(i))
      BY <1>1, <2>2
    <3>. QED
      BY <2>3, <3>1, SubSeqFull
  <2>. QED
    BY <1>4, <2>2, <2>4, <2>5, <2>6 DEF CatUpTo, pos
<1>. QED
  BY <1>3, <1>4

LEMMA CatUpToNothing == \A i : CatUpTo(i, 0) = <<>>
<1>. SUFFICES ASSUME NEW i PROVE CatUpTo(i, 0) = <<>>
  OBVIOUS
<1>1. NamesUpTo(0) = <<>>
  BY JoinedNone DEF NamesUpTo
<1>2. SubSeq(Held(i), 1, 0) = <<>>
  BY SubSeqEmpty
<1>. QED
  BY <1>1, <1>2 DEF CatUpTo

\* An entry that is there can be opened by a program that starts.
LEMMA StartsOpen ==
    ASSUME PlainImage, ProgramsInv, pc = "start", NEW name, CannotOpen(name)
    PROVE  \A i : ~Named(name, i)
<1>1. 2 \in Fds /\ 2 \in Above
  BY FilesAssumption DEF Fds, Above
<1>2. fd_arr[2].flags = 0
  BY <1>1, InvOfPrograms DEF Places
<1>3. ~Found(name)
  BY <1>1, <1>2 DEF CannotOpen
<1>. QED
  BY <1>3, FoundNamed DEF Named

LEMMA CatStartsAnswers ==
    ASSUME ProgramsInv, Answers, PlainImage, CatStarts
    PROVE  Answers'
<1>1. prog = "cat" /\ pc = "start"
  BY DEF CatStarts, At
<1>2. alive /\ Inv /\ asked \notin NotRun
  BY <1>1, InvOfPrograms DEF Places, Answers
<1>3. ASSUME Answerable(asked)
      PROVE  /\ printed = <<>> /\ Text(args) = Rest(asked)
             /\ \E i \in DOMAIN Entries :
                   /\ Named(Word(asked), i)
                   /\ Entries[i].inode \in DOMAIN Program
                   /\ Program[Entries[i].inode] = "cat"
  BY <1>1, <1>2, <1>3 DEF Answers, Answered, RunsCommand
<1>4. CASE ~HasArg /\ Ends(3, <<"could not read arguments">>)
  <2>1. ASSUME Answerable(asked) PROVE printed \o <<"could not read arguments">> = Meaning(asked)
    <3>1. Rest(asked) = <<>> /\ printed = <<>>
      BY <1>3, <1>4, <2>1 DEF HasArg
    <3>2. PICK i \in DOMAIN Entries : /\ Named(Word(asked), i)
                                      /\ Entries[i].inode \in DOMAIN Program
                                      /\ Program[Entries[i].inode] = "cat"
      BY <1>3, <2>1
    <3>3. Meaning(asked) = <<"could not read arguments">>
      BY <1>2, <3>1, <3>2, CommandMeans
    <3>4. <<>> \o <<"could not read arguments">> = <<"could not read arguments">>
      OBVIOUS
    <3>. QED
      BY <3>1, <3>3, <3>4
  <2>2. <<"could not read arguments">> \in Seq(Output)
    BY Outputs DEF Messages
  <2>. QED
    BY <1>1, <1>4, <2>1, <2>2, EndsAnswers
<1>5. CASE HasArg /\ CannotOpen(Text(args)) /\ Ends(2, <<"file not found">>)
  <2>1. ASSUME Answerable(asked) PROVE printed \o <<"file not found">> = Meaning(asked)
    <3>1. Rest(asked) # <<>> /\ printed = <<>>
      BY <1>3, <1>5, <2>1 DEF HasArg
    <3>2. \A j : ~Named(Rest(asked), j)
      BY <1>1, <1>3, <1>5, <2>1, StartsOpen
    <3>3. ~Found(Rest(asked))
      BY <3>2, FoundNamed
    <3>4. PICK i \in DOMAIN Entries : /\ Named(Word(asked), i)
                                      /\ Entries[i].inode \in DOMAIN Program
                                      /\ Program[Entries[i].inode] = "cat"
      BY <1>3, <2>1
    <3>5. Meaning(asked) = <<"file not found">>
      BY <1>2, <3>1, <3>3, <3>4, CommandMeans
    <3>6. <<>> \o <<"file not found">> = <<"file not found">>
      OBVIOUS
    <3>. QED
      BY <3>1, <3>5, <3>6
  <2>2. <<"file not found">> \in Seq(Output)
    BY Outputs DEF Messages
  <2>. QED
    BY <1>1, <1>5, <2>1, <2>2, EndsAnswers
<1>6. CASE /\ HasArg /\ Opens(Text(args)) /\ pc' = "read"
           /\ UNCHANGED <<args, prog, asked, printed, dir, fname, data, last, start>>
  <2>1. PICK d : d = CHOOSE fd \in Fds : LowestVacant(fd)
    OBVIOUS
  <2>2. Open(Text(args)) /\ file' = d
    BY <1>6, <2>1 DEF Opens
  <2>3. PICK i \in DOMAIN Entries :
           Named(Text(args), i) /\ Reading(d, i)' /\ fd_arr'[d].file_pos = 0
    BY <1>2, <2>1, <2>2, OpenReading
  <2>4. Reading(file, i)'
    BY <2>2, <2>3 DEF Reading, IsOpen
  <2>5. ASSUME Answerable(asked) PROVE Answered'
    <3>1. Named(Rest(asked), i) /\ printed' = CatUpTo(i, fd_arr'[file'].file_pos)
      BY <1>1, <1>3, <1>6, <2>2, <2>3, <2>5, CatUpToNothing
    <3>2. CatAnswers'
      BY <1>6, <2>4, <3>1 DEF CatAnswers
    <3>3. Rest(asked) # <<>>
      BY <1>3, <1>6, <2>5 DEF HasArg
    <3>4. RunsCommand'
      BY <1>1, <1>2, <1>6, <2>5 DEF Answers, Answered, RunsCommand
    <3>. QED
      BY <1>1, <1>6, <3>2, <3>3, <3>4 DEF Answered
  <2>. QED
    BY <1>1, <1>6, <2>5, AskedStays
<1>. QED
  BY <1>4, <1>5, <1>6 DEF CatStarts

LEMMA LsStartsAnswers ==
    ASSUME ProgramsInv, Answers, PlainImage, LsStarts
    PROVE  Answers'
<1>1. /\ prog = "ls" /\ pc = "start" /\ Opens(<<".">>) /\ pc' = "read"
      /\ UNCHANGED <<args, prog, asked, printed, dir, fname, data, last, start>>
  BY DEF LsStarts, At
<1>2. alive /\ Inv
  BY <1>1, InvOfPrograms DEF Places
<1>3. PICK d : d = CHOOSE fd \in Fds : LowestVacant(fd)
  OBVIOUS
<1>4. Open(<<".">>) /\ file' = d
  BY <1>1, <1>3 DEF Opens
<1>5. PICK i \in DOMAIN Entries :
         Named(<<".">>, i) /\ Reading(d, i)' /\ fd_arr'[d].file_pos = 0
  BY <1>2, <1>3, <1>4, OpenReading
<1>6. Reading(file, i)'
  BY <1>4, <1>5 DEF Reading, IsOpen
<1>7. ASSUME Answerable(asked) PROVE Answered'
  <2>1. printed' = <<>> /\ RunsCommand
    BY <1>1, <1>2, <1>7 DEF Answers, Answered
  <2>2. LsUpTo(0) = <<>>
    BY JoinedNone DEF LsUpTo
  <2>3. LsAnswers'
    BY <1>1, <1>4, <1>5, <1>6, <2>1, <2>2 DEF LsAnswers
  <2>4. RunsCommand'
    BY <1>1, <2>1 DEF RunsCommand
  <2>. QED
    BY <1>1, <2>3, <2>4 DEF Answered
<1>. QED
  BY <1>1, <1>7, AskedStays

LEMMA ReadAndWriteAnswers ==
    ASSUME ProgramsInv, Answers, PlainImage, ReadAndWrite
    PROVE  Answers'
<1>1. /\ prog \in {"cat", "ls"} /\ pc = "read" /\ Reads(file, BUFSIZE)
      /\ UNCHANGED <<args, prog, asked, local>>
      /\ \/ /\ ret' > 0 /\ pc' = "read"
            /\ printed' = printed \o Taken(buf') \o (IF prog = "ls" THEN <<NL>> ELSE <<>>)
         \/ ret' = 0 /\ pc' = "done" /\ printed' = printed
         \/ ret' = -1 /\ pc' = "failed" /\ printed' = printed
  BY DEF ReadAndWrite
<1>2. /\ alive /\ Inv /\ IsOpen(file) /\ printed \in Seq(Output) /\ file' = file
      /\ asked' = asked /\ prog' = prog
  BY <1>1, InvOfPrograms DEF Places, local
<1>3. ASSUME Answerable(asked) PROVE Answered'
  <2>1. /\ RunsCommand
        /\ prog = "cat" => Rest(asked) # <<>> /\ CatAnswers
        /\ prog = "ls" => LsAnswers
    BY <1>1, <1>2, <1>3 DEF Answers, Answered
  <2>2. RunsCommand'
    BY <1>1, <2>1 DEF RunsCommand
  <2>3. CASE prog = "cat"
    <3>1. PICK i \in DOMAIN Entries :
             Named(Rest(asked), i) /\ Reading(file, i) /\ printed = CatUpTo(i, fd_arr[file].file_pos)
      BY <1>1, <2>1, <2>3 DEF CatAnswers
    <3>2. /\ Reading(file, i)' /\ ret' \in Nat
          /\ ret' > 0 => CatUpTo(i, fd_arr[file].file_pos) \o Taken(buf')
                           = CatUpTo(i, fd_arr'[file].file_pos)
          /\ ret' = 0 => CatUpTo(i, fd_arr[file].file_pos) = Held(i)
      <4>1. /\ Reading(file, i)' /\ ret' \in Nat
            /\ ret' > 0 => CatUpTo(i, fd_arr[file].file_pos) \o Taken(buf')
                             = CatUpTo(i, fd_arr'[file].file_pos)
            /\ ret' = 0 => CatUpTo(i, fd_arr[file].file_pos) = Held(i)
        BY <1>1, <1>2, <3>1, CatReads DEF Reading, IsOpen
      <4>. QED
        BY <4>1
    <3>3. ret' # -1
      BY <3>2
    <3>4. CASE ret' > 0
      <4>1. Taken(buf') \in Seq(Bytes)
        BY <1>1, <1>2, <3>2, Sizes, AboveFds, ReadText DEF IsOpen
      <4>2. printed' = printed \o Taken(buf') \o <<>>
        BY <1>1, <2>3, <3>4
      <4>3. printed \o Taken(buf') \in Seq(Output)
        BY <1>2, <4>1, Outputs, ConcatProperties
      <4>4. printed' = printed \o Taken(buf')
        BY <4>2, <4>3, ConcatEmptySeq
      <4>5. printed' = CatUpTo(i, fd_arr'[file'].file_pos)
        BY <1>2, <3>1, <3>2, <3>4, <4>4
      <4>6. CatAnswers'
        BY <1>1, <1>2, <3>1, <3>2, <3>4, <4>5 DEF CatAnswers
      <4>. QED
        BY <1>1, <1>2, <2>1, <2>2, <2>3, <3>4, <4>6 DEF Answered
    <3>5. CASE ret' = 0
      <4>1. CatAnswers'
        BY <1>1, <1>2, <3>1, <3>2, <3>5 DEF CatAnswers
      <4>. QED
        BY <1>1, <1>2, <2>1, <2>2, <2>3, <3>5, <4>1 DEF Answered
    <3>. QED
      BY <1>1, <3>3, <3>4, <3>5
  <2>4. CASE prog = "ls"
    <3>. DEFINE k == fd_arr[file].file_pos
    <3>1. PICK i \in DOMAIN Entries : Named(<<".">>, i) /\ Reading(file, i)
      BY <1>1, <2>1, <2>4 DEF LsAnswers
    <3>2. printed = LsUpTo(k)
      BY <1>1, <2>1, <2>4 DEF LsAnswers
    <3>3. DirRead(file)
      <4>1. Entries[i].type = "dir"
        BY <3>1 DEF PlainImage, Named
      <4>2. fd_arr[file].ops = "dir"
        BY <3>1, <4>1 DEF Reading
      <4>. QED
        BY <1>1, <4>2 DEF Reads, FileRead, ClockRead
    <3>4. /\ Reading(file, i)' /\ k \in Nat
          /\ \/ /\ k + 1 \in DOMAIN Entries
                /\ ret' = 1 /\ fd_arr'[file].file_pos = k + 1
                /\ Taken(buf') = Entries[k + 1].name
             \/ k = Len(Entries) /\ ret' = 0
      <4>1. /\ Reading(file, i)' /\ k \in Nat
            /\ \/ /\ k + 1 \in DOMAIN Entries
                  /\ ret' = 1 /\ fd_arr'[file].file_pos = k + 1
                  /\ Taken(buf') = Entries[k + 1].name
               \/ k = Len(Entries) /\ ret' = 0
        BY <1>2, <3>1, <3>3, ReadDir DEF Reading, IsOpen
      <4>. QED
        BY <4>1
    <3>. HIDE DEF k
    <3>5. CASE ret' = 1
      <4>1. /\ LsUpTo(k + 1) = LsUpTo(k) \o (Entries[k + 1].name \o <<NL>>)
            /\ LsUpTo(k) \in Seq(Bytes) /\ Entries[k + 1].name \in Seq(Bytes)
        <5>1. PICK n \in Nat : n = k /\ n + 1 \in DOMAIN Entries
          BY <3>4, <3>5
        <5>2. Entries[n + 1].name \in Seq(Bytes)
          BY <5>1, EntryTypes
        <5>. QED
          BY <5>1, <5>2, NamesNext
      <4>2. printed' = LsUpTo(k) \o Entries[k + 1].name \o <<NL>>
        BY <1>1, <2>4, <3>2, <3>4, <3>5
      <4>3. printed' = LsUpTo(fd_arr'[file'].file_pos)
        <5>1. <<NL>> \in Seq(Bytes)
          BY Outputs
        <5>2. (LsUpTo(k) \o Entries[k + 1].name) \o <<NL>>
                = LsUpTo(k) \o (Entries[k + 1].name \o <<NL>>)
          <6>. DEFINE a == LsUpTo(k)
                      b == Entries[k + 1].name
          <6>1. a \in Seq(Bytes) /\ b \in Seq(Bytes)
            BY <4>1
          <6>. HIDE DEF a, b
          <6>2. (a \o b) \o <<NL>> = a \o (b \o <<NL>>)
            BY <5>1, <6>1, ConcatAssociative
          <6>. QED
            BY <6>2 DEF a, b
        <5>3. fd_arr'[file'].file_pos = k + 1
          BY <1>2, <3>4, <3>5
        <5>. QED
          BY <4>1, <4>2, <5>2, <5>3
      <4>4. LsAnswers'
        BY <1>1, <1>2, <3>1, <3>4, <3>5, <4>3 DEF LsAnswers
      <4>. QED
        BY <1>1, <1>2, <2>1, <2>2, <2>4, <3>5, <4>4 DEF Answered
    <3>6. CASE ret' = 0
      <4>1. printed = LsUpTo(Len(Entries))
        BY <3>2, <3>4, <3>6
      <4>2. LsAnswers'
        BY <1>1, <3>6, <4>1 DEF LsAnswers
      <4>. QED
        BY <1>1, <1>2, <2>1, <2>2, <2>4, <3>6, <4>2 DEF Answered
    <3>. QED
      BY <3>4, <3>5, <3>6
  <2>. QED
    BY <1>1, <2>3, <2>4
<1>. QED
  BY <1>1, <1>2, <1>3, AskedStays
-----------------------------------------------------------------------------
(***************************************************************************)
(* grep, but for the lines it searches.                                    *)
(***************************************************************************)

\* What one entry adds to what grep prints.
LEMMA FoundIs ==
    ASSUME PlainImage, NEW i \in DOMAIN Entries, NEW s
    PROVE  /\ FoundIn(i, s) \in Seq(Bytes)
           /\ Entries[i].type \in {"file", "rtc"} =>
                 /\ Held(i) \in Seq(Bytes)
                 /\ LinesFrom(i, s)[1] = FoundIn(i, s)
           /\ Entries[i].type # "file" => FoundIn(i, s) = <<>>
<1>1. Failure(i) = <<>>
  BY NothingFails
<1>2. CASE Entries[i].type = "file"
  <2>1. Held(i) \in Seq(Bytes)
    BY <1>2, HeldFile
  <2>2. 1 \in 1 .. Len(Held(i)) + 1
    BY <2>1
  <2>3. LinesFrom(i, s)[1] \in Seq(Bytes)
    BY <2>1, <2>2, LinesType
  <2>4. LinesFrom(i, s)[1] \o <<>> = LinesFrom(i, s)[1]
    BY <2>3, ConcatEmptySeq
  <2>. QED
    BY <1>1, <1>2, <2>1, <2>3, <2>4 DEF FoundIn, GrepOf
<1>3. CASE Entries[i].type # "file"
  <2>1. FoundIn(i, s) = <<>>
    BY <1>3 DEF FoundIn
  <2>2. ASSUME Entries[i].type = "rtc"
        PROVE  Held(i) \in Seq(Bytes) /\ LinesFrom(i, s)[1] = <<>>
    <3>1. Held(i) \in Seq(Bytes) /\ Len(Held(i)) = 0
      BY <2>2, HeldClock
    <3>2. LinesFrom(i, s)[Len(Held(i)) + 1] = <<>>
      BY <3>1, LinesGoBack
    <3>. QED
      BY <3>1, <3>2
  <2>. QED
    BY <1>3, <2>1, <2>2, Outputs
<1>. QED
  BY <1>2, <1>3

LEMMA GrepUpToNext ==
    ASSUME PlainImage, NEW s, NEW k \in Nat, k + 1 \in DOMAIN Entries
    PROVE  /\ GrepUpTo(k + 1, s) = GrepUpTo(k, s) \o FoundIn(k + 1, s)
           /\ GrepUpTo(k, s) \in Seq(Bytes)
           /\ FoundIn(k + 1, s) = <<>> => GrepUpTo(k + 1, s) = GrepUpTo(k, s)
<1>. DEFINE g == [i \in DOMAIN Entries |-> FoundIn(i, s)]
<1>1. \A j \in 1 .. k + 1 : j \in DOMAIN Entries
  BY Sizes
<1>2. \A j \in 1 .. k + 1 : g[j] = FoundIn(j, s) /\ g[j] \in Seq(Bytes)
  BY <1>1, FoundIs
<1>. HIDE DEF g
<1>3. Joined(g, k + 1) = Joined(g, k) \o g[k + 1]
  BY <1>2, JoinedNext
<1>4. Joined(g, k) \in Seq(Bytes)
  <2>1. k + 1 \in Nat /\ k \in 0 .. k + 1
    OBVIOUS
  <2>2. \A n \in 0 .. k + 1 : Joined(g, n) \in Seq(Bytes)
    BY <1>2, <2>1, JoinedType
  <2>. QED
    BY <2>1, <2>2
<1>5. k + 1 \in 1 .. k + 1
  OBVIOUS
<1>6. g[k + 1] = FoundIn(k + 1, s)
  BY <1>2, <1>5
<1>7. Joined(g, k) \o <<>> = Joined(g, k)
  BY <1>4, ConcatEmptySeq
<1>. QED
  BY <1>3, <1>4, <1>6, <1>7 DEF GrepUpTo, g

LEMMA GrepStartsAnswers ==
    ASSUME ProgramsInv, Answers, PlainImage, GrepStarts
    PROVE  Answers'
<1>1. prog = "grep" /\ pc = "start"
  BY DEF GrepStarts, At
<1>2. alive /\ Inv /\ asked \notin NotRun
  BY <1>1, InvOfPrograms DEF Places, Answers
<1>3. ASSUME Answerable(asked)
      PROVE  printed = <<>> /\ Text(args) = Rest(asked) /\ RunsCommand
  BY <1>1, <1>2, <1>3 DEF Answers, Answered, RunsCommand
<1>4. CASE ~HasArg /\ Ends(3, <<"could not read argument">>)
  <2>1. ASSUME Answerable(asked) PROVE printed \o <<"could not read argument">> = Meaning(asked)
    <3>1. Rest(asked) = <<>> /\ printed = <<>>
      BY <1>3, <1>4, <2>1 DEF HasArg
    <3>2. PICK i \in DOMAIN Entries : /\ Named(Word(asked), i)
                                      /\ Entries[i].inode \in DOMAIN Program
                                      /\ Program[Entries[i].inode] = "grep"
      BY <1>1, <1>3, <2>1 DEF RunsCommand
    <3>3. Meaning(asked) = <<"could not read argument">>
      BY <1>2, <3>1, <3>2, CommandMeans
    <3>4. <<>> \o <<"could not read argument">> = <<"could not read argument">>
      OBVIOUS
    <3>. QED
      BY <3>1, <3>3, <3>4
  <2>2. <<"could not read argument">> \in Seq(Output)
    BY Outputs DEF Messages
  <2>. QED
    BY <1>1, <1>4, <2>1, <2>2, EndsAnswers
<1>5. CASE /\ HasArg /\ Open(<<".">>) /\ dir' = CHOOSE d \in Fds : LowestVacant(d)
           /\ pc' = "next"
           /\ UNCHANGED <<args, prog, asked, printed, file, fname, data, last, start>>
  <2>1. PICK d : d = CHOOSE fd \in Fds : LowestVacant(fd)
    OBVIOUS
  <2>2. dir' = d
    BY <1>5, <2>1
  <2>3. PICK i \in DOMAIN Entries :
           Named(<<".">>, i) /\ Reading(d, i)' /\ fd_arr'[d].file_pos = 0
    BY <1>2, <1>5, <2>1, OpenReading
  <2>4. Reading(dir, i)'
    BY <2>2, <2>3 DEF Reading, IsOpen
  <2>5. ASSUME Answerable(asked) PROVE Answered'
    <3>1. GrepUpTo(0, Rest(asked)) = <<>>
      BY JoinedNone DEF GrepUpTo
    <3>2. printed' = GrepUpTo(fd_arr'[dir'].file_pos, Rest(asked'))
      BY <1>3, <1>5, <2>2, <2>3, <2>5, <3>1
    <3>3. GrepAnswers'
      BY <1>5, <2>3, <2>4, <3>2 DEF GrepAnswers
    <3>4. Rest(asked) # <<>>
      BY <1>3, <1>5, <2>5 DEF HasArg
    <3>5. RunsCommand'
      BY <1>3, <1>5, <2>5 DEF RunsCommand
    <3>. QED
      BY <1>1, <1>5, <3>3, <3>4, <3>5 DEF Answered
  <2>. QED
    BY <1>1, <1>5, <2>5, AskedStays
<1>. QED
  BY <1>4, <1>5 DEF GrepStarts

\* While grep runs, and when it goes on.
LEMMA GrepRuns ==
    ASSUME ProgramsInv, Answers, prog = "grep", pc # "start"
    PROVE  /\ Inv /\ pc # "prompt" /\ pc # "execute"
           /\ Answerable(asked) => RunsCommand /\ Rest(asked) # <<>> /\ GrepAnswers /\ Searchable
<1>1. Inv /\ pc # "prompt" /\ pc # "execute"
  BY InvOfPrograms DEF Places
<1>2. Answerable(asked) => RunsCommand /\ Rest(asked) # <<>> /\ GrepAnswers
  BY <1>1, InvOfPrograms DEF Answers, Answered, Places
<1>3. RunsCommand => Greps(asked)
  BY DEF RunsCommand, Greps
<1>. QED
  BY <1>1, <1>2, <1>3 DEF Answerable

LEMMA GrepGoesOn ==
    ASSUME ProgramsInv, Answers, prog = "grep", pc # "start",
           prog' = prog, asked' = asked, args' = args, Answerable(asked), GrepAnswers',
           pc' \notin {"prompt", "execute", "start"}
    PROVE  Answered'
<1>1. RunsCommand /\ Rest(asked) # <<>>
  BY GrepRuns
<1>2. RunsCommand'
  BY <1>1 DEF RunsCommand
<1>. QED
  BY <1>1, <1>2 DEF Answered

LEMMA GrepNextAnswers ==
    ASSUME ProgramsInv, Answers, PlainImage, GrepNext
    PROVE  Answers'
<1>1. /\ prog = "grep" /\ pc = "next" /\ DirRead(dir) /\ fname' = Taken(buf')
      /\ pc' = IF ret' = 0 THEN "done" ELSE IF fname'[1] = "." THEN "next" ELSE "file"
      /\ UNCHANGED <<args, prog, asked, printed, dir, file, data, last, start>>
  BY DEF GrepNext, At
<1>2. ASSUME Answerable(asked) PROVE Answered'
  <2>1. Inv /\ GrepAnswers
    BY <1>1, <1>2, GrepRuns
  <2>2. PICK d : d = dir
    OBVIOUS
  <2>3. PICK k : k = fd_arr[d].file_pos
    OBVIOUS
  <2>4. PICK s : s = Rest(asked)
    OBVIOUS
  <2>5. PICK i \in DOMAIN Entries : Named(<<".">>, i) /\ Reading(d, i)
    BY <1>1, <2>1, <2>2 DEF GrepAnswers
  <2>6. printed = GrepUpTo(k, s)
    BY <1>1, <2>1, <2>2, <2>3, <2>4 DEF GrepAnswers
  <2>7. /\ Reading(d, i)' /\ k \in Nat
        /\ \/ /\ k + 1 \in DOMAIN Entries
              /\ ret' = 1 /\ fd_arr'[d].file_pos = k + 1
              /\ Taken(buf') = Entries[k + 1].name
           \/ k = Len(Entries) /\ ret' = 0
    BY <1>1, <2>1, <2>2, <2>3, <2>5, ReadDir
  <2>8. Reading(dir, i)'
    BY <1>1, <2>2, <2>7 DEF Reading, IsOpen
  <2>9. CASE ret' = 0
    <3>1. printed = GrepUpTo(Len(Entries), s)
      BY <2>6, <2>7, <2>9
    <3>2. GrepAnswers'
      BY <1>1, <2>4, <2>9, <3>1 DEF GrepAnswers
    <3>. QED
      BY <1>1, <1>2, <2>9, <3>2, GrepGoesOn
  <2>10. CASE ret' = 1
    <3>1. /\ k + 1 \in DOMAIN Entries
          /\ fd_arr'[dir'].file_pos = k + 1 /\ fname' = Entries[k + 1].name
      BY <1>1, <2>2, <2>7, <2>10
    <3>2. Named(fname', k + 1)
      BY <3>1 DEF Named
    <3>3. CASE fname'[1] = "."
      <4>1. Entries[k + 1].type # "file"
        BY <3>1, <3>3 DEF PlainImage
      <4>2. FoundIn(k + 1, s) = <<>>
        BY <3>1, <4>1, FoundIs
      <4>3. printed = GrepUpTo(k + 1, s)
        BY <2>6, <2>7, <3>1, <4>2, GrepUpToNext
      <4>4. pc' = "next"
        BY <1>1, <2>10, <3>3
      <4>5. GrepAnswers'
        BY <1>1, <2>4, <2>5, <2>8, <3>1, <4>3, <4>4 DEF GrepAnswers
      <4>. QED
        BY <1>1, <1>2, <4>4, <4>5, GrepGoesOn
    <3>4. CASE fname'[1] # "."
      <4>1. Entries[k + 1].type # "dir"
        <5>1. <<".">>[1] = "."
          OBVIOUS
        <5>2. Entries[k + 1].name # <<".">>
          BY <3>1, <3>4, <5>1
        <5>. QED
          BY <3>1, <5>2 DEF PlainImage
      <4>2. Entries[k + 1].type \in {"file", "rtc"}
        BY <3>1, <4>1, EntryTypes
      <4>3. pc' = "file" /\ k = (k + 1) - 1
        BY <1>1, <2>7, <2>10, <3>4
      <4>4. GrepAnswers'
        BY <1>1, <2>4, <2>5, <2>6, <2>8, <3>1, <3>2, <4>2, <4>3 DEF GrepAnswers
      <4>. QED
        BY <1>1, <1>2, <4>3, <4>4, GrepGoesOn
    <3>. QED
      BY <3>3, <3>4
  <2>. QED
    BY <2>7, <2>9, <2>10
<1>. QED
  BY <1>1, <1>2, AskedStays

LEMMA GrepOpensAnswers ==
    ASSUME ProgramsInv, Answers, PlainImage, GrepOpens
    PROVE  Answers'
<1>1. /\ prog = "grep" /\ pc = "file" /\ Opens(fname) /\ last' = 0 /\ pc' = "search"
      /\ \E g \in Garbage : data' = [i \in 1 .. BUFSIZE + 1 |-> g]
      /\ UNCHANGED <<args, prog, asked, printed, dir, fname, start>>
  BY DEF GrepOpens, At
<1>2. ASSUME Answerable(asked) PROVE Answered'
  <2>1. Inv /\ GrepAnswers /\ Searchable /\ IsOpen(dir)
    BY <1>1, <1>2, GrepRuns, InvOfPrograms DEF Places
  <2>2. PICK d : d = CHOOSE fd \in Fds : LowestVacant(fd)
    OBVIOUS
  <2>3. Open(fname) /\ file' = d
    BY <1>1, <2>2 DEF Opens
  <2>4. /\ \E i \in DOMAIN Entries : Named(fname, i) /\ Reading(d, i)'
        /\ fd_arr[d].flags = 0 /\ fd_arr'[d].file_pos = 0
        /\ \A fd \in Fds : fd # d => fd_arr'[fd] = fd_arr[fd]
    BY <2>1, <2>2, <2>3, OpenReading
  <2>5. dir # d /\ dir \in Fds
    BY <2>1, <2>4, AboveFds DEF IsOpen
  <2>6. fd_arr'[dir] = fd_arr[dir]
    BY <2>4, <2>5
  <2>7. PICK k : k = fd_arr[dir].file_pos
    OBVIOUS
  <2>8. PICK s : s = Rest(asked)
    OBVIOUS
  <2>9. Named(fname, k) /\ Entries[k].type \in {"file", "rtc"} /\ printed = GrepUpTo(k - 1, s)
    BY <1>1, <2>1, <2>7, <2>8 DEF GrepAnswers
  <2>10. k \in DOMAIN Entries /\ Reading(d, k)'
    BY <2>4, <2>9 DEF PlainImage, Named
  <2>11. Reading(file, k)'
    BY <2>3, <2>10 DEF Reading, IsOpen
  <2>12. PICK j \in DOMAIN Entries : Named(<<".">>, j) /\ Reading(dir, j)
    BY <1>1, <2>1 DEF GrepAnswers
  <2>13. Reading(dir, j)'
    BY <1>1, <2>6, <2>12 DEF Reading, IsOpen
  <2>14. LinesFrom(k, s)[1] = FoundIn(k, s) /\ Held(k) \in Seq(Bytes)
    BY <2>9, <2>10, FoundIs
  <2>15. printed \o LinesFrom(k, s)[1] = GrepUpTo(k, s)
    <3>1. PICK n \in Nat : n = k - 1 /\ k = n + 1
      BY <2>10, Sizes
    <3>2. GrepUpTo(n + 1, s) = GrepUpTo(n, s) \o FoundIn(n + 1, s)
      BY <2>10, <3>1, GrepUpToNext
    <3>. QED
      BY <2>9, <2>14, <3>1, <3>2
  <2>16. \A i \in 1 .. BUFSIZE + 1 : data'[i] # NL
    BY <1>1, <2>1 DEF Searchable
  <2>17. Buffered(data', 0, Held(k), 0, 0) /\ NoNewline(data', 0)
    <3>1. Len(Held(k)) >= 0 /\ \A i \in 1 .. 0 : FALSE
      BY <2>14
    <3>2. Begins(Held(k), 0 + 0 + 1)
      BY DEF Begins
    <3>. QED
      BY <2>16, <3>1, <3>2 DEF Buffered, NoNewline
  <2>18. /\ fd_arr'[dir'].file_pos = k /\ fd_arr'[file'].file_pos = 0
         /\ 0 - 0 = 0 /\ 0 + 1 = 1
    BY <1>1, <2>3, <2>4, <2>6, <2>7
  <2>19. GrepAnswers'
    BY <1>1, <2>8, <2>9, <2>11, <2>12, <2>13, <2>15, <2>17, <2>18 DEF GrepAnswers
  <2>. QED
    BY <1>1, <1>2, <2>19, GrepGoesOn
<1>. QED
  BY <1>1, <1>2, AskedStays

LEMMA GrepReadsAnswers ==
    ASSUME ProgramsInv, Answers, PlainImage, GrepReads
    PROVE  Answers'
<1>1. /\ prog = "grep" /\ pc = "search" /\ Reads(file, BUFSIZE - last)
      /\ \/ ret' = -1
         \/ /\ data' = Filled(Taken(buf'))
            /\ last' = last + ret'
            /\ start' = 0
            /\ pc' = "line"
      /\ UNCHANGED <<args, prog, asked, printed, dir, file, fname>>
  BY DEF GrepReads, At
<1>2. ASSUME Answerable(asked) PROVE Answered'
  <2>1. /\ Inv /\ GrepAnswers /\ IsOpen(dir) /\ dir # file /\ last < BUFSIZE /\ last \in 0 .. BUFSIZE
        /\ data \in [1 .. BUFSIZE + 1 -> Bytes]
    BY <1>1, <1>2, GrepRuns, InvOfPrograms DEF Places
  <2>2. PICK d : d = file
    OBVIOUS
  <2>3. PICK n \in Nat \ {0} : n = BUFSIZE - last
    BY <2>1, Sizes
  <2>4. PICK k : k = fd_arr[dir].file_pos
    OBVIOUS
  <2>5. PICK s : s = Rest(asked)
    OBVIOUS
  <2>6. PICK pos : pos = fd_arr[d].file_pos
    OBVIOUS
  <2>7. PICK l : l = last
    OBVIOUS
  <2>8. PICK text : text = Held(k)
    OBVIOUS
  <2>9. /\ Named(fname, k) /\ Entries[k].type \in {"file", "rtc"}
        /\ Reading(d, k)
        /\ Buffered(data, l, text, pos - l, 0)
        /\ NoNewline(data, l)
        /\ printed \o LinesFrom(k, s)[pos - l + 1] = GrepUpTo(k, s)
    BY <1>1, <2>1, <2>2, <2>4, <2>5, <2>6, <2>7, <2>8 DEF GrepAnswers
  <2>10. PICK j \in DOMAIN Entries : Named(<<".">>, j) /\ Reading(dir, j)
    BY <1>1, <2>1 DEF GrepAnswers
  <2>11. /\ Reading(d, k)'
         /\ pos \in 0 .. Len(text) /\ Len(text) \in Nat
         /\ ret' \in 0 .. n /\ pos + ret' <= Len(text)
         /\ ret' # n => pos + ret' = Len(text)
         /\ fd_arr'[d].file_pos = pos + ret'
         /\ \A fd \in Fds : fd # d => fd_arr'[fd] = fd_arr[fd]
         /\ Taken(buf') = SubSeq(text, pos + 1, pos + ret')
    BY <1>1, <2>1, <2>2, <2>3, <2>6, <2>8, <2>9, ReadHeld
  <2>12. PICK m \in Nat : m = ret'
    BY <2>11
  <2>13. /\ data' = Filled(Taken(buf')) /\ last' = l + m /\ start' = 0 /\ pc' = "line"
    BY <1>1, <2>7, <2>11, <2>12
  <2>14. Reading(file, k)'
    BY <1>1, <2>2, <2>11 DEF Reading, IsOpen
  <2>15. fd_arr'[dir] = fd_arr[dir]
    BY <2>1, <2>2, <2>11, AboveFds DEF IsOpen
  <2>16. Reading(dir, j)'
    BY <1>1, <2>10, <2>15 DEF Reading, IsOpen
  <2>17. text \in Seq(Bytes)
    <3>1. k \in DOMAIN Entries
      BY <2>9 DEF Named
    <3>. QED
      BY <2>8, <2>9, <3>1, FoundIs
  <2>18. /\ Taken(buf') \in Seq(Bytes) /\ Len(Taken(buf')) = m
         /\ \A i \in 1 .. m : Taken(buf')[i] = text[pos + i]
    <3>1. PICK a \in Nat : a = pos
      BY <2>11
    <3>2. a + m <= Len(text)
      BY <2>11, <2>12, <3>1
    <3>3. /\ SubSeq(text, a + 1, a + m) \in Seq(Bytes)
          /\ Len(SubSeq(text, a + 1, a + m)) = m
          /\ \A i \in 1 .. m : SubSeq(text, a + 1, a + m)[i] = text[a + i]
      BY <2>17, <3>2, PartFrom
    <3>. QED
      BY <2>11, <2>12, <3>1, <3>3
  <2>19. \A i \in 1 .. BUFSIZE + 1 :
            data'[i] = IF i - l \in 1 .. m THEN text[pos + (i - l)] ELSE data[i]
    <3>1. \A i \in 1 .. BUFSIZE + 1 :
             Filled(Taken(buf'))[i] = IF i - last \in 1 .. Len(Taken(buf'))
                                      THEN Taken(buf')[i - last] ELSE data[i]
      BY <2>1, <2>18, FilledIs
    <3>. QED
      BY <2>7, <2>13, <2>18, <3>1
  <2>20. PICK base \in Nat : base = pos - l
    BY <2>9 DEF Buffered
  <2>21. /\ l \in Nat /\ pos \in Nat /\ BUFSIZE \in Nat /\ Len(text) \in Nat /\ l + m <= BUFSIZE
         /\ base + l = pos /\ base + (l + m) = pos + m /\ pos + m <= Len(text)
         /\ (pos + m) - (l + m) = base
    <3>1. l \in Nat /\ BUFSIZE \in Nat /\ n = BUFSIZE - l
      BY <2>1, <2>3, <2>7, Sizes
    <3>2. pos \in Nat /\ Len(text) \in Nat /\ m <= n /\ pos + m <= Len(text)
      BY <2>11, <2>12
    <3>. QED
      BY <2>20, <3>1, <3>2
  <2>22. Buffered(data', l + m, text, base, 0)
    <3>1. ASSUME NEW i \in 0 + 1 .. l + m PROVE data'[i] = text[base + i]
      <4>1. i \in 1 .. BUFSIZE + 1
        BY <2>21
      <4>2. CASE i <= l
        <5>1. data'[i] = data[i]
          <6>1. ~(i - l \in 1 .. m)
            BY <2>21, <4>1, <4>2
          <6>. QED
            BY <2>19, <4>1, <6>1
        <5>2. i \in 0 + 1 .. l
          BY <2>21, <4>2
        <5>. QED
          BY <2>9, <2>20, <5>1, <5>2 DEF Buffered
      <4>3. CASE i > l
        <5>1. i - l \in 1 .. m /\ pos + (i - l) = base + i
          BY <2>21, <4>3
        <5>. QED
          BY <2>19, <4>1, <5>1
      <4>. QED
        BY <2>21, <4>2, <4>3
    <3>2. ASSUME NEW i \in 1 .. BUFSIZE + 1, i <= 0 \/ i > l + m PROVE data'[i] # NL
      <4>1. i > l /\ ~(i - l \in 1 .. m)
        BY <2>21, <3>2
      <4>2. data'[i] = data[i]
        BY <2>19, <4>1
      <4>. QED
        BY <2>9, <4>1, <4>2 DEF Buffered
    <3>3. Begins(text, base + 0 + 1)
      BY <2>9, <2>20 DEF Buffered
    <3>4. base + (l + m) <= Len(text)
      BY <2>21
    <3>. QED
      BY <3>1, <3>2, <3>3, <3>4 DEF Buffered
  <2>23. l + m = BUFSIZE \/ pos + m = Len(text)
    <3>1. m # n => pos + m = Len(text)
      BY <2>11, <2>12
    <3>2. m = n => l + m = BUFSIZE
      BY <2>3, <2>7, <2>21
    <3>. QED
      BY <3>1, <3>2
  <2>24. m = 0 => pos + m = Len(text) /\ NoNewline(data', l + m)
    <3>. SUFFICES ASSUME m = 0 PROVE pos + m = Len(text) /\ NoNewline(data', l + m)
      OBVIOUS
    <3>1. \A i \in 1 .. l : i \in 1 .. BUFSIZE + 1 /\ data'[i] = data[i]
      BY <2>19, <2>21
    <3>2. l + m = l
      BY <2>21
    <3>. QED
      BY <2>9, <2>11, <2>12, <3>1, <3>2 DEF NoNewline
  <2>25. printed \o LinesFrom(k, s)[base + 0 + 1] = GrepUpTo(k, s)
    <3>1. base + 0 + 1 = base + 1
      OBVIOUS
    <3>. QED
      BY <2>9, <2>20, <3>1
  <2>26. /\ fd_arr'[dir'].file_pos = k /\ fd_arr'[file'].file_pos = pos + m
         /\ Rest(asked') = s
    BY <1>1, <2>2, <2>4, <2>5, <2>11, <2>12, <2>15
  <2>27. GrepAnswers'
    BY <1>1, <2>8, <2>9, <2>10, <2>12, <2>13, <2>14, <2>16, <2>21, <2>22, <2>23, <2>24, <2>25, <2>26
       DEF GrepAnswers
  <2>. QED
    BY <1>1, <1>2, <2>13, <2>27, GrepGoesOn
<1>. QED
  BY <1>1, <1>2, AskedStays

LEMMA GrepClosesAnswers ==
    ASSUME ProgramsInv, Answers, GrepCloses
    PROVE  Answers'
<1>1. /\ prog = "grep" /\ pc = "close" /\ Close(file) /\ pc' = "next"
      /\ UNCHANGED <<args, prog, asked, printed, dir, fname, data, last, start>>
  BY DEF GrepCloses, At
<1>2. ASSUME Answerable(asked) PROVE Answered'
  <2>1. Inv /\ GrepAnswers /\ IsOpen(dir) /\ dir # file
    BY <1>1, <1>2, GrepRuns, InvOfPrograms DEF Places
  <2>2. fd_arr'[dir] = fd_arr[dir]
    BY <1>1, <2>1, AboveFds DEF Close, IsOpen, Inv, TypeOK
  <2>3. PICK j \in DOMAIN Entries : Named(<<".">>, j) /\ Reading(dir, j)
    BY <1>1, <2>1 DEF GrepAnswers
  <2>4. Reading(dir, j)'
    BY <1>1, <2>2, <2>3 DEF Reading, IsOpen
  <2>5. GrepAnswers'
    BY <1>1, <2>1, <2>2, <2>3, <2>4 DEF GrepAnswers
  <2>. QED
    BY <1>1, <1>2, <2>5, GrepGoesOn
<1>. QED
  BY <1>1, <1>2, AskedStays

LEMMA ReturnsAnswers ==
    ASSUME ProgramsInv, Answers, PlainImage, Returns
    PROVE  Answers'
<1>1. /\ Inv /\ printed \in Seq(Output)
      /\ pc \in {"done", "failed"} => alive /\ prog \in {"cat", "ls", "grep"}
  <2>1. prog \in {"shell", "cat", "ls", "grep", "unknown"}
    BY DEF ProgramsInv, ProgramsTypeOK
  <2>. QED
    BY <2>1, InvOfPrograms DEF Places
<1>2. ASSUME Answerable(asked), pc \in {"done", "failed"}
      PROVE  pc = "done" /\ printed \o <<>> = Meaning(asked)
  <2>1. /\ RunsCommand /\ asked \notin NotRun
        /\ prog \in {"cat", "grep"} => Rest(asked) # <<>>
        /\ prog = "cat" => CatAnswers
        /\ prog = "ls" => LsAnswers
        /\ prog = "grep" => GrepAnswers
    BY <1>1, <1>2 DEF Answers, Answered
  <2>2. PICK i \in DOMAIN Entries : /\ Named(Word(asked), i)
                                    /\ Entries[i].inode \in DOMAIN Program
                                    /\ prog = Program[Entries[i].inode]
    BY <2>1 DEF RunsCommand
  <2>3. printed \o <<>> = printed
    BY <1>1, ConcatEmptySeq
  <2>4. CASE prog = "cat"
    <3>1. pc = "done"
      BY <1>2, <2>1, <2>4 DEF CatAnswers
    <3>2. PICK j \in DOMAIN Entries : Named(Rest(asked), j) /\ printed = Held(j)
      BY <2>1, <2>4, <3>1 DEF CatAnswers
    <3>3. Meaning(asked) = Held(j) \o <<>>
      BY <2>1, <2>2, <2>4, <3>2, CommandMeans
    <3>. QED
      BY <3>1, <3>2, <3>3
  <2>5. CASE prog = "ls"
    <3>1. pc = "done" /\ printed = LsUpTo(Len(Entries))
      BY <1>2, <2>1, <2>5 DEF LsAnswers
    <3>2. Meaning(asked) = LsUpTo(Len(Entries))
      BY <2>1, <2>2, <2>5, CommandMeans
    <3>. QED
      BY <2>3, <3>1, <3>2
  <2>6. CASE prog = "grep"
    <3>1. pc = "done" /\ printed = GrepUpTo(Len(Entries), Rest(asked))
      BY <1>2, <2>1, <2>6 DEF GrepAnswers
    <3>2. Meaning(asked) = GrepUpTo(Len(Entries), Rest(asked))
      BY <2>1, <2>2, <2>6, CommandMeans
    <3>. QED
      BY <2>3, <3>1, <3>2
  <2>. QED
    BY <1>1, <1>2, <2>4, <2>5, <2>6
<1>3. CASE pc = "done" /\ Ends(0, <<>>)
  BY <1>2, <1>3, Outputs, EndsAnswers
<1>4. CASE pc = "failed" /\ Ends(3, <<IF prog = "ls" THEN "directory entry read failed"
                                      ELSE "file read failed">>)
  <2>1. ~Answerable(asked)
    BY <1>2, <1>4
  <2>2. <<IF prog = "ls" THEN "directory entry read failed" ELSE "file read failed">> \in Seq(Output)
    <3>1. (IF prog = "ls" THEN "directory entry read failed" ELSE "file read failed") \in Messages
      BY DEF Messages
    <3>. QED
      BY <3>1, Outputs
  <2>. QED
    BY <1>4, <2>1, <2>2, EndsAnswers
<1>. QED
  BY <1>3, <1>4 DEF Returns
-----------------------------------------------------------------------------
(***************************************************************************)
(* grep's turn for one line.  The first n bytes of its buffer hold a text  *)
(* from place base + 1 on, the line begins behind the first f of them and  *)
(* ends behind the first e.                                                *)
(***************************************************************************)

LineIn(bytes, n, f, e) ==
    /\ bytes \in [1 .. BUFSIZE + 1 -> Bytes]
    /\ n \in 0 .. BUFSIZE /\ f \in 0 .. n /\ e \in f .. n
    /\ e = n \/ bytes[e + 1] = NL
    /\ \A x \in f .. e - 1 : bytes[x + 1] # NL

LEMMA LineInIs ==
    ASSUME NEW bytes, NEW n, NEW f, NEW e, LineIn(bytes, n, f, e),
           NEW text \in Seq(Bytes), NEW base, Buffered(bytes, n, text, base, f)
    PROVE  /\ BUFSIZE \in Nat \ {0} /\ bytes \in Seq(Bytes) /\ Len(bytes) = BUFSIZE + 1
           /\ n \in Nat /\ f \in Nat /\ e \in Nat /\ f <= e /\ e <= n /\ n <= BUFSIZE
           /\ base \in Nat /\ base + n <= Len(text) /\ Len(text) \in Nat
           /\ \A x \in f + 1 .. n : bytes[x] = text[base + x]
           /\ \A x \in f + 1 .. e : bytes[x] # NL /\ text[base + x] # NL
           /\ e < n => text[base + e + 1] = NL
<1>1. BUFSIZE \in Nat \ {0} /\ BUFSIZE + 1 \in Nat
  BY Sizes
<1>2. bytes \in Seq(Bytes) /\ Len(bytes) = BUFSIZE + 1
  BY <1>1, FunctionIsSeq DEF LineIn
<1>3. n \in Nat /\ f \in Nat /\ e \in Nat /\ f <= e /\ e <= n /\ n <= BUFSIZE
  BY <1>1 DEF LineIn
<1>4. /\ base \in Nat /\ base + n <= Len(text) /\ Len(text) \in Nat
      /\ \A x \in f + 1 .. n : bytes[x] = text[base + x]
  BY DEF Buffered
<1>5. ASSUME NEW x \in f + 1 .. e PROVE bytes[x] # NL /\ text[base + x] # NL
  <2>1. PICK y : y = x - 1
    OBVIOUS
  <2>2. y \in f .. e - 1 /\ y + 1 = x /\ x \in f + 1 .. n
    BY <1>3, <2>1
  <2>3. bytes[y + 1] # NL
    BY <2>2 DEF LineIn
  <2>. QED
    BY <1>4, <2>2, <2>3
<1>6. ASSUME e < n PROVE text[base + e + 1] = NL
  <2>1. e + 1 \in f + 1 .. n /\ base + (e + 1) = base + e + 1
    BY <1>3, <1>4, <1>6
  <2>2. bytes[e + 1] = NL
    BY <1>3, <1>6 DEF LineIn
  <2>. QED
    BY <1>4, <2>1, <2>2
<1>. QED
  BY <1>1, <1>2, <1>3, <1>4, <1>5, <1>6

\* What grep compares is a part of the text.
IsPart(line, text, a, b) ==
    /\ line = SubSeq(text, a, b)
    /\ Text(line) = line
    /\ \A s \in Seq(Bytes) : s # <<>> => (Matches(line, s) <=> Has(text, a, b, s))

LEMMA LineIsPart ==
    ASSUME NEW bytes, NEW n, NEW f, NEW e, LineIn(bytes, n, f, e),
           NEW text \in Seq(Bytes), NEW base, Buffered(bytes, n, text, base, f),
           NUL \notin Range(text), NEW line, line = SubSeq(bytes, f + 1, e)
    PROVE  IsPart(line, text, base + f + 1, base + e)
<1>1. /\ bytes \in Seq(Bytes) /\ Len(bytes) = BUFSIZE + 1 /\ BUFSIZE \in Nat \ {0}
      /\ n \in Nat /\ f \in Nat /\ e \in Nat /\ f <= e /\ e <= n /\ n <= BUFSIZE
      /\ base \in Nat /\ base + n <= Len(text) /\ Len(text) \in Nat
      /\ \A x \in f + 1 .. n : bytes[x] = text[base + x]
  BY LineInIs
<1>2. PICK m \in Nat : m = e - f
  BY <1>1
<1>3. PICK a \in Nat : a = base + f
  BY <1>1
<1>4. e = f + m /\ base + e = a + m /\ f + m <= Len(bytes) /\ a + m <= Len(text)
  BY <1>1, <1>2, <1>3
<1>. DEFINE part == SubSeq(text, a + 1, a + m)
<1>5. line \in Seq(Bytes) /\ Len(line) = m /\ \A x \in 1 .. m : line[x] = bytes[f + x]
  <2>1. line = SubSeq(bytes, f + 1, f + m)
    BY <1>4
  <2>. QED
    BY <1>1, <1>4, <2>1, PartFrom
<1>6. part \in Seq(Bytes) /\ Len(part) = m /\ \A x \in 1 .. m : part[x] = text[a + x]
  BY <1>1, <1>4, PartFrom
<1>. HIDE DEF part
<1>7. ASSUME NEW x \in 1 .. m
      PROVE  line[x] = part[x] /\ part[x] # NUL
  <2>1. f + x \in f + 1 .. n /\ base + (f + x) = a + x /\ a + x \in 1 .. Len(text)
    BY <1>1, <1>2, <1>3, <1>4
  <2>2. bytes[f + x] = text[a + x]
    BY <1>1, <2>1
  <2>3. text[a + x] # NUL
    BY <2>1 DEF Range
  <2>. QED
    BY <1>5, <1>6, <2>2, <2>3
<1>8. line = part
  BY <1>5, <1>6, <1>7, SeqEqual
<1>9. Text(line) = line
  BY <1>5, <1>6, <1>7, <1>8, WithoutNUL
<1>10. ASSUME NEW s \in Seq(Bytes), s # <<>>
       PROVE  Matches(line, s) <=> Has(text, a + 1, a + m, s)
  <2>1. line = SubSeq(text, a + 1, a + m)
    BY <1>8 DEF part
  <2>. QED
    BY <1>4, <1>10, <2>1, MatchesHas
<1>11. IsPart(line, text, a + 1, a + m)
  BY <1>8, <1>9, <1>10 DEF IsPart, part
<1>. QED
  BY <1>3, <1>4, <1>11

\* What a line adds, and how what comes behind it goes on.
Shown(name, line, s) ==
    IF Matches(line, s) THEN name \o <<":">> \o Text(line) \o <<NL>> ELSE <<>>
GoesOn(all, part, rest) == all = part \o rest

\* A line that ends in the buffer, or with it, adds what it should.
LEMMA LineAdds ==
    ASSUME NEW bytes, NEW n, NEW f, NEW e, LineIn(bytes, n, f, e),
           NEW i \in DOMAIN Entries, NEW text \in Seq(Bytes), text = Held(i),
           NEW base, Buffered(bytes, n, text, base, f), NUL \notin Range(text),
           e = n => base + n = Len(text) \/ text[base + n + 1] = NL,
           NEW s \in Seq(Bytes), s # <<>>, NEW line, line = SubSeq(bytes, f + 1, e)
    PROVE  GoesOn(LinesFrom(i, s)[base + f + 1], Shown(Entries[i].name, line, s),
                  LinesFrom(i, s)[base + e + 1])
<1>. DEFINE A == base + f + 1
            E == base + e
<1>1. /\ n \in Nat /\ f \in Nat /\ e \in Nat /\ f <= e /\ e <= n
      /\ base \in Nat /\ base + n <= Len(text) /\ Len(text) \in Nat
      /\ \A x \in f + 1 .. e : text[base + x] # NL
      /\ e < n => text[base + e + 1] = NL
  BY LineInIs, SMTT(30)
<1>2. /\ line = SubSeq(text, A, E) /\ Text(line) = line
      /\ Matches(line, s) <=> Has(text, A, E, s)
  <2>1. IsPart(line, text, A, E)
    BY LineIsPart
  <2>. HIDE DEF A, E
  <2>. QED
    BY <2>1 DEF IsPart
<1>3. CASE e = f
  <2>1. \A p \in A .. E : FALSE
    BY <1>1, <1>3
  <2>2. ~Has(text, A, E, s)
    BY <2>1 DEF Has
  <2>3. A \in 1 .. Len(text) + 1
    BY <1>1
  <2>4. LinesFrom(i, s)[A] \in Seq(Bytes)
    BY <2>3, LinesType
  <2>5. <<>> \o LinesFrom(i, s)[A] = LinesFrom(i, s)[A]
    BY <2>4, ConcatEmptySeq
  <2>. QED
    BY <1>2, <1>3, <2>2, <2>5 DEF Shown, GoesOn
<1>4. CASE e # f
  <2>1. A \in 1 .. Len(text) /\ E \in A .. Len(text)
    BY <1>1, <1>4
  <2>2. \A p \in A .. E : text[p] # NL
    <3>. SUFFICES ASSUME NEW p \in A .. E PROVE text[p] # NL
      OBVIOUS
    <3>1. PICK x : x = p - base
      OBVIOUS
    <3>2. x \in f + 1 .. e /\ base + x = p
      BY <1>1, <3>1
    <3>. QED
      BY <1>1, <3>2
  <2>3. A = 1 \/ text[A - 1] = NL
    <3>1. Begins(text, A)
      BY DEF Buffered
    <3>2. text[A] # NL /\ A # Len(text) + 1
      BY <1>1, <2>1, <2>2
    <3>. HIDE DEF A
    <3>. QED
      BY <3>1, <3>2 DEF Begins
  <2>4. E = Len(text) \/ text[E + 1] = NL
    BY <1>1
  <2>. HIDE DEF A, E
  <2>5. IsLine(text, A, E)
    BY <2>2, <2>3, <2>4 DEF IsLine
  <2>6. LinesFrom(i, s)[A] =
          (IF Has(text, A, E, s) THEN Entries[i].name \o <<":">> \o SubSeq(text, A, E) \o <<NL>>
                                 ELSE <<>>) \o LinesFrom(i, s)[E + 1]
    <3>1. Held(i) \in Seq(Bytes) /\ A \in 1 .. Len(Held(i)) /\ E \in A .. Len(Held(i))
      BY <2>1
    <3>2. IsLine(Held(i), A, E)
      BY <2>5
    <3>3. LinesFrom(i, s)[A] =
            (IF Has(Held(i), A, E, s)
             THEN Entries[i].name \o <<":">> \o SubSeq(Held(i), A, E) \o <<NL>>
             ELSE <<>>) \o LinesFrom(i, s)[E + 1]
      BY <3>1, <3>2, LinesOfOne, ZenonT(30)
    <3>. QED
      BY <3>3
  <2>7. LinesFrom(i, s)[A] =
          (IF Matches(line, s) THEN Entries[i].name \o <<":">> \o Text(line) \o <<NL>>
                               ELSE <<>>) \o LinesFrom(i, s)[E + 1]
    BY <1>2, <2>6
  <2>. QED
    BY <2>7 DEF A, E, Shown, GoesOn
<1>. QED
  BY <1>3, <1>4

\* Behind a newline another line begins.
LEMMA NewlineAddsNone ==
    ASSUME NEW bytes, NEW n, NEW f, NEW e, LineIn(bytes, n, f, e), e < n,
           NEW i \in DOMAIN Entries, NEW text \in Seq(Bytes), text = Held(i),
           NEW base, Buffered(bytes, n, text, base, f), NEW s
    PROVE  /\ LinesFrom(i, s)[base + e + 1] = LinesFrom(i, s)[base + (e + 1) + 1]
           /\ Begins(text, base + (e + 1) + 1)
<1>1. /\ n \in Nat /\ e \in Nat /\ base \in Nat /\ base + n <= Len(text) /\ Len(text) \in Nat
      /\ text[base + e + 1] = NL
  BY LineInIs
<1>2. PICK a : a = base + e + 1
  OBVIOUS
<1>3. a \in 1 .. Len(text) /\ a + 1 = base + (e + 1) + 1 /\ (a + 1) - 1 = a /\ text[a] = NL
  BY <1>1, <1>2
<1>4. LinesFrom(i, s)[a] = LinesFrom(i, s)[a + 1]
  BY <1>3, LinesSkip
<1>5. Begins(text, a + 1)
  BY <1>3 DEF Begins
<1>. QED
  BY <1>2, <1>3, <1>4, <1>5

\* A buffer that is full of one line ends with it.
LEMMA FullBufferEnds ==
    ASSUME NEW bytes, NEW e, LineIn(bytes, BUFSIZE, 0, e), e = BUFSIZE,
           NEW text \in Seq(Bytes), NEW base, Buffered(bytes, BUFSIZE, text, base, 0),
           \A a, b \in DOMAIN text : IsLine(text, a, b) => b - a < BUFSIZE
    PROVE  base + BUFSIZE = Len(text) \/ text[base + BUFSIZE + 1] = NL
<1>. DEFINE L == Len(text)
            A == base + 1
            T == {x \in A .. L : x = L \/ text[x + 1] = NL}
<1>1. /\ BUFSIZE \in Nat \ {0} /\ base \in Nat /\ base + BUFSIZE <= L /\ L \in Nat
      /\ \A x \in 0 + 1 .. BUFSIZE : text[base + x] # NL
  BY LineInIs
<1>2. A \in 1 .. L /\ L \in T /\ T \subseteq Nat
  BY <1>1
<1>3. PICK b \in T : \A y \in T : b <= y
  <2>1. T # {}
    BY <1>2
  <2>. HIDE DEF T
  <2>. QED
    BY <1>2, <2>1, Least
<1>4. b \in A .. L /\ (b = L \/ text[b + 1] = NL) /\ b \in 1 .. L
  BY <1>2
<1>5. text[A] # NL
  BY <1>1
<1>6. A = 1 \/ text[A - 1] = NL
  <2>1. Begins(text, A)
    <3>1. base + 0 + 1 = A
      BY <1>1
    <3>. QED
      BY <3>1 DEF Buffered
  <2>2. A # L + 1
    BY <1>2
  <2>. HIDE DEF A
  <2>. QED
    BY <1>5, <2>1, <2>2 DEF Begins
<1>7. \A p \in A .. b : text[p] # NL
  <2>. SUFFICES ASSUME NEW p \in A .. b PROVE text[p] # NL
    OBVIOUS
  <2>1. CASE p = A
    BY <1>5, <2>1
  <2>2. CASE p # A
    <3>1. PICK y : y = p - 1
      OBVIOUS
    <3>2. y \in A .. L /\ y + 1 = p /\ ~(b <= y)
      BY <1>1, <1>4, <2>2, <3>1
    <3>3. y \notin T
      BY <1>3, <3>2
    <3>. QED
      BY <3>2, <3>3
  <2>. QED
    BY <2>1, <2>2
<1>. HIDE DEF A, T
<1>8. IsLine(text, A, b)
  BY <1>4, <1>6, <1>7 DEF IsLine
<1>9. b - A < BUFSIZE
  <2>1. A \in DOMAIN text /\ b \in DOMAIN text
    BY <1>2, <1>4
  <2>. QED
    BY <1>8, <2>1
<1>10. PICK z : z = base + BUFSIZE
  OBVIOUS
<1>11. z \in A .. L
  BY <1>1, <1>10 DEF A
<1>12. CASE b < z
  <2>1. b # L /\ b + 1 \in A .. L
    BY <1>1, <1>2, <1>4, <1>11, <1>12
  <2>2. PICK x : x = b + 1 - base
    OBVIOUS
  <2>3. x \in 0 + 1 .. BUFSIZE /\ base + x = b + 1
    BY <1>1, <1>4, <1>10, <1>12, <2>2 DEF A
  <2>. QED
    BY <1>1, <1>4, <2>1, <2>3
<1>13. CASE b = z
  BY <1>4, <1>10, <1>13
<1>14. CASE b > z
  BY <1>1, <1>4, <1>9, <1>10, <1>14 DEF A
<1>. QED
  BY <1>4, <1>11, <1>12, <1>13, <1>14

\* The buffer when a line in it has been ended, and with the line at its front.
Ended(bytes, e) == [bytes EXCEPT ![e + 1] = NUL]
Moved(ended, f) == Copied(ended, Append(Text(SubSeq(ended, f + 1, Len(ended))), NUL))

LEMMA EndedIs ==
    ASSUME NEW bytes, NEW n, NEW f, NEW e, LineIn(bytes, n, f, e),
           NEW text \in Seq(Bytes), NEW base, Buffered(bytes, n, text, base, f),
           NEW ended, ended = Ended(bytes, e)
    PROVE  /\ BUFSIZE \in Nat \ {0} /\ n \in Nat /\ f \in Nat /\ e \in Nat
           /\ f <= e /\ e <= n /\ n <= BUFSIZE
           /\ base \in Nat /\ base + n <= Len(text) /\ Len(text) \in Nat
           /\ ended \in [1 .. BUFSIZE + 1 -> Bytes] /\ ended \in Seq(Bytes)
           /\ Len(ended) = BUFSIZE + 1 /\ Len(bytes) = BUFSIZE + 1
           /\ \A x \in 1 .. BUFSIZE + 1 : ended[x] = IF x = e + 1 THEN NUL ELSE bytes[x]
           /\ \A x \in 1 .. BUFSIZE + 1 : x <= e + 1 \/ x > n => ended[x] # NL
<1>1. /\ BUFSIZE \in Nat \ {0} /\ n \in Nat /\ f \in Nat /\ e \in Nat
      /\ f <= e /\ e <= n /\ n <= BUFSIZE
      /\ base \in Nat /\ base + n <= Len(text) /\ Len(text) \in Nat
      /\ Len(bytes) = BUFSIZE + 1
      /\ \A x \in f + 1 .. e : bytes[x] # NL
  BY LineInIs
<1>2. bytes \in [1 .. BUFSIZE + 1 -> Bytes] /\ NUL \in Bytes /\ NUL # NL
  BY Outputs DEF LineIn, NUL, NL
<1>3. /\ ended \in [1 .. BUFSIZE + 1 -> Bytes]
      /\ \A x \in 1 .. BUFSIZE + 1 : ended[x] = IF x = e + 1 THEN NUL ELSE bytes[x]
  <2>1. e + 1 \in 1 .. BUFSIZE + 1
    BY <1>1
  <2>. QED
    BY <1>2, <2>1 DEF Ended
<1>4. ended \in Seq(Bytes) /\ Len(ended) = BUFSIZE + 1
  BY <1>3, Sizes, FunctionIsSeq
<1>5. ASSUME NEW x \in 1 .. BUFSIZE + 1, x <= e + 1 \/ x > n PROVE ended[x] # NL
  <2>1. CASE x = e + 1
    BY <1>2, <1>3, <2>1
  <2>2. CASE x # e + 1
    <3>1. ended[x] = bytes[x]
      BY <1>3, <2>2
    <3>2. x \in f + 1 .. e \/ x <= f \/ x > n
      BY <1>1, <1>5, <2>2
    <3>. QED
      BY <1>1, <3>1, <3>2 DEF Buffered
  <2>. QED
    BY <2>1, <2>2
<1>. QED
  BY <1>1, <1>3, <1>4, <1>5

\* The line behind the one that was searched is next in the buffer.
LEMMA NextBuffered ==
    ASSUME NEW bytes, NEW n, NEW f, NEW e, LineIn(bytes, n, f, e), e < n,
           NEW text \in Seq(Bytes), NEW base, Buffered(bytes, n, text, base, f),
           NEW ended, ended = Ended(bytes, e),
           Begins(text, base + (e + 1) + 1)
    PROVE  Buffered(ended, n, text, base, e + 1)
<1>1. /\ BUFSIZE \in Nat \ {0} /\ n \in Nat /\ f \in Nat /\ e \in Nat
      /\ f <= e /\ e <= n /\ n <= BUFSIZE
      /\ base \in Nat /\ base + n <= Len(text)
      /\ \A x \in 1 .. BUFSIZE + 1 : ended[x] = IF x = e + 1 THEN NUL ELSE bytes[x]
      /\ \A x \in 1 .. BUFSIZE + 1 : x <= e + 1 \/ x > n => ended[x] # NL
  BY EndedIs
<1>2. \A x \in e + 1 + 1 .. n : ended[x] = text[base + x]
  <2>. SUFFICES ASSUME NEW x \in e + 1 + 1 .. n PROVE ended[x] = text[base + x]
    OBVIOUS
  <2>1. x \in 1 .. BUFSIZE + 1 /\ x # e + 1 /\ x \in f + 1 .. n
    BY <1>1
  <2>. QED
    BY <1>1, <2>1 DEF Buffered
<1>. QED
  BY <1>1, <1>2 DEF Buffered

\* The buffer has been searched.
LEMMA SearchedBuffered ==
    ASSUME NEW bytes, NEW n, NEW f, NEW e, LineIn(bytes, n, f, e), e + 1 >= n,
           NEW text \in Seq(Bytes), NEW base, Buffered(bytes, n, text, base, f),
           NEW ended, ended = Ended(bytes, e),
           NEW b, b = base + n, Begins(text, b + 1)
    PROVE  Buffered(ended, 0, text, b, 0) /\ NoNewline(ended, 0)
<1>1. /\ n \in Nat /\ e \in Nat /\ BUFSIZE \in Nat
      /\ base \in Nat /\ base + n <= Len(text)
      /\ \A x \in 1 .. BUFSIZE + 1 : x <= e + 1 \/ x > n => ended[x] # NL
  BY EndedIs
<1>2. \A x \in 1 .. BUFSIZE + 1 : ended[x] # NL
  BY <1>1
<1>3. b \in Nat /\ b + 0 <= Len(text) /\ b + 0 + 1 = b + 1
  BY <1>1
<1>4. \A x \in 0 + 1 .. 0 : FALSE
  OBVIOUS
<1>. QED
  BY <1>2, <1>3, <1>4 DEF Buffered, NoNewline

\* The last line is moved to the front of the buffer.
LEMMA KeptBuffered ==
    ASSUME NEW bytes, NEW n, NEW f, NEW e, LineIn(bytes, n, f, e), e = n,
           NEW text \in Seq(Bytes), NEW base, Buffered(bytes, n, text, base, f),
           NUL \notin Range(text),
           NEW ended, ended = Ended(bytes, e),
           NEW kept, kept = Moved(ended, f)
    PROVE  Buffered(kept, n - f, text, base + f, 0) /\ NoNewline(kept, n - f)
<1>1. /\ BUFSIZE \in Nat \ {0} /\ n \in Nat /\ f \in Nat /\ e \in Nat
      /\ f <= e /\ e <= n /\ n <= BUFSIZE
      /\ base \in Nat /\ base + n <= Len(text) /\ Len(text) \in Nat
      /\ ended \in [1 .. BUFSIZE + 1 -> Bytes] /\ ended \in Seq(Bytes)
      /\ Len(ended) = BUFSIZE + 1 /\ Len(bytes) = BUFSIZE + 1
      /\ \A x \in 1 .. BUFSIZE + 1 : ended[x] = IF x = e + 1 THEN NUL ELSE bytes[x]
      /\ \A x \in 1 .. BUFSIZE + 1 : x <= e + 1 \/ x > n => ended[x] # NL
  BY EndedIs
<1>2. \A x \in f + 1 .. n : bytes[x] = text[base + x] /\ bytes[x] # NL
  BY LineInIs
<1>3. PICK m \in Nat : m = n - f
  BY <1>1
<1>4. PICK w \in Nat : w = BUFSIZE + 1 - f
  BY <1>1
<1>5. f + w = BUFSIZE + 1 /\ m < w /\ f + (m + 1) = n + 1
  BY <1>1, <1>3, <1>4
<1>6. PICK tail : tail = SubSeq(ended, f + 1, f + w)
  OBVIOUS
<1>7. tail \in Seq(Bytes) /\ Len(tail) = w /\ \A x \in 1 .. w : tail[x] = ended[f + x]
  BY <1>1, <1>5, <1>6, PartFrom
<1>8. ASSUME NEW x \in 1 .. m
      PROVE  tail[x] = text[base + f + x] /\ tail[x] # NUL /\ tail[x] # NL
  <2>1. /\ x \in 1 .. w /\ f + x \in 1 .. BUFSIZE + 1 /\ f + x # e + 1 /\ f + x \in f + 1 .. n
        /\ base + (f + x) = base + f + x /\ base + f + x \in 1 .. Len(text)
    BY <1>1, <1>3, <1>4
  <2>2. tail[x] = text[base + f + x] /\ tail[x] # NL
    BY <1>1, <1>2, <1>7, <2>1
  <2>3. text[base + f + x] # NUL
    BY <2>1 DEF Range
  <2>. QED
    BY <2>2, <2>3
<1>9. tail[m + 1] = NUL
  <2>1. m + 1 \in 1 .. w /\ n + 1 \in 1 .. BUFSIZE + 1
    BY <1>1, <1>5
  <2>. QED
    BY <1>1, <1>5, <1>7, <2>1
<1>10. PICK line : line = Text(tail)
  OBVIOUS
<1>11. line = SubSeq(tail, 1, m)
  <2>1. m \in 0 .. Len(tail)
    BY <1>5, <1>7
  <2>2. \A x \in 1 .. m : tail[x] # NUL
    BY <1>8
  <2>. QED
    BY <1>7, <1>9, <1>10, <2>1, <2>2, TextType
<1>12. line \in Seq(Bytes) /\ Len(line) = m /\ \A x \in 1 .. m : line[x] = tail[x]
  <2>1. 0 \in Nat /\ 0 + m <= Len(tail) /\ 0 + 1 = 1 /\ 0 + m = m
    BY <1>5, <1>7
  <2>2. /\ SubSeq(tail, 0 + 1, 0 + m) \in Seq(Bytes) /\ Len(SubSeq(tail, 0 + 1, 0 + m)) = m
        /\ \A x \in 1 .. m : SubSeq(tail, 0 + 1, 0 + m)[x] = tail[0 + x]
    BY <1>7, <2>1, PartFrom
  <2>3. \A x \in 1 .. m : 0 + x = x
    OBVIOUS
  <2>. QED
    BY <1>11, <2>1, <2>2, <2>3
<1>13. PICK front : front = Append(line, NUL)
  OBVIOUS
<1>14. /\ front \in Seq(Bytes) /\ Len(front) = m + 1
       /\ \A x \in 1 .. m : front[x] = tail[x]
       /\ front[m + 1] = NUL
  BY <1>12, <1>13, Outputs, AppendProperties
<1>15. kept = Copied(ended, front)
  <2>1. tail = SubSeq(ended, f + 1, Len(ended))
    BY <1>1, <1>5, <1>6
  <2>. QED
    BY <1>10, <1>13, <2>1 DEF Moved
<1>16. \A x \in 1 .. BUFSIZE + 1 : kept[x] = IF x <= m + 1 THEN front[x] ELSE ended[x]
  <2>1. \A x \in 1 .. BUFSIZE + 1 :
           Copied(ended, front)[x] = IF x <= Len(front) THEN front[x] ELSE ended[x]
    BY <1>1, <1>14, CopiedType
  <2>. QED
    BY <1>14, <1>15, <2>1
<1>17. \A x \in 1 .. m : kept[x] = text[base + f + x] /\ kept[x] # NL
  <2>. SUFFICES ASSUME NEW x \in 1 .. m
                PROVE  kept[x] = text[base + f + x] /\ kept[x] # NL
    OBVIOUS
  <2>1. x \in 1 .. BUFSIZE + 1 /\ x <= m + 1
    BY <1>1, <1>3
  <2>. QED
    BY <1>8, <1>14, <1>16, <2>1
<1>18. ASSUME NEW x \in 1 .. BUFSIZE + 1, x > m PROVE kept[x] # NL
  <2>1. CASE x = m + 1
    BY <1>14, <1>16, <2>1 DEF NUL, NL
  <2>2. CASE x # m + 1
    <3>1. kept[x] = ended[x]
      <4>1. ~(x <= m + 1)
        BY <1>1, <1>3, <1>18, <2>2
      <4>. QED
        BY <1>16, <1>18, <4>1
    <3>2. x <= e + 1 \/ x > n
      BY <1>1
    <3>. QED
      BY <1>1, <3>1, <3>2
  <2>. QED
    BY <2>1, <2>2
<1>19. Begins(text, base + f + 0 + 1)
  <2>1. base + f + 0 + 1 = base + f + 1
    BY <1>1
  <2>. QED
    BY <2>1 DEF Buffered
<1>20. base + f \in Nat /\ base + f + m <= Len(text)
  BY <1>1, <1>3
<1>21. \A x \in 0 + 1 .. m : x \in 1 .. m
  OBVIOUS
<1>22. Buffered(kept, m, text, base + f, 0) /\ NoNewline(kept, m)
  BY <1>17, <1>18, <1>19, <1>20, <1>21 DEF Buffered, NoNewline
<1>. QED
  BY <1>3, <1>22

Associate(p, a, b) == (p \o a) \o b = p \o (a \o b)

LEMMA Associates ==
    ASSUME NEW S, NEW p \in Seq(S), NEW a \in Seq(S), NEW b \in Seq(S)
    PROVE  Associate(p, a, b)
BY ConcatAssociative DEF Associate

Regroup(p, a, b, c, d, r) ==
    (p \o a \o b \o c \o d) \o r = p \o ((a \o b \o c \o d) \o r)

LEMMA Regroups ==
    ASSUME NEW S, NEW p \in Seq(S), NEW a \in Seq(S), NEW b \in Seq(S), NEW c \in Seq(S),
           NEW d \in Seq(S), NEW r \in Seq(S)
    PROVE  Regroup(p, a, b, c, d, r)
<1>. PICK x : x = a \o b \o c \o d
  OBVIOUS
<1>1. /\ a \o b \in Seq(S) /\ a \o b \o c \in Seq(S) /\ x \in Seq(S)
  <2>1. a \o b \in Seq(S)
    BY ConcatProperties
  <2>2. a \o b \o c \in Seq(S)
    BY <2>1, ConcatProperties
  <2>. QED
    BY <2>1, <2>2, ConcatProperties
<1>2. Associate(p, a, b)
  BY Associates
<1>3. Associate(p, a \o b, c)
  BY <1>1, Associates
<1>4. Associate(p, a \o b \o c, d)
  BY <1>1, Associates
<1>5. Associate(p, x, r)
  BY <1>1, Associates
<1>. QED
  BY <1>2, <1>3, <1>4, <1>5 DEF Associate, Regroup

\* What is printed of a line, and what the rest of the text will add.
LEMMA PrintsLine ==
    ASSUME ProgramsInv, NEW line \in Seq(Bytes), NEW s, NEW rest \in Seq(Bytes), NEW from,
           GoesOn(from, Shown(fname, line, s), rest), NEW after,
           after = IF Matches(line, s) THEN printed \o fname \o <<":">> \o Text(line) \o <<NL>>
                                       ELSE printed
    PROVE  GoesOn(printed \o from, after, rest)
<1>1. {printed, fname, <<":">>, Text(line), <<NL>>, rest} \subseteq Seq(Output)
  BY TextType, Outputs, InvOfPrograms
<1>2. CASE Matches(line, s)
  <2>1. PICK t : t = Text(line)
    OBVIOUS
  <2>2. Regroup(printed, fname, <<":">>, t, <<NL>>, rest)
    BY <1>1, <2>1, Regroups
  <2>. QED
    BY <1>2, <2>1, <2>2 DEF Regroup, GoesOn, Shown
<1>3. CASE ~Matches(line, s)
  <2>1. <<>> \o rest = rest
    BY ConcatEmptySeq
  <2>. QED
    BY <1>3, <2>1 DEF GoesOn, Shown
<1>. QED
  BY <1>2, <1>3

\* The last line of the buffer is searched only when it ends there.
LEMMA LastLineEnds ==
    ASSUME Searchable, NEW k \in DOMAIN Entries, Entries[k].type \in {"file", "rtc"},
           NEW text, text = Held(k), text \in Seq(Bytes),
           NEW bytes, NEW n, NEW f, LineIn(bytes, n, f, n),
           NEW base, Buffered(bytes, n, text, base, f),
           f = 0 \/ base + n = Len(text),
           n = BUFSIZE \/ base + n = Len(text)
    PROVE  base + n = Len(text) \/ text[base + n + 1] = NL
<1>1. base \in Nat /\ n \in Nat /\ base + n <= Len(text) /\ Len(text) \in Nat
  BY LineInIs
<1>2. CASE Entries[k].type = "rtc"
  <2>1. Len(text) = 0
    BY <1>2, HeldClock
  <2>. QED
    BY <1>1, <2>1
<1>3. CASE Entries[k].type = "file" /\ base + n # Len(text)
  <2>1. n = BUFSIZE /\ f = 0
    BY <1>3
  <2>2. LineIn(bytes, BUFSIZE, 0, BUFSIZE) /\ Buffered(bytes, BUFSIZE, text, base, 0)
    BY <2>1
  <2>3. \A a, b \in DOMAIN text : IsLine(text, a, b) => b - a < BUFSIZE
    BY <1>3 DEF Searchable
  <2>4. base + BUFSIZE = Len(text) \/ text[base + BUFSIZE + 1] = NL
    BY <2>2, <2>3, FullBufferEnds
  <2>. QED
    BY <2>1, <2>4
<1>. QED
  BY <1>2, <1>3

LEMMA GrepSearchesAnswers ==
    ASSUME ProgramsInv, Answers, PlainImage, GrepSearches
    PROVE  Answers'
<1>1. PICK e : e = LineEnd
  OBVIOUS
<1>2. PICK ended : ended = Ended(data, e)
  OBVIOUS
<1>3. PICK line : line = SubSeq(data, start + 1, e)
  OBVIOUS
<1>4. /\ prog = "grep" /\ pc = "line"
      /\ UNCHANGED <<fd_arr, alive, ret, buf, args, prog, asked, dir, file, fname>>
      /\ \/ /\ Kept(e)
            /\ data' = Copied(ended, Append(Text(SubSeq(ended, start + 1, Len(data))), NUL))
            /\ last' = last - start
            /\ pc' = IF ret = 0 THEN "close" ELSE "search"
            /\ start' = start /\ printed' = printed
         \/ /\ ~Kept(e)
            /\ data' = ended
            /\ start' = e + 1
            /\ last' = IF start' >= last THEN 0 ELSE last
            /\ pc' = IF start' >= last THEN IF ret = 0 THEN "close" ELSE "search" ELSE "line"
            /\ printed' = IF Matches(line, Text(args))
                             THEN printed \o fname \o <<":">> \o Text(line) \o <<NL>>
                             ELSE printed
  BY <1>1, <1>2, <1>3 DEF GrepSearches, At, vars, Ended
<1>5. ASSUME Answerable(asked) PROVE Answered'
  <2>1. /\ Inv /\ GrepAnswers /\ RunsCommand /\ Rest(asked) # <<>> /\ Searchable
        /\ start <= last /\ (start = last => last = 0)
        /\ start \in Nat /\ last \in Nat /\ last <= BUFSIZE /\ BUFSIZE \in Nat \ {0}
        /\ data \in [1 .. BUFSIZE + 1 -> Bytes] /\ Len(data) = BUFSIZE + 1
    BY <1>4, <1>5, GrepRuns, InvOfPrograms, Sizes DEF Places
  <2>2. PICK k : k = fd_arr[dir].file_pos
    OBVIOUS
  <2>3. PICK s : s = Rest(asked)
    OBVIOUS
  <2>4. PICK pos : pos = fd_arr[file].file_pos
    OBVIOUS
  <2>5. PICK n : n = last
    OBVIOUS
  <2>6. PICK f : f = start
    OBVIOUS
  <2>7. PICK text : text = Held(k)
    OBVIOUS
  <2>8. PICK bytes : bytes = data
    OBVIOUS
  <2>9. PICK base : base = pos - n
    OBVIOUS
  <2>10. /\ Named(fname, k) /\ Entries[k].type \in {"file", "rtc"}
         /\ Reading(file, k)
         /\ Buffered(bytes, n, text, base, f)
         /\ n = BUFSIZE \/ pos = Len(text)
         /\ ret = 0 => f = 0 /\ pos = Len(text) /\ NoNewline(bytes, n)
         /\ printed \o LinesFrom(k, s)[base + f + 1] = GrepUpTo(k, s)
    BY <1>4, <2>1, <2>2, <2>3, <2>4, <2>5, <2>6, <2>7, <2>8, <2>9 DEF GrepAnswers
  <2>11. PICK j \in DOMAIN Entries : Named(<<".">>, j) /\ Reading(dir, j)
    BY <1>4, <2>1 DEF GrepAnswers
  <2>12. Reading(file, k)' /\ Reading(dir, j)'
    BY <1>4, <2>10, <2>11 DEF Reading, IsOpen
  <2>13. k \in DOMAIN Entries /\ Entries[k].name = fname
    BY <2>10 DEF Named
  <2>14. text \in Seq(Bytes) /\ NUL \notin Range(text)
    <3>1. text \in Seq(Bytes)
      BY <2>7, <2>10, <2>13, FoundIs
    <3>2. CASE Entries[k].type = "file"
      BY <2>1, <2>7, <2>13, <3>1, <3>2 DEF Searchable
    <3>3. CASE Entries[k].type = "rtc"
      <4>1. text = <<>>
        BY <2>7, <3>3, HeldClock
      <4>. QED
        BY <3>1, <4>1 DEF Range
    <3>. QED
      BY <2>10, <3>1, <3>2, <3>3
  <2>15. LineIn(bytes, n, f, e)
    <3>1. /\ e \in start .. last
          /\ e = last \/ data[e + 1] = NL
          /\ \A i \in start .. e - 1 : data[i + 1] # NL
      BY <1>1, <2>1, LineEndIs
    <3>2. n \in 0 .. BUFSIZE /\ f \in 0 .. n /\ e \in f .. n
      BY <2>1, <2>5, <2>6, <3>1
    <3>. QED
      BY <2>1, <2>5, <2>6, <2>8, <3>1, <3>2 DEF LineIn
  <2>16. /\ BUFSIZE \in Nat \ {0} /\ bytes \in Seq(Bytes) /\ Len(bytes) = BUFSIZE + 1
         /\ n \in Nat /\ f \in Nat /\ e \in Nat /\ f <= e /\ e <= n /\ n <= BUFSIZE
         /\ base \in Nat /\ base + n <= Len(text) /\ Len(text) \in Nat
    BY <2>10, <2>14, <2>15, LineInIs
  <2>17. ended = Ended(bytes, e) /\ line = SubSeq(bytes, f + 1, e)
    BY <1>2, <1>3, <2>6, <2>8
  <2>18. PICK held : held = bytes[e + 1]
    OBVIOUS
  <2>19. pos \in Nat /\ pos = base + n
    <3>1. pos \in Nat
      BY <2>1, <2>4, <2>10, AboveFds, FieldTypes DEF Reading, IsOpen, Inv
    <3>. QED
      BY <2>9, <2>16, <3>1
  <2>20. /\ fd_arr'[dir'].file_pos = k /\ fd_arr'[file'].file_pos = pos
         /\ Rest(asked') = s /\ Named(fname', k) /\ ret' = ret
    BY <1>4, <2>2, <2>3, <2>4, <2>10
  \* At the front of the buffer nothing is, or a line that goes on.
  <2>21. ASSUME pc' = "search", NEW b, b = pos - last',
                Buffered(data', last', text, b, 0), NoNewline(data', last'),
                printed' \o LinesFrom(k, s)[b + 1] = GrepUpTo(k, s)
         PROVE  Answered'
    <3>1. GrepAnswers'
      BY <2>7, <2>10, <2>11, <2>12, <2>20, <2>21 DEF GrepAnswers
    <3>. QED
      BY <1>4, <1>5, <2>21, <3>1, GrepGoesOn
  <2>22. CASE /\ Kept(e)
              /\ data' = Copied(ended, Append(Text(SubSeq(ended, start + 1, Len(data))), NUL))
              /\ last' = last - start
              /\ pc' = IF ret = 0 THEN "close" ELSE "search"
              /\ start' = start /\ printed' = printed
    <3>1. bytes[e + 1] # NL /\ ret # 0 /\ e = n
      BY <2>8, <2>15, <2>22 DEF Kept, LineIn
    <3>2. data' = Moved(ended, f)
      <4>1. Len(ended) = Len(data)
        BY <2>8, <2>10, <2>14, <2>15, <2>17, EndedIs
      <4>. QED
        BY <2>6, <2>22, <4>1 DEF Moved
    <3>3. Buffered(data', n - f, text, base + f, 0) /\ NoNewline(data', n - f)
      BY <2>10, <2>14, <2>15, <2>17, <3>1, <3>2, KeptBuffered
    <3>4. pc' = "search" /\ last' = n - f /\ base + f = pos - last' /\ printed' = printed
      BY <2>5, <2>6, <2>16, <2>19, <2>22, <3>1
    <3>5. PICK b : b = base + f
      OBVIOUS
    <3>6. Buffered(data', last', text, b, 0) /\ NoNewline(data', last')
      BY <3>3, <3>4, <3>5
    <3>7. printed' \o LinesFrom(k, s)[b + 1] = GrepUpTo(k, s)
      BY <2>10, <3>4, <3>5
    <3>. QED
      BY <2>21, <3>4, <3>5, <3>6, <3>7
  <2>23. CASE /\ ~Kept(e)
              /\ data' = ended
              /\ start' = e + 1
              /\ last' = IF start' >= last THEN 0 ELSE last
              /\ pc' = IF start' >= last THEN IF ret = 0 THEN "close" ELSE "search" ELSE "line"
              /\ printed' = IF Matches(line, Text(args))
                               THEN printed \o fname \o <<":">> \o Text(line) \o <<NL>>
                               ELSE printed
    <3>1. e = n => base + n = Len(text) \/ text[base + n + 1] = NL
      <4>. SUFFICES ASSUME e = n PROVE base + n = Len(text) \/ text[base + n + 1] = NL
        OBVIOUS
      <4>1. bytes[n + 1] # NL
        <5>1. n + 1 \in 1 .. BUFSIZE + 1 /\ n + 1 > n
          BY <2>16
        <5>. QED
          BY <2>10, <5>1 DEF Buffered
      <4>2. ret = 0 \/ f = 0
        BY <2>6, <2>8, <2>23, <4>1 DEF Kept
      <4>3. f = 0 \/ base + n = Len(text)
        BY <2>10, <2>19, <4>2
      <4>4. n = BUFSIZE \/ base + n = Len(text)
        BY <2>10, <2>19
      <4>5. LineIn(bytes, n, f, n)
        BY <2>15
      <4>. QED
        BY <2>1, <2>7, <2>10, <2>13, <2>14, <4>3, <4>4, <4>5, LastLineEnds
    <3>2. PICK rest : rest = LinesFrom(k, s)[base + e + 1]
      OBVIOUS
    <3>3. printed' \o rest = GrepUpTo(k, s)
      <4>1. s \in Seq(Bytes) /\ s # <<>> /\ Text(args) = s
        BY <2>1, <2>3, TextType, InvOfPrograms DEF RunsCommand
      <4>2. PICK from : from = LinesFrom(k, s)[base + f + 1]
        OBVIOUS
      <4>3. GoesOn(from, Shown(fname, line, s), rest)
        BY <2>7, <2>10, <2>13, <2>14, <2>15, <2>17, <3>1, <3>2, <4>1, <4>2, LineAdds
      <4>4. rest \in Seq(Bytes)
        <5>1. base + e + 1 \in 1 .. Len(text) + 1
          BY <2>16
        <5>. QED
          BY <2>7, <2>13, <2>14, <3>2, <5>1, LinesType
      <4>5. line \in Seq(Bytes)
        <5>1. PICK m \in Nat : m = e - f
          BY <2>16
        <5>2. f + m <= Len(bytes) /\ line = SubSeq(bytes, f + 1, f + m)
          BY <2>16, <2>17, <5>1
        <5>. QED
          BY <2>16, <5>2, PartFrom
      <4>6. PICK after : after = printed'
        OBVIOUS
      <4>7. GoesOn(printed \o from, after, rest)
        BY <2>23, <4>1, <4>3, <4>4, <4>5, <4>6, PrintsLine
      <4>. QED
        BY <2>10, <4>2, <4>6, <4>7 DEF GoesOn
    <3>4. data' = ended /\ start' = e + 1
      BY <2>23
    \* The buffer has been searched.
    <3>5. ASSUME e + 1 >= n, ret # 0, Begins(text, pos + 1),
                 printed' \o LinesFrom(k, s)[pos + 1] = GrepUpTo(k, s)
          PROVE  Answered'
      <4>1. last' = 0 /\ pc' = "search" /\ pos = pos - last'
        BY <2>5, <2>16, <2>19, <2>23, <3>5
      <4>2. Buffered(ended, 0, text, pos, 0) /\ NoNewline(ended, 0)
        BY <2>10, <2>14, <2>15, <2>17, <2>19, <3>5, SearchedBuffered
      <4>. QED
        BY <2>21, <3>4, <3>5, <4>1, <4>2
    <3>6. CASE e < n
      <4>1. ret # 0
        <5>1. bytes[e + 1] = NL /\ e + 1 \in 1 .. n
          BY <2>15, <2>16, <3>6 DEF LineIn
        <5>. QED
          BY <2>10, <5>1 DEF NoNewline
      <4>2. /\ rest = LinesFrom(k, s)[base + (e + 1) + 1]
            /\ Begins(text, base + (e + 1) + 1)
        BY <2>7, <2>10, <2>13, <2>14, <2>15, <3>2, <3>6, NewlineAddsNone
      <4>3. CASE e + 1 < n
        <5>1. last' = n /\ pc' = "line" /\ base = pos - last' /\ pos - last' = base
          BY <2>5, <2>9, <2>16, <2>23, <4>3
        <5>2. Buffered(ended, n, text, base, e + 1)
          BY <2>10, <2>14, <2>15, <2>17, <3>6, <4>2, NextBuffered
        <5>3. printed' \o LinesFrom(k, s)[base + start' + 1] = GrepUpTo(k, s)
          BY <3>3, <3>4, <4>2
        <5>4. Buffered(data', last', text, base, start') /\ (last' = BUFSIZE \/ pos = Len(text))
          BY <2>10, <3>4, <5>1, <5>2
        <5>5. GrepAnswers'
          BY <2>7, <2>10, <2>11, <2>12, <2>20, <4>1, <5>1, <5>3, <5>4 DEF GrepAnswers
        <5>. QED
          BY <1>4, <1>5, <5>1, <5>5, GrepGoesOn
      <4>4. CASE e + 1 >= n
        <5>1. base + (e + 1) = pos
          BY <2>16, <2>19, <3>6, <4>4
        <5>. QED
          BY <3>3, <3>5, <4>1, <4>2, <4>4, <5>1
      <4>. QED
        BY <2>16, <4>3, <4>4
    <3>7. CASE e = n
      <4>1. pos = Len(text) \/ text[pos + 1] = NL
        BY <2>19, <3>1, <3>7
      <4>2. rest = LinesFrom(k, s)[pos + 1] /\ e + 1 >= n
        BY <2>16, <2>19, <3>2, <3>7
      <4>3. Begins(text, pos + 1)
        BY <4>1 DEF Begins
      <4>4. CASE ret = 0
        <5>1. pos = Len(text)
          BY <2>10, <4>4
        <5>2. rest = <<>>
          BY <2>7, <2>14, <4>2, <5>1, LinesGoBack
        <5>3. printed' = GrepUpTo(k, s)
          <6>1. PICK after : after = printed'
            OBVIOUS
          <6>2. after \in Seq(Output)
            BY <6>1, GrepSearchesKeeps DEF ProgramsInv, ProgramsTypeOK, Output
          <6>3. after \o <<>> = after
            BY <6>2, ConcatEmptySeq
          <6>. QED
            BY <3>3, <5>2, <6>1, <6>3
        <5>4. pc' = "close"
          BY <2>5, <2>23, <3>4, <4>2, <4>4
        <5>5. GrepAnswers'
          BY <2>10, <2>11, <2>12, <2>20, <5>3, <5>4 DEF GrepAnswers
        <5>. QED
          BY <1>4, <1>5, <5>4, <5>5, GrepGoesOn
      <4>5. CASE ret # 0
        BY <3>3, <3>5, <4>2, <4>3, <4>5
      <4>. QED
        BY <4>4, <4>5
    <3>. QED
      BY <2>16, <3>6, <3>7
  <2>. QED
    BY <1>4, <2>22, <2>23
<1>. QED
  BY <1>4, <1>5, AskedStays

LEMMA AnswersInit == ProgramsInit => Answers
<1>. SUFFICES ASSUME ProgramsInit PROVE Answers
  OBVIOUS
<1>1. /\ pc = "prompt" /\ prog = "shell" /\ ~alive
      /\ asked = <<>> /\ printed = <<>>
  BY DEF ProgramsInit, Init
<1>2. asked \in NotRun /\ printed = Meaning(asked)
  BY <1>1, NotRunMeans DEF NotRun
<1>3. NUL \notin Range(asked)
  BY <1>1 DEF Range
<1>. QED
  BY <1>1, <1>2, <1>3 DEF Answers, Answered

LEMMA AnswersStep ==
    ASSUME PlainImage, PlainInput
    PROVE  ProgramsInv /\ Answers /\ [ProgramsNext]_programsVars => Answers'
<1>. SUFFICES ASSUME ProgramsInv, Answers, [ProgramsNext]_programsVars PROVE Answers'
  OBVIOUS
<1>1. CASE ShellReads
  BY <1>1, ShellReadsAnswers
<1>2. CASE ExecuteFails \/ ExecuteStarts
  BY <1>2, ExecuteFailsAnswers, ExecuteStartsAnswers
<1>3. CASE CatStarts \/ LsStarts \/ ReadAndWrite
  BY <1>3, CatStartsAnswers, LsStartsAnswers, ReadAndWriteAnswers
<1>4. CASE GrepStarts \/ GrepNext \/ GrepOpens
  BY <1>4, GrepStartsAnswers, GrepNextAnswers, GrepOpensAnswers
<1>5. CASE GrepReads \/ GrepSearches \/ GrepCloses
  BY <1>5, GrepReadsAnswers, GrepSearchesAnswers, GrepClosesAnswers
<1>6. CASE Returns \/ UnknownEnds
  BY <1>6, ReturnsAnswers, UnknownEndsAnswers
<1>7. CASE UNCHANGED programsVars
  <2>1. UNCHANGED <<fd_arr, alive, ret, buf, args, pc, prog, asked, printed, dir, file, fname,
                    data, last, start>>
    BY <1>7 DEF programsVars, vars, local
  <2>2. ASSUME NEW d, NEW i, Reading(d, i) PROVE Reading(d, i)'
    BY <2>1, <2>2 DEF Reading, IsOpen
  <2>3. CatAnswers => CatAnswers'
    BY <2>1, <2>2 DEF CatAnswers
  <2>4. LsAnswers => LsAnswers'
    BY <2>1, <2>2 DEF LsAnswers
  <2>5. GrepAnswers => GrepAnswers'
    BY <2>1, <2>2 DEF GrepAnswers
  <2>6. Answered => Answered'
    BY <2>1, <2>3, <2>4, <2>5 DEF Answered, RunsCommand
  <2>. QED
    BY <2>1, <2>6 DEF Answers
<1>. QED
  BY <1>1, <1>2, <1>3, <1>4, <1>5, <1>6, <1>7 DEF ProgramsNext, Runs

\* At every step what a program has printed is the part of the command's meaning up to
\* where its descriptors stand, with what it holds and has not shown yet: cat and
\* ls over any files and reads, grep over any lines that its buffer has room for.
THEOREM ProgramsAnswerOnTheWay ==
    ASSUME PlainImage, PlainInput
    PROVE  ProgramsSpec => []Answers
<1>1. ProgramsInit => ProgramsInv /\ Answers
  BY ProgramsInvInit, AnswersInit
<1>2. ProgramsInv /\ Answers /\ [ProgramsNext]_programsVars => ProgramsInv' /\ Answers'
  BY ProgramsInvStep, AnswersStep
<1>. QED
  BY <1>1, <1>2, PTL DEF ProgramsSpec

\* What a command leaves on the terminal is what that command means, for every plain
\* image, every size of names, buffers and blocks, and every sequence of commands
\* without zero bytes: execute, getargs, cat, ls and the shell, and grep if the image
\* is one it can search or does not have it.
THEOREM CommandsAreAnswered ==
    ASSUME PlainImage, PlainInput, Searchable \/ \A n \in DOMAIN Program : Program[n] # "grep"
    PROVE  ProgramsSpec => []AnswersCommand
<1>1. Fits(asked) => Answerable(asked)
  BY DEF Answerable, Greps
<1>2. Answers => AnswersCommand
  BY <1>1 DEF Answers, Answered, AnswersCommand
<1>. QED
  BY <1>2, ProgramsAnswerOnTheWay, PTL
=============================================================================
