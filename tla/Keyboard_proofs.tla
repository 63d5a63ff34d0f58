--------------------------- MODULE Keyboard_proofs ---------------------------
(***************************************************************************)
(* That the modifiers follow the keys, that every printable character can  *)
(* be typed and that the keys do what is written on them (Typist), for any *)
(* number of keys held and of presses and releases the device holds back.  *)
(***************************************************************************)
EXTENDS MCKeyboard, TLAPS

\* What the handler has seen and has still to see.
InputTypes ==
    /\ down \subseteq Keys
    /\ queue \in Seq(Events)
    /\ sent \in {0, 1}
    /\ sent = 1 => queue # <<>> /\ Head(queue).key.ext
    /\ mods \in Mods
    /\ held \subseteq Keys

Inv == InputTypes /\ ModsFollowKeys

LEMMA InvInit == Init => Inv
<1>1. SUFFICES ASSUME Init PROVE Inv
  OBVIOUS
<1>2. InputTypes
  BY <1>1 DEF Init, InputTypes, Mods
<1>3. ModsFollowKeys
  BY <1>1 DEF Init, ModsFollowKeys
<1>4. QED
  BY <1>2, <1>3 DEF Inv

\* No code is taken for the prefix or for another key's release.
LEMMA CodesDiffer ==
    ASSUME NEW e \in Events
    PROVE  /\ e.key \in Keys /\ e.make \in BOOLEAN
           /\ e.key.code \in 1 .. 95 /\ e.key.ext \in BOOLEAN
           /\ Code(e) # PREFIX
           /\ \A code \in 1 .. 95 :
                 /\ Code(e) = code <=> e.make /\ e.key.code = code
                 /\ Code(e) = code + 128 <=> ~e.make /\ e.key.code = code
<1>1. e.key \in Keys /\ e.make \in BOOLEAN
  BY DEF Events
<1>2. e.key.code \in 1 .. 95 /\ e.key.ext \in BOOLEAN
  BY <1>1, KeyboardAssumption
<1> DEFINE c == e.key.code
<1>3. (e.make => Code(e) = c) /\ (~e.make => Code(e) = c + 128)
  BY DEF Code
<1>4. c \in 1 .. 95
  BY <1>2
<1> HIDE DEF c
<1>5. Code(e) # PREFIX
  BY <1>3, <1>4 DEF PREFIX
<1>6. ASSUME NEW code \in 1 .. 95
      PROVE  /\ Code(e) = code <=> e.make /\ c = code
             /\ Code(e) = code + 128 <=> ~e.make /\ c = code
  <2>1. CASE e.make
    BY <1>3, <1>4, <2>1
  <2>2. CASE ~e.make
    BY <1>3, <1>4, <2>2
  <2>3. QED
    BY <2>1, <2>2
<1>7. QED
  BY <1>1, <1>2, <1>5, <1>6 DEF c

\* What a press or a release that the handler has seen makes of the keys held.
Seen(e) ==
    /\ e.make => held' = held \cup {e.key}
    /\ ~e.make => held' = held \ {e.key}

\* The flag of a key whose byte comes: it is on when the key is held afterwards.
LEMMA FlagFollows ==
    ASSUME NEW e \in Events, NEW code \in 1 .. 95, NEW key,
           NEW old \in BOOLEAN, old <=> key \in held,
           e.key.code = code <=> e.key = key,
           Seen(e)
    PROVE  Flag(old, Code(e), code) <=> key \in held'
<1>1. /\ Code(e) = code <=> e.make /\ e.key = key
      /\ Code(e) = code + 128 <=> ~e.make /\ e.key = key
      /\ e.make \in BOOLEAN
  BY CodesDiffer
<1>2. CASE e.key = key /\ e.make
  BY <1>1, <1>2 DEF Flag, Seen
<1>3. CASE e.key = key /\ ~e.make
  <2>1. Code(e) # code /\ Code(e) = code + 128
    BY <1>1, <1>3
  <2>2. Flag(old, Code(e), code) = FALSE
    BY <2>1 DEF Flag
  <2>3. QED
    BY <1>3, <2>2 DEF Seen
<1>4. CASE e.key # key
  <2>1. Code(e) # code /\ Code(e) # code + 128
    BY <1>1, <1>4
  <2>2. Flag(old, Code(e), code) = old
    BY <2>1 DEF Flag
  <2>3. key \in held' <=> key \in held
    BY <1>1, <1>4 DEF Seen
  <2>4. QED
    BY <2>2, <2>3
<1>5. QED
  BY <1>1, <1>2, <1>3, <1>4

\* The flag of a key on the other side stays.
LEMMA FlagStays ==
    ASSUME NEW e \in Events, NEW key, NEW old \in BOOLEAN, old <=> key \in held,
           e.key # key,
           Seen(e)
    PROVE  old <=> key \in held'
BY CodesDiffer DEF Seen

\* The prefix: no flag but that of the prefix changes.
LEMMA PrefixSeen ==
    ASSUME NEW m \in Mods
    PROVE  LET after == ModsAfter(m, PREFIX)
           IN  /\ after.lshift = m.lshift /\ after.rshift = m.rshift
               /\ after.lcontrol = m.lcontrol /\ after.rcontrol = m.rcontrol
               /\ after.lalt = m.lalt /\ after.ralt = m.ralt
               /\ after.extended = TRUE
<1>1. \A old : /\ Flag(old, PREFIX, 42) = old /\ Flag(old, PREFIX, 54) = old
               /\ Flag(old, PREFIX, 29) = old /\ Flag(old, PREFIX, 56) = old
  BY DEF Flag, PREFIX
<1>2. QED
  BY <1>1, Zenon DEF ModsAfter

LEMMA ModsType ==
    ASSUME NEW m \in Mods, NEW byte
    PROVE  ModsAfter(m, byte) \in Mods
BY DEF ModsAfter, Flag, Mods

\* A key is known by its code and its prefix.
LEMMA KeyEquality ==
    ASSUME NEW k \in [code : 1 .. 95, ext : BOOLEAN], NEW code \in 1 .. 95
    PROVE  /\ k = Left(code) <=> k.code = code /\ ~k.ext
           /\ k = Right(code) <=> k.code = code /\ k.ext
<1>1. k = [code |-> k.code, ext |-> k.ext] /\ k.ext \in BOOLEAN
  OBVIOUS
<1>2. Left(code).code = code /\ Left(code).ext = FALSE
  BY DEF Left
<1>3. Right(code).code = code /\ Right(code).ext = TRUE
  BY DEF Right
<1>4. k.code = code /\ ~k.ext => k = Left(code)
  BY <1>1 DEF Left
<1>5. k.code = code /\ k.ext => k = Right(code)
  BY <1>1 DEF Right
<1>6. QED
  BY <1>1, <1>2, <1>3, <1>4, <1>5

\* The last byte of a press or a release.
LEMMA LastByte ==
    ASSUME Inv, NEW e \in Events,
           mods' = ModsAfter(mods, Code(e)), sent' = 0,
           mods.extended <=> e.key.ext,
           Seen(e)
    PROVE  ModsFollowKeys'
<1>1. /\ e.key \in Keys /\ e.key \in [code : 1 .. 95, ext : BOOLEAN]
      /\ Code(e) # PREFIX
      /\ e.key.ext => e.key.code \notin {42, 54, 58}
  BY CodesDiffer, KeyboardAssumption
<1>2. /\ mods.lshift \in BOOLEAN /\ mods.rshift \in BOOLEAN
      /\ mods.lcontrol \in BOOLEAN /\ mods.rcontrol \in BOOLEAN
      /\ mods.lalt \in BOOLEAN /\ mods.ralt \in BOOLEAN
      /\ mods.extended \in BOOLEAN
  BY DEF Inv, InputTypes, Mods
<1>3. \A code \in 1 .. 95 :
          /\ e.key = Left(code) <=> e.key.code = code /\ ~e.key.ext
          /\ e.key = Right(code) <=> e.key.code = code /\ e.key.ext
  BY <1>1, KeyEquality
<1>4. /\ mods'.lshift = Flag(mods.lshift, Code(e), 42)
      /\ mods'.rshift = Flag(mods.rshift, Code(e), 54)
      /\ mods'.lcontrol = IF e.key.ext THEN mods.lcontrol
                                       ELSE Flag(mods.lcontrol, Code(e), 29)
      /\ mods'.rcontrol = IF e.key.ext THEN Flag(mods.rcontrol, Code(e), 29)
                                       ELSE mods.rcontrol
      /\ mods'.lalt = IF e.key.ext THEN mods.lalt ELSE Flag(mods.lalt, Code(e), 56)
      /\ mods'.ralt = IF e.key.ext THEN Flag(mods.ralt, Code(e), 56) ELSE mods.ralt
      /\ mods'.extended = FALSE
  BY <1>1, <1>2 DEF ModsAfter
<1> 42 \in 1 .. 95 /\ 54 \in 1 .. 95 /\ 29 \in 1 .. 95 /\ 56 \in 1 .. 95
  OBVIOUS
<1>5. mods'.lshift <=> Left(42) \in held'
  <2>1. e.key.code = 42 <=> e.key = Left(42)
    BY <1>1, <1>3
  <2>2. mods.lshift <=> Left(42) \in held
    BY DEF Inv, ModsFollowKeys
  <2>3. Flag(mods.lshift, Code(e), 42) <=> Left(42) \in held'
    BY <1>2, <2>1, <2>2, FlagFollows
  <2>4. QED
    BY <1>4, <2>3, Zenon
<1>6. mods'.rshift <=> Left(54) \in held'
  <2>1. e.key.code = 54 <=> e.key = Left(54)
    BY <1>1, <1>3
  <2>2. mods.rshift <=> Left(54) \in held
    BY DEF Inv, ModsFollowKeys
  <2>3. Flag(mods.rshift, Code(e), 54) <=> Left(54) \in held'
    BY <1>2, <2>1, <2>2, FlagFollows
  <2>4. QED
    BY <1>4, <2>3, Zenon
<1>7. mods'.lcontrol <=> Left(29) \in held'
  <2>1. mods.lcontrol <=> Left(29) \in held
    BY DEF Inv, ModsFollowKeys
  <2>2. CASE e.key.ext
    <3>1. e.key # Left(29)
      BY <1>3, <2>2
    <3>2. mods.lcontrol <=> Left(29) \in held'
      BY <1>2, <2>1, <3>1, FlagStays
    <3>3. QED
      BY <1>4, <2>2, <3>2, Zenon
  <2>3. CASE ~e.key.ext
    <3>1. e.key.code = 29 <=> e.key = Left(29)
      BY <1>3, <2>3
    <3>2. Flag(mods.lcontrol, Code(e), 29) <=> Left(29) \in held'
      BY <1>2, <2>1, <3>1, FlagFollows
    <3>3. QED
      BY <1>4, <2>3, <3>2, Zenon
  <2>4. QED
    BY <2>2, <2>3
<1>8. mods'.rcontrol <=> Right(29) \in held'
  <2>1. mods.rcontrol <=> Right(29) \in held
    BY DEF Inv, ModsFollowKeys
  <2>2. CASE e.key.ext
    <3>1. e.key.code = 29 <=> e.key = Right(29)
      BY <1>3, <2>2
    <3>2. Flag(mods.rcontrol, Code(e), 29) <=> Right(29) \in held'
      BY <1>2, <2>1, <3>1, FlagFollows
    <3>3. QED
      BY <1>4, <2>2, <3>2, Zenon
  <2>3. CASE ~e.key.ext
    <3>1. e.key # Right(29)
      BY <1>3, <2>3
    <3>2. mods.rcontrol <=> Right(29) \in held'
      BY <1>2, <2>1, <3>1, FlagStays
    <3>3. QED
      BY <1>4, <2>3, <3>2, Zenon
  <2>4. QED
    BY <2>2, <2>3
<1>9. mods'.lalt <=> Left(56) \in held'
  <2>1. mods.lalt <=> Left(56) \in held
    BY DEF Inv, ModsFollowKeys
  <2>2. CASE e.key.ext
    <3>1. e.key # Left(56)
      BY <1>3, <2>2
    <3>2. mods.lalt <=> Left(56) \in held'
      BY <1>2, <2>1, <3>1, FlagStays
    <3>3. QED
      BY <1>4, <2>2, <3>2, Zenon
  <2>3. CASE ~e.key.ext
    <3>1. e.key.code = 56 <=> e.key = Left(56)
      BY <1>3, <2>3
    <3>2. Flag(mods.lalt, Code(e), 56) <=> Left(56) \in held'
      BY <1>2, <2>1, <3>1, FlagFollows
    <3>3. QED
      BY <1>4, <2>3, <3>2, Zenon
  <2>4. QED
    BY <2>2, <2>3
<1>10. mods'.ralt <=> Right(56) \in held'
  <2>1. mods.ralt <=> Right(56) \in held
    BY DEF Inv, ModsFollowKeys
  <2>2. CASE e.key.ext
    <3>1. e.key.code = 56 <=> e.key = Right(56)
      BY <1>3, <2>2
    <3>2. Flag(mods.ralt, Code(e), 56) <=> Right(56) \in held'
      BY <1>2, <2>1, <3>1, FlagFollows
    <3>3. QED
      BY <1>4, <2>2, <3>2, Zenon
  <2>3. CASE ~e.key.ext
    <3>1. e.key # Right(56)
      BY <1>3, <2>3
    <3>2. mods.ralt <=> Right(56) \in held'
      BY <1>2, <2>1, <3>1, FlagStays
    <3>3. QED
      BY <1>4, <2>3, <3>2, Zenon
  <2>4. QED
    BY <2>2, <2>3
<1>11. QED
  BY <1>4, <1>5, <1>6, <1>7, <1>8, <1>9, <1>10 DEF ModsFollowKeys, Left, Right

\* One byte of the device.
LEMMA InterruptKeeps == Inv /\ Interrupt => Inv'
<1>1. SUFFICES ASSUME Inv, Interrupt PROVE Inv'
  OBVIOUS
<1> DEFINE e == Head(queue)
<1>2. queue # <<>> /\ e \in Events /\ Tail(queue) \in Seq(Events)
  BY <1>1 DEF Interrupt, Inv, InputTypes
<1>3. e.key \in Keys /\ e.key.ext \in BOOLEAN
  BY <1>2, CodesDiffer
<1>4. mods' = ModsAfter(mods, Byte(e, sent)) /\ down' = down
  BY <1>1 DEF Interrupt, Handler
<1>5. mods' \in Mods /\ mods \in Mods
  BY <1>1, <1>4, ModsType DEF Inv, InputTypes
<1>6. mods.extended <=> sent = 1
  BY <1>1 DEF Inv, ModsFollowKeys
<1>7. CASE IsLast(e, sent)
  <2>1. /\ sent' = 0
        /\ queue' = Tail(queue)
        /\ Seen(e)
    BY <1>1, <1>7 DEF Interrupt, Seen
  <2>2. e.key.ext <=> sent = 1
    BY <1>1, <1>3, <1>7 DEF IsLast, Inv, InputTypes
  <2>3. Byte(e, sent) = Code(e)
    BY <2>2 DEF Byte
  <2>4. ModsFollowKeys'
    BY <1>1, <1>2, <1>4, <1>6, <2>1, <2>2, <2>3, LastByte
  <2>5. held' \subseteq Keys
    <3>1. held \subseteq Keys /\ e.make \in BOOLEAN
      BY <1>1, <1>2, CodesDiffer DEF Inv, InputTypes
    <3>2. QED
      BY <1>3, <2>1, <3>1 DEF Seen
  <2>6. InputTypes'
    BY <1>1, <1>2, <1>4, <1>5, <2>1, <2>5 DEF Inv, InputTypes
  <2>7. QED
    BY <2>4, <2>6 DEF Inv
<1>8. CASE ~IsLast(e, sent)
  <2>1. sent' = 1 /\ queue' = queue /\ held' = held
    BY <1>1, <1>8 DEF Interrupt
  <2>2. e.key.ext /\ sent = 0
    BY <1>1, <1>8 DEF IsLast, Inv, InputTypes
  <2>3. mods' = ModsAfter(mods, PREFIX)
    BY <1>4, <2>2 DEF Byte
  <2>4. ModsFollowKeys'
    <3>1. /\ mods'.lshift = mods.lshift /\ mods'.rshift = mods.rshift
          /\ mods'.lcontrol = mods.lcontrol /\ mods'.rcontrol = mods.rcontrol
          /\ mods'.lalt = mods.lalt /\ mods'.ralt = mods.ralt
          /\ mods'.extended = TRUE
      BY <1>5, <2>3, PrefixSeen
    <3>2. QED
      BY <1>1, <2>1, <3>1 DEF Inv, ModsFollowKeys, Left, Right
  <2>5. InputTypes'
    BY <1>1, <1>2, <1>4, <1>5, <2>1, <2>2 DEF Inv, InputTypes
  <2>6. QED
    BY <2>4, <2>5 DEF Inv
<1>9. QED
  BY <1>7, <1>8

\* A key that is used while the handler has the first byte of another.
LEMMA UseKeeps ==
    ASSUME Inv, NEW k \in Keys, Press(k) \/ Release(k)
    PROVE  Inv'
<1>1. PICK make \in BOOLEAN : queue' = Append(queue, [key |-> k, make |-> make])
  BY DEF Press, Release
<1>2. [key |-> k, make |-> make] \in Events
  BY DEF Events
<1>3. /\ queue' \in Seq(Events)
      /\ queue # <<>> => queue' # <<>> /\ Head(queue') = Head(queue)
  BY <1>1, <1>2 DEF Inv, InputTypes
<1>4. down' \subseteq Keys /\ UNCHANGED <<sent, mods, held>>
  BY DEF Press, Release, Inv, InputTypes
<1>5. QED
  BY <1>3, <1>4 DEF Inv, InputTypes, ModsFollowKeys, Left, Right

LEMMA InvStep == Inv /\ [Next]_vars => Inv'
<1>1. SUFFICES ASSUME Inv, [Next]_vars PROVE Inv'
  OBVIOUS
<1>2. CASE Interrupt
  BY <1>1, <1>2, InterruptKeeps
<1>3. ASSUME NEW k \in Keys, Press(k) \/ Release(k) PROVE Inv'
  BY <1>1, <1>3, UseKeeps
<1>4. ASSUME NEW t \in Terms, NEW p \in Pids, Foreground(t, p) PROVE Inv'
  BY <1>1, <1>4 DEF Foreground, Inv, InputTypes, ModsFollowKeys, Left, Right
<1>5. CASE UNCHANGED vars
  BY <1>1, <1>5 DEF vars, Inv, InputTypes, ModsFollowKeys, Left, Right
<1>6. QED
  BY <1>1, <1>2, <1>3, <1>4, <1>5 DEF Next

\* key_to_ascii: every modifier flag is on exactly while its own key is held, as
\* far as the handler has seen, whatever keys are pressed and released between a
\* prefix and the byte that belongs to it.
THEOREM ModifiersFollowKeys == Spec => []ModsFollowKeys
<1>1. Inv => ModsFollowKeys
  BY DEF Inv
<1>2. QED
  BY <1>1, InvInit, InvStep, PTL DEF Spec
-----------------------------------------------------------------------------
\* Key by key, without Shift and with it.
LEMMA PlainTypes ==
    /\ Plain[2] = 49 /\ Plain[3] = 50 /\ Plain[4] = 51 /\ Plain[5] = 52
    /\ Plain[6] = 53 /\ Plain[7] = 54 /\ Plain[8] = 55 /\ Plain[9] = 56
    /\ Plain[10] = 57 /\ Plain[11] = 48 /\ Plain[12] = 45 /\ Plain[13] = 61
    /\ Plain[16] = 113 /\ Plain[17] = 119 /\ Plain[18] = 101 /\ Plain[19] = 114
    /\ Plain[20] = 116 /\ Plain[21] = 121 /\ Plain[22] = 117 /\ Plain[23] = 105
    /\ Plain[24] = 111 /\ Plain[25] = 112 /\ Plain[26] = 91 /\ Plain[27] = 93
    /\ Plain[30] = 97 /\ Plain[31] = 115 /\ Plain[32] = 100 /\ Plain[33] = 102
    /\ Plain[34] = 103 /\ Plain[35] = 104 /\ Plain[36] = 106 /\ Plain[37] = 107
    /\ Plain[38] = 108 /\ Plain[39] = 59 /\ Plain[40] = 39
    /\ Plain[44] = 122 /\ Plain[45] = 120 /\ Plain[46] = 99 /\ Plain[47] = 118
    /\ Plain[48] = 98 /\ Plain[49] = 110 /\ Plain[50] = 109 /\ Plain[51] = 44
    /\ Plain[52] = 46 /\ Plain[53] = 47
    /\ Plain[41] = 96 /\ Plain[43] = 92
BY DEF Plain, Layout, CharCodes

LEMMA ShiftTypes ==
    /\ Shift[2] = 33 /\ Shift[3] = 64 /\ Shift[4] = 35 /\ Shift[5] = 36
    /\ Shift[6] = 37 /\ Shift[7] = 94 /\ Shift[8] = 38 /\ Shift[9] = 42
    /\ Shift[10] = 40 /\ Shift[11] = 41 /\ Shift[12] = 95 /\ Shift[13] = 43
    /\ Shift[16] = 81 /\ Shift[17] = 87 /\ Shift[18] = 69 /\ Shift[19] = 82
    /\ Shift[20] = 84 /\ Shift[21] = 89 /\ Shift[22] = 85 /\ Shift[23] = 73
    /\ Shift[24] = 79 /\ Shift[25] = 80 /\ Shift[26] = 123 /\ Shift[27] = 125
    /\ Shift[30] = 65 /\ Shift[31] = 83 /\ Shift[32] = 68 /\ Shift[33] = 70
    /\ Shift[34] = 71 /\ Shift[35] = 72 /\ Shift[36] = 74 /\ Shift[37] = 75
    /\ Shift[38] = 76 /\ Shift[39] = 58 /\ Shift[40] = 34 /\ Shift[44] = 90
    /\ Shift[45] = 88 /\ Shift[46] = 67 /\ Shift[47] = 86 /\ Shift[48] = 66
    /\ Shift[49] = 78 /\ Shift[50] = 77 /\ Shift[51] = 60 /\ Shift[52] = 62
    /\ Shift[53] = 63 /\ Shift[41] = 126 /\ Shift[43] = 124
BY DEF Shift, Layout, CharCodes

\* What a character key types is a printable character.
LEMMA CharsPrint ==
    ASSUME NEW code \in CharCodes
    PROVE  Plain[code] \in 32 .. 126 /\ Shift[code] \in 32 .. 126
BY PlainTypes, ShiftTypes DEF CharCodes

\* key_to_ascii on a character key.
LEMMA CharKey ==
    ASSUME NEW m, NEW byte \in CharCodes
    PROVE  KeyToAscii(m, byte) = IF Shifted(m) THEN Shift[byte] ELSE Plain[byte]
BY DEF KeyToAscii, CharCodes, FunctionKeys

LEMMA AsciiType ==
    ASSUME NEW m, NEW byte
    PROVE  KeyToAscii(m, byte) \in 0 .. 127
<1>1. CASE byte \in CharCodes
  BY <1>1, CharKey, CharsPrint
<1>2. CASE byte \notin CharCodes
  BY <1>2 DEF KeyToAscii, FunctionKeys
<1>. QED
  BY <1>1, <1>2

LEMMA DeedType ==
    ASSUME NEW m, NEW byte
    PROVE  /\ Deed(m, byte) \in Deeds
           /\ Deed(m, byte).do = "switch" => Deed(m, byte).arg \in 0 .. 2
           /\ Deed(m, byte).do = "signal" => Deed(m, byte) = [do |-> "signal", arg |-> 0]
<1>. DEFINE chr == KeyToAscii(m, byte)
            control == Control(m)
<1>1. chr \in 0 .. 127
  BY AsciiType
<1>2. Deed(m, byte) = CASE chr \in {0, 27} -> Nothing
         [] chr \in FunctionKeys -> [do |-> "switch", arg |-> chr - 59]
         [] chr = 10 -> [do |-> "enter", arg |-> 0]
         [] chr = 9 -> [do |-> "tab", arg |-> 0]
         [] chr \in {8, 127} -> [do |-> "erase", arg |-> 0]
         [] chr \in {76, 108} /\ control -> [do |-> "clear", arg |-> 0]
         [] chr \in {67, 99} /\ control -> [do |-> "signal", arg |-> 0]
         [] OTHER -> [do |-> "type", arg |-> chr]
  BY DEF Deed
<1>. HIDE DEF chr, control
<1>3. chr \in FunctionKeys => chr - 59 \in 0 .. 2
  BY <1>1 DEF FunctionKeys
<1>. QED
  BY <1>1, <1>2, <1>3 DEF Deeds, Nothing

\* A character types itself but under Control and for the codes of F1 to F3.
LEMMA CharDeeds ==
    ASSUME NEW m, NEW byte, NEW c \in 32 .. 126, KeyToAscii(m, byte) = c
    PROVE  Deed(m, byte) =
             IF c \in 59 .. 61 THEN [do |-> "switch", arg |-> c - 59]
             ELSE IF c \in {76, 108} /\ Control(m) THEN [do |-> "clear", arg |-> 0]
             ELSE IF c \in {67, 99} /\ Control(m) THEN [do |-> "signal", arg |-> 0]
             ELSE [do |-> "type", arg |-> c]
BY DEF Deed, FunctionKeys

\* Every printable character but the space is on a character key.
Typed(c) == \E byte \in CharCodes : Plain[byte] = c \/ Shift[byte] = c

LEMMA EveryCharacterHasAKey == \A c \in 33 .. 126 : Typed(c)
<1>1. \A byte \in CharCodes : Typed(Plain[byte]) /\ Typed(Shift[byte])
  BY DEF Typed
<1>2. \A byte \in 2 .. 13 : Typed(Plain[byte]) /\ Typed(Shift[byte])
  BY <1>1 DEF CharCodes
<1>3. \A byte \in 16 .. 27 : Typed(Plain[byte]) /\ Typed(Shift[byte])
  BY <1>1 DEF CharCodes
<1>4. \A byte \in 30 .. 40 : Typed(Plain[byte]) /\ Typed(Shift[byte])
  BY <1>1 DEF CharCodes
<1>5. \A byte \in 44 .. 53 : Typed(Plain[byte]) /\ Typed(Shift[byte])
  BY <1>1 DEF CharCodes
<1>6. \A byte \in {41, 43} : Typed(Plain[byte]) /\ Typed(Shift[byte])
  BY <1>1 DEF CharCodes
<1>. SUFFICES ASSUME NEW c \in 33 .. 126
              PROVE  Typed(c)
  OBVIOUS
<1>7. CASE c \in (33 .. 64) \cup (91 .. 96) \cup (123 .. 126)
  BY <1>2, <1>3, <1>4, <1>5, <1>6, <1>7, PlainTypes, ShiftTypes
<1>8. CASE c \in 65 .. 90
  BY <1>3, <1>4, <1>5, <1>8, ShiftTypes
<1>9. CASE c \in 97 .. 122
  BY <1>3, <1>4, <1>5, <1>9, PlainTypes
<1>. QED
  BY <1>7, <1>8, <1>9

\* keyboard_handler: whatever is held, locked or was pressed before, some key
\* types every printable character that is not the code of F1 to F3 nor, under
\* Control, C or L.
LEMMA CharactersType == mods \in Mods => EveryCharacterTypes
<1>. SUFFICES ASSUME mods \in Mods PROVE EveryCharacterTypes
  OBVIOUS
<1>. DEFINE With(shift) == [mods EXCEPT !.lshift = shift, !.rshift = FALSE]
<1>1. ASSUME NEW c \in (32 .. 126) \ {59, 60, 61},
             ~(Control(mods) /\ c \in {67, 76, 99, 108})
      PROVE  \E byte \in 1 .. 95, shift \in BOOLEAN :
                [do |-> "type", arg |-> c] = Deed(With(shift), byte)
  <2>1. ASSUME NEW byte \in 1 .. 95, NEW shift \in BOOLEAN,
               KeyToAscii(With(shift), byte) = c
        PROVE  [do |-> "type", arg |-> c] = Deed(With(shift), byte)
    <3>1. Control(With(shift)) <=> Control(mods)
      BY DEF Control, Mods
    <3>2. c \in 32 .. 126 /\ c \notin 59 .. 61
      OBVIOUS
    <3>. HIDE DEF With
    <3>. QED
      BY <1>1, <2>1, <3>1, <3>2, CharDeeds
  <2>2. CASE c = 32
    <3>. HIDE DEF With
    <3>1. \A m : KeyToAscii(m, 57) = 32
      BY DEF KeyToAscii, FunctionKeys, CharCodes
    <3>2. 57 \in 1 .. 95 /\ FALSE \in BOOLEAN
      OBVIOUS
    <3>3. KeyToAscii(With(FALSE), 57) = c
      BY <2>2, <3>1
    <3>4. [do |-> "type", arg |-> c] = Deed(With(FALSE), 57)
      BY <2>1, <3>2, <3>3
    <3>. QED
      BY <3>2, <3>4
  <2>3. CASE c # 32
    <3>1. PICK byte \in CharCodes : Plain[byte] = c \/ Shift[byte] = c
      BY <2>3, EveryCharacterHasAKey DEF Typed
    <3>2. byte \in 1 .. 95
      BY DEF CharCodes
    <3>3. \A shift \in BOOLEAN : Shifted(With(shift)) = (shift # mods.caps_lock)
      BY DEF Shifted, Mods
    <3>4. mods.caps_lock \in BOOLEAN
      BY DEF Mods
    <3>5. \A shift \in BOOLEAN : KeyToAscii(With(shift), byte) =
             IF Shifted(With(shift)) THEN Shift[byte] ELSE Plain[byte]
      BY CharKey
    <3>. HIDE DEF With
    <3>6. CASE Plain[byte] = c
      <4>1. ~Shifted(With(mods.caps_lock))
        BY <3>3, <3>4
      <4>2. KeyToAscii(With(mods.caps_lock), byte) = c
        BY <3>4, <3>5, <3>6, <4>1
      <4>3. [do |-> "type", arg |-> c] = Deed(With(mods.caps_lock), byte)
        BY <2>1, <3>2, <3>4, <4>2
      <4>. QED
        BY <3>2, <3>4, <4>3
    <3>7. CASE Shift[byte] = c
      <4>1. Shifted(With(~mods.caps_lock))
        BY <3>3, <3>4
      <4>2. KeyToAscii(With(~mods.caps_lock), byte) = c
        BY <3>4, <3>5, <3>7, <4>1
      <4>3. [do |-> "type", arg |-> c] = Deed(With(~mods.caps_lock), byte)
        BY <2>1, <3>2, <3>4, <4>2
      <4>. QED
        BY <3>2, <3>4, <4>3
    <3>. QED
      BY <3>1, <3>6, <3>7
  <2>. QED
    BY <2>2, <2>3
<1>2. \A byte \in 1 .. 95, shift \in BOOLEAN : Deed(With(shift), byte) \in KeyDeeds(mods)
  <2>1. KeyDeeds(mods) = {Deed(With(shift), byte) : byte \in 1 .. 95, shift \in BOOLEAN}
    BY DEF KeyDeeds
  <2>. HIDE DEF With
  <2>. QED
    BY <2>1, SMT
<1>. HIDE DEF With
<1>3. \A c \in (32 .. 126) \ {59, 60, 61} :
         \/ [do |-> "type", arg |-> c] \in KeyDeeds(mods)
         \/ Control(mods) /\ c \in {67, 76, 99, 108}
  <2>. SUFFICES ASSUME NEW c \in (32 .. 126) \ {59, 60, 61},
                       ~(Control(mods) /\ c \in {67, 76, 99, 108})
                PROVE  [do |-> "type", arg |-> c] \in KeyDeeds(mods)
    OBVIOUS
  <2>1. PICK byte \in 1 .. 95, shift \in BOOLEAN :
           [do |-> "type", arg |-> c] = Deed(With(shift), byte)
    BY <1>1
  <2>. QED
    BY <1>2, <2>1
<1>. QED
  BY <1>3 DEF EveryCharacterTypes
-----------------------------------------------------------------------------
\* The deeds of the byte of a key.
LEMMA HandlerType ==
    ASSUME TypeOK, NEW byte, Handler(byte)
    PROVE  visible_term' \in Terms /\ pending' \subseteq Pids /\ did' \in Deeds
<1>. DEFINE deed == Deed(ModsAfter(mods, byte), byte)
<1>1. deed \in Deeds /\ (deed.do = "switch" => deed.arg \in 0 .. 2)
  BY DeedType
<1>2. /\ deed.do = "signal" => Signal(deed)
      /\ deed.do # "signal" => /\ did' = IF byte = PREFIX THEN did ELSE deed
                               /\ UNCHANGED pending
      /\ visible_term' = IF deed.do = "switch" THEN deed.arg ELSE visible_term
  BY DEF Handler
<1>. HIDE DEF deed
<1>3. visible_term' \in Terms
  BY <1>1, <1>2, KeyboardAssumption DEF TypeOK, Terms
<1>4. [deed EXCEPT !.do = "fault"] \in Deeds
  BY <1>1 DEF Deeds
<1>5. pid[visible_term] # -1 => Signalled \in Pids
  BY DEF TypeOK, Signalled
<1>. QED
  BY <1>1, <1>2, <1>3, <1>4, <1>5 DEF TypeOK, Signal

LEMMA TypeStep == TypeOK /\ Inv /\ [Next]_vars => TypeOK'
<1>. SUFFICES ASSUME TypeOK, Inv, [Next]_vars PROVE TypeOK'
  OBVIOUS
<1>1. InputTypes'
  BY InvStep DEF Inv
<1>2. visible_term' \in Terms /\ pid' \in [Terms -> Pids \cup {-1}]
      /\ pending' \subseteq Pids /\ did' \in Deeds
  <2>1. CASE Interrupt
    <3>1. pid' = pid /\ Handler(Byte(Head(queue), sent))
      BY <2>1 DEF Interrupt
    <3>. QED
      BY <3>1, HandlerType DEF TypeOK
  <2>2. ASSUME NEW k \in Keys, Press(k) \/ Release(k)
        PROVE  UNCHANGED <<visible_term, pid, pending, did>>
    BY <2>2 DEF Press, Release
  <2>3. ASSUME NEW t \in Terms, NEW p \in Pids, Foreground(t, p)
        PROVE  /\ pid' \in [Terms -> Pids \cup {-1}]
               /\ UNCHANGED <<visible_term, pending, did>>
    BY <2>3 DEF Foreground, TypeOK
  <2>4. CASE UNCHANGED vars
    BY <2>4 DEF vars, TypeOK
  <2>. QED
    BY <2>1, <2>2, <2>3, <2>4 DEF Next, TypeOK
<1>. QED
  BY <1>1, <1>2 DEF InputTypes, TypeOK

LEMMA TypeInit == Init => TypeOK
<1>. SUFFICES ASSUME Init PROVE TypeOK
  OBVIOUS
<1>1. InputTypes
  BY InvInit DEF Inv
<1>2. 0 \in Terms /\ did \in Deeds
  BY KeyboardAssumption DEF Init, Terms, Deeds, Nothing
<1>. QED
  BY <1>1, <1>2 DEF Init, InputTypes, TypeOK

\* Every variable has its type.
THEOREM TypeCorrect == Spec => []TypeOK
BY TypeInit, TypeStep, InvInit, InvStep, PTL DEF Spec

\* keyboard_handler: in every state each printable character can be typed, with
\* Shift or without.
THEOREM CharactersCanBeTyped == Spec => []EveryCharacterTypes
<1>1. Inv => EveryCharacterTypes
  BY CharactersType DEF Inv, InputTypes
<1>. QED
  BY <1>1, InvInit, InvStep, PTL DEF Spec
-----------------------------------------------------------------------------
\* What is written on the keys.
LEMMA KeysDiffer ==
    /\ \A a, b : (Left(a) = Left(b) <=> a = b) /\ (Right(a) = Right(b) <=> a = b)
    /\ \A a, b : Left(a) # Right(b) /\ Right(b) # Left(a)
<1>1. \A a : Left(a).code = a /\ Left(a).ext = FALSE
             /\ Right(a).code = a /\ Right(a).ext = TRUE
  BY DEF Left, Right
<1>. QED
  BY <1>1

LEMMA KeysSay ==
    /\ \A k \in Modifiers : k \in MCKeys /\ MCLegend[k] = Other("modifier", 0)
    /\ MCLegend[Left(46)] = Char(99, 67)
    /\ MCLegend[Left(38)] = Char(108, 76)
    /\ MCLegend[Left(39)] = Char(59, 58)
    /\ MCLegend[Left(13)] = Char(61, 43)
    /\ MCLegend[Left(12)] = Char(45, 95)
    /\ MCLegend[Right(53)] = Char(47, 63)
    /\ MCLegend[Left(28)] = Other("enter", 0)
    /\ MCLegend[Right(28)] = Other("enter", 0)
    /\ MCLegend[Left(14)] = Other("erase", 0)
    /\ MCLegend[Left(59)] = Other("function", 0)
    /\ MCLegend[Left(62)] = Other("none", 0)
BY KeysDiffer DEF MCLegend, MCKeys, Modifiers, Others, ShiftKeys, ControlKeys, AltKeys

\* Semicolon and equals have the codes of F1 and F3.
LEMMA MistakenKeys == Left(39) \notin HonestKeys /\ Left(13) \notin HonestKeys
<1>1. Left(39) \in MCKeys /\ Left(13) \in MCKeys
  BY DEF MCKeys, Others
<1>2. /\ MCLegend[Left(39)].kind = "char" /\ MCLegend[Left(39)].plain = 59
      /\ MCLegend[Left(13)].kind = "char" /\ MCLegend[Left(13)].plain = 61
  BY KeysSay DEF Char
<1>3. 59 \in FunctionKeys /\ 61 \in FunctionKeys
  BY DEF FunctionKeys
<1>. QED
  BY <1>1, <1>2, <1>3 DEF HonestKeys, Mistaken

\* A key that is no modifier finds the flags as they are.
LEMMA FlagsStay ==
    ASSUME NEW m \in Mods, NEW code \in 1 .. 95, code \notin {42, 54, 29, 56, 58}
    PROVE  LET after == ModsAfter(m, code) IN
           /\ Shifted(after) <=> Shifted(m)
           /\ Control(after) <=> Control(m)
           /\ Alt(after) <=> Alt(m)
BY DEF ModsAfter, Flag, Shifted, Control, Alt, Mods

LEMMA ModifiersOn ==
    ASSUME Inv
    PROVE  /\ Shifted(mods) <=> Desk!On(ShiftKeys) # mods.caps_lock
           /\ Control(mods) <=> Desk!On(ControlKeys)
           /\ Alt(mods) <=> Desk!On(AltKeys)
<1>1. \A a, b : held \cap {a, b} # {} <=> a \in held \/ b \in held
  OBVIOUS
<1>2. mods.caps_lock \in BOOLEAN /\ mods.lshift \in BOOLEAN /\ mods.rshift \in BOOLEAN
  BY DEF Inv, InputTypes, Mods
<1>3. Desk!On(ShiftKeys) <=> Left(42) \in held \/ Left(54) \in held
  BY <1>1 DEF Desk!On, ShiftKeys
<1>4. Desk!On(ControlKeys) <=> Left(29) \in held \/ Right(29) \in held
  BY <1>1 DEF Desk!On, ControlKeys
<1>5. Desk!On(AltKeys) <=> Left(56) \in held \/ Right(56) \in held
  BY <1>1 DEF Desk!On, AltKeys
<1>6. Control(mods) <=> Desk!On(ControlKeys)
  BY <1>4 DEF Inv, ModsFollowKeys, Control
<1>7. Alt(mods) <=> Desk!On(AltKeys)
  BY <1>5 DEF Inv, ModsFollowKeys, Alt
<1>8. (mods.lshift \/ mods.rshift) <=> Desk!On(ShiftKeys)
  BY <1>3 DEF Inv, ModsFollowKeys
<1>9. Shifted(mods) <=> Desk!On(ShiftKeys) # mods.caps_lock
  <2>1. Shifted(mods) <=> (mods.lshift \/ mods.rshift) # mods.caps_lock
    BY DEF Shifted
  <2>2. Desk!On(ShiftKeys) \in BOOLEAN
    BY DEF Desk!On
  <2>. QED
    BY <1>2, <1>8, <2>1, <2>2
<1>. QED
  BY <1>6, <1>7, <1>9

\* The switch in keyboard_handler on a character that a key types.
LEMMA CharDeedIsTyped ==
    ASSUME NEW m, Control(m) <=> Desk!On(ControlKeys),
           NEW byte, NEW c \in (32 .. 126) \ FunctionKeys, KeyToAscii(m, byte) = c
    PROVE  Deed(m, byte) = Desk!CharDeed(c)
<1>1. DOMAIN ControlLetters = {67, 76, 99, 108}
  BY DEF ControlLetters
<1>2. c \in {67, 99} => ControlLetters[c] = "signal"
  BY DEF ControlLetters
<1>3. c \in {76, 108} => ControlLetters[c] = "clear"
  BY DEF ControlLetters
<1>4. Desk!CharDeed(c) =
        IF Desk!On(ControlKeys) /\ c \in DOMAIN ControlLetters
        THEN [do |-> ControlLetters[c], arg |-> 0]
        ELSE [do |-> "type", arg |-> c]
  BY DEF Desk!CharDeed
<1>. QED
  BY <1>1, <1>2, <1>3, <1>4, CharDeeds DEF FunctionKeys

\* What a key does is what is written on it.
LEMMA DeedIsLegend ==
    ASSUME Inv, NEW k \in HonestKeys
    PROVE  Deed(ModsAfter(mods, k.code), k.code) = Desk!Deed(k)
<1>. DEFINE m == ModsAfter(mods, k.code)
            l == MCLegend[k]
            on == Desk!On(ShiftKeys) # mods.caps_lock
            caption == IF on THEN l.shifted ELSE l.plain
<1>1. Desk!Deed(k) =
        CASE l.kind = "char" -> Desk!CharDeed(caption)
          [] l.kind = "function" ->
               [do |-> IF Desk!On(AltKeys) THEN "switch" ELSE "none",
                arg |-> IF Desk!On(AltKeys) THEN l.plain ELSE 0]
          [] l.kind = "modifier" -> [do |-> "none", arg |-> 0]
          [] OTHER -> [do |-> l.kind, arg |-> 0]
  BY DEF Desk!Deed
<1>2. mods \in Mods
  BY DEF Inv, InputTypes
<1>3. ASSUME k \notin Modifiers
      PROVE  /\ Shifted(m) <=> on
             /\ Control(m) <=> Desk!On(ControlKeys)
             /\ Alt(m) <=> Desk!On(AltKeys)
  <2>1. k.code \in 1 .. 95 /\ k.code \notin {42, 54, 29, 56, 58}
    BY <1>3 DEF HonestKeys, MCKeys, Modifiers, Others, ShiftKeys, ControlKeys, AltKeys, Left, Right
  <2>. QED
    BY <1>2, <2>1, FlagsStay, ModifiersOn
<1>. HIDE DEF m, on
<1>4. CASE k \in Modifiers
  <2>1. k.code \in {42, 54, 29, 56, 58}
    BY <1>4 DEF Modifiers, ShiftKeys, ControlKeys, AltKeys, Left, Right
  <2>2. KeyToAscii(m, k.code) = 0
    BY <2>1 DEF KeyToAscii, CharCodes, FunctionKeys
  <2>3. Deed(m, k.code) = [do |-> "none", arg |-> 0]
    BY <2>2 DEF Deed, FunctionKeys, Nothing
  <2>4. l.kind = "modifier"
    BY <1>4, KeysSay DEF Other
  <2>. QED
    BY <1>1, <2>3, <2>4 DEF m
<1>5. ASSUME NEW plain \in (32 .. 126) \ FunctionKeys,
             NEW shifted \in (32 .. 126) \ FunctionKeys,
             k \notin Modifiers, l = Char(plain, shifted), k.code \in CharCodes,
             Plain[k.code] = plain, Shift[k.code] = shifted
      PROVE  Deed(m, k.code) = Desk!Deed(k)
  <2>1. KeyToAscii(m, k.code) = IF on THEN shifted ELSE plain
    BY <1>3, <1>5, CharKey
  <2>2. l.kind = "char" /\ caption = IF on THEN shifted ELSE plain
    BY <1>5 DEF Char
  <2>3. caption \in (32 .. 126) \ FunctionKeys
    BY <2>2
  <2>4. Desk!Deed(k) = Desk!CharDeed(caption)
    BY <1>1, <2>2
  <2>. HIDE DEF caption
  <2>5. KeyToAscii(m, k.code) = caption
    BY <2>1, <2>2
  <2>6. Deed(m, k.code) = Desk!CharDeed(caption)
    BY <1>3, <1>5, <2>3, <2>5, CharDeedIsTyped
  <2>. QED
    BY <2>4, <2>6
<1>6. ASSUME NEW kind, NEW ascii, k \notin Modifiers, l = Other(kind, 0),
             kind \notin {"char", "function", "modifier"},
             KeyToAscii(m, k.code) = ascii,
             \/ ascii = 10 /\ kind = "enter"
             \/ ascii = 8 /\ kind = "erase"
             \/ ascii = 0 /\ kind = "none"
      PROVE  Deed(m, k.code) = Desk!Deed(k)
  <2>1. Desk!Deed(k) = [do |-> kind, arg |-> 0]
    BY <1>1, <1>6 DEF Other
  <2>2. Deed(m, k.code) = [do |-> kind, arg |-> 0]
    BY <1>6 DEF Deed, FunctionKeys, Nothing
  <2>. QED
    BY <2>1, <2>2
<1>7. CASE k \in {Left(46), Left(38), Left(12), Right(53)}
  <2>1. k \notin Modifiers
    BY <1>7, KeysDiffer DEF Modifiers, ShiftKeys, ControlKeys, AltKeys
  <2>2. PICK plain \in (32 .. 126) \ FunctionKeys, shifted \in (32 .. 126) \ FunctionKeys :
           /\ l = Char(plain, shifted) /\ k.code \in CharCodes
           /\ Plain[k.code] = plain /\ Shift[k.code] = shifted
    <3>1. CASE k = Left(46)
      <4>1. l = Char(99, 67) /\ k.code = 46
        BY <3>1, KeysSay DEF Left
      <4>. QED
        BY <4>1, PlainTypes, ShiftTypes DEF CharCodes, FunctionKeys
    <3>2. CASE k = Left(38)
      <4>1. l = Char(108, 76) /\ k.code = 38
        BY <3>2, KeysSay DEF Left
      <4>. QED
        BY <4>1, PlainTypes, ShiftTypes DEF CharCodes, FunctionKeys
    <3>3. CASE k = Left(12)
      <4>1. l = Char(45, 95) /\ k.code = 12
        BY <3>3, KeysSay DEF Left
      <4>. QED
        BY <4>1, PlainTypes, ShiftTypes DEF CharCodes, FunctionKeys
    <3>4. CASE k = Right(53)
      <4>1. l = Char(47, 63) /\ k.code = 53
        BY <3>4, KeysSay DEF Right
      <4>. QED
        BY <4>1, PlainTypes, ShiftTypes DEF CharCodes, FunctionKeys
    <3>. QED
      BY <1>7, <3>1, <3>2, <3>3, <3>4
  <2>. QED
    BY <1>5, <2>1, <2>2 DEF m
<1>8. CASE k \in {Left(28), Right(28), Left(14), Left(62)}
  <2>1. k \notin Modifiers
    BY <1>8, KeysDiffer DEF Modifiers, ShiftKeys, ControlKeys, AltKeys
  <2>2. /\ KeyToAscii(m, 28) = 10
        /\ KeyToAscii(m, 14) = 8
        /\ KeyToAscii(m, 62) = 0
    BY DEF KeyToAscii, FunctionKeys, CharCodes
  <2>3. CASE k \in {Left(28), Right(28)}
    <3>1. l = Other("enter", 0)
      BY <2>3, KeysSay
    <3>2. k.code = 28
      BY <2>3 DEF Left, Right
    <3>. QED
      BY <1>6, <2>1, <2>2, <3>1, <3>2 DEF m
  <2>4. CASE k = Left(14)
    <3>1. l = Other("erase", 0) /\ k.code = 14
      BY <2>4, KeysSay DEF Left
    <3>. QED
      BY <1>6, <2>1, <2>2, <3>1 DEF m
  <2>5. CASE k = Left(62)
    <3>1. l = Other("none", 0) /\ k.code = 62
      BY <2>5, KeysSay DEF Left
    <3>. QED
      BY <1>6, <2>1, <2>2, <3>1 DEF m
  <2>. QED
    BY <1>8, <2>3, <2>4, <2>5
<1>9. CASE k = Left(59)
  <2>1. k \notin Modifiers
    BY <1>9, KeysDiffer DEF Modifiers, ShiftKeys, ControlKeys, AltKeys
  <2>2. l = Other("function", 0) /\ k.code = 59
    BY <1>9, KeysSay DEF Left
  <2>3. KeyToAscii(m, 59) = IF Alt(m) THEN 59 ELSE 0
    BY DEF KeyToAscii, FunctionKeys, CharCodes
  <2>4. CASE Alt(m)
    <3>1. Deed(m, 59) = [do |-> "switch", arg |-> 0]
      BY <2>3, <2>4 DEF Deed, FunctionKeys
    <3>2. Desk!Deed(k) = [do |-> "switch", arg |-> 0]
      BY <1>1, <1>3, <2>1, <2>2, <2>4 DEF Other
    <3>. QED
      BY <2>2, <3>1, <3>2 DEF m
  <2>5. CASE ~Alt(m)
    <3>1. Deed(m, 59) = [do |-> "none", arg |-> 0]
      BY <2>3, <2>5 DEF Deed, FunctionKeys, Nothing
    <3>2. Desk!Deed(k) = [do |-> "none", arg |-> 0]
      BY <1>1, <1>3, <2>1, <2>2, <2>5 DEF Other
    <3>. QED
      BY <2>2, <3>1, <3>2 DEF m
  <2>. QED
    BY <2>4, <2>5
<1>. QED
  BY <1>4, <1>7, <1>8, <1>9, MistakenKeys DEF HonestKeys, MCKeys, Others

\* The byte of a release does nothing, and nor does the prefix.
LEMMA ReleaseDoesNothing ==
    ASSUME NEW m, NEW byte \in Nat, byte > 95
    PROVE  Deed(m, byte) = Nothing
<1>1. KeyToAscii(m, byte) = 0
  BY DEF KeyToAscii, FunctionKeys, CharCodes
<1>. QED
  BY <1>1 DEF Deed, FunctionKeys

\* The first of two bytes is no step for who types.
LEMMA PrefixStutters ==
    ASSUME Inv, Interrupt, ~IsLast(Head(queue), sent)
    PROVE  UNCHANGED Desk!vars
<1>1. /\ queue # <<>> /\ Handler(Byte(Head(queue), sent))
      /\ UNCHANGED <<queue, held, pid>>
  BY DEF Interrupt
<1>2. Head(queue) \in Events
  BY <1>1 DEF Inv, InputTypes
<1>3. Byte(Head(queue), sent) = PREFIX
  BY <1>2, CodesDiffer DEF IsLast, Byte, Inv, InputTypes
<1>. DEFINE m == ModsAfter(mods, PREFIX)
            deed == Deed(m, PREFIX)
<1>4. deed = Nothing
  BY ReleaseDoesNothing DEF PREFIX
<1>5. m.caps_lock = mods.caps_lock
  BY DEF ModsAfter, PREFIX
<1>6. deed.do = "none"
  BY <1>4 DEF Nothing
<1>7. /\ mods' = m
      /\ deed.do # "signal" => did' = did /\ UNCHANGED pending
      /\ visible_term' = IF deed.do = "switch" THEN deed.arg ELSE visible_term
  BY <1>1, <1>3, Zenon DEF Handler
<1>. HIDE DEF deed, m
<1>8. UNCHANGED <<did, pending, visible_term>>
  BY <1>6, <1>7
<1>. QED
  BY <1>1, <1>5, <1>7, <1>8 DEF Desk!vars

\* The last byte of a press.
LEMMA PressAnswers ==
    ASSUME TypeOK, Inv, Keys \subseteq HonestKeys, Interrupt,
           IsLast(Head(queue), sent), Head(queue).make
    PROVE  Desk!Down(Head(queue).key)
<1>. DEFINE e == Head(queue)
            k == e.key
            m == ModsAfter(mods, k.code)
            deed == Deed(m, k.code)
            target == pid[visible_term]
<1>1. /\ queue # <<>> /\ Handler(Byte(e, sent)) /\ held' = held \cup {k}
  BY DEF Interrupt
<1>2. /\ e \in Events /\ k \in Keys /\ e.make \in BOOLEAN
      /\ k.ext \in BOOLEAN /\ k.code \in 1 .. 95
  <2>1. e \in Events
    BY <1>1 DEF Inv, InputTypes
  <2>. QED
    BY <2>1, CodesDiffer
<1>3. Byte(e, sent) = k.code /\ k.code # PREFIX
  <2>1. Byte(e, sent) = Code(e)
    BY DEF IsLast, Byte
  <2>2. Code(e) = k.code
    BY DEF Code
  <2>. QED
    BY <1>2, <2>1, <2>2, CodesDiffer
<1>4. /\ mods' = m
      /\ deed.do = "signal" => Signal(deed)
      /\ deed.do # "signal" => did' = deed /\ UNCHANGED pending
      /\ visible_term' = IF deed.do = "switch" THEN deed.arg ELSE visible_term
  BY <1>1, <1>3, Zenon DEF Handler
<1>5. deed = Desk!Deed(k)
  BY <1>2, DeedIsLegend
<1>6. mods'.caps_lock = (mods.caps_lock # (k \in {Left(58)}))
  <2>1. k.code = 58 <=> k = Left(58)
    <3>1. k \in [code : 1 .. 95, ext : BOOLEAN] /\ 58 \in 1 .. 95
      BY <1>2, KeyboardAssumption
    <3>2. k.code = 58 => ~k.ext
      BY <1>2, KeyboardAssumption
    <3>. QED
      BY <3>1, <3>2, KeyEquality
  <2>2. m.caps_lock = IF k.code = 58 THEN ~mods.caps_lock ELSE mods.caps_lock
    BY DEF ModsAfter
  <2>3. mods.caps_lock \in BOOLEAN
    BY DEF Inv, InputTypes, Mods
  <2>. HIDE DEF m
  <2>. QED
    BY <1>4, <2>1, <2>2, <2>3
<1>7. deed.do = "switch" => deed.arg \in Terms
  BY DeedType, KeyboardAssumption DEF Terms
<1>8. deed.do = "signal" => deed = [do |-> "signal", arg |-> 0]
  BY DeedType
<1>. HIDE DEF deed, m, k, e
<1>9. CASE deed.do = "signal"
  <2>1. visible_term' = visible_term
    BY <1>4, <1>9
  <2>2. CASE target = -1
    <3>1. did' = [do |-> "fault", arg |-> 0] /\ pending' = pending
      BY <1>4, <1>8, <1>9, <2>2 DEF Signal
    <3>2. pending' = pending \cup ({target} \ {-1})
      BY <2>2, <3>1
    <3>. QED
      BY <1>1, <1>5, <1>6, <1>9, <2>1, <2>2, <3>1, <3>2, Zenon DEF Desk!Down, k, e
  <2>3. CASE target # -1
    <3>1. did' = [do |-> "signal", arg |-> 0] /\ pending' = pending \cup {target}
      BY <1>4, <1>8, <1>9, <2>3 DEF Signal, Signalled
    <3>2. pending' = pending \cup ({target} \ {-1})
      BY <2>3, <3>1
    <3>. QED
      BY <1>1, <1>5, <1>6, <1>9, <2>1, <2>3, <3>1, <3>2, Zenon DEF Desk!Down, k, e
  <2>. QED
    BY <2>2, <2>3
<1>10. CASE deed.do # "signal"
  <2>1. did' = deed /\ pending' = pending
    BY <1>4, <1>10
  <2>2. visible_term' = IF deed.do = "switch" /\ deed.arg \in Terms
                        THEN deed.arg ELSE visible_term
    BY <1>4, <1>7
  <2>. QED
    BY <1>1, <1>5, <1>6, <1>10, <2>1, <2>2, Zenon DEF Desk!Down, k, e
<1>. QED
  BY <1>9, <1>10

\* The last byte of a release.
LEMMA ReleaseAnswers ==
    ASSUME Inv, Interrupt, IsLast(Head(queue), sent), ~Head(queue).make
    PROVE  Desk!Up(Head(queue).key)
<1>. DEFINE e == Head(queue)
            k == e.key
            byte == k.code + 128
            m == ModsAfter(mods, byte)
            deed == Deed(m, byte)
<1>1. /\ queue # <<>> /\ Handler(Byte(e, sent)) /\ held' = held \ {k}
  BY DEF Interrupt
<1>2. /\ e \in Events /\ k \in Keys /\ e.make \in BOOLEAN
      /\ k.ext \in BOOLEAN /\ k.code \in 1 .. 95
  <2>1. e \in Events
    BY <1>1 DEF Inv, InputTypes
  <2>. QED
    BY <2>1, CodesDiffer
<1>3. Byte(e, sent) = byte /\ byte # PREFIX
  <2>1. Byte(e, sent) = Code(e)
    BY DEF IsLast, Byte
  <2>2. Code(e) = byte
    BY DEF Code
  <2>. QED
    BY <1>2, <2>1, <2>2, CodesDiffer
<1>4. deed = Nothing
  BY <1>2, ReleaseDoesNothing
<1>5. m.caps_lock = mods.caps_lock
  BY <1>2 DEF ModsAfter
<1>. HIDE DEF byte
<1>6. /\ mods' = m
      /\ deed.do # "signal" => did' = deed /\ UNCHANGED pending
      /\ visible_term' = IF deed.do = "switch" THEN deed.arg ELSE visible_term
  BY <1>1, <1>3, Zenon DEF Handler
<1>. HIDE DEF deed, m
<1>7. did' = [do |-> "none", arg |-> 0] /\ UNCHANGED <<pending, visible_term>>
  BY <1>4, <1>6 DEF Nothing
<1>. QED
  BY <1>1, <1>5, <1>6, <1>7 DEF Desk!Up

\* Every step is a step of who types or none.
LEMMA TypistStep ==
    ASSUME TypeOK, Inv, Keys \subseteq HonestKeys, [Next]_vars
    PROVE  [Desk!Next]_Desk!vars
<1>1. CASE Interrupt
  <2>1. CASE ~IsLast(Head(queue), sent)
    BY <1>1, <2>1, PrefixStutters
  <2>2. CASE IsLast(Head(queue), sent)
    <3>1. queue # <<>> /\ queue' = Tail(queue) /\ UNCHANGED pid
      BY <1>1, <2>2 DEF Interrupt
    <3>2. IF Head(queue).make THEN Desk!Down(Head(queue).key)
                              ELSE Desk!Up(Head(queue).key)
      BY <1>1, <2>2, PressAnswers, ReleaseAnswers
    <3>3. Desk!Answer
      BY <3>1, <3>2 DEF Desk!Answer
    <3>. QED
      BY <3>3 DEF Desk!Next
  <2>. QED
    BY <2>1, <2>2
<1>2. ASSUME NEW k \in Keys, Press(k) PROVE Desk!Next
  <2>1. Desk!Use(k, TRUE)
    BY <1>2 DEF Press, Desk!Use
  <2>2. k \in MCKeys
    BY <1>2 DEF HonestKeys
  <2>. QED
    BY <2>1, <2>2 DEF Desk!Next
<1>3. ASSUME NEW k \in Keys, Release(k) PROVE Desk!Next
  <2>1. Desk!Use(k, FALSE)
    BY <1>3 DEF Release, Desk!Use
  <2>2. k \in MCKeys
    BY <1>3 DEF HonestKeys
  <2>. QED
    BY <2>1, <2>2 DEF Desk!Next
<1>4. ASSUME NEW t \in Terms, NEW p \in Pids, Foreground(t, p) PROVE Desk!Next
  <2>1. pid' = [pid EXCEPT ![t] = pid'[t]]
    BY <1>4 DEF Foreground, TypeOK
  <2>2. Desk!Foreground(t, pid'[t])
    BY <1>4, <2>1 DEF Foreground, Desk!Foreground
  <2>. QED
    BY <2>2 DEF Desk!Next
<1>5. CASE UNCHANGED vars
  BY <1>5 DEF vars, Desk!vars
<1>. QED
  BY <1>1, <1>2, <1>3, <1>4, <1>5 DEF Next

\* keyboard_handler: who types gets what is written on the keys, under the
\* modifiers held when the key went down, in the order the keys were used and in
\* the terminal that is shown, however many keys are held and queued.  It holds
\* of every key but the mistaken ones, whose characters are taken for F1 to F3.
THEOREM KeysDoWhatTheySay ==
    ASSUME Keys \subseteq HonestKeys
    PROVE  Spec => ImplementsTypist
<1>1. Init => Desk!Init
  <2>. SUFFICES ASSUME Init PROVE Desk!Init
    OBVIOUS
  <2>1. 0 \in Terms
    BY KeyboardAssumption DEF Terms
  <2>. QED
    BY <2>1 DEF Init, Desk!Init, Nothing
<1>2. TypeOK /\ Inv /\ [Next]_vars => [Desk!Next]_Desk!vars
  BY TypistStep
<1>. QED
  BY <1>1, <1>2, TypeInit, TypeStep, InvInit, InvStep, PTL
  DEF Spec, ImplementsTypist, Desk!Spec
=============================================================================
