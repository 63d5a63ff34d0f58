-------------------------- MODULE LineInput_proofs --------------------------
(***************************************************************************)
(* Theorems about LineInput for every buffer size and every newline code   *)
(* that lies inside the buffer, with Enter pressed on a full buffer or not,*)
(* and that buffer, handler and reader implement LineQueue.                *)
(***************************************************************************)
EXTENDS MCLineInput, SequenceTheorems, TLAPS

\* A space of a Tab is in the buffer and not yet counted in idx.
MidSpace == kbd \in {"tabByte", "tabIdx"}

\* The byte of that space is inside the buffer, and it is one of the Tab's.
SpaceFits ==
    /\ kbd = "tabByte" => idx < INPUT_BUFFER_SIZE
    /\ MidSpace => tabs > 0

TypeInv == TypeOK /\ SpaceFits

\* The type invariant but for eol: the provers treat a Boolean variable and
\* arithmetic in steps of their own.
Numbers ==
    /\ buffer \in [Positions -> Cells]
    /\ idx \in 0 .. INPUT_BUFFER_SIZE
    /\ kbd \in {"idle", "enter", "tab", "tabByte", "tabIdx"}
    /\ tabs \in 0 .. TabWidth
    /\ tab_idx \in 0 .. INPUT_BUFFER_SIZE
    /\ reader \in {"away", "spin", "copy"}
    /\ want \in Nat
    /\ stored \in 0 .. MaxStored

\* eol stays Boolean when it is set, reset or kept.
LEMMA NumbersAndEol ==
    ASSUME TypeOK, Numbers', eol' = eol \/ eol' = TRUE \/ eol' = FALSE
    PROVE  TypeOK'
BY Zenon DEF TypeOK, Numbers

\* The positions of a shorter line are positions of the longer one.
LEMMA ShorterPrefix ==
    ASSUME NEW m \in Nat, NEW n \in Nat, m < n
    PROVE  \A i \in 0 .. m - 1 : i \in 0 .. n - 1
OBVIOUS

\* A byte stored at idx, inside the buffer, leaves the bytes before it alone.
LEMMA ByteAtIdx ==
    ASSUME TypeOK, idx < INPUT_BUFFER_SIZE, NEW nl \in BOOLEAN,
           stored < MaxStored,
           buffer' = [buffer EXCEPT ![idx] = [turn |-> stored + 1, nl |-> nl]]
    PROVE  /\ buffer' \in [Positions -> Cells]
           /\ buffer'[idx].turn = stored + 1
           /\ \A i \in 0 .. idx - 1 : buffer'[i] = buffer[i]
<1>0. /\ idx \in 0 .. INPUT_BUFFER_SIZE /\ stored \in 0 .. MaxStored
      /\ buffer \in [Positions -> Cells] /\ MaxStored \in Nat
      /\ INPUT_BUFFER_SIZE \in Nat
  BY LineInputAssumption DEF TypeOK
<1>1. idx \in Positions
  BY <1>0 DEF Positions
<1>2. [turn |-> stored + 1, nl |-> nl] \in Cells
  BY <1>0 DEF Cells
<1>3. buffer'[idx] = [turn |-> stored + 1, nl |-> nl]
  BY <1>0, <1>1
<1>4. \A i \in 0 .. idx - 1 : i \in Positions /\ buffer'[i] = buffer[i]
  BY <1>0 DEF Positions
<1>5. buffer' \in [Positions -> Cells]
  BY <1>0, <1>1, <1>2
<1>. QED
  BY <1>3, <1>4, <1>5

\* What one stored character does: it joins the end of the line, or, when a
\* newline overruns the buffer, a shorter prefix of it is left.
LEMMA StoreEffect ==
    ASSUME TypeOK, NEW nl \in BOOLEAN, Store(nl)
    PROVE  /\ stored' = stored + 1 /\ stored' \in 0 .. MaxStored
           /\ buffer' \in [Positions -> Cells]
           /\ idx' \in 0 .. INPUT_BUFFER_SIZE
           /\ \/ /\ idx' = idx + 1
                 /\ buffer'[idx].turn = stored + 1
                 /\ \A i \in 0 .. idx - 1 : buffer'[i] = buffer[i]
              \/ /\ idx' < idx /\ buffer' = buffer
<1>. USE LineInputAssumption DEF Store
<1>0. /\ idx \in 0 .. INPUT_BUFFER_SIZE /\ stored \in 0 .. MaxStored
      /\ buffer \in [Positions -> Cells]
  BY DEF TypeOK
<1>1. stored' = stored + 1 /\ stored + 1 \in 0 .. MaxStored
  BY <1>0
<1>2. CASE idx < INPUT_BUFFER_SIZE
  <2>1. /\ buffer' = [buffer EXCEPT ![idx] = [turn |-> stored + 1, nl |-> nl]]
        /\ idx' = idx + 1 /\ stored < MaxStored
    BY <1>2
  <2>2. /\ buffer' \in [Positions -> Cells]
        /\ buffer'[idx].turn = stored + 1
        /\ \A i \in 0 .. idx - 1 : buffer'[i] = buffer[i]
    BY <1>2, <2>1, ByteAtIdx
  <2>. QED
    BY <1>0, <1>1, <1>2, <2>1, <2>2
<1>3. CASE ~(idx < INPUT_BUFFER_SIZE)
  BY <1>0, <1>1, <1>3
<1>. QED
  BY <1>2, <1>3

-----------------------------------------------------------------------------
LEMMA TypeStep ==
    ASSUME TypeInv, [Next]_vars
    PROVE  TypeInv'
<1>. USE LineInputAssumption
<1>0. /\ buffer \in [Positions -> Cells]
      /\ idx \in 0 .. INPUT_BUFFER_SIZE
      /\ kbd \in {"idle", "enter", "tab", "tabByte", "tabIdx"}
      /\ tabs \in 0 .. TabWidth /\ tab_idx \in 0 .. INPUT_BUFFER_SIZE
      /\ reader \in {"away", "spin", "copy"}
      /\ want \in Nat /\ stored \in 0 .. MaxStored
      /\ kbd = "tabByte" => idx < INPUT_BUFFER_SIZE
      /\ MidSpace => tabs > 0
  BY DEF TypeInv, TypeOK, SpaceFits
<1>1. SUFFICES /\ eol' = eol \/ eol' = TRUE \/ eol' = FALSE
               /\ Numbers' /\ SpaceFits'
  BY NumbersAndEol DEF TypeInv
<1>2. CASE KeyText \/ KeyEnter \/ KeyTab
  <2>1. PICK nl \in BOOLEAN : Store(nl)
    BY <1>2 DEF KeyText, KeyEnter, KeyTab
  <2>2. eol' = eol /\ kbd' \in {"idle", "enter", "tab"} /\ tabs' \in 0 .. TabWidth
        /\ UNCHANGED <<tab_idx, reader, want>>
    <3>1. CASE KeyText
      BY <1>0, <3>1 DEF KeyText
    <3>2. CASE KeyEnter
      BY <1>0, <3>2 DEF KeyEnter
    <3>3. CASE KeyTab
      BY <1>0, <3>3 DEF KeyTab
    <3>. QED
      BY <1>2, <3>1, <3>2, <3>3
  <2>. QED
    BY <1>0, <2>1, <2>2, StoreEffect DEF TypeInv, Numbers, SpaceFits, MidSpace
<1>3. CASE TabByte
  <2>1. /\ idx < INPUT_BUFFER_SIZE /\ tabs > 0 /\ stored < MaxStored
        /\ buffer' = [buffer EXCEPT ![idx] = [turn |-> stored + 1, nl |-> FALSE]]
        /\ stored' = stored + 1 /\ kbd' = "tabByte"
        /\ UNCHANGED <<idx, tabs, tab_idx, reader, want>>
    BY <1>0, <1>3 DEF TabByte, HasRoom
  <2>2. eol' = eol
    BY <1>3 DEF TabByte
  <2>3. buffer' \in [Positions -> Cells]
    BY <2>1, ByteAtIdx DEF TypeInv
  <2>. QED
    BY <1>0, <2>1, <2>2, <2>3 DEF Numbers, SpaceFits, MidSpace
<1>4. CASE TabLoad \/ TabStore \/ TabDone
  <2>1. eol' = eol
    BY <1>4 DEF TabLoad, TabStore, TabDone
  <2>2. Numbers' /\ SpaceFits'
    BY <1>0, <1>4 DEF TabLoad, TabStore, TabDone, Numbers, SpaceFits, MidSpace
  <2>. QED
    BY <2>1, <2>2
<1>5. CASE EnterDone \/ (\E n \in ReadSizes : ReadCall(n)) \/ ReadSeesEol
           \/ UNCHANGED vars
  <2>1. eol' = TRUE \/ eol' = eol
    BY <1>5 DEF EnterDone, ReadCall, ReadSeesEol, vars
  <2>2. Numbers' /\ SpaceFits'
    BY <1>0, <1>5
    DEF EnterDone, ReadCall, ReadSeesEol, vars, Numbers, SpaceFits, MidSpace
  <2>. QED
    BY <2>1, <2>2
<1>6. CASE KeyBackspace
  <2>1. /\ buffer' = [buffer EXCEPT ![idx - 1] = Blank] /\ idx' = idx - 1
        /\ idx # 0 /\ kbd = "idle"
        /\ UNCHANGED <<kbd, tabs, tab_idx, reader, want, stored>>
    BY <1>6 DEF KeyBackspace, ErasedIdx
  <2>2. eol' = eol
    BY <1>6 DEF KeyBackspace
  <2>3. buffer' \in [Positions -> Cells]
    <3>1. Blank \in Cells
      BY DEF Blank, Cells
    <3>. QED
      BY <1>0, <2>1, <3>1
  <2>. QED
    BY <1>0, <2>1, <2>2, <2>3 DEF Numbers, SpaceFits, MidSpace
<1>7. CASE ReadCopy
  <2>1. eol' = FALSE
    BY <1>7 DEF ReadCopy, EolAfterRead
  <2>2. Numbers' /\ SpaceFits'
    BY <1>0, <1>7 DEF ReadCopy, IdxAfterRead, Numbers, SpaceFits, MidSpace
  <2>. QED
    BY <2>1, <2>2
<1>. QED
  BY <1>2, <1>3, <1>4, <1>5, <1>6, <1>7 DEF Next

LEMMA TypeInit ==
    ASSUME Init
    PROVE  TypeInv
<1>1. eol = FALSE
  BY DEF Init
<1>2. Numbers /\ SpaceFits
  BY LineInputAssumption DEF Init, Numbers, SpaceFits, MidSpace, Blank, Cells
<1>. QED
  BY <1>1, <1>2 DEF TypeInv, TypeOK, Numbers

\* The handler stores inside input: idx never passes the end of the buffer, and
\* a newline stored there (kbd.c:68) puts it back inside.
THEOREM TypeCorrect == Spec => []TypeOK
<1>1. TypeInv => TypeOK
  BY DEF TypeInv
<1>. QED
  BY <1>1, TypeInit, TypeStep, PTL DEF Spec

-----------------------------------------------------------------------------
\* What the line and the last read are made of is not newer than the last
\* character stored, or the one before it in the middle of a Tab's space.
Newest == IF MidSpace THEN stored - 1 ELSE stored

Numbered ==
    /\ \A i \in 0 .. idx - 1 : buffer[i].turn <= Newest
    /\ DOMAIN got \subseteq Nat
    /\ \A i \in DOMAIN got : got[i] \in Cells /\ got[i].turn <= Newest

\* The space waits where idx points, and idx + 1 is what will be stored.
PendingSpace ==
    /\ MidSpace => buffer[idx].turn = stored /\ stored > 0
    /\ kbd = "tabIdx" => tab_idx = idx + 1

Inv == TypeInv /\ InOrderOnce /\ Numbered /\ PendingSpace

\* What the numbers and the turns of the line range over.
LEMMA Turns ==
    ASSUME Inv
    PROVE  /\ idx \in Nat /\ stored \in Nat /\ idx <= INPUT_BUFFER_SIZE
           /\ Newest \in Int /\ Newest <= stored
           /\ \A i \in 0 .. idx - 1 :
                 i \in Positions /\ buffer[i] \in Cells /\ buffer[i].turn \in Nat
           /\ \A i \in DOMAIN got : i \in Nat /\ got[i].turn \in Nat
<1>1. /\ buffer \in [Positions -> Cells] /\ idx \in 0 .. INPUT_BUFFER_SIZE
      /\ stored \in 0 .. MaxStored /\ INPUT_BUFFER_SIZE \in Nat /\ MaxStored \in Nat
  BY LineInputAssumption DEF Inv, TypeInv, TypeOK
<1>2. \A i \in 0 .. idx - 1 : i \in Positions
  BY <1>1 DEF Positions
<1>3. \A i \in 0 .. idx - 1 : buffer[i] \in Cells
  BY <1>1, <1>2
<1>4. \A c \in Cells : c.turn \in Nat
  BY <1>1 DEF Cells
<1>5. Newest \in Int /\ Newest <= stored
  BY <1>1 DEF Newest
<1>6. \A i \in DOMAIN got : i \in Nat /\ got[i] \in Cells
  BY DEF Inv, Numbered
<1>. QED
  BY <1>1, <1>2, <1>3, <1>4, <1>5, <1>6

LEMMA StoreKeepsOrder ==
    ASSUME Inv, NEW nl \in BOOLEAN, Store(nl), got' = got,
           ~MidSpace, ~MidSpace'
    PROVE  InOrderOnce' /\ Numbered'
<1>1. stored' = stored + 1 /\ stored \in Nat /\ idx \in Nat /\ idx' \in Nat
  BY StoreEffect, Turns, LineInputAssumption DEF Inv, TypeInv
<1>2. /\ \A i \in 0 .. idx - 1 : buffer[i].turn \in Nat /\ buffer[i].turn <= stored
      /\ \A i \in DOMAIN got : got[i].turn \in Nat /\ got[i].turn <= stored
  BY Turns DEF Inv, Numbered, Newest
<1>3. Newest' = stored'
  BY DEF Newest
<1>4. CASE idx' < idx /\ buffer' = buffer
  <2>1. idx' < idx
    BY <1>4
  <2>2. \A i \in 0 .. idx' - 1 : i \in 0 .. idx - 1
    BY <1>1, <2>1, ShorterPrefix
  <2>3. InOrderOnce'
    BY <1>4, <2>2 DEF Inv, InOrderOnce
  <2>4. \A i \in 0 .. idx' - 1 : buffer'[i].turn <= stored'
    BY <1>1, <1>2, <1>4, <2>2
  <2>5. \A i \in DOMAIN got : got[i].turn <= stored'
    BY <1>1, <1>2
  <2>6. Numbered'
    BY <1>3, <2>4, <2>5 DEF Inv, Numbered
  <2>. QED
    BY <2>3, <2>6
<1>5. CASE /\ idx' = idx + 1
           /\ buffer'[idx].turn = stored + 1
           /\ \A i \in 0 .. idx - 1 : buffer'[i] = buffer[i]
  <2>1. \A i \in 0 .. idx' - 1 : i = idx \/ i \in 0 .. idx - 1
    BY <1>1, <1>5
  <2>. QED
    BY <1>1, <1>2, <1>3, <1>5, <2>1 DEF Inv, InOrderOnce, Numbered
<1>. QED
  BY <1>4, <1>5, StoreEffect DEF Inv, TypeInv

LEMMA StepInv ==
    ASSUME Inv, [Next]_vars, ~TabPreempted
    PROVE  Inv'
<1>0. TypeInv'
  BY TypeStep DEF Inv
<1>1. SUFFICES InOrderOnce' /\ Numbered' /\ PendingSpace'
  BY <1>0 DEF Inv
<1>2. CASE KeyText \/ KeyEnter \/ KeyTab
  <2>1. PICK nl \in BOOLEAN : Store(nl)
    BY <1>2 DEF KeyText, KeyEnter, KeyTab
  <2>2. got' = got /\ ~MidSpace /\ ~MidSpace'
    BY <1>2 DEF KeyText, KeyEnter, KeyTab, MidSpace
  <2>3. InOrderOnce' /\ Numbered'
    BY <2>1, <2>2, StoreKeepsOrder
  <2>. QED
    BY <2>2, <2>3 DEF PendingSpace, MidSpace
<1>3. CASE TabByte
  <2>1. /\ idx < INPUT_BUFFER_SIZE /\ stored < MaxStored
        /\ buffer' = [buffer EXCEPT ![idx] = [turn |-> stored + 1, nl |-> FALSE]]
        /\ stored' = stored + 1 /\ kbd = "tab" /\ kbd' = "tabByte"
        /\ UNCHANGED <<idx, got>>
    BY <1>3, Turns, LineInputAssumption DEF TabByte, HasRoom
  <2>2. /\ buffer'[idx].turn = stored + 1
        /\ \A i \in 0 .. idx - 1 : buffer'[i] = buffer[i]
    BY <2>1, ByteAtIdx DEF Inv, TypeInv
  <2>3. Newest' = Newest
    BY <2>1, Turns DEF Newest, MidSpace
  <2>4. InOrderOnce' /\ Numbered'
    BY <2>1, <2>2, <2>3 DEF Inv, InOrderOnce, Numbered
  <2>. QED
    BY <2>1, <2>2, <2>4, Turns DEF PendingSpace, MidSpace
<1>4. CASE TabLoad
  <2>1. UNCHANGED <<buffer, idx, got, stored>> /\ MidSpace /\ MidSpace'
        /\ tab_idx' = idx + 1
    BY <1>4 DEF TabLoad, MidSpace
  <2>. QED
    BY <2>1 DEF Inv, InOrderOnce, Numbered, Newest, PendingSpace
<1>5. CASE TabStore
  <2>1. /\ UNCHANGED <<buffer, got, stored>> /\ idx' = idx + 1
        /\ MidSpace /\ ~MidSpace' /\ kbd' = "tab"
    BY <1>5 DEF TabStore, MidSpace, Inv, PendingSpace
  <2>2. Newest = stored - 1 /\ Newest' = stored /\ buffer[idx].turn = stored /\ stored > 0
    BY <2>1 DEF Newest, Inv, PendingSpace
  <2>3. \A i \in 0 .. idx' - 1 : i = idx \/ i \in 0 .. idx - 1
    BY <2>1, Turns
  <2>4. InOrderOnce' /\ Numbered'
    BY <2>1, <2>2, <2>3, Turns DEF Inv, InOrderOnce, Numbered
  <2>. QED
    BY <2>1, <2>4 DEF PendingSpace
<1>6. CASE EnterDone \/ TabDone \/ (\E n \in ReadSizes : ReadCall(n)) \/ ReadSeesEol
           \/ UNCHANGED vars
  <2>1. UNCHANGED <<buffer, idx, tab_idx, got, stored>>
    BY <1>6 DEF EnterDone, TabDone, ReadCall, ReadSeesEol, vars
  <2>2. (MidSpace' <=> MidSpace) /\ (kbd' = "tabIdx" => kbd = "tabIdx")
    BY <1>6 DEF EnterDone, TabDone, ReadCall, ReadSeesEol, vars, MidSpace
  <2>. QED
    BY <2>1, <2>2 DEF Inv, InOrderOnce, Numbered, Newest, PendingSpace
<1>7. CASE KeyBackspace
  <2>1. /\ buffer' = [buffer EXCEPT ![idx - 1] = Blank] /\ idx' = idx - 1
        /\ idx # 0 /\ UNCHANGED <<got, stored>> /\ ~MidSpace /\ ~MidSpace'
    BY <1>7 DEF KeyBackspace, ErasedIdx, MidSpace
  <2>2. \A i \in 0 .. idx' - 1 : i \in 0 .. idx - 1 /\ buffer'[i] = buffer[i]
    BY <2>1, Turns DEF Inv, TypeInv, TypeOK
  <2>3. Newest' = Newest
    BY <2>1 DEF Newest
  <2>4. InOrderOnce' /\ Numbered'
    BY <2>1, <2>2, <2>3 DEF Inv, InOrderOnce, Numbered
  <2>. QED
    BY <2>1, <2>4 DEF PendingSpace, MidSpace
<1>8. CASE ReadCopy
  <2>1. idx' = 0 /\ stored' = stored /\ ~MidSpace /\ ~MidSpace'
    BY <1>8 DEF ReadCopy, IdxAfterRead, MidSpace
  <2>2. got' = [i \in 1 .. ReadLength |-> buffer[i - 1]]
    BY <1>8 DEF ReadCopy
  <2>3. ReadLength \in Nat /\ ReadLength <= idx
    BY Turns DEF ReadLength, Inv, TypeInv, TypeOK
  <2>4. \A i \in 1 .. ReadLength : i - 1 \in 0 .. idx - 1
    BY <2>3, Turns
  <2>5. \A i \in DOMAIN got' : /\ i \in 1 .. ReadLength /\ i \in Nat
                               /\ got'[i] = buffer[i - 1]
    BY <2>2, <2>3
  <2>6. \A i, j \in DOMAIN got' : i < j => got'[i].turn < got'[j].turn
    BY <2>3, <2>4, <2>5 DEF Inv, InOrderOnce
  <2>7. \A i \in 0 .. idx' - 1 : FALSE
    BY <2>1
  <2>8. Newest' = Newest
    BY <2>1 DEF Newest
  <2>9. \A i \in DOMAIN got' : got'[i] \in Cells /\ got'[i].turn <= Newest'
    BY <2>4, <2>5, <2>8, Turns DEF Inv, Numbered
  <2>10. DOMAIN got' \subseteq Nat
    BY <2>5
  <2>11. InOrderOnce'
    BY <2>6, <2>7 DEF InOrderOnce
  <2>12. Numbered'
    BY <2>7, <2>9, <2>10 DEF Numbered
  <2>. QED
    BY <2>1, <2>11, <2>12 DEF PendingSpace, MidSpace
<1>. QED
  BY <1>2, <1>3, <1>4, <1>5, <1>6, <1>7, <1>8 DEF Next

LEMMA InitInv ==
    ASSUME Init
    PROVE  Inv
<1>1. \A i \in 0 .. idx - 1 : FALSE
  BY DEF Init
<1>2. DOMAIN got = {} /\ kbd = "idle"
  BY DEF Init
<1>. QED
  BY <1>1, <1>2, TypeInit
  DEF Inv, InOrderOnce, Numbered, PendingSpace, MidSpace

\* Whatever is typed and whenever the reader runs, except inside the three
\* steps of a Tab's space, no character is delivered twice or before an earlier
\* one: what terminal_read copies is what keyboard_handler stored, once.
THEOREM DeliveredInOrderOnce ==
    ASSUME ~TabPreempted
    PROVE  Spec => []InOrderOnce
<1>1. Inv => InOrderOnce
  BY DEF Inv
<1>2. Inv /\ [Next]_vars => Inv'
  BY StepInv
<1>. QED
  BY <1>1, <1>2, InitInv, PTL DEF Spec
-----------------------------------------------------------------------------
\* The first n bytes of a buffer, as a sequence; that they are in S; that two
\* buffers agree on them.
Prefix(f, n) == [i \in 1 .. n |-> f[i - 1]]
Bytes(f, n, S) == \A i \in 0 .. n - 1 : f[i] \in S
SameBytes(f, g, n) == \A i \in 0 .. n - 1 : f[i] = g[i]

LEMMA PrefixIsSeq ==
    ASSUME NEW S, NEW f, NEW n \in Nat, Bytes(f, n, S)
    PROVE  /\ Prefix(f, n) \in Seq(S)
           /\ Len(Prefix(f, n)) = n
           /\ \A i \in 1 .. n : Prefix(f, n)[i] = f[i - 1]
<1>1. \A i \in 1 .. n : i - 1 \in 0 .. n - 1
  OBVIOUS
<1>2. Prefix(f, n) \in [1 .. n -> S]
  BY <1>1 DEF Prefix, Bytes
<1>3. Prefix(f, n) \in Seq(S)
  BY <1>2
<1>4. DOMAIN Prefix(f, n) = 1 .. n
  BY DEF Prefix
<1>5. QED
  BY <1>3, <1>4, <1>2 DEF Prefix

\* One more byte.
LEMMA PrefixAppend ==
    ASSUME NEW S, NEW f, NEW g, NEW n \in Nat,
           Bytes(f, n, S), SameBytes(g, f, n), g[n] \in S
    PROVE  Prefix(g, n + 1) = Append(Prefix(f, n), g[n])
<1>1. /\ Prefix(f, n) \in Seq(S)
      /\ Len(Prefix(f, n)) = n
      /\ \A i \in 1 .. n : Prefix(f, n)[i] = f[i - 1]
  BY PrefixIsSeq
<1>2. n + 1 \in Nat /\ Bytes(g, n + 1, S)
  BY DEF Bytes, SameBytes
<1>3. /\ Prefix(g, n + 1) \in Seq(S)
      /\ Len(Prefix(g, n + 1)) = n + 1
      /\ \A i \in 1 .. n + 1 : Prefix(g, n + 1)[i] = g[i - 1]
  BY <1>2, PrefixIsSeq
<1>4. /\ Append(Prefix(f, n), g[n]) \in Seq(S)
      /\ Len(Append(Prefix(f, n), g[n])) = n + 1
      /\ \A i \in 1 .. n : Append(Prefix(f, n), g[n])[i] = f[i - 1]
      /\ Append(Prefix(f, n), g[n])[n + 1] = g[n]
  BY <1>1, AppendProperties
<1>5. \A i \in 1 .. n + 1 : Prefix(g, n + 1)[i] = Append(Prefix(f, n), g[n])[i]
  <2>1. \A i \in 1 .. n : i - 1 \in 0 .. n - 1
    OBVIOUS
  <2>2. \A i \in 1 .. n : g[i - 1] = f[i - 1]
    BY <2>1 DEF SameBytes
  <2>3. \A i \in 1 .. n + 1 : i \in 1 .. n \/ i = n + 1
    OBVIOUS
  <2>4. QED
    BY <1>3, <1>4, <2>2, <2>3
<1>6. QED
  BY <1>3, <1>4, <1>5, SeqEqual

\* The first m of them.
LEMMA PrefixSub ==
    ASSUME NEW S, NEW f, NEW n \in Nat, NEW m \in 0 .. n, Bytes(f, n, S)
    PROVE  SubSeq(Prefix(f, n), 1, m) = Prefix(f, m)
<1>1. /\ Prefix(f, n) \in Seq(S)
      /\ Len(Prefix(f, n)) = n
      /\ \A i \in 1 .. n : Prefix(f, n)[i] = f[i - 1]
  BY PrefixIsSeq
<1>2. m \in Nat /\ Bytes(f, m, S)
  BY DEF Bytes
<1>3. /\ Prefix(f, m) \in Seq(S)
      /\ Len(Prefix(f, m)) = m
      /\ \A i \in 1 .. m : Prefix(f, m)[i] = f[i - 1]
  BY <1>2, PrefixIsSeq
<1>4. QED
  BY <1>1, <1>3, SeqEqual

\* The bytes of the line are cells.
LEMMA LineOfCells ==
    ASSUME Inv
    PROVE  /\ idx \in Nat
           /\ Bytes(buffer, idx, Cells)
           /\ Prefix(buffer, idx) \in Seq(Cells)
           /\ Len(Prefix(buffer, idx)) = idx
<1>1. idx \in Nat /\ Bytes(buffer, idx, Cells)
  BY Turns DEF Bytes
<1>2. QED
  BY <1>1, PrefixIsSeq

\* A stored character is typed at the end of the line.
LEMMA TypedAtEnd ==
    ASSUME Inv, Inv', idx < INPUT_BUFFER_SIZE, idx' = idx + 1,
           \A i \in 0 .. idx - 1 : buffer'[i] = buffer[i], got' = got
    PROVE  \E c \in Cells : Queue!Type(c)
<1>1. idx \in Nat /\ Bytes(buffer, idx, Cells) /\ Len(Prefix(buffer, idx)) = idx
  BY LineOfCells
<1>2. buffer' \in [Positions -> Cells] /\ idx \in Positions
  BY <1>1, LineInputAssumption DEF Inv, TypeInv, TypeOK, Positions
<1>3. buffer'[idx] \in Cells
  BY <1>2
<1>4. Prefix(buffer', idx + 1) = Append(Prefix(buffer, idx), buffer'[idx])
  <2>1. SameBytes(buffer', buffer, idx)
    BY DEF SameBytes
  <2>2. QED
    BY <1>1, <1>3, <2>1, PrefixAppend
<1>5. QED
  BY <1>1, <1>3, <1>4 DEF Queue!Type, Prefix

LEMMA StepIsQueue ==
    ASSUME Inv, Inv', [Next]_vars, ~EnterWhenFull, ~TabPreempted
    PROVE  [Queue!Next]_(Queue!vars)
<1>. DEFINE line == [i \in 1 .. idx |-> buffer[i - 1]]
<1>1. SUFFICES \/ \E c \in Cells : Queue!Type(c)
               \/ Queue!Erase
               \/ Queue!Take
               \/ UNCHANGED <<line, got>>
  BY DEF Queue!Next, Queue!vars
<1>2. /\ idx \in 0 .. INPUT_BUFFER_SIZE
      /\ INPUT_BUFFER_SIZE \in Nat
      /\ stored \in 0 .. MaxStored
      /\ buffer \in [Positions -> Cells]
      /\ TypeOK
  BY LineInputAssumption DEF Inv, TypeInv, TypeOK
<1>3. CASE KeyText \/ KeyEnter \/ KeyTab
  <2>1. PICK nl \in BOOLEAN : Store(nl)
    BY <1>3 DEF KeyText, KeyEnter, KeyTab
  <2>2. got' = got /\ idx < INPUT_BUFFER_SIZE
    <3>1. CASE KeyText \/ KeyTab
      <4>1. HasRoom /\ got' = got
        BY <3>1, Zenon DEF KeyText, KeyTab
      <4>2. QED
        BY <1>2, <4>1 DEF HasRoom
    <3>2. CASE KeyEnter
      BY <3>2, Zenon DEF KeyEnter
    <3>3. QED
      BY <1>3, <3>1, <3>2
  <2>3. idx' = idx + 1 /\ \A i \in 0 .. idx - 1 : buffer'[i] = buffer[i]
    BY <1>2, <2>1, <2>2, StoreEffect DEF Store
  <2>4. QED
    BY <2>2, <2>3, TypedAtEnd
<1>4. CASE TabByte
  <2>1. /\ idx < INPUT_BUFFER_SIZE /\ stored < MaxStored
        /\ buffer' = [buffer EXCEPT ![idx] = [turn |-> stored + 1, nl |-> FALSE]]
        /\ UNCHANGED <<idx, got>>
    BY <1>2, <1>4 DEF TabByte, HasRoom
  <2>2. \A i \in 0 .. idx - 1 : buffer'[i] = buffer[i]
    BY <1>2, <2>1, ByteAtIdx
  <2>3. \A i \in 1 .. idx : i - 1 \in 0 .. idx - 1
    BY <1>2
  <2>4. line' = line
    BY <2>1, <2>2, <2>3
  <2>5. QED
    BY <2>1, <2>4
<1>5. CASE TabStore
  <2>1. idx' = idx + 1 /\ UNCHANGED <<buffer, got>>
    BY <1>5 DEF TabStore, Inv, PendingSpace
  <2>2. idx' \in 0 .. INPUT_BUFFER_SIZE
    BY DEF Inv, TypeInv, TypeOK
  <2>3. idx < INPUT_BUFFER_SIZE
    BY <1>2, <2>1, <2>2
  <2>4. QED
    BY <2>1, <2>3, TypedAtEnd
<1>6. CASE KeyBackspace
  <2>1. /\ buffer' = [buffer EXCEPT ![idx - 1] = Blank]
        /\ idx' = idx - 1 /\ idx # 0 /\ got' = got
    BY <1>6 DEF KeyBackspace, ErasedIdx
  <2>2. /\ idx \in Nat
        /\ Bytes(buffer, idx, Cells)
        /\ Len(Prefix(buffer, idx)) = idx
    BY LineOfCells
  <2>3. SubSeq(Prefix(buffer, idx), 1, idx - 1) = Prefix(buffer, idx - 1)
    BY <2>1, <2>2, PrefixSub
  <2>4. \A i \in 1 .. idx - 1 : buffer'[i - 1] = buffer[i - 1]
    BY <1>2, <2>1 DEF Positions
  <2>5. line' = Prefix(buffer, idx - 1)
    BY <2>1, <2>4 DEF Prefix
  <2>6. line = Prefix(buffer, idx)
    BY DEF Prefix
  <2>7. line # <<>>
    BY <2>1, <2>2, <2>6
  <2>8. QED
    BY <2>1, <2>2, <2>3, <2>5, <2>6, <2>7 DEF Queue!Erase, Queue!Front
<1>7. CASE ReadCopy
  <2>1. idx' = 0 /\ got' = Prefix(buffer, ReadLength)
    BY <1>7 DEF ReadCopy, IdxAfterRead, Prefix
  <2>2. ReadLength \in 0 .. idx
    BY <1>2 DEF ReadLength, TypeOK
  <2>3. /\ idx \in Nat
        /\ Bytes(buffer, idx, Cells)
        /\ Len(Prefix(buffer, idx)) = idx
    BY LineOfCells
  <2>4. got' = SubSeq(Prefix(buffer, idx), 1, ReadLength)
    BY <2>1, <2>2, <2>3, PrefixSub
  <2>5. line' = <<>>
    BY <2>1
  <2>6. line = Prefix(buffer, idx)
    BY DEF Prefix
  <2>7. QED
    BY <2>2, <2>3, <2>4, <2>5, <2>6 DEF Queue!Take
<1>8. CASE \/ EnterDone \/ TabLoad \/ TabDone \/ (\E n \in ReadSizes : ReadCall(n))
           \/ ReadSeesEol \/ UNCHANGED vars
  BY <1>8 DEF EnterDone, TabLoad, TabDone, ReadCall, ReadSeesEol, vars
<1>. QED
  BY <1>3, <1>4, <1>5, <1>6, <1>7, <1>8 DEF Next

\* terminal_read hands over exactly what was typed since the last read, less
\* what was erased, as long as Enter is not pressed again on a full buffer and
\* the reader does not run inside the three steps of a Tab's space.
THEOREM ReadsWhatWasTyped ==
    ASSUME ~EnterWhenFull, ~TabPreempted
    PROVE  Spec => ImplementsLineQueue
<1>1. Init => Queue!Init
  <2>1. SUFFICES ASSUME Init PROVE Queue!Init
    OBVIOUS
  <2>2. idx = 0 /\ got = <<>>
    BY <2>1 DEF Init
  <2>3. [i \in 1 .. idx |-> buffer[i - 1]] = <<>>
    BY <2>2
  <2>4. QED
    BY <2>2, <2>3 DEF Queue!Init
<1>2. Inv /\ [Next]_vars => Inv'
  BY StepInv
<1>3. Inv /\ Inv' /\ [Next]_vars => [Queue!Next]_(Queue!vars)
  BY StepIsQueue
<1>4. QED
  BY <1>1, <1>2, <1>3, InitInv, PTL DEF Spec, ImplementsLineQueue, Queue!Spec
=============================================================================
