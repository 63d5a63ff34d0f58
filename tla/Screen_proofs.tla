--------------------------- MODULE Screen_proofs ---------------------------
(***************************************************************************)
(* That a character is put at its own terminal's cursor, on its own page,  *)
(* and that the terminals implement Displays, for any number of terminals  *)
(* and any size of display, when nothing happens in the Windows; what is   *)
(* right in the Windows as well: the backgrounds and, but for "seek", the  *)
(* types.                                                                  *)
(***************************************************************************)
EXTENDS MCScreen, TLAPS

PlacesInWrite == {"out", "put", "line", "next", "seek"}

ControlTypes ==
    /\ scheduled_term \in Terms
    /\ visible_term \in Terms
    /\ at \in [Terms -> PlacesInWrite]

\* A slice that begins in the visible terminal keeps the screen position it
\* finds, so no writer may be waiting there to put a character.
NoneWaitsOnDisplay == at[visible_term] = "seek" => scheduled_term = visible_term

PutInv == ControlTypes /\ NoneWaitsOnDisplay /\ PutsAtCursor

\* The scheduler's next terminal is a terminal.
LEMMA NextIsTerm ==
    ASSUME NEW t \in Terms
    PROVE  (t + 1) % NUM_TTYS \in Terms
BY ScreenAssumption DEF Terms

\* The first slice is terminal 0's and nobody writes.
LEMMA PutInvInit == Init => PutInv
<1>1. 0 \in Terms
  BY ScreenAssumption DEF Terms
<1>2. QED
  BY <1>1 DEF Init, PutInv, ControlTypes, NoneWaitsOnDisplay, PutsAtCursor,
              PlacesInWrite

\* A step that takes the scheduled terminal to a place other than "seek", and
\* the other terminals nowhere.
LEMMA ScheduledMoves ==
    ASSUME PutInv, NEW place \in PlacesInWrite \ {"seek"},
           at' = [at EXCEPT ![scheduled_term] = place],
           UNCHANGED <<scheduled_term, visible_term>>
    PROVE  PutInv'
<1>1. /\ at'[scheduled_term] = place
      /\ \A t \in Terms : at'[t] = "seek" => at[t] = "seek"
  BY DEF PutInv, ControlTypes
<1>2. ControlTypes'
  BY DEF PutInv, ControlTypes
<1>3. NoneWaitsOnDisplay'
  BY <1>1 DEF PutInv, ControlTypes, NoneWaitsOnDisplay
<1>4. PutsAtCursor'
  BY <1>1 DEF PutsAtCursor
<1>5. QED
  BY <1>2, <1>3, <1>4 DEF PutInv

\* A key that is handled while no character is about to be put.
LEMMA KeyHandled ==
    ASSUME PutInv, at[scheduled_term] # "seek",
           UNCHANGED <<scheduled_term, visible_term, at>>
    PROVE  PutInv'
BY DEF PutInv, ControlTypes, NoneWaitsOnDisplay, PutsAtCursor

\* Every step keeps the invariant, by the action that took it.
LEMMA PutInvNext ==
    ASSUME Windows = {}
    PROVE  PutInv /\ [Next]_vars => PutInv'
<1> SUFFICES ASSUME PutInv, [Next]_vars
             PROVE  PutInv'
  OBVIOUS
<1>1. ASSUME NEW n \in 0 .. MaxWritten - 1, Write(n)
      PROVE  PutInv'
  <2>1. CASE at' = [at EXCEPT ![scheduled_term] = "put"]
    BY <1>1, <2>1, ScheduledMoves DEF Write, PlacesInWrite
  <2>2. CASE at' = [at EXCEPT ![scheduled_term] = "line"]
    BY <1>1, <2>2, ScheduledMoves DEF Write, PlacesInWrite
  <2>3. QED
    BY <1>1, <2>1, <2>2 DEF Write
<1>2. CASE Advance
  <2>1. CASE at' = [at EXCEPT ![scheduled_term] = "out"]
    BY <1>2, <2>1, ScheduledMoves DEF Advance, PlacesInWrite
  <2>2. CASE at' = [at EXCEPT ![scheduled_term] = "next"]
    BY <1>2, <2>2, ScheduledMoves DEF Advance, PlacesInWrite
  <2>3. QED
    BY <1>2, <2>1, <2>2 DEF Advance
<1>3. CASE Seek
  <2>1. /\ at' = [at EXCEPT ![scheduled_term] = "seek"]
        /\ screen' = cursor[scheduled_term]
        /\ pte = PageOf(scheduled_term)
        /\ UNCHANGED <<scheduled_term, visible_term, cursor, pte>>
    BY <1>3 DEF Seek, Fresh
  <2>2. ControlTypes'
    BY <2>1 DEF PutInv, ControlTypes, PlacesInWrite
  <2>3. NoneWaitsOnDisplay'
    BY <2>1 DEF PutInv, ControlTypes, NoneWaitsOnDisplay
  <2>4. PutsAtCursor'
    BY <2>1 DEF PutsAtCursor, PageOf
  <2>5. QED
    BY <2>2, <2>3, <2>4 DEF PutInv
<1>4. CASE Put
  <2>1. CASE at' = [at EXCEPT ![scheduled_term] = "put"]
    BY <1>4, <2>1, ScheduledMoves DEF Put, PlacesInWrite
  <2>2. CASE at' = [at EXCEPT ![scheduled_term] = "line"]
    BY <1>4, <2>2, ScheduledMoves DEF Put, PlacesInWrite
  <2>3. QED
    BY <1>4, <2>1, <2>2 DEF Put
<1>5. ASSUME NEW p \in Positions, Draw(p)
      PROVE  PutInv'
  BY <1>5, KeyHandled DEF Draw
<1>6. CASE Echo
  BY <1>6, KeyHandled DEF Echo, PositionUnused
<1>7. CASE EchoErase \/ EchoNewline
  BY <1>7, KeyHandled DEF EchoErase, EchoNewline, PositionUnused
<1>8. CASE CtrlL
  BY <1>8, KeyHandled DEF CtrlL, PositionUnused
<1>9. ASSUME NEW t \in Terms, Switch(t)
      PROVE  PutInv'
  <2>1. /\ at[scheduled_term] # "seek" /\ at[t] # "seek"
        /\ visible_term' = t
        /\ UNCHANGED <<scheduled_term, at>>
    BY <1>9 DEF Switch, PositionUnused
  <2>2. QED
    BY <2>1 DEF PutInv, ControlTypes, NoneWaitsOnDisplay, PutsAtCursor
<1>10. CASE Tick
  <2> DEFINE t == (scheduled_term + 1) % NUM_TTYS
  <2>1. t \in Terms
    BY NextIsTerm DEF PutInv, ControlTypes
  <2>2. /\ at[scheduled_term] # "seek" \/ scheduled_term # visible_term
        /\ scheduled_term' = t
        /\ pte' = PageOf(t)
        /\ screen' = Sought(t)
        /\ UNCHANGED <<visible_term, cursor, at>>
    BY <1>10 DEF Tick
  <2> HIDE DEF t
  <2>3. at[visible_term] # "seek"
    BY <2>2 DEF PutInv, NoneWaitsOnDisplay
  <2>4. ControlTypes'
    BY <2>1, <2>2 DEF PutInv, ControlTypes
  <2>5. NoneWaitsOnDisplay'
    BY <2>2, <2>3 DEF NoneWaitsOnDisplay
  <2>6. PutsAtCursor'
    BY <2>2, <2>3 DEF PutsAtCursor, PageOf, Sought
  <2>7. QED
    BY <2>4, <2>5, <2>6 DEF PutInv
<1>11. CASE UNCHANGED vars
  BY <1>11 DEF vars, PutInv, ControlTypes, NoneWaitsOnDisplay, PutsAtCursor, PageOf
<1>12. QED
  BY <1>1, <1>2, <1>3, <1>4, <1>5, <1>6, <1>7, <1>8, <1>9, <1>10, <1>11 DEF Next

\* Whenever terminal_write is about to put a character, the screen position is
\* its terminal's cursor and the page its terminal's (lib.c, putc).
THEOREM CharactersGoHome ==
    ASSUME Windows = {}
    PROVE  Spec => []PutsAtCursor
<1>1. PutInv => PutsAtCursor
  BY DEF PutInv
<1>2. QED
  BY <1>1, PutInvInit, PutInvNext, PTL DEF Spec
-----------------------------------------------------------------------------
\* The kernel writes output, and a program draws, on the displayed page or on
\* that of the terminal whose slice it is.
OwnPages ==
    /\ DOMAIN mem = Terms
    /\ pte \in {Displayed, scheduled_term}
    /\ user_pte \in {Displayed, scheduled_term}

\* No terminal's number is that of the displayed page.
LEMMA DisplayedIsNoTerm == Displayed \notin Terms
BY ScreenAssumption DEF Displayed, Terms

LEMMA RemapOwn ==
    ASSUME OwnPages
    PROVE  Remap \in {Displayed, scheduled_term}
BY DEF OwnPages, Remap

\* A character is stored on its page and nowhere else.
LEMMA StoreOwn ==
    ASSUME OwnPages, NEW page \in {Displayed, scheduled_term}, NEW p, NEW c,
           Store(page, p, c)
    PROVE  /\ DOMAIN mem' = Terms
           /\ \A t \in Terms : mem'[t] # mem[t] => t = scheduled_term
BY DisplayedIsNoTerm DEF OwnPages, Store

\* Moving the cursor changes the display of its own terminal only.
LEMMA CursorOwn ==
    ASSUME OwnPages, NEW u \in Terms, NEW p, NEW shown, CursorTo(u, p, shown)
    PROVE  /\ DOMAIN mem' = Terms
           /\ \A t \in Terms : mem'[t] # mem[t] => t = u /\ u # visible_term
BY DEF OwnPages, CursorTo, Becomes

\* What a step does to the pages, by the action that took it.
LEMMA OwnPagesNext ==
    ASSUME OwnPages, ControlTypes, [Next]_vars
    PROVE  /\ OwnPages'
           /\ ControlTypes'
           /\ \A t \in Terms : mem'[t] # mem[t] =>
                 t = scheduled_term \/ (t = visible_term /\ visible_term' # t)
<1> DEFINE Safe == \A t \in Terms : mem'[t] # mem[t] =>
                      t = scheduled_term \/ (t = visible_term /\ visible_term' # t)
<1>1. ASSUME NEW n \in 0 .. MaxWritten - 1, Write(n)
      PROVE  OwnPages' /\ ControlTypes' /\ Safe
  <2>1. /\ DOMAIN mem' = Terms
        /\ \A t \in Terms : mem'[t] # mem[t] => t = scheduled_term
    BY <1>1, RemapOwn, StoreOwn DEF Write, OwnPages
  <2>2. ControlTypes'
    BY <1>1 DEF Write, ControlTypes, PlacesInWrite
  <2>3. OwnPages'
    BY <1>1, <2>1, RemapOwn DEF Write, OwnPages
  <2>4. QED
    BY <2>1, <2>2, <2>3
<1>2. CASE Advance
  <2>1. /\ DOMAIN mem' = Terms
        /\ \A t \in Terms : mem'[t] # mem[t] => t = scheduled_term
    BY <1>2, CursorOwn DEF Advance, ControlTypes
  <2>2. ControlTypes'
    BY <1>2 DEF Advance, ControlTypes, PlacesInWrite
  <2>3. OwnPages'
    BY <1>2, <2>1 DEF Advance, OwnPages
  <2>4. QED
    BY <2>1, <2>2, <2>3
<1>3. CASE Seek
  BY <1>3 DEF Seek, ControlTypes, PlacesInWrite, OwnPages
<1>4. CASE Put
  <2>1. /\ DOMAIN mem' = Terms
        /\ \A t \in Terms : mem'[t] # mem[t] => t = scheduled_term
    BY <1>4, StoreOwn DEF Put, OwnPages
  <2>2. ControlTypes'
    BY <1>4 DEF Put, ControlTypes, PlacesInWrite
  <2>3. OwnPages'
    BY <1>4, <2>1 DEF Put, OwnPages
  <2>4. QED
    BY <2>1, <2>2, <2>3
<1>5. ASSUME NEW p \in Positions, Draw(p)
      PROVE  OwnPages' /\ ControlTypes' /\ Safe
  <2>1. /\ DOMAIN mem' = Terms
        /\ \A t \in Terms : mem'[t] # mem[t] => t = scheduled_term
    BY <1>5, StoreOwn DEF Draw, OwnPages
  <2>2. QED
    BY <1>5, <2>1 DEF Draw, ControlTypes, OwnPages
<1>6. CASE Echo \/ EchoNewline \/ EchoErase
  <2>1. /\ DOMAIN mem' = Terms
        /\ \A t \in Terms : mem'[t] = mem[t]
    BY <1>6, CursorOwn DEF Echo, EchoNewline, EchoErase, ControlTypes
  <2>2. ControlTypes'
    BY <1>6 DEF Echo, EchoNewline, EchoErase, ControlTypes
  <2>3. OwnPages'
    BY <1>6, <2>1, RemapOwn DEF Echo, EchoNewline, EchoErase, OwnPages
  <2>4. QED
    BY <2>1, <2>2, <2>3
<1>7. CASE CtrlL
  BY <1>7 DEF CtrlL, ControlTypes, OwnPages
<1>8. ASSUME NEW t \in Terms, Switch(t)
      PROVE  OwnPages' /\ ControlTypes' /\ Safe
  BY <1>8 DEF Switch, SavedPage, ControlTypes, OwnPages
<1>9. CASE Tick
  <2>1. (scheduled_term + 1) % NUM_TTYS \in Terms
    BY NextIsTerm DEF ControlTypes
  <2>2. QED
    BY <1>9, <2>1 DEF Tick, ControlTypes, OwnPages, PageOf
<1>10. CASE UNCHANGED vars
  BY <1>10 DEF vars, ControlTypes, OwnPages
<1>11. QED
  BY <1>1, <1>2, <1>3, <1>4, <1>5, <1>6, <1>7, <1>8, <1>9, <1>10 DEF Next

LEMMA OwnPagesInit == Init => OwnPages /\ ControlTypes
<1>1. 0 \in Terms
  BY ScreenAssumption DEF Terms
<1>2. QED
  BY <1>1 DEF Init, OwnPages, ControlTypes, PlacesInWrite

\* In every window: no process and no key writes on the page of a third
\* terminal (pit_handler's and terminal_write's remapping, term_switch).
THEOREM BackgroundsAreIsolated == Spec => OthersUntouched
<1>1. OwnPages /\ ControlTypes /\ [Next]_vars => (OwnPages /\ ControlTypes)'
  BY OwnPagesNext
<1>2. OwnPages /\ ControlTypes /\ [Next]_vars =>
         [\A t \in Terms : mem'[t] # mem[t] =>
             t = scheduled_term \/ (t = visible_term /\ visible_term' # t)]_vars
  BY OwnPagesNext
<1>3. QED
  BY <1>1, <1>2, OwnPagesInit, PTL DEF Spec, OthersUntouched
-----------------------------------------------------------------------------
\* The position just below the display.
Below == TERM_ROWS * TERM_COLS

LEMMA FirstPosition ==
    /\ 0 \in Positions
    /\ Below \in Nat
    /\ 0 .. TERM_ROWS * TERM_COLS = Positions \cup {Below}
    /\ Below \notin Positions
    /\ Positions \subseteq Nat
<1>1. /\ TERM_ROWS \in Nat /\ TERM_ROWS >= 1
      /\ TERM_COLS \in Nat /\ TERM_COLS >= 1
  BY ScreenAssumption
<1>2. TERM_ROWS * TERM_COLS \in Nat /\ TERM_ROWS * TERM_COLS >= 1
  BY <1>1
<1>3. QED
  BY <1>2 DEF Below, Positions

\* The rows a position lies between.
LEMMA RowOf ==
    ASSUME NEW p \in Positions
    PROVE  /\ p \div TERM_COLS \in Nat
           /\ (p \div TERM_COLS) * TERM_COLS <= p
           /\ (p \div TERM_COLS) * TERM_COLS + TERM_COLS <= Below
<1>1. /\ TERM_ROWS \in Nat /\ TERM_ROWS >= 1
      /\ TERM_COLS \in Nat /\ TERM_COLS >= 1
      /\ p \in Nat
      /\ p < TERM_ROWS * TERM_COLS
  BY ScreenAssumption DEF Positions
<1> DEFINE q == p \div TERM_COLS
<1>2. /\ q \in Int
      /\ TERM_COLS * q <= p
      /\ p < TERM_COLS * q + TERM_COLS
  BY <1>1
<1> HIDE DEF q
<1>3. q >= 0
  <2>1. SUFFICES ASSUME q <= -1 PROVE FALSE
    BY <1>2
  <2>2. TERM_COLS * q <= TERM_COLS * (-1)
    BY <1>1, <1>2, <2>1
  <2>3. QED
    BY <1>1, <1>2, <2>2
<1>4. q + 1 <= TERM_ROWS
  <2>1. SUFFICES ASSUME q >= TERM_ROWS PROVE FALSE
    BY <1>1, <1>2
  <2>2. TERM_COLS * q >= TERM_COLS * TERM_ROWS
    BY <1>1, <1>2, <2>1
  <2>3. QED
    BY <1>1, <1>2, <2>2
<1>5. TERM_COLS * (q + 1) <= TERM_COLS * TERM_ROWS
  BY <1>1, <1>2, <1>3, <1>4
<1>6. /\ q * TERM_COLS = TERM_COLS * q
      /\ TERM_COLS * (q + 1) = TERM_COLS * q + TERM_COLS
  BY <1>1, <1>2
<1>7. QED
  BY <1>1, <1>2, <1>3, <1>5, <1>6 DEF Below, q

\* Where the cursor and the screen position go from a position of the display.
LEMMA NextPositions ==
    ASSUME NEW p \in Positions
    PROVE  /\ p + 1 \in Positions \cup {Below}
           /\ p > 0 => p - 1 \in Positions
           /\ NextRow(p) \in Positions \cup {Below}
           /\ After(p) \in Positions
<1> DEFINE row == (p \div TERM_COLS) * TERM_COLS
<1>1. /\ p \in Nat /\ p < Below /\ Below \in Nat
      /\ Positions = 0 .. Below - 1
      /\ TERM_COLS \in Nat /\ TERM_COLS >= 1
  BY FirstPosition, ScreenAssumption DEF Positions, Below
<1>2. /\ p \div TERM_COLS \in Nat
      /\ row <= p
      /\ row + TERM_COLS <= Below
  BY RowOf
<1>3. row \in Nat /\ NextRow(p) = row + TERM_COLS
  BY <1>1, <1>2 DEF NextRow
<1>4. (p + 1) % TERM_COLS \in 0 .. TERM_COLS - 1
  BY <1>1
<1>5. After(p) = row + ((p + 1) % TERM_COLS)
  BY DEF After
<1> HIDE DEF row
<1>6. QED
  BY <1>1, <1>2, <1>3, <1>4, <1>5

LEMMA LastRowInDisplay == LastRow \in Positions
<1>1. /\ TERM_ROWS \in Nat /\ TERM_ROWS - 1 \in Nat
      /\ TERM_COLS \in Nat /\ TERM_COLS >= 1
  BY ScreenAssumption
<1>2. (TERM_ROWS - 1) * TERM_COLS \in Nat
  BY <1>1
<1>3. (TERM_ROWS - 1) * TERM_COLS + TERM_COLS = TERM_ROWS * TERM_COLS
  BY <1>1
<1>4. QED
  BY <1>1, <1>2, <1>3 DEF LastRow, Positions

\* TypeOK less ControlTypes, with the positions named.
DataTypes ==
    /\ phys \in Display
    /\ mem \in [Terms -> Display]
    /\ cursor \in [Terms -> Positions]
    /\ screen \in Positions \cup {Below}
    /\ pte \in Pages
    /\ user_pte \in Pages
    /\ more \in [Terms -> 0 .. MaxWritten]
    /\ written \in 0 .. MaxWritten

\* A character is put on the display, never on the status bar below it.
SeeksOnDisplay == at[scheduled_term] = "seek" => screen \in Positions

\* terminal_write goes round its loop again only for a character it has left.
MoreToWrite == \A t \in Terms : at[t] \in {"next", "seek"} => more[t] > 0

TypeInv ==
    /\ ControlTypes
    /\ DataTypes
    /\ NoneWaitsOnDisplay
    /\ SeeksOnDisplay
    /\ MoreToWrite

LEMMA TypeInvTypes == TypeInv => TypeOK
<1>1. 0 .. TERM_ROWS * TERM_COLS = Positions \cup {Below}
  BY FirstPosition
<1>2. QED
  BY <1>1 DEF TypeInv, ControlTypes, DataTypes, TypeOK, PlacesInWrite

LEMMA CharsOfTerms ==
    /\ Terms \subseteq Chars
    /\ Typed \in Chars
    /\ Space \in Chars
    /\ Terms \subseteq Pages
    /\ Displayed \in Pages
BY DEF Chars, Pages

LEMMA BlankIsDisplay == Blank \in Display
BY CharsOfTerms DEF Blank, Display

LEMMA PannedIsDisplay ==
    ASSUME NEW display \in Display
    PROVE  Panned(display) \in Display
BY CharsOfTerms DEF Panned, Display

LEMMA StoreTypes ==
    ASSUME DataTypes, NEW page, NEW p, NEW c \in Chars, Store(page, p, c)
    PROVE  phys' \in Display /\ mem' \in [Terms -> Display]
BY DEF DataTypes, Store, Display

LEMMA CursorTypes ==
    ASSUME DataTypes, NEW t \in Terms, NEW p, NEW shown \in Display, CursorTo(t, p, shown)
    PROVE  /\ phys' \in Display
           /\ mem' \in [Terms -> Display]
           /\ cursor' \in [Terms -> Positions]
<1>1. /\ phys \in Display
      /\ mem \in [Terms -> Display]
      /\ cursor \in [Terms -> Positions]
  BY DEF DataTypes
<1>2. PICK d \in Display : Becomes(t, d)
  BY PannedIsDisplay DEF CursorTo
<1>3. phys' \in Display /\ mem' \in [Terms -> Display]
  BY <1>1, <1>2 DEF Becomes
<1>4. cursor' \in [Terms -> Positions]
  BY <1>1, LastRowInDisplay DEF CursorTo
<1>5. QED
  BY <1>3, <1>4

LEMMA TypeInvInit == Init => TypeInv
<1>1. 0 \in Terms /\ 0 \in 0 .. MaxWritten
  BY ScreenAssumption DEF Terms
<1>2. QED
  BY <1>1, FirstPosition, BlankIsDisplay, CharsOfTerms
  DEF Init, TypeInv, ControlTypes, DataTypes, NoneWaitsOnDisplay, SeeksOnDisplay,
      MoreToWrite, PlacesInWrite

\* A step that takes the scheduled terminal to a place where it does not wait
\* for the screen position.
LEMMA MovesOn ==
    ASSUME TypeInv, NEW place \in PlacesInWrite \ {"seek"},
           at' = [at EXCEPT ![scheduled_term] = place],
           UNCHANGED <<scheduled_term, visible_term>>
    PROVE  ControlTypes' /\ NoneWaitsOnDisplay' /\ SeeksOnDisplay'
<1>1. /\ at'[scheduled_term] = place
      /\ \A t \in Terms : at'[t] = "seek" => at[t] = "seek"
  BY DEF TypeInv, ControlTypes
<1>2. ControlTypes'
  BY DEF TypeInv, ControlTypes
<1>3. NoneWaitsOnDisplay'
  BY <1>1 DEF TypeInv, ControlTypes, NoneWaitsOnDisplay
<1>4. SeeksOnDisplay'
  BY <1>1 DEF SeeksOnDisplay
<1>5. QED
  BY <1>2, <1>3, <1>4

LEMMA WriteKeepsTypes ==
    ASSUME TypeInv, NEW n \in 0 .. MaxWritten - 1, Write(n)
    PROVE  TypeInv'
<1>0. PICK t : t = scheduled_term
  OBVIOUS
<1>1. /\ t \in Terms
      /\ at \in [Terms -> PlacesInWrite]
      /\ cursor[t] \in Positions
      /\ more \in [Terms -> 0 .. MaxWritten]
      /\ written \in 0 .. MaxWritten
      /\ MaxWritten \in Nat
      /\ Remap \in Pages
  BY <1>0, CharsOfTerms, ScreenAssumption DEF TypeInv, ControlTypes, DataTypes, Remap
<1>2. /\ phys' \in Display
      /\ mem' \in [Terms -> Display]
      /\ screen' \in Positions \cup {Below}
  <2>1. CASE Store(Remap, cursor[t], t) /\ screen' = After(cursor[t])
    BY <1>1, <2>1, StoreTypes, NextPositions, CharsOfTerms DEF TypeInv
  <2>2. CASE UNCHANGED <<phys, mem>> /\ screen' = NextRow(cursor[t])
    BY <1>1, <2>2, NextPositions DEF TypeInv, DataTypes
  <2>3. QED
    BY <1>0, <2>1, <2>2 DEF Write
<1>3. PICK place \in {"put", "line"} : at' = [at EXCEPT ![t] = place]
  BY <1>0 DEF Write
<1>4. /\ more' = [more EXCEPT ![t] = n]
      /\ pte' = Remap
      /\ written' = written + n + 1
      /\ written + n < MaxWritten
      /\ UNCHANGED <<scheduled_term, visible_term, cursor, user_pte>>
  BY <1>0 DEF Write
<1>5. written' \in 0 .. MaxWritten /\ n \in 0 .. MaxWritten
  BY <1>1, <1>4
<1>6. DataTypes'
  BY <1>1, <1>2, <1>4, <1>5 DEF TypeInv, DataTypes
<1>7. ControlTypes' /\ NoneWaitsOnDisplay' /\ SeeksOnDisplay'
  BY <1>0, <1>3, <1>4, MovesOn DEF PlacesInWrite
<1>8. MoreToWrite'
  BY <1>1, <1>3, <1>4 DEF TypeInv, MoreToWrite
<1>9. QED
  BY <1>6, <1>7, <1>8 DEF TypeInv

LEMMA AdvanceKeepsTypes ==
    ASSUME TypeInv, Advance
    PROVE  TypeInv'
<1>0. PICK t, to : /\ t = scheduled_term
                   /\ to = IF at[t] = "put" THEN cursor[t] + 1 ELSE NextRow(cursor[t])
  OBVIOUS
<1>1. /\ t \in Terms
      /\ at \in [Terms -> PlacesInWrite]
      /\ Shown(t) \in Display
      /\ more \in [Terms -> 0 .. MaxWritten]
      /\ screen \in Positions \cup {Below}
  BY <1>0 DEF TypeInv, ControlTypes, DataTypes, Shown
<1>2. /\ CursorTo(t, to, Shown(t))
      /\ screen' = IF to \in Positions THEN screen ELSE LastRow
      /\ at' = [at EXCEPT ![t] = IF more[t] = 0 THEN "out" ELSE "next"]
      /\ UNCHANGED <<scheduled_term, visible_term, pte, user_pte, more, written>>
  BY <1>0 DEF Advance
<1>3. DataTypes'
  BY <1>1, <1>2, CursorTypes, LastRowInDisplay DEF TypeInv, DataTypes
<1>4. PICK place \in {"out", "next"} : /\ at' = [at EXCEPT ![t] = place]
                                       /\ place = "next" => more[t] # 0
  BY <1>2
<1>5. ControlTypes' /\ NoneWaitsOnDisplay' /\ SeeksOnDisplay'
  BY <1>0, <1>2, <1>4, MovesOn DEF PlacesInWrite
<1>6. MoreToWrite'
  BY <1>1, <1>2, <1>4 DEF TypeInv, MoreToWrite
<1>7. QED
  BY <1>3, <1>5, <1>6 DEF TypeInv

LEMMA SeekKeepsTypes ==
    ASSUME TypeInv, Seek
    PROVE  TypeInv'
<1>1. /\ at[scheduled_term] = "next"
      /\ at' = [at EXCEPT ![scheduled_term] = "seek"]
      /\ screen' = cursor[scheduled_term]
      /\ UNCHANGED <<scheduled_term, visible_term, phys, mem, cursor, pte, user_pte,
                     more, written>>
  BY DEF Seek
<1>2. screen' \in Positions
  BY <1>1 DEF TypeInv, ControlTypes, DataTypes
<1>3. ControlTypes' /\ NoneWaitsOnDisplay'
  BY <1>1 DEF TypeInv, ControlTypes, NoneWaitsOnDisplay, PlacesInWrite
<1>4. DataTypes'
  BY <1>1, <1>2 DEF TypeInv, DataTypes
<1>5. MoreToWrite'
  BY <1>1 DEF TypeInv, ControlTypes, MoreToWrite
<1>6. QED
  BY <1>2, <1>3, <1>4, <1>5 DEF TypeInv, SeeksOnDisplay

LEMMA PutKeepsTypes ==
    ASSUME TypeInv, Put
    PROVE  TypeInv'
<1>0. PICK t : t = scheduled_term
  OBVIOUS
<1>1. /\ t \in Terms
      /\ at \in [Terms -> PlacesInWrite]
      /\ at[t] = "seek"
      /\ screen \in Positions
      /\ more \in [Terms -> 0 .. MaxWritten]
      /\ more[t] > 0
      /\ MaxWritten \in Nat
  BY <1>0, ScreenAssumption
  DEF TypeInv, ControlTypes, DataTypes, SeeksOnDisplay, MoreToWrite, Put
<1>2. /\ phys' \in Display
      /\ mem' \in [Terms -> Display]
      /\ screen' \in Positions \cup {Below}
  <2>1. CASE Store(pte, screen, t) /\ screen' = After(screen)
    BY <1>1, <2>1, StoreTypes, NextPositions, CharsOfTerms DEF TypeInv
  <2>2. CASE UNCHANGED <<phys, mem>> /\ screen' = NextRow(screen)
    BY <1>1, <2>2, NextPositions DEF TypeInv, DataTypes
  <2>3. QED
    BY <1>0, <2>1, <2>2 DEF Put
<1>3. PICK place \in {"put", "line"} : at' = [at EXCEPT ![t] = place]
  BY <1>0 DEF Put
<1>4. /\ more' = [more EXCEPT ![t] = more[t] - 1]
      /\ UNCHANGED <<scheduled_term, visible_term, cursor, pte, user_pte, written>>
  BY <1>0 DEF Put
<1>5. more[t] - 1 \in 0 .. MaxWritten
  BY <1>1
<1>6. DataTypes'
  BY <1>1, <1>2, <1>4, <1>5 DEF TypeInv, DataTypes
<1>7. ControlTypes' /\ NoneWaitsOnDisplay' /\ SeeksOnDisplay'
  BY <1>0, <1>3, <1>4, MovesOn DEF PlacesInWrite
<1>8. MoreToWrite'
  BY <1>1, <1>3, <1>4 DEF TypeInv, MoreToWrite
<1>9. QED
  BY <1>6, <1>7, <1>8 DEF TypeInv

\* The keys and drawing touch neither the writers nor what they have left, and
\* leave the screen position on the display.
LEMMA KeysKeepTypes ==
    ASSUME TypeInv, DataTypes', screen' \in Positions \/ screen' = screen,
           UNCHANGED <<scheduled_term, visible_term, at, more>>
    PROVE  TypeInv'
BY DEF TypeInv, ControlTypes, NoneWaitsOnDisplay, SeeksOnDisplay, MoreToWrite

LEMMA EchoKeepsTypes ==
    ASSUME TypeInv, Echo \/ EchoNewline \/ EchoErase
    PROVE  TypeInv'
<1>0. PICK t : t = visible_term
  OBVIOUS
<1>1. /\ t \in Terms
      /\ cursor[t] \in Positions
      /\ phys \in Display
      /\ [phys EXCEPT ![cursor[t]] = Typed] \in Display
      /\ [phys EXCEPT ![cursor[t] - 1] = Space] \in Display
      /\ written \in 0 .. MaxWritten
      /\ MaxWritten \in Nat
      /\ Remap \in Pages
  BY <1>0, CharsOfTerms, ScreenAssumption
  DEF TypeInv, ControlTypes, DataTypes, Remap, Display
<1>2. /\ cursor[t] + 1 \in Positions \cup {Below}
      /\ cursor[t] > 0 => cursor[t] - 1 \in Positions
      /\ NextRow(cursor[t]) \in Positions \cup {Below}
      /\ After(cursor[t]) \in Positions
      /\ LastRow \in Positions
  BY <1>1, NextPositions, LastRowInDisplay
<1>3. UNCHANGED <<scheduled_term, visible_term, user_pte, at, more>> /\ pte' = Remap
  BY DEF Echo, EchoNewline, EchoErase
<1>4. written' \in 0 .. MaxWritten
  <2>1. written' = written \/ (written' = written + 1 /\ written < MaxWritten)
    BY DEF Echo, EchoNewline, EchoErase
  <2>2. QED
    BY <1>1, <2>1
<1>5. PICK p, d : d \in Display /\ CursorTo(t, p, d)
  <2>1. CASE Echo
    BY <1>0, <1>1, <2>1, Zenon DEF Echo
  <2>2. CASE EchoNewline
    BY <1>0, <1>1, <2>2, Zenon DEF EchoNewline
  <2>3. CASE EchoErase
    BY <1>0, <1>1, <2>3, Zenon DEF EchoErase
  <2>4. QED
    BY <2>1, <2>2, <2>3
<1>6. screen' \in Positions
  BY <1>0, <1>2 DEF Echo, EchoNewline, EchoErase
<1>7. DataTypes'
  BY <1>1, <1>3, <1>4, <1>5, <1>6, CursorTypes DEF TypeInv, DataTypes
<1>8. QED
  BY <1>3, <1>6, <1>7, KeysKeepTypes

LEMMA SwitchKeepsTypes ==
    ASSUME TypeInv, NEW t \in Terms, Switch(t), "seek" \notin Windows
    PROVE  TypeInv'
<1>1. /\ at[t] # "seek"
      /\ mem' = [mem EXCEPT ![visible_term] = phys]
      /\ phys' = mem'[t]
      /\ visible_term' = t
      /\ screen' = 0
      /\ UNCHANGED <<scheduled_term, cursor, pte, user_pte, at, more, written>>
  BY DEF Switch, SavedPage
<1>2. mem' \in [Terms -> Display] /\ phys' \in Display
  BY <1>1 DEF TypeInv, DataTypes
<1>3. DataTypes'
  BY <1>1, <1>2, FirstPosition DEF TypeInv, DataTypes
<1>4. QED
  BY <1>1, <1>3, FirstPosition
  DEF TypeInv, ControlTypes, NoneWaitsOnDisplay, SeeksOnDisplay, MoreToWrite

LEMMA TickKeepsTypes ==
    ASSUME TypeInv, Tick, "seek" \notin Windows
    PROVE  TypeInv'
<1>0. PICK t : t = (scheduled_term + 1) % NUM_TTYS
  OBVIOUS
<1>1. /\ t \in Terms
      /\ at[scheduled_term] # "seek" \/ scheduled_term # visible_term
      /\ scheduled_term' = t
      /\ pte' = PageOf(t)
      /\ user_pte' = PageOf(t)
      /\ screen' = Sought(t)
      /\ UNCHANGED <<visible_term, phys, mem, cursor, at, more, written>>
  BY <1>0, NextIsTerm DEF Tick, TypeInv, ControlTypes
<1>2. at[visible_term] # "seek"
  BY <1>1 DEF TypeInv, NoneWaitsOnDisplay
<1>3. PageOf(t) \in Pages /\ Sought(t) \in Positions \cup {Below}
  BY <1>1, CharsOfTerms DEF PageOf, Sought, TypeInv, DataTypes
<1>4. at[t] = "seek" => Sought(t) \in Positions
  BY <1>1, <1>2 DEF Sought, TypeInv, DataTypes
<1>5. DataTypes'
  BY <1>1, <1>3 DEF TypeInv, DataTypes
<1>6. ControlTypes' /\ NoneWaitsOnDisplay' /\ SeeksOnDisplay' /\ MoreToWrite'
  BY <1>1, <1>2, <1>4
  DEF TypeInv, ControlTypes, NoneWaitsOnDisplay, SeeksOnDisplay, MoreToWrite
<1>7. QED
  BY <1>5, <1>6 DEF TypeInv

LEMMA TypeInvNext ==
    ASSUME "seek" \notin Windows
    PROVE  TypeInv /\ [Next]_vars => TypeInv'
<1> SUFFICES ASSUME TypeInv, [Next]_vars
             PROVE  TypeInv'
  OBVIOUS
<1>1. ASSUME NEW p \in Positions, Draw(p)
      PROVE  TypeInv'
  <2>1. /\ Store(user_pte, p, scheduled_term)
        /\ written' = written + 1 /\ written < MaxWritten
        /\ UNCHANGED <<scheduled_term, visible_term, cursor, screen, pte, user_pte, at, more>>
    BY <1>1 DEF Draw
  <2>2. scheduled_term \in Chars
    BY CharsOfTerms DEF TypeInv, ControlTypes
  <2>3. phys' \in Display /\ mem' \in [Terms -> Display]
    BY <2>1, <2>2, StoreTypes DEF TypeInv
  <2>4. written' \in 0 .. MaxWritten
    BY <2>1, ScreenAssumption DEF TypeInv, DataTypes
  <2>5. DataTypes'
    BY <2>1, <2>3, <2>4 DEF TypeInv, DataTypes
  <2>6. QED
    BY <2>1, <2>5, KeysKeepTypes
<1>2. CASE CtrlL
  <2>1. DataTypes'
    BY <1>2, FirstPosition, BlankIsDisplay DEF CtrlL, TypeInv, DataTypes
  <2>2. QED
    BY <1>2, <2>1, FirstPosition, KeysKeepTypes DEF CtrlL
<1>3. CASE UNCHANGED vars
  BY <1>3 DEF vars, TypeInv, ControlTypes, DataTypes, NoneWaitsOnDisplay, SeeksOnDisplay,
              MoreToWrite
<1>4. QED
  BY <1>1, <1>2, <1>3, WriteKeepsTypes, AdvanceKeepsTypes, SeekKeepsTypes, PutKeepsTypes,
     EchoKeepsTypes, SwitchKeepsTypes, TickKeepsTypes DEF Next

\* For any number of terminals and any size of display no character, cursor or
\* page leaves its range (putc, cursor_increment, pan), unless a writer is
\* resumed in the visible terminal at a screen position another one has left.
THEOREM TypeCorrect ==
    ASSUME "seek" \notin Windows
    PROVE  Spec => []TypeOK
<1>1. TypeInv /\ [Next]_vars => TypeInv'
  BY TypeInvNext
<1>2. QED
  BY <1>1, TypeInvInit, TypeInvTypes, PTL DEF Spec
-----------------------------------------------------------------------------
\* The displays of the terminals, and which have a character half written.
Shows == [t \in Terms |-> Shown(t)]
Half == [t \in Terms |-> at[t] = "put"]

\* Only the writer of the slice finds the displayed page or its own, and it is
\* the right one when a character is put.
ImageInv == TypeInv /\ PutsAtCursor

LEMMA CellsArePositions == D!Cells = Positions
BY DEF D!Cells, Positions

\* A character stored on a terminal's page is shown on its display.
LEMMA StoreShows ==
    ASSUME DataTypes, NEW t \in Terms, NEW p \in Positions, NEW c,
           Store(PageOf(t), p, c), UNCHANGED visible_term
    PROVE  Shows' = [Shows EXCEPT ![t] = [Shows[t] EXCEPT ![p] = c]]
<1>1. Displayed \notin Terms
  BY DisplayedIsNoTerm
<1>2. CASE t = visible_term
  BY <1>1, <1>2 DEF Store, PageOf, Shows, Shown, DataTypes, Display
<1>3. CASE t # visible_term
  BY <1>1, <1>3 DEF Store, PageOf, Shows, Shown, DataTypes, Display
<1>4. QED
  BY <1>2, <1>3

LEMMA BecomesShows ==
    ASSUME DataTypes, NEW t \in Terms, NEW d, Becomes(t, d), UNCHANGED visible_term
    PROVE  Shows' = [Shows EXCEPT ![t] = d]
BY DEF Becomes, Shows, Shown, DataTypes

\* Moving a terminal's cursor scrolls its display and no other.
LEMMA CursorMoves ==
    ASSUME DataTypes, NEW t \in Terms, NEW p, NEW d, CursorTo(t, p, d),
           UNCHANGED visible_term
    PROVE  D!MoveTo(t, p, d)
<1>1. D!Cells = Positions
  BY CellsArePositions
<1>2. D!Scrolled(d) = Panned(d)
  BY <1>1 DEF D!Scrolled, Panned
<1>3. LastRow = (TERM_ROWS - 1) * TERM_COLS
  BY DEF LastRow
<1>4. CASE p \in Positions
  <2>1. cursor' = [cursor EXCEPT ![t] = p] /\ Becomes(t, d)
    BY <1>4 DEF CursorTo
  <2>2. Shows' = [Shows EXCEPT ![t] = d]
    BY <2>1, BecomesShows
  <2>3. QED
    BY <1>1, <1>4, <2>1, <2>2 DEF D!MoveTo, Shows
<1>5. CASE p \notin Positions
  <2>1. cursor' = [cursor EXCEPT ![t] = LastRow] /\ Becomes(t, Panned(d))
    BY <1>5 DEF CursorTo
  <2>2. Shows' = [Shows EXCEPT ![t] = Panned(d)]
    BY <2>1, BecomesShows
  <2>3. QED
    BY <1>1, <1>2, <1>3, <1>5, <2>1, <2>2 DEF D!MoveTo, Shows
<1>6. QED
  BY <1>4, <1>5

\* terminal_write's first character, and the later ones: shown at the cursor of
\* the process's terminal.
LEMMA CharacterIsShown ==
    ASSUME ImageInv, NEW t \in Terms, t = scheduled_term, at[t] # "put",
           Store(PageOf(t), cursor[t], t), at' = [at EXCEPT ![t] = "put"],
           UNCHANGED <<visible_term, cursor>>
    PROVE  D!Show(t, t)
<1>1. DataTypes /\ cursor[t] \in Positions /\ at \in [Terms -> PlacesInWrite]
  BY DEF ImageInv, TypeInv, ControlTypes, DataTypes
<1>2. Shows' = [Shows EXCEPT ![t] = [Shows[t] EXCEPT ![cursor[t]] = t]]
  BY <1>1, StoreShows
<1>3. ~Half[t] /\ Half' = [Half EXCEPT ![t] = TRUE]
  BY <1>1 DEF Half
<1>4. QED
  BY <1>2, <1>3 DEF D!Show, D!With, Shows, Half

\* The display of every terminal, every cursor and every half-written character
\* is left alone.
LEMMA NothingIsShown ==
    ASSUME ImageInv, NEW t \in Terms, NEW place \in {"out", "line", "next", "seek"},
           at[t] # "put", at' = [at EXCEPT ![t] = place],
           UNCHANGED <<phys, mem, visible_term, cursor>>
    PROVE  UNCHANGED <<Shows, cursor, Half>>
<1>1. at \in [Terms -> PlacesInWrite]
  BY DEF ImageInv, TypeInv, ControlTypes
<1>2. Shows' = Shows
  BY DEF Shows, Shown
<1>3. Half' = Half
  BY <1>1 DEF Half
<1>4. QED
  BY <1>2, <1>3

\* What the keyboard echoes in the visible terminal.
LEMMA EchoIsTyped ==
    ASSUME ImageInv, Windows = {}, Echo \/ EchoNewline \/ EchoErase \/ CtrlL
    PROVE  D!Next
<1>0. PICK t : t = visible_term
  OBVIOUS
<1>1. /\ t \in Terms
      /\ DataTypes
      /\ Shows[t] = phys
      /\ Shows \in [Terms -> Display]
  BY <1>0 DEF ImageInv, TypeInv, ControlTypes, DataTypes, Shows, Shown
<1>2. CASE Echo
  <2>1. /\ at[t] # "put"
        /\ CursorTo(t, cursor[t] + 1, [phys EXCEPT ![cursor[t]] = Typed])
        /\ UNCHANGED <<visible_term, at>>
    BY <1>0, <1>2 DEF Echo, NotHalfWritten
  <2>2. D!MoveTo(t, cursor[t] + 1, D!With(t, cursor[t], Typed))
    BY <1>1, <2>1, CursorMoves DEF D!With, Shows
  <2>3. D!Type(t, Typed)
    BY <1>1, <2>1, <2>2 DEF D!Type
  <2>4. QED
    BY <1>1, <2>3, CharsOfTerms DEF D!Next
<1>3. CASE EchoNewline
  <2>1. /\ at[t] # "put"
        /\ CursorTo(t, NextRow(cursor[t]), phys)
        /\ UNCHANGED <<visible_term, at>>
    BY <1>0, <1>3 DEF EchoNewline, NotHalfWritten
  <2>2. D!MoveTo(t, NextRow(cursor[t]), Shows[t])
    BY <1>1, <2>1, CursorMoves
  <2>3. D!NewLine(t)
    BY <1>1, <2>1, <2>2 DEF D!NewLine, NextRow, Shows
  <2>4. QED
    BY <1>1, <2>3 DEF D!Next
<1>4. CASE EchoErase
  <2>1. /\ at[t] # "put"
        /\ cursor[t] > 0
        /\ CursorTo(t, cursor[t] - 1, [phys EXCEPT ![cursor[t] - 1] = Space])
        /\ UNCHANGED <<visible_term, at>>
    BY <1>0, <1>4 DEF EchoErase, NotHalfWritten
  <2>2. D!MoveTo(t, cursor[t] - 1, D!With(t, cursor[t] - 1, Space))
    BY <1>1, <2>1, CursorMoves DEF D!With, Shows
  <2>3. D!Erase(t)
    BY <1>1, <2>1, <2>2 DEF D!Erase
  <2>4. QED
    BY <1>1, <2>3 DEF D!Next
<1>5. CASE CtrlL
  <2>1. phys' = Blank /\ UNCHANGED <<mem, visible_term, cursor, at>>
    BY <1>5 DEF CtrlL
  <2>2. Shows' = [Shows EXCEPT ![t] = Blank]
    BY <1>0, <1>1, <2>1 DEF Shows, Shown
  <2>3. D!Clear(t)
    BY <2>1, <2>2, CellsArePositions DEF D!Clear, Blank, Shows
  <2>4. QED
    BY <1>1, <2>3 DEF D!Next
<1>6. QED
  BY <1>2, <1>3, <1>4, <1>5

\* term_switch copies the displays to where they are looked for.
LEMMA SwitchShowsTheSame ==
    ASSUME ImageInv, NEW t \in Terms, Switch(t)
    PROVE  UNCHANGED <<Shows, cursor, Half>>
<1>1. /\ t # visible_term
      /\ visible_term \in Terms
      /\ mem \in [Terms -> Display]
      /\ mem' = [mem EXCEPT ![visible_term] = phys]
      /\ phys' = mem'[t]
      /\ visible_term' = t
      /\ UNCHANGED <<cursor, at>>
  BY DEF Switch, SavedPage, ImageInv, TypeInv, ControlTypes, DataTypes
<1>2. \A u \in Terms : Shown(u)' = Shown(u)
  BY <1>1 DEF Shown
<1>3. Shows' = Shows
  BY <1>2 DEF Shows
<1>4. QED
  BY <1>1, <1>3 DEF Half

LEMMA StepIsDisplays ==
    ASSUME ImageInv, [Next]_vars, Windows = {}
    PROVE  [D!Next]_(D!vars)
<1>0. PICK t : t = scheduled_term
  OBVIOUS
<1>1. /\ t \in Terms
      /\ DataTypes
      /\ at \in [Terms -> PlacesInWrite]
      /\ t \in Chars
  BY <1>0, CharsOfTerms DEF ImageInv, TypeInv, ControlTypes
<1>2. SUFFICES D!Next \/ UNCHANGED <<Shows, cursor, Half>>
  BY DEF D!vars, Shows, Half
<1>3. ASSUME NEW n \in 0 .. MaxWritten - 1, Write(n)
      PROVE  D!Next \/ UNCHANGED <<Shows, cursor, Half>>
  <2>1. /\ at[t] = "out"
        /\ Remap = PageOf(t)
        /\ UNCHANGED <<visible_term, cursor>>
    BY <1>0, <1>3 DEF Write, Fresh
  <2>2. CASE Store(Remap, cursor[t], t) /\ at' = [at EXCEPT ![t] = "put"]
    <3>1. D!Show(t, t)
      BY <1>0, <1>1, <2>1, <2>2, CharacterIsShown
    <3>2. QED
      BY <1>1, <3>1 DEF D!Next
  <2>3. CASE at' = [at EXCEPT ![t] = "line"] /\ UNCHANGED <<phys, mem>>
    BY <1>1, <2>1, <2>3, NothingIsShown
  <2>4. QED
    BY <1>0, <1>3, <2>2, <2>3 DEF Write
<1>4. CASE Advance
  <2>1. /\ at[t] \in {"put", "line"}
        /\ CursorTo(t, IF at[t] = "put" THEN cursor[t] + 1 ELSE NextRow(cursor[t]), Shown(t))
        /\ at' = [at EXCEPT ![t] = IF more[t] = 0 THEN "out" ELSE "next"]
        /\ UNCHANGED visible_term
    BY <1>0, <1>4 DEF Advance
  <2>2. Shows[t] = Shown(t)
    BY <1>1 DEF Shows
  <2>3. CASE at[t] = "put"
    <3>1. D!MoveTo(t, cursor[t] + 1, Shows[t])
      BY <1>1, <2>1, <2>2, <2>3, CursorMoves
    <3>2. Half[t] /\ Half' = [Half EXCEPT ![t] = FALSE]
      BY <1>1, <2>1, <2>3 DEF Half
    <3>3. D!Advance(t)
      BY <3>1, <3>2 DEF D!Advance, Shows, Half
    <3>4. QED
      BY <1>1, <3>3 DEF D!Next
  <2>4. CASE at[t] = "line"
    <3>1. D!MoveTo(t, NextRow(cursor[t]), Shows[t])
      BY <1>1, <2>1, <2>2, <2>4, CursorMoves
    <3>2. ~Half[t] /\ Half' = Half
      BY <1>1, <2>1, <2>4 DEF Half
    <3>3. D!NewLine(t)
      BY <3>1, <3>2 DEF D!NewLine, NextRow, Shows, Half
    <3>4. QED
      BY <1>1, <3>3 DEF D!Next
  <2>5. QED
    BY <2>1, <2>3, <2>4
<1>5. CASE Seek
  BY <1>0, <1>1, <1>5, NothingIsShown DEF Seek
<1>6. CASE Put
  <2>1. /\ at[t] = "seek"
        /\ screen = cursor[t]
        /\ pte = PageOf(t)
        /\ UNCHANGED <<visible_term, cursor>>
    BY <1>0, <1>6 DEF Put, ImageInv, PutsAtCursor
  <2>2. CASE Store(pte, screen, t) /\ at' = [at EXCEPT ![t] = "put"]
    <3>1. D!Show(t, t)
      BY <1>0, <1>1, <2>1, <2>2, CharacterIsShown
    <3>2. QED
      BY <1>1, <3>1 DEF D!Next
  <2>3. CASE at' = [at EXCEPT ![t] = "line"] /\ UNCHANGED <<phys, mem>>
    BY <1>1, <2>1, <2>3, NothingIsShown
  <2>4. QED
    BY <1>0, <1>6, <2>2, <2>3 DEF Put
<1>7. ASSUME NEW p \in Positions, Draw(p)
      PROVE  D!Next \/ UNCHANGED <<Shows, cursor, Half>>
  <2>1. /\ Store(PageOf(t), p, t)
        /\ UNCHANGED <<visible_term, cursor, at>>
    BY <1>0, <1>7 DEF Draw, Fresh
  <2>2. Shows' = [Shows EXCEPT ![t] = [Shows[t] EXCEPT ![p] = t]]
    BY <1>1, <2>1, StoreShows
  <2>3. D!Draw(t, p, t)
    BY <2>1, <2>2 DEF D!Draw, D!With, Shows
  <2>4. QED
    BY <1>1, <2>3, CellsArePositions DEF D!Next
<1>8. CASE Echo \/ EchoNewline \/ EchoErase \/ CtrlL
  BY <1>8, EchoIsTyped
<1>9. ASSUME NEW u \in Terms, Switch(u)
      PROVE  D!Next \/ UNCHANGED <<Shows, cursor, Half>>
  BY <1>9, SwitchShowsTheSame
<1>10. CASE Tick \/ UNCHANGED vars
  BY <1>10 DEF Tick, vars, Shows, Shown, Half
<1>11. QED
  BY <1>3, <1>4, <1>5, <1>6, <1>7, <1>8, <1>9, <1>10 DEF Next

\* Outside the three windows, for any number of terminals and any display: what
\* a process writes or draws, and what is typed, appears at its own terminal's
\* cursor on its own terminal's display, scrolls that display only, and no
\* switch or tick changes any display (terminal_write, putc, term_switch,
\* pit_handler).
THEOREM TerminalsHaveDisplays ==
    ASSUME Windows = {}
    PROVE  Spec => ImplementsDisplays
<1>1. PutInv /\ TypeInv /\ [Next]_vars => (PutInv /\ TypeInv)'
  BY PutInvNext, TypeInvNext
<1>2. PutInv /\ TypeInv /\ [Next]_vars => [D!Next]_(D!vars)
  BY StepIsDisplays DEF ImageInv, PutInv
<1>3. Init => D!Init
  BY CellsArePositions DEF Init, D!Init, Shown, Blank
<1>4. QED
  BY <1>1, <1>2, <1>3, PutInvInit, TypeInvInit, PTL DEF Spec, ImplementsDisplays, D!Spec
=============================================================================
