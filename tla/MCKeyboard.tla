----------------------------- MODULE MCKeyboard -----------------------------
(***************************************************************************)
(* Keys of every kind with what is written on them, and the keyboard read  *)
(* as Typist.                                                              *)
(***************************************************************************)
EXTENDS Keyboard

Char(plain, shifted) == [kind |-> "char", plain |-> plain, shifted |-> shifted]
Other(kind, n) == [kind |-> kind, plain |-> n, shifted |-> n]

ShiftKeys == {Left(42), Left(54)}
ControlKeys == {Left(29), Right(29)}
AltKeys == {Left(56), Right(56)}

\* The seven modifiers, C, L, semicolon, equals and minus, both Enters, the slash
\* of the keypad, Backspace, F1 and F4.
Modifiers == ShiftKeys \cup ControlKeys \cup AltKeys \cup {Left(58)}
Others == {Left(46), Left(38), Left(39), Left(13), Left(12), Left(28), Right(28),
           Right(53), Left(14), Left(59), Left(62)}

MCKeys == Modifiers \cup Others

MCLegend ==
    [k \in MCKeys |->
        CASE k \in Modifiers -> Other("modifier", 0)
          [] k = Left(46) -> Char(99, 67)
          [] k = Left(38) -> Char(108, 76)
          [] k = Left(39) -> Char(59, 58)
          [] k = Left(13) -> Char(61, 43)
          [] k = Left(12) -> Char(45, 95)
          [] k = Right(53) -> Char(47, 63)
          [] k \in {Left(28), Right(28)} -> Other("enter", 0)
          [] k = Left(14) -> Other("erase", 0)
          [] k = Left(59) -> Other("function", 0)
          [] k = Left(62) -> Other("none", 0)]

\* The keys taken for function keys: a character on them has the code of F1, F2
\* or F3.
Mistaken ==
    {k \in MCKeys : /\ MCLegend[k].kind = "char"
                     /\ {MCLegend[k].plain, MCLegend[k].shifted} \cap FunctionKeys # {}}

HonestKeys == MCKeys \ Mistaken

ControlLetters ==
    [c \in {67, 76, 99, 108} |-> IF c \in {67, 99} THEN "signal" ELSE "clear"]

Desk ==
    INSTANCE Typist WITH
        Keys <- MCKeys,
        Legend <- MCLegend,
        Shifts <- ShiftKeys,
        Controls <- ControlKeys,
        Alts <- AltKeys,
        CapsLock <- {Left(58)},
        ControlDeeds <- ControlLetters,
        Terminals <- Terms,
        None <- -1,
        caps <- mods.caps_lock,
        visible <- visible_term,
        foreground <- pid,
        signalled <- pending

\* The keyboard implements what somebody who types is promised: a byte or a
\* prefix lost, a flag left behind or a modifier mixed up with the one on the
\* other side would show as a key that does not do what is written on it.  It
\* holds of HonestKeys; the mistaken ones switch terminals where they should type.
ImplementsTypist == Desk!Spec
=============================================================================
