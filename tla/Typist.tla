------------------------------- MODULE Typist -------------------------------
(***************************************************************************)
(* What somebody who types is promised: a key does what is written on it,  *)
(* under the modifiers that are held when it goes down, in the order the   *)
(* keys were used, and it does it to the terminal that is shown.           *)
(*                                                                         *)
(* There are no scan codes here: keys come and go as a whole, and what     *)
(* modifies a key is the set of the keys that are down.                    *)
(***************************************************************************)
EXTENDS Integers, Sequences

CONSTANTS
    Keys,
    Legend,        \* Legend[k]: what is written on k, [kind, plain, shifted]
    Shifts, Controls, Alts, CapsLock,  \* sets of keys
    ControlDeeds,  \* ControlDeeds[c]: what Control and a letter do
    Terminals, None

VARIABLES queue, held, caps, visible, foreground, signalled, did

vars == <<queue, held, caps, visible, foreground, signalled, did>>

Init ==
    /\ queue = <<>>
    /\ held = {}
    /\ caps = FALSE
    /\ visible \in Terminals
    /\ foreground = [t \in Terminals |-> None]
    /\ signalled = {}
    /\ did.do = "none"

On(modifiers) == held \cap modifiers # {}

\* A character key types its character, whichever it is.
CharDeed(c) ==
    IF On(Controls) /\ c \in DOMAIN ControlDeeds
    THEN [do |-> ControlDeeds[c], arg |-> 0]
    ELSE [do |-> "type", arg |-> c]

Deed(k) ==
    LET l == Legend[k]
        caption == IF On(Shifts) # caps THEN l.shifted ELSE l.plain
    IN CASE l.kind = "char" -> CharDeed(caption)
         [] l.kind = "function" ->
               [do |-> IF On(Alts) THEN "switch" ELSE "none",
                arg |-> IF On(Alts) THEN l.plain ELSE 0]
         [] l.kind = "modifier" -> [do |-> "none", arg |-> 0]
         [] OTHER -> [do |-> l.kind, arg |-> 0]

Use(k, make) ==
    /\ queue' = Append(queue, [key |-> k, make |-> make])
    /\ UNCHANGED <<held, caps, visible, foreground, signalled, did>>

Down(k) ==
    /\ held' = held \cup {k}
    /\ caps' = (caps # (k \in CapsLock))
    /\ LET deed == Deed(k)
           target == foreground[visible]
       IN IF deed.do = "signal"
          THEN /\ signalled' = signalled \cup ({target} \ {None})
               /\ did' = [do |-> IF target = None THEN "fault" ELSE "signal", arg |-> 0]
               /\ UNCHANGED visible
          ELSE /\ did' = deed
               /\ visible' = IF deed.do = "switch" /\ deed.arg \in Terminals
                             THEN deed.arg ELSE visible
               /\ UNCHANGED signalled

Up(k) ==
    /\ held' = held \ {k}
    /\ did' = [do |-> "none", arg |-> 0]
    /\ UNCHANGED <<caps, visible, signalled>>

Answer ==
    /\ queue # <<>>
    /\ queue' = Tail(queue)
    /\ IF Head(queue).make THEN Down(Head(queue).key) ELSE Up(Head(queue).key)
    /\ UNCHANGED foreground

Foreground(t, p) ==
    /\ foreground' = [foreground EXCEPT ![t] = p]
    /\ UNCHANGED <<queue, held, caps, visible, signalled, did>>

Next ==
    \/ \E k \in Keys, make \in BOOLEAN : Use(k, make)
    \/ Answer
    \/ \E t \in Terminals : Foreground(t, foreground'[t])

Spec == Init /\ [][Next]_vars
=============================================================================
