-------------------------- MODULE Interrupts_proofs --------------------------
(***************************************************************************)
(* That the controllers serve what the handlers have not finished, on any  *)
(* number of terminals and stacks of any depth, when no key is pressed     *)
(* before every terminal has a process, and that the timer finds the       *)
(* terminals initialised.                                                  *)
(***************************************************************************)
EXTENDS Interrupts, FiniteSetTheorems, TLAPS

\* There is a keyboard handler at place n of a stack.
KeyIn(stack, n) == n \in 1 .. Len(stack) /\ stack[n] = "key"

\* A stack within its bound on which nothing lies under the way into execute or
\* under report_error.
WellFormed(stack) ==
    /\ stack \in Seq(Kinds)
    /\ Len(stack) <= MaxFrames
    /\ \A n \in 1 .. Len(stack) : stack[n] \in {"exec", "report"} => n = 1

\* What entry() still has to do from its n-th step on.
RestOfBoot(n) == SubSeq(BootOrder, n, Len(BootOrder))

ControlTypes ==
    /\ irr \subseteq enabled \cap Devices
    /\ isr \subseteq Devices \cup {SLAVE}
    /\ enabled \subseteq Devices \cup {SLAVE}
    /\ booting \in {RestOfBoot(n) : n \in 1 .. Len(BootOrder) + 1}
    /\ scheduled_term \in Terms
    /\ launched \in [Terms -> BOOLEAN]
    /\ store_return \in Terms

Stacks ==
    /\ frames \in [Terms -> Seq(Kinds)]
    /\ \A t \in Terms : WellFormed(frames[t])

\* The timer is enabled last.
TimerLast == PIT \in enabled => booting = <<>>

Types == ControlTypes /\ Stacks /\ TimerLast

\* The scheduler's next terminal is another one.
LEMMA NextIsTerm ==
    ASSUME scheduled_term \in Terms
    PROVE  NextTerm \in Terms /\ NextTerm # scheduled_term
BY InterruptsAssumption DEF Terms, NextTerm

(***************************************************************************)
(* Stacks                                                                  *)
(***************************************************************************)

\* A frame on top, of a kind that may lie on others or on an empty stack.
LEMMA Pushed ==
    ASSUME NEW stack, WellFormed(stack), NEW kind \in Kinds,
           Len(stack) < MaxFrames,
           kind \in {"exec", "report"} => stack = <<>>
    PROVE  /\ WellFormed(Append(stack, kind))
           /\ \A n : KeyIn(Append(stack, kind), n)
                        <=> KeyIn(stack, n) \/ (kind = "key" /\ n = Len(stack) + 1)
<1>1. /\ Append(stack, kind) \in Seq(Kinds)
      /\ Len(Append(stack, kind)) = Len(stack) + 1
      /\ \A n \in 1 .. Len(stack) : Append(stack, kind)[n] = stack[n]
      /\ Append(stack, kind)[Len(stack) + 1] = kind
      /\ Len(stack) \in Nat
  BY DEF WellFormed
<1> DEFINE new == Append(stack, kind)
<1> HIDE DEF new
<1>2. new \in Seq(Kinds) /\ Len(new) <= MaxFrames
  BY <1>1, InterruptsAssumption DEF new
<1>3. \A n \in 1 .. Len(new) : new[n] \in {"exec", "report"} => n = 1
  <2>1. SUFFICES ASSUME NEW n \in 1 .. Len(new), new[n] \in {"exec", "report"}
                 PROVE  n = 1
    OBVIOUS
  <2>2. CASE n \in 1 .. Len(stack)
    BY <1>1, <2>1, <2>2 DEF new, WellFormed
  <2>3. CASE n = Len(stack) + 1
    BY <1>1, <2>1, <2>3 DEF new, WellFormed
  <2>4. QED
    BY <1>1, <2>1, <2>2, <2>3 DEF new
<1>4. \A n : KeyIn(new, n) <=> KeyIn(stack, n) \/ (kind = "key" /\ n = Len(stack) + 1)
  BY <1>1 DEF new, KeyIn
<1>5. QED
  BY <1>2, <1>3, <1>4 DEF new, WellFormed

\* The first m elements of a sequence.
LEMMA Prefix ==
    ASSUME NEW S, NEW s \in Seq(S), NEW m \in 0 .. Len(s)
    PROVE  /\ SubSeq(s, 1, m) \in Seq(S)
           /\ Len(SubSeq(s, 1, m)) = m
           /\ \A i \in 1 .. m : SubSeq(s, 1, m)[i] = s[i]
BY SMT

\* A frame less.
LEMMA Popped ==
    ASSUME NEW stack, WellFormed(stack), stack # <<>>
    PROVE  LET below == SubSeq(stack, 1, Len(stack) - 1)
           IN  /\ WellFormed(below)
               /\ Len(below) = Len(stack) - 1
               /\ \A n : KeyIn(below, n) <=> KeyIn(stack, n) /\ n # Len(stack)
<1>1. Len(stack) \in Nat \ {0} /\ stack \in Seq(Kinds)
  BY DEF WellFormed
<1> DEFINE below == SubSeq(stack, 1, Len(stack) - 1)
<1>2. /\ below \in Seq(Kinds)
      /\ Len(below) = Len(stack) - 1
      /\ \A n \in 1 .. Len(stack) - 1 : below[n] = stack[n]
  <2>1. Len(stack) - 1 \in 0 .. Len(stack)
    BY <1>1
  <2>2. QED
    BY <1>1, <2>1, Prefix, Zenon
<1> HIDE DEF below
<1>3. WellFormed(below)
  BY <1>1, <1>2, InterruptsAssumption DEF WellFormed
<1>4. \A n : KeyIn(below, n) <=> KeyIn(stack, n) /\ n # Len(stack)
  BY <1>1, <1>2 DEF KeyIn
<1>5. QED
  BY <1>2, <1>3, <1>4 DEF below

\* A stack of one frame and an empty one.
LEMMA ShortStacks ==
    /\ WellFormed(<<>>)
    /\ \A kind \in Kinds : WellFormed(<<kind>>)
    /\ \A n : ~KeyIn(<<>>, n)
    /\ \A kind \in Kinds \ {"key"}, n \in Nat : ~KeyIn(<<kind>>, n)
BY InterruptsAssumption DEF WellFormed, KeyIn

\* What a step makes of the stack of the scheduled terminal leaves well-formed
\* stacks if that one is.
LEMMA StackReplaced ==
    ASSUME Types, NEW stack, WellFormed(stack), BecomesStack(stack)
    PROVE  Stacks'
BY DEF Types, ControlTypes, Stacks, BecomesStack, WellFormed

\* The kind of the frame on top of the scheduled terminal's stack.
LEMMA TopFrame ==
    ASSUME Types, NEW kind, Running(kind)
    PROVE  /\ Stack # <<>>
           /\ WellFormed(Stack)
           /\ Len(Stack) \in Nat \ {0}
           /\ \A n : KeyIn(Stack, n) /\ n = Len(Stack) => kind = "key"
           /\ kind \in {"exec", "report"} => Len(Stack) = 1
<1>1. WellFormed(Stack) /\ Stack # <<>> /\ Stack[Len(Stack)] = kind
  BY DEF Types, ControlTypes, Stacks, Running, Stack
<1>2. Len(Stack) \in Nat \ {0}
  BY <1>1 DEF WellFormed
<1>3. kind \in {"exec", "report"} => Len(Stack) = 1
  <2>1. \A n \in 1 .. Len(Stack) : Stack[n] \in {"exec", "report"} => n = 1
    BY <1>1 DEF WellFormed
  <2>2. Len(Stack) \in 1 .. Len(Stack)
    BY <1>2
  <2>3. QED
    BY <1>1, <2>1, <2>2
<1>4. \A n : KeyIn(Stack, n) /\ n = Len(Stack) => kind = "key"
  BY <1>1 DEF KeyIn
<1>5. QED
  BY <1>1, <1>2, <1>3, <1>4

(***************************************************************************)
(* Steps that leave the controllers and the keyboard handlers alone        *)
(***************************************************************************)

\* A step of the scheduled terminal's own that begins and ends no handler of the
\* keyboard.
QuietStep ==
    /\ UNCHANGED <<interrupts, booting, scheduled_term>>
    /\ store_return' \in {store_return, scheduled_term}
    /\ launched' \in {launched, [launched EXCEPT ![scheduled_term] = TRUE]}
    /\ \E stack : /\ WellFormed(stack)
                  /\ BecomesStack(stack)
                  /\ \A n \in Nat : KeyIn(stack, n) <=> KeyIn(Stack, n)

\* A system call from user mode, a halt of a shell or an exception.
LEMMA FromUserMode ==
    ASSUME Types, Syscall \/ SyscallWaits \/ Execute \/ HaltShell \/ Exception
    PROVE  QuietStep
<1>1. Stack = <<>>
  BY DEF Syscall, SyscallWaits, Execute, HaltShell, Exception, UserMode
<1>2. WellFormed(<<>>) /\ \A n \in Nat : ~KeyIn(<<>>, n)
  BY ShortStacks
<1>3. ASSUME NEW kind \in Kinds \ {"key"}, BecomesStack(<<kind>>)
      PROVE  \E stack : /\ WellFormed(stack)
                        /\ BecomesStack(stack)
                        /\ \A n \in Nat : KeyIn(stack, n) <=> KeyIn(Stack, n)
  BY <1>1, <1>2, <1>3, ShortStacks, Zenon
<1>4. Append(<<>>, "call") = <<"call">> /\ Append(<<>>, "report") = <<"report">>
  OBVIOUS
<1>5. {"call", "report", "tail", "exec"} \subseteq Kinds \ {"key"}
  BY DEF Kinds
<1>6. CASE Syscall
  BY <1>1, <1>2, <1>6 DEF Syscall, ReturnAtOnce, QuietStep
<1>7. CASE SyscallWaits
  BY <1>1, <1>3, <1>4, <1>5, <1>7 DEF SyscallWaits, Push, QuietStep
<1>8. CASE Execute
  BY <1>3, <1>5, <1>8 DEF Execute, Launches, QuietStep
<1>9. CASE HaltShell
  BY <1>3, <1>5, <1>9 DEF HaltShell, Restart, QuietStep
<1>10. CASE Exception
  BY <1>1, <1>3, <1>4, <1>5, <1>10 DEF Exception, Push, QuietStep
<1>11. QED
  BY <1>6, <1>7, <1>8, <1>9, <1>10

\* What lies under a frame that is not the keyboard handler's has all its
\* handlers, also when another such frame takes its place.
LEMMA TopTaken ==
    ASSUME Types, NEW kind \in Kinds \ {"key"}, Running(kind)
    PROVE  /\ WellFormed(Below)
           /\ \A n \in Nat : KeyIn(Below, n) <=> KeyIn(Stack, n)
           /\ WellFormed(Append(Below, "stored"))
           /\ \A n \in Nat : KeyIn(Append(Below, "stored"), n) <=> KeyIn(Stack, n)
<1>1. /\ WellFormed(Stack) /\ Stack # <<>> /\ Len(Stack) \in Nat \ {0}
      /\ \A n : KeyIn(Stack, n) /\ n = Len(Stack) => kind = "key"
  BY TopFrame
<1>2. /\ WellFormed(Below)
      /\ Len(Below) = Len(Stack) - 1
      /\ \A n : KeyIn(Below, n) <=> KeyIn(Stack, n) /\ n # Len(Stack)
  BY <1>1, Popped DEF Below
<1>3. \A n \in Nat : KeyIn(Below, n) <=> KeyIn(Stack, n)
  BY <1>1, <1>2
<1>4. "stored" \in Kinds /\ Len(Below) < MaxFrames
  BY <1>1, <1>2, InterruptsAssumption DEF Kinds, WellFormed
<1>5. /\ WellFormed(Append(Below, "stored"))
      /\ \A n : KeyIn(Append(Below, "stored"), n) <=> KeyIn(Below, n)
  BY <1>2, <1>4, Pushed
<1>6. QED
  BY <1>2, <1>3, <1>5

\* The way into execute or halt: nothing lies under it.
LEMMA TopAlone ==
    ASSUME Types, NEW kind \in {"exec", "report"}, Running(kind)
    PROVE  \A n \in Nat : ~KeyIn(Stack, n)
<1>1. /\ Len(Stack) = 1
      /\ \A n : KeyIn(Stack, n) /\ n = Len(Stack) => kind = "key"
  BY TopFrame
<1>2. QED
  BY <1>1 DEF KeyIn

\* The rest of a handler, of a system call or of execute.
LEMMA FromKernelMode ==
    ASSUME Types,
           CallReturnsOff \/ CallReturns \/ TailDone \/ Load \/ ExecDone \/ ReportDone
    PROVE  QuietStep
<1>1. {"call", "tail", "stored"} \subseteq Kinds \ {"key"}
  BY DEF Kinds
<1>2. CASE CallReturnsOff
  BY <1>1, <1>2, TopTaken DEF CallReturnsOff, ReturnAtOnce, QuietStep
<1>3. CASE CallReturns
  BY <1>1, <1>3, TopTaken DEF CallReturns, ReturnAtOnce, QuietStep
<1>4. CASE TailDone
  BY <1>1, <1>4, TopTaken DEF TailDone, Pop, QuietStep
<1>5. CASE Load
  BY <1>1, <1>5, TopTaken DEF Load, Pop, QuietStep
<1>6. ASSUME NEW kind \in {"exec", "report"}, Running(kind),
             NEW stack \in {<<>>, <<"tail">>, <<"exec">>}
      PROVE  WellFormed(stack) /\ \A n \in Nat : KeyIn(stack, n) <=> KeyIn(Stack, n)
  BY <1>6, TopAlone, ShortStacks DEF Kinds
<1>7. CASE ExecDone
  BY <1>6, <1>7 DEF ExecDone, Launches, QuietStep
<1>8. CASE ReportDone
  BY <1>6, <1>8 DEF ReportDone, ReturnAtOnce, Restart, QuietStep
<1>9. QED
  BY <1>2, <1>3, <1>4, <1>5, <1>7, <1>8

LEMMA QuietTypes == Types /\ QuietStep => Types'
<1>1. SUFFICES ASSUME Types, QuietStep PROVE Types'
  OBVIOUS
<1>2. Stacks'
  BY <1>1, StackReplaced DEF QuietStep
<1>3. ControlTypes' /\ TimerLast'
  BY <1>1 DEF Types, ControlTypes, TimerLast, QuietStep, interrupts
<1>4. QED
  BY <1>2, <1>3 DEF Types

(***************************************************************************)
(* The other steps, and the types                                          *)
(***************************************************************************)

\* Acknowledged and in-service interrupts stay among those there are.
LEMMA ServiceBits ==
    ASSUME Types, NEW n \in Devices
    PROVE  /\ InService(n) \subseteq Devices \cup {SLAVE}
           /\ Eoi(InService(n), n) \subseteq Devices \cup {SLAVE}
           /\ Eoi(isr, n) \subseteq Devices \cup {SLAVE}
<1>1. Level(n) \in Devices \cup {SLAVE}
  BY DEF Devices, Level, PIT, KBD, RTC, MOUSE, SLAVE
<1>2. QED
  BY <1>1 DEF Types, ControlTypes, InService, Eoi

\* A handler that is taken, with its frame on top.
LEMMA TakenTypes ==
    ASSUME Types, NEW n \in Devices, NEW kind \in {"tail", "key"}, Push(kind),
           irr' \subseteq irr,
           isr' \in {InService(n), Eoi(InService(n), n)},
           UNCHANGED <<enabled, booting, scheduled_term, launched, store_return>>
    PROVE  Types'
<1>1. WellFormed(Stack) /\ Len(Stack) \in Nat
  BY DEF Types, ControlTypes, Stacks, Stack, WellFormed
<1>2. kind \in Kinds /\ kind \notin {"exec", "report"}
  BY DEF Kinds
<1>3. WellFormed(Append(Stack, kind))
  <2>1. Len(Stack) < MaxFrames
    BY DEF Push
  <2>2. QED
    BY <1>1, <1>2, <2>1, Pushed
<1>4. Stacks'
  BY <1>3, StackReplaced DEF Push
<1>5. ControlTypes' /\ TimerLast'
  BY ServiceBits DEF Types, ControlTypes, TimerLast
<1>6. QED
  BY <1>4, <1>5 DEF Types

LEMMA TakeTypes ==
    ASSUME Types,
           TakeAtOnce(RTC) \/ TakeAtOnce(MOUSE) \/ TakeKey(TRUE) \/ TakeKey(FALSE)
    PROVE  Types'
<1>1. {RTC, MOUSE, KBD} \subseteq Devices
  BY DEF Devices
<1>2. ASSUME NEW n \in {RTC, MOUSE}, TakeAtOnce(n) PROVE Types'
  BY <1>1, <1>2, TakenTypes DEF TakeAtOnce
<1>3. ASSUME NEW echoes \in BOOLEAN, TakeKey(echoes) PROVE Types'
  <2>1. CASE echoes
    BY <1>1, <1>3, <2>1, TakenTypes DEF TakeKey
  <2>2. CASE ~echoes
    BY <1>1, <1>3, <2>2, TakenTypes DEF TakeKey
  <2>3. QED
    BY <2>1, <2>2
<1>4. QED
  BY <1>2, <1>3

LEMMA KeyDoneTypes == Types /\ KeyDone => Types'
<1>1. SUFFICES ASSUME Types, KeyDone PROVE Types'
  OBVIOUS
<1>2. /\ WellFormed(Stack) /\ Stack # <<>> /\ Len(Stack) \in Nat \ {0}
  BY <1>1, TopFrame DEF KeyDone
<1>3. WellFormed(Below) /\ Len(Below) = Len(Stack) - 1
  BY <1>2, Popped DEF Below
<1>4. WellFormed(Append(Below, "tail"))
  <2>1. Len(Below) < MaxFrames
    BY <1>2, <1>3, InterruptsAssumption DEF WellFormed
  <2>2. "tail" \in Kinds
    BY DEF Kinds
  <2>3. QED
    BY <1>3, <2>1, <2>2, Pushed
<1>5. Stacks'
  BY <1>1, <1>4, StackReplaced DEF KeyDone, Turn
<1>6. ControlTypes' /\ TimerLast'
  BY <1>1, ServiceBits DEF Types, ControlTypes, TimerLast, KeyDone, Devices
<1>7. QED
  BY <1>5, <1>6 DEF Types

LEMMA TakeTimerTypes == Types /\ TakeTimer => Types'
<1>1. SUFFICES ASSUME Types, TakeTimer PROVE Types'
  OBVIOUS
<1>2. NextTerm \in Terms /\ NextTerm # scheduled_term
  BY <1>1, NextIsTerm DEF Types, ControlTypes
<1>3. WellFormed(SavedFrames)
  BY <1>1, ShortStacks DEF Types, ControlTypes, Stacks, SavedFrames, Stack
<1>4. WellFormed(IF launched[NextTerm] THEN frames[NextTerm] ELSE <<"exec">>)
  BY <1>1, <1>2, ShortStacks DEF Types, Stacks, Kinds
<1>5. Stacks'
  BY <1>1, <1>2, <1>3, <1>4 DEF Types, Stacks, TakeTimer, WellFormed
<1>6. ControlTypes' /\ TimerLast'
  BY <1>1, <1>2, ServiceBits DEF Types, ControlTypes, TimerLast, TakeTimer, Devices
<1>7. QED
  BY <1>5, <1>6 DEF Types

LEMMA RaiseTypes ==
    ASSUME Types, NEW n \in Devices, Raise(n)
    PROVE  Types'
BY DEF Types, ControlTypes, Stacks, TimerLast, Raise

\* The timer is the last of what entry() has to do.
LEMMA BootOrderEnds ==
    ASSUME NEW n \in 1 .. Len(BootOrder) + 1, RestOfBoot(n) # <<>>
    PROVE  /\ Head(RestOfBoot(n)) \in {"pic", "rtc", "mouse", "pit", "keyboard", "terms"}
           /\ Tail(RestOfBoot(n)) \in {RestOfBoot(m) : m \in 1 .. Len(BootOrder) + 1}
           /\ Head(RestOfBoot(n)) = "pit" => Tail(RestOfBoot(n)) = <<>>
<1>1. Len(BootOrder) = 6
  BY DEF BootOrder
<1>2. n \in 1 .. 6
  BY <1>1 DEF RestOfBoot, BootOrder
<1>3. CASE n = 1
  BY <1>1, <1>3 DEF RestOfBoot, BootOrder
<1>4. CASE n = 2
  BY <1>1, <1>4 DEF RestOfBoot, BootOrder
<1>5. CASE n = 3
  BY <1>1, <1>5 DEF RestOfBoot, BootOrder
<1>6. CASE n = 4
  BY <1>1, <1>6 DEF RestOfBoot, BootOrder
<1>7. CASE n = 5
  BY <1>1, <1>7 DEF RestOfBoot, BootOrder
<1>8. CASE n = 6
  BY <1>1, <1>8 DEF RestOfBoot, BootOrder
<1>9. QED
  BY <1>2, <1>3, <1>4, <1>5, <1>6, <1>7, <1>8

LEMMA BootStepTypes == Types /\ BootStep => Types'
<1>1. SUFFICES ASSUME Types, BootStep PROVE Types'
  OBVIOUS
<1>2. PICK n \in 1 .. Len(BootOrder) + 1 : booting = RestOfBoot(n)
  BY <1>1 DEF Types, ControlTypes
<1>3. /\ Head(booting) \in {"pic", "rtc", "mouse", "pit", "keyboard", "terms"}
      /\ booting' \in {RestOfBoot(m) : m \in 1 .. Len(BootOrder) + 1}
      /\ Head(booting) = "pit" => booting' = <<>>
  BY <1>1, <1>2, BootOrderEnds DEF BootStep
<1>4. /\ enabled \subseteq enabled'
      /\ enabled' \subseteq Devices \cup {SLAVE}
      /\ PIT \in enabled' => PIT \in enabled \/ Head(booting) = "pit"
  BY <1>1, <1>3 DEF Types, ControlTypes, BootStep, Enable, Devices,
                    PIT, KBD, RTC, MOUSE, SLAVE
<1>5. ControlTypes'
  BY <1>1, <1>3, <1>4 DEF Types, ControlTypes, BootStep
<1>6. TimerLast'
  BY <1>1, <1>3, <1>4 DEF Types, TimerLast, BootStep
<1>7. Stacks'
  BY <1>1 DEF Types, Stacks, BootStep
<1>8. QED
  BY <1>5, <1>6, <1>7 DEF Types

LEMMA TypesInit == Init => Types
<1>1. SUFFICES ASSUME Init PROVE Types
  OBVIOUS
<1>2. NUM_TTYS - 1 \in Terms /\ 0 \in Terms
  BY InterruptsAssumption DEF Terms
<1>3. BootOrder = RestOfBoot(1) /\ 1 \in 1 .. Len(BootOrder) + 1
  BY DEF RestOfBoot, BootOrder
<1>4. ControlTypes /\ TimerLast
  BY <1>1, <1>2, <1>3 DEF Init, ControlTypes, TimerLast
<1>5. "boot" \in Kinds
  BY DEF Kinds
<1>6. Stacks
  BY <1>1, <1>5, ShortStacks DEF Init, Stacks
<1>7. QED
  BY <1>4, <1>6 DEF Types

LEMMA TypesStep == Types /\ [Next]_vars => Types'
<1>1. SUFFICES ASSUME Types, [Next]_vars PROVE Types'
  OBVIOUS
<1>2. ASSUME NEW n \in Devices, Raise(n) PROVE Types'
  BY <1>1, <1>2, RaiseTypes
<1>3. CASE Handling
  BY <1>1, <1>3, TakeTypes, TakeTimerTypes DEF Handling
<1>4. CASE Proceeding
  BY <1>1, <1>4, BootStepTypes, KeyDoneTypes, FromKernelMode, QuietTypes DEF Proceeding
<1>5. CASE Process
  BY <1>1, <1>5, FromUserMode, FromKernelMode, QuietTypes DEF Process
<1>6. CASE UNCHANGED vars
  BY <1>1, <1>6 DEF vars, interrupts, Types, ControlTypes, Stacks, TimerLast
<1>7. QED
  BY <1>1, <1>2, <1>3, <1>4, <1>5, <1>6 DEF Next

\* Every variable keeps its type, with keys at any time: what is left of entry()
\* is an end of its sequence, and stacks hold frames.
THEOREM TypeCorrect == Spec => []TypeOK
<1>1. Types => TypeOK
  BY DEF Types, ControlTypes, Stacks, TypeOK, RestOfBoot
<1>2. QED
  BY <1>1, TypesInit, TypesStep, PTL DEF Spec

\* kernel.c: the first tick comes when init_terms has marked the terminals as
\* empty, because the timer is the last device that entry() enables.
THEOREM TicksComeLast == Spec => TicksFindTerminals
<1>1. Types /\ [Next]_vars =>
        [scheduled_term' # scheduled_term =>
            \A k \in DOMAIN booting : booting[k] # "terms"]_vars
  <2>1. SUFFICES ASSUME Types, Next, scheduled_term' # scheduled_term
                 PROVE  \A k \in DOMAIN booting : booting[k] # "terms"
    BY DEF vars
  <2>2. ~QuietStep
    BY <2>1 DEF QuietStep
  <2>3. TakeTimer
    BY <2>1, <2>2, FromUserMode, FromKernelMode
       DEF Next, Raise, Handling, TakeAtOnce, TakeKey, Proceeding, BootStep,
           KeyDone, Process
  <2>4. PIT \in enabled
    BY <2>3 DEF TakeTimer, Deliverable, Ready
  <2>5. QED
    BY <2>1, <2>4 DEF Types, TimerLast
<1>2. QED
  BY <1>1, TypesInit, TypesStep, PTL DEF Spec, TicksFindTerminals

(***************************************************************************)
(* Service                                                                 *)
(***************************************************************************)

SomeHandler == \E t \in Terms, n \in Nat : KeyIn(frames[t], n)

OneHandler ==
    \A t, u \in Terms, m, n \in Nat :
        KeyIn(frames[t], m) /\ KeyIn(frames[u], n) => t = u /\ m = n

\* A key is pressed, and its handler on its way, only when no stack will be
\* thrown away any more.
KeysNeedTerminals ==
    KBD \in irr \/ SomeHandler => \A t \in Terms : launched[t]

Service ==
    /\ isr = IF SomeHandler THEN {KBD} ELSE {}
    /\ OneHandler
    /\ KeysNeedTerminals

\* A step that keeps every handler of the keyboard where it is.
LEMMA HandlersKept ==
    ASSUME Service,
           \A t \in Terms, n \in Nat : KeyIn(frames'[t], n) <=> KeyIn(frames[t], n),
           isr' = isr,
           \A t \in Terms : launched[t] => launched'[t],
           KBD \in irr' => KBD \in irr \/ \A t \in Terms : launched[t]
    PROVE  Service'
<1>1. SomeHandler' <=> SomeHandler
  BY DEF SomeHandler
<1>2. OneHandler'
  BY DEF Service, OneHandler
<1>3. KeysNeedTerminals'
  BY <1>1 DEF Service, KeysNeedTerminals
<1>4. QED
  BY <1>1, <1>2, <1>3 DEF Service

\* The stack of the scheduled terminal is the one that changes.
LEMMA OneStackChanges ==
    ASSUME Types, NEW stack, BecomesStack(stack)
    PROVE  \A t \in Terms : \A n : KeyIn(frames'[t], n)
                <=> KeyIn(IF t = scheduled_term THEN stack ELSE frames[t], n)
BY DEF Types, ControlTypes, Stacks, BecomesStack

LEMMA QuietService == Types /\ Service /\ QuietStep => Service'
<1>1. SUFFICES ASSUME Types, Service, QuietStep PROVE Service'
  OBVIOUS
<1>2. PICK stack : /\ BecomesStack(stack)
                   /\ \A n \in Nat : KeyIn(stack, n) <=> KeyIn(Stack, n)
  BY <1>1 DEF QuietStep
<1>3. \A t \in Terms, n \in Nat : KeyIn(frames'[t], n) <=> KeyIn(frames[t], n)
  BY <1>1, <1>2, OneStackChanges DEF Stack
<1>4. \A t \in Terms : launched[t] => launched'[t]
  BY <1>1 DEF QuietStep, Types, ControlTypes
<1>5. QED
  BY <1>1, <1>3, <1>4, HandlersKept DEF QuietStep, interrupts

\* While the keyboard is in service the controllers deliver the timer alone, so
\* another handler starts when no keyboard handler is under way.
LEMMA DeliveredWhenFree ==
    ASSUME Service, NEW n \in {KBD, RTC, MOUSE}, Deliverable(n)
    PROVE  /\ isr = {} /\ ~SomeHandler
           /\ Eoi(InService(n), n) = {}
           /\ InService(KBD) = {KBD}
<1>1. Level(KBD) = 1 /\ Level(n) \in Nat /\ Level(n) >= 1
  BY DEF Level, KBD, RTC, MOUSE, SLAVE
<1>2. isr # {KBD}
  <2>1. ~(Level(n) < Level(KBD))
    BY <1>1
  <2>2. \A m \in isr : Level(n) < Level(m)
    BY DEF Deliverable, Ready
  <2>3. QED
    BY <2>1, <2>2, Zenon
<1>3. isr = {} /\ ~SomeHandler
  BY <1>2 DEF Service
<1>4. QED
  BY <1>1, <1>3 DEF Eoi, InService, KBD

\* A handler of the clock or the mouse, or of a key that does not echo.
LEMMA TakenAtOnce ==
    ASSUME Types, Service, NEW n \in {KBD, RTC, MOUSE}, Deliverable(n),
           Push("tail"), isr' = Eoi(InService(n), n), irr' \subseteq irr,
           launched' = launched
    PROVE  Service'
<1>1. isr = {} /\ isr' = {}
  BY DeliveredWhenFree
<1>2. WellFormed(Stack) /\ "tail" \in Kinds
  BY DEF Types, ControlTypes, Stacks, Stack, Kinds
<1>3. \A m : KeyIn(Append(Stack, "tail"), m) <=> KeyIn(Stack, m)
  BY <1>2, Pushed DEF Push
<1>4. \A t \in Terms, m \in Nat : KeyIn(frames'[t], m) <=> KeyIn(frames[t], m)
  BY <1>3, OneStackChanges DEF Push, Stack
<1>5. QED
  BY <1>1, <1>4, HandlersKept

\* The handler of a key that echoes.
LEMMA KeyTaken == Types /\ Service /\ TakeKey(TRUE) => Service'
<1>1. SUFFICES ASSUME Types, Service, TakeKey(TRUE) PROVE Service'
  OBVIOUS
<1>2. isr' = {KBD} /\ ~SomeHandler
  BY <1>1, DeliveredWhenFree DEF TakeKey
<1>3. WellFormed(Stack) /\ "key" \in Kinds /\ Len(Stack) \in Nat
  BY <1>1 DEF Types, ControlTypes, Stacks, Stack, Kinds, WellFormed
<1>4. \A n \in Nat : KeyIn(Append(Stack, "key"), n)
                        <=> KeyIn(Stack, n) \/ n = Len(Stack) + 1
  BY <1>1, <1>3, Pushed DEF TakeKey, Push
<1>5. scheduled_term \in Terms
  BY <1>1 DEF Types, ControlTypes
<1>6. \A t \in Terms, n \in Nat :
          KeyIn(frames'[t], n) <=> t = scheduled_term /\ n = Len(Stack) + 1
  BY <1>1, <1>2, <1>4, <1>5, OneStackChanges DEF TakeKey, Push, SomeHandler, Stack
<1>7. SomeHandler'
  BY <1>3, <1>5, <1>6 DEF SomeHandler
<1>8. OneHandler'
  BY <1>6 DEF OneHandler
<1>9. \A t \in Terms : launched'[t]
  BY <1>1 DEF TakeKey, Service, KeysNeedTerminals, Deliverable, Ready
<1>10. QED
  BY <1>2, <1>7, <1>8, <1>9 DEF Service, KeysNeedTerminals

\* It ends where it is on top, and it was the only one.
LEMMA KeyDoneService == Types /\ Service /\ KeyDone => Service'
<1>1. SUFFICES ASSUME Types, Service, KeyDone PROVE Service'
  OBVIOUS
<1>2. /\ WellFormed(Stack) /\ Stack # <<>> /\ Len(Stack) \in Nat \ {0}
      /\ KeyIn(Stack, Len(Stack))
  BY <1>1, TopFrame DEF KeyDone, Running, KeyIn
<1>3. /\ WellFormed(Below) /\ Len(Below) = Len(Stack) - 1
      /\ \A n : KeyIn(Below, n) <=> KeyIn(Stack, n) /\ n # Len(Stack)
  BY <1>2, Popped DEF Below
<1>4. \A n : KeyIn(Append(Below, "tail"), n) <=> KeyIn(Below, n)
  <2>1. Len(Below) < MaxFrames
    BY <1>2, <1>3, InterruptsAssumption DEF WellFormed
  <2>2. "tail" \in Kinds
    BY DEF Kinds
  <2>3. QED
    BY <1>3, <2>1, <2>2, Pushed
<1>5. scheduled_term \in Terms
  BY <1>1 DEF Types, ControlTypes
<1>6. \A t \in Terms, n \in Nat : ~KeyIn(frames'[t], n)
  <2>1. SUFFICES ASSUME NEW t \in Terms, NEW n \in Nat, KeyIn(frames'[t], n)
                 PROVE  FALSE
    OBVIOUS
  <2>2. KeyIn(IF t = scheduled_term THEN Append(Below, "tail") ELSE frames[t], n)
    BY <1>1, <2>1, OneStackChanges DEF KeyDone, Turn
  <2>3. KeyIn(frames[t], n) /\ (t = scheduled_term => n # Len(Stack))
    BY <1>3, <1>4, <2>2 DEF Stack
  <2>4. QED
    BY <1>1, <1>2, <1>5, <2>3 DEF Service, OneHandler, Stack
<1>7. isr = {KBD} /\ \A t \in Terms : launched[t]
  BY <1>1, <1>2, <1>5 DEF Service, KeysNeedTerminals, SomeHandler, Stack
<1>8. isr' = {} /\ launched' = launched
  BY <1>1, <1>7 DEF KeyDone, Eoi
<1>9. QED
  BY <1>6, <1>7, <1>8 DEF Service, SomeHandler, OneHandler, KeysNeedTerminals

\* The timer throws away only the stacks of terminals that have no process, and
\* those hold no handler.
LEMMA TakeTimerService == Types /\ Service /\ TakeTimer => Service'
<1>1. SUFFICES ASSUME Types, Service, TakeTimer PROVE Service'
  OBVIOUS
<1>2. scheduled_term \in Terms /\ NextTerm \in Terms /\ NextTerm # scheduled_term
  BY <1>1, NextIsTerm DEF Types, ControlTypes
<1>3. \A t \in Terms, n \in Nat : ~launched[t] => ~KeyIn(frames[t], n)
  BY <1>1 DEF Service, KeysNeedTerminals, SomeHandler
<1>4. \A n \in Nat : ~KeyIn(<<>>, n) /\ ~KeyIn(<<"exec">>, n)
  BY ShortStacks DEF Kinds
<1>5. \A t \in Terms : frames'[t] =
          IF t = NextTerm THEN IF launched[t] THEN frames[t] ELSE <<"exec">>
          ELSE IF t = scheduled_term THEN IF launched[t] THEN frames[t] ELSE <<>>
          ELSE frames[t]
  BY <1>1, <1>2 DEF TakeTimer, SavedFrames, Stack, Types, Stacks
<1>6. \A t \in Terms, n \in Nat : KeyIn(frames'[t], n) <=> KeyIn(frames[t], n)
  BY <1>3, <1>4, <1>5
<1>7. isr' = isr
  BY <1>1 DEF TakeTimer, Service, Eoi, InService, Level, PIT, KBD
<1>8. QED
  BY <1>1, <1>6, <1>7, HandlersKept DEF TakeTimer

LEMMA ServiceInit == Init => Service
<1>1. SUFFICES ASSUME Init PROVE Service
  OBVIOUS
<1>2. \A t \in Terms, n \in Nat : ~KeyIn(frames[t], n)
  BY <1>1, ShortStacks DEF Init, Kinds
<1>3. QED
  BY <1>1, <1>2 DEF Init, Service, SomeHandler, OneHandler, KeysNeedTerminals

LEMMA ServiceStep ==
    ASSUME ~EarlyKeys, Types, Service, [Next]_vars
    PROVE  Service'
<1>1. ASSUME NEW n \in Devices, Raise(n) PROVE Service'
  BY <1>1, HandlersKept DEF Raise
<1>2. ASSUME NEW n \in {RTC, MOUSE}, TakeAtOnce(n) PROVE Service'
  BY <1>2, TakenAtOnce DEF TakeAtOnce
<1>3. CASE TakeKey(FALSE)
  BY <1>3, TakenAtOnce DEF TakeKey
<1>4. CASE TakeKey(TRUE)
  BY <1>4, KeyTaken
<1>5. CASE TakeTimer
  BY <1>5, TakeTimerService
<1>6. CASE KeyDone
  BY <1>6, KeyDoneService
<1>7. CASE BootStep \/ UNCHANGED vars
  BY <1>7, HandlersKept DEF BootStep, vars, interrupts
<1>8. CASE Process \/ TailDone \/ Load \/ ExecDone \/ ReportDone
  BY <1>8, FromUserMode, FromKernelMode, QuietService DEF Process
<1>9. QED
  BY <1>1, <1>2, <1>3, <1>4, <1>5, <1>6, <1>7, <1>8 DEF Next, Handling, Proceeding

\* The places of keyboard handlers are those of KeyFrames.
LEMMA HandlersAreFrames ==
    ASSUME Types
    PROVE  \A t \in Terms, n \in Nat : KeyIn(frames[t], n) <=> <<t, n>> \in KeyFrames
BY InterruptsAssumption DEF Types, Stacks, WellFormed, KeyIn, KeyFrames

LEMMA ServiceShows ==
    ASSUME Types, Service
    PROVE  ServiceMatchesHandlers
<1>1. \A f \in KeyFrames : /\ f = <<f[1], f[2]>>
                           /\ f[1] \in Terms /\ f[2] \in Nat
                           /\ KeyIn(frames[f[1]], f[2])
  BY HandlersAreFrames, InterruptsAssumption DEF KeyFrames
<1>2. SomeHandler <=> KeyFrames # {}
  BY <1>1, HandlersAreFrames DEF SomeHandler
<1>3. Cardinality(KeyFrames) <= 1
  <2>1. CASE KeyFrames = {}
    BY <2>1, FS_EmptySet
  <2>2. ASSUME NEW f \in KeyFrames PROVE Cardinality(KeyFrames) <= 1
    <3>1. \A g \in KeyFrames : g = f
      BY <1>1 DEF Service, OneHandler
    <3>2. KeyFrames = {f}
      BY <3>1
    <3>3. Cardinality({f}) = 1
      BY FS_Singleton, Zenon
    <3>4. QED
      BY <3>2, <3>3
  <2>3. QED
    BY <2>1, <2>2
<1>4. QED
  BY <1>2, <1>3 DEF Service, ServiceMatchesHandlers

\* Whenever interrupts are on, the controllers serve exactly the handler of the
\* keyboard that is not finished, and there is one at most: an end of interrupt
\* is not lost when the timer leaves a stack and not sent twice
\* (keyboard_handler, pit_handler, send_eoi).
THEOREM HandlersAreServed ==
    ASSUME ~EarlyKeys
    PROVE  Spec => []ServiceMatchesHandlers
<1> DEFINE Inv == Types /\ Service
<1>1. Init => Inv
  BY TypesInit, ServiceInit
<1>2. Inv /\ [Next]_vars => Inv'
  BY TypesStep, ServiceStep
<1>3. Inv => ServiceMatchesHandlers
  BY ServiceShows
<1>4. QED
  BY <1>1, <1>2, <1>3, PTL DEF Spec
=============================================================================
