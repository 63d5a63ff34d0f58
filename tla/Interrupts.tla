----------------------------- MODULE Interrupts -----------------------------
(***************************************************************************)
(* Interrupts from the devices to the iret: the two 8259s, the gates of    *)
(* the IDT, the linkage of ass_link_handler.S and the places where the     *)
(* handlers enable interrupts again, while the timer switches between the  *)
(* kernel stacks of the terminals.                                         *)
(*                                                                         *)
(* A gate turns interrupts off, so what a handler or a system call does up *)
(* to a sti() is one step.  What remains after the sti() is a frame on the *)
(* stack of the scheduled terminal, on top of which the next interrupt may *)
(* come:                                                                   *)
(*   boot    entry() in its initialisation or its hlt loop                 *)
(*   exec    pit_handler or halt on its way into execute("shell")          *)
(*   key     keyboard_handler after an echo, before its end of interrupt   *)
(*   tail    a handler after its last sti(), or execute after its own      *)
(*   call    a system call that waits or writes with interrupts on         *)
(*   stored  the linkage between the store and the load of store_return    *)
(*   report  report_error after its first message, before halt             *)
(* An empty stack is a process in user mode.                               *)
(*                                                                         *)
(* Bound: MaxFrames.  Window: EarlyKeys.                                   *)
(***************************************************************************)
EXTENDS Integers, Sequences, FiniteSets

CONSTANTS
    NUM_TTYS,   \* terminals (3)
    MaxFrames,  \* bound: frames on one stack that still take interrupts
    EarlyKeys   \* window: keys may be pressed before every terminal has a process

ASSUME InterruptsAssumption ==
    /\ NUM_TTYS \in Nat \ {0, 1}
    /\ MaxFrames \in Nat \ {0}
    /\ EarlyKeys \in BOOLEAN

VARIABLES
    irr,            \* interrupts that are requested
    isr,            \* in-service bits of both controllers, 2 for the cascade
    enabled,        \* the interrupts master_mask and slave_mask let through
    booting,        \* what entry() still has to do
    scheduled_term,
    launched,       \* launched[t]: terms[t].pid is not -1
    frames,         \* frames[t]: what the stack of t holds, the top last
    store_return

interrupts == <<irr, isr, enabled>>
vars == <<interrupts, booting, scheduled_term, launched, frames, store_return>>

PIT == 0
KBD == 1
SLAVE == 2
RTC == 8
MOUSE == 12
Devices == {PIT, KBD, RTC, MOUSE}

Terms == 0 .. NUM_TTYS - 1
Kinds == {"boot", "exec", "key", "tail", "call", "stored", "report"}
BootOrderTimerFirst ==  \* mutant: the timer is enabled with the other devices
    <<"pic", "rtc", "mouse", "pit", "keyboard", "terms">>
BootOrder == <<"pic", "rtc", "mouse", "keyboard", "terms", "pit">>

TypeOK ==
    /\ irr \subseteq Devices
    /\ isr \subseteq Devices \cup {SLAVE}
    /\ enabled \subseteq Devices \cup {SLAVE}
    /\ booting \in {SubSeq(BootOrder, n, Len(BootOrder)) : n \in 1 .. Len(BootOrder) + 1}
    /\ scheduled_term \in Terms
    /\ launched \in [Terms -> BOOLEAN]
    /\ frames \in [Terms -> Seq(Kinds)]
    /\ store_return \in Terms

\* entry() is what runs when init_terms has made the last terminal the scheduled
\* one.  The BIOS delivers nothing until i8259_init.
Init ==
    /\ irr = {}
    /\ isr = {}
    /\ enabled = {}
    /\ booting = BootOrder
    /\ scheduled_term = NUM_TTYS - 1
    /\ launched = [t \in Terms |-> FALSE]
    /\ frames = [t \in Terms |-> IF t = NUM_TTYS - 1 THEN <<"boot">> ELSE <<>>]
    /\ store_return = 0
-----------------------------------------------------------------------------
\* The controllers.  The slave's requests come in at level 2 of the master,
\* which takes nothing at or below the level it serves.
Level(n) == IF n >= 8 THEN SLAVE ELSE n

Ready(n) ==
    /\ n \in irr \cap enabled
    /\ Level(n) \in enabled
    /\ \A m \in isr : Level(n) < Level(m)

Deliverable(n) == Ready(n) /\ \A m \in Devices : Ready(m) => n <= m

InService(n) == isr \cup {n, Level(n)}

EoiSlaveOnly(bits, n) == bits \ {n}  \* mutant: the master is forgotten
Eoi(bits, n) == bits \ {n, Level(n)}

EnableAlone(n) == IF n = SLAVE THEN enabled ELSE enabled \cup {n}  \* mutant: the cascade stays masked
EnableOnMaster(n) == enabled \cup {n % 8}  \* mutant: 8 is subtracted but the port is the master's
Enable(n) == enabled \cup {n}

\* A device requests service.
Raise(n) ==
    /\ n \in enabled \ irr
    /\ n = KBD => EarlyKeys \/ \A t \in Terms : launched[t]
    /\ irr' = irr \cup {n}
    /\ UNCHANGED <<isr, enabled, booting, scheduled_term, launched, frames,
                   store_return>>
-----------------------------------------------------------------------------
Stack == frames[scheduled_term]
Running(kind) == Stack # <<>> /\ Stack[Len(Stack)] = kind
UserMode == Stack = <<>> /\ launched[scheduled_term]

Below == SubSeq(Stack, 1, Len(Stack) - 1)
BecomesStack(stack) == frames' = [frames EXCEPT ![scheduled_term] = stack]
Push(kind) == Len(Stack) < MaxFrames /\ BecomesStack(Append(Stack, kind))
Turn(kind) == BecomesStack(Append(Below, kind))
Pop == BecomesStack(Below)

\* rtc_handler and mouse_handler do all their work before their sti().
TakeAtOnce(n) ==
    /\ Deliverable(n)
    /\ irr' = irr \ {n}
    /\ isr' = Eoi(InService(n), n)
    /\ Push("tail")
    /\ UNCHANGED <<enabled, booting, scheduled_term, launched, store_return>>

\* keyboard_handler.  An echo, term_switch to another terminal and send_signal
\* enable interrupts long before the end of interrupt; a modifier does not.
TakeKey(echoes) ==
    /\ Deliverable(KBD)
    /\ irr' = irr \ {KBD}
    /\ isr' = IF echoes THEN InService(KBD) ELSE Eoi(InService(KBD), KBD)
    /\ Push(IF echoes THEN "key" ELSE "tail")
    /\ UNCHANGED <<enabled, booting, scheduled_term, launched, store_return>>

KeyDone ==
    /\ Running("key")
    /\ isr' = Eoi(isr, KBD)
    /\ Turn("tail")
    /\ UNCHANGED <<irr, enabled, booting, scheduled_term, launched, store_return>>

\* popfl turns interrupts off, popal and iret leave the handler.
TailDone ==
    /\ Running("tail")
    /\ Pop
    /\ UNCHANGED <<interrupts, booting, scheduled_term, launched, store_return>>

NextTerm == (scheduled_term + 1) % NUM_TTYS

\* A context without a process is not saved.
SavedFrames == IF launched[scheduled_term] THEN Stack ELSE <<>>

\* pit_handler: the next terminal goes on where it was interrupted, its handler
\* ending with the end of interrupt, or execute is called for its first shell.
TakeTimer ==
    /\ Deliverable(PIT)
    /\ irr' = irr \ {PIT}
    /\ isr' = Eoi(InService(PIT), PIT)
    /\ scheduled_term' = NextTerm
    /\ frames' = [frames EXCEPT
                    ![scheduled_term] = SavedFrames,
                    ![NextTerm] = IF launched[NextTerm] THEN frames[NextTerm] ELSE <<"exec">>]
    /\ UNCHANGED <<enabled, booting, launched, store_return>>
-----------------------------------------------------------------------------
\* The linkage of a system call.  What a call returns is told by its terminal.
\* After a handler that returned with interrupts off the store and the load of
\* store_return are one step.
ReturnAtOnce(stack) ==
    /\ store_return' = scheduled_term
    /\ BecomesStack(stack)
    /\ UNCHANGED <<interrupts, booting, scheduled_term, launched>>

\* A call that keeps interrupts off, and a halt that returns to the parent.
Syscall == UserMode /\ ReturnAtOnce(<<>>)

\* terminal_read, rtc_read and terminal_write up to their first sti().
SyscallWaits ==
    /\ UserMode
    /\ Push("call")
    /\ UNCHANGED <<interrupts, booting, scheduled_term, launched, store_return>>

\* terminal_read turns interrupts off when it has seen a line.
CallReturnsOff == Running("call") /\ ReturnAtOnce(Below)

\* rtc_read and terminal_write return with interrupts on.
CallReturns == Running("call") /\ ReturnAtOnce(Append(Below, "stored"))

\* The process gets what store_return holds by now.
Load ==
    /\ Running("stored")
    /\ Pop
    /\ UNCHANGED <<interrupts, booting, scheduled_term, launched, store_return>>

\* execute, from its cli() to its sti().
Launches ==
    /\ launched' = [launched EXCEPT ![scheduled_term] = TRUE]
    /\ BecomesStack(<<"tail">>)
    /\ UNCHANGED <<interrupts, booting, scheduled_term, store_return>>

Execute == UserMode /\ Launches
ExecDone == Running("exec") /\ Launches

\* halt of a shell without a parent, up to its sti().
Restart ==
    /\ BecomesStack(<<"exec">>)
    /\ UNCHANGED <<interrupts, booting, scheduled_term, launched, store_return>>

HaltShell == UserMode /\ Restart

\* The trap gate of an exception leaves interrupts as they are; the first
\* character report_error prints enables them.
Exception ==
    /\ UserMode
    /\ Push("report")
    /\ UNCHANGED <<interrupts, booting, scheduled_term, launched, store_return>>

ReportDone == Running("report") /\ (ReturnAtOnce(<<>>) \/ Restart)

\* entry() from i8259_init on.  The printing before has enabled interrupts.
BootStep ==
    /\ Running("boot")
    /\ booting # <<>>
    /\ booting' = Tail(booting)
    /\ enabled' = CASE Head(booting) = "pic" -> Enable(SLAVE)
                    [] Head(booting) = "rtc" -> Enable(RTC)
                    [] Head(booting) = "mouse" -> Enable(MOUSE)
                    [] Head(booting) = "keyboard" -> Enable(KBD)
                    [] Head(booting) = "pit" -> Enable(PIT)
                    [] OTHER -> enabled
    /\ UNCHANGED <<irr, isr, scheduled_term, launched, frames, store_return>>

Handling ==
    \/ TakeAtOnce(RTC)
    \/ TakeAtOnce(MOUSE)
    \/ TakeKey(TRUE)
    \/ TakeKey(FALSE)
    \/ TakeTimer

\* What the frame on top does next of its own accord; a call may wait for ever.
Proceeding == BootStep \/ KeyDone \/ TailDone \/ Load \/ ExecDone \/ ReportDone

Process ==
    \/ Syscall
    \/ SyscallWaits
    \/ CallReturnsOff
    \/ CallReturns
    \/ Execute
    \/ HaltShell
    \/ Exception

Next ==
    \/ \E n \in Devices : Raise(n)
    \/ Handling
    \/ Proceeding
    \/ Process

Spec == Init /\ [][Next]_vars

\* The timer ticks for ever.  A processor with interrupts on takes what is
\* deliverable, and in one of its slices a terminal gets on with what the
\* kernel has to do for it.
FairSpec ==
    /\ Spec
    /\ WF_vars(Raise(PIT))
    /\ WF_vars(TakeTimer)
    /\ WF_vars(BootStep)
    /\ \A t \in Terms : SF_vars(scheduled_term = t /\ Proceeding)
    /\ SF_vars(TakeKey(TRUE) \/ TakeKey(FALSE))
    /\ SF_vars(TakeAtOnce(RTC))
    /\ SF_vars(TakeAtOnce(MOUSE))
-----------------------------------------------------------------------------
KeyFrames == {f \in Terms \X (1 .. MaxFrames) :
                 f[2] <= Len(frames[f[1]]) /\ frames[f[1]][f[2]] = "key"}

\* Whenever interrupts are on, the controllers serve exactly the handlers that
\* are not finished: no end of interrupt is lost when the timer leaves a stack
\* or sent twice, and there is one keyboard handler at most on all stacks.
ServiceMatchesHandlers ==
    /\ isr = IF KeyFrames = {} THEN {} ELSE {KBD}
    /\ Cardinality(KeyFrames) <= 1

\* The first tick comes when init_terms has marked the terminals as empty:
\* before, pit_handler would resume a process 0 that never was.
TicksFindTerminals ==
    [][scheduled_term' # scheduled_term => \A k \in DOMAIN booting : booting[k] # "terms"]_vars

\* Every request is served, if the more urgent devices but the timer let it: the
\* handlers are finished and acknowledged although the timer leaves them half way,
\* with the keyboard in service on a stack that waits for its next slice.
EveryRequestServed ==
    \A n \in Devices :
        (\A m \in Devices \ {PIT} : m < n => <>[](m \notin irr))
            => (n \in irr ~> n \notin irr)

\* "prevent from popal clobbering eax value" (ass_link_handler.S): a system call
\* returns to its process what its own handler returned.
OwnReturn == Running("stored") => store_return = scheduled_term
=============================================================================
