------------------------------ MODULE Process ------------------------------
(***************************************************************************)
(* Processes, terminals and context switching: syscall_functions.c         *)
(* (execute, halt), pit.c (the round-robin timer), term.c (init_terms) and *)
(* the kernel's entry in kernel.c.                                         *)
(*                                                                         *)
(* One processor runs one context, cpu.  With interrupts disabled a system *)
(* call or handler is one action; it is cut in two at every sti() that     *)
(* lets the timer in before the code is done, and the pieces are the       *)
(* values of cpu.pc:                                                       *)
(*   "idle"      entry()'s hlt loop, before any process exists             *)
(*   "boot"      pit_handler, between sti() and execute's cli()            *)
(*   "bootEntry" execute called by pit_handler, after its sti()            *)
(*   "entry"     execute called by a process or by halt, after its sti()   *)
(*   "restart"   halt of a parentless shell, between sti() and execute's   *)
(*               cli()                                                     *)
(*   "user"      user code, or a system call spinning with interrupts on   *)
(*   "abandoned" a kernel frame that nothing should ever return to         *)
(* A context also names the process it runs and the kernel stack it lives  *)
(* on; kernel stacks are named by the pid whose 8 KB block holds them, and *)
(* the boot stack (0x800000) is that of pid 0.  Interrupts taken in user   *)
(* mode push on the stack tss.esp0 names, those taken in the kernel on the *)
(* current one.                                                            *)
(***************************************************************************)
EXTENDS Integers

CONSTANTS
    NUM_TTYS,      \* terminals (3)
    MAX_PIDs,      \* process slots (6)
    TimerWindows,  \* which of the two fragile windows the timer may hit
    EarlyCommands  \* may a shell get a command before all shells are up?

ASSUME ProcessAssumption ==
    /\ NUM_TTYS \in Nat \ {0}
    /\ MAX_PIDs \in Nat
    /\ NUM_TTYS <= MAX_PIDs
    /\ TimerWindows \subseteq {"bootEntry", "restart"}
    /\ EarlyCommands \in BOOLEAN

None == -1
Terms == 0 .. NUM_TTYS - 1
Pids == 0 .. MAX_PIDs - 1

\* execute gives these pids no parent ("current_pid >= 0 && current_pid <= 2").
BootPidsTooMany == 0 .. NUM_TTYS  \* mutant: "<= 3"
BootPids == 0 .. NUM_TTYS - 1

VARIABLES
    pid,            \* pid[p] = 1 when slot p is taken
    term_pid,       \* terms[t].pid, None before the terminal's first shell
    scheduled_term, \* the terminal whose slice is running
    process_id,     \* pcb of p: process_id, None once halted
    parent_id,      \* pcb of p: parent_id, None for a shell that reboots
    saved_ctx,      \* pcb of p: saved_ebp/esp, the frame of the execute that made p
    scheduled_ctx,  \* pcb of p: scheduled_ebp/esp, the context the timer took off
    this_pcb,       \* the pcb the system calls use, as the pid it belongs to
    user_page,      \* page_directory[32]: whose 4 MB page is mapped at 128 MB
    esp0,           \* tss.esp0: whose kernel stack the next entry uses
    cpu             \* the running context

vars == <<pid, term_pid, scheduled_term, process_id, parent_id, saved_ctx,
          scheduled_ctx, this_pcb, user_page, esp0, cpu>>

Contexts ==
    [pc : {"idle", "boot", "bootEntry", "entry", "restart", "user", "abandoned"},
     proc : Pids \cup {None},
     stack : Pids \cup {None}]

TypeOK ==
    /\ pid \in [Pids -> {0, 1}]
    /\ term_pid \in [Terms -> Pids \cup {None}]
    /\ scheduled_term \in Terms
    /\ process_id \in [Pids -> Pids \cup {None}]
    /\ parent_id \in [Pids -> Pids \cup {None}]
    /\ saved_ctx \in [Pids -> Contexts]
    /\ scheduled_ctx \in [Pids -> Contexts]
    /\ this_pcb \in Pids \cup {None}
    /\ user_page \in Pids \cup {None}
    /\ esp0 \in Pids \cup {None}
    /\ cpu \in Contexts
-----------------------------------------------------------------------------
\* The pcbs and the stack area hold no process before the first execute.
NoContext == [pc |-> "abandoned", proc |-> None, stack |-> None]

\* init_terms: the first tick moves on from the last terminal to the first.
InitialTermPast == NUM_TTYS  \* mutant: 3
InitialTerm == NUM_TTYS - 1

Init ==
    /\ pid = [p \in Pids |-> 0]
    /\ term_pid = [t \in Terms |-> None]
    /\ scheduled_term = InitialTerm
    /\ process_id = [p \in Pids |-> None]
    /\ parent_id = [p \in Pids |-> None]
    /\ saved_ctx = [p \in Pids |-> NoContext]
    /\ scheduled_ctx = [p \in Pids |-> NoContext]
    /\ this_pcb = None
    /\ user_page = None
    /\ esp0 = None
    /\ cpu = [pc |-> "idle", proc |-> None, stack |-> 0]

NextTermSkips == (scheduled_term + 1) % (NUM_TTYS - 1)  \* mutant: modulus off by one
NextTerm == (scheduled_term + 1) % NUM_TTYS

AllLaunched == \A t \in Terms : term_pid[t] # None

\* A shell executes and halts on commands typed to it.
HasCommand == EarlyCommands \/ AllLaunched

\* Where the processor pushes when it takes an interrupt or a system call.
KernelStack == IF cpu.pc = "user" THEN esp0 ELSE cpu.stack

Frame == [cpu EXCEPT !.stack = KernelStack]

LowestFreeUnchecked(p) == \A q \in Pids : q < p => pid[q] # 0  \* mutant: p not tested

LowestFree(p) ==
    /\ pid[p] = 0
    /\ \A q \in Pids : q < p => pid[q] # 0

\* this_pcb, the user page and the kernel stack of the process to run: execute,
\* halt and pit_handler each set the three.
MakeCurrentKeepStack(p, id) ==  \* mutant: tss.esp0 forgotten
    this_pcb' = p /\ user_page' = id /\ UNCHANGED esp0

MakeCurrent(p, id) ==
    /\ this_pcb' = p
    /\ user_page' = id
    /\ esp0' = id

\* syscall_execute of a valid program, up to its sti(): take the lowest free
\* slot, map its page, fill its pcb, remember the caller's frame, and go on in
\* the new process's context, still on the caller's kernel stack.
Launch(entry) ==
    \E new \in Pids :
        /\ LowestFree(new)
        /\ pid' = [pid EXCEPT ![new] = 1]
        /\ MakeCurrent(new, new)
        /\ process_id' = [process_id EXCEPT ![new] = new]
        /\ term_pid' = [term_pid EXCEPT ![scheduled_term] = new]
        /\ parent_id' = [parent_id EXCEPT ![new] =
                            IF new \in BootPids THEN None
                                                ELSE term_pid[scheduled_term]]
        /\ saved_ctx' = [saved_ctx EXCEPT ![new] =
                            IF cpu.pc = "user"
                               THEN Frame
                               ELSE [Frame EXCEPT !.pc = "abandoned"]]
        /\ cpu' = [pc |-> entry, proc |-> new, stack |-> KernelStack]
        /\ UNCHANGED <<scheduled_term, scheduled_ctx>>

\* A process executes a program.  A command that names no executable, or that
\* finds every slot taken, returns -1 and changes nothing modelled here.
Execute ==
    /\ cpu.pc = "user"
    /\ HasCommand
    /\ Launch("entry")

\* pit_handler's execute("shell") in a terminal that has no process.
BootShell ==
    /\ cpu.pc = "boot"
    /\ Launch("bootEntry")

\* halt's execute("shell").  (When it finds no slot halt goes on with a parent
\* of -1; a slot is missing only once another terminal has taken the one halt
\* freed, and OwnTerminal is broken by then: that path is not followed.)
RestartShell ==
    /\ cpu.pc = "restart"
    /\ Launch("entry")

\* execute's iret into the new program.
EnterUser ==
    /\ cpu.pc \in {"entry", "bootEntry"}
    /\ cpu' = [cpu EXCEPT !.pc = "user"]
    /\ UNCHANGED <<pid, term_pid, scheduled_term, process_id, parent_id,
                   saved_ctx, scheduled_ctx, this_pcb, user_page, esp0>>

\* halt (also called by every exception handler) of a process without parent:
\* the slot is freed, then interrupts are enabled.
HaltRoot ==
    LET p == term_pid[scheduled_term] IN
    /\ cpu.pc = "user"
    /\ HasCommand
    /\ p # None
    /\ parent_id[p] = None
    /\ this_pcb' = p
    /\ pid' = [pid EXCEPT ![p] = 0]
    /\ cpu' = [Frame EXCEPT !.pc = "restart"]
    /\ UNCHANGED <<term_pid, scheduled_term, process_id, parent_id, saved_ctx,
                   scheduled_ctx, user_page, esp0>>

FreedSlotParent(p) == parent_id[p]  \* mutant: terms[].pid read after it is set
FreedSlot(p) == process_id[p]

\* halt of a process with a parent: back into the parent's execute.
HaltChild ==
    LET p == term_pid[scheduled_term]
        parent == parent_id[p]
    IN
    /\ cpu.pc = "user"
    /\ p # None
    /\ parent # None
    /\ term_pid' = [term_pid EXCEPT ![scheduled_term] = parent]
    /\ pid' = [q \in Pids |-> IF q = FreedSlot(p) THEN 0 ELSE pid[q]]
    /\ process_id' = [process_id EXCEPT ![p] = None]
    /\ MakeCurrent(parent, parent)
    /\ cpu' = saved_ctx[p]
    /\ UNCHANGED <<scheduled_term, parent_id, saved_ctx, scheduled_ctx>>

\* pit_handler: store the running context in the pcb of the terminal's process,
\* then go to the next terminal ...
SwitchOut ==
    /\ cpu.pc \in {"idle", "boot", "entry", "user"} \cup TimerWindows
    /\ scheduled_term' = NextTerm
    /\ scheduled_ctx' =
          [p \in Pids |-> IF p = term_pid[scheduled_term] THEN Frame
                                                          ELSE scheduled_ctx[p]]

\* ... whose process it resumes,
TickResume ==
    LET next == term_pid[NextTerm] IN
    /\ SwitchOut
    /\ next # None
    /\ MakeCurrent(next, process_id[next])
    /\ cpu' = scheduled_ctx'[next]
    /\ UNCHANGED <<pid, term_pid, process_id, parent_id, saved_ctx>>

\* ... or, when it has none yet, for which it is about to execute a shell.
TickBoot ==
    /\ SwitchOut
    /\ term_pid[NextTerm] = None
    /\ cpu' = [pc |-> "boot", proc |-> None, stack |-> KernelStack]
    /\ UNCHANGED <<pid, term_pid, process_id, parent_id, saved_ctx, this_pcb,
                   user_page, esp0>>

Next ==
    \/ Execute
    \/ BootShell
    \/ RestartShell
    \/ EnterUser
    \/ HaltRoot
    \/ HaltChild
    \/ TickResume
    \/ TickBoot

Spec == Init /\ [][Next]_vars

\* The timer interrupts at 100 Hz for ever; a tick that comes while interrupts
\* are disabled stays latched in the PIC, so ticks are taken if they can be
\* again and again.  The processor runs on, and a window between an sti() and
\* the next cli() or iret is a few instructions while ticks are 10 ms apart, so
\* no terminal's slice is cut in its window every time.
Fairness ==
    /\ SF_vars(TickResume \/ TickBoot)
    /\ WF_vars(RestartShell)
    /\ \A t \in Terms :
          /\ SF_vars(scheduled_term = t /\ BootShell)
          /\ SF_vars(scheduled_term = t /\ EnterUser)

FairSpec == Spec /\ Fairness
-----------------------------------------------------------------------------
\* A halting shell has freed its slot before it takes a new one.
Live(p) == pid[p] = 1 \/ (cpu.pc = "restart" /\ cpu.proc = p)

IsForeground(p) == \E t \in Terms : term_pid[t] = p
HasChild(p) == \E c \in Pids : Live(c) /\ parent_id[c] = p

\* The processor never runs one process with another's page, kernel stack or
\* pcb: whatever path led here (launch, halt, context switch), the context that
\* runs is that of the scheduled terminal's process, and the user page, tss.esp0
\* and this_pcb are that process's.
ContextConsistent ==
    /\ cpu.pc # "abandoned"
    /\ cpu.pc \in {"user", "entry", "bootEntry"} =>
          /\ cpu.proc = term_pid[scheduled_term]
          /\ user_page = cpu.proc
          /\ esp0 = cpu.proc
          /\ this_pcb = cpu.proc

\* Each terminal runs a process of its own: no two terminals hold the same pid.
OwnTerminal ==
    \A t, u \in Terms :
        term_pid[t] = term_pid[u] /\ term_pid[t] # None => t = u

\* Every live process will be continued by exactly one event: it is the process
\* of exactly one terminal, or waits for exactly one child, never both; and a
\* slot that is taken belongs to such a process (no slot leaks, none is freed
\* while its process can still run).
OneContinuation ==
    /\ OwnTerminal
    /\ \A p \in Pids : Live(p) <=> (IsForeground(p) \/ HasChild(p))
    /\ \A p \in Pids : ~(IsForeground(p) /\ HasChild(p))
    /\ \A c, d \in Pids :
          Live(c) /\ Live(d) /\ parent_id[c] = parent_id[d] /\ parent_id[c] # None
             => c = d

\* halt gives control back to the process that called execute: the parent in
\* the pcb is the process whose frame execute saved there, and a process
\* without parent was started by no process.
CallerIsParent ==
    \A p \in Pids :
        Live(p) => parent_id[p] = IF saved_ctx[p].pc = "user"
                                     THEN saved_ctx[p].proc
                                     ELSE None

\* The next interrupt or system call taken in user mode overwrites the kernel
\* stack esp0 names; no context that is still to be continued, neither one the
\* timer took off nor an execute waiting for its child, lives there.
StackExclusive ==
    cpu.pc = "user" =>
        /\ \A t \in Terms \ {scheduled_term} :
              term_pid[t] # None => scheduled_ctx[term_pid[t]].stack # esp0
        /\ \A c \in Pids :
              Live(c) /\ parent_id[c] # None => saved_ctx[c].stack # esp0

\* A step frees no slot but that of the process that halts in its own slice,
\* and a live process never changes parents.
OnlyOwnHaltFrees ==
    [][\A p \in Pids :
          pid[p] = 1 =>
             /\ pid'[p] = 0 => cpu.proc = p /\ term_pid[scheduled_term] = p
             /\ parent_id'[p] = parent_id[p]]_vars

\* Every terminal gets its shell, and gets to run its process again and again.
EveryTerminalRuns ==
    \A t \in Terms : []<>(scheduled_term = t /\ cpu.pc = "user")
-----------------------------------------------------------------------------
(***************************************************************************)
(* The inductive invariant behind the safety properties (Process_proofs).  *)
(***************************************************************************)

\* The running context in each place of the code.
RunningContext ==
    /\ cpu.pc # "abandoned"
    /\ cpu.pc = "idle" => \A t \in Terms : term_pid[t] = None
    /\ cpu.pc = "boot" => term_pid[scheduled_term] = None
    /\ cpu.pc \in {"user", "entry", "bootEntry", "restart"} =>
          /\ cpu.proc \in Pids
          /\ term_pid[scheduled_term] = cpu.proc
          /\ user_page = cpu.proc
          /\ esp0 = cpu.proc
          /\ this_pcb = cpu.proc
    /\ cpu.pc = "entry" =>
          cpu.stack \in {cpu.proc, parent_id[cpu.proc]} \ {None}
    /\ cpu.pc = "restart" =>
          /\ AllLaunched
          /\ cpu.stack = cpu.proc
          /\ pid[cpu.proc] = 0
          /\ parent_id[cpu.proc] = None

\* The pcb of a live process: the parentless ones are the boot pids, every
\* other one has the frame of its parent's execute.
LiveRecords ==
    \A p \in Pids : Live(p) =>
        /\ process_id[p] = p
        /\ p \in BootPids <=> parent_id[p] = None
        /\ p \in BootPids => saved_ctx[p].pc = "abandoned"
        /\ p \notin BootPids =>
              saved_ctx[p] = [pc |-> "user", proc |-> parent_id[p],
                              stack |-> parent_id[p]]

\* What the timer took off a terminal is its process's context, on its own
\* stack or, before its first iret, on that of the process that executed it.
SuspendedContexts ==
    \A t \in Terms \ {scheduled_term} :
        term_pid[t] # None =>
            LET c == scheduled_ctx[term_pid[t]] IN
            /\ c.pc \in {"user", "entry"}
            /\ c.proc = term_pid[t]
            /\ c.stack \in {c.proc, parent_id[c.proc]} \ {None}

\* The boot pids are handed to the terminals' first shells and stay theirs.
BootSlots ==
    /\ AllLaunched => \A p \in BootPids : Live(p)
    /\ ~AllLaunched => \A p \in Pids : Live(p) => p \in BootPids

Inv ==
    /\ TypeOK
    /\ RunningContext
    /\ OneContinuation
    /\ LiveRecords
    /\ SuspendedContexts
    /\ BootSlots
=============================================================================
