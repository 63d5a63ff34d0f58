--------------------------- MODULE Process_proofs ---------------------------
(***************************************************************************)
(* Theorems about Process for every number of terminals and slots.         *)
(*                                                                         *)
(* Type correctness holds whatever the timer hits.  The safety invariants  *)
(* are those of a kernel whose timer stays out of the two fragile windows  *)
(* and whose shells get no command before all of them are up (Calm): TLC   *)
(* finds a violation when any one of the three conditions is dropped.      *)
(*                                                                         *)
(* The last part proves that the process table implements Jobs.  Its stack *)
(* of jobs is read by a recursive function (Ancestry in MCProcess), whose  *)
(* equation and value are found by induction on the natural numbers.       *)
(***************************************************************************)
EXTENDS MCProcess, TLAPS, FiniteSetTheorems, SequenceTheorems,
        WellFoundedInduction

Calm == TimerWindows = {} /\ ~EarlyCommands

-----------------------------------------------------------------------------
\* The next terminal is a terminal.
LEMMA NextTermType ==
    ASSUME TypeOK
    PROVE  NextTerm \in Terms
BY ProcessAssumption DEF TypeOK, NextTerm, Terms

LEMMA FrameType ==
    ASSUME TypeOK
    PROVE  /\ Frame \in Contexts
           /\ [Frame EXCEPT !.pc = "abandoned"] \in Contexts
           /\ [Frame EXCEPT !.pc = "restart"] \in Contexts
           /\ Frame.pc = cpu.pc
           /\ Frame.proc = cpu.proc
           /\ Frame.stack = KernelStack
           /\ KernelStack \in Pids \cup {None}
<1>1. cpu \in Contexts /\ esp0 \in Pids \cup {None}
  BY DEF TypeOK
<1>2. KernelStack \in Pids \cup {None}
  BY <1>1 DEF KernelStack, Contexts
<1>. QED
  BY <1>1, <1>2 DEF Frame, Contexts

LEMMA LaunchType ==
    ASSUME TypeOK, NEW entry \in {"entry", "bootEntry"}, Launch(entry)
    PROVE  TypeOK'
<1>. PICK new \in Pids : Launch(entry)!(new)
  BY DEF Launch
<1>1. [pc |-> entry, proc |-> new, stack |-> KernelStack] \in Contexts
  BY FrameType DEF Contexts
<1>2. (IF cpu.pc = "user" THEN Frame ELSE [Frame EXCEPT !.pc = "abandoned"])
        \in Contexts
  BY FrameType
<1>3. (IF new \in BootPids THEN None ELSE term_pid[scheduled_term])
        \in Pids \cup {None}
  BY DEF TypeOK
<1>. QED
  BY <1>1, <1>2, <1>3 DEF TypeOK, MakeCurrent

LEMMA SwitchType ==
    ASSUME TypeOK, SwitchOut
    PROVE  /\ scheduled_term' \in Terms
           /\ scheduled_ctx' \in [Pids -> Contexts]
BY NextTermType, FrameType DEF TypeOK, SwitchOut

LEMMA TypeStep ==
    ASSUME TypeOK, [Next]_vars
    PROVE  TypeOK'
<1>1. CASE Execute
  BY <1>1, LaunchType DEF Execute
<1>2. CASE BootShell
  BY <1>2, LaunchType DEF BootShell
<1>3. CASE RestartShell
  BY <1>3, LaunchType DEF RestartShell
<1>4. CASE EnterUser
  BY <1>4 DEF EnterUser, TypeOK, Contexts
<1>5. CASE HaltRoot
  BY <1>5, FrameType DEF HaltRoot, TypeOK
<1>6. CASE HaltChild
  BY <1>6 DEF HaltChild, TypeOK, MakeCurrent
<1>7. CASE TickResume
  <2>1. term_pid[NextTerm] \in Pids
    BY <1>7, NextTermType DEF TickResume, TypeOK
  <2>. QED
    BY <1>7, <2>1, SwitchType DEF TickResume, TypeOK, MakeCurrent
<1>8. CASE TickBoot
  <2>1. [pc |-> "boot", proc |-> None, stack |-> KernelStack] \in Contexts
    BY FrameType DEF Contexts
  <2>. QED
    BY <1>8, <2>1, SwitchType DEF TickBoot, TypeOK
<1>9. CASE UNCHANGED vars
  BY <1>9 DEF vars, TypeOK
<1>. QED
  BY <1>1, <1>2, <1>3, <1>4, <1>5, <1>6, <1>7, <1>8, <1>9 DEF Next

\* Every variable keeps its type, the timer hitting any of the windows.
THEOREM TypeCorrect == Spec => []TypeOK
<1>1. Init => TypeOK
  BY ProcessAssumption
  DEF Init, TypeOK, Contexts, NoContext, Terms, Pids, None, InitialTerm
<1>. QED
  BY <1>1, TypeStep, PTL DEF Spec
-----------------------------------------------------------------------------
\* Before the last terminal has its shell a boot pid is free, and after it has
\* every boot pid is some terminal's.
LEMMA BootPidFree ==
    ASSUME TypeOK, OwnTerminal, NEW t0 \in Terms, term_pid[t0] = None
    PROVE  \E b \in BootPids : \A t \in Terms : term_pid[t] # b
<1>. SUFFICES ASSUME \A b \in BootPids : \E t \in Terms : term_pid[t] = b
              PROVE  FALSE
  OBVIOUS
<1>. DEFINE holder == [b \in BootPids |-> CHOOSE t \in Terms : term_pid[t] = b]
            Others == Terms \ {t0}
<1>1. IsFiniteSet(BootPids) /\ IsFiniteSet(Others)
      /\ Cardinality(Others) < Cardinality(BootPids)
  <2>1. IsFiniteSet(Terms) /\ Cardinality(Terms) = NUM_TTYS
    BY ProcessAssumption, FS_Interval DEF Terms
  <2>2. BootPids = Terms
    BY DEF BootPids, Terms
  <2>3. IsFiniteSet(Others) /\ Cardinality(Others) = NUM_TTYS - 1
    BY <2>1, FS_RemoveElement
  <2>. QED
    BY <2>1, <2>2, <2>3, ProcessAssumption
<1>2. \A b \in BootPids : holder[b] \in Terms /\ term_pid[holder[b]] = b
  OBVIOUS
<1>3. \A b \in BootPids : b # None
  BY ProcessAssumption DEF BootPids, None
<1>4. holder \in [BootPids -> Others]
  BY <1>2, <1>3
<1>. HIDE DEF holder, Others
<1>5. PICK b, c \in BootPids : b # c /\ holder[b] = holder[c]
  BY <1>1, <1>4, FS_PigeonHole
<1>. QED
  BY <1>2, <1>5

LEMMA BootPidsTaken ==
    ASSUME NEW holds \in [Terms -> BootPids],
           \A t, u \in Terms : holds[t] = holds[u] => t = u
    PROVE  \A b \in BootPids : \E t \in Terms : holds[t] = b
<1>1. IsFiniteSet(Terms) /\ IsFiniteSet(BootPids)
      /\ Cardinality(Terms) = Cardinality(BootPids)
  BY ProcessAssumption, FS_Interval DEF Terms, BootPids
<1>2. holds \in Injection(Terms, BootPids)
  BY DEF Injection, IsInjective
<1>3. holds \in Surjection(Terms, BootPids)
  BY <1>1, <1>2, FS_Injection
<1>. QED
  BY <1>3 DEF Surjection
-----------------------------------------------------------------------------
\* A launch by the scheduled terminal, seen through the live processes: the new
\* process joins them and nothing else of theirs changes.
LEMMA LaunchLive ==
    ASSUME TypeOK, NEW entry \in {"entry", "bootEntry"},
           NEW new \in Pids, Launch(entry)!(new)
    PROVE  /\ \A p \in Pids : Live(p)' <=> (pid[p] = 1 \/ p = new)
           /\ \A p \in Pids \ {new} :
                 /\ process_id'[p] = process_id[p]
                 /\ parent_id'[p] = parent_id[p]
                 /\ saved_ctx'[p] = saved_ctx[p]
           /\ process_id'[new] = new
           /\ new \in BootPids => parent_id'[new] = None
           /\ new \notin BootPids => parent_id'[new] = term_pid[scheduled_term]
           /\ term_pid'[scheduled_term] = new
           /\ \A t \in Terms \ {scheduled_term} : term_pid'[t] = term_pid[t]
           /\ cpu'.pc = entry /\ cpu'.proc = new /\ cpu'.stack = KernelStack
           /\ new # None
BY DEF TypeOK, Live, Pids, None

\* execute's new process joins the live ones on top of its caller.
LEMMA ExecuteStarts ==
    ASSUME Inv, Calm, Execute, NEW new \in Pids, Launch("entry")!(new),
           NEW caller, caller = term_pid[scheduled_term]
    PROVE  /\ cpu.pc = "user" /\ AllLaunched
           /\ caller = cpu.proc /\ caller \in Pids /\ esp0 = caller
           /\ pid[caller] = 1
           /\ new \notin BootPids /\ ~Live(new) /\ new # caller
           /\ \A p \in Pids : Live(p)' <=> (Live(p) \/ p = new)
           /\ \A p \in Pids \ {new} :
                 /\ process_id'[p] = process_id[p]
                 /\ parent_id'[p] = parent_id[p]
                 /\ saved_ctx'[p] = saved_ctx[p]
           /\ process_id'[new] = new
           /\ parent_id'[new] = caller
           /\ term_pid'[scheduled_term] = new
           /\ \A t \in Terms \ {scheduled_term} : term_pid'[t] = term_pid[t]
           /\ cpu'.pc = "entry" /\ cpu'.proc = new /\ cpu'.stack = caller
           /\ new # None
<1>1. /\ cpu.pc = "user" /\ AllLaunched
      /\ caller = cpu.proc /\ caller \in Pids /\ esp0 = caller
      /\ pid[caller] = 1
  <2>1. cpu.pc = "user" /\ AllLaunched
    BY DEF Execute, HasCommand, Calm
  <2>2. caller = cpu.proc /\ caller \in Pids /\ esp0 = caller
    BY <2>1 DEF Inv, RunningContext
  <2>3. Live(caller)
    BY <2>2 DEF Inv, OneContinuation, IsForeground, TypeOK
  <2>. QED
    BY <2>1, <2>2, <2>3 DEF Live
<1>2. /\ new \notin BootPids /\ ~Live(new) /\ new # caller
  BY <1>1 DEF Inv, BootSlots, Live, LowestFree
<1>3. /\ \A p \in Pids : Live(p)' <=> (Live(p) \/ p = new)
      /\ \A p \in Pids \ {new} :
            /\ process_id'[p] = process_id[p]
            /\ parent_id'[p] = parent_id[p]
            /\ saved_ctx'[p] = saved_ctx[p]
      /\ process_id'[new] = new
      /\ parent_id'[new] = caller
      /\ term_pid'[scheduled_term] = new
      /\ \A t \in Terms \ {scheduled_term} : term_pid'[t] = term_pid[t]
      /\ cpu'.pc = "entry" /\ cpu'.proc = new /\ cpu'.stack = caller
      /\ new # None
  <2>1. TypeOK /\ KernelStack = caller
    BY <1>1 DEF Inv, KernelStack
  <2>2. \A p \in Pids : Live(p)' <=> (pid[p] = 1 \/ p = new)
    BY <2>1, LaunchLive
  <2>3. \A p \in Pids : Live(p) <=> pid[p] = 1
    BY <1>1 DEF Live
  <2>4. \A p \in Pids : Live(p)' <=> (Live(p) \/ p = new)
    BY <2>2, <2>3
  <2>5. /\ \A p \in Pids \ {new} :
              /\ process_id'[p] = process_id[p]
              /\ parent_id'[p] = parent_id[p]
              /\ saved_ctx'[p] = saved_ctx[p]
        /\ process_id'[new] = new
        /\ new \notin BootPids => parent_id'[new] = term_pid[scheduled_term]
        /\ term_pid'[scheduled_term] = new
        /\ \A t \in Terms \ {scheduled_term} : term_pid'[t] = term_pid[t]
        /\ cpu'.pc = "entry" /\ cpu'.proc = new /\ cpu'.stack = KernelStack
        /\ new # None
    BY <2>1, LaunchLive
  <2>. QED
    BY <1>2, <2>1, <2>4, <2>5
<1>. QED
  BY <1>1, <1>2, <1>3

LEMMA ExecuteStep ==
    ASSUME Inv, Calm, Execute
    PROVE  Inv'
<1>. PICK new \in Pids : Launch("entry")!(new)
  BY DEF Execute, Launch
<1>. DEFINE caller == term_pid[scheduled_term]
<1>1. /\ cpu.pc = "user" /\ AllLaunched
      /\ caller = cpu.proc /\ caller \in Pids /\ esp0 = caller
      /\ pid[caller] = 1
  BY ExecuteStarts
<1>2. /\ new \notin BootPids /\ ~Live(new) /\ new # caller
  BY ExecuteStarts
<1>3. /\ \A p \in Pids : Live(p)' <=> (Live(p) \/ p = new)
      /\ \A p \in Pids \ {new} :
            /\ process_id'[p] = process_id[p]
            /\ parent_id'[p] = parent_id[p]
            /\ saved_ctx'[p] = saved_ctx[p]
      /\ process_id'[new] = new
      /\ parent_id'[new] = caller
      /\ term_pid'[scheduled_term] = new
      /\ \A t \in Terms \ {scheduled_term} : term_pid'[t] = term_pid[t]
      /\ cpu'.pc = "entry" /\ cpu'.proc = new /\ cpu'.stack = caller
      /\ new # None
  BY ExecuteStarts
<1>4. saved_ctx'[new] = [pc |-> "user", proc |-> caller, stack |-> caller]
  BY <1>1 DEF Frame, KernelStack, Inv, TypeOK, Contexts
<1>5. TypeOK'
  BY TypeStep DEF Inv, Next
<1>6. RunningContext'
  BY <1>1, <1>3, <1>5 DEF RunningContext, Pids, None, MakeCurrent
<1>7. OneContinuation'
  <2>1. /\ \A t \in Terms : term_pid[t] # new
        /\ \A c \in Pids : Live(c) => parent_id[c] # new
    BY <1>2 DEF Inv, OneContinuation, IsForeground, HasChild
  <2>2. /\ \A t \in Terms \ {scheduled_term} : term_pid[t] # caller
        /\ \A c \in Pids : Live(c) => parent_id[c] # caller
    BY <1>1 DEF Inv, OneContinuation, OwnTerminal, IsForeground, HasChild,
                TypeOK, Pids, None
  <2>3. scheduled_term \in Terms
    BY DEF Inv, TypeOK
  <2>4. OwnTerminal'
    BY <1>3, <2>1 DEF Inv, OneContinuation, OwnTerminal
  <2>5. \A p \in Pids : IsForeground(p)' <=> (p = new \/ (IsForeground(p) /\ p # caller))
    BY <1>3, <2>1, <2>2, <2>3 DEF IsForeground
  <2>6. \A p \in Pids : HasChild(p)' <=> (p = caller \/ HasChild(p))
    BY <1>1, <1>2, <1>3 DEF HasChild
  <2>7. ~HasChild(new) /\ ~HasChild(caller) /\ Live(caller) /\ ~IsForeground(new)
    BY <1>1, <2>1, <2>2 DEF HasChild, IsForeground, Live
  <2>8. \A p \in Pids : Live(p)' <=> (IsForeground(p)' \/ HasChild(p)')
    BY <1>1, <1>2, <1>3, <2>5, <2>6, <2>7 DEF Inv, OneContinuation
  <2>9. \A p \in Pids : ~(IsForeground(p)' /\ HasChild(p)')
    BY <1>2, <2>5, <2>6, <2>7 DEF Inv, OneContinuation
  <2>10. \A c, d \in Pids :
           Live(c)' /\ Live(d)' /\ parent_id'[c] = parent_id'[d]
             /\ parent_id'[c] # None => c = d
    BY <1>3, <2>2 DEF Inv, OneContinuation
  <2>. QED
    BY <2>4, <2>8, <2>9, <2>10 DEF OneContinuation
<1>8. LiveRecords'
  <2>1. BootPids' = BootPids
    BY DEF BootPids
  <2>. QED
    BY <1>1, <1>2, <1>3, <1>4, <2>1 DEF Inv, LiveRecords, Pids, None
<1>9. SuspendedContexts'
  <2>. SUFFICES ASSUME NEW t \in Terms \ {scheduled_term}, term_pid[t] # None
                PROVE  /\ term_pid'[t] = term_pid[t]
                       /\ scheduled_ctx'[term_pid[t]] = scheduled_ctx[term_pid[t]]
                       /\ term_pid[t] # new /\ term_pid[t] \in Pids
    BY <1>3 DEF Inv, SuspendedContexts
  <2>. QED
    BY <1>2, <1>3 DEF Inv, OneContinuation, IsForeground, TypeOK
<1>10. BootSlots'
  <2>1. AllLaunched'
    BY <1>1, <1>3 DEF AllLaunched, None
  <2>2. BootPids \subseteq Pids
    BY ProcessAssumption DEF BootPids, Pids
  <2>3. \A p \in BootPids : Live(p)'
    BY <1>1, <1>3, <2>2 DEF Inv, BootSlots
  <2>. QED
    BY <2>1, <2>3 DEF BootSlots, BootPids
<1>. QED
  BY <1>5, <1>6, <1>7, <1>8, <1>9, <1>10 DEF Inv

\* pit_handler's shell is its terminal's first process and gets a boot pid.
LEMMA BootStarts ==
    ASSUME Inv, Calm, BootShell, NEW new \in Pids, Launch("bootEntry")!(new)
    PROVE  /\ cpu.pc = "boot" /\ scheduled_term \in Terms
           /\ term_pid[scheduled_term] = None /\ ~AllLaunched
           /\ \A p \in Pids : Live(p) <=> pid[p] = 1
           /\ \A p \in Pids : Live(p) => p \in BootPids /\ IsForeground(p) /\ parent_id[p] = None
           /\ new \in BootPids /\ ~Live(new)
           /\ \A p \in Pids : Live(p)' <=> (Live(p) \/ p = new)
           /\ \A p \in Pids \ {new} :
                 /\ process_id'[p] = process_id[p]
                 /\ parent_id'[p] = parent_id[p]
                 /\ saved_ctx'[p] = saved_ctx[p]
           /\ process_id'[new] = new
           /\ parent_id'[new] = None
           /\ term_pid'[scheduled_term] = new
           /\ \A t \in Terms \ {scheduled_term} : term_pid'[t] = term_pid[t]
           /\ cpu'.pc = "bootEntry" /\ cpu'.proc = new
           /\ new # None
<1>1. /\ cpu.pc = "boot" /\ scheduled_term \in Terms
      /\ term_pid[scheduled_term] = None /\ ~AllLaunched
  BY DEF BootShell, Inv, RunningContext, TypeOK, AllLaunched
<1>2. \A p \in Pids : Live(p) <=> pid[p] = 1
  BY <1>1 DEF Live
<1>3. \A p \in Pids : Live(p) => p \in BootPids /\ IsForeground(p) /\ parent_id[p] = None
  <2>1. \A p \in Pids : Live(p) => p \in BootPids /\ parent_id[p] = None
    BY <1>1 DEF Inv, BootSlots, LiveRecords
  <2>2. \A p \in Pids : ~HasChild(p)
    BY <2>1 DEF HasChild, Pids, None
  <2>. QED
    BY <2>1, <2>2 DEF Inv, OneContinuation
<1>4. new \in BootPids /\ ~Live(new)
  <2>1. PICK b \in BootPids : \A t \in Terms : term_pid[t] # b
    BY <1>1, BootPidFree DEF Inv, OneContinuation
  <2>2. b \in Pids /\ BootPids \subseteq Pids
    BY ProcessAssumption DEF BootPids, Pids
  <2>3. pid[b] = 0
    BY <1>2, <1>3, <2>1, <2>2 DEF IsForeground, Inv, TypeOK
  <2>4. new <= b
    BY <2>2, <2>3 DEF LowestFree, Pids
  <2>5. new \in BootPids
    BY <2>4, ProcessAssumption DEF BootPids, Pids
  <2>. QED
    BY <1>2, <2>5 DEF LowestFree
<1>5. /\ \A p \in Pids : Live(p)' <=> (Live(p) \/ p = new)
      /\ \A p \in Pids \ {new} :
            /\ process_id'[p] = process_id[p]
            /\ parent_id'[p] = parent_id[p]
            /\ saved_ctx'[p] = saved_ctx[p]
      /\ process_id'[new] = new
      /\ parent_id'[new] = None
      /\ term_pid'[scheduled_term] = new
      /\ \A t \in Terms \ {scheduled_term} : term_pid'[t] = term_pid[t]
      /\ cpu'.pc = "bootEntry" /\ cpu'.proc = new
      /\ new # None
  BY <1>2, <1>4, LaunchLive DEF Inv
<1>. QED
  BY <1>1, <1>2, <1>3, <1>4, <1>5

LEMMA BootStep ==
    ASSUME Inv, Calm, BootShell
    PROVE  Inv'
<1>. PICK new \in Pids : Launch("bootEntry")!(new)
  BY DEF BootShell, Launch
<1>1. /\ cpu.pc = "boot" /\ scheduled_term \in Terms
      /\ term_pid[scheduled_term] = None /\ ~AllLaunched
  BY BootStarts
<1>2. \A p \in Pids : Live(p) <=> pid[p] = 1
  BY BootStarts
<1>3. \A p \in Pids : Live(p) => p \in BootPids /\ IsForeground(p) /\ parent_id[p] = None
  BY BootStarts
<1>4. new \in BootPids /\ ~Live(new)
  BY BootStarts
<1>5. /\ \A p \in Pids : Live(p)' <=> (Live(p) \/ p = new)
      /\ \A p \in Pids \ {new} :
            /\ process_id'[p] = process_id[p]
            /\ parent_id'[p] = parent_id[p]
            /\ saved_ctx'[p] = saved_ctx[p]
      /\ process_id'[new] = new
      /\ parent_id'[new] = None
      /\ term_pid'[scheduled_term] = new
      /\ \A t \in Terms \ {scheduled_term} : term_pid'[t] = term_pid[t]
      /\ cpu'.pc = "bootEntry" /\ cpu'.proc = new
      /\ new # None
  BY BootStarts
<1>6. saved_ctx'[new].pc = "abandoned"
  BY <1>1 DEF Frame, Inv, TypeOK, Contexts
<1>7. TypeOK'
  BY TypeStep DEF Inv, Next
<1>8. RunningContext'
  BY <1>5, <1>7 DEF RunningContext, MakeCurrent
<1>9. OneContinuation'
  <2>1. \A t \in Terms : term_pid[t] # new
    BY <1>4 DEF Inv, OneContinuation, IsForeground
  <2>2. OwnTerminal'
    BY <1>5, <2>1 DEF Inv, OneContinuation, OwnTerminal
  <2>3. \A p \in Pids : IsForeground(p)' <=> (p = new \/ IsForeground(p))
    BY <1>1, <1>5 DEF IsForeground, Pids, None
  <2>4. \A p \in Pids : ~HasChild(p)'
    BY <1>3, <1>5 DEF HasChild, Pids, None
  <2>5. \A c, d \in Pids : ~(Live(c)' /\ parent_id'[c] # None)
    BY <1>3, <1>5
  <2>. QED
    BY <1>3, <1>5, <2>2, <2>3, <2>4, <2>5 DEF Inv, OneContinuation
<1>10. LiveRecords'
  <2>1. BootPids' = BootPids
    BY DEF BootPids
  <2>. QED
    BY <1>4, <1>5, <1>6, <2>1 DEF Inv, LiveRecords
<1>11. SuspendedContexts'
  <2>. SUFFICES ASSUME NEW t \in Terms \ {scheduled_term}, term_pid[t] # None
                PROVE  /\ term_pid'[t] = term_pid[t]
                       /\ scheduled_ctx'[term_pid[t]] = scheduled_ctx[term_pid[t]]
                       /\ term_pid[t] # new /\ term_pid[t] \in Pids
    BY <1>5 DEF Inv, SuspendedContexts
  <2>. QED
    BY <1>4, <1>5 DEF Inv, OneContinuation, IsForeground, TypeOK
<1>12. BootSlots'
  <2>1. \A p \in Pids : Live(p)' => p \in BootPids
    BY <1>3, <1>4, <1>5
  <2>2. ASSUME AllLaunched'
        PROVE  \A p \in BootPids : Live(p)'
    <3>1. \A t \in Terms : term_pid'[t] \in Pids
      BY <1>7, <2>2 DEF AllLaunched, TypeOK
    <3>2. \A t \in Terms : term_pid'[t] \in BootPids
      <4>. SUFFICES ASSUME NEW t \in Terms, NEW p \in Pids, p = term_pid'[t]
                    PROVE  p \in BootPids
        BY <3>1
      <4>1. IsForeground(p)'
        BY DEF IsForeground
      <4>. QED
        BY <1>9, <2>1, <4>1 DEF OneContinuation
    <3>3. term_pid' \in [Terms -> BootPids]
      BY <1>7, <3>2 DEF TypeOK
    <3>4. \A b \in BootPids : \E t \in Terms : term_pid'[t] = b
      <4>1. \A t, u \in Terms : term_pid'[t] = term_pid'[u] => t = u
        BY <1>9, <3>1 DEF OneContinuation, OwnTerminal, Pids, None
      <4>. QED
        BY ONLY <3>3, <4>1, BootPidsTaken
    <3>5. \A b \in BootPids : IsForeground(b)'
      BY <3>4 DEF IsForeground
    <3>6. BootPids \subseteq Pids
      BY ProcessAssumption DEF BootPids, Pids
    <3>. QED
      BY <1>9, <3>5, <3>6 DEF OneContinuation
  <2>. QED
    BY <2>1, <2>2 DEF BootSlots, BootPids
<1>. QED
  BY <1>7, <1>8, <1>9, <1>10, <1>11, <1>12 DEF Inv

\* The shell that halted gets its own slot back.
LEMMA ShellRestarts ==
    ASSUME Inv, RestartShell, NEW new \in Pids, Launch("entry")!(new),
           NEW shell, shell = cpu.proc
    PROVE  /\ cpu.pc = "restart" /\ AllLaunched
           /\ term_pid[scheduled_term] = shell /\ shell \in Pids
           /\ cpu.stack = shell /\ pid[shell] = 0 /\ parent_id[shell] = None
           /\ shell \in BootPids /\ Live(shell)
           /\ BootPids \subseteq Pids /\ \A b \in BootPids : b # shell => pid[b] = 1
           /\ new = shell
           /\ \A p \in Pids : Live(p)' <=> Live(p)
           /\ \A p \in Pids \ {shell} :
                 /\ process_id'[p] = process_id[p]
                 /\ saved_ctx'[p] = saved_ctx[p]
           /\ \A p \in Pids : parent_id'[p] = parent_id[p]
           /\ process_id'[shell] = shell
           /\ \A t \in Terms : term_pid'[t] = term_pid[t]
           /\ cpu'.pc = "entry" /\ cpu'.proc = shell /\ cpu'.stack = shell
<1>1. /\ cpu.pc = "restart" /\ AllLaunched
      /\ term_pid[scheduled_term] = shell /\ shell \in Pids
      /\ cpu.stack = shell /\ pid[shell] = 0 /\ parent_id[shell] = None
      /\ shell \in BootPids /\ Live(shell)
  BY DEF RestartShell, Inv, RunningContext, Live, LiveRecords
<1>2. BootPids \subseteq Pids /\ \A b \in BootPids : b # shell => pid[b] = 1
  BY <1>1, ProcessAssumption DEF Inv, BootSlots, Live, BootPids, Pids
<1>3. new = shell
  <2>1. new <= shell
    BY <1>1 DEF LowestFree, Pids
  <2>2. new \in BootPids
    BY <1>1, <2>1, ProcessAssumption DEF BootPids, Pids
  <2>. QED
    BY <1>2, <2>2 DEF LowestFree
<1>4. /\ \A p \in Pids : Live(p)' <=> Live(p)
      /\ \A p \in Pids \ {shell} :
            /\ process_id'[p] = process_id[p]
            /\ saved_ctx'[p] = saved_ctx[p]
      /\ \A p \in Pids : parent_id'[p] = parent_id[p]
      /\ process_id'[shell] = shell
      /\ \A t \in Terms : term_pid'[t] = term_pid[t]
      /\ cpu'.pc = "entry" /\ cpu'.proc = shell /\ cpu'.stack = shell
  <2>1. KernelStack = shell
    BY <1>1 DEF KernelStack
  <2>2. TypeOK
    BY DEF Inv
  <2>3. /\ \A p \in Pids : Live(p)' <=> (pid[p] = 1 \/ p = shell)
        /\ \A p \in Pids \ {shell} :
              /\ process_id'[p] = process_id[p]
              /\ parent_id'[p] = parent_id[p]
              /\ saved_ctx'[p] = saved_ctx[p]
        /\ process_id'[shell] = shell
        /\ parent_id'[shell] = None
        /\ term_pid'[scheduled_term] = shell
        /\ \A t \in Terms \ {scheduled_term} : term_pid'[t] = term_pid[t]
        /\ cpu'.pc = "entry" /\ cpu'.proc = shell /\ cpu'.stack = shell
    BY <1>1, <1>3, <2>1, <2>2, LaunchLive
  <2>4. \A p \in Pids : Live(p) <=> (pid[p] = 1 \/ p = shell)
    BY <1>1 DEF Live
  <2>. QED
    BY <1>1, <2>3, <2>4
<1>. QED
  BY <1>1, <1>2, <1>3, <1>4

LEMMA RestartStep ==
    ASSUME Inv, Calm, RestartShell
    PROVE  Inv'
<1>. PICK new \in Pids : Launch("entry")!(new)
  BY DEF RestartShell, Launch
<1>. DEFINE shell == cpu.proc
<1>1. /\ cpu.pc = "restart" /\ AllLaunched
      /\ term_pid[scheduled_term] = shell /\ shell \in Pids
      /\ cpu.stack = shell /\ pid[shell] = 0 /\ parent_id[shell] = None
      /\ shell \in BootPids /\ Live(shell)
  BY ShellRestarts
<1>2. BootPids \subseteq Pids /\ \A b \in BootPids : b # shell => pid[b] = 1
  BY ShellRestarts
<1>3. new = shell
  BY ShellRestarts
<1>4. /\ \A p \in Pids : Live(p)' <=> Live(p)
      /\ \A p \in Pids \ {shell} :
            /\ process_id'[p] = process_id[p]
            /\ saved_ctx'[p] = saved_ctx[p]
      /\ \A p \in Pids : parent_id'[p] = parent_id[p]
      /\ process_id'[shell] = shell
      /\ \A t \in Terms : term_pid'[t] = term_pid[t]
      /\ cpu'.pc = "entry" /\ cpu'.proc = shell /\ cpu'.stack = shell
  BY ShellRestarts
<1>5. saved_ctx'[shell].pc = "abandoned"
  BY <1>1, <1>3 DEF Frame, Inv, TypeOK, Contexts
<1>6. TypeOK'
  BY TypeStep DEF Inv, Next
<1>7. RunningContext'
  BY <1>1, <1>3, <1>4, <1>6 DEF RunningContext, TypeOK, Pids, None, MakeCurrent
<1>8. OneContinuation'
  BY <1>4 DEF Inv, OneContinuation, OwnTerminal, IsForeground, HasChild
<1>9. LiveRecords'
  <2>1. BootPids' = BootPids
    BY DEF BootPids
  <2>. QED
    BY <1>1, <1>4, <1>5, <2>1 DEF Inv, LiveRecords
<1>10. SuspendedContexts'
  <2>. SUFFICES ASSUME NEW t \in Terms \ {scheduled_term}, term_pid[t] # None
                PROVE  /\ scheduled_ctx'[term_pid[t]] = scheduled_ctx[term_pid[t]]
                       /\ term_pid[t] \in Pids
                       /\ scheduled_ctx[term_pid[t]].proc \in Pids
    BY <1>4 DEF Inv, SuspendedContexts
  <2>. QED
    BY DEF Inv, SuspendedContexts, TypeOK
<1>11. BootSlots'
  <2>1. AllLaunched'
    BY <1>1, <1>4 DEF AllLaunched
  <2>. QED
    BY <1>1, <1>2, <1>4, <2>1 DEF Inv, BootSlots, BootPids
<1>. QED
  BY <1>6, <1>7, <1>8, <1>9, <1>10, <1>11 DEF Inv

LEMMA EnterStep ==
    ASSUME Inv, EnterUser
    PROVE  Inv'
<1>1. cpu.pc \in {"entry", "bootEntry"} /\ cpu'.pc = "user" /\ cpu'.proc = cpu.proc
  BY DEF EnterUser, Inv, TypeOK, Contexts
<1>2. \A p \in Pids : Live(p)' <=> Live(p)
  BY <1>1 DEF EnterUser, Live
<1>3. TypeOK'
  BY TypeStep DEF Inv, Next
<1>4. RunningContext'
  BY <1>1 DEF EnterUser, Inv, RunningContext
<1>5. OneContinuation'
  BY <1>2 DEF EnterUser, Inv, OneContinuation, OwnTerminal, IsForeground, HasChild
<1>6. LiveRecords' /\ BootSlots'
  BY <1>2, ProcessAssumption
  DEF EnterUser, Inv, LiveRecords, BootSlots, AllLaunched, BootPids, Pids
<1>7. SuspendedContexts'
  BY DEF EnterUser, Inv, SuspendedContexts
<1>. QED
  BY <1>3, <1>4, <1>5, <1>6, <1>7 DEF Inv

\* The shell that halts, its slot freed, is about to take it again.
LEMMA HaltRootLive ==
    ASSUME Inv, Calm, HaltRoot
    PROVE  \A q \in Pids : Live(q)' <=> Live(q)
<1>. DEFINE p == term_pid[scheduled_term]
<1>1. /\ cpu.pc = "user" /\ AllLaunched /\ p \in Pids /\ p = cpu.proc
      /\ parent_id[p] = None /\ esp0 = p /\ Live(p)
  BY DEF HaltRoot, HasCommand, Calm, Inv, RunningContext, OneContinuation,
         IsForeground, TypeOK
<1>2. cpu'.pc = "restart" /\ cpu'.proc = p /\ cpu'.stack = p
  BY <1>1 DEF HaltRoot, Frame, KernelStack, Inv, TypeOK, Contexts
<1>3. \A q \in Pids : Live(q)' <=> Live(q)
  BY <1>1, <1>2 DEF HaltRoot, Live, Inv, TypeOK
<1>. QED
  BY <1>3

LEMMA HaltRootStep ==
    ASSUME Inv, Calm, HaltRoot
    PROVE  Inv'
<1>. DEFINE p == term_pid[scheduled_term]
<1>1. /\ cpu.pc = "user" /\ AllLaunched /\ p \in Pids /\ p = cpu.proc
      /\ parent_id[p] = None /\ esp0 = p /\ Live(p)
  BY DEF HaltRoot, HasCommand, Calm, Inv, RunningContext, OneContinuation,
         IsForeground, TypeOK
<1>2. cpu'.pc = "restart" /\ cpu'.proc = p /\ cpu'.stack = p
  BY <1>1 DEF HaltRoot, Frame, KernelStack, Inv, TypeOK, Contexts
<1>3. \A q \in Pids : Live(q)' <=> Live(q)
  BY HaltRootLive
<1>4. TypeOK'
  BY TypeStep DEF Inv, Next
<1>5. RunningContext'
  BY <1>1, <1>2 DEF HaltRoot, Inv, RunningContext, AllLaunched, TypeOK
<1>6. OneContinuation'
  BY <1>3 DEF HaltRoot, Inv, OneContinuation, OwnTerminal, IsForeground, HasChild
<1>7. LiveRecords' /\ BootSlots'
  BY <1>3, ProcessAssumption
  DEF HaltRoot, Inv, LiveRecords, BootSlots, AllLaunched, BootPids, Pids
<1>8. SuspendedContexts'
  BY DEF HaltRoot, Inv, SuspendedContexts
<1>. QED
  BY <1>4, <1>5, <1>6, <1>7, <1>8 DEF Inv

\* halt of a child takes it, and no other, out of the live processes.
LEMMA ChildEnds ==
    ASSUME Inv, HaltChild, NEW p, p = term_pid[scheduled_term],
           NEW parent, parent = parent_id[p]
    PROVE  /\ cpu.pc = "user" /\ p \in Pids /\ parent \in Pids /\ parent # None
           /\ p # None /\ scheduled_term \in Terms
           /\ Live(p) /\ IsForeground(p) /\ process_id[p] = p
           /\ saved_ctx[p] = [pc |-> "user", proc |-> parent, stack |-> parent]
           /\ HasChild(parent) /\ Live(parent) /\ ~IsForeground(parent) /\ parent # p
           /\ ~HasChild(p)
           /\ term_pid'[scheduled_term] = parent
           /\ \A t \in Terms \ {scheduled_term} : term_pid'[t] = term_pid[t]
           /\ parent_id' = parent_id /\ saved_ctx' = saved_ctx
           /\ \A q \in Pids \ {p} : process_id'[q] = process_id[q]
           /\ cpu' = saved_ctx[p] /\ cpu'.pc = "user" /\ cpu'.proc = parent
           /\ \A q \in Pids : Live(q)' <=> (Live(q) /\ q # p)
<1>1. /\ cpu.pc = "user" /\ p \in Pids /\ parent \in Pids /\ parent # None
      /\ p # None /\ scheduled_term \in Terms
      /\ Live(p) /\ IsForeground(p) /\ process_id[p] = p
      /\ saved_ctx[p] = [pc |-> "user", proc |-> parent, stack |-> parent]
  BY DEF HaltChild, Inv, RunningContext, OneContinuation, IsForeground, TypeOK,
         LiveRecords
<1>2. /\ HasChild(parent) /\ Live(parent) /\ ~IsForeground(parent) /\ parent # p
      /\ ~HasChild(p)
  BY <1>1 DEF Inv, OneContinuation, HasChild
<1>3. /\ term_pid'[scheduled_term] = parent
      /\ \A t \in Terms \ {scheduled_term} : term_pid'[t] = term_pid[t]
      /\ parent_id' = parent_id /\ saved_ctx' = saved_ctx
      /\ \A q \in Pids \ {p} : process_id'[q] = process_id[q]
      /\ cpu' = saved_ctx[p] /\ cpu'.pc = "user" /\ cpu'.proc = parent
  BY <1>1 DEF HaltChild, Inv, TypeOK
<1>4. \A q \in Pids : Live(q)' <=> (Live(q) /\ q # p)
  BY <1>1, <1>3 DEF HaltChild, Live, Inv, TypeOK, FreedSlot
<1>. QED
  BY <1>1, <1>2, <1>3, <1>4

LEMMA HaltChildStep ==
    ASSUME Inv, HaltChild
    PROVE  Inv'
<1>. DEFINE p == term_pid[scheduled_term]
            parent == parent_id[p]
<1>1. /\ cpu.pc = "user" /\ p \in Pids /\ parent \in Pids /\ parent # None
      /\ p # None /\ scheduled_term \in Terms
      /\ Live(p) /\ IsForeground(p) /\ process_id[p] = p
      /\ saved_ctx[p] = [pc |-> "user", proc |-> parent, stack |-> parent]
  BY ChildEnds
<1>2. /\ HasChild(parent) /\ Live(parent) /\ ~IsForeground(parent) /\ parent # p
      /\ ~HasChild(p)
  BY ChildEnds
<1>3. /\ term_pid'[scheduled_term] = parent
      /\ \A t \in Terms \ {scheduled_term} : term_pid'[t] = term_pid[t]
      /\ parent_id' = parent_id /\ saved_ctx' = saved_ctx
      /\ \A q \in Pids \ {p} : process_id'[q] = process_id[q]
      /\ cpu' = saved_ctx[p] /\ cpu'.pc = "user" /\ cpu'.proc = parent
  BY ChildEnds
<1>4. \A q \in Pids : Live(q)' <=> (Live(q) /\ q # p)
  BY ChildEnds
<1>5. TypeOK'
  BY TypeStep DEF Inv, Next
<1>6. RunningContext'
  BY <1>1, <1>3 DEF HaltChild, RunningContext, MakeCurrent
<1>7. OneContinuation'
  <2>1. OwnTerminal'
    BY <1>2, <1>3 DEF Inv, OneContinuation, OwnTerminal, IsForeground
  <2>2. \A q \in Pids : IsForeground(q)' <=> (q = parent \/ (IsForeground(q) /\ q # p))
    BY <1>1, <1>2, <1>3 DEF IsForeground, Inv, OneContinuation, OwnTerminal
  <2>3. \A q \in Pids : HasChild(q)' <=> (HasChild(q) /\ q # parent)
    BY <1>1, <1>2, <1>3, <1>4 DEF HasChild, Inv, OneContinuation
  <2>4. \A q \in Pids : Live(q)' <=> (IsForeground(q)' \/ HasChild(q)')
    BY <1>1, <1>2, <1>4, <2>2, <2>3 DEF Inv, OneContinuation
  <2>5. \A q \in Pids : ~(IsForeground(q)' /\ HasChild(q)')
    BY <2>2, <2>3 DEF Inv, OneContinuation
  <2>6. \A c, d \in Pids :
          Live(c)' /\ Live(d)' /\ parent_id'[c] = parent_id'[d]
            /\ parent_id'[c] # None => c = d
    BY <1>3, <1>4 DEF Inv, OneContinuation
  <2>. QED
    BY <2>1, <2>4, <2>5, <2>6 DEF OneContinuation
<1>8. LiveRecords'
  <2>1. BootPids' = BootPids
    BY DEF BootPids
  <2>. QED
    BY <1>3, <1>4, <2>1 DEF Inv, LiveRecords
<1>9. SuspendedContexts'
  BY <1>3 DEF HaltChild, Inv, SuspendedContexts
<1>10. BootSlots'
  <2>1. AllLaunched' <=> AllLaunched
    BY <1>1, <1>3 DEF AllLaunched, None
  <2>2. p \notin BootPids
    BY <1>1 DEF Inv, LiveRecords
  <2>. QED
    BY <1>1, <1>4, <2>1, <2>2, ProcessAssumption DEF Inv, BootSlots, BootPids, Pids
<1>. QED
  BY <1>5, <1>6, <1>7, <1>8, <1>9, <1>10 DEF Inv

\* Taking a context off leaves the processes alone and, in the pcb of the
\* process that ran, a context fit to be resumed.
LEMMA SwitchStep ==
    ASSUME Inv, Calm, SwitchOut
    PROVE  /\ \A p \in Pids : Live(p) <=> pid[p] = 1
           /\ \A t \in Terms : term_pid[t] # None =>
                 LET c == scheduled_ctx'[term_pid[t]] IN
                 /\ c.pc \in {"user", "entry"}
                 /\ c.proc = term_pid[t]
                 /\ c.stack \in {c.proc, parent_id[c.proc]} \ {None}
<1>1. cpu.pc \in {"idle", "boot", "entry", "user"}
  BY DEF SwitchOut, Calm
<1>2. \A p \in Pids : Live(p) <=> pid[p] = 1
  BY <1>1 DEF Live
<1>3. ASSUME NEW t \in Terms, term_pid[t] # None
      PROVE  LET c == scheduled_ctx'[term_pid[t]] IN
             /\ c.pc \in {"user", "entry"}
             /\ c.proc = term_pid[t]
             /\ c.stack \in {c.proc, parent_id[c.proc]} \ {None}
  <2>1. term_pid[t] \in Pids /\ scheduled_term \in Terms
    BY <1>3 DEF Inv, TypeOK
  <2>2. CASE t = scheduled_term
    <3>1. scheduled_ctx'[term_pid[t]] = Frame
      BY <2>1, <2>2 DEF SwitchOut
    <3>2. /\ cpu.pc \in {"user", "entry"} /\ cpu.proc = term_pid[t]
          /\ esp0 = term_pid[t]
          /\ cpu.pc = "entry" =>
                cpu.stack \in {cpu.proc, parent_id[cpu.proc]} \ {None}
      BY <1>1, <1>3, <2>1, <2>2 DEF Inv, RunningContext
    <3>3. Frame.pc = cpu.pc /\ Frame.proc = cpu.proc /\ Frame.stack = KernelStack
      BY FrameType DEF Inv
    <3>4. KernelStack \in {cpu.proc, parent_id[cpu.proc]}
      BY <3>2 DEF KernelStack
    <3>5. KernelStack # None
      <4>1. CASE cpu.pc = "user"
        BY <1>3, <3>2, <4>1 DEF KernelStack
      <4>2. CASE cpu.pc = "entry"
        BY <4>2, <2>1, <3>2 DEF KernelStack
      <4>. QED
        BY <3>2, <4>1, <4>2
    <3>. QED
      BY <3>1, <3>2, <3>3, <3>4, <3>5
  <2>3. CASE t # scheduled_term
    <3>1. term_pid[scheduled_term] # term_pid[t]
      BY <1>3, <2>1, <2>3 DEF Inv, OneContinuation, OwnTerminal
    <3>2. scheduled_ctx'[term_pid[t]] = scheduled_ctx[term_pid[t]]
      BY <2>1, <3>1 DEF SwitchOut
    <3>. QED
      BY <1>3, <2>3, <3>2 DEF Inv, SuspendedContexts
  <2>. QED
    BY <2>2, <2>3
<1>. QED
  BY <1>2, <1>3

LEMMA TickResumeStep ==
    ASSUME Inv, Calm, TickResume
    PROVE  Inv'
<1>. DEFINE next == term_pid[NextTerm]
<1>1. /\ SwitchOut /\ NextTerm \in Terms /\ next \in Pids /\ next # None
      /\ scheduled_term' = NextTerm
  BY NextTermType DEF TickResume, SwitchOut, Inv, TypeOK
<1>2. /\ \A p \in Pids : Live(p) <=> pid[p] = 1
      /\ \A t \in Terms : term_pid[t] # None =>
            LET c == scheduled_ctx'[term_pid[t]] IN
            /\ c.pc \in {"user", "entry"}
            /\ c.proc = term_pid[t]
            /\ c.stack \in {c.proc, parent_id[c.proc]} \ {None}
  BY <1>1, SwitchStep
<1>3. /\ cpu' = scheduled_ctx'[next] /\ cpu'.pc \in {"user", "entry"}
      /\ cpu'.proc = next /\ cpu'.stack \in {next, parent_id[next]} \ {None}
  BY <1>1, <1>2 DEF TickResume
<1>4. Live(next) /\ process_id[next] = next
  BY <1>1 DEF Inv, OneContinuation, IsForeground, LiveRecords
<1>5. \A p \in Pids : Live(p)' <=> Live(p)
  BY <1>2, <1>3 DEF TickResume, Live
<1>6. TypeOK'
  BY TypeStep DEF Inv, Next
<1>7. RunningContext'
  BY <1>1, <1>3, <1>4 DEF TickResume, RunningContext, MakeCurrent
<1>8. OneContinuation'
  BY <1>5 DEF TickResume, Inv, OneContinuation, OwnTerminal, IsForeground, HasChild
<1>9. LiveRecords' /\ BootSlots'
  BY <1>5, ProcessAssumption
  DEF TickResume, Inv, LiveRecords, BootSlots, AllLaunched, BootPids, Pids
<1>10. SuspendedContexts'
  BY <1>2 DEF TickResume, SuspendedContexts
<1>. QED
  BY <1>6, <1>7, <1>8, <1>9, <1>10 DEF Inv

LEMMA TickBootStep ==
    ASSUME Inv, Calm, TickBoot
    PROVE  Inv'
<1>1. /\ SwitchOut /\ NextTerm \in Terms /\ scheduled_term' = NextTerm
      /\ cpu'.pc = "boot" /\ term_pid[NextTerm] = None
  BY NextTermType DEF TickBoot, SwitchOut, Inv
<1>2. /\ \A p \in Pids : Live(p) <=> pid[p] = 1
      /\ \A t \in Terms : term_pid[t] # None =>
            LET c == scheduled_ctx'[term_pid[t]] IN
            /\ c.pc \in {"user", "entry"}
            /\ c.proc = term_pid[t]
            /\ c.stack \in {c.proc, parent_id[c.proc]} \ {None}
  BY <1>1, SwitchStep
<1>3. \A p \in Pids : Live(p)' <=> Live(p)
  BY <1>1, <1>2 DEF TickBoot, Live
<1>4. TypeOK'
  BY TypeStep DEF Inv, Next
<1>5. RunningContext'
  BY <1>1 DEF TickBoot, RunningContext
<1>6. OneContinuation'
  BY <1>3 DEF TickBoot, Inv, OneContinuation, OwnTerminal, IsForeground, HasChild
<1>7. LiveRecords' /\ BootSlots'
  BY <1>3, ProcessAssumption
  DEF TickBoot, Inv, LiveRecords, BootSlots, AllLaunched, BootPids, Pids
<1>8. SuspendedContexts'
  BY <1>2 DEF TickBoot, SuspendedContexts
<1>. QED
  BY <1>4, <1>5, <1>6, <1>7, <1>8 DEF Inv
-----------------------------------------------------------------------------
LEMMA InvInit ==
    ASSUME Init
    PROVE  Inv
<1>1. TypeOK
  BY ProcessAssumption DEF Init, TypeOK, Contexts, NoContext, Terms, Pids, None, InitialTerm
<1>2. \A p \in Pids : ~Live(p)
  BY DEF Init, Live
<1>3. ~AllLaunched
  BY ProcessAssumption DEF Init, AllLaunched, Terms
<1>4. OneContinuation
  BY <1>2 DEF Init, OneContinuation, OwnTerminal, IsForeground, HasChild, Pids, None
<1>. QED
  BY <1>1, <1>2, <1>3, <1>4
  DEF Init, Inv, RunningContext, LiveRecords, SuspendedContexts, BootSlots

LEMMA InvStep ==
    ASSUME Inv, Calm, [Next]_vars
    PROVE  Inv'
<1>1. CASE UNCHANGED vars
  <2>1. TypeOK' /\ RunningContext' /\ SuspendedContexts'
    BY <1>1 DEF vars, Inv, TypeOK, RunningContext, SuspendedContexts, AllLaunched
  <2>2. OneContinuation' /\ LiveRecords' /\ BootSlots'
    BY <1>1 DEF vars, Inv, OneContinuation, OwnTerminal, IsForeground, HasChild,
                Live, LiveRecords, BootSlots, AllLaunched
  <2>. QED
    BY <2>1, <2>2 DEF Inv
<1>. QED
  BY <1>1, ExecuteStep, BootStep, RestartStep, EnterStep, HaltRootStep,
     HaltChildStep, TickResumeStep, TickBootStep DEF Next

\* With a calm boot and timer the invariant holds throughout.
THEOREM Invariant ==
    ASSUME Calm
    PROVE  Spec => []Inv
<1>1. Init => Inv
  BY InvInit
<1>2. Inv /\ [Next]_vars => Inv'
  BY InvStep
<1>. QED
  BY <1>1, <1>2, PTL DEF Spec

\* The processor runs the scheduled terminal's process, with its page, its
\* kernel stack and its pcb (pit_handler, execute and halt agree on them).
THEOREM ContextsStayConsistent ==
    ASSUME Calm
    PROVE  Spec => []ContextConsistent
<1>1. Inv => ContextConsistent
  BY DEF Inv, RunningContext, ContextConsistent
<1>. QED
  BY <1>1, Invariant, PTL

\* No slot leaks and none is shared: every taken slot belongs to a process that
\* one terminal runs or one child returns to.
THEOREM EveryProcessHasOneContinuation ==
    ASSUME Calm
    PROVE  Spec => []OneContinuation
<1>1. Inv => OneContinuation
  BY DEF Inv
<1>. QED
  BY <1>1, Invariant, PTL

LEMMA ChildRecord ==
    ASSUME LiveRecords, NEW c \in Pids, Live(c), parent_id[c] # None
    PROVE  /\ saved_ctx[c].pc = "user"
           /\ saved_ctx[c].proc = parent_id[c]
           /\ saved_ctx[c].stack = parent_id[c]
<1>1. c \notin BootPids
  BY DEF LiveRecords
<1>2. saved_ctx[c] = [pc |-> "user", proc |-> parent_id[c], stack |-> parent_id[c]]
  BY <1>1 DEF LiveRecords
<1>. QED
  BY <1>2

\* halt returns to the process that called execute.
THEOREM HaltReturnsToCaller ==
    ASSUME Calm
    PROVE  Spec => []CallerIsParent
<1>1. ASSUME Inv PROVE CallerIsParent
  <2>. SUFFICES ASSUME NEW p \in Pids, Live(p)
                PROVE  parent_id[p] = IF saved_ctx[p].pc = "user"
                                         THEN saved_ctx[p].proc
                                         ELSE None
    BY DEF CallerIsParent
  <2>1. CASE parent_id[p] = None
    BY <1>1, <2>1 DEF Inv, LiveRecords
  <2>2. CASE parent_id[p] # None
    BY <1>1, <2>2, ChildRecord DEF Inv
  <2>. QED
    BY <2>1, <2>2
<1>. QED
  BY <1>1, Invariant, PTL

\* No kernel stack in use holds a context that is still to be continued.
THEOREM KernelStacksAreExclusive ==
    ASSUME Calm
    PROVE  Spec => []StackExclusive
<1>1. Inv => StackExclusive
  <2>. SUFFICES ASSUME Inv, cpu.pc = "user"
                PROVE  /\ \A t \in Terms \ {scheduled_term} :
                             term_pid[t] # None =>
                                scheduled_ctx[term_pid[t]].stack # esp0
                       /\ \A c \in Pids :
                             Live(c) /\ parent_id[c] # None =>
                                saved_ctx[c].stack # esp0
    BY DEF StackExclusive
  <2>1. esp0 \in Pids /\ term_pid[scheduled_term] = esp0 /\ ~HasChild(esp0)
        /\ scheduled_term \in Terms /\ esp0 # None
    BY DEF Inv, RunningContext, OneContinuation, IsForeground, TypeOK, Pids, None
  <2>2. ASSUME NEW t \in Terms \ {scheduled_term}, term_pid[t] # None
        PROVE  scheduled_ctx[term_pid[t]].stack # esp0
    <3>1. /\ term_pid[t] \in Pids /\ Live(term_pid[t]) /\ term_pid[t] # esp0
      BY <2>1, <2>2 DEF Inv, OneContinuation, OwnTerminal, IsForeground, TypeOK
    <3>2. parent_id[term_pid[t]] # esp0
      BY <2>1, <3>1 DEF HasChild
    <3>3. scheduled_ctx[term_pid[t]].stack \in {term_pid[t], parent_id[term_pid[t]]}
      BY <2>2 DEF Inv, SuspendedContexts
    <3>. QED
      BY <3>1, <3>2, <3>3
  <2>3. ASSUME NEW c \in Pids, Live(c), parent_id[c] # None
        PROVE  saved_ctx[c].stack # esp0
    <3>1. parent_id[c] # esp0
      BY <2>1, <2>3 DEF HasChild
    <3>2. saved_ctx[c].stack = parent_id[c]
      BY <2>3, ChildRecord DEF Inv
    <3>. QED
      BY <3>1, <3>2
  <2>. QED
    BY <2>2, <2>3
<1>. QED
  BY <1>1, Invariant, PTL

\* A slot is freed by the halt of its own process only, and no live process is
\* given another parent.
THEOREM SlotsAreFreedByTheirOwner ==
    ASSUME Calm
    PROVE  Spec => OnlyOwnHaltFrees
<1>. DEFINE Step == \A p \in Pids :
                       pid[p] = 1 =>
                          /\ pid'[p] = 0 => cpu.proc = p /\ term_pid[scheduled_term] = p
                          /\ parent_id'[p] = parent_id[p]
<1>1. ASSUME Inv, [Next]_vars
      PROVE  [Step]_vars
  <2>. SUFFICES ASSUME Next
                PROVE  Step
    BY <1>1
  <2>1. CASE Execute \/ BootShell \/ RestartShell
    <3>1. PICK new \in Pids : /\ LowestFree(new)
                              /\ pid' = [pid EXCEPT ![new] = 1]
                              /\ \A p \in Pids \ {new} : parent_id'[p] = parent_id[p]
      BY <1>1, <2>1 DEF Execute, BootShell, RestartShell, Launch, Inv, TypeOK
    <3>. QED
      BY <1>1, <3>1 DEF LowestFree, Inv, TypeOK
  <2>2. CASE HaltRoot
    BY <1>1, <2>2 DEF HaltRoot, Inv, TypeOK, RunningContext
  <2>3. CASE HaltChild
    <3>1. /\ cpu.proc = term_pid[scheduled_term] /\ cpu.proc \in Pids
          /\ Live(cpu.proc)
      BY <1>1, <2>3 DEF HaltChild, Inv, RunningContext, OneContinuation,
                        IsForeground, TypeOK
    <3>2. process_id[cpu.proc] = cpu.proc
      BY <1>1, <3>1 DEF Inv, LiveRecords
    <3>. QED
      BY <2>3, <3>1, <3>2 DEF HaltChild, FreedSlot
  <2>4. CASE EnterUser \/ TickResume \/ TickBoot
    BY <2>4 DEF EnterUser, TickResume, TickBoot
  <2>. QED
    BY <2>1, <2>2, <2>3, <2>4 DEF Next
<1>2. Spec => []Inv
  BY Invariant
<1>3. Spec => [][Step]_vars
  BY <1>1, <1>2, PTL DEF Spec
<1>. QED
  BY <1>3 DEF OnlyOwnHaltFrees
-----------------------------------------------------------------------------
\* Induction on the natural numbers, for a set of them.
LEMMA InductiveSetIsNat ==
    ASSUME NEW T, T \subseteq Nat, 0 \in T, \A n \in T : n + 1 \in T
    PROVE  T = Nat
<1>. SUFFICES ASSUME Nat \ T # {}
              PROVE  FALSE
  OBVIOUS
<1>. DEFINE R == OpToRel(<, Nat)
            Out == Nat \ T
<1>1. IsWellFoundedOn(R, Nat)
  BY NatLessThanWellFounded
<1>2. Out \subseteq Nat /\ Out # {}
  OBVIOUS
<1>. HIDE DEF R, Out
<1>3. PICK x \in Out : \A y \in Out : ~ (<<y, x>> \in R)
  BY <1>1, <1>2, WFMin
<1>. USE DEF Out
<1>4. x \in Nat /\ x # 0 /\ x - 1 \in Nat
  BY <1>3
<1>5. x - 1 \in Out
  BY <1>3, <1>4
<1>6. <<x - 1, x>> \in R
  BY <1>4 DEF R, OpToRel
<1>. QED
  BY <1>3, <1>5, <1>6

\* f is Ancestry's recursive function for up to m parents.
ClimbsTo(m, f, parents) ==
    f = [n \in 0 .. m |->
           [p \in Pids \cup {None} |->
              IF n = 0 \/ p = None THEN <<>>
                                   ELSE Append(f[n - 1][parents[p]], p)]]

\* The equation of that function has a solution, so Ancestry satisfies it.
LEMMA ClimbExists ==
    ASSUME NEW parents, NEW m \in Nat
    PROVE  \E f : ClimbsTo(m, f, parents)
<1>. DEFINE T == {n \in Nat : \E f : ClimbsTo(n, f, parents)}
<1>1. 0 \in T
  <2>. DEFINE f == [n \in 0 .. 0 |-> [p \in Pids \cup {None} |-> <<>>]]
  <2>1. ClimbsTo(0, f, parents)
    BY DEF ClimbsTo
  <2>. QED
    BY <2>1
<1>2. ASSUME NEW k \in T
      PROVE  k + 1 \in T
  <2>1. k \in Nat /\ k + 1 \in Nat
    OBVIOUS
  <2>2. PICK f : ClimbsTo(k, f, parents)
    OBVIOUS
  <2>. DEFINE Row(g, n) == [p \in Pids \cup {None} |->
                              IF n = 0 \/ p = None THEN <<>>
                                 ELSE Append(g[n - 1][parents[p]], p)]
              g == [n \in 0 .. k + 1 |-> IF n <= k THEN f[n] ELSE Row(f, n)]
  <2>3. \A n \in 0 .. k : f[n] = Row(f, n)
    BY <2>2 DEF ClimbsTo
  <2>4. \A n \in 0 .. k + 1 : g[n] = Row(f, n)
    <3>1. \A n \in 0 .. k + 1 : n <= k => n \in 0 .. k
      BY <2>1
    <3>. HIDE DEF Row
    <3>. QED
      BY <2>3, <3>1
  <2>5. \A n \in 0 .. k + 1 : n # 0 => g[n - 1] = f[n - 1]
    BY <2>1
  <2>6. \A n \in 0 .. k + 1 : Row(g, n) = Row(f, n)
    <3>. SUFFICES ASSUME NEW n \in 0 .. k + 1
                  PROVE  Row(g, n) = Row(f, n)
      OBVIOUS
    <3>1. n # 0 => g[n - 1] = f[n - 1]
      BY <2>5
    <3>. HIDE DEF g
    <3>. QED
      BY <3>1
  <2>7. g = [n \in 0 .. k + 1 |-> Row(g, n)]
    <3>1. \A n \in 0 .. k + 1 : g[n] = Row(g, n)
      BY <2>4, <2>6
    <3>2. g = [n \in 0 .. k + 1 |-> g[n]]
      OBVIOUS
    <3>. HIDE DEF g, Row
    <3>. QED
      BY <3>1, <3>2
  <2>8. ClimbsTo(k + 1, g, parents)
    <3>. HIDE DEF g
    <3>. QED
      BY <2>7 DEF ClimbsTo
  <2>. QED
    BY <2>1, <2>8
<1>3. T = Nat
  <2>. HIDE DEF T
  <2>1. T \subseteq Nat
    BY DEF T
  <2>. QED
    BY <1>1, <1>2, <2>1, InductiveSetIsNat
<1>. QED
  BY <1>3

LEMMA AncestryClimbs ==
    ASSUME NEW parents
    PROVE  \E f : /\ ClimbsTo(MAX_PIDs, f, parents)
                  /\ Ancestry(parents) = f[MAX_PIDs]
<1>. DEFINE f == CHOOSE Up :
                   Up = [n \in 0 .. MAX_PIDs |->
                          [p \in Pids \cup {None} |->
                             IF n = 0 \/ p = None THEN <<>>
                                ELSE Append(Up[n - 1][parents[p]], p)]]
<1>1. Ancestry(parents) = f[MAX_PIDs]
  BY DEF Ancestry
<1>2. \E g : ClimbsTo(MAX_PIDs, g, parents)
  BY ClimbExists, ProcessAssumption
<1>3. ClimbsTo(MAX_PIDs, f, parents)
  BY <1>2 DEF ClimbsTo
<1>. QED
  BY <1>1, <1>3

-----------------------------------------------------------------------------
\* The process on top of a stack of jobs.
Top(s) == IF s = <<>> THEN None ELSE s[Len(s)]

\* A stack of jobs as the pcbs tell it: each process was started by the one
\* below it, the bottom one by none.
IsChain(s, parents) ==
    /\ s \in Seq(Pids)
    /\ \A i \in 1 .. Len(s) :
          parents[s[i]] = IF i = 1 THEN None ELSE s[i - 1]

LEMMA NoneIsNoPid == None \notin Pids
BY DEF None, Pids

\* Without its top a stack is a stack.
LEMMA FrontChain ==
    ASSUME NEW parents, NEW s, IsChain(s, parents), s # <<>>
    PROVE  LET r == SubSeq(s, 1, Len(s) - 1) IN
           /\ IsChain(r, parents)
           /\ Len(s) \in Nat \ {0}
           /\ Len(r) = Len(s) - 1
           /\ \A i \in 1 .. Len(r) : r[i] = s[i]
           /\ Top(s) \in Pids
           /\ s = Append(r, Top(s))
           /\ parents[Top(s)] = Top(r)
<1>. DEFINE r == SubSeq(s, 1, Len(s) - 1)
<1>1. /\ s \in Seq(Pids) /\ Len(s) \in Nat \ {0}
      /\ \A i \in 1 .. Len(s) : s[i] \in Pids
  BY DEF IsChain
<1>2. /\ r \in Seq(Pids) /\ Len(r) = Len(s) - 1
      /\ \A i \in 1 .. Len(r) : r[i] = s[i]
  <2>. DEFINE n == Len(s) - 1
  <2>1. n \in Int /\ n \in Nat /\ 1 \in Int /\ \A i \in 1 .. n : s[i] \in Pids
    BY <1>1
  <2>. HIDE DEF n
  <2>2. /\ SubSeq(s, 1, n) \in Seq(Pids)
        /\ Len(SubSeq(s, 1, n)) = IF 1 <= n THEN n - 1 + 1 ELSE 0
        /\ \A i \in 1 .. n - 1 + 1 : SubSeq(s, 1, n)[i] = s[1 + i - 1]
    BY <2>1, SubSeqProperties
  <2>3. Len(SubSeq(s, 1, n)) = n /\ n - 1 + 1 = n
    BY <2>1, <2>2
  <2>4. \A i \in 1 .. n : 1 + i - 1 = i
    BY <2>1
  <2>. QED
    BY <2>2, <2>3, <2>4 DEF n
<1>. HIDE DEF r
<1>3. Len(s) \in 1 .. Len(s) /\ \A i \in 1 .. Len(r) : i \in 1 .. Len(s)
  BY <1>1, <1>2
<1>4. \A i \in 1 .. Len(r) : i # 1 => i - 1 \in 1 .. Len(r)
  BY <1>2
<1>5. IsChain(r, parents)
  <2>. SUFFICES ASSUME NEW i \in 1 .. Len(r)
                PROVE  parents[r[i]] = IF i = 1 THEN None ELSE r[i - 1]
    BY <1>2 DEF IsChain
  <2>1. parents[s[i]] = IF i = 1 THEN None ELSE s[i - 1]
    BY <1>3 DEF IsChain
  <2>. QED
    BY <2>1, <1>2, <1>4
<1>6. Top(s) \in Pids /\ Top(s) = s[Len(s)]
  BY <1>1, <1>3 DEF Top
<1>7. s = Append(r, Top(s))
  <2>1. /\ Append(r, Top(s)) \in Seq(Pids)
        /\ Len(Append(r, Top(s))) = Len(r) + 1
        /\ \A i \in 1 .. Len(r) : Append(r, Top(s))[i] = r[i]
        /\ Append(r, Top(s))[Len(r) + 1] = Top(s)
    BY <1>2, <1>6, AppendProperties
  <2>2. Len(r) + 1 = Len(s) /\ \A i \in 1 .. Len(s) : i \in 1 .. Len(r) \/ i = Len(s)
    BY <1>1, <1>2
  <2>3. \A i \in 1 .. Len(s) : s[i] = Append(r, Top(s))[i]
    BY <2>1, <2>2, <1>2, <1>6
  <2>. QED
    BY <1>1, <2>1, <2>2, <2>3, SeqEqual
<1>8. parents[Top(s)] = Top(r)
  <2>1. parents[s[Len(s)]] = IF Len(s) = 1 THEN None ELSE s[Len(s) - 1]
    BY <1>3 DEF IsChain
  <2>2. CASE Len(s) = 1
    <3>1. r = <<>>
      BY <1>2, <2>2
    <3>. QED
      BY <1>6, <2>1, <2>2, <3>1 DEF Top
  <2>3. CASE Len(s) # 1
    <3>1. r # <<>> /\ Len(r) \in 1 .. Len(r)
      BY <1>1, <1>2, <2>3
    <3>2. r[Len(r)] = s[Len(s) - 1]
      BY <1>2, <3>1
    <3>. QED
      BY <1>6, <2>1, <2>3, <3>1, <3>2 DEF Top
  <2>. QED
    BY <2>2, <2>3
<1>. QED
  BY <1>1, <1>2, <1>5, <1>6, <1>7, <1>8 DEF r

\* Climbing from the top of a stack finds the stack, given parents enough.
LEMMA ClimbFindsChain ==
    ASSUME NEW parents, NEW f, NEW m \in Nat, ClimbsTo(m, f, parents)
    PROVE  \A s : IsChain(s, parents) =>
              \A n \in 0 .. m : Len(s) <= n => f[n][Top(s)] = s
<1>. DEFINE Found(s) == \A n \in 0 .. m : Len(s) <= n => f[n][Top(s)] = s
            T == {k \in Nat : \A s : IsChain(s, parents) /\ Len(s) = k => Found(s)}
<1>0. \A n \in 0 .. m : \A p \in Pids \cup {None} :
         f[n][p] = IF n = 0 \/ p = None THEN <<>>
                                        ELSE Append(f[n - 1][parents[p]], p)
  <2>. SUFFICES ASSUME NEW n \in 0 .. m, NEW p \in Pids \cup {None}
                PROVE  f[n][p] = IF n = 0 \/ p = None THEN <<>>
                                    ELSE Append(f[n - 1][parents[p]], p)
    OBVIOUS
  <2>1. f[n] = [q \in Pids \cup {None} |->
                  IF n = 0 \/ q = None THEN <<>>
                                       ELSE Append(f[n - 1][parents[q]], q)]
    BY DEF ClimbsTo
  <2>. QED
    BY <2>1
<1>1. 0 \in T
  <2>. SUFFICES ASSUME NEW s, IsChain(s, parents), Len(s) = 0, NEW n \in 0 .. m
                PROVE  f[n][Top(s)] = s
    OBVIOUS
  <2>1. s = <<>> /\ Top(s) = None
    BY DEF IsChain, Top
  <2>. QED
    BY <1>0, <2>1
<1>2. ASSUME NEW k \in T
      PROVE  k + 1 \in T
  <2>. SUFFICES ASSUME NEW s, IsChain(s, parents), Len(s) = k + 1,
                       NEW n \in 0 .. m, Len(s) <= n
                PROVE  f[n][Top(s)] = s
    OBVIOUS
  <2>. DEFINE r == SubSeq(s, 1, Len(s) - 1)
  <2>1. k \in Nat
    OBVIOUS
  <2>2. s # <<>>
    BY <2>1
  <2>3. /\ IsChain(r, parents) /\ Len(r) = Len(s) - 1 /\ Top(s) \in Pids
        /\ s = Append(r, Top(s)) /\ parents[Top(s)] = Top(r)
    BY <2>2, FrontChain
  <2>. HIDE DEF r
  <2>4. Len(r) = k /\ n - 1 \in 0 .. m /\ Len(r) <= n - 1 /\ n # 0
    BY <2>1, <2>3
  <2>5. f[n - 1][Top(r)] = r
    BY <2>3, <2>4
  <2>6. f[n][Top(s)] = Append(f[n - 1][parents[Top(s)]], Top(s))
    BY <1>0, <2>3, <2>4, NoneIsNoPid
  <2>. QED
    BY <2>3, <2>5, <2>6
<1>3. T = Nat
  <2>. HIDE DEF T
  <2>1. T \subseteq Nat
    BY DEF T
  <2>. QED
    BY <1>1, <1>2, <2>1, InductiveSetIsNat
<1>. SUFFICES ASSUME NEW s, IsChain(s, parents)
              PROVE  Found(s)
  OBVIOUS
<1>4. Len(s) \in T
  BY <1>3 DEF IsChain
<1>. HIDE DEF Found
<1>. QED
  BY <1>4
-----------------------------------------------------------------------------
\* jobs is the terminals' stacks of live processes, tops the processes on top,
\* and no process is in two places.
IsJobTable(jobs, tops, parents, live) ==
    /\ jobs \in [Terms -> Seq(Pids)]
    /\ \A t \in Terms :
          /\ IsChain(jobs[t], parents)
          /\ tops[t] = Top(jobs[t])
          /\ \A i \in 1 .. Len(jobs[t]) : jobs[t][i] \in live
    /\ \A t, u \in Terms : \A i \in 1 .. Len(jobs[t]), j \in 1 .. Len(jobs[u]) :
          jobs[t][i] = jobs[u][j] => t = u /\ i = j

\* No stack is higher than there are slots.
LEMMA ChainFits ==
    ASSUME NEW s \in Seq(Pids), \A i, j \in 1 .. Len(s) : s[i] = s[j] => i = j
    PROVE  Len(s) <= MAX_PIDs
<1>1. IsFiniteSet(Pids) /\ Cardinality(Pids) = MAX_PIDs
  BY ProcessAssumption, FS_Interval DEF Pids
<1>2. Len(s) \in Nat /\ s \in [1 .. Len(s) -> Pids]
  OBVIOUS
<1>3. IsFiniteSet(1 .. Len(s)) /\ Cardinality(1 .. Len(s)) = Len(s)
  BY <1>2, FS_Interval
<1>4. s \in Injection(1 .. Len(s), Pids)
  BY <1>2 DEF Injection, IsInjective
<1>. QED
  BY <1>1, <1>3, <1>4, FS_Injection

\* The stacks of a table are those the mapping of MCProcess reads.
LEMMA TableIsMapped ==
    ASSUME NEW jobs, NEW tops, NEW parents, NEW live,
           IsJobTable(jobs, tops, parents, live)
    PROVE  JobsOf(tops, parents) = jobs
<1>1. PICK f : ClimbsTo(MAX_PIDs, f, parents) /\ Ancestry(parents) = f[MAX_PIDs]
  BY AncestryClimbs
<1>2. MAX_PIDs \in Nat /\ MAX_PIDs \in 0 .. MAX_PIDs
  BY ProcessAssumption
<1>3. ASSUME NEW t \in Terms
      PROVE  Ancestry(parents)[tops[t]] = jobs[t]
  <2>1. /\ IsChain(jobs[t], parents) /\ tops[t] = Top(jobs[t])
        /\ \A i, j \in 1 .. Len(jobs[t]) : jobs[t][i] = jobs[t][j] => i = j
        /\ jobs[t] \in Seq(Pids)
    BY DEF IsJobTable
  <2>2. Len(jobs[t]) <= MAX_PIDs
    BY <2>1, ChainFits
  <2>. QED
    BY <1>1, <1>2, <2>1, <2>2, ClimbFindsChain
<1>4. jobs = [t \in Terms |-> jobs[t]]
  BY DEF IsJobTable
<1>. QED
  BY <1>3, <1>4 DEF JobsOf

\* A table only says what the pids, the parents and the live processes are.
LEMMA TableKept ==
    ASSUME NEW jobs, NEW tops, NEW parents, NEW live,
           NEW topsN, NEW parentsN, NEW liveN,
           IsJobTable(jobs, tops, parents, live),
           \A t \in Terms : topsN[t] = tops[t],
           \A q \in Pids : parentsN[q] = parents[q],
           \A q \in Pids : q \in live => q \in liveN
    PROVE  IsJobTable(jobs, topsN, parentsN, liveN)
<1>1. \A t \in Terms : \A i \in 1 .. Len(jobs[t]) : jobs[t][i] \in Pids
  BY DEF IsJobTable
<1>2. \A t \in Terms : IsChain(jobs[t], parentsN)
  BY <1>1 DEF IsJobTable, IsChain
<1>3. \A t \in Terms : \A i \in 1 .. Len(jobs[t]) : jobs[t][i] \in liveN
  BY <1>1 DEF IsJobTable
<1>. QED
  BY <1>2, <1>3 DEF IsJobTable

\* A process started in t goes on top of t's stack.
LEMMA TableStarted ==
    ASSUME NEW jobs, NEW tops, NEW parents, NEW live,
           NEW topsN, NEW parentsN, NEW liveN,
           IsJobTable(jobs, tops, parents, live),
           NEW t \in Terms, NEW p \in Pids, p \notin live,
           topsN[t] = p,
           \A u \in Terms \ {t} : topsN[u] = tops[u],
           parentsN[p] = tops[t],
           \A q \in Pids \ {p} : parentsN[q] = parents[q],
           p \in liveN, \A q \in Pids : q \in live => q \in liveN
    PROVE  IsJobTable([jobs EXCEPT ![t] = Append(@, p)], topsN, parentsN, liveN)
<1>. DEFINE s == Append(jobs[t], p)
            jobsN == [jobs EXCEPT ![t] = Append(@, p)]
<1>1. /\ \A u \in Terms : /\ jobs[u] \in Seq(Pids) /\ Len(jobs[u]) \in Nat
                          /\ \A i \in 1 .. Len(jobs[u]) :
                                jobs[u][i] \in Pids /\ jobs[u][i] # p
  BY DEF IsJobTable
<1>2. /\ s \in Seq(Pids) /\ s # <<>> /\ Len(s) = Len(jobs[t]) + 1
      /\ \A i \in 1 .. Len(jobs[t]) : s[i] = jobs[t][i]
      /\ s[Len(jobs[t]) + 1] = p
  BY <1>1, AppendProperties
<1>3. jobsN \in [Terms -> Seq(Pids)] /\ jobsN[t] = s
      /\ \A u \in Terms \ {t} : jobsN[u] = jobs[u]
  BY <1>2 DEF IsJobTable
<1>. HIDE DEF s, jobsN
<1>4. \A i \in 1 .. Len(s) : i \in 1 .. Len(jobs[t]) \/ i = Len(jobs[t]) + 1
  BY <1>1, <1>2
<1>5. \A u \in Terms \ {t} : IsChain(jobs[u], parentsN)
  BY <1>1 DEF IsJobTable, IsChain
<1>6. IsChain(s, parentsN)
  <2>. SUFFICES ASSUME NEW i \in 1 .. Len(s)
                PROVE  parentsN[s[i]] = IF i = 1 THEN None ELSE s[i - 1]
    BY <1>2 DEF IsChain
  <2>1. CASE i \in 1 .. Len(jobs[t])
    <3>1. parents[jobs[t][i]] = IF i = 1 THEN None ELSE jobs[t][i - 1]
      BY <2>1 DEF IsJobTable, IsChain
    <3>2. i # 1 => i - 1 \in 1 .. Len(jobs[t])
      BY <2>1, <1>1
    <3>. QED
      BY <1>1, <1>2, <2>1, <3>1, <3>2
  <2>2. CASE i = Len(jobs[t]) + 1
    <3>1. tops[t] = IF Len(jobs[t]) = 0 THEN None ELSE jobs[t][Len(jobs[t])]
      BY <1>1 DEF IsJobTable, Top
    <3>2. Len(jobs[t]) # 0 => Len(jobs[t]) \in 1 .. Len(jobs[t])
      BY <1>1
    <3>. QED
      BY <1>1, <1>2, <2>2, <3>1, <3>2
  <2>. QED
    BY <1>4, <2>1, <2>2
<1>7. Top(s) = p
  BY <1>2 DEF Top
<1>8. \A u \in Terms : \A i \in 1 .. Len(jobsN[u]) :
         jobsN[u][i] \in liveN
  <2>. SUFFICES ASSUME NEW u \in Terms, NEW i \in 1 .. Len(jobsN[u])
                PROVE  jobsN[u][i] \in liveN
    OBVIOUS
  <2>0. \A v \in Terms : \A k \in 1 .. Len(jobs[v]) : jobs[v][k] \in liveN
    BY <1>1 DEF IsJobTable
  <2>1. CASE u = t
    BY <2>0, <2>1, <1>2, <1>3, <1>4
  <2>2. CASE u # t
    BY <2>0, <2>2, <1>3
  <2>. QED
    BY <2>1, <2>2
<1>9. \A u, v \in Terms : \A i \in 1 .. Len(jobsN[u]), j \in 1 .. Len(jobsN[v]) :
         jobsN[u][i] = jobsN[v][j] => u = v /\ i = j
  <2>. SUFFICES ASSUME NEW u \in Terms, NEW v \in Terms,
                       NEW i \in 1 .. Len(jobsN[u]), NEW j \in 1 .. Len(jobsN[v]),
                       jobsN[u][i] = jobsN[v][j]
                PROVE  u = v /\ i = j
    OBVIOUS
  <2>. DEFINE Old(w, k) == k \in 1 .. Len(jobs[w]) /\ jobsN[w][k] = jobs[w][k]
              New(w, k) == w = t /\ k = Len(jobs[t]) + 1 /\ jobsN[w][k] = p
  <2>1. (Old(u, i) \/ New(u, i)) /\ (Old(v, j) \/ New(v, j))
    BY <1>2, <1>3, <1>4
  <2>2. CASE Old(u, i) /\ Old(v, j)
    <3>1. jobs[u][i] = jobs[v][j] /\ i \in 1 .. Len(jobs[u]) /\ j \in 1 .. Len(jobs[v])
      BY <2>2
    <3>. QED
      BY <3>1 DEF IsJobTable
  <2>3. CASE New(u, i) /\ New(v, j)
    BY <2>3
  <2>4. CASE Old(u, i) /\ New(v, j)
    BY <1>1, <2>4
  <2>5. CASE New(u, i) /\ Old(v, j)
    BY <1>1, <2>5
  <2>. QED
    BY <2>1, <2>2, <2>3, <2>4, <2>5
<1>10. \A u \in Terms : IsChain(jobsN[u], parentsN) /\ topsN[u] = Top(jobsN[u])
  BY <1>3, <1>5, <1>6, <1>7 DEF IsJobTable
<1>11. IsJobTable(jobsN, topsN, parentsN, liveN)
  BY <1>3, <1>8, <1>9, <1>10 DEF IsJobTable
<1>. QED
  BY <1>11 DEF jobsN

\* The process on top of t's stack ends and the one below it is on top.
Pops(t, tops, parents, live, topsN, parentsN, liveN) ==
    /\ topsN[t] = parents[tops[t]]
    /\ \A u \in Terms \ {t} : topsN[u] = tops[u]
    /\ \A q \in Pids : parentsN[q] = parents[q]
    /\ \A q \in Pids : q \in live /\ q # tops[t] => q \in liveN

\* A process that ends leaves the top of its stack.
LEMMA TableEnded ==
    ASSUME NEW jobs, NEW tops, NEW parents, NEW live,
           NEW topsN, NEW parentsN, NEW liveN,
           IsJobTable(jobs, tops, parents, live),
           NEW t \in Terms, jobs[t] # <<>>,
           Pops(t, tops, parents, live, topsN, parentsN, liveN)
    PROVE  IsJobTable([jobs EXCEPT ![t] = SubSeq(@, 1, Len(@) - 1)],
                      topsN, parentsN, liveN)
<1>. USE DEF Pops
<1>. DEFINE r == SubSeq(jobs[t], 1, Len(jobs[t]) - 1)
            jobsN == [jobs EXCEPT ![t] = SubSeq(@, 1, Len(@) - 1)]
<1>1. /\ IsChain(jobs[t], parents) /\ tops[t] = Top(jobs[t])
      /\ jobs[t] \in Seq(Pids)
  BY DEF IsJobTable
<1>2. /\ IsChain(r, parents) /\ Len(jobs[t]) \in Nat \ {0}
      /\ Len(r) = Len(jobs[t]) - 1
      /\ \A i \in 1 .. Len(r) : r[i] = jobs[t][i]
      /\ parents[Top(jobs[t])] = Top(r)
  BY <1>1, FrontChain
<1>3. /\ jobsN \in [Terms -> Seq(Pids)] /\ jobsN[t] = r
      /\ \A u \in Terms \ {t} : jobsN[u] = jobs[u]
  BY <1>2 DEF IsJobTable, IsChain
<1>. HIDE DEF r, jobsN
<1>4. tops[t] = jobs[t][Len(jobs[t])] /\ Len(jobs[t]) \in 1 .. Len(jobs[t])
  BY <1>1, <1>2 DEF Top
<1>5. \A u \in Terms : \A i \in 1 .. Len(jobsN[u]) :
         /\ i \in 1 .. Len(jobs[u]) /\ jobsN[u][i] = jobs[u][i]
         /\ jobs[u][i] # tops[t] /\ jobs[u][i] \in Pids
  <2>. SUFFICES ASSUME NEW u \in Terms, NEW i \in 1 .. Len(jobsN[u])
                PROVE  /\ i \in 1 .. Len(jobs[u]) /\ jobsN[u][i] = jobs[u][i]
                       /\ jobs[u][i] # tops[t] /\ jobs[u][i] \in Pids
    OBVIOUS
  <2>1. i \in 1 .. Len(jobs[u]) /\ jobsN[u][i] = jobs[u][i]
        /\ ~(u = t /\ i = Len(jobs[t]))
    <3>1. CASE u = t
      BY <3>1, <1>2, <1>3
    <3>2. CASE u # t
      BY <3>2, <1>3
    <3>. QED
      BY <3>1, <3>2
  <2>2. jobs[u][i] # jobs[t][Len(jobs[t])]
    BY <2>1, <1>4 DEF IsJobTable
  <2>. QED
    BY <2>1, <2>2, <1>4 DEF IsJobTable
<1>6. \A u \in Terms : IsChain(jobsN[u], parents) /\ topsN[u] = Top(jobsN[u])
  BY <1>1, <1>2, <1>3 DEF IsJobTable
<1>7. \A u \in Terms : IsChain(jobsN[u], parentsN)
  BY <1>3, <1>6 DEF IsChain
<1>8. \A u \in Terms : \A i \in 1 .. Len(jobsN[u]) : jobsN[u][i] \in liveN
  BY <1>5 DEF IsJobTable
<1>9. \A u, v \in Terms : \A i \in 1 .. Len(jobsN[u]), j \in 1 .. Len(jobsN[v]) :
         jobsN[u][i] = jobsN[v][j] => u = v /\ i = j
  BY <1>5 DEF IsJobTable
<1>10. IsJobTable(jobsN, topsN, parentsN, liveN)
  BY <1>3, <1>6, <1>7, <1>8, <1>9 DEF IsJobTable
<1>. QED
  BY <1>10 DEF jobsN
-----------------------------------------------------------------------------
LiveProcesses == {p \in Pids : Live(p)}

\* The job stacks MCProcess reads from the process table are a table.
JobsInv == IsJobTable(JobsOf(term_pid, parent_id), term_pid, parent_id,
                      LiveProcesses)

LEMMA JobsInit ==
    ASSUME Init
    PROVE  JobsInv /\ JobStacks!Init
<1>. DEFINE jobs == [t \in Terms |-> <<>>]
<1>1. <<>> \in Seq(Pids) /\ Len(<<>>) = 0
  OBVIOUS
<1>2. \A t \in Terms : jobs[t] = <<>> /\ term_pid[t] = None
  BY DEF Init
<1>3. jobs \in [Terms -> Seq(Pids)]
  BY <1>1
<1>. HIDE DEF jobs
<1>4. IsJobTable(jobs, term_pid, parent_id, LiveProcesses)
  BY <1>1, <1>2, <1>3 DEF IsJobTable, IsChain, Top
<1>5. JobsOf(term_pid, parent_id) = jobs
  BY <1>4, TableIsMapped
<1>6. scheduled_term \in 0 .. NUM_TTYS - 1
  BY ProcessAssumption DEF Init, InitialTerm
<1>. QED
  BY <1>4, <1>5, <1>6 DEF jobs, JobsInv, JobStacks!Init, JobStacks!Terminals, Terms

\* A step that leaves pids, parents and live processes alone keeps the stacks.
LEMMA JobsKept ==
    ASSUME JobsInv,
           \A t \in Terms : term_pid'[t] = term_pid[t],
           \A q \in Pids : parent_id'[q] = parent_id[q],
           \A q \in Pids : Live(q)' <=> Live(q)
    PROVE  /\ JobsInv'
           /\ JobsOf(term_pid', parent_id') = JobsOf(term_pid, parent_id)
<1>. DEFINE jobs == JobsOf(term_pid, parent_id)
<1>1. IsJobTable(jobs, term_pid, parent_id, LiveProcesses)
  BY DEF JobsInv
<1>2. \A q \in Pids : q \in LiveProcesses => q \in LiveProcesses'
  BY DEF LiveProcesses
<1>. HIDE DEF jobs
<1>3. IsJobTable(jobs, term_pid', parent_id', LiveProcesses')
  BY <1>1, <1>2, TableKept
<1>4. JobsOf(term_pid', parent_id') = jobs
  BY <1>3, TableIsMapped
<1>. QED
  BY <1>3, <1>4 DEF JobsInv, jobs

\* A process that joins the live ones is started on the running terminal's stack.
LEMMA JobsStarted ==
    ASSUME Inv, JobsInv, NEW new \in Pids, ~Live(new),
           AllLaunched \/ term_pid[scheduled_term] = None,
           \A p \in Pids : Live(p)' <=> (Live(p) \/ p = new),
           \A p \in Pids \ {new} : parent_id'[p] = parent_id[p],
           parent_id'[new] = term_pid[scheduled_term],
           term_pid'[scheduled_term] = new,
           \A t \in Terms \ {scheduled_term} : term_pid'[t] = term_pid[t],
           scheduled_term' = scheduled_term
    PROVE  JobsInv' /\ JobStacks!Start(new)
<1>0. PICK u : u = scheduled_term
  OBVIOUS
<1>. DEFINE jobs == JobsOf(term_pid, parent_id)
            jobsN == [jobs EXCEPT ![u] = Append(@, new)]
<1>1. IsJobTable(jobs, term_pid, parent_id, LiveProcesses)
  BY DEF JobsInv
<1>2. /\ new \notin LiveProcesses /\ new \in LiveProcesses' /\ u \in Terms
      /\ \A q \in Pids : q \in LiveProcesses => q \in LiveProcesses'
  BY <1>0 DEF LiveProcesses, Inv, TypeOK
<1>. HIDE DEF jobs
<1>3. IsJobTable(jobsN, term_pid', parent_id', LiveProcesses')
  BY <1>0, <1>1, <1>2, TableStarted
<1>4. JobsOf(term_pid', parent_id') = jobsN
  BY <1>3, TableIsMapped
<1>5. \A t \in Terms : new \notin JobStacks!ToSet(jobs[t])
  <2>1. \A t \in Terms : DOMAIN jobs[t] = 1 .. Len(jobs[t])
    BY <1>1 DEF IsJobTable
  <2>. QED
    BY <1>1, <1>2, <2>1 DEF IsJobTable, JobStacks!ToSet
<1>6. jobs[u] = <<>> \/ \A t \in Terms : jobs[t] # <<>>
  <2>1. \A t \in Terms : jobs[t] = <<>> <=> term_pid[t] = None
    <3>1. \A t \in Terms : jobs[t] \in Seq(Pids) /\ term_pid[t] = Top(jobs[t])
      BY <1>1 DEF IsJobTable
    <3>2. \A s \in Seq(Pids) : s = <<>> <=> Top(s) = None
      <4>. SUFFICES ASSUME NEW s \in Seq(Pids), s # <<>>
                    PROVE  Top(s) # None
        BY DEF Top
      <4>1. s[Len(s)] \in Pids
        OBVIOUS
      <4>. QED
        BY <4>1, NoneIsNoPid DEF Top
    <3>. QED
      BY <3>1, <3>2
  <2>. QED
    BY <1>0, <1>2, <2>1 DEF AllLaunched
<1>7. JobsInv'
  BY <1>3, <1>4 DEF JobsInv
<1>8. JobStacks!Terminals = Terms
  BY DEF JobStacks!Terminals, Terms
<1>9. JobStacks!Start(new)
  BY <1>0, <1>4, <1>5, <1>6, <1>8 DEF jobs, JobStacks!Start, JobStacks!Unused
<1>. QED
  BY <1>7, <1>9

\* The child that halts is popped from the running terminal's stack.
LEMMA JobsEnded ==
    ASSUME Inv, JobsInv, HaltChild
    PROVE  JobsInv' /\ JobStacks!End
<1>0. PICK u, p : u = scheduled_term /\ p = term_pid[scheduled_term]
  OBVIOUS
<1>. DEFINE jobs == JobsOf(term_pid, parent_id)
            jobsN == [jobs EXCEPT ![u] = SubSeq(@, 1, Len(@) - 1)]
<1>1. IsJobTable(jobs, term_pid, parent_id, LiveProcesses)
  BY DEF JobsInv
<1>2. /\ u \in Terms /\ p \in Pids /\ parent_id[p] \in Pids
      /\ term_pid'[u] = parent_id[p] /\ parent_id' = parent_id
      /\ \A t \in Terms \ {u} : term_pid'[t] = term_pid[t]
      /\ \A q \in Pids : Live(q)' <=> (Live(q) /\ q # p)
  BY <1>0, ChildEnds
<1>3. \A q \in Pids : q \in LiveProcesses /\ q # p => q \in LiveProcesses'
  BY <1>2 DEF LiveProcesses
<1>. HIDE DEF jobs
<1>4. /\ jobs[u] \in Seq(Pids) /\ term_pid[u] = p /\ p = Top(jobs[u])
      /\ IsChain(jobs[u], parent_id)
  BY <1>0, <1>1, <1>2 DEF IsJobTable
<1>5. jobs[u] # <<>>
  BY <1>2, <1>4, NoneIsNoPid DEF Top
<1>6. IsJobTable(jobsN, term_pid', parent_id', LiveProcesses')
  <2>1. Pops(u, term_pid, parent_id, LiveProcesses,
             term_pid', parent_id', LiveProcesses')
    BY <1>2, <1>3, <1>4 DEF Pops
  <2>. QED
    BY <1>1, <1>2, <1>5, <2>1, TableEnded
<1>7. JobsOf(term_pid', parent_id') = jobsN
  BY <1>6, TableIsMapped
<1>8. Len(jobs[u]) > 1
  <2>1. Len(jobs[u]) \in Nat /\ Len(jobs[u]) # 0
    BY <1>4, <1>5
  <2>2. p = jobs[u][Len(jobs[u])]
    BY <1>4, <1>5 DEF Top
  <2>3. Len(jobs[u]) = 1 => parent_id[p] = None
    BY <1>4, <2>2 DEF IsChain
  <2>4. Len(jobs[u]) # 1
    BY <1>2, <2>3, NoneIsNoPid
  <2>5. \A n \in Nat : n # 0 /\ n # 1 => n > 1
    OBVIOUS
  <2>. QED
    BY <2>1, <2>4, <2>5
<1>9. JobsInv'
  BY <1>6, <1>7 DEF JobsInv
<1>10. JobStacks!End
  BY <1>0, <1>7, <1>8 DEF jobs, JobStacks!End, JobStacks!Front, HaltChild
<1>. QED
  BY <1>9, <1>10

\* The timer neither takes off nor resumes a shell that is restarting.
LEMMA TickContext ==
    ASSUME Inv, Calm, TickResume \/ TickBoot
    PROVE  cpu.pc # "restart" /\ cpu'.pc # "restart"
<1>1. SwitchOut /\ cpu.pc # "restart"
  BY DEF TickResume, TickBoot, SwitchOut, Calm
<1>2. CASE TickBoot
  BY <1>1, <1>2 DEF TickBoot
<1>3. CASE TickResume
  <2>1. NextTerm \in Terms /\ term_pid[NextTerm] # None
        /\ cpu' = scheduled_ctx'[term_pid[NextTerm]]
    BY <1>3, NextTermType DEF TickResume, Inv
  <2>. QED
    BY <1>1, <2>1, SwitchStep
<1>. QED
  BY <1>1, <1>2, <1>3

LEMMA JobsStep ==
    ASSUME Inv, Calm, JobsInv, [Next]_vars
    PROVE  JobsInv' /\ [JobStacks!Next]_(JobStacks!vars)
<1>1. CASE Execute
  <2>. PICK new \in Pids : Launch("entry")!(new)
    BY <1>1 DEF Execute, Launch
  <2>1. scheduled_term' = scheduled_term
    OBVIOUS
  <2>2. /\ ~Live(new) /\ AllLaunched
        /\ \A p \in Pids : Live(p)' <=> (Live(p) \/ p = new)
        /\ \A p \in Pids \ {new} : parent_id'[p] = parent_id[p]
        /\ parent_id'[new] = term_pid[scheduled_term]
        /\ term_pid'[scheduled_term] = new
        /\ \A t \in Terms \ {scheduled_term} : term_pid'[t] = term_pid[t]
    BY <1>1, ExecuteStarts
  <2>3. JobsInv' /\ JobStacks!Start(new)
    BY <2>1, <2>2, JobsStarted
  <2>. QED
    BY <2>3 DEF JobStacks!Next
<1>2. CASE BootShell
  <2>. PICK new \in Pids : Launch("bootEntry")!(new)
    BY <1>2 DEF BootShell, Launch
  <2>1. scheduled_term' = scheduled_term
    OBVIOUS
  <2>2. /\ ~Live(new) /\ term_pid[scheduled_term] = None
        /\ \A p \in Pids : Live(p)' <=> (Live(p) \/ p = new)
        /\ \A p \in Pids \ {new} : parent_id'[p] = parent_id[p]
        /\ parent_id'[new] = term_pid[scheduled_term]
        /\ term_pid'[scheduled_term] = new
        /\ \A t \in Terms \ {scheduled_term} : term_pid'[t] = term_pid[t]
    BY <1>2, BootStarts
  <2>3. JobsInv' /\ JobStacks!Start(new)
    BY <2>1, <2>2, JobsStarted
  <2>. QED
    BY <2>3 DEF JobStacks!Next
<1>3. CASE RestartShell
  <2>. PICK new \in Pids : Launch("entry")!(new)
    BY <1>3 DEF RestartShell, Launch
  <2>1. scheduled_term' = scheduled_term
    OBVIOUS
  <2>2. /\ \A t \in Terms : term_pid'[t] = term_pid[t]
        /\ \A q \in Pids : parent_id'[q] = parent_id[q]
        /\ \A q \in Pids : Live(q)' <=> Live(q)
    BY <1>3, ShellRestarts
  <2>. QED
    BY <2>1, <2>2, JobsKept DEF JobStacks!vars
<1>4. CASE EnterUser
  <2>1. \A q \in Pids : Live(q)' <=> Live(q)
    BY <1>4 DEF EnterUser, Live, Inv, TypeOK, Contexts
  <2>. QED
    BY <1>4, <2>1, JobsKept DEF EnterUser, JobStacks!vars
<1>5. CASE HaltRoot
  <2>1. \A q \in Pids : Live(q)' <=> Live(q)
    BY <1>5, HaltRootLive
  <2>. QED
    BY <1>5, <2>1, JobsKept DEF HaltRoot, JobStacks!vars
<1>6. CASE HaltChild
  BY <1>6, JobsEnded DEF JobStacks!Next
<1>7. CASE TickResume \/ TickBoot
  <2>1. \A q \in Pids : Live(q)' <=> Live(q)
    <3>1. cpu.pc # "restart" /\ cpu'.pc # "restart"
      BY <1>7, TickContext
    <3>. QED
      BY <1>7, <3>1 DEF Live, TickResume, TickBoot
  <2>2. /\ term_pid' = term_pid /\ parent_id' = parent_id
        /\ scheduled_term' = NextTerm
    BY <1>7 DEF TickResume, TickBoot, SwitchOut
  <2>. QED
    BY <2>1, <2>2, JobsKept DEF JobStacks!Next, JobStacks!Yield, NextTerm
<1>8. CASE UNCHANGED vars
  <2>1. \A q \in Pids : Live(q)' <=> Live(q)
    BY <1>8 DEF vars, Live
  <2>. QED
    BY <1>8, <2>1, JobsKept DEF vars, JobStacks!vars
<1>. QED
  BY <1>1, <1>2, <1>3, <1>4, <1>5, <1>6, <1>7, <1>8 DEF Next

\* The process table implements job stacks for every number of terminals and
\* slots: execute pushes, halt pops, a restarting shell stays where it is, and
\* no step of one terminal moves a process of another.
THEOREM ProcessTableIsJobStacks ==
    ASSUME Calm
    PROVE  Spec => ImplementsJobs
<1>1. Init => Inv /\ JobsInv /\ JobStacks!Init
  BY InvInit, JobsInit
<1>2. Inv /\ JobsInv /\ [Next]_vars =>
         Inv' /\ JobsInv' /\ [JobStacks!Next]_(JobStacks!vars)
  BY InvStep, JobsStep
<1>. QED
  BY <1>1, <1>2, PTL DEF Spec, ImplementsJobs, JobStacks!Spec
=============================================================================
