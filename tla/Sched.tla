------------------------------- MODULE Sched -------------------------------
(***************************************************************************)
(* The SMP thread scheduler of the Archipelago kernel: one run queue under *)
(* g_sched_lock, context switches with the on_cpu hand-over, preemption by *)
(* ticks and reschedule IPIs, wait queues with on-stack nodes, sleeping,   *)
(* timed waits, task kill, thread exit and the reaper.                     *)
(*                                                                         *)
(* The actor is a core.  cpc[c] says where core c is outside of thread     *)
(* code (mid-switch or in an interrupt); when cpc[c] = "run" the core      *)
(* executes the code of current[c] at pc[current[c]].  A section under     *)
(* g_sched_lock or a queue's m_lock is one step, except the expiry scans   *)
(* of the tick, which hold g_sched_lock over several.                      *)
(***************************************************************************)
EXTENDS Naturals, Sequences, FiniteSets

CONSTANTS
    Core,       \* core indices; core c's idle thread is also called c
    BootCore,   \* the core whose tick advances kernel time
    User,       \* threads of user tasks (one per task); the only killable ones
    Kernel,     \* kernel threads other than the reaper and the idle threads
    reaper,     \* the reaper thread; also the name of g_reaper_wq
    Event,      \* objects that are not threads
    Bits,       \* signal bits
    TERMINATED, \* Thread::SIGNAL_TERMINATED
    TIMESLICE,  \* CONFIG_SCHED_TIMESLICE_TICKS
    WAKE_BATCH, \* capacity of wake_matching's batch
    MaxDelay,   \* longest sleep or timeout, in ticks
    UserOps,    \* the operations user threads may start ...
    KernelOps,  \* ... and those kernel threads may start
    Watched,    \* the objects they may wait on
    RefusedIrq, \* may an interrupt arrive in the window block_if's refusal opens
    none        \* no thread, no core, no object

Thread == Core \cup User \cup Kernel \cup {reaper}
Spawned == User \cup Kernel \cup {reaper}
Obj == Event \cup User \cup Kernel

ASSUME CoreAssumption == Core \subseteq Nat /\ BootCore \in Core
ASSUME DisjointAssumption ==
    /\ Core \cap User = {} /\ Core \cap Kernel = {} /\ User \cap Kernel = {}
    /\ reaper \notin Core \cup User \cup Kernel \cup Event
    /\ Event \cap (Core \cup User \cup Kernel) = {}
    /\ none \notin Thread \cup Event
ASSUME SizeAssumption ==
    /\ TERMINATED \in Bits /\ Watched \subseteq Obj
    /\ TIMESLICE \in Nat \ {0} /\ WAKE_BATCH \in Nat \ {0} /\ MaxDelay \in Nat
    /\ RefusedIrq \in BOOLEAN

VARIABLES
    current,   \* [Core -> Thread]: cpu_sched::current
    next,      \* [Core -> Thread or none]: the pick a switch_to is about to install
    outgoing,  \* [Core -> Thread or none]: cpu_sched::previous until finish_switch
    cpc,       \* [Core -> "run" | "switch" | "finish" | "tick" | "scan" | "service"]
    pending,   \* [Core -> BOOLEAN]: execution_context::preempt_pending
    lock,      \* core that holds g_sched_lock over several steps, or none
    scan,      \* g_sleepers and g_timed_waits entries the tick has yet to visit
    runq,      \* g_run_queue
    zombies,   \* g_zombies
    sleepers,  \* g_sleepers, by thread
    timed,     \* g_timed_waits, by waiting thread
    timer,     \* [Thread -> 0..MaxDelay]: ticks left to wake_at or the deadline
    state,     \* Thread::m_state
    on_cpu,    \* Thread::m_on_cpu
    killed,    \* Thread::m_killed
    slice,     \* Thread::m_slice
    pc,        \* where the thread's own code stands
    masked,    \* kernel threads left with interrupts off by block_if
    req,       \* the wait a thread is in: object, mask, has a deadline
    waitq,     \* the queue whose list holds the thread's wait node, or none
    sig,       \* Object::m_signals
    wake,      \* the wake_matching a thread is in: object and signals read
    batch,     \* threads whose node a waker took, not yet made ready
    corpse,    \* the zombie the reaper is reaping, or none
    reaped     \* threads whose stack has been returned

cpuVars == <<current, next, outgoing, cpc, pending>>
lockVars == <<lock, scan>>
timeVars == <<sleepers, timed, timer>>
waitVars == <<req, waitq, sig, wake, batch>>
threadVars == <<state, on_cpu, slice>>
reapVars == <<zombies, corpse, reaped>>
vars == <<cpuVars, lockVars, runq, timeVars, threadVars, killed, pc,
          masked, waitVars, reapVars>>

NoReq == [obj |-> none, mask |-> {}, timed |-> FALSE]
NoWake == [obj |-> none, signals |-> {}]

----------------------------------------------------------------------------
(* Queues, picking and waking.                                             *)

Idle(c) == current[c] = c

\* Mutant: the front thread is taken although a core is still switching away from it.
PickableOnCpu == {i \in 1..Len(runq) : i = 1}
\* The position of the run queue pop_locked takes: the first thread that is not on
\* a core, if there is one.
Pickable == {i \in 1..Len(runq) :
                ~on_cpu[runq[i]] /\ \A j \in 1..(i - 1) : on_cpu[runq[j]]}
\* Mutant: the picked thread is left in the queue.
AfterPickKept(i) == runq
\* The queue afterwards: the threads passed over rotate to the back.
AfterPick(i) == SubSeq(runq, i + 1, Len(runq)) \o SubSeq(runq, 1, i - 1)

\* make_ready_locked(s)
MakeReady(s) ==
    /\ state' = [state EXCEPT ![s] = "READY"]
    /\ runq' = Append(runq, s)

\* The code a user thread returns to after an operation is the kill boundary
\* of syscall_dispatch; a kernel thread just goes on.
Return(t) == IF t \in User THEN "boundary" ELSE "run"

\* Thread t may start operation op.
May(t, op) == \/ t \in User /\ op \in UserOps
              \/ t \in Kernel /\ op \in KernelOps

At(c, p) == cpc[c] = "run" /\ pc[current[c]] = p
Goto(t, p) == pc' = [pc EXCEPT ![t] = p]
Unlocked == lock = none

\* Interrupts reach user code, the idle loop and whatever a kernel thread does
\* outside irq-off sections.  System calls run with interrupts masked.
IrqOnPoints == {"run", "critical", "enable", "check", "register", "block",
                "refused", "unregister", "load", "scan", "batch", "more", "reap"}
Interruptible(c) ==
    LET t == current[c]
    IN /\ cpc[c] = "run"
       /\ pc[t] \in (IF t \in User THEN {"run"} ELSE IrqOnPoints)
       /\ ~masked[t]
       /\ pc[t] = "refused" => RefusedIrq
       /\ state[t] # "DEAD"

----------------------------------------------------------------------------
(* After sched::init and join_secondary: every core runs its idle thread   *)
(* and the reaper has been spawned.                                        *)

Init ==
    /\ current = [c \in Core |-> c]
    /\ next = [c \in Core |-> none]
    /\ outgoing = [c \in Core |-> none]
    /\ cpc = [c \in Core |-> "run"]
    /\ pending = [c \in Core |-> FALSE]
    /\ lock = none /\ scan = {}
    /\ runq = <<reaper>>
    /\ sleepers = {} /\ timed = {} /\ timer = [t \in Thread |-> 0]
    /\ state = [t \in Thread |-> IF t \in Core THEN "RUNNING" ELSE "READY"]
    /\ on_cpu = [t \in Thread |-> t \in Core]
    /\ slice = [t \in Thread |-> TIMESLICE]
    /\ killed = [t \in Thread |-> FALSE]
    /\ pc = [t \in Thread |-> IF t \in User \cup Kernel THEN "new" ELSE "run"]
    /\ masked = [t \in Thread |-> FALSE]
    /\ req = [t \in Thread |-> NoReq]
    /\ waitq = [t \in Thread |-> none]
    /\ sig = [o \in Obj |-> {}]
    /\ wake = [t \in Thread |-> NoWake]
    /\ batch = [t \in Thread |-> {}]
    /\ zombies = <<>> /\ corpse = none /\ reaped = {}

----------------------------------------------------------------------------
(* Switching.                                                              *)

\* The locked half of switch_to.
SwitchTo(c) ==
    LET out == current[c]
        in == next[c]
    IN /\ cpc[c] = "switch" /\ Unlocked
       /\ state' = [state EXCEPT ![out] = IF @ = "RUNNING" THEN "READY" ELSE @,
                                 ![in] = "RUNNING"]
       /\ slice' = [slice EXCEPT ![in] = TIMESLICE]
       /\ on_cpu' = [on_cpu EXCEPT ![in] = TRUE]
       /\ current' = [current EXCEPT ![c] = in]
       /\ outgoing' = [outgoing EXCEPT ![c] = out]
       /\ next' = [next EXCEPT ![c] = none]
       /\ cpc' = [cpc EXCEPT ![c] = "finish"]
       /\ UNCHANGED <<pending, lockVars, runq, timeVars, killed, pc, masked,
                      waitVars, reapVars>>

\* The context switch has saved the outgoing thread; sched_finish_switch drops
\* the core's reference to it and then releases it.
FinishSwitch(c) ==
    /\ cpc[c] = "finish"
    /\ on_cpu' = [on_cpu EXCEPT ![outgoing[c]] = FALSE]
    /\ outgoing' = [outgoing EXCEPT ![c] = none]
    /\ cpc' = [cpc EXCEPT ![c] = "run"]
    /\ UNCHANGED <<current, next, pending, lockVars, runq, timeVars, state,
                   slice, killed, pc, masked, waitVars, reapVars>>

\* A core picks a thread to switch to and queues its own behind it, unless that
\* is the idle thread.
PickAndRequeue(c) ==
    LET t == current[c]
    IN \E i \in Pickable :
          /\ next' = [next EXCEPT ![c] = runq[i]]
          /\ cpc' = [cpc EXCEPT ![c] = "switch"]
          /\ IF Idle(c)
             THEN runq' = AfterPick(i) /\ UNCHANGED state
             ELSE /\ runq' = Append(AfterPick(i), t)
                  /\ state' = [state EXCEPT ![t] = "READY"]

Yield(c) ==
    LET t == current[c]
    IN /\ At(c, "run") /\ Unlocked
       /\ Idle(c) \/ May(t, "yield")
       /\ Goto(t, Return(t))
       /\ IF Pickable = {} THEN UNCHANGED <<next, cpc, runq, state>>
                           ELSE PickAndRequeue(c)
       /\ UNCHANGED <<current, outgoing, pending, lockVars, timeVars, on_cpu,
                      slice, killed, masked, waitVars, reapVars>>

\* Where a thread goes on when it is switched in again after schedule_out.
Resume(t) == CASE pc[t] = "block_out" -> "woke"
               [] pc[t] = "sleep_out" -> Return(t)
               [] pc[t] = "exit_out"  -> "dead"

ScheduleOut(c) ==
    LET t == current[c]
    IN /\ cpc[c] = "run" /\ Unlocked
       /\ pc[t] \in {"block_out", "sleep_out", "exit_out"}
       /\ Goto(t, Resume(t))
       /\ \/ Pickable = {} /\ next' = [next EXCEPT ![c] = c] /\ UNCHANGED runq
          \/ \E i \in Pickable : /\ next' = [next EXCEPT ![c] = runq[i]]
                                 /\ runq' = AfterPick(i)
       /\ cpc' = [cpc EXCEPT ![c] = "switch"]
       /\ UNCHANGED <<current, outgoing, pending, lockVars, timeVars,
                      threadVars, killed, masked, waitVars, reapVars>>

----------------------------------------------------------------------------
(* Interrupts and deferred preemption.                                     *)

\* Mutant: interrupt_enter without time::tick.
TickTimeless(c) ==
    /\ Interruptible(c)
    /\ cpc' = [cpc EXCEPT ![c] = "tick"]
    /\ UNCHANGED <<current, next, outgoing, pending, lockVars, runq, timeVars, threadVars,
                   killed, pc, masked, waitVars, reapVars>>
\* Timer interrupt: interrupt_enter and time::tick.
Tick(c) ==
    /\ Interruptible(c)
    /\ cpc' = [cpc EXCEPT ![c] = "tick"]
    /\ timer' = IF c = BootCore
                THEN [t \in Thread |-> IF timer[t] = 0 THEN 0 ELSE timer[t] - 1]
                ELSE timer
    /\ UNCHANGED <<current, next, outgoing, pending, lockVars, runq, sleepers,
                   timed, threadVars, killed, pc, masked, waitVars, reapVars>>

\* on_tick takes the scheduler lock.
TickLock(c) ==
    /\ cpc[c] = "tick" /\ Unlocked
    /\ cpc' = [cpc EXCEPT ![c] = "scan"]
    /\ lock' = c
    /\ scan' = sleepers \cup timed
    /\ UNCHANGED <<current, next, outgoing, pending, runq, timeVars, threadVars,
                   killed, pc, masked, waitVars, reapVars>>

\* wake_due_sleepers visits the entry of s.
VisitSleeper(c, s) ==
    /\ cpc[c] = "scan"
    /\ s \in scan \cap sleepers
    /\ scan' = scan \ {s}
    /\ IF timer[s] = 0
       THEN sleepers' = sleepers \ {s} /\ MakeReady(s)
       ELSE UNCHANGED <<sleepers, state, runq>>
    /\ UNCHANGED <<cpuVars, lock, timed, timer, on_cpu, slice, killed, pc, masked,
                   waitVars, reapVars>>

\* Mutant: an empty thread reference in the node is not noticed.
ClaimsBlindly(s) == TRUE
\* claim finds the node of s linked.
Claims(s) == waitq[s] # none

\* wake_due_timed_waits visits the entry of s and claims its node.
VisitTimedWait(c, s) ==
    /\ cpc[c] = "scan"
    /\ scan \cap sleepers = {}
    /\ s \in scan \cap timed
    /\ scan' = scan \ {s}
    /\ IF timer[s] = 0 /\ Claims(s)
       THEN /\ waitq' = [waitq EXCEPT ![s] = none]
            /\ timed' = timed \ {s}
            /\ MakeReady(s)
       ELSE UNCHANGED <<waitq, timed, state, runq>>
    /\ UNCHANGED <<cpuVars, lock, sleepers, timer, on_cpu, slice, killed, pc, masked,
                   req, sig, wake, batch, reapVars>>

\* decrement_slice stays at zero once it is there.
DecrementSlice(t) == IF slice[t] = 0 THEN 0 ELSE slice[t] - 1

\* Mutant: an idle core waits for its next IPI.
ReschedBusy(c) == \/ killed[current[c]]
                  \/ runq # <<>> /\ ~Idle(c) /\ DecrementSlice(current[c]) = 0
\* on_tick requests a preemption on core c.
Resched(c) == \/ killed[current[c]]
              \/ runq # <<>> /\ (Idle(c) \/ DecrementSlice(current[c]) = 0)

\* The rest of on_tick: charge the slice, and should this core reschedule?
TickDecide(c) ==
    LET t == current[c]
        charge == ~killed[t] /\ runq # <<>> /\ ~Idle(c)
    IN /\ cpc[c] = "scan" /\ scan = {}
       /\ cpc' = [cpc EXCEPT ![c] = "service"]
       /\ lock' = none
       /\ slice' = [slice EXCEPT ![t] = IF charge THEN DecrementSlice(t) ELSE @]
       /\ pending' = [pending EXCEPT ![c] = @ \/ Resched(c)]
       /\ UNCHANGED <<current, next, outgoing, scan, runq, timeVars, state, on_cpu,
                      killed, pc, masked, waitVars, reapVars>>

\* A reschedule IPI.  Its sender, kick_idle_core_locked, aims at an idle core that
\* may be busy again by the time it arrives: here one may arrive at any time.
ReschedIPI(c) ==
    /\ Interruptible(c)
    /\ pending' = [pending EXCEPT ![c] = TRUE]
    /\ cpc' = [cpc EXCEPT ![c] = "service"]
    /\ UNCHANGED <<current, next, outgoing, lockVars, runq, timeVars, threadVars,
                   killed, pc, masked, waitVars, reapVars>>

PreemptDisabled(t) == pc[t] \in {"critical", "refused"}

\* A request is kept only while preemption is disabled.
StillPending(c) == pending[c] /\ PreemptDisabled(current[c])

\* service_deferred_preemption, at interrupt exit or the last preempt_enable,
\* and with it service_pending_preemption.
Service(c) ==
    LET t == current[c]
        hook == pending[c] /\ ~PreemptDisabled(t)
        exitNow == killed[t] /\ pc[t] = "run"
    IN /\ cpc[c] = "service"
       /\ hook => Unlocked
       /\ pending' = [pending EXCEPT ![c] = StillPending(c)]
       /\ pc' = [pc EXCEPT ![t] = IF hook /\ exitNow THEN "exit" ELSE @]
       /\ IF hook /\ ~exitNow /\ Pickable # {}
          THEN PickAndRequeue(c)
          ELSE /\ cpc' = [cpc EXCEPT ![c] = "run"]
               /\ UNCHANGED <<next, runq, state>>
       /\ UNCHANGED <<current, outgoing, lockVars, timeVars, on_cpu, slice, killed,
                      masked, waitVars, reapVars>>

\* A step of thread code that changes pc and nothing of the scheduler's.
OnlyPc == UNCHANGED <<cpuVars, lockVars, runq, timeVars, threadVars, killed,
                      masked, waitVars, reapVars>>

\* critical_section in a kernel thread: preemption off, interrupts on.
EnterCritical(c) ==
    /\ At(c, "run") /\ current[c] \in Kernel /\ May(current[c], "critical")
    /\ Goto(current[c], "critical")
    /\ OnlyPc

\* preempt_enable: the depth drops in one irq-off section ...
LeaveCritical(c) ==
    /\ At(c, "critical")
    /\ Goto(current[c], "enable")
    /\ OnlyPc

\* ... and the pending preemption is served in the next.
EnablePreempt(c) ==
    /\ At(c, "enable")
    /\ Goto(current[c], "run")
    /\ cpc' = [cpc EXCEPT ![c] = "service"]
    /\ UNCHANGED <<current, next, outgoing, pending, lockVars, runq, timeVars,
                   threadVars, killed, masked, waitVars, reapVars>>

----------------------------------------------------------------------------
(* Parking.                                                                *)

\* wait_signals and wait_signals_deadline on o; d is the time to the deadline.
BeginWait(c, o, m, hasDeadline, d) ==
    LET t == current[c]
    IN /\ At(c, "run") /\ May(t, IF hasDeadline THEN "timedwait" ELSE "wait")
       /\ req' = [req EXCEPT ![t] = [obj |-> o, mask |-> m, timed |-> hasDeadline]]
       /\ timer' = [timer EXCEPT ![t] = IF hasDeadline THEN d ELSE @]
       /\ Goto(t, "check")
       /\ UNCHANGED <<cpuVars, lockVars, runq, sleepers, timed, threadVars,
                      killed, masked, waitq, sig, wake, batch, reapVars>>

\* The condition thread t is waiting for does not hold yet.
MustWait(t) ==
    IF t = reaper THEN zombies = <<>>
    ELSE /\ sig[req[t].obj] \cap req[t].mask = {}
         /\ req[t].timed => timer[t] > 0

\* The head of the wait loop.
CheckSignals(c) ==
    LET t == current[c]
        goOn == MustWait(t) /\ ~killed[t]
    IN /\ At(c, "check")
       /\ Goto(t, IF ~goOn THEN Return(t)
                  ELSE IF req[t].timed THEN "register" ELSE "block")
       /\ req' = IF goOn THEN req ELSE [req EXCEPT ![t] = NoReq]
       /\ timer' = IF goOn THEN timer ELSE [timer EXCEPT ![t] = 0]
       /\ UNCHANGED <<cpuVars, lockVars, runq, sleepers, timed, threadVars,
                      killed, masked, waitq, sig, wake, batch, reapVars>>

TimedWaitRegister(c) ==
    LET t == current[c]
    IN /\ At(c, "register") /\ Unlocked
       /\ timed' = timed \cup {t}
       /\ Goto(t, "block")
       /\ UNCHANGED <<cpuVars, lockVars, runq, sleepers, timer, threadVars,
                      killed, masked, waitVars, reapVars>>

\* Where the caller of block_if goes on.
AfterBlock(t) == IF t = reaper THEN "run"
                 ELSE IF req[t].timed THEN "unregister" ELSE "check"

\* Mutant: block_if does not look at the killed mark.
RefusedUnlessKilled(t) == ~MustWait(t)
\* Mutant: a signal wait does not look at the signals again under the lock.
RefusedBlind(t) == IF req[t].mask # {} THEN killed[t] ELSE ~MustWait(t)
\* block_if's early return.
Refused(t) == (req[t].mask # {} /\ killed[t]) \/ ~MustWait(t)

\* block_if parks the thread on the queue of req[t].obj.
BlockIf(c) ==
    LET t == current[c]
    IN /\ At(c, "block") /\ Unlocked
       /\ ~Refused(t)
       /\ state' = [state EXCEPT ![t] = "BLOCKED"]
       /\ waitq' = [waitq EXCEPT ![t] = req[t].obj]
       /\ Goto(t, "block_out")
       /\ UNCHANGED <<cpuVars, lockVars, runq, timeVars, on_cpu, slice, killed,
                      masked, req, sig, wake, batch, reapVars>>

\* block_if's early return.  It restores the caller's interrupt state while both
\* locks are held: a caller that had interrupts on gets them inside the guards.
BlockIfRefused(c) ==
    LET t == current[c]
        opens == t \notin User /\ ~masked[t]
    IN /\ At(c, "block") /\ Unlocked
       /\ Refused(t)
       /\ Goto(t, IF opens THEN "refused" ELSE AfterBlock(t))
       /\ lock' = IF opens THEN c ELSE lock
       /\ UNCHANGED <<cpuVars, scan, runq, timeVars, threadVars, killed, masked,
                      waitVars, reapVars>>

\* The guards of the early return unwind: the scheduler lock is released and its
\* guard restores the interrupts-off state it had saved.
ReleaseRefused(c) ==
    LET t == current[c]
    IN /\ At(c, "refused")
       /\ lock' = none
       /\ masked' = [masked EXCEPT ![t] = TRUE]
       /\ Goto(t, AfterBlock(t))
       /\ cpc' = [cpc EXCEPT ![c] = "service"]
       /\ UNCHANGED <<current, next, outgoing, pending, scan, runq, timeVars,
                      threadVars, killed, waitVars, reapVars>>

\* Back from schedule_out, block_if clears the thread's parked pointers.
Woke(c) ==
    /\ At(c, "woke")
    /\ Goto(current[c], AfterBlock(current[c]))
    /\ OnlyPc

TimedWaitUnregister(c) ==
    LET t == current[c]
    IN /\ At(c, "unregister") /\ Unlocked
       /\ timed' = timed \ {t}
       /\ Goto(t, "check")
       /\ UNCHANGED <<cpuVars, lockVars, runq, sleepers, timer, threadVars,
                      killed, masked, waitVars, reapVars>>

\* sleep_ticks(d); zero ticks is a yield.
Sleep(c, d) ==
    LET t == current[c]
    IN /\ At(c, "run") /\ Unlocked /\ May(t, "sleep")
       /\ IF killed[t]
          THEN Goto(t, Return(t)) /\ UNCHANGED <<state, sleepers, timer>>
          ELSE /\ state' = [state EXCEPT ![t] = "BLOCKED"]
               /\ sleepers' = sleepers \cup {t}
               /\ timer' = [timer EXCEPT ![t] = d]
               /\ Goto(t, "sleep_out")
       /\ UNCHANGED <<cpuVars, lockVars, runq, timed, on_cpu, slice, killed,
                      masked, waitVars, reapVars>>

----------------------------------------------------------------------------
(* Waking.                                                                 *)

\* Object::signal_set: the fetch_or; the wake follows.
SignalSet(c, o, b) ==
    LET t == current[c]
    IN /\ At(c, "run") /\ May(t, "signal")
       /\ sig' = [sig EXCEPT ![o] = @ \cup {b}]
       /\ wake' = [wake EXCEPT ![t] = [obj |-> o, signals |-> {}]]
       /\ Goto(t, "load")
       /\ UNCHANGED <<cpuVars, lockVars, runq, timeVars, threadVars, killed,
                      masked, req, waitq, batch, reapVars>>

SignalClear(c, o, b) ==
    LET t == current[c]
    IN /\ At(c, "run") /\ May(t, "signal")
       /\ sig' = [sig EXCEPT ![o] = @ \ {b}]
       /\ Goto(t, Return(t))
       /\ UNCHANGED <<cpuVars, lockVars, runq, timeVars, threadVars, killed,
                      masked, req, waitq, wake, batch, reapVars>>

\* object_signal_wake reads the signals to match.
LoadSignals(c) ==
    LET t == current[c]
    IN /\ At(c, "load")
       /\ wake' = [wake EXCEPT ![t] = [obj |-> @.obj, signals |-> sig[@.obj]]]
       /\ Goto(t, "scan")
       /\ UNCHANGED <<cpuVars, lockVars, runq, timeVars, threadVars, killed,
                      masked, req, waitq, sig, batch, reapVars>>

\* The parked threads wake_matching(signals) on o's queue would take.
Matching(o, signals) ==
    {s \in Spawned : waitq[s] = o /\ req[s].mask \cap signals # {}}

\* unlink of the nodes of the threads taken.
Unlink(taken) == [s \in Thread |-> IF s \in taken THEN none ELSE waitq[s]]

\* wake_matching takes nodes off the list under the queue lock, as many as the
\* batch holds, and notes whether it got to the end ("batch") or not ("more").
TakeBatch(c, taken) ==
    LET t == current[c]
        match == Matching(wake[t].obj, wake[t].signals)
    IN /\ At(c, "scan")
       /\ taken \subseteq match /\ Cardinality(taken) <= WAKE_BATCH
       /\ batch' = [batch EXCEPT ![t] = taken]
       /\ waitq' = Unlink(taken)
       /\ \/ taken = match /\ Goto(t, "batch")
          \/ Cardinality(taken) = WAKE_BATCH /\ Goto(t, "more")
       /\ UNCHANGED <<cpuVars, lockVars, runq, timeVars, threadVars, killed,
                      masked, req, sig, wake, reapVars>>

\* make_ready of one thread of the batch.
WakeTaken(c, s) ==
    LET t == current[c]
    IN /\ cpc[c] = "run" /\ pc[t] \in {"batch", "more", "kicked"} /\ Unlocked
       /\ s \in batch[t]
       /\ batch' = [batch EXCEPT ![t] = @ \ {s}]
       /\ MakeReady(s)
       /\ UNCHANGED <<cpuVars, lockVars, timeVars, on_cpu, slice, killed, pc, masked,
                      req, waitq, sig, wake, reapVars>>

AfterWake(t) == IF state[t] = "DEAD" THEN "kick" ELSE Return(t)

\* A batch that filled up triggers another pass.
NextPass(t) == IF pc[t] = "more" THEN "scan" ELSE AfterWake(t)

\* The batch is empty: scan again, or the wake is over.
WakeDone(c) ==
    LET t == current[c]
    IN /\ cpc[c] = "run" /\ pc[t] \in {"batch", "more"}
       /\ batch[t] = {}
       /\ Goto(t, NextPass(t))
       /\ wake' = IF pc[t] = "more" THEN wake ELSE [wake EXCEPT ![t] = NoWake]
       /\ UNCHANGED <<cpuVars, lockVars, runq, timeVars, threadVars, killed,
                      masked, req, waitq, sig, batch, reapVars>>

\* task_kill of the task whose thread is v: mark it and wake it wherever it is
\* parked.  A node that a waker already took is left to that waker.
Kill(c, v) ==
    LET t == current[c]
    IN /\ At(c, "run") /\ Unlocked /\ May(t, "kill")
       /\ pc[v] # "new" /\ state[v] # "DEAD"
       /\ killed' = [killed EXCEPT ![v] = TRUE]
       /\ IF waitq[v] # none \/ v \in sleepers
          THEN /\ waitq' = [waitq EXCEPT ![v] = none]
               /\ sleepers' = sleepers \ {v}
               /\ MakeReady(v)
          ELSE UNCHANGED <<waitq, sleepers, state, runq>>
       /\ Goto(t, Return(t))
       /\ UNCHANGED <<cpuVars, lockVars, timed, timer, on_cpu, slice, masked, req,
                      sig, wake, batch, reapVars>>

----------------------------------------------------------------------------
(* Birth and death.                                                        *)

\* thread_enqueue of a thread that was created.
Spawn(c, s) ==
    LET t == current[c]
    IN /\ At(c, "run") /\ Unlocked
       /\ t = BootCore \/ t \in User \cup Kernel
       /\ pc[s] = "new"
       /\ runq' = Append(runq, s)
       /\ pc' = [pc EXCEPT ![s] = "run", ![t] = Return(t)]
       /\ UNCHANGED <<cpuVars, lockVars, timeVars, threadVars, killed, masked,
                      waitVars, reapVars>>

\* The end of syscall_dispatch.
Boundary(c) ==
    LET t == current[c]
    IN /\ At(c, "boundary")
       /\ Goto(t, IF killed[t] THEN "exit" ELSE "run")
       /\ OnlyPc

\* SYS_EXIT, a user fault, or the return of a kernel thread's entry function.
BeginExit(c) ==
    LET t == current[c]
    IN /\ At(c, "run") /\ May(t, "exit")
       /\ Goto(t, "exit")
       /\ OnlyPc

\* exit_current up to the release of the scheduler lock ...
ExitCurrent(c) ==
    LET t == current[c]
    IN /\ At(c, "exit") /\ Unlocked
       /\ state' = [state EXCEPT ![t] = "DEAD"]
       /\ zombies' = Append(zombies, t)
       /\ Goto(t, "terminated")
       /\ UNCHANGED <<cpuVars, lockVars, runq, timeVars, on_cpu, slice, killed,
                      masked, waitVars, corpse, reaped>>

\* ... its signal_set(SIGNAL_TERMINATED) ...
SignalTerminated(c) ==
    LET t == current[c]
    IN /\ At(c, "terminated")
       /\ sig' = [sig EXCEPT ![t] = @ \cup {TERMINATED}]
       /\ wake' = [wake EXCEPT ![t] = [obj |-> t, signals |-> {}]]
       /\ Goto(t, "load")
       /\ UNCHANGED <<cpuVars, lockVars, runq, timeVars, threadVars, killed,
                      masked, req, waitq, batch, reapVars>>

\* ... and reaper_kick: wake_one on the reaper's queue.
ReaperKick(c) ==
    LET t == current[c]
        parked == {s \in Spawned : waitq[s] = reaper}
    IN /\ At(c, "kick")
       /\ batch' = [batch EXCEPT ![t] = parked]
       /\ waitq' = Unlink(parked)
       /\ Goto(t, "kicked")
       /\ UNCHANGED <<cpuVars, lockVars, runq, timeVars, threadVars, killed,
                      masked, req, sig, wake, reapVars>>

ExitDone(c) ==
    /\ At(c, "kicked") /\ batch[current[c]] = {}
    /\ Goto(current[c], "exit_out")
    /\ OnlyPc

\* reaper_main takes the next zombie, or goes to park.
ReaperPop(c) ==
    /\ At(c, "run") /\ current[c] = reaper /\ Unlocked
    /\ IF zombies = <<>>
       THEN /\ req' = [req EXCEPT ![reaper] = [obj |-> reaper, mask |-> {}, timed |-> FALSE]]
            /\ Goto(reaper, "block")
            /\ UNCHANGED <<zombies, corpse>>
       ELSE /\ zombies' = Tail(zombies)
            /\ corpse' = Head(zombies)
            /\ Goto(reaper, "reap")
            /\ UNCHANGED req
    /\ UNCHANGED <<cpuVars, lockVars, runq, timeVars, threadVars, killed, masked,
                   waitq, sig, wake, batch, reaped>>

\* Mutant: being dead is taken for being off its core.
LastSwitchUnseen(t) == state[t] = "DEAD"
\* The switch away from t has finished.
LastSwitchDone(t) == ~on_cpu[t]

\* reap waits for the zombie's last switch and then frees its stack.
Reap(c) ==
    /\ At(c, "reap")
    /\ LastSwitchDone(corpse)
    /\ reaped' = reaped \cup {corpse}
    /\ corpse' = none
    /\ Goto(reaper, "run")
    /\ UNCHANGED <<cpuVars, lockVars, runq, timeVars, threadVars, killed, masked,
                   waitVars, zombies>>

----------------------------------------------------------------------------
\* A thread starts an operation, or enters user code's next system call.
Begin(c) ==
    \/ Yield(c)
    \/ EnterCritical(c)
    \/ \E o \in Watched, m \in (SUBSET Bits) \ {{}} :
          \/ BeginWait(c, o, m, FALSE, 0)
          \/ \E d \in 0..MaxDelay : BeginWait(c, o, m, TRUE, d)
    \/ \E d \in 1..MaxDelay : Sleep(c, d)
    \/ \E o \in Event, b \in Bits : SignalSet(c, o, b) \/ SignalClear(c, o, b)
    \/ \E v \in User : Kill(c, v)
    \/ \E s \in User \cup Kernel : Spawn(c, s)
    \/ BeginExit(c)

\* A core's own code: switches, interrupt handlers.
CoreStep(c) ==
    \/ SwitchTo(c) \/ FinishSwitch(c)
    \/ TickLock(c) \/ TickDecide(c) \/ Service(c)
    \/ \E s \in scan : VisitSleeper(c, s) \/ VisitTimedWait(c, s)

\* Kernel code of the running thread that goes on by itself once entered.
ThreadStep(c) ==
    \/ ScheduleOut(c) \/ LeaveCritical(c) \/ EnablePreempt(c)
    \/ CheckSignals(c) \/ TimedWaitRegister(c) \/ BlockIf(c) \/ BlockIfRefused(c)
    \/ ReleaseRefused(c) \/ Woke(c) \/ TimedWaitUnregister(c)
    \/ LoadSignals(c) \/ (\E taken \in SUBSET Spawned : TakeBatch(c, taken))
    \/ (\E s \in batch[current[c]] : WakeTaken(c, s)) \/ WakeDone(c)
    \/ Boundary(c) \/ ExitCurrent(c) \/ SignalTerminated(c) \/ ReaperKick(c)
    \/ ExitDone(c) \/ ReaperPop(c) \/ Reap(c)

Next == \E c \in Core :
    Begin(c) \/ CoreStep(c) \/ ThreadStep(c) \/ Tick(c) \/ ReschedIPI(c)

Spec == Init /\ [][Next]_vars

\* Thread t has a step to take that nothing but the scheduler lock can delay.
HasStep(t) ==
    \E c \in Core : /\ current[c] = t /\ cpc[c] = "run"
                    /\ pc[t] = "reap" => LastSwitchDone(corpse)
                    /\ pc[t] = "run" => t = reaper

\* A core keeps executing and gets the scheduler lock some time: it is not in a
\* switch or an interrupt for ever without a step of its own.  A timer interrupt
\* raised while interrupts are masked stays latched until they are unmasked.  A
\* thread that is given the core again and again gets on with it, spinning for
\* the scheduler lock with interrupts off if it needs it.
Fairness ==
    /\ \A c \in Core : []<><<cpc[c] = "run" \/ CoreStep(c)>>_vars /\ SF_vars(Tick(c))
    /\ \A t \in Spawned :
          []<>HasStep(t) => []<><<\E c \in Core : current[c] = t /\ ThreadStep(c)>>_vars

FairSpec == Spec /\ Fairness

----------------------------------------------------------------------------
(* Properties.                                                             *)

CpuPoints == {"run", "switch", "finish", "tick", "scan", "service"}
Points == {"new", "run", "boundary", "critical", "enable", "check", "register",
           "block", "refused", "block_out", "woke", "unregister", "sleep_out",
           "load", "scan", "batch", "more", "exit", "terminated", "kick", "kicked",
           "exit_out", "dead", "reap"}
Queue == Obj \cup {reaper}

\* The types of the scheduler's state (scheduler.cpp, thread.h, wait_queue.h).
TypeOK ==
    /\ current \in [Core -> Thread]
    /\ next \in [Core -> Thread \cup {none}]
    /\ outgoing \in [Core -> Thread \cup {none}]
    /\ cpc \in [Core -> CpuPoints]
    /\ pending \in [Core -> BOOLEAN]
    /\ lock \in Core \cup {none}
    /\ scan \subseteq Spawned
    /\ runq \in Seq(Spawned)
    /\ zombies \in Seq(User \cup Kernel)
    /\ sleepers \subseteq User \cup Kernel
    /\ timed \subseteq User \cup Kernel
    /\ timer \in [Thread -> 0..MaxDelay]
    /\ state \in [Thread -> {"READY", "RUNNING", "BLOCKED", "DEAD"}]
    /\ on_cpu \in [Thread -> BOOLEAN]
    /\ killed \in [Thread -> BOOLEAN]
    /\ slice \in [Thread -> 0..TIMESLICE]
    /\ pc \in [Thread -> Points]
    /\ masked \in [Thread -> BOOLEAN]
    /\ req \in [Thread -> [obj : Queue \cup {none}, mask : SUBSET Bits, timed : BOOLEAN]]
    /\ waitq \in [Thread -> Queue \cup {none}]
    /\ sig \in [Obj -> SUBSET Bits]
    /\ wake \in [Thread -> [obj : Obj \cup {none}, signals : SUBSET Bits]]
    /\ batch \in [Thread -> SUBSET Spawned]
    /\ corpse \in User \cup Kernel \cup {none}
    /\ reaped \subseteq User \cup Kernel

\* The contexts core c is using: the thread it runs and, until finish_switch,
\* the one whose registers and stack it is still saving.
InUse(c) == {current[c]} \cup {t \in {outgoing[c]} : cpc[c] = "finish"}

\* on_cpu keeps a context to one core at a time: no thread is run, saved or about
\* to be resumed by two cores (switch_to, sched_finish_switch, pop_locked).
OneCorePerContext ==
    /\ \A c, d \in Core : c # d => InUse(c) \cap InUse(d) = {}
    /\ \A c, d \in Core : cpc[c] = "switch" =>
          /\ next[c] \notin InUse(d)
          /\ c # d => next[c] # next[d]

\* Where the reference that will make thread t run again, or free it, is kept.
Holders(t) ==
    {<<"runq", i>> : i \in {i \in 1..Len(runq) : runq[i] = t}}
    \cup {<<"next", c>> : c \in {c \in Core : next[c] = t}}
    \cup {<<"queue", q>> : q \in {waitq[t]} \ {none}}
    \cup {<<"sleep", s>> : s \in {t} \cap sleepers}
    \cup {<<"batch", w>> : w \in {w \in Thread : t \in batch[w]}}
    \cup {<<"zombie", i>> : i \in {i \in 1..Len(zombies) : zombies[i] = t}}
    \cup {<<"corpse", s>> : s \in {t} \cap {corpse}}
    \cup {<<"gone", s>> : s \in {t} \cap reaped}

\* A thread that is not running sits in exactly one list or one waker's hands:
\* no wake is lost by a thread falling out of every list, and none is delivered
\* twice (block_if, claim, wake_matching, wake_sleeper, expiry, kill, exit).
HeldOnce ==
    \A t \in Spawned : pc[t] # "new" =>
        Cardinality(Holders(t)) = IF state[t] = "RUNNING" THEN 0 ELSE 1

\* make_ready's assertion: whoever holds a thread in order to wake it finds it
\* BLOCKED, and only queued or picked threads are READY.
HolderMatchesState ==
    \A t \in Spawned :
        /\ (waitq[t] # none \/ t \in sleepers \/ \E w \in Thread : t \in batch[w])
              => state[t] = "BLOCKED"
        /\ (\E i \in 1..Len(runq) : runq[i] = t) => state[t] = "READY"

\* The reaper frees a stack only when no core is on it or saving to it, and the
\* last store of finish_switch hits a live thread (reap, sched_finish_switch).
ReapedIsQuiet ==
    \A t \in reaped, c \in Core : t \notin InUse(c) /\ next[c] # t

\* A wait for signals never sleeps through them: a node still linked although
\* its signals are asserted has a waker on its way (wait_signals' predicate
\* against signal_set's fetch_or and wake_matching's passes).
WakeOnTheWay ==
    \A t \in Thread : waitq[t] \in Obj /\ sig[waitq[t]] \cap req[t].mask # {} =>
        \E w \in Thread :
            /\ wake[w].obj = waitq[t]
            /\ \/ pc[w] = "load"
               \/ pc[w] \in {"scan", "more"} /\ wake[w].signals \cap req[t].mask # {}

\* The reaper is never left parked while a zombie waits, unless the exiting
\* thread has yet to kick it (reaper_main's predicate against exit_current).
ReaperAwake ==
    waitq[reaper] = reaper /\ zombies # <<>> =>
        \E t \in Thread :
            state[t] = "DEAD" /\ pc[t] \in {"terminated", "load", "scan", "batch", "more", "kick"}

\* No killed thread stays parked where its wake may never come: the kill scan
\* and the parking paths leave no order in which it slips through.
KilledNotParked ==
    \A t \in User : killed[t] => waitq[t] = none /\ t \notin sleepers

\* A registry entry of a timed wait points at a node whose frame is alive: the
\* thread is inside the iteration that registered it (wait_signals_deadline).
TimedNodeAlive ==
    \A t \in timed : pc[t] \in {"block", "refused", "block_out", "woke", "unregister"}

\* No preemption is pending when a thread gives up the core by itself: the hook
\* in preempt_enable would put a BLOCKED or DEAD thread back on the run queue.
PendingOnlyDeferred ==
    \A c \in Core : pending[c] =>
        \/ cpc[c] \in {"tick", "scan", "service"}
        \/ cpc[c] = "run" /\ pc[current[c]] \in {"critical", "enable", "refused"}

\* Nothing the scheduler owes is forgotten: the wake of a waiter whose signals are
\* asserted and the kick of the reaper are on their way, and a deferred preemption
\* is served before its thread parks or dies.
NothingForgotten == WakeOnTheWay /\ ReaperAwake /\ PendingOnlyDeferred

\* The scheduler lock is "taken with interrupts off" (sched/internal.h).
LockHeldIrqsOff == \A c \in Core : lock = c => ~Interruptible(c)

\* task_kill ends every thread it marks, whatever it was doing, and the reaper
\* collects it.
KillEndsThread == \A t \in User : killed[t] ~> t \in reaped

\* A runnable thread eventually runs: FIFO order, rotation of on-cpu threads and
\* idle hand-offs do not starve it.
ReadyRuns ==
    \A t \in User : (\E i \in 1..Len(runq) : runq[i] = t) ~> state[t] # "READY"

\* A wait with a deadline ends, signalled or not, and so does a sleep (the expiry
\* scans of on_tick against registration, parking and the loop's own checks).
DeadlineEndsWait ==
    \A t \in User : (req[t].timed \/ t \in sleepers) ~> ~(req[t].timed \/ t \in sleepers)
=============================================================================
