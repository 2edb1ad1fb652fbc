------------------------------ MODULE IdleKick ------------------------------
(***************************************************************************)
(* How cores that halt in idle_loop hear of queued threads (scheduler.cpp, *)
(* execution_context.cpp): who pushes a thread interrupts one idle core,   *)
(* and every core looks for itself on its tick.  A core chooses its next   *)
(* thread in one section of g_sched_lock and makes it current in a later   *)
(* one, both with interrupts off.                                          *)
(*                                                                         *)
(* Threads run, wake one another, yield and block; kills and exits are in  *)
(* module Sched.                                                           *)
(***************************************************************************)
EXTENDS Naturals, Sequences, SequencesExt, FiniteSets

CONSTANTS
    CORES,    \* cores are 0 .. CORES - 1
    Thread,
    SLICE,    \* ticks in a time slice
    Idle, None

Core == 0..CORES - 1

VARIABLES
    g_run_queue,
    current,   \* [Core -> Thread or Idle]
    at,        \* [Core -> "run" | "exit" | "out" | "picked"]: off the first, interrupts are off
    next,      \* [Core -> the thread picked, or None]
    idle,      \* [Core -> "yield" | "wfi" | "halted"]: where the idle thread is or resumes
    slice,     \* [Thread -> 0..SLICE]
    need,      \* cores with a preemption request
    ipi        \* cores with a reschedule IPI pending

vars == <<g_run_queue, current, at, next, idle, slice, need, ipi>>

Init ==
    /\ g_run_queue = <<>>
    /\ current = [c \in Core |-> Idle] /\ at = [c \in Core |-> "run"]
    /\ next = [c \in Core |-> None] /\ idle = [c \in Core |-> "yield"]
    /\ slice = [t \in Thread |-> SLICE]
    /\ need = {} /\ ipi = {}

on_cpu(t) == \E c \in Core : current[c] = t
Queued == ToSet(g_run_queue)

\* Parked in a sleeper list or wait queue, off its core or about to leave it.
Blocked ==
    {t \in Thread : t \notin Queued /\
        \A c \in Core : next[c] # t /\ (current[c] = t => at[c] \in {"out", "picked"})}

----------------------------------------------------------------------------
(* Picking and pushing, under g_sched_lock.                                *)

\* pop_locked: threads still on a core rotate to the back.
OffCpu(q) == {i \in DOMAIN q : ~on_cpu(q[i])}
Picked(q) == IF OffCpu(q) = {} THEN None ELSE q[Min(OffCpu(q))]
Rest(q) ==
    IF OffCpu(q) = {} THEN q
    ELSE LET i == Min(OffCpu(q)) IN SubSeq(q, i + 1, Len(q)) \o SubSeq(q, 1, i - 1)

\* The core kick_idle_core_locked interrupts on behalf of core c.
IdleOthers(c) == {i \in Core \ {c} : current[i] = Idle}
kick_idle_core_locked(c) ==
    IF current[c] = Idle \/ IdleOthers(c) = {} THEN {} ELSE {Min(IdleOthers(c))}

\* push_runnable_locked, of every thread of a sequence.
Push(c, q, ts) ==
    /\ g_run_queue' = q \o ts
    /\ ipi' = IF ts = <<>> THEN ipi ELSE ipi \cup kick_idle_core_locked(c)

\* What yield and service_pending_preemption share: if there is a thread to pick, the
\* current one is queued, unless it is idle.
Pick(c, then) ==
    LET t == Picked(g_run_queue) IN
    /\ Push(c, Rest(g_run_queue), IF t = None \/ current[c] = Idle THEN <<>> ELSE <<current[c]>>)
    /\ next' = [next EXCEPT ![c] = t]
    /\ at' = [at EXCEPT ![c] = IF t = None THEN then ELSE "picked"]

----------------------------------------------------------------------------
(* Threads.                                                                *)

Runs(c) == at[c] = "run" /\ current[c] # Idle

yield(c) ==
    /\ Runs(c)
    /\ Pick(c, "run")
    /\ UNCHANGED <<current, idle, slice, need>>

make_ready(c, t) ==
    /\ Runs(c) /\ t \in Blocked
    /\ Push(c, g_run_queue, <<t>>)
    /\ UNCHANGED <<current, at, next, idle, slice, need>>

\* A thread parks itself, and schedule_out follows.
Block(c) ==
    /\ Runs(c)
    /\ at' = [at EXCEPT ![c] = "out"]
    /\ UNCHANGED <<g_run_queue, current, next, idle, slice, need, ipi>>

schedule_out(c) ==
    LET t == Picked(g_run_queue) IN
    /\ at[c] = "out"
    /\ g_run_queue' = Rest(g_run_queue)
    /\ next' = [next EXCEPT ![c] = IF t = None THEN Idle ELSE t]
    /\ at' = [at EXCEPT ![c] = "picked"]
    /\ UNCHANGED <<current, idle, slice, need, ipi>>

switch_to(c) ==
    /\ at[c] = "picked"
    /\ current' = [current EXCEPT ![c] = next[c]]
    /\ slice' = [t \in Thread |-> IF t = next[c] THEN SLICE ELSE slice[t]]
    /\ next' = [next EXCEPT ![c] = None] /\ at' = [at EXCEPT ![c] = "run"]
    /\ UNCHANGED <<g_run_queue, idle, need, ipi>>

----------------------------------------------------------------------------
(* idle_loop                                                               *)

InIdle(c, where) == at[c] = "run" /\ current[c] = Idle /\ idle[c] = where

\* Switched out in here, the idle thread comes back past the look at the queue.
IdleYield(c) ==
    /\ InIdle(c, "yield")
    /\ idle' = [idle EXCEPT ![c] = "wfi"]
    /\ Pick(c, "run")
    /\ UNCHANGED <<current, slice, need>>

wait_for_interrupt(c) ==
    /\ InIdle(c, "wfi")
    /\ idle' = [idle EXCEPT ![c] = "halted"]
    /\ UNCHANGED <<g_run_queue, current, at, next, slice, need, ipi>>

----------------------------------------------------------------------------
(* Interrupts.  One that ends a halt takes the idle thread to its next     *)
(* yield.                                                                  *)

Interrupted(c) ==
    /\ at[c] = "run"
    /\ at' = [at EXCEPT ![c] = "exit"]
    /\ idle' = IF InIdle(c, "halted") THEN [idle EXCEPT ![c] = "yield"] ELSE idle

\* The tick asks for a switch on an idle core, and at the end of a slice.
TickRequests(c) == current[c] = Idle \/ slice[current[c]] <= 1

\* ts: the sleepers that are due.
on_tick(c, ts) ==
    /\ Interrupted(c)
    /\ Push(c, g_run_queue, ts)
    /\ need' = IF g_run_queue' # <<>> /\ TickRequests(c) THEN need \cup {c} ELSE need
    /\ slice' = IF g_run_queue' = <<>> \/ current[c] = Idle THEN slice
                ELSE [slice EXCEPT ![current[c]] = IF @ = 0 THEN 0 ELSE @ - 1]
    /\ UNCHANGED <<current, next>>

RescheduleIpi(c) ==
    /\ c \in ipi /\ Interrupted(c)
    /\ ipi' = ipi \ {c} /\ need' = need \cup {c}
    /\ UNCHANGED <<g_run_queue, current, next, slice>>

\* interrupt_exit
service_pending_preemption(c) ==
    /\ at[c] = "exit" /\ c \in need
    /\ need' = need \ {c}
    /\ Pick(c, "run")
    /\ UNCHANGED <<current, idle, slice>>

InterruptEnd(c) ==
    /\ at[c] = "exit" /\ c \notin need
    /\ at' = [at EXCEPT ![c] = "run"]
    /\ UNCHANGED <<g_run_queue, current, next, idle, slice, need, ipi>>

Due == {ts \in SeqOf(Blocked, 2) : IsInjective(ts)}
Tick(c) == at[c] = "run" /\ \E ts \in Due : on_tick(c, ts)
Own(c) == schedule_out(c) \/ switch_to(c) \/ IdleYield(c) \/ wait_for_interrupt(c)
          \/ service_pending_preemption(c) \/ InterruptEnd(c)

Next ==
    \E c \in Core :
        \/ yield(c) \/ Block(c) \/ (\E t \in Thread : make_ready(c, t))
        \/ Tick(c) \/ RescheduleIpi(c) \/ Own(c)

\* Cores proceed; the timer goes on ticking, and a tick or an IPI that comes while
\* interrupts are off is kept for when they are on.
Fairness == \A c \in Core : WF_vars(Own(c)) /\ SF_vars(Tick(c)) /\ SF_vars(RescheduleIpi(c))

Spec == Init /\ [][Next]_vars /\ Fairness

----------------------------------------------------------------------------
(* Properties.                                                             *)


==============================================================================
