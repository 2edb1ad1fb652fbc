----------------------------- MODULE MCSchedLive -----------------------------
(***************************************************************************)
(* What the scheduler must do in the end.  Three small systems are checked *)
(* side by side: a behaviour of this module is a behaviour of one of them, *)
(* which part names: threads with deadlines, threads that share the cores, *)
(* and a thread that is killed.                                            *)
(***************************************************************************)
EXTENDS Naturals

CONSTANTS
    BootCore, u1, u2, reaper, e, TERMINATED, none

VARIABLES part,
    current, next, outgoing, cpc, pending, lock, scan, runq, zombies, sleepers, timed, timer, state,
    on_cpu, killed, slice, pc, masked, req, waitq, sig, wake, batch, corpse, reaped

Core == {0, 1}

\* One thread sleeps, signals e, and waits for e with a deadline.
Timed == INSTANCE Sched WITH User <- {u1}, UserOps <- {"timedwait", "sleep", "signal"},
    Kernel <- {}, KernelOps <- {}, Event <- {e}, Watched <- {e}, Bits <- {TERMINATED},
    TIMESLICE <- 1, WAKE_BATCH <- 1, MaxDelay <- 1, RefusedIrq <- FALSE
\* Two threads compute and yield.
Share == INSTANCE Sched WITH User <- {u1, u2}, UserOps <- {"yield"},
    Kernel <- {}, KernelOps <- {}, Event <- {e}, Watched <- {e}, Bits <- {TERMINATED},
    TIMESLICE <- 1, WAKE_BATCH <- 1, MaxDelay <- 1, RefusedIrq <- FALSE
\* A thread waits for e, and a kernel thread kills it.
Kill == INSTANCE Sched WITH User <- {u1}, UserOps <- {"wait"}, Kernel <- {u2}, KernelOps <- {"kill"},
    Event <- {e}, Watched <- {e}, Bits <- {TERMINATED}, TIMESLICE <- 1, WAKE_BATCH <- 1, MaxDelay <- 1,
    RefusedIrq <- FALSE

schedVars == <<current, next, outgoing, cpc, pending, lock, scan, runq, zombies, sleepers, timed, timer,
               state, on_cpu, killed, slice, pc, masked, req, waitq, sig, wake, batch, corpse, reaped>>
allvars == <<part, schedVars>>

AllInit ==
    \/ part = "timed" /\ Timed!Init
    \/ part = "share" /\ Share!Init
    \/ part = "kill" /\ Kill!Init

\* A step of one part.
Only(p) == part = p /\ UNCHANGED part
AllNext ==
    \/ Only("timed") /\ Timed!Next
    \/ Only("share") /\ Share!Next
    \/ Only("kill") /\ Kill!Next

\* The fairness of Sched, for whichever system runs: part never changes, so fairness of a
\* disjunction over parts is fairness of each.
InThread(c) == cpc[c] = "run"
CoreStep(c) ==
    \/ Only("timed") /\ Timed!CoreStep(c)
    \/ Only("share") /\ Share!CoreStep(c)
    \/ Only("kill") /\ Kill!CoreStep(c)
\* A tick is possible.
Unmasked(c) ==
    \/ part = "timed" /\ Timed!Interruptible(c)
    \/ part = "share" /\ Share!Interruptible(c)
    \/ part = "kill" /\ Kill!Interruptible(c)
Tick(c) ==
    \/ Only("timed") /\ Timed!Tick(c)
    \/ Only("share") /\ Share!Tick(c)
    \/ Only("kill") /\ Kill!Tick(c)
\* What thread t does on its core.
StepOf(t) ==
    \E c \in Core :
        /\ current[c] = t
        /\ \/ Only("timed") /\ Timed!ThreadStep(c)
           \/ Only("share") /\ Share!ThreadStep(c)
           \/ Only("kill") /\ Kill!ThreadStep(c)
HasStep(t) ==
    \/ part = "timed" /\ Timed!HasStep(t)
    \/ part = "share" /\ Share!HasStep(t)
    \/ part = "kill" /\ Kill!HasStep(t)
AllSpec ==
    /\ AllInit /\ [][AllNext]_allvars
    /\ \A c \in Core : []<><<InThread(c) \/ CoreStep(c)>>_allvars
    /\ \A c \in Core : []<>Unmasked(c) => []<><<Tick(c)>>_allvars
    /\ \A t \in {u1, u2, reaper} : []<>HasStep(t) => []<><<StepOf(t)>>_allvars

\* A thread that must stop waiting stops. A wait with a deadline ends, signalled or not, and so does
\* a sleep (the expiry scans of on_tick against registration, parking and the loop's own checks);
\* and task_kill ends the thread it marks, parked, computing, queued or about to park, and the reaper
\* collects it. (part never changes: the formula says of each part that its case leads to its end.)
WaitsEnd ==
    \/ part = "timed" /\ (req[u1].timed \/ u1 \in sleepers)
    \/ part = "kill" /\ killed[u1]
  ~>
    \/ part = "timed" /\ ~(req[u1].timed \/ u1 \in sleepers)
    \/ part = "kill" /\ u1 \in reaped

\* A queued thread runs in the end: FIFO order, rotation of on-cpu threads and idle hand-offs do
\* not starve it.
ReadyRuns ==
    (part = "share" /\ \E i \in DOMAIN runq : runq[i] = u1) ~> (part = "share" /\ state[u1] # "READY")
==============================================================================
