---------------------------- MODULE SchedProofs -----------------------------
(***************************************************************************)
(* The invariants of SchedInv are inductive, and the safety properties of  *)
(* Sched follow from them, for every value of the constants.               *)
(***************************************************************************)
EXTENDS SchedSwitch, SchedOwed, FiniteSetTheorems

USE DEF cpuVars, lockVars, timeVars, threadVars, waitVars, reapVars

\* The state after sched::init and join_secondary.
LEMMA InitInv == Init => Inv
<1> SUFFICES ASSUME Init PROVE Inv
  OBVIOUS
<1> USE DEF Init
<1>1. /\ Len(runq) = 1 /\ runq[1] = reaper /\ runq \in Seq(Spawned)
      /\ Len(zombies) = 0 /\ zombies \in Seq(User \cup Kernel)
  BY SMTT(60), ZenonT(60) DEF Spawned
<1>2. \A t : (InSeq(runq, t) <=> t = reaper) /\ ~InSeq(zombies, t)
  <2>1. 1..Len(runq) = {1} /\ 1..Len(zombies) = {}
    BY SMTT(60), <1>1
  <2> QED BY ZenonT(60), <1>1, <2>1 DEF InSeq
<1>3. TypeOK
  <2>1. /\ current \in [Core -> Thread] /\ next \in [Core -> Thread \cup {none}]
        /\ outgoing \in [Core -> Thread \cup {none}] /\ cpc \in [Core -> CpuPoints]
        /\ pending \in [Core -> BOOLEAN] /\ pc \in [Thread -> Points]
    BY Zenon DEF Thread, CpuPoints, Points
  <2>2. /\ timer \in [Thread -> 0..MaxDelay] /\ slice \in [Thread -> 0..TIMESLICE]
    BY SMTT(60), ZenonT(60), SizeAssumption
  <2>3. /\ req \in [Thread -> [obj : Queue \cup {none}, mask : SUBSET Bits, timed : BOOLEAN]]
        /\ wake \in [Thread -> [obj : Obj \cup {none}, signals : SUBSET Bits]]
    BY Zenon DEF NoReq, NoWake
  <2> QED BY SMTT(60), ZenonT(60), <1>1, <2>1, <2>2, <2>3 DEF TypeOK
<1>4. PointsInv
  BY Zenon, DisjointAssumption DEF PointsInv, ReaperPoints, Thread
<1>5. CpuInv
  BY Zenon, DisjointAssumption DEF CpuInv, Thread
<1>6. StateInv
  <2>1. \A t \in Thread : pc[t] \in {"new", "run"} /\ state[t] \in {"READY", "RUNNING"}
    OBVIOUS
  <2>2. \A c \in Core : state[current[c]] = "RUNNING" /\ cpc[c] = "run"
    BY Zenon DEF Thread
  <2>3. \A t \in Thread : pc[t] = "new" => state[t] = "READY" /\ ~on_cpu[t]
    BY Zenon, DisjointAssumption
  <2> QED BY ZenonT(60), <2>1, <2>2, <2>3 DEF StateInv, OutPoints, DyingPoints, WakerPoints, InterruptPoints
<1>7. PlaceInv
  <2>1. Distinct(runq)
    BY SMTT(60), ZenonT(60), <1>1 DEF Distinct
  <2>2. state[reaper] = "READY" /\ pc[reaper] = "run"
    BY Zenon, DisjointAssumption DEF Thread
  <2>3. \A c \in Core : next[c] \notin Spawned
    BY Zenon, DisjointAssumption DEF Thread, Spawned
  <2> QED BY Zenon, <1>2, <2>1, <2>2, <2>3 DEF PlaceInv
<1>8. DeadInv
  BY Zenon, <1>2 DEF DeadInv
<1>9. WaitInv /\ TimedNodeAlive /\ KilledNotParked
  BY Zenon DEF WaitInv, TimedNodeAlive, KilledNotParked, WaitPoints, WakerPoints, Thread
<1> QED BY Zenon, <1>3, <1>4, <1>5, <1>6, <1>7, <1>8, <1>9 DEF Inv

\* Every step of every core preserves the invariant.
LEMMA NextInv == Inv /\ [Next]_vars => Inv'
<1> SUFFICES ASSUME Inv, [Next]_vars PROVE Inv'
  OBVIOUS
<1>1. CASE UNCHANGED vars
  <2> USE <1>1 DEF vars
  <2>1. TypeOK' /\ PointsInv'
    BY ZenonT(60) DEF Inv, TypeOK, PointsInv
  <2>2. CpuInv' /\ DeadInv'
    <3>1. CpuInv /\ DeadInv
      BY Zenon DEF Inv
    <3>2. CpuInv'
      BY SMTT(60), ZenonT(60), <3>1 DEF CpuInv
    <3>3. DeadInv'
      BY SMTT(60), ZenonT(60), <3>1 DEF DeadInv
    <3> QED BY Zenon, <3>2, <3>3
  <2>3. StateInv'
    BY ZenonT(60) DEF Inv, StateInv
  <2>4. PlaceInv'
    BY Zenon DEF Inv, PlaceInv
  <2>5. WaitInv' /\ TimedNodeAlive' /\ KilledNotParked'
    BY Zenon DEF Inv, WaitInv, TimedNodeAlive, KilledNotParked
  <2> QED BY Zenon, <2>1, <2>2, <2>3, <2>4, <2>5 DEF Inv
<1>2. ASSUME NEW c \in Core, Begin(c) PROVE Inv'
  <2>1. ASSUME NEW o \in Watched, NEW m \in (SUBSET Bits) \ {{}},
               NEW h \in BOOLEAN, NEW d \in 0..MaxDelay, BeginWait(c, o, m, h, d)
        PROVE  Inv'
    BY Zenon, <2>1, BeginWaitInv
  <2>2. ASSUME NEW o \in Event, NEW b \in Bits, SignalSet(c, o, b) \/ SignalClear(c, o, b)
        PROVE  Inv'
    BY Zenon, <2>2, SignalSetInv, SignalClearInv
  <2>3. 0 \in 0..MaxDelay
    BY SMTT(60), ZenonT(60), SizeAssumption
  <2>4. CASE \E o \in Watched, m \in (SUBSET Bits) \ {{}} :
               \/ BeginWait(c, o, m, FALSE, 0)
               \/ \E d \in 0..MaxDelay : BeginWait(c, o, m, TRUE, d)
    BY Zenon, <2>4, <2>1, <2>3
  <2> QED BY Zenon, <1>2, <2>2, <2>4, YieldInv, EnterCriticalInv, SleepInv, KillInv, SpawnInv,
             BeginExitInv DEF Begin
<1>3. ASSUME NEW c \in Core, CoreStep(c) PROVE Inv'
  BY Zenon, <1>3, SwitchToInv, FinishSwitchInv, TickLockInv, TickDecideInv, ServiceInv,
     VisitSleeperInv, VisitTimedWaitInv DEF CoreStep
<1>4. ASSUME NEW c \in Core, ThreadStep(c) PROVE Inv'
  BY ZenonT(60), <1>4, ScheduleOutInv, LeaveCriticalInv, EnablePreemptInv, CheckSignalsInv,
     TimedWaitRegisterInv, BlockIfInv, BlockIfRefusedInv, ReleaseRefusedInv, WokeInv,
     TimedWaitUnregisterInv, LoadSignalsInv, TakeBatchInv, WakeTakenInv, WakeDoneInv,
     BoundaryInv, ExitCurrentInv, SignalTerminatedInv, ReaperKickInv, ExitDoneInv,
     ReaperPopInv, ReapInv DEF ThreadStep
<1>5. ASSUME NEW c \in Core, Tick(c) \/ ReschedIPI(c) PROVE Inv'
  BY Zenon, <1>5, TickInv, ReschedIPIInv
<1> QED BY Zenon, <1>1, <1>2, <1>3, <1>4, <1>5 DEF Next

\* The inductive invariant holds of the scheduler for any number of cores, threads,
\* objects and signal bits, and any time slice and batch size.
THEOREM Invariance == Spec => []Inv
<1> QED BY InitInv, NextInv, PTL DEF Spec

\* The state keeps its types (scheduler.cpp, thread.h, wait_queue.h).
THEOREM TypeCorrect == Spec => []TypeOK
<1>1. Inv => TypeOK
  BY Zenon DEF Inv
<1> QED BY <1>1, Invariance, PTL

\* switch_to, pop_locked's on_cpu test and sched_finish_switch keep every context to
\* one core at a time.
THEOREM ContextExclusion == Spec => []OneCorePerContext
<1>1. Inv => OneCorePerContext
  <2> SUFFICES ASSUME Inv PROVE OneCorePerContext
    OBVIOUS
  <2>1. \A c \in Core : /\ current[c] \in Thread /\ current[c] # none
                        /\ cpc[c] = "finish" => outgoing[c] # none
                        /\ \A t : t \in InUse(c) => t = current[c] \/ (t = outgoing[c] /\ t # none)
                        /\ \A t : t \in InUse(c) => on_cpu[t]
    <3> TAKE c \in Core
    <3>1. /\ current[c] \in Thread /\ current[c] # none /\ on_cpu[current[c]]
          /\ cpc[c] = "finish" => outgoing[c] # none /\ on_cpu[outgoing[c]]
      <4>1. current[c] \in Thread /\ none \notin Thread
        BY ZenonT(60), DisjointAssumption DEF Inv, TypeOK
      <4>2. /\ on_cpu[current[c]]
            /\ cpc[c] = "finish" => outgoing[c] # none /\ on_cpu[outgoing[c]]
        BY Zenon DEF Inv, CpuInv
      <4> QED BY ZenonT(60), <4>1, <4>2
    <3> QED BY ZenonT(60), <3>1 DEF InUse
  <2>2. ASSUME NEW c \in Core, NEW d \in Core, c # d
        PROVE  InUse(c) \cap InUse(d) = {}
    <3>1. /\ current[c] # current[d] /\ outgoing[c] # current[d] /\ outgoing[d] # current[c]
          /\ outgoing[c] # none => outgoing[c] # outgoing[d]
      BY ZenonT(60), <2>2 DEF Inv, CpuInv
    <3> QED BY SMTT(60), ZenonT(60), <2>1, <2>2, <3>1
  <2>3. ASSUME NEW c \in Core, NEW d \in Core, cpc[c] = "switch"
        PROVE  next[c] \notin InUse(d) /\ (c # d => next[c] # next[d])
    BY ZenonT(60), <2>1, <2>3 DEF Inv, CpuInv
  <2> QED BY Zenon, <2>2, <2>3 DEF OneCorePerContext
<1> QED BY <1>1, Invariance, PTL

\* make_ready's assertion that the thread it wakes is BLOCKED never fails, and the run
\* queue holds READY threads only.
THEOREM WakersFindBlocked == Spec => []HolderMatchesState
<1>1. Inv => HolderMatchesState
  BY Zenon DEF Inv, PlaceInv, HolderMatchesState, InSeq, Spawned, Thread
<1> QED BY <1>1, Invariance, PTL

\* reap frees a stack only after the last switch away from it has finished.
THEOREM ReapSafe == Spec => []ReapedIsQuiet
<1>1. Inv => ReapedIsQuiet
  <2> SUFFICES ASSUME Inv, NEW t \in reaped, NEW c \in Core
               PROVE  t \notin InUse(c) /\ next[c] # t
    BY ZenonT(60) DEF ReapedIsQuiet
  <2>1. t \in Spawned /\ t # none /\ state[t] = "DEAD" /\ ~on_cpu[t]
    BY SMTT(60), ZenonT(60), DisjointAssumption DEF Inv, TypeOK, DeadInv, Thread, Spawned
  <2>2. on_cpu[current[c]] /\ (cpc[c] = "finish" => on_cpu[outgoing[c]])
    BY ZenonT(60) DEF Inv, CpuInv
  <2>3. next[c] # t
    BY ZenonT(60), <2>1 DEF Inv, PlaceInv
  <2> QED BY ZenonT(60), <2>1, <2>2, <2>3 DEF InUse
<1> QED BY <1>1, Invariance, PTL

\* task_kill's scan and the refusals in block_if and sleep_ticks leave no killed thread
\* parked.
THEOREM KillReachesParked == Spec => []KilledNotParked
<1>1. Inv => KilledNotParked
  BY Zenon DEF Inv
<1> QED BY <1>1, Invariance, PTL

\* The expiry scan never claims a node whose wait_signals_deadline frame is gone.
THEOREM TimedNodesLive == Spec => []TimedNodeAlive
<1>1. Inv => TimedNodeAlive
  BY Zenon DEF Inv
<1> QED BY <1>1, Invariance, PTL

\* The places that may hold a thread, one by one.
LEMMA HolderIs ==
  ASSUME NEW t, NEW h
  PROVE  h \in Holders(t) <=>
           \/ \E i \in 1..Len(runq) : runq[i] = t /\ h = <<"runq", i>>
           \/ \E c \in Core : next[c] = t /\ h = <<"next", c>>
           \/ waitq[t] # none /\ h = <<"queue", waitq[t]>>
           \/ t \in sleepers /\ h = <<"sleep", t>>
           \/ \E w \in Thread : t \in batch[w] /\ h = <<"batch", w>>
           \/ \E i \in 1..Len(zombies) : zombies[i] = t /\ h = <<"zombie", i>>
           \/ t = corpse /\ h = <<"corpse", t>>
           \/ t \in reaped /\ h = <<"gone", t>>
BY ZenonT(60) DEF Holders

\* Each state has its lists, and a thread in that state is in one of them, once.
LEMMA HeldCount == ASSUME Inv, HeldInv PROVE HeldOnce
<1> SUFFICES ASSUME NEW t \in Spawned, pc[t] # "new"
             PROVE  Cardinality(Holders(t)) = IF state[t] = "RUNNING" THEN 0 ELSE 1
  BY Zenon DEF HeldOnce
<1>1. t \in Thread /\ t # none /\ state[t] \in {"READY", "RUNNING", "BLOCKED", "DEAD"}
  BY ZenonT(60), SpawnedThreads DEF Inv, TypeOK
\* What each list says of the state.
<1>2. state[t] # "READY" => ~InSeq(runq, t) /\ \A c \in Core : next[c] # t
  BY Zenon, <1>1 DEF Inv, PlaceInv
<1>3. state[t] # "BLOCKED" => /\ waitq[t] = none /\ t \notin sleepers
                              /\ \A w \in Thread : t \notin batch[w]
  BY ZenonT(60), <1>1 DEF Inv, PlaceInv
<1>4. state[t] # "DEAD" => ~InSeq(zombies, t) /\ t # corpse /\ t \notin reaped
  BY Zenon, <1>1 DEF Inv, DeadInv
<1>5. CASE state[t] = "RUNNING"
  <2>1. \A h : h \notin Holders(t)
    BY Zenon, <1>2, <1>3, <1>4, <1>5, HolderIs DEF InSeq
  <2>2. Holders(t) = {}
    BY Zenon, <2>1
  <2> QED BY Zenon, <1>5, <2>2, FS_EmptySet
<1>6. ASSUME state[t] = "READY" PROVE Cardinality(Holders(t)) = 1
  <2>1. \/ InSeq(runq, t)
        \/ \E c \in Core : next[c] = t
    BY Zenon, <1>6 DEF HeldInv
  <2>2. CASE InSeq(runq, t)
    <3>1. PICK i \in 1..Len(runq) : runq[i] = t
      BY Zenon, <2>2 DEF InSeq
    <3>2. \A j \in 1..Len(runq) : runq[j] = t => j = i
      BY ZenonT(60), <3>1 DEF Inv, PlaceInv, Distinct
    <3>3. \A c \in Core : next[c] # t
      BY Zenon, <2>2 DEF Inv, PlaceInv
    <3>4. \A h : h \in Holders(t) <=> h = <<"runq", i>>
      BY Zenon, <1>3, <1>4, <1>6, <3>1, <3>2, <3>3, HolderIs DEF InSeq
    <3>5. Holders(t) = {<<"runq", i>>}
      BY <3>4
    <3> QED BY Zenon, <3>5, FS_Singleton
  <2>3. CASE ~InSeq(runq, t)
    <3>1. PICK c \in Core : next[c] = t
      BY ZenonT(60), <2>1, <2>3
    <3>2. \A d \in Core : next[d] = t => d = c
      BY ZenonT(60), <1>1, <3>1 DEF Inv, CpuInv
    <3>3. \A h : h \in Holders(t) <=> h = <<"next", c>>
      BY Zenon, <1>3, <1>4, <1>6, <2>3, <3>1, <3>2, HolderIs DEF InSeq
    <3>4. Holders(t) = {<<"next", c>>}
      BY <3>3
    <3> QED BY Zenon, <3>4, FS_Singleton
  <2> QED BY Zenon, <2>2, <2>3
<1>7. ASSUME state[t] = "BLOCKED" PROVE Cardinality(Holders(t)) = 1
  <2>1. waitq[t] # none \/ t \in sleepers \/ \E w \in Thread : t \in batch[w]
    BY ZenonT(60), <1>7 DEF HeldInv
  <2>2. waitq[t] # none => t \notin sleepers
    BY ZenonT(60), <1>1 DEF Inv, PlaceInv
  <2>3. \A w \in Thread : t \in batch[w] => waitq[t] = none /\ t \notin sleepers
    BY Zenon DEF Inv, PlaceInv
  <2>4. CASE waitq[t] # none
    <3>1. \A h : h \in Holders(t) <=> h = <<"queue", waitq[t]>>
      BY Zenon, <1>2, <1>4, <1>7, <2>2, <2>3, <2>4, HolderIs DEF InSeq
    <3>2. Holders(t) = {<<"queue", waitq[t]>>}
      BY <3>1
    <3> QED BY Zenon, <3>2, FS_Singleton
  <2>5. CASE t \in sleepers
    <3>1. \A h : h \in Holders(t) <=> h = <<"sleep", t>>
      BY Zenon, <1>2, <1>4, <1>7, <2>2, <2>3, <2>5, HolderIs DEF InSeq
    <3>2. Holders(t) = {<<"sleep", t>>}
      BY <3>1
    <3> QED BY Zenon, <3>2, FS_Singleton
  <2>6. ASSUME NEW w \in Thread, t \in batch[w] PROVE Cardinality(Holders(t)) = 1
    <3>1. \A v \in Thread : t \in batch[v] => v = w
      BY ZenonT(60), <2>6 DEF Inv, PlaceInv
    <3>2. \A h : h \in Holders(t) <=> h = <<"batch", w>>
      BY Zenon, <1>2, <1>4, <1>7, <2>3, <2>6, <3>1, HolderIs DEF InSeq
    <3>3. Holders(t) = {<<"batch", w>>}
      BY <3>2
    <3> QED BY ZenonT(60), <3>3, FS_Singleton
  <2> QED BY Zenon, <2>1, <2>4, <2>5, <2>6
<1>8. ASSUME state[t] = "DEAD" PROVE Cardinality(Holders(t)) = 1
  <2>1. /\ InSeq(zombies, t) \/ t = corpse \/ t \in reaped
        /\ InSeq(zombies, t) => t # corpse /\ t \notin reaped
        /\ t = corpse => t \notin reaped
    BY Zenon, <1>8 DEF HeldInv
  <2>2. CASE InSeq(zombies, t)
    <3>1. PICK i \in 1..Len(zombies) : zombies[i] = t
      BY Zenon, <2>2 DEF InSeq
    <3>2. \A j \in 1..Len(zombies) : zombies[j] = t => j = i
      BY Zenon, <3>1 DEF HeldInv, Distinct
    <3>3. \A h : h \in Holders(t) <=> h = <<"zombie", i>>
      BY ZenonT(60), <1>2, <1>3, <1>8, <2>1, <2>2, <3>1, <3>2, HolderIs DEF InSeq
    <3>4. Holders(t) = {<<"zombie", i>>}
      BY <3>3
    <3> QED BY Zenon, <3>4, FS_Singleton
  <2>3. CASE t = corpse
    <3>1. \A h : h \in Holders(t) <=> h = <<"corpse", t>>
      BY Zenon, <1>2, <1>3, <1>8, <2>1, <2>3, HolderIs DEF InSeq
    <3>2. Holders(t) = {<<"corpse", t>>}
      BY <3>1
    <3> QED BY Zenon, <3>2, FS_Singleton
  <2>4. CASE t \in reaped
    <3>1. \A h : h \in Holders(t) <=> h = <<"gone", t>>
      BY Zenon, <1>2, <1>3, <1>8, <2>1, <2>4, HolderIs DEF InSeq
    <3>2. Holders(t) = {<<"gone", t>>}
      BY <3>1
    <3> QED BY Zenon, <3>2, FS_Singleton
  <2> QED BY Zenon, <2>1, <2>2, <2>3, <2>4
<1> QED BY Zenon, <1>1, <1>5, <1>6, <1>7, <1>8

\* A thread that is not running is in exactly one list or one waker's hands, whoever parks,
\* wakes, kills, expires or reaps it and in whatever order: no wake is lost by a thread
\* falling out of every list, and none is delivered twice (block_if, claim, wake_matching,
\* wake_sleeper, the expiry scans, task_kill, exit_current, reaper_main).
THEOREM HeldExactlyOnce == Spec => []HeldOnce
<1>1. Spec => []HeldInv
  BY InitHeld, NextHeld, Invariance, PTL DEF Spec
<1>2. Inv /\ HeldInv => HeldOnce
  BY HeldCount
<1> QED BY <1>1, <1>2, Invariance, PTL

\* A waiter whose signals are asserted has a waker on its way to it, a parked reaper with a
\* zombie to bury is about to be kicked, and a preemption request is pending only where it
\* will be served before the thread parks or dies: whatever the interleaving of signal_set,
\* block_if's predicate, wake_matching's passes, exit_current and the interrupts.
THEOREM NoneForgotten == Spec => []NothingForgotten
<1> QED BY InitOwed, NextOwed, Invariance, PTL DEF Spec
=============================================================================
