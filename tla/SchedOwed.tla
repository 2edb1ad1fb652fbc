----------------------------- MODULE SchedOwed ------------------------------
(***************************************************************************)
(* Beside the invariant of the scheduler every step preserves two more     *)
(* things: a thread that does not run is held in one place (HeldInv), and  *)
(* the wake-ups, the reaper's kick and the deferred preemptions that are   *)
(* due are on their way (NothingForgotten).                                *)
(***************************************************************************)
EXTENDS SchedMoves

USE DEF cpuVars, lockVars, timeVars, threadVars, waitVars, reapVars

----------------------------------------------------------------------------
(* No thread falls out of every list.                                      *)

\* The threads that can be born are threads, and none is not one.
LEMMA SpawnedThreads == Spawned \subseteq Thread /\ none \notin Thread /\ reaper \in Spawned
BY Zenon, DisjointAssumption DEF Spawned, Thread

\* At boot every thread is in one place.
LEMMA InitHeld == Init => HeldInv
<1> SUFFICES ASSUME Init PROVE HeldInv
  OBVIOUS
<1>1. Len(runq) = 1 /\ runq[1] = reaper /\ Len(zombies) = 0
  BY DEF Init
<1>2. InSeq(runq, reaper)
  BY <1>1 DEF InSeq
<1>3. \A t : ~InSeq(zombies, t)
  BY <1>1 DEF InSeq
<1>4. Distinct(zombies)
  BY <1>1 DEF Distinct
<1>5. \A t \in Spawned : state[t] = "READY" /\ (pc[t] # "new" => t = reaper)
  BY Zenon, DisjointAssumption DEF Init, Spawned, Thread
<1>6. reaped = {} /\ \A c \in Core : cpc[c] # "switch"
  BY Zenon DEF Init
<1> QED BY Zenon, <1>2, <1>3, <1>4, <1>5, <1>6 DEF HeldInv

\* A step that moves no thread between lists.
LEMMA QuietHeld ==
  ASSUME HeldInv,
         UNCHANGED <<runq, next, state, waitq, sleepers, batch, zombies, corpse, reaped, current>>,
         \A t \in Thread : pc'[t] # "new" => pc[t] # "new",
         \A d \in Core : cpc'[d] = "switch" => cpc[d] = "switch"
  PROVE  HeldInv'
<1>1. \A t \in Spawned : state'[t] = "READY" /\ pc'[t] # "new" =>
        InSeq(runq', t) \/ \E d \in Core : next'[d] = t
  BY Zenon, SpawnedThreads DEF HeldInv
<1>2. \A t \in Spawned : state'[t] = "BLOCKED" =>
        waitq'[t] # none \/ t \in sleepers' \/ \E w \in Thread : t \in batch'[w]
  BY Zenon DEF HeldInv
<1>3. \A t \in Spawned : state'[t] = "DEAD" => InSeq(zombies', t) \/ t = corpse' \/ t \in reaped'
  BY Zenon DEF HeldInv
<1>4. /\ Distinct(zombies') /\ ~InSeq(zombies', corpse') /\ corpse' \notin reaped'
      /\ \A t \in reaped' : ~InSeq(zombies', t)
  BY Zenon DEF HeldInv
<1>5. \A d \in Core : cpc'[d] = "switch" /\ current'[d] \in Spawned => state'[current'[d]] # "RUNNING"
  BY Zenon DEF HeldInv
<1> QED BY Zenon, <1>1, <1>2, <1>3, <1>4, <1>5 DEF HeldInv

\* The running thread goes on in its own code.
LEMMA GotoHeld ==
  ASSUME Inv, HeldInv, NEW c \in Core, cpc[c] = "run", NEW p, Goto(current[c], p),
         UNCHANGED <<runq, next, state, waitq, sleepers, batch, zombies, corpse, reaped, current>>,
         cpc' = cpc \/ cpc' = [cpc EXCEPT ![c] = "service"]
  PROVE  HeldInv'
<1>1. current[c] \in Thread /\ pc[current[c]] # "new" /\ pc \in [Thread -> Points]
  BY Zenon, Running DEF Inv, TypeOK
<1>2. \A t \in Thread : pc'[t] # "new" => pc[t] # "new"
  BY Zenon, <1>1 DEF Goto
<1>3. \A d \in Core : cpc'[d] = "switch" => cpc[d] = "switch"
  BY Zenon DEF Inv, TypeOK
<1> QED BY Zenon, <1>2, <1>3, QuietHeld

\* A core goes on in an interrupt handler or finishes its switch.
LEMMA CoreHeld ==
  ASSUME Inv, HeldInv, NEW c \in Core, NEW q, q # "switch", cpc' = [cpc EXCEPT ![c] = q],
         UNCHANGED <<runq, next, state, waitq, sleepers, batch, zombies, corpse, reaped, current, pc>>
  PROVE  HeldInv'
<1>1. \A d \in Core : cpc'[d] = "switch" => cpc[d] = "switch"
  BY Zenon DEF Inv, TypeOK
<1> QED BY Zenon, <1>1, QuietHeld

\* The steps that move no thread between lists keep everybody held once.
LEMMA MovesHeld ==
  ASSUME Inv, HeldInv, NEW c \in Core,
         \/ EnterCritical(c) \/ LeaveCritical(c) \/ EnablePreempt(c)
         \/ CheckSignals(c) \/ TimedWaitRegister(c) \/ BlockIfRefused(c) \/ ReleaseRefused(c)
         \/ Woke(c) \/ TimedWaitUnregister(c) \/ LoadSignals(c) \/ WakeDone(c) \/ Boundary(c)
         \/ BeginExit(c) \/ SignalTerminated(c) \/ ExitDone(c)
         \/ Tick(c) \/ ReschedIPI(c) \/ TickLock(c) \/ TickDecide(c) \/ FinishSwitch(c)
  PROVE  HeldInv'
<1>1. CASE EnterCritical(c) \/ LeaveCritical(c) \/ EnablePreempt(c)
  BY ZenonT(60), <1>1, GotoHeld DEF EnterCritical, LeaveCritical, EnablePreempt, At, OnlyPc
<1>2. CASE CheckSignals(c) \/ TimedWaitRegister(c) \/ TimedWaitUnregister(c)
  BY ZenonT(60), <1>2, GotoHeld DEF CheckSignals, TimedWaitRegister, TimedWaitUnregister, At
<1>3. CASE BlockIfRefused(c) \/ ReleaseRefused(c) \/ Woke(c)
  BY ZenonT(60), <1>3, GotoHeld DEF BlockIfRefused, ReleaseRefused, Woke, At, OnlyPc
<1>4. CASE LoadSignals(c) \/ WakeDone(c) \/ SignalTerminated(c)
  BY ZenonT(60), <1>4, GotoHeld DEF LoadSignals, WakeDone, SignalTerminated, At
<1>5. CASE Boundary(c) \/ BeginExit(c) \/ ExitDone(c)
  BY ZenonT(60), <1>5, GotoHeld DEF Boundary, BeginExit, ExitDone, At, OnlyPc
<1>6. CASE Tick(c) \/ ReschedIPI(c)
  BY ZenonT(60), <1>6, CoreHeld DEF Tick, ReschedIPI
<1>7. CASE TickLock(c) \/ TickDecide(c) \/ FinishSwitch(c)
  BY ZenonT(60), <1>7, CoreHeld DEF TickLock, TickDecide, FinishSwitch
<1> QED BY Zenon, <1>1, <1>2, <1>3, <1>4, <1>5, <1>6, <1>7

\* wait_signals begins, signal_set and signal_clear.
LEMMA CallsHeld ==
  ASSUME Inv, HeldInv, NEW c \in Core, NEW o, NEW m, NEW h, NEW d,
         BeginWait(c, o, m, h, d) \/ SignalSet(c, o, m) \/ SignalClear(c, o, m)
  PROVE  HeldInv'
BY ZenonT(60), GotoHeld DEF BeginWait, SignalSet, SignalClear, At

----------------------------------------------------------------------------
(* Steps that move a thread from one list to another.                      *)

\* make_ready moves a parked thread to the run queue.
LEMMA ReadyHeld ==
  ASSUME Inv, HeldInv, NEW s \in Spawned, state[s] = "BLOCKED", MakeReady(s),
         UNCHANGED <<next, current, cpc, zombies, corpse, reaped>>,
         \A t \in Thread : pc'[t] # "new" => pc[t] # "new",
         \A t \in Spawned : t # s => /\ waitq'[t] = waitq[t] /\ (t \in sleepers => t \in sleepers')
                                     /\ \A w \in Thread : t \in batch[w] => t \in batch'[w]
  PROVE  HeldInv'
<1>1. \A t : InSeq(runq', t) <=> InSeq(runq, t) \/ t = s
  BY Zenon, AppendFacts DEF Inv, TypeOK, MakeReady
<1>2. state'[s] = "READY" /\ \A t \in Thread : t # s => state'[t] = state[t]
  BY Zenon, SpawnedThreads DEF Inv, TypeOK, MakeReady
<1>3. \A t \in Spawned : state'[t] = "READY" /\ pc'[t] # "new" =>
        InSeq(runq', t) \/ \E d \in Core : next'[d] = t
  BY Zenon, <1>1, <1>2, SpawnedThreads DEF HeldInv
<1>4. ASSUME NEW t \in Spawned, state'[t] = "BLOCKED"
      PROVE  waitq'[t] # none \/ t \in sleepers' \/ \E w \in Thread : t \in batch'[w]
  <2>1. t # s /\ state[t] = "BLOCKED"
    BY Zenon, <1>2, <1>4, SpawnedThreads
  <2>2. waitq[t] # none \/ t \in sleepers \/ \E w \in Thread : t \in batch[w]
    BY Zenon, <2>1 DEF HeldInv
  <2> QED BY Zenon, <2>1, <2>2
<1>5. \A t \in Spawned : state'[t] = "DEAD" => InSeq(zombies', t) \/ t = corpse' \/ t \in reaped'
  BY Zenon, <1>2, SpawnedThreads DEF HeldInv
<1>6. \A d \in Core : cpc'[d] = "switch" /\ current'[d] \in Spawned => state'[current'[d]] # "RUNNING"
  BY Zenon, <1>2, SpawnedThreads DEF HeldInv
<1> QED BY Zenon, <1>3, <1>4, <1>5, <1>6 DEF HeldInv

\* The tick's scan moves an expired sleeper or timed waiter from its list to the run queue.
LEMMA VisitHeld ==
  ASSUME Inv, HeldInv, NEW c \in Core, NEW s \in scan, VisitSleeper(c, s) \/ VisitTimedWait(c, s)
  PROVE  HeldInv'
<1>1. s \in Spawned /\ s \in Thread
  BY Zenon, SpawnedThreads DEF Inv, TypeOK
<1>2. CASE VisitSleeper(c, s)
  <2>1. CASE timer[s] = 0
    <3>1. state[s] = "BLOCKED"
      BY Zenon, <1>2 DEF VisitSleeper, Inv, PlaceInv
    <3> QED BY ZenonT(60), <1>1, <1>2, <2>1, <3>1, ReadyHeld DEF VisitSleeper
  <2>2. CASE timer[s] # 0
    BY ZenonT(60), <1>2, <2>2, QuietHeld DEF VisitSleeper
  <2> QED BY Zenon, <2>1, <2>2
<1>3. CASE VisitTimedWait(c, s)
  <2>1. CASE timer[s] = 0 /\ Claims(s)
    <3>1. state[s] = "BLOCKED"
      BY Zenon, <1>1, <2>1 DEF Claims, Inv, PlaceInv
    <3>2. \A t \in Spawned : t # s => waitq'[t] = waitq[t]
      BY Zenon, <1>1, <1>3, <2>1, SpawnedThreads DEF VisitTimedWait, Inv, TypeOK
    <3> QED BY ZenonT(60), <1>1, <1>3, <2>1, <3>1, <3>2, ReadyHeld DEF VisitTimedWait
  <2>2. CASE ~(timer[s] = 0 /\ Claims(s))
    BY ZenonT(60), <1>3, <2>2, QuietHeld DEF VisitTimedWait
  <2> QED BY Zenon, <2>1, <2>2
<1> QED BY Zenon, <1>2, <1>3

\* A waker moves a thread from its hands to the run queue.
LEMMA WakeTakenHeld ==
  ASSUME Inv, HeldInv, NEW c \in Core, NEW s \in batch[current[c]], WakeTaken(c, s)
  PROVE  HeldInv'
<1>1. current[c] \in Thread /\ s \in Spawned /\ state[s] = "BLOCKED"
  BY Zenon DEF Inv, TypeOK, PlaceInv
<1>2. \A t \in Spawned, w \in Thread : t # s /\ t \in batch[w] => t \in batch'[w]
  BY Zenon, <1>1 DEF WakeTaken, Inv, TypeOK
<1> QED BY ZenonT(60), <1>1, <1>2, ReadyHeld DEF WakeTaken

\* Kill takes a parked thread off its list and queues it, or leaves it where it is.
LEMMA KillHeld ==
  ASSUME Inv, HeldInv, NEW c \in Core, NEW v \in User, Kill(c, v)
  PROVE  HeldInv'
<1>1. /\ current[c] \in Thread /\ pc[current[c]] # "new" /\ v \in Spawned /\ v \in Thread
      /\ pc' = [pc EXCEPT ![current[c]] = Return(current[c])] /\ pc \in [Thread -> Points]
  BY Zenon DEF Inv, TypeOK, Kill, At, Goto, Spawned, Thread
<1>2. \A t \in Thread : pc'[t] # "new" => pc[t] # "new"
  BY Zenon, <1>1
<1>3. CASE waitq[v] # none \/ v \in sleepers
  <2>1. state[v] = "BLOCKED"
    BY Zenon, <1>1, <1>3 DEF Inv, PlaceInv
  <2>2. \A t \in Spawned : t # v => waitq'[t] = waitq[t]
    BY Zenon, <1>1, <1>3, SpawnedThreads DEF Kill, Inv, TypeOK
  <2> QED BY ZenonT(60), <1>1, <1>2, <1>3, <2>1, <2>2, ReadyHeld DEF Kill
<1>4. CASE ~(waitq[v] # none \/ v \in sleepers)
  BY ZenonT(60), <1>2, <1>4, QuietHeld DEF Kill
<1> QED BY Zenon, <1>3, <1>4

\* block_if and sleep_ticks park the running thread.
LEMMA ParkHeld ==
  ASSUME Inv, HeldInv, NEW c \in Core, NEW t, t = current[c], cpc[c] = "run", pc[t] \notin OutPoints,
         state[t] = "RUNNING", state' = [state EXCEPT ![t] = "BLOCKED"], NEW p, Goto(t, p),
         waitq'[t] # none \/ t \in sleepers',
         \A s \in Spawned : s # t => waitq'[s] = waitq[s] /\ (s \in sleepers => s \in sleepers'),
         UNCHANGED <<runq, next, batch, zombies, corpse, reaped, current, cpc>>
  PROVE  HeldInv'
<1>1. t \in Thread /\ pc[t] # "new" /\ pc \in [Thread -> Points]
  BY Zenon, Running DEF Inv, TypeOK
<1>2. \A s \in Thread : pc'[s] # "new" => pc[s] # "new"
  BY Zenon, <1>1 DEF Goto
<1>3. state'[t] = "BLOCKED" /\ \A s \in Thread : s # t => state'[s] = state[s]
  BY Zenon, <1>1 DEF Inv, TypeOK
<1>4. \A s \in Spawned : state'[s] = "READY" /\ pc'[s] # "new" =>
        InSeq(runq', s) \/ \E d \in Core : next'[d] = s
  BY ZenonT(60), <1>2, <1>3, SpawnedThreads DEF HeldInv
<1>5. ASSUME NEW s \in Spawned, state'[s] = "BLOCKED", s # t
      PROVE  waitq'[s] # none \/ s \in sleepers' \/ \E w \in Thread : s \in batch'[w]
  <2>1. waitq[s] # none \/ s \in sleepers \/ \E w \in Thread : s \in batch[w]
    BY Zenon, <1>3, <1>5, SpawnedThreads DEF HeldInv
  <2> QED BY Zenon, <1>5, <2>1
<1>6. \A s \in Spawned : state'[s] = "DEAD" => InSeq(zombies', s) \/ s = corpse' \/ s \in reaped'
  BY Zenon, <1>3, SpawnedThreads DEF HeldInv
<1>7. ASSUME NEW d \in Core, cpc'[d] = "switch", current'[d] \in Spawned
      PROVE  state'[current'[d]] # "RUNNING"
  <2>1. current'[d] = current[d] /\ cpc[d] = "switch" /\ current[d] \in Thread
    BY Zenon, <1>7, SpawnedThreads
  <2>2. state[current[d]] # "RUNNING"
    BY Zenon, <1>7, <2>1 DEF HeldInv
  <2> QED BY Zenon, <1>3, <2>1, <2>2
<1> QED BY Zenon, <1>4, <1>5, <1>6, <1>7 DEF HeldInv

\* block_if puts the current thread on one wait list.
LEMMA BlockIfHeld ==
  ASSUME Inv, HeldInv, NEW c \in Core, BlockIf(c)
  PROVE  HeldInv'
<1>1. PICK t : t = current[c]
  OBVIOUS
<1>2. /\ cpc[c] = "run" /\ pc[t] = "block" /\ state[t] = "RUNNING" /\ t \in Thread /\ t \in Spawned
  BY Zenon, <1>1, Running DEF BlockIf, At, OutPoints, DyingPoints, WakerPoints
<1>3. req[t].obj # none
  <2>1. t \in User \cup Kernel => req[t].obj \in Obj
    BY Zenon, <1>2 DEF Inv, WaitInv, WaitPoints
  <2>2. t = reaper => req[t].obj = reaper
    BY Zenon, <1>2 DEF Inv, WaitInv, WaitPoints
  <2> QED BY Zenon, <1>2, <2>1, <2>2, DisjointAssumption DEF Obj, Spawned, Thread
<1>4. waitq' = [waitq EXCEPT ![t] = req[t].obj] /\ waitq \in [Thread -> Queue \cup {none}]
  BY Zenon, <1>1 DEF BlockIf, Inv, TypeOK
<1>5. waitq'[t] # none /\ \A s \in Spawned : s # t => waitq'[s] = waitq[s]
  BY Zenon, <1>2, <1>3, <1>4, SpawnedThreads
<1>6. pc[t] \notin OutPoints
  BY Zenon, <1>2 DEF OutPoints
<1>7. /\ state' = [state EXCEPT ![t] = "BLOCKED"] /\ Goto(t, "block_out")
      /\ UNCHANGED <<runq, next, batch, zombies, corpse, reaped, current, cpc, sleepers>>
  BY Zenon, <1>1 DEF BlockIf
<1> QED BY Zenon, <1>1, <1>2, <1>5, <1>6, <1>7, ParkHeld

\* sleep puts the current thread on the list of sleepers, unless it was killed.
LEMMA SleepHeld ==
  ASSUME Inv, HeldInv, NEW c \in Core, NEW d, Sleep(c, d)
  PROVE  HeldInv'
<1>1. PICK t : t = current[c]
  OBVIOUS
<1>2. /\ cpc[c] = "run" /\ pc[t] = "run" /\ state[t] = "RUNNING"
  BY Zenon, <1>1, Running DEF Sleep, At, OutPoints, DyingPoints, WakerPoints
<1>3. CASE killed[t]
  BY ZenonT(60), <1>1, <1>2, <1>3, GotoHeld DEF Sleep
<1>4. CASE ~killed[t]
  <2>1. /\ state' = [state EXCEPT ![t] = "BLOCKED"] /\ sleepers' = sleepers \cup {t}
        /\ Goto(t, "sleep_out")
        /\ UNCHANGED <<runq, next, batch, zombies, corpse, reaped, current, cpc, waitq>>
    BY Zenon, <1>1, <1>4 DEF Sleep
  <2>2. pc[t] \notin OutPoints /\ t \in sleepers'
    BY Zenon, <1>2, <2>1 DEF OutPoints
  <2>3. \A s \in Spawned : s # t => waitq'[s] = waitq[s] /\ (s \in sleepers => s \in sleepers')
    BY Zenon, <2>1
  <2> QED BY Zenon, <1>1, <1>2, <2>1, <2>2, <2>3, ParkHeld
<1> QED BY Zenon, <1>3, <1>4

\* wake_matching and wake_one move parked threads into the waker's hands.
LEMMA TakeHeld ==
  ASSUME Inv, HeldInv, NEW c \in Core, NEW t, t = current[c], cpc[c] = "run", pc[t] \in {"scan", "kick"},
         NEW taken, batch' = [batch EXCEPT ![t] = taken], waitq' = Unlink(taken), NEW p, Goto(t, p),
         UNCHANGED <<runq, next, state, sleepers, zombies, corpse, reaped, current, cpc>>
  PROVE  HeldInv'
<1>1. t \in Thread /\ pc[t] # "new" /\ batch[t] = {} /\ pc \in [Thread -> Points]
  BY Zenon, Running DEF Inv, TypeOK
<1>2. \A s \in Thread : pc'[s] # "new" => pc[s] # "new"
  BY Zenon, <1>1 DEF Goto
<1>3. /\ \A s \in taken : s \in batch'[t]
      /\ \A w \in Thread : \A s \in batch[w] : s \in batch'[w]
  BY Zenon, <1>1 DEF Inv, TypeOK
<1>4. \A s \in Thread : s \notin taken => waitq'[s] = waitq[s]
  BY Zenon DEF Unlink
<1>5. ASSUME NEW s \in Spawned, state'[s] = "BLOCKED"
      PROVE  waitq'[s] # none \/ s \in sleepers' \/ \E w \in Thread : s \in batch'[w]
  <2>1. waitq[s] # none \/ s \in sleepers \/ \E w \in Thread : s \in batch[w]
    BY Zenon, <1>5 DEF HeldInv
  <2> QED BY Zenon, <1>1, <1>3, <1>4, <2>1, SpawnedThreads
<1>6. \A s \in Spawned : state'[s] = "READY" /\ pc'[s] # "new" =>
        InSeq(runq', s) \/ \E d \in Core : next'[d] = s
  BY Zenon, <1>2, SpawnedThreads DEF HeldInv
<1> QED BY Zenon, <1>5, <1>6 DEF HeldInv

\* A waker, or the kick of the reaper, has each thread it takes in its hands alone.
LEMMA TakersHeld ==
  ASSUME Inv, HeldInv, NEW c \in Core, (\E taken : TakeBatch(c, taken)) \/ ReaperKick(c)
  PROVE  HeldInv'
<1>1. CASE ReaperKick(c)
  BY ZenonT(60), <1>1, TakeHeld DEF ReaperKick, At
<1>2. ASSUME NEW taken, TakeBatch(c, taken) PROVE HeldInv'
  <2>1. Goto(current[c], "batch") \/ Goto(current[c], "more")
    BY Zenon, <1>2 DEF TakeBatch
  <2>2. /\ cpc[c] = "run" /\ pc[current[c]] = "scan"
        /\ batch' = [batch EXCEPT ![current[c]] = taken] /\ waitq' = Unlink(taken)
        /\ UNCHANGED <<runq, next, state, sleepers, zombies, corpse, reaped, current, cpc>>
    BY Zenon, <1>2 DEF TakeBatch, At
  <2> QED BY Zenon, <2>1, <2>2, TakeHeld
<1> QED BY Zenon, <1>1, <1>2

\* A core picks its next thread; its own goes behind it if it was running.
LEMMA PickHeld ==
  ASSUME Inv, HeldInv, NEW c \in Core, NEW t, t = current[c], cpc[c] \notin {"switch", "finish"},
         NEW k \in Pickable, next' = [next EXCEPT ![c] = runq[k]], cpc' = [cpc EXCEPT ![c] = "switch"],
         \A s \in Thread : pc'[s] # "new" => pc[s] # "new",
         UNCHANGED <<current, waitq, sleepers, batch, zombies, corpse, reaped>>,
         \/ runq' = AfterPick(k) /\ state' = state /\ (t \in Spawned => state[t] # "RUNNING")
         \/ runq' = Append(AfterPick(k), t) /\ state' = [state EXCEPT ![t] = "READY"] /\ t \in Spawned
  PROVE  HeldInv'
<1>1. t \in Thread /\ next[c] = none /\ runq \in Seq(Spawned) /\ Distinct(runq)
  <2>1. t \in Thread /\ runq \in Seq(Spawned)
    BY Zenon DEF Inv, TypeOK
  <2>2. next[c] = none
    BY Zenon DEF Inv, CpuInv
  <2>3. Distinct(runq)
    BY Zenon DEF Inv, PlaceInv
  <2> QED BY Zenon, <2>1, <2>2, <2>3
<1>2. /\ AfterPick(k) \in Seq(Spawned)
      /\ \A s : InSeq(AfterPick(k), s) <=> InSeq(runq, s) /\ s # runq[k]
  BY Zenon, <1>1, PickFacts
<1>3. /\ \A s : InSeq(runq, s) /\ s # runq[k] => InSeq(runq', s)
      /\ runq' = Append(AfterPick(k), t) /\ t \in Spawned => InSeq(runq', t)
  <2>1. PICK a : a = AfterPick(k)
    OBVIOUS
  <2>2. a \in Seq(Spawned) /\ \A s : InSeq(a, s) <=> InSeq(runq, s) /\ s # runq[k]
    BY Zenon, <1>2, <2>1
  <2>3. ASSUME t \in Spawned PROVE \A s : InSeq(Append(a, t), s) <=> InSeq(a, s) \/ s = t
    <3>1. a \in Seq(Spawned)
      BY Zenon, <2>2
    <3> QED BY ONLY Zenon, <2>3, <3>1, AppendFacts
  <2> QED BY Zenon, <2>1, <2>2, <2>3
<1>4. \A s \in Thread : s # t => state'[s] = state[s]
  BY ZenonT(60), <1>1 DEF Inv, TypeOK
<1>5. \/ state'[t] = state[t] /\ (t \in Spawned => state[t] # "RUNNING")
      \/ state'[t] = "READY" /\ InSeq(runq', t)
  BY Zenon, <1>1, <1>3 DEF Inv, TypeOK
<1>6. /\ next'[c] = runq[k] /\ cpc'[c] = "switch"
      /\ \A d \in Core : d # c => next'[d] = next[d] /\ cpc'[d] = cpc[d]
  BY Zenon DEF Inv, TypeOK
<1>7. ASSUME NEW s \in Spawned, state'[s] = "READY", pc'[s] # "new"
      PROVE  InSeq(runq', s) \/ \E d \in Core : next'[d] = s
  <2>1. s \in Thread /\ s # none /\ pc[s] # "new"
    BY Zenon, <1>7, SpawnedThreads
  <2>2. InSeq(runq', s) \/ state[s] = "READY"
    BY Zenon, <1>4, <1>5, <1>7, <2>1
  <2>3. ASSUME state[s] = "READY" PROVE InSeq(runq, s) \/ \E d \in Core : d # c /\ next[d] = s
    BY Zenon, <1>1, <2>1, <2>3 DEF HeldInv
  <2> QED BY Zenon, <1>3, <1>6, <2>2, <2>3
<1>8. ASSUME NEW s \in Spawned PROVE state'[s] \in {"BLOCKED", "DEAD"} => state'[s] = state[s]
  BY Zenon, <1>4, <1>5, SpawnedThreads
<1>9. \A s \in Spawned : state'[s] = "BLOCKED" =>
        waitq'[s] # none \/ s \in sleepers' \/ \E w \in Thread : s \in batch'[w]
  BY Zenon, <1>8 DEF HeldInv
<1>10. \A s \in Spawned : state'[s] = "DEAD" => InSeq(zombies', s) \/ s = corpse' \/ s \in reaped'
  BY Zenon, <1>8 DEF HeldInv
<1>11. ASSUME NEW d \in Core, cpc'[d] = "switch", current'[d] \in Spawned
       PROVE  state'[current'[d]] # "RUNNING"
  <2>1. CASE d = c
    BY Zenon, <1>5, <1>11, <2>1
  <2>2. CASE d # c
    <3>1. current[d] \in Thread /\ current[d] # t /\ cpc[d] = "switch"
      BY Zenon, <1>6, <1>11, <2>2 DEF Inv, TypeOK, CpuInv
    <3> QED BY ZenonT(60), <1>4, <1>11, <3>1 DEF HeldInv
  <2> QED BY Zenon, <2>1, <2>2
<1> QED BY Zenon, <1>7, <1>9, <1>10, <1>11 DEF HeldInv

\* sched_yield and the preemption hook.
LEMMA RequeueHeld ==
  ASSUME Inv, HeldInv, NEW c \in Core, PickAndRequeue(c), cpc[c] \notin {"switch", "finish"},
         \A s \in Thread : pc'[s] # "new" => pc[s] # "new",
         UNCHANGED <<current, waitq, sleepers, batch, zombies, corpse, reaped>>
  PROVE  HeldInv'
<1> DEFINE t == current[c]
<1>1. PICK k \in Pickable : /\ next' = [next EXCEPT ![c] = runq[k]]
                            /\ cpc' = [cpc EXCEPT ![c] = "switch"]
                            /\ IF t = c
                               THEN runq' = AfterPick(k) /\ UNCHANGED state
                               ELSE /\ runq' = Append(AfterPick(k), t)
                                    /\ state' = [state EXCEPT ![t] = "READY"]
  BY ZenonT(60) DEF PickAndRequeue, Idle
<1>2. (t = c => t \notin Spawned) /\ (t # c => t \in Spawned)
  <2>1. t \in Thread
    BY Zenon DEF Inv, TypeOK
  <2>2. t \in Core => t = c
    BY Zenon DEF Inv, CpuInv
  <2> QED BY Zenon, <2>1, <2>2, DisjointAssumption DEF Thread, Spawned
<1>3. PICK u : u = t
  OBVIOUS
<1> HIDE DEF t
<1>4. CASE t = c
  <2>1. runq' = AfterPick(k) /\ state' = state /\ u \notin Spawned
    BY Zenon, <1>1, <1>2, <1>3, <1>4
  <2> QED BY Zenon, <1>1, <1>3, <2>1, PickHeld DEF t
<1>5. CASE t # c
  <2>1. runq' = Append(AfterPick(k), u) /\ state' = [state EXCEPT ![u] = "READY"] /\ u \in Spawned
    BY Zenon, <1>1, <1>2, <1>3, <1>5
  <2> QED BY Zenon, <1>1, <1>3, <2>1, PickHeld DEF t
<1> QED BY Zenon, <1>4, <1>5

\* yield queues the current thread as it picks the next one.
LEMMA YieldHeld ==
  ASSUME Inv, HeldInv, NEW c \in Core, Yield(c)
  PROVE  HeldInv'
<1>1. /\ cpc[c] = "run" /\ current[c] \in Thread /\ pc[current[c]] # "new"
      /\ Goto(current[c], Return(current[c])) /\ pc \in [Thread -> Points]
      /\ UNCHANGED <<current, waitq, sleepers, batch, zombies, corpse, reaped>>
  BY Zenon DEF Yield, At, Inv, TypeOK
<1>2. \A s \in Thread : pc'[s] # "new" => pc[s] # "new"
  BY Zenon, <1>1 DEF Goto
<1>3. CASE Pickable = {}
  BY Zenon, <1>1, <1>3, GotoHeld DEF Yield
<1>4. CASE Pickable # {}
  BY Zenon, <1>1, <1>2, <1>4, RequeueHeld DEF Yield
<1> QED BY Zenon, <1>3, <1>4

\* The deferred preemption queues the current thread as it picks the next one.
LEMMA ServiceHeld ==
  ASSUME Inv, HeldInv, NEW c \in Core, Service(c)
  PROVE  HeldInv'
<1>1. /\ cpc[c] = "service" /\ current[c] \in Thread /\ pc \in [Thread -> Points]
      /\ UNCHANGED <<current, waitq, sleepers, batch, zombies, corpse, reaped>>
  BY Zenon DEF Service, Inv, TypeOK
<1>2. \A s \in Thread : s # current[c] => pc'[s] = pc[s]
  BY Zenon, <1>1 DEF Service
<1>3. pc[current[c]] # "new"
  BY Zenon, <1>1 DEF Inv, StateInv, CpuInv
<1>4. \A s \in Thread : pc'[s] # "new" => pc[s] # "new"
  BY Zenon, <1>2, <1>3
<1>5. PickAndRequeue(c) \/ (cpc' = [cpc EXCEPT ![c] = "run"] /\ UNCHANGED <<next, runq, state>>)
  BY Zenon DEF Service
<1>6. CASE PickAndRequeue(c)
  BY Zenon, <1>1, <1>4, <1>6, RequeueHeld
<1>7. CASE cpc' = [cpc EXCEPT ![c] = "run"] /\ UNCHANGED <<next, runq, state>>
  <2>1. \A d \in Core : cpc'[d] = "switch" => cpc[d] = "switch"
    BY Zenon, <1>7 DEF Inv, TypeOK
  <2> QED BY Zenon, <1>1, <1>4, <1>7, <2>1, QuietHeld
<1> QED BY Zenon, <1>5, <1>6, <1>7

\* schedule_out: the thread that leaves is parked, ready again or dead.
LEMMA ScheduleOutHeld ==
  ASSUME Inv, HeldInv, NEW c \in Core, ScheduleOut(c)
  PROVE  HeldInv'
<1>1. PICK t : t = current[c]
  OBVIOUS
<1>2. /\ cpc[c] = "run" /\ pc[t] \in {"block_out", "sleep_out", "exit_out"} /\ t \in Thread
      /\ Goto(t, Resume(t)) /\ cpc' = [cpc EXCEPT ![c] = "switch"] /\ state' = state
      /\ UNCHANGED <<current, waitq, sleepers, batch, zombies, corpse, reaped>>
  BY Zenon, <1>1 DEF ScheduleOut, Inv, TypeOK
<1>3. state[t] # "RUNNING"
  BY Zenon, <1>2 DEF Inv, StateInv, OutPoints, DyingPoints
<1>4. \A s \in Thread : pc'[s] # "new" => pc[s] # "new"
  <2>1. pc \in [Thread -> Points] /\ pc[t] # "new"
    BY Zenon, <1>2 DEF Inv, TypeOK
  <2> QED BY Zenon, <1>2, <2>1 DEF Goto
<1>5. ASSUME NEW k \in Pickable, next' = [next EXCEPT ![c] = runq[k]], runq' = AfterPick(k)
      PROVE  HeldInv'
  BY Zenon, <1>1, <1>2, <1>3, <1>4, <1>5, PickHeld
<1>6. CASE next' = [next EXCEPT ![c] = c] /\ UNCHANGED runq
  <2>1. next[c] = none
    BY Zenon, <1>2 DEF Inv, CpuInv
  <2>2. \A d \in Core : d # c => next'[d] = next[d] /\ cpc'[d] = cpc[d]
    BY Zenon, <1>2, <1>6 DEF Inv, TypeOK
  <2>3. ASSUME NEW s \in Spawned, state[s] = "READY", pc'[s] # "new"
        PROVE  InSeq(runq, s) \/ \E d \in Core : next'[d] = s
    <3>1. s # none /\ pc[s] # "new"
      BY Zenon, <1>4, <2>3, SpawnedThreads
    <3>2. InSeq(runq, s) \/ \E d \in Core : next[d] = s
      BY Zenon, <2>3, <3>1 DEF HeldInv
    <3> QED BY Zenon, <2>1, <2>2, <3>1, <3>2
  <2>4. \A d \in Core : cpc'[d] = "switch" /\ current[d] \in Spawned => state[current[d]] # "RUNNING"
    BY Zenon, <1>1, <1>3, <2>2 DEF HeldInv
  <2> QED BY Zenon, <1>2, <1>6, <2>3, <2>4 DEF HeldInv
<1> QED BY Zenon, <1>5, <1>6 DEF ScheduleOut

\* switch_to: the incoming thread leaves the core's hands and runs.
LEMMA SwitchToHeld ==
  ASSUME Inv, HeldInv, NEW c \in Core, SwitchTo(c)
  PROVE  HeldInv'
<1>1. PICK out, in : out = current[c] /\ in = next[c]
  OBVIOUS
<1>2. /\ cpc[c] = "switch" /\ out \in Thread /\ in \in Thread
      /\ state' = [state EXCEPT ![out] = IF @ = "RUNNING" THEN "READY" ELSE @, ![in] = "RUNNING"]
      /\ current' = [current EXCEPT ![c] = in] /\ next' = [next EXCEPT ![c] = none]
      /\ cpc' = [cpc EXCEPT ![c] = "finish"]
      /\ UNCHANGED <<runq, pc, waitq, sleepers, batch, zombies, corpse, reaped>>
  <2>1. cpc[c] = "switch" /\ out \in Thread /\ in \in Thread \cup {none}
    BY Zenon, <1>1 DEF SwitchTo, Inv, TypeOK
  <2>2. in # none
    BY Zenon, <1>1, <2>1 DEF Inv, CpuInv
  <2> QED BY Zenon, <1>1, <2>1, <2>2 DEF SwitchTo
<1>3. /\ on_cpu[out] /\ ~on_cpu[in]
      /\ \A d \in Core : on_cpu[current[d]] /\ (d # c => current[d] # out)
  <2>1. \A d \in Core : on_cpu[current[d]]
    BY Zenon DEF Inv, CpuInv
  <2>2. ~on_cpu[in]
    BY Zenon, <1>1, <1>2 DEF Inv, CpuInv
  <2>3. \A d \in Core : d # c => current[d] # out
    BY Zenon, <1>1 DEF Inv, CpuInv
  <2> QED BY Zenon, <1>1, <2>1, <2>2, <2>3
<1>4. out \in Spawned => state[out] # "RUNNING"
  BY Zenon, <1>1, <1>2 DEF HeldInv
<1>5. state'[in] = "RUNNING" /\ \A s \in Spawned : s # in => state'[s] = state[s]
  <2>1. state \in [Thread -> {"READY", "RUNNING", "BLOCKED", "DEAD"}] /\ in # out
    BY Zenon, <1>3 DEF Inv, TypeOK
  <2>2. \A s \in Thread : s # in => state'[s] = IF s = out /\ state[s] = "RUNNING" THEN "READY" ELSE state[s]
    BY SMT, <1>2, <2>1
  <2>3. state'[in] = "RUNNING"
    BY SMT, <1>2, <2>1
  <2> QED BY Zenon, <1>4, <2>2, <2>3, SpawnedThreads
<1>6. \A d \in Core : d # c => next'[d] = next[d] /\ cpc'[d] = cpc[d] /\ current'[d] = current[d]
  BY Zenon, <1>2 DEF Inv, TypeOK
<1>7. cpc'[c] # "switch"
  BY Zenon, <1>2 DEF Inv, TypeOK
<1>8. ASSUME NEW s \in Spawned, state'[s] = "READY", pc'[s] # "new"
      PROVE  InSeq(runq', s) \/ \E d \in Core : next'[d] = s
  <2>1. s # in /\ state[s] = "READY" /\ pc[s] # "new"
    BY Zenon, <1>2, <1>5, <1>8
  <2>2. InSeq(runq, s) \/ \E d \in Core : next[d] = s
    BY Zenon, <2>1 DEF HeldInv
  <2> QED BY Zenon, <1>1, <1>2, <1>6, <2>1, <2>2
<1>9. \A s \in Spawned : state'[s] = "BLOCKED" =>
        waitq'[s] # none \/ s \in sleepers' \/ \E w \in Thread : s \in batch'[w]
  BY Zenon, <1>2, <1>5 DEF HeldInv
<1>10. \A s \in Spawned : state'[s] = "DEAD" => InSeq(zombies', s) \/ s = corpse' \/ s \in reaped'
  BY Zenon, <1>2, <1>5 DEF HeldInv
<1>11. ASSUME NEW d \in Core, cpc'[d] = "switch", current'[d] \in Spawned
       PROVE  state'[current'[d]] # "RUNNING"
  <2>1. d # c /\ cpc[d] = "switch" /\ current'[d] = current[d] /\ current[d] # in
    BY Zenon, <1>3, <1>6, <1>7, <1>11
  <2>2. state[current[d]] # "RUNNING"
    BY Zenon, <1>11, <2>1 DEF HeldInv
  <2> QED BY Zenon, <1>5, <1>11, <2>1, <2>2
<1> QED BY Zenon, <1>2, <1>8, <1>9, <1>10, <1>11 DEF HeldInv

\* thread_enqueue of a thread that was created.
LEMMA SpawnHeld ==
  ASSUME Inv, HeldInv, NEW c \in Core, NEW s \in User \cup Kernel, Spawn(c, s)
  PROVE  HeldInv'
<1>1. /\ current[c] \in Thread /\ pc \in [Thread -> Points] /\ pc[current[c]] = "run" /\ s \in Spawned
      /\ pc' = [pc EXCEPT ![s] = "run", ![current[c]] = Return(current[c])]
      /\ runq' = Append(runq, s) /\ runq \in Seq(Spawned)
      /\ UNCHANGED <<next, state, waitq, sleepers, batch, zombies, corpse, reaped, current, cpc>>
  BY Zenon DEF Spawn, At, Inv, TypeOK, Spawned
<1>2. \A t \in Thread : t # s /\ t # current[c] => pc'[t] = pc[t]
  BY SMT, <1>1
<1>3. \A t : InSeq(runq', t) <=> InSeq(runq, t) \/ t = s
  BY Zenon, <1>1, AppendFacts
<1>4. ASSUME NEW t \in Spawned, state'[t] = "READY", pc'[t] # "new"
      PROVE  InSeq(runq', t) \/ \E d \in Core : next'[d] = t
  <2>1. t = s \/ pc[t] # "new"
    BY Zenon, <1>1, <1>2, <1>4, SpawnedThreads
  <2>2. CASE t # s
    BY Zenon, <1>1, <1>3, <1>4, <2>1, <2>2 DEF HeldInv
  <2> QED BY Zenon, <1>3, <2>2
<1> QED BY Zenon, <1>1, <1>4 DEF HeldInv

\* exit_current: the thread becomes a zombie.
LEMMA ExitCurrentHeld ==
  ASSUME Inv, HeldInv, NEW c \in Core, ExitCurrent(c)
  PROVE  HeldInv'
<1>1. PICK t : t = current[c]
  OBVIOUS
<1>2. /\ cpc[c] = "run" /\ pc[t] = "exit" /\ t \in Thread /\ state[t] = "RUNNING" /\ t \in User \cup Kernel
  BY Zenon, <1>1, Running DEF ExitCurrent, At, OutPoints, DyingPoints, WakerPoints, ReaperPoints
<1>3. /\ state' = [state EXCEPT ![t] = "DEAD"] /\ zombies' = Append(zombies, t) /\ Goto(t, "terminated")
      /\ zombies \in Seq(User \cup Kernel)
      /\ UNCHANGED <<runq, next, waitq, sleepers, batch, corpse, reaped, current, cpc>>
  BY Zenon, <1>1 DEF ExitCurrent, Inv, TypeOK
<1>4. ~InSeq(zombies, t) /\ t # corpse /\ t \notin reaped
  <2>1. t # none
    BY Zenon, <1>2, SpawnedThreads
  <2> QED BY Zenon, <1>2, <2>1 DEF Inv, DeadInv
<1>5. /\ \A s : InSeq(zombies', s) <=> InSeq(zombies, s) \/ s = t
      /\ Distinct(zombies) => Distinct(zombies')
  <2>1. zombies \in Seq(User \cup Kernel) /\ t \in User \cup Kernel
    BY Zenon, <1>2, <1>3
  <2>2. \A s : InSeq(Append(zombies, t), s) <=> InSeq(zombies, s) \/ s = t
    BY ONLY Zenon, <2>1, AppendFacts
  <2>3. Distinct(zombies) => Distinct(Append(zombies, t))
    BY ONLY Zenon, <1>4, <2>1, AppendFacts
  <2> QED BY Zenon, <1>3, <2>2, <2>3
<1>6. /\ Distinct(zombies') /\ ~InSeq(zombies', corpse') /\ corpse' \notin reaped'
      /\ \A s \in reaped' : ~InSeq(zombies', s)
  BY Zenon, <1>3, <1>4, <1>5 DEF HeldInv
<1>7. state'[t] = "DEAD" /\ \A s \in Thread : s # t => state'[s] = state[s]
  BY Zenon, <1>2, <1>3 DEF Inv, TypeOK
<1>8. \A s \in Thread : pc'[s] # "new" => pc[s] # "new"
  <2>1. pc \in [Thread -> Points]
    BY Zenon DEF Inv, TypeOK
  <2> QED BY Zenon, <1>2, <1>3, <2>1 DEF Goto
<1>9. \A s \in Spawned : state'[s] = "READY" /\ pc'[s] # "new" =>
        InSeq(runq', s) \/ \E d \in Core : next'[d] = s
  BY Zenon, <1>3, <1>7, <1>8, SpawnedThreads DEF HeldInv
<1>10. \A s \in Spawned : state'[s] = "BLOCKED" =>
        waitq'[s] # none \/ s \in sleepers' \/ \E w \in Thread : s \in batch'[w]
  BY Zenon, <1>3, <1>7, SpawnedThreads DEF HeldInv
<1>11. \A s \in Spawned : state'[s] = "DEAD" => InSeq(zombies', s) \/ s = corpse' \/ s \in reaped'
  BY Zenon, <1>3, <1>5, <1>7, SpawnedThreads DEF HeldInv
<1>12. ASSUME NEW d \in Core, cpc'[d] = "switch", current'[d] \in Spawned
       PROVE  state'[current'[d]] # "RUNNING"
  <2>1. current'[d] = current[d] /\ cpc[d] = "switch" /\ current[d] \in Thread
    BY Zenon, <1>3, <1>12, SpawnedThreads
  <2>2. state[current[d]] # "RUNNING"
    BY Zenon, <1>12, <2>1 DEF HeldInv
  <2> QED BY Zenon, <1>7, <2>1, <2>2
<1> QED BY Zenon, <1>6, <1>9, <1>10, <1>11, <1>12 DEF HeldInv

\* Taking the first of a list of distinct threads.
LEMMA TailFacts ==
  ASSUME NEW S, NEW q \in Seq(S), q # <<>>
  PROVE  /\ Head(q) \in S
         /\ \A t : InSeq(q, t) <=> t = Head(q) \/ InSeq(Tail(q), t)
         /\ Distinct(q) => Distinct(Tail(q)) /\ ~InSeq(Tail(q), Head(q))
<1>1. /\ Len(q) \in Nat /\ Len(q) > 0 /\ Len(Tail(q)) = Len(q) - 1 /\ Head(q) = q[1] /\ Head(q) \in S
      /\ \A i \in 1..Len(Tail(q)) : Tail(q)[i] = q[i + 1]
  BY SMTT(60)
<1>2. \A i \in 1..Len(Tail(q)) : i + 1 \in 1..Len(q) /\ i + 1 # 1 /\ Tail(q)[i] = q[i + 1]
  BY SMTT(60), <1>1
<1>3. \A i \in 1..Len(q) : i = 1 \/ (i - 1 \in 1..Len(Tail(q)) /\ Tail(q)[i - 1] = q[i])
  BY SMTT(60), <1>1
<1>4. 1 \in 1..Len(q)
  BY SMT, <1>1
<1>5. \A t : InSeq(q, t) <=> t = Head(q) \/ InSeq(Tail(q), t)
  <2>1. \A t : t = Head(q) \/ InSeq(Tail(q), t) => InSeq(q, t)
    BY Zenon, <1>1, <1>2, <1>4 DEF InSeq
  <2>2. ASSUME NEW t, InSeq(q, t) PROVE t = Head(q) \/ InSeq(Tail(q), t)
    <3>1. PICK i \in 1..Len(q) : q[i] = t
      BY Zenon, <2>2 DEF InSeq
    <3>2. i = 1 \/ (i - 1 \in 1..Len(Tail(q)) /\ Tail(q)[i - 1] = t)
      BY Zenon, <1>3, <3>1
    <3> QED BY Zenon, <1>1, <3>1, <3>2 DEF InSeq
  <2> QED BY Zenon, <2>1, <2>2
<1>6. Distinct(q) => ~InSeq(Tail(q), Head(q))
  BY Zenon, <1>1, <1>2, <1>4 DEF InSeq, Distinct
<1>7. Distinct(q) => Distinct(Tail(q))
  <2> SUFFICES ASSUME Distinct(q), NEW i \in 1..Len(Tail(q)), NEW j \in 1..Len(Tail(q)),
                      Tail(q)[i] = Tail(q)[j]
               PROVE  i = j
    BY Zenon DEF Distinct
  <2>1. i + 1 = j + 1
    BY Zenon, <1>2 DEF Distinct
  <2> QED BY SMT, <1>1, <2>1
<1> QED BY Zenon, <1>1, <1>5, <1>6, <1>7

\* reaper_main takes the first zombie.
LEMMA ReaperPopHeld ==
  ASSUME Inv, HeldInv, NEW c \in Core, ReaperPop(c)
  PROVE  HeldInv'
<1>1. /\ current[c] = reaper /\ pc[reaper] = "run" /\ cpc[c] = "run" /\ pc \in [Thread -> Points]
      /\ zombies \in Seq(User \cup Kernel)
      /\ UNCHANGED <<runq, next, state, waitq, sleepers, batch, reaped, current, cpc>>
  BY Zenon DEF ReaperPop, At, Inv, TypeOK
<1>2. CASE zombies = <<>>
  <2>1. Goto(current[c], "block") /\ UNCHANGED <<zombies, corpse>>
    BY Zenon, <1>1, <1>2 DEF ReaperPop
  <2> QED BY Zenon, <1>1, <2>1, GotoHeld
<1>3. CASE zombies # <<>>
  <2>1. zombies' = Tail(zombies) /\ corpse' = Head(zombies) /\ Goto(reaper, "reap")
    BY Zenon, <1>3 DEF ReaperPop
  <2>2. \A t \in Thread : pc'[t] # "new" => pc[t] # "new"
    BY Zenon, <1>1, <2>1 DEF Goto
  <2>3. corpse = none
    BY Zenon, <1>1 DEF Inv, PointsInv
  <2>4. /\ \A t : InSeq(zombies, t) <=> t = corpse' \/ InSeq(zombies', t)
        /\ Distinct(zombies) => Distinct(zombies') /\ ~InSeq(zombies', corpse')
    <3>1. zombies \in Seq(User \cup Kernel)
      BY Zenon, <1>1
    <3>2. \A t : InSeq(zombies, t) <=> t = Head(zombies) \/ InSeq(Tail(zombies), t)
      BY ONLY Zenon, <1>3, <3>1, TailFacts
    <3>3. Distinct(zombies) => Distinct(Tail(zombies)) /\ ~InSeq(Tail(zombies), Head(zombies))
      BY ONLY Zenon, <1>3, <3>1, TailFacts
    <3> QED BY Zenon, <2>1, <3>2, <3>3
  <2>5. /\ Distinct(zombies') /\ ~InSeq(zombies', corpse') /\ corpse' \notin reaped'
        /\ \A t \in reaped' : ~InSeq(zombies', t)
    BY Zenon, <1>1, <2>4 DEF HeldInv
  <2>6. \A t \in Spawned : state'[t] = "DEAD" => InSeq(zombies', t) \/ t = corpse' \/ t \in reaped'
    <3>1. \A t \in Spawned : t # corpse
      BY Zenon, <2>3, SpawnedThreads
    <3> QED BY Zenon, <1>1, <2>4, <3>1 DEF HeldInv
  <2>7. \A t \in Spawned : state'[t] = "READY" /\ pc'[t] # "new" =>
          InSeq(runq', t) \/ \E d \in Core : next'[d] = t
    BY Zenon, <1>1, <2>2, SpawnedThreads DEF HeldInv
  <2> QED BY Zenon, <1>1, <2>5, <2>6, <2>7 DEF HeldInv
<1> QED BY Zenon, <1>2, <1>3

\* reap returns the corpse's stack.
LEMMA ReapHeld ==
  ASSUME Inv, HeldInv, NEW c \in Core, Reap(c)
  PROVE  HeldInv'
<1>1. /\ pc[current[c]] = "reap" /\ current[c] \in Thread /\ pc \in [Thread -> Points]
      /\ reaped' = reaped \cup {corpse} /\ corpse' = none /\ Goto(reaper, "run")
      /\ UNCHANGED <<runq, next, state, waitq, sleepers, batch, zombies, current, cpc>>
      /\ zombies \in Seq(User \cup Kernel) /\ reaped \subseteq User \cup Kernel
  BY Zenon DEF Reap, At, Inv, TypeOK
<1>2. pc[reaper] = "reap" /\ corpse # none
  BY Zenon, <1>1 DEF Inv, PointsInv, Thread
<1>3. \A t \in Thread : pc'[t] # "new" => pc[t] # "new"
  BY Zenon, <1>1, <1>2 DEF Goto
<1>4. none \notin User \cup Kernel
  BY Zenon, DisjointAssumption DEF Thread
<1>5. ~InSeq(zombies', corpse') /\ corpse' \notin reaped'
  BY Zenon, <1>1, <1>2, <1>4, SeqMember
<1>6. \A t \in reaped' : ~InSeq(zombies', t)
  BY Zenon, <1>1 DEF HeldInv
<1>7. \A t \in Spawned : state'[t] = "DEAD" => InSeq(zombies', t) \/ t = corpse' \/ t \in reaped'
  BY Zenon, <1>1 DEF HeldInv
<1>8. \A t \in Spawned : state'[t] = "READY" /\ pc'[t] # "new" =>
        InSeq(runq', t) \/ \E d \in Core : next'[d] = t
  BY Zenon, <1>1, <1>3, SpawnedThreads DEF HeldInv
<1> QED BY Zenon, <1>1, <1>5, <1>6, <1>7, <1>8 DEF HeldInv

\* Every step of the scheduler keeps every thread held.
LEMMA NextHeld == Inv /\ HeldInv /\ [Next]_vars => HeldInv'
<1> SUFFICES ASSUME Inv, HeldInv, [Next]_vars PROVE HeldInv'
  OBVIOUS
<1>1. CASE UNCHANGED vars
  BY Zenon, <1>1, QuietHeld DEF vars
<1>2. ASSUME NEW c \in Core, Begin(c) PROVE HeldInv'
  <2>1. ASSUME NEW o, NEW m, NEW h, NEW d, BeginWait(c, o, m, h, d) PROVE HeldInv'
    BY Zenon, <2>1, CallsHeld
  <2>2. ASSUME NEW o, NEW b, SignalSet(c, o, b) \/ SignalClear(c, o, b) PROVE HeldInv'
    BY Zenon, <2>2, CallsHeld
  <2> QED BY Zenon, <1>2, <2>1, <2>2, YieldHeld, MovesHeld, SleepHeld, KillHeld, SpawnHeld DEF Begin
<1>3. ASSUME NEW c \in Core, CoreStep(c) PROVE HeldInv'
  BY Zenon, <1>3, SwitchToHeld, MovesHeld, ServiceHeld, VisitHeld DEF CoreStep
<1>4. ASSUME NEW c \in Core, ThreadStep(c) PROVE HeldInv'
  BY ZenonT(60), <1>4, ScheduleOutHeld, MovesHeld, BlockIfHeld, TakersHeld, WakeTakenHeld,
     ExitCurrentHeld, ReaperPopHeld, ReapHeld DEF ThreadStep
<1>5. ASSUME NEW c \in Core, Tick(c) \/ ReschedIPI(c) PROVE HeldInv'
  BY Zenon, <1>5, MovesHeld
<1> QED BY Zenon, <1>1, <1>2, <1>3, <1>4, <1>5 DEF Next

----------------------------------------------------------------------------
(* Nothing that is owed is forgotten.                                      *)

Deferring == {"critical", "enable", "refused"}
BeforeKick == {"terminated", "load", "scan", "batch", "more", "kick"}

\* The points of a core that stay as they are.
LEMMA OthersStay ==
  ASSUME Inv, NEW c \in Core, NEW d \in Core, d # c
  PROVE  current[d] \in Thread /\ current[d] # current[c] /\ pc[current[d]] # "new"
<1>1. current[d] \in Thread /\ on_cpu[current[d]]
  BY ZenonT(60) DEF Inv, TypeOK, CpuInv
<1>2. current[d] # current[c]
  BY Zenon DEF Inv, CpuInv
<1>3. pc[current[d]] # "new"
  BY Zenon, <1>1 DEF Inv, StateInv
<1> QED BY Zenon, <1>1, <1>2, <1>3

\* Neither none nor the list of the reaper is an object that signals.
LEMMA NoneNoQueue == none \notin Obj /\ reaper \notin Obj /\ none # reaper
BY Zenon, DisjointAssumption DEF Obj, Thread

\* No node is linked, no signal raised and every waker on its way goes on.
LEMMA WakesKept ==
  ASSUME WakeOnTheWay,
         \A s \in Thread : waitq'[s] # none => waitq'[s] = waitq[s] /\ req'[s] = req[s],
         \A o \in Obj : sig'[o] \subseteq sig[o],
         \A w \in Thread : /\ pc[w] = "load" => pc'[w] = "load" /\ wake'[w] = wake[w]
                           /\ pc[w] \in {"scan", "more"} => /\ pc'[w] \in {"scan", "more"}
                                                            /\ wake'[w] = wake[w]
  PROVE  WakeOnTheWay'
<1> SUFFICES ASSUME NEW t \in Thread, waitq'[t] \in Obj, sig'[waitq'[t]] \cap req'[t].mask # {}
             PROVE  \E w \in Thread :
                       /\ wake'[w].obj = waitq'[t]
                       /\ \/ pc'[w] = "load"
                          \/ pc'[w] \in {"scan", "more"} /\ wake'[w].signals \cap req'[t].mask # {}
  BY Zenon DEF WakeOnTheWay
<1>1. waitq'[t] = waitq[t] /\ req'[t] = req[t]
  BY Zenon, NoneNoQueue
<1>2. sig[waitq[t]] \cap req[t].mask # {}
  BY Zenon, <1>1
<1>3. PICK w \in Thread : /\ wake[w].obj = waitq[t]
                          /\ \/ pc[w] = "load"
                             \/ pc[w] \in {"scan", "more"} /\ wake[w].signals \cap req[t].mask # {}
  BY Zenon, <1>1, <1>2 DEF WakeOnTheWay
<1> QED BY Zenon, <1>1, <1>3

\* A thread that died and has yet to kick the reaper stays on its way to it.
LEMMA ReaperKept ==
  ASSUME ReaperAwake,
         waitq'[reaper] = reaper =>
            /\ waitq[reaper] = reaper /\ zombies' = zombies
            /\ \A s \in Thread : state[s] = "DEAD" /\ pc[s] \in BeforeKick =>
                                    state'[s] = "DEAD" /\ pc'[s] \in BeforeKick
  PROVE  ReaperAwake'
BY Zenon DEF ReaperAwake, BeforeKick

\* Only core c's own preemption request and point are in question.
LEMMA PendingKept ==
  ASSUME Inv, PendingOnlyDeferred, NEW c \in Core,
         \A s \in Thread : s # current[c] /\ pc[s] # "new" => pc'[s] = pc[s],
         \A d \in Core : d # c => /\ cpc'[d] = cpc[d] /\ pending'[d] = pending[d]
                                  /\ current'[d] = current[d],
         pending'[c] => \/ cpc'[c] \in InterruptPoints
                        \/ cpc'[c] = "run" /\ pc'[current'[c]] \in Deferring
  PROVE  PendingOnlyDeferred'
<1> SUFFICES ASSUME NEW d \in Core, pending'[d]
             PROVE  \/ cpc'[d] \in {"tick", "scan", "service"}
                    \/ cpc'[d] = "run" /\ pc'[current'[d]] \in {"critical", "enable", "refused"}
  BY Zenon DEF PendingOnlyDeferred
<1>1. CASE d = c
  BY Zenon, <1>1 DEF InterruptPoints, Deferring
<1>2. CASE d # c
  <2>1. pc'[current[d]] = pc[current[d]]
    BY Zenon, <1>2, OthersStay
  <2> QED BY Zenon, <1>2, <2>1 DEF PendingOnlyDeferred
<1> QED BY Zenon, <1>1, <1>2

\* What most steps of core c share.
Keeps(c, t) ==
    /\ \A s \in Thread : s # t /\ pc[s] # "new" => pc'[s] = pc[s] /\ wake'[s] = wake[s]
    /\ pc[t] = "load" => pc'[t] = "load" /\ wake'[t] = wake[t]
    /\ pc[t] \in {"scan", "more"} => pc'[t] \in {"scan", "more"} /\ wake'[t] = wake[t]
    /\ \A s \in Thread : waitq'[s] # none => waitq'[s] = waitq[s] /\ req'[s] = req[s]
    /\ \A o \in Obj : sig'[o] \subseteq sig[o]
    /\ waitq'[reaper] = reaper =>
          zombies' = zombies /\ (state[t] = "DEAD" /\ pc[t] \in BeforeKick => pc'[t] \in BeforeKick)
    /\ \A s \in Thread : state[s] = "DEAD" => state'[s] = "DEAD"
    /\ \A d \in Core : d # c => /\ cpc'[d] = cpc[d] /\ pending'[d] = pending[d]
                                /\ current'[d] = current[d]
    /\ pending'[c] => \/ cpc'[c] \in InterruptPoints
                      \/ cpc'[c] = "run" /\ pc'[current'[c]] \in Deferring

\* A step that keeps the lists, the signals and every core's errand keeps what is owed.
LEMMA OwedKept ==
  ASSUME Inv, NothingForgotten, NEW c \in Core, NEW t, t = current[c], Keeps(c, t)
  PROVE  NothingForgotten'
<1> USE DEF Keeps
<1>1. t \in Thread /\ reaper \in Thread
  BY Zenon, SpawnedThreads DEF Inv, TypeOK
<1>2. WakeOnTheWay'
  <2>1. \A w \in Thread : /\ pc[w] = "load" => pc'[w] = "load" /\ wake'[w] = wake[w]
                          /\ pc[w] \in {"scan", "more"} => /\ pc'[w] \in {"scan", "more"}
                                                           /\ wake'[w] = wake[w]
    BY Zenon, <1>1
  <2> QED BY Zenon, <2>1, WakesKept DEF NothingForgotten
<1>3. ReaperAwake'
  <2>1. \A s \in Thread : s # t /\ pc[s] \in BeforeKick => pc'[s] = pc[s]
    BY Zenon DEF BeforeKick
  <2>2. waitq'[reaper] = reaper => waitq[reaper] = reaper
    BY Zenon, <1>1, NoneNoQueue
  <2> QED BY Zenon, <1>1, <2>1, <2>2, ReaperKept DEF NothingForgotten
<1>4. PendingOnlyDeferred'
  BY Zenon, PendingKept DEF NothingForgotten
<1> QED BY Zenon, <1>2, <1>3, <1>4 DEF NothingForgotten

\* The running thread goes on to point p; it is not linked in any queue.
Moves(c, t, p) ==
    /\ cpc[c] = "run" /\ Goto(t, p)
    /\ UNCHANGED <<current, pending, zombies>>
    /\ pc[t] \notin OutPoints /\ pc[t] \notin {"load", "scan", "more"}
    /\ \/ cpc' = cpc /\ (pc[t] \in Deferring => p \in Deferring)
       \/ cpc' = [cpc EXCEPT ![c] = "service"]
    /\ state[t] = "DEAD" /\ pc[t] \in BeforeKick => p \in BeforeKick
    /\ \A s \in Thread : s # t => req'[s] = req[s] /\ wake'[s] = wake[s]
    /\ \A s \in Thread : waitq'[s] # none => waitq'[s] = waitq[s]
    /\ \A o \in Obj : sig'[o] \subseteq sig[o]
    /\ \A s \in Thread : state[s] = "DEAD" => state'[s] = "DEAD"

\* So does a step that only moves the current thread on, between two points that owe nothing.
LEMMA GotoOwed ==
  ASSUME Inv, NothingForgotten, NEW c \in Core, NEW t, t = current[c], NEW p, Moves(c, t, p)
  PROVE  NothingForgotten'
<1> USE DEF Moves
<1>1. t \in Thread /\ waitq[t] = none /\ pc \in [Thread -> Points] /\ cpc \in [Core -> CpuPoints]
  BY Zenon, Running DEF Inv, TypeOK
<1>2. pc'[t] = p /\ \A s \in Thread : s # t => pc'[s] = pc[s]
  BY Zenon, <1>1 DEF Goto
<1>3. \A s \in Thread : waitq'[s] # none => waitq'[s] = waitq[s] /\ req'[s] = req[s]
  BY Zenon, <1>1
<1>4. \A d \in Core : d # c => cpc'[d] = cpc[d] /\ pending'[d] = pending[d] /\ current'[d] = current[d]
  BY Zenon, <1>1
<1>5. pending[c] => pc[t] \in Deferring
  BY Zenon DEF NothingForgotten, PendingOnlyDeferred, Deferring
<1>6. pending'[c] => \/ cpc'[c] \in InterruptPoints
                     \/ cpc'[c] = "run" /\ pc'[current'[c]] \in Deferring
  BY Zenon, <1>1, <1>2, <1>5 DEF InterruptPoints
<1>7. \A s \in Thread : s # t /\ pc[s] # "new" => pc'[s] = pc[s] /\ wake'[s] = wake[s]
  BY Zenon, <1>2
<1>8. pc[t] # "load" /\ pc[t] \notin {"scan", "more"}
  OBVIOUS
<1>9. waitq'[reaper] = reaper =>
        zombies' = zombies /\ (state[t] = "DEAD" /\ pc[t] \in BeforeKick => pc'[t] \in BeforeKick)
  BY Zenon, <1>2
<1>10. Keeps(c, t)
  BY Zenon, <1>3, <1>4, <1>6, <1>7, <1>8, <1>9 DEF Keeps
<1> QED BY Zenon, <1>10, OwedKept

\* The steps of a thread within its own call forget nothing.
LEMMA MovesOwed ==
  ASSUME Inv, NothingForgotten, NEW c \in Core,
         \/ EnterCritical(c) \/ LeaveCritical(c) \/ EnablePreempt(c)
         \/ CheckSignals(c) \/ TimedWaitRegister(c) \/ BlockIfRefused(c) \/ ReleaseRefused(c)
         \/ Woke(c) \/ TimedWaitUnregister(c) \/ Boundary(c) \/ BeginExit(c) \/ ExitDone(c)
  PROVE  NothingForgotten'
<1>1. PICK t : t = current[c]
  OBVIOUS
<1>2. t \in Thread /\ req \in [Thread -> [obj : Queue \cup {none}, mask : SUBSET Bits, timed : BOOLEAN]]
  BY Zenon, <1>1 DEF Inv, TypeOK
<1>3. pc[t] \in {"register", "block", "refused", "woke", "unregister", "check", "run", "boundary"} =>
        state[t] # "DEAD"
  BY Zenon, <1>2 DEF Inv, StateInv, DyingPoints, WakerPoints
<1> USE DEF OutPoints, Deferring, BeforeKick
<1>4. CASE EnterCritical(c) \/ LeaveCritical(c) \/ EnablePreempt(c)
  <2>1. \E p : Moves(c, t, p)
    BY ZenonT(60), <1>1, <1>4 DEF Moves, EnterCritical, LeaveCritical, EnablePreempt, At, OnlyPc
  <2> QED BY ONLY Zenon, Inv, NothingForgotten, c \in Core, <1>1, <2>1, GotoOwed
<1>5. CASE TimedWaitRegister(c) \/ TimedWaitUnregister(c) \/ Woke(c)
  <2>1. \E p : Moves(c, t, p)
    BY ZenonT(60), <1>1, <1>5 DEF Moves, TimedWaitRegister, TimedWaitUnregister, Woke, At, OnlyPc
  <2> QED BY ONLY Zenon, Inv, NothingForgotten, c \in Core, <1>1, <2>1, GotoOwed
<1>6. CASE BlockIfRefused(c) \/ ReleaseRefused(c)
  <2>1. \E p : Moves(c, t, p)
    BY ZenonT(60), <1>1, <1>6 DEF Moves, BlockIfRefused, ReleaseRefused, At
  <2> QED BY ONLY Zenon, Inv, NothingForgotten, c \in Core, <1>1, <2>1, GotoOwed
<1>7. CASE CheckSignals(c)
  <2>1. \A s \in Thread : s # t => req'[s] = req[s]
    BY Zenon, <1>1, <1>2, <1>7 DEF CheckSignals
  <2>2. \E p : Moves(c, t, p)
    BY ZenonT(60), <1>1, <1>7, <2>1 DEF Moves, CheckSignals, At
  <2> QED BY ONLY Zenon, Inv, NothingForgotten, c \in Core, <1>1, <2>2, GotoOwed
<1>8. CASE Boundary(c) \/ BeginExit(c) \/ ExitDone(c)
  <2>1. \E p : Moves(c, t, p)
    BY ZenonT(60), <1>1, <1>8 DEF Moves, Boundary, BeginExit, ExitDone, At, OnlyPc
  <2> QED BY ONLY Zenon, Inv, NothingForgotten, c \in Core, <1>1, <2>1, GotoOwed
<1> QED BY Zenon, <1>4, <1>5, <1>6, <1>7, <1>8

\* Nor do the calls that begin a wait, clear a signal or go to sleep.
LEMMA CallsOwed ==
  ASSUME Inv, NothingForgotten, NEW c \in Core, NEW o, NEW m, NEW h, NEW d,
         BeginWait(c, o, m, h, d) \/ SignalClear(c, o, m) \/ Sleep(c, d)
  PROVE  NothingForgotten'
<1>1. PICK t : t = current[c]
  OBVIOUS
<1>2. /\ t \in Thread /\ req \in [Thread -> [obj : Queue \cup {none}, mask : SUBSET Bits, timed : BOOLEAN]]
      /\ sig \in [Obj -> SUBSET Bits] /\ state \in [Thread -> {"READY", "RUNNING", "BLOCKED", "DEAD"}]
  BY ZenonT(60), <1>1 DEF Inv, TypeOK
<1>3. pc[t] = "run" => state[t] # "DEAD"
  BY Zenon, <1>2 DEF Inv, StateInv, DyingPoints, WakerPoints
<1>4. CASE BeginWait(c, o, m, h, d)
  <2>1. \A s \in Thread : s # t => req'[s] = req[s]
    BY Zenon, <1>1, <1>2, <1>4 DEF BeginWait
  <2>2. \E p : Moves(c, t, p)
    BY ZenonT(60), <1>1, <1>4, <2>1 DEF BeginWait, At, Moves, OutPoints, Deferring, BeforeKick
  <2> QED BY ONLY Zenon, Inv, NothingForgotten, c \in Core, <1>1, <2>2, GotoOwed
<1>5. CASE SignalClear(c, o, m)
  <2>1. \A x \in Obj : sig'[x] \subseteq sig[x]
    BY Zenon, <1>2, <1>5 DEF SignalClear
  <2>2. \E p : Moves(c, t, p)
    BY ZenonT(60), <1>1, <1>5, <2>1 DEF SignalClear, At, Moves, OutPoints, Deferring, BeforeKick
  <2> QED BY ONLY Zenon, Inv, NothingForgotten, c \in Core, <1>1, <2>2, GotoOwed
<1>6. CASE Sleep(c, d)
  <2>1. \A s \in Thread : state[s] = "DEAD" => state'[s] = "DEAD"
    <3>1. pc[t] = "run" /\ (state' = state \/ state' = [state EXCEPT ![t] = "BLOCKED"])
      BY Zenon, <1>1, <1>6 DEF Sleep, At
    <3> QED BY Zenon, <1>2, <1>3, <3>1
  <2>2. \E p : Moves(c, t, p)
    <3>1. \E p : Goto(t, p)
      BY Zenon, <1>1, <1>6 DEF Sleep
    <3> QED BY ZenonT(60), <1>1, <1>6, <2>1, <3>1 DEF Sleep, At, Moves, OutPoints, Deferring, BeforeKick
  <2> QED BY ONLY Zenon, Inv, NothingForgotten, c \in Core, <1>1, <2>2, GotoOwed
<1> QED BY Zenon, <1>4, <1>5, <1>6

\* A core turns to something else, or a thread is readied; no thread's own code goes on.
Turns(c) ==
    /\ UNCHANGED <<pc, wake, req, sig, zombies>>
    /\ \A s \in Thread : waitq'[s] # none => waitq'[s] = waitq[s]
    /\ \A s \in Thread : state[s] = "DEAD" => state'[s] = "DEAD"
    /\ \A d \in Core : d # c => /\ cpc'[d] = cpc[d] /\ pending'[d] = pending[d]
                                /\ current'[d] = current[d]
    /\ pending'[c] => cpc'[c] \in InterruptPoints \/ UNCHANGED <<cpc, pending, current>>

\* Nor does any turn of a core: the interrupt, the pick and the switch.
LEMMA TurnOwed ==
  ASSUME Inv, NothingForgotten, NEW c \in Core, Turns(c)
  PROVE  NothingForgotten'
<1>1. PICK t : t = current[c]
  OBVIOUS
<1>2. pending'[c] => \/ cpc'[c] \in InterruptPoints
                     \/ cpc'[c] = "run" /\ pc'[current'[c]] \in Deferring
  <2>1. pending[c] => cpc[c] \in InterruptPoints \/ (cpc[c] = "run" /\ pc[current[c]] \in Deferring)
    BY Zenon DEF NothingForgotten, PendingOnlyDeferred, InterruptPoints, Deferring
  <2>2. /\ pending'[c] => cpc'[c] \in InterruptPoints \/ (cpc' = cpc /\ pending' = pending /\ current' = current)
        /\ pc' = pc
    BY Zenon DEF Turns
  <2> QED BY ONLY Zenon, <2>1, <2>2
<1>3. /\ pc' = pc /\ wake' = wake /\ req' = req /\ sig' = sig /\ zombies' = zombies
      /\ \A s \in Thread : waitq'[s] # none => waitq'[s] = waitq[s]
      /\ \A s \in Thread : state[s] = "DEAD" => state'[s] = "DEAD"
      /\ \A d \in Core : d # c => /\ cpc'[d] = cpc[d] /\ pending'[d] = pending[d]
                                  /\ current'[d] = current[d]
  BY Zenon DEF Turns
<1>4. \A o \in Obj : sig'[o] \subseteq sig[o]
  BY Zenon, <1>3
<1>5. Keeps(c, t)
  BY ONLY ZenonT(60), <1>2, <1>3, <1>4 DEF Keeps
<1> QED BY Zenon, <1>1, <1>5, OwedKept

\* Interrupts, the two halves of a switch, and the threads readied by the tick or a waker.
LEMMA TurnsOwed ==
  ASSUME Inv, NothingForgotten, NEW c \in Core,
         \/ Tick(c) \/ ReschedIPI(c) \/ TickLock(c) \/ TickDecide(c) \/ FinishSwitch(c) \/ SwitchTo(c)
         \/ (\E s \in scan : VisitSleeper(c, s) \/ VisitTimedWait(c, s))
         \/ (\E s \in batch[current[c]] : WakeTaken(c, s))
  PROVE  NothingForgotten'
<1>1. /\ cpc \in [Core -> CpuPoints] /\ pending \in [Core -> BOOLEAN] /\ current \in [Core -> Thread]
      /\ state \in [Thread -> {"READY", "RUNNING", "BLOCKED", "DEAD"}]
      /\ waitq \in [Thread -> Queue \cup {none}]
  BY Zenon DEF Inv, TypeOK
<1> USE DEF InterruptPoints
<1>2. CASE Tick(c) \/ ReschedIPI(c)
  <2>1. Turns(c)
    BY ZenonT(60), <1>1, <1>2 DEF Turns, Tick, ReschedIPI
  <2> QED BY Zenon, <2>1, TurnOwed
<1>3. CASE TickLock(c) \/ TickDecide(c)
  <2>1. Turns(c)
    BY ZenonT(60), <1>1, <1>3 DEF Turns, TickLock, TickDecide
  <2> QED BY Zenon, <2>1, TurnOwed
<1>4. CASE FinishSwitch(c)
  <2>1. ~pending[c]
    BY Zenon, <1>4 DEF FinishSwitch, NothingForgotten, PendingOnlyDeferred
  <2>2. Turns(c)
    BY ZenonT(60), <1>1, <1>4, <2>1 DEF Turns, FinishSwitch
  <2> QED BY Zenon, <2>2, TurnOwed
<1>5. CASE SwitchTo(c)
  <2>1. ~pending[c] /\ cpc[c] = "switch"
    BY Zenon, <1>5 DEF SwitchTo, NothingForgotten, PendingOnlyDeferred
  <2>2. PICK out, in : out = current[c] /\ in = next[c]
    OBVIOUS
  <2>3. in \in Thread /\ state[in] # "DEAD"
    <3>1. in \in Thread
      <4>1. next[c] \in Thread \cup {none}
        BY Zenon DEF Inv, TypeOK
      <4>2. next[c] # none
        BY ZenonT(60), <2>1 DEF Inv, CpuInv
      <4> QED BY Zenon, <2>2, <4>1, <4>2
    <3>2. in \in Spawned => state[in] # "DEAD"
      BY ZenonT(60), <2>2 DEF Inv, PlaceInv
    <3>3. in \in Core => state[in] # "DEAD"
      BY Zenon, <3>1 DEF Inv, PointsInv, StateInv, DyingPoints, WakerPoints
    <3> QED BY Zenon, <3>1, <3>2, <3>3 DEF Spawned, Thread
  <2>4. state' = [state EXCEPT ![out] = IF @ = "RUNNING" THEN "READY" ELSE @, ![in] = "RUNNING"]
    BY Zenon, <1>5, <2>2 DEF SwitchTo
  <2>5. \A s \in Thread : state[s] = "DEAD" => state'[s] = "DEAD"
    BY SMT, <1>1, <2>3, <2>4
  <2>6. Turns(c)
    BY ZenonT(60), <1>1, <1>5, <2>1, <2>5 DEF Turns, SwitchTo
  <2> QED BY Zenon, <2>6, TurnOwed
<1>6. ASSUME NEW s \in scan, VisitSleeper(c, s) PROVE NothingForgotten'
  <2>1. state[s] = "BLOCKED"
    BY Zenon, <1>6 DEF VisitSleeper, Inv, PlaceInv
  <2>2. \A u \in Thread : state[u] = "DEAD" => state'[u] = "DEAD"
    BY Zenon, <1>1, <1>6, <2>1 DEF VisitSleeper, MakeReady
  <2>3. Turns(c)
    BY ZenonT(60), <1>6, <2>2 DEF Turns, VisitSleeper
  <2> QED BY Zenon, <2>3, TurnOwed
<1>7. ASSUME NEW s \in scan, VisitTimedWait(c, s) PROVE NothingForgotten'
  <2>1. s \in Thread
    BY ZenonT(60), SpawnedThreads DEF Inv, TypeOK
  <2>2. waitq[s] # none => state[s] = "BLOCKED"
    BY Zenon, <2>1 DEF Inv, PlaceInv
  <2>3. \A u \in Thread : state[u] = "DEAD" => state'[u] = "DEAD"
    BY Zenon, <1>1, <1>7, <2>2 DEF VisitTimedWait, MakeReady, Claims
  <2>4. \A u \in Thread : waitq'[u] # none => waitq'[u] = waitq[u]
    BY Zenon, <1>1, <1>7 DEF VisitTimedWait
  <2>5. Turns(c)
    BY ZenonT(60), <1>7, <2>3, <2>4 DEF Turns, VisitTimedWait
  <2> QED BY Zenon, <2>5, TurnOwed
<1>8. ASSUME NEW s \in batch[current[c]], WakeTaken(c, s) PROVE NothingForgotten'
  <2>1. state[s] = "BLOCKED"
    BY Zenon, <1>1 DEF Inv, PlaceInv
  <2>2. \A u \in Thread : state[u] = "DEAD" => state'[u] = "DEAD"
    BY Zenon, <1>1, <1>8, <2>1 DEF WakeTaken, MakeReady
  <2>3. Turns(c)
    BY ZenonT(60), <1>8, <2>2 DEF Turns, WakeTaken
  <2> QED BY Zenon, <2>3, TurnOwed
<1> QED BY Zenon, <1>2, <1>3, <1>4, <1>5, <1>6, <1>7, <1>8

\* Giving up the core: yield, the preemption hook and schedule_out.
LEMMA LeavesOwed ==
  ASSUME Inv, NothingForgotten, NEW c \in Core, Yield(c) \/ Service(c) \/ ScheduleOut(c)
  PROVE  NothingForgotten'
<1>1. PICK t : t = current[c]
  OBVIOUS
<1>2. /\ t \in Thread /\ cpc \in [Core -> CpuPoints] /\ pending \in [Core -> BOOLEAN]
      /\ current \in [Core -> Thread] /\ pc \in [Thread -> Points]
      /\ state \in [Thread -> {"READY", "RUNNING", "BLOCKED", "DEAD"}]
  BY Zenon, <1>1 DEF Inv, TypeOK
<1>3. /\ UNCHANGED <<current, wake, req, sig, zombies, waitq>>
      /\ \A o \in Obj : sig'[o] \subseteq sig[o]
      /\ \A d \in Core : d # c => /\ cpc'[d] = cpc[d] /\ pending'[d] = pending[d]
                                  /\ current'[d] = current[d]
  <2>1. /\ UNCHANGED <<current, wake, req, sig, zombies, waitq>>
        /\ \E x : cpc' = [cpc EXCEPT ![c] = x] \/ cpc' = cpc
        /\ \E x : pending' = [pending EXCEPT ![c] = x] \/ pending' = pending
    BY ZenonT(60) DEF Yield, Service, ScheduleOut, PickAndRequeue
  <2> QED BY Zenon, <1>2, <2>1
<1>4. ASSUME PickAndRequeue(c) \/ state' = state, pc[t] = "run" \/ cpc[c] = "service" \/ state' = state
      PROVE  \A s \in Thread : state[s] = "DEAD" => state'[s] = "DEAD"
  <2>1. cpc[c] = "service" => state[t] = "RUNNING"
    BY ZenonT(60), <1>1 DEF Inv, StateInv, InterruptPoints
  <2>2. pc[t] = "run" => state[t] # "DEAD"
    BY Zenon, <1>2 DEF Inv, StateInv, DyingPoints, WakerPoints
  <2>3. state' = state \/ state' = [state EXCEPT ![t] = "READY"]
    BY Zenon, <1>1, <1>4 DEF PickAndRequeue
  <2> QED BY ZenonT(60), <1>2, <1>4, <2>1, <2>2, <2>3
<1>5. ASSUME \A s \in Thread : s # t => pc'[s] = pc[s],
             pc[t] \in {"load", "scan", "more"} => pc'[t] = pc[t],
             state[t] = "DEAD" /\ pc[t] \in BeforeKick => pc'[t] \in BeforeKick,
             \A s \in Thread : state[s] = "DEAD" => state'[s] = "DEAD",
             pending'[c] => cpc'[c] = "run" /\ pc'[t] \in Deferring
      PROVE  NothingForgotten'
  <2>1. Keeps(c, t)
    BY ONLY ZenonT(60), <1>1, <1>3, <1>5 DEF Keeps
  <2> QED BY Zenon, <1>1, <2>1, OwedKept
<1>6. CASE Yield(c)
  <2>1. cpc[c] = "run" /\ pc[t] = "run" /\ Goto(t, Return(t)) /\ pending' = pending
    BY Zenon, <1>1, <1>6 DEF Yield, At
  <2>2. ~pending'[c]
    BY Zenon, <1>1, <2>1 DEF NothingForgotten, PendingOnlyDeferred
  <2>3. \A s \in Thread : state[s] = "DEAD" => state'[s] = "DEAD"
    BY Zenon, <1>4, <1>6, <2>1 DEF Yield
  <2> QED BY Zenon, <1>2, <1>5, <2>1, <2>2, <2>3 DEF Goto, BeforeKick
<1>7. CASE ScheduleOut(c)
  <2>1. /\ cpc[c] = "run" /\ pc[t] \in {"block_out", "sleep_out", "exit_out"} /\ Goto(t, Resume(t))
        /\ pending' = pending /\ state' = state
    BY Zenon, <1>1, <1>7 DEF ScheduleOut
  <2>2. ~pending'[c]
    BY Zenon, <1>1, <2>1 DEF NothingForgotten, PendingOnlyDeferred
  <2> QED BY Zenon, <1>2, <1>5, <2>1, <2>2 DEF Goto, BeforeKick
<1>8. CASE Service(c)
  <2>1. /\ cpc[c] = "service" /\ pending' = [pending EXCEPT ![c] = StillPending(c)]
        /\ pc' = [pc EXCEPT ![t] = IF (pending[c] /\ ~PreemptDisabled(t)) /\ (killed[t] /\ pc[t] = "run")
                                   THEN "exit" ELSE @]
        /\ \/ PickAndRequeue(c) /\ pending[c] /\ ~PreemptDisabled(t)
           \/ cpc' = [cpc EXCEPT ![c] = "run"] /\ state' = state
    BY Zenon, <1>1, <1>8 DEF Service
  <2>2. \A s \in Thread : state[s] = "DEAD" => state'[s] = "DEAD"
    BY Zenon, <1>4, <2>1
  <2>3. /\ \A s \in Thread : s # t => pc'[s] = pc[s]
        /\ pc'[t] = pc[t] \/ (pc[t] = "run" /\ ~PreemptDisabled(t))
    BY Zenon, <1>2, <2>1
  <2>4. pending'[c] => pending[c] /\ PreemptDisabled(t)
    BY Zenon, <1>1, <1>2, <2>1 DEF StillPending
  <2>5. pending'[c] => cpc'[c] = "run" /\ pc'[t] \in Deferring
    BY Zenon, <1>2, <2>1, <2>3, <2>4 DEF PreemptDisabled, Deferring
  <2> QED BY Zenon, <1>5, <2>2, <2>3, <2>5 DEF BeforeKick
<1> QED BY Zenon, <1>6, <1>7, <1>8

\* task_kill, spawn and the reaper's own steps.
LEMMA KillOwed ==
  ASSUME Inv, NothingForgotten, NEW c \in Core, NEW v \in User, Kill(c, v)
  PROVE  NothingForgotten'
<1>1. PICK t : t = current[c]
  OBVIOUS
<1>2. /\ t \in Thread /\ v \in Thread /\ waitq \in [Thread -> Queue \cup {none}]
      /\ state \in [Thread -> {"READY", "RUNNING", "BLOCKED", "DEAD"}]
  BY Zenon, <1>1 DEF Inv, TypeOK, Thread
<1>3. /\ cpc[c] = "run" /\ pc[t] = "run" /\ Goto(t, Return(t)) /\ state[v] # "DEAD"
      /\ UNCHANGED <<current, cpc, pending, zombies, req, wake, sig>>
      /\ waitq' = waitq \/ waitq' = [waitq EXCEPT ![v] = none]
      /\ state' = state \/ state' = [state EXCEPT ![v] = "READY"]
  BY Zenon, <1>1 DEF Kill, At, MakeReady
<1>4. \A s \in Thread : /\ waitq'[s] # none => waitq'[s] = waitq[s]
                        /\ state[s] = "DEAD" => state'[s] = "DEAD"
  BY Zenon, <1>2, <1>3
<1>5. Moves(c, t, Return(t))
  BY ZenonT(60), <1>3, <1>4 DEF Moves, OutPoints, Deferring, BeforeKick
<1> QED BY Zenon, <1>1, <1>5, GotoOwed

\* Nor does the birth of a thread.
LEMMA SpawnOwed ==
  ASSUME Inv, NothingForgotten, NEW c \in Core, NEW s \in User \cup Kernel, Spawn(c, s)
  PROVE  NothingForgotten'
<1>1. PICK t : t = current[c]
  OBVIOUS
<1>2. /\ t \in Thread /\ pc \in [Thread -> Points] /\ s \in Thread
      /\ cpc[c] = "run" /\ pc[t] = "run" /\ pc[s] = "new"
      /\ pc' = [pc EXCEPT ![s] = "run", ![t] = Return(t)]
      /\ UNCHANGED <<current, cpc, pending, zombies, req, wake, sig, waitq, state>>
  BY ZenonT(60), <1>1 DEF Spawn, At, Inv, TypeOK, Thread
<1>3. \A u \in Thread : u # t /\ pc[u] # "new" => pc'[u] = pc[u]
  BY SMT, <1>2
<1>4. ~pending'[c]
  BY Zenon, <1>1, <1>2 DEF NothingForgotten, PendingOnlyDeferred
<1>5. \A o \in Obj : sig'[o] \subseteq sig[o]
  BY Zenon, <1>2
<1>6. Keeps(c, t)
  BY ZenonT(60), <1>2, <1>3, <1>4, <1>5 DEF Keeps, BeforeKick
<1> QED BY Zenon, <1>1, <1>6, OwedKept

\* The reaper sleeps only when it found its list empty, or its kick is on the way.
LEMMA ReaperOwed ==
  ASSUME Inv, NothingForgotten, NEW c \in Core, ReaperPop(c) \/ Reap(c) \/ ReaperKick(c)
  PROVE  NothingForgotten'
<1>1. PICK t : t = current[c]
  OBVIOUS
<1>2. /\ t \in Thread /\ pc \in [Thread -> Points] /\ reaper \in Thread /\ waitq[t] = none
      /\ req \in [Thread -> [obj : Queue \cup {none}, mask : SUBSET Bits, timed : BOOLEAN]]
      /\ cpc[c] = "run" /\ pc[t] \in {"run", "reap", "kick"}
  <2>1. cpc[c] = "run" /\ pc[t] \in {"run", "reap", "kick"}
    BY Zenon, <1>1 DEF ReaperPop, Reap, ReaperKick, At
  <2>2. waitq[t] = none
    BY Zenon, <1>1, <2>1, Running DEF OutPoints
  <2> QED BY ZenonT(60), <1>1, <2>1, <2>2, SpawnedThreads DEF Inv, TypeOK
<1>3. /\ UNCHANGED <<current, cpc, pending, wake, sig, state>>
      /\ \A o \in Obj : sig'[o] \subseteq sig[o]
  BY Zenon DEF ReaperPop, Reap, ReaperKick
<1>4. ~pending'[c]
  BY Zenon, <1>1, <1>2, <1>3 DEF NothingForgotten, PendingOnlyDeferred
<1>5. ASSUME \A u \in Thread : u # t => pc'[u] = pc[u],
             \A u \in Thread : waitq'[u] # none => waitq'[u] = waitq[u] /\ req'[u] = req[u],
             waitq'[reaper] = reaper =>
               zombies' = zombies /\ (state[t] = "DEAD" /\ pc[t] \in BeforeKick => pc'[t] \in BeforeKick)
      PROVE  NothingForgotten'
  <2>1. Keeps(c, t)
    BY ONLY ZenonT(60), <1>2, <1>3, <1>4, <1>5 DEF Keeps
  <2> QED BY Zenon, <1>1, <2>1, OwedKept
<1>6. CASE ReaperPop(c)
  <2>1. /\ t = reaper /\ waitq' = waitq /\ \E p : Goto(t, p)
        /\ \A u \in Thread : u # t => req'[u] = req[u]
    BY ZenonT(60), <1>1, <1>2, <1>6 DEF ReaperPop
  <2>2. waitq'[reaper] # reaper
    BY Zenon, <1>2, <2>1, NoneNoQueue
  <2> QED BY Zenon, <1>2, <1>5, <2>1, <2>2 DEF Goto
<1>7. CASE Reap(c)
  <2>1. pc[t] = "reap" /\ Goto(reaper, "run") /\ waitq' = waitq /\ req' = req /\ zombies' = zombies
    BY Zenon, <1>1, <1>7 DEF Reap, At
  <2>2. t = reaper
    BY Zenon, <1>2, <2>1 DEF Inv, PointsInv, Thread
  <2> QED BY Zenon, <1>2, <1>5, <2>1, <2>2 DEF Goto, BeforeKick
<1>8. CASE ReaperKick(c)
  <2>1. Goto(t, "kicked") /\ waitq' = Unlink({s \in Spawned : waitq[s] = reaper}) /\ req' = req
    BY Zenon, <1>1, <1>8 DEF ReaperKick
  <2>2. \A u \in Thread : waitq'[u] # none => waitq'[u] = waitq[u]
    BY Zenon, <2>1 DEF Unlink
  <2>3. waitq'[reaper] # reaper
    BY Zenon, <1>2, <2>1, NoneNoQueue, SpawnedThreads DEF Unlink
  <2> QED BY ZenonT(60), <1>2, <1>5, <2>1, <2>2, <2>3 DEF Goto
<1> QED BY Zenon, <1>6, <1>7, <1>8

\* A waker steps from t's point to another; preemption requests and the dead are as before.
LEMMA WakerOwed ==
  ASSUME Inv, NothingForgotten, NEW c \in Core, NEW t, t = current[c], cpc[c] = "run",
         NEW p, Goto(t, p), pc[t] \notin Deferring, pc[t] \in BeforeKick => p \in BeforeKick,
         UNCHANGED <<current, cpc, pending, zombies, state>>,
         waitq'[reaper] = reaper => waitq[reaper] = reaper, WakeOnTheWay'
  PROVE  NothingForgotten'
<1>1. t \in Thread /\ pc \in [Thread -> Points]
  BY Zenon DEF Inv, TypeOK
<1>2. pc'[t] = p /\ \A s \in Thread : s # t => pc'[s] = pc[s]
  BY Zenon, <1>1 DEF Goto
<1>3. ReaperAwake'
  BY Zenon, <1>1, <1>2, ReaperKept DEF NothingForgotten
<1>4. ~pending'[c]
  BY Zenon DEF NothingForgotten, PendingOnlyDeferred, Deferring
<1>5. PendingOnlyDeferred'
  BY Zenon, <1>2, <1>4, PendingKept DEF NothingForgotten
<1> QED BY Zenon, <1>3, <1>5 DEF NothingForgotten

\* signal_set raises a bit of o and is about to wake o's waiters.
LEMMA RaiseOwed ==
  ASSUME Inv, NothingForgotten, NEW c \in Core, NEW t, t = current[c], cpc[c] = "run",
         pc[t] \in {"run", "terminated"}, NEW o \in Obj, NEW b, sig' = [sig EXCEPT ![o] = @ \cup {b}],
         wake' = [wake EXCEPT ![t] = [obj |-> o, signals |-> {}]], Goto(t, "load"),
         UNCHANGED <<current, cpc, pending, zombies, state, req, waitq>>
  PROVE  NothingForgotten'
<1>1. /\ t \in Thread /\ pc \in [Thread -> Points] /\ sig \in [Obj -> SUBSET Bits]
      /\ wake \in [Thread -> [obj : Obj \cup {none}, signals : SUBSET Bits]]
  BY Zenon DEF Inv, TypeOK
<1>2. pc'[t] = "load" /\ \A s \in Thread : s # t => pc'[s] = pc[s] /\ wake'[s] = wake[s]
  BY Zenon, <1>1 DEF Goto
<1>3. wake'[t].obj = o
  <2>1. wake'[t] = [obj |-> o, signals |-> {}]
    BY Zenon, <1>1
  <2> QED BY ONLY <2>1
<1>4. \A x \in Obj : x # o => sig'[x] = sig[x]
  BY Zenon, <1>1
<1>5. ASSUME NEW s \in Thread, waitq[s] \in Obj, sig'[waitq[s]] \cap req[s].mask # {}
      PROVE  \E w \in Thread :
                /\ wake'[w].obj = waitq[s]
                /\ \/ pc'[w] = "load"
                   \/ pc'[w] \in {"scan", "more"} /\ wake'[w].signals \cap req[s].mask # {}
  <2>1. CASE waitq[s] = o
    BY Zenon, <1>1, <1>2, <1>3, <2>1
  <2>2. CASE waitq[s] # o
    <3>1. PICK w \in Thread : /\ wake[w].obj = waitq[s]
                              /\ \/ pc[w] = "load"
                                 \/ pc[w] \in {"scan", "more"} /\ wake[w].signals \cap req[s].mask # {}
      BY Zenon, <1>4, <1>5, <2>2 DEF NothingForgotten, WakeOnTheWay
    <3>2. w # t
      BY Zenon, <3>1
    <3> QED BY Zenon, <1>2, <3>1, <3>2
  <2> QED BY Zenon, <2>1, <2>2
<1>6. WakeOnTheWay'
  <2>1. waitq' = waitq /\ req' = req
    OBVIOUS
  <2> QED BY ONLY ZenonT(60), <1>5, <2>1 DEF WakeOnTheWay
<1>7. pc[t] \notin Deferring /\ "load" \in BeforeKick
  BY Zenon DEF Deferring, BeforeKick
<1> QED BY ZenonT(60), <1>6, <1>7, WakerOwed

\* A signal that is raised has its waker at once.
LEMMA SignalOwed ==
  ASSUME Inv, NothingForgotten, NEW c \in Core,
         (\E o \in Event, b \in Bits : SignalSet(c, o, b)) \/ SignalTerminated(c)
  PROVE  NothingForgotten'
<1>1. PICK t : t = current[c]
  OBVIOUS
<1>2. ASSUME NEW o \in Event, NEW b \in Bits, SignalSet(c, o, b) PROVE NothingForgotten'
  <2>1. /\ cpc[c] = "run" /\ pc[t] = "run" /\ sig' = [sig EXCEPT ![o] = @ \cup {b}]
        /\ wake' = [wake EXCEPT ![t] = [obj |-> o, signals |-> {}]] /\ Goto(t, "load")
        /\ UNCHANGED <<current, cpc, pending, zombies, state, req, waitq>>
    BY Zenon, <1>1, <1>2 DEF SignalSet, At
  <2>2. o \in Obj
    BY Zenon DEF Obj
  <2> QED BY Zenon, <1>1, <2>1, <2>2, RaiseOwed
<1>3. CASE SignalTerminated(c)
  <2>1. /\ cpc[c] = "run" /\ pc[t] = "terminated" /\ sig' = [sig EXCEPT ![t] = @ \cup {TERMINATED}]
        /\ wake' = [wake EXCEPT ![t] = [obj |-> t, signals |-> {}]] /\ Goto(t, "load")
        /\ UNCHANGED <<current, cpc, pending, zombies, state, req, waitq>>
    BY Zenon, <1>1, <1>3 DEF SignalTerminated, At
  <2>2. t \in Obj
    BY Zenon, <1>1, <2>1, Running DEF Obj, ReaperPoints
  <2> QED BY Zenon, <1>1, <2>1, <2>2, RaiseOwed
<1> QED BY Zenon, <1>2, <1>3

\* object_signal_wake reads the signals: those a waiter of the object is owed are among them.
LEMMA LoadOwed ==
  ASSUME Inv, NothingForgotten, NEW c \in Core, LoadSignals(c)
  PROVE  NothingForgotten'
<1>1. PICK t : t = current[c]
  OBVIOUS
<1>2. /\ t \in Thread /\ pc \in [Thread -> Points] /\ cpc[c] = "run" /\ pc[t] = "load" /\ Goto(t, "scan")
      /\ wake \in [Thread -> [obj : Obj \cup {none}, signals : SUBSET Bits]]
      /\ UNCHANGED <<current, cpc, pending, zombies, state, req, waitq, sig>>
  BY Zenon, <1>1 DEF LoadSignals, At, Inv, TypeOK
<1>3. wake' = [wake EXCEPT ![t] = [obj |-> wake[t].obj, signals |-> sig[wake[t].obj]]]
  BY <1>1 DEF LoadSignals
<1>4. pc'[t] = "scan" /\ \A s \in Thread : s # t => pc'[s] = pc[s] /\ wake'[s] = wake[s]
  BY Zenon, <1>2, <1>3 DEF Goto
<1>5. wake'[t].obj = wake[t].obj /\ wake'[t].signals = sig[wake[t].obj]
  <2>1. wake'[t] = [obj |-> wake[t].obj, signals |-> sig[wake[t].obj]]
    BY Zenon, <1>2, <1>3
  <2> QED BY ONLY <2>1
<1>6. ASSUME NEW s \in Thread, waitq[s] \in Obj, sig[waitq[s]] \cap req[s].mask # {}
      PROVE  \E w \in Thread :
                /\ wake'[w].obj = waitq[s]
                /\ \/ pc'[w] = "load"
                   \/ pc'[w] \in {"scan", "more"} /\ wake'[w].signals \cap req[s].mask # {}
  <2>1. PICK w \in Thread : /\ wake[w].obj = waitq[s]
                            /\ \/ pc[w] = "load"
                               \/ pc[w] \in {"scan", "more"} /\ wake[w].signals \cap req[s].mask # {}
    BY Zenon, <1>6 DEF NothingForgotten, WakeOnTheWay
  <2>2. CASE w = t
    BY Zenon, <1>2, <1>4, <1>5, <1>6, <2>1, <2>2
  <2>3. CASE w # t
    BY Zenon, <1>4, <2>1, <2>3
  <2> QED BY Zenon, <2>2, <2>3
<1>7. WakeOnTheWay'
  BY Zenon, <1>2, <1>6 DEF WakeOnTheWay
<1>8. pc[t] \notin Deferring /\ "scan" \in BeforeKick
  BY Zenon, <1>2 DEF Deferring, BeforeKick
<1> QED BY Zenon, <1>1, <1>2, <1>7, <1>8, WakerOwed

\* A pass over the list takes every waiter it owes a wake, or is followed by another pass.
LEMMA TakeOwed ==
  ASSUME Inv, NothingForgotten, NEW c \in Core, NEW taken, TakeBatch(c, taken)
  PROVE  NothingForgotten'
<1>1. PICK t : t = current[c]
  OBVIOUS
<1>2. /\ t \in Thread /\ pc \in [Thread -> Points] /\ cpc[c] = "run" /\ pc[t] = "scan" /\ reaper \in Thread
      /\ waitq' = Unlink(taken) /\ UNCHANGED <<current, cpc, pending, zombies, state, req, wake, sig>>
      /\ (taken = Matching(wake[t].obj, wake[t].signals) /\ Goto(t, "batch")) \/ Goto(t, "more")
  BY Zenon, <1>1, SpawnedThreads DEF TakeBatch, At, Inv, TypeOK
<1>3. \A s \in Thread : /\ waitq'[s] # none => waitq'[s] = waitq[s]
                        /\ s \in taken => waitq'[s] = none
  BY Zenon, <1>2 DEF Unlink
<1>4. waitq'[reaper] = reaper => waitq[reaper] = reaper
  BY Zenon, <1>2, <1>3, NoneNoQueue
<1>5. pc[t] \notin Deferring /\ "batch" \in BeforeKick /\ "more" \in BeforeKick
  BY Zenon, <1>2 DEF Deferring, BeforeKick
<1>6. CASE Goto(t, "more")
  <2>1. WakeOnTheWay'
    <3>1. pc'[t] = "more" /\ \A s \in Thread : s # t => pc'[s] = pc[s]
      BY Zenon, <1>2, <1>6 DEF Goto
    <3>2. \A w \in Thread : /\ pc[w] = "load" => pc'[w] = "load" /\ wake'[w] = wake[w]
                            /\ pc[w] \in {"scan", "more"} => /\ pc'[w] \in {"scan", "more"}
                                                             /\ wake'[w] = wake[w]
      BY Zenon, <1>2, <3>1
    <3> QED BY Zenon, <1>2, <1>3, <3>2, WakesKept DEF NothingForgotten
  <2> QED BY Zenon, <1>1, <1>2, <1>4, <1>5, <1>6, <2>1, WakerOwed
<1>7. CASE taken = Matching(wake[t].obj, wake[t].signals) /\ Goto(t, "batch")
  <2>1. \A s \in Thread : s # t => pc'[s] = pc[s]
    BY Zenon, <1>2, <1>7 DEF Goto
  <2>2. ASSUME NEW s \in Thread, waitq'[s] \in Obj, sig[waitq'[s]] \cap req[s].mask # {}
        PROVE  \E w \in Thread :
                  /\ wake[w].obj = waitq'[s]
                  /\ \/ pc'[w] = "load"
                     \/ pc'[w] \in {"scan", "more"} /\ wake[w].signals \cap req[s].mask # {}
    <3>1. waitq'[s] = waitq[s] /\ s \notin taken /\ s \in Spawned
      <4>1. waitq'[s] # none
        BY Zenon, <2>2, NoneNoQueue
      <4>2. waitq'[s] = waitq[s] /\ s \notin taken
        BY Zenon, <1>3, <4>1
      <4>3. s \in Spawned
        BY Zenon, <4>1, <4>2 DEF Inv, PlaceInv
      <4> QED BY Zenon, <4>2, <4>3
    <3>2. PICK w \in Thread : /\ wake[w].obj = waitq[s]
                              /\ \/ pc[w] = "load"
                                 \/ pc[w] \in {"scan", "more"} /\ wake[w].signals \cap req[s].mask # {}
      BY Zenon, <2>2, <3>1 DEF NothingForgotten, WakeOnTheWay
    <3>3. w # t
      <4>1. ASSUME w = t PROVE FALSE
        <5>1. waitq[s] = wake[t].obj /\ req[s].mask \cap wake[t].signals # {}
          BY Zenon, <1>2, <3>2, <4>1
        <5> QED BY Zenon, <1>7, <3>1, <5>1 DEF Matching
      <4> QED BY Zenon, <4>1
    <3> QED BY Zenon, <2>1, <3>1, <3>2, <3>3
  <2>3. WakeOnTheWay'
    BY ZenonT(60), <1>2, <2>2 DEF WakeOnTheWay
  <2> QED BY Zenon, <1>1, <1>2, <1>4, <1>5, <1>7, <2>3, WakerOwed
<1> QED BY Zenon, <1>2, <1>6, <1>7

\* A waker whose batch is empty scans again, or owed nobody any more when its pass ended.
LEMMA WakeDoneOwed ==
  ASSUME Inv, NothingForgotten, NEW c \in Core, WakeDone(c)
  PROVE  NothingForgotten'
<1>1. PICK t : t = current[c]
  OBVIOUS
<1>2. /\ t \in Thread /\ pc \in [Thread -> Points] /\ cpc[c] = "run" /\ pc[t] \in {"batch", "more"}
      /\ wake \in [Thread -> [obj : Obj \cup {none}, signals : SUBSET Bits]] /\ Goto(t, NextPass(t))
      /\ wake' = IF pc[t] = "more" THEN wake ELSE [wake EXCEPT ![t] = NoWake]
      /\ UNCHANGED <<current, cpc, pending, zombies, state, req, waitq, sig>>
  BY Zenon, <1>1 DEF WakeDone, Inv, TypeOK
<1>3. CASE pc[t] = "more"
  <2>1. pc'[t] = "scan" /\ wake' = wake /\ \A s \in Thread : s # t => pc'[s] = pc[s]
    BY Zenon, <1>2, <1>3 DEF Goto, NextPass
  <2>2. \A w \in Thread : /\ pc[w] = "load" => pc'[w] = "load" /\ wake'[w] = wake[w]
                          /\ pc[w] \in {"scan", "more"} => /\ pc'[w] \in {"scan", "more"}
                                                           /\ wake'[w] = wake[w]
    BY Zenon, <1>3, <2>1
  <2>3. WakeOnTheWay'
    BY Zenon, <1>2, <2>2, WakesKept DEF NothingForgotten
  <2>4. pc[t] \notin Deferring /\ NextPass(t) \in BeforeKick
    BY Zenon, <1>3 DEF Deferring, BeforeKick, NextPass
  <2> QED BY Zenon, <1>1, <1>2, <2>3, <2>4, WakerOwed
<1>4. CASE pc[t] = "batch"
  <2>1. \A s \in Thread : s # t => wake'[s] = wake[s]
    BY Zenon, <1>2, <1>4
  <2>2. state[t] = "DEAD" => NextPass(t) = "kick"
    BY Zenon, <1>4 DEF NextPass, AfterWake
  <2>3. \A o \in Obj : sig'[o] \subseteq sig[o]
    BY Zenon, <1>2
  <2>4. Moves(c, t, NextPass(t))
    BY ZenonT(60), <1>2, <1>4, <2>1, <2>2, <2>3 DEF Moves, OutPoints, Deferring, BeforeKick
  <2> QED BY Zenon, <1>1, <2>4, GotoOwed
<1> QED BY Zenon, <1>2, <1>3, <1>4

\* block_if links the node of a thread whose condition does not hold.
LEMMA BlockIfOwed ==
  ASSUME Inv, NothingForgotten, NEW c \in Core, BlockIf(c)
  PROVE  NothingForgotten'
<1>1. PICK t : t = current[c]
  OBVIOUS
<1>2. /\ t \in Thread /\ pc \in [Thread -> Points] /\ cpc[c] = "run" /\ pc[t] = "block" /\ ~Refused(t)
      /\ waitq \in [Thread -> Queue \cup {none}] /\ waitq' = [waitq EXCEPT ![t] = req[t].obj]
      /\ state \in [Thread -> {"READY", "RUNNING", "BLOCKED", "DEAD"}]
      /\ state' = [state EXCEPT ![t] = "BLOCKED"] /\ Goto(t, "block_out")
      /\ UNCHANGED <<current, cpc, pending, zombies, req, wake, sig>>
  BY Zenon, <1>1 DEF BlockIf, At, Inv, TypeOK
<1>3. state[t] = "RUNNING"
  BY Zenon, <1>1, <1>2, Running DEF OutPoints, DyingPoints, WakerPoints
<1>4. /\ \A s \in Thread : s # t => pc'[s] = pc[s] /\ waitq'[s] = waitq[s] /\ state'[s] = state[s]
      /\ waitq'[t] = req[t].obj /\ pc'[t] = "block_out"
  BY Zenon, <1>2 DEF Goto
<1>5. MustWait(t)
  BY Zenon, <1>2 DEF Refused
<1>6. ASSUME NEW s \in Thread, waitq'[s] \in Obj, sig[waitq'[s]] \cap req[s].mask # {}
      PROVE  \E w \in Thread :
                /\ wake[w].obj = waitq'[s]
                /\ \/ pc'[w] = "load"
                   \/ pc'[w] \in {"scan", "more"} /\ wake[w].signals \cap req[s].mask # {}
  <2>1. s # t
    <3>1. ASSUME s = t PROVE FALSE
      <4>1. t # reaper
        <5>1. t = reaper => waitq'[t] = reaper
          BY Zenon, <1>2, <1>4 DEF Inv, WaitInv, WaitPoints
        <5> QED BY Zenon, <1>6, <3>1, <5>1, NoneNoQueue
      <4> QED BY Zenon, <1>4, <1>5, <1>6, <3>1, <4>1 DEF MustWait
    <3> QED BY Zenon, <3>1
  <2>2. PICK w \in Thread : /\ wake[w].obj = waitq[s]
                            /\ \/ pc[w] = "load"
                               \/ pc[w] \in {"scan", "more"} /\ wake[w].signals \cap req[s].mask # {}
    BY Zenon, <1>4, <1>6, <2>1 DEF NothingForgotten, WakeOnTheWay
  <2>3. w # t
    BY Zenon, <1>2, <2>2
  <2> QED BY Zenon, <1>4, <2>1, <2>2, <2>3
<1>7. WakeOnTheWay'
  <2>1. sig' = sig /\ req' = req /\ wake' = wake
    BY Zenon, <1>2
  <2> QED BY ONLY ZenonT(60), <1>6, <2>1 DEF WakeOnTheWay
<1>8. ReaperAwake'
  <2>1. CASE t = reaper
    BY Zenon, <1>2, <1>5, <2>1 DEF MustWait, ReaperAwake
  <2>2. CASE t # reaper
    <3>1. waitq'[reaper] = waitq[reaper]
      BY Zenon, <1>4, <2>2, SpawnedThreads
    <3>2. \A s \in Thread : state[s] = "DEAD" => state'[s] = state[s] /\ pc'[s] = pc[s]
      BY Zenon, <1>3, <1>4
    <3> QED BY Zenon, <1>2, <3>1, <3>2, ReaperKept DEF NothingForgotten
  <2> QED BY Zenon, <2>1, <2>2
<1>9. ~pending'[c]
  BY Zenon, <1>1, <1>2 DEF NothingForgotten, PendingOnlyDeferred
<1>10. PendingOnlyDeferred'
  BY Zenon, <1>1, <1>2, <1>4, <1>9, PendingKept DEF NothingForgotten
<1> QED BY ZenonT(60), <1>7, <1>8, <1>10 DEF NothingForgotten

\* exit_current leaves a zombie, and a thread that is on its way to kick the reaper.
LEMMA ExitOwed ==
  ASSUME Inv, NothingForgotten, NEW c \in Core, ExitCurrent(c)
  PROVE  NothingForgotten'
<1>1. PICK t : t = current[c]
  OBVIOUS
<1>2. /\ t \in Thread /\ pc \in [Thread -> Points] /\ cpc[c] = "run" /\ pc[t] = "exit"
      /\ state \in [Thread -> {"READY", "RUNNING", "BLOCKED", "DEAD"}]
      /\ state' = [state EXCEPT ![t] = "DEAD"] /\ Goto(t, "terminated")
      /\ UNCHANGED <<current, cpc, pending, req, wake, sig, waitq>>
  BY Zenon, <1>1 DEF ExitCurrent, At, Inv, TypeOK
<1>3. /\ \A s \in Thread : s # t => pc'[s] = pc[s]
      /\ pc'[t] = "terminated" /\ state'[t] = "DEAD"
  BY Zenon, <1>2 DEF Goto
<1>4. WakeOnTheWay'
  <2>1. \A w \in Thread : /\ pc[w] = "load" => pc'[w] = "load" /\ wake'[w] = wake[w]
                          /\ pc[w] \in {"scan", "more"} => /\ pc'[w] \in {"scan", "more"}
                                                           /\ wake'[w] = wake[w]
    BY Zenon, <1>2, <1>3
  <2> QED BY Zenon, <1>2, <2>1, WakesKept DEF NothingForgotten
<1>5. ReaperAwake'
  BY Zenon, <1>2, <1>3 DEF ReaperAwake
<1>6. ~pending'[c]
  BY Zenon, <1>1, <1>2 DEF NothingForgotten, PendingOnlyDeferred
<1>7. PendingOnlyDeferred'
  BY Zenon, <1>1, <1>2, <1>3, <1>6, PendingKept DEF NothingForgotten
<1> QED BY Zenon, <1>4, <1>5, <1>7 DEF NothingForgotten

\* At boot nobody is owed anything.
LEMMA InitOwed == Init => NothingForgotten
<1> SUFFICES ASSUME Init PROVE NothingForgotten
  OBVIOUS
<1>1. \A t \in Thread : waitq[t] = none
  BY Zenon DEF Init
<1>2. \A c \in Core : ~pending[c]
  BY Zenon DEF Init
<1>3. WakeOnTheWay
  BY Zenon, <1>1, NoneNoQueue DEF WakeOnTheWay
<1>4. ReaperAwake
  BY Zenon, <1>1, NoneNoQueue, SpawnedThreads DEF ReaperAwake
<1>5. PendingOnlyDeferred
  BY Zenon, <1>2 DEF PendingOnlyDeferred
<1> QED BY Zenon, <1>3, <1>4, <1>5 DEF NothingForgotten

\* No step of the scheduler forgets what is owed.
LEMMA NextOwed == Inv /\ NothingForgotten /\ [Next]_vars => NothingForgotten'
<1> SUFFICES ASSUME Inv, NothingForgotten, [Next]_vars PROVE NothingForgotten'
  OBVIOUS
<1>1. CASE UNCHANGED vars
  <2>1. Turns(BootCore)
    BY ZenonT(60), <1>1 DEF Turns, vars
  <2> QED BY Zenon, <2>1, TurnOwed, CoreAssumption
<1>2. ASSUME NEW c \in Core, Begin(c) PROVE NothingForgotten'
  <2>1. ASSUME NEW o, NEW m, NEW h, NEW d, BeginWait(c, o, m, h, d) PROVE NothingForgotten'
    BY Zenon, <2>1, CallsOwed
  <2>2. ASSUME NEW o, NEW b, SignalClear(c, o, b) PROVE NothingForgotten'
    BY Zenon, <2>2, CallsOwed
  <2>3. ASSUME NEW d, Sleep(c, d) PROVE NothingForgotten'
    BY Zenon, <2>3, CallsOwed
  <2>4. ASSUME NEW o \in Event, NEW b \in Bits, SignalSet(c, o, b) PROVE NothingForgotten'
    BY Zenon, <2>4, SignalOwed
  <2> QED BY ZenonT(60), <1>2, <2>1, <2>2, <2>3, <2>4, LeavesOwed, MovesOwed, KillOwed, SpawnOwed DEF Begin
<1>3. ASSUME NEW c \in Core, CoreStep(c) PROVE NothingForgotten'
  BY Zenon, <1>3, TurnsOwed, LeavesOwed DEF CoreStep
<1>4. ASSUME NEW c \in Core, ThreadStep(c) PROVE NothingForgotten'
  BY ZenonT(60), <1>4, LeavesOwed, MovesOwed, BlockIfOwed, LoadOwed, TakeOwed, TurnsOwed, WakeDoneOwed,
     ExitOwed, SignalOwed, ReaperOwed DEF ThreadStep
<1>5. ASSUME NEW c \in Core, Tick(c) \/ ReschedIPI(c) PROVE NothingForgotten'
  BY Zenon, <1>5, TurnsOwed
<1> QED BY Zenon, <1>1, <1>2, <1>3, <1>4, <1>5 DEF Next
=============================================================================
