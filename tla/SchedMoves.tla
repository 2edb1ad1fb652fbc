----------------------------- MODULE SchedMoves -----------------------------
(***************************************************************************)
(* Lemmas for the invariance proof of the scheduler: facts on the run      *)
(* queue, and frame lemmas, which say what is left to show of a step of a  *)
(* given shape.  With them, the steps that move no thread between lists    *)
(* preserve the invariant: those of thread code, of an interrupt, and of   *)
(* switch_to.                                                              *)
(***************************************************************************)
EXTENDS SchedInv, TLAPS

USE DEF cpuVars, lockVars, timeVars, threadVars, waitVars, reapVars

\* What a sequence over a set holds is in the set.
LEMMA SeqMember ==
  ASSUME NEW S, NEW q \in Seq(S), NEW u, InSeq(q, u)
  PROVE  u \in S
BY DEF InSeq

\* Appending to a list of distinct threads (the run queue, the zombies).
LEMMA AppendFacts ==
  ASSUME NEW S, NEW q \in Seq(S), NEW x \in S
  PROVE  /\ Append(q, x) \in Seq(S)
         /\ \A t : InSeq(Append(q, x), t) <=> InSeq(q, t) \/ t = x
         /\ Distinct(q) /\ ~InSeq(q, x) => Distinct(Append(q, x))
<1>1. /\ Len(Append(q, x)) = Len(q) + 1 /\ Len(q) \in Nat
      /\ \A i \in 1..Len(q) : Append(q, x)[i] = q[i]
      /\ Append(q, x)[Len(q) + 1] = x
      /\ Append(q, x) \in Seq(S)
  OBVIOUS
<1>2. 1..(Len(q) + 1) = 1..Len(q) \cup {Len(q) + 1}
  BY SMTT(60), ZenonT(60), <1>1
<1> QED BY SMTT(60), ZenonT(60), <1>1, <1>2 DEF InSeq, Distinct

\* enqueue_locked appends a thread that is not on the run queue.
LEMMA EnqueueFacts ==
  ASSUME runq \in Seq(Spawned), Distinct(runq), NEW s \in Spawned, ~InSeq(runq, s),
         runq' = Append(runq, s)
  PROVE  /\ runq' \in Seq(Spawned) /\ Distinct(runq')
         /\ \A u : InSeq(runq', u) <=> InSeq(runq, u) \/ u = s
<1>1. /\ Append(runq, s) \in Seq(Spawned) /\ Distinct(Append(runq, s))
      /\ \A u : InSeq(Append(runq, s), u) <=> InSeq(runq, u) \/ u = s
  BY AppendFacts
<1> QED BY Zenon, <1>1

\* The entries of a concatenation.
LEMMA ConcatFacts ==
  ASSUME NEW S, NEW a \in Seq(S), NEW b \in Seq(S)
  PROVE  /\ a \o b \in Seq(S) /\ Len(a \o b) = Len(a) + Len(b)
         /\ \A i \in 1..(Len(a) + Len(b)) :
               (a \o b)[i] = IF i <= Len(a) THEN a[i] ELSE b[i - Len(a)]
  OBVIOUS

\* pop_locked takes one thread that is not on a core and keeps all the others.
LEMMA PickFacts ==
  ASSUME NEW S, runq \in Seq(S), Distinct(runq), NEW k \in Pickable
  PROVE  /\ runq[k] \in S /\ InSeq(runq, runq[k]) /\ ~on_cpu[runq[k]]
         /\ AfterPick(k) \in Seq(S) /\ Distinct(AfterPick(k))
         /\ \A t : InSeq(AfterPick(k), t) <=> InSeq(runq, t) /\ t # runq[k]
<1> DEFINE n == Len(runq)
           a == SubSeq(runq, k + 1, n)
           b == SubSeq(runq, 1, k - 1)
<1>1. n \in Nat /\ k \in 1..n /\ ~on_cpu[runq[k]] /\ runq[k] \in S
  BY SMTT(60), ZenonT(60) DEF Pickable
<1>2. /\ a \in Seq(S) /\ Len(a) = n - k /\ \A i \in 1..(n - k) : a[i] = runq[k + i]
  BY SMTT(60), ZenonT(60), <1>1
<1>3. /\ b \in Seq(S) /\ Len(b) = k - 1 /\ \A i \in 1..(k - 1) : b[i] = runq[i]
  BY SMTT(60), ZenonT(60), <1>1
\* Where the thread now at position i was.
<1> DEFINE old(i) == IF i <= n - k THEN k + i ELSE i - (n - k)
<1>4. /\ AfterPick(k) \in Seq(S) /\ Len(AfterPick(k)) = n - 1
      /\ \A i \in 1..(n - 1) : AfterPick(k)[i] = runq[old(i)]
  <2>1. AfterPick(k) = a \o b
    BY Zenon DEF AfterPick
  <2> HIDE DEF a, b
  <2>2. /\ a \o b \in Seq(S) /\ Len(a \o b) = Len(a) + Len(b)
        /\ \A i \in 1..(Len(a) + Len(b)) :
              (a \o b)[i] = IF i <= Len(a) THEN a[i] ELSE b[i - Len(a)]
    BY Zenon, <1>2, <1>3, ConcatFacts
  <2>3. ASSUME NEW i \in 1..(n - 1) PROVE AfterPick(k)[i] = runq[old(i)]
    <3>1. i \in 1..(Len(a) + Len(b)) /\ Len(a) = n - k
      BY SMTT(60), ZenonT(60), <1>1, <1>2, <1>3
    <3>2. CASE i <= n - k
      BY SMTT(60), ZenonT(60), <3>1, <3>2, <2>1, <2>2, <1>1, <1>2
    <3>3. CASE ~(i <= n - k)
      <4>1. AfterPick(k)[i] = b[i - (n - k)] /\ i - (n - k) \in 1..(k - 1)
        BY SMTT(60), ZenonT(60), <3>1, <3>3, <2>1, <2>2, <1>1
      <4> QED BY Zenon, <4>1, <3>3, <1>3
    <3> QED BY Zenon, <3>2, <3>3
  <2> QED BY SMTT(60), ZenonT(60), <2>1, <2>2, <2>3, <1>1, <1>2, <1>3
<1>5. /\ \A i \in 1..(n - 1) : old(i) \in 1..n /\ old(i) # k
      /\ \A i, j \in 1..(n - 1) : old(i) = old(j) => i = j
      /\ \A h \in 1..n : h # k => \E i \in 1..(n - 1) : old(i) = h
  <2>1. ASSUME NEW h \in 1..n, h # k PROVE \E i \in 1..(n - 1) : old(i) = h
    <3>1. CASE h < k
      <4>1. n - k + h \in 1..(n - 1) /\ old(n - k + h) = h
        BY SMTT(60), ZenonT(60), <3>1, <1>1
      <4> QED BY Zenon, <4>1
    <3>2. CASE h > k
      <4>1. h - k \in 1..(n - 1) /\ old(h - k) = h
        BY SMTT(60), ZenonT(60), <3>2, <1>1
      <4> QED BY Zenon, <4>1
    <3> QED BY SMTT(60), ZenonT(60), <3>1, <3>2, <2>1, <1>1
  <2> QED BY SMTT(60), ZenonT(60), <2>1, <1>1
<1> HIDE DEF old
<1>6. Distinct(AfterPick(k))
  BY SMTT(60), ZenonT(60), <1>4, <1>5 DEF Distinct
<1>7. \A t : InSeq(AfterPick(k), t) <=> InSeq(runq, t) /\ t # runq[k]
  BY ZenonT(60), <1>1, <1>4, <1>5 DEF InSeq, Distinct
<1> QED BY Zenon, <1>1, <1>4, <1>6, <1>7 DEF InSeq

\* A step that moves a core neither into a switch nor out of one keeps CpuInv.
LEMMA CpuFrame ==
  ASSUME TypeOK, CpuInv, NEW c \in Core,
         UNCHANGED <<current, next, outgoing, on_cpu>>,
         \/ cpc' = cpc
         \/ /\ cpc[c] \notin {"switch", "finish"}
            /\ \E q \in CpuPoints \ {"switch", "finish"} : cpc' = [cpc EXCEPT ![c] = q]
  PROVE  CpuInv'
<1>1. \A d \in Core : (cpc'[d] = "switch" <=> cpc[d] = "switch")
                   /\ (cpc'[d] = "finish" <=> cpc[d] = "finish")
  BY Zenon DEF TypeOK
<1> QED BY SMTT(60), ZenonT(60), <1>1 DEF CpuInv

\* The running thread moves on in its own code; nothing else that StateInv and PlaceInv
\* speak of changes, except that the core may enter the preemption hook.
LEMMA PcMove ==
  ASSUME Inv, NEW c \in Core,
         cpc[c] \in {"run", "service"}, \A s \in Thread : s # current[c] => pc'[s] = pc[s],
         pc'[current[c]] \notin OutPoints \cup {"new", "dead"},
         \/ cpc' = cpc
         \/ /\ state[current[c]] = "RUNNING"
            /\ \E q \in {"run", "service"} : cpc' = [cpc EXCEPT ![c] = q],
         UNCHANGED <<current, next, outgoing, runq, state, on_cpu, sleepers, waitq, batch>>,
         pc[current[c]] \notin OutPoints,
         state[current[c]] = "DEAD" => pc'[current[c]] \in DyingPoints \cup WakerPoints,
         state[current[c]] # "DEAD" => pc'[current[c]] \notin DyingPoints,
         batch[current[c]] = {}
  PROVE  CpuInv' /\ StateInv' /\ PlaceInv'
<1> DEFINE t == current[c]
<1>1. /\ t \in Thread /\ t = current'[c]
      /\ \A d \in Core : current[d] \in Thread
      /\ pc'[t] \notin OutPoints \cup {"new", "dead"}
      /\ \A s \in Thread : s # t => pc'[s] = pc[s]
      /\ \A d \in Core : d # c => cpc'[d] = cpc[d] /\ current[d] # t
      /\ state[t] \in {"RUNNING", "DEAD"}
      /\ cpc'[c] \in {"run", "service"} /\ (cpc'[c] = "service" => state[t] = "RUNNING")
  BY SMTT(60), ZenonT(60) DEF Inv, TypeOK, CpuInv, StateInv, InterruptPoints
<1>2. CpuInv'
  BY Zenon, CpuFrame DEF Inv, CpuPoints
<1>3. StateInv'
  <2>1. \A d \in Core : cpc'[d] \in InterruptPoints => state'[current'[d]] = "RUNNING"
    BY Zenon, <1>1 DEF Inv, StateInv, InterruptPoints
  <2>2. \A d \in Core : cpc'[d] \in {"run", "finish"} /\ pc'[current'[d]] \notin OutPoints
                          => state'[current'[d]] \in {"RUNNING", "DEAD"}
    BY SMTT(60), ZenonT(60), <1>1 DEF Inv, StateInv
  <2>3. \A s \in Thread : /\ pc'[s] \in OutPoints => state'[s] \in {"BLOCKED", "READY"}
                          /\ pc'[s] \in DyingPoints => state'[s] = "DEAD"
                          /\ state'[s] = "DEAD" => pc'[s] \in DyingPoints \cup WakerPoints
                          /\ pc'[s] = "new" => state'[s] = "READY" /\ ~on_cpu'[s]
    BY SMTT(60), ZenonT(60), <1>1 DEF Inv, StateInv
  <2>4. \A s \in Thread : pc'[s] \in OutPoints \cup (DyingPoints \ {"dead"})
                         \/ (state'[s] = "DEAD" /\ pc'[s] # "dead") =>
          \E d \in Core : current'[d] = s /\ cpc'[d] = "run"
    <3> SUFFICES ASSUME NEW s \in Thread,
                        pc'[s] \in OutPoints \cup (DyingPoints \ {"dead"})
                         \/ (state'[s] = "DEAD" /\ pc'[s] # "dead")
                 PROVE  \E d \in Core : current'[d] = s /\ cpc'[d] = "run"
      OBVIOUS
    <3>1. CASE s = t
      BY Zenon, <3>1, <1>1
    <3>2. CASE s # t
      <4>1. \E d \in Core : current[d] = s /\ cpc[d] = "run"
        BY SMTT(60), ZenonT(60), <3>2, <1>1 DEF Inv, StateInv
      <4> QED BY Zenon, <4>1, <3>2, <1>1
    <3> QED BY Zenon, <3>1, <3>2
  <2> QED BY Zenon, <2>1, <2>2, <2>3, <2>4 DEF StateInv
<1>4. PlaceInv'
  <2>1. Spawned \subseteq Thread
    BY Zenon DEF Spawned, Thread
  <2>2. \A w \in Thread : batch[w] # {} => pc'[w] \in {"batch", "more", "kicked"}
    BY Zenon, <1>1 DEF Inv, PlaceInv
  <2>3. \A s \in Thread : pc[s] # "new" => pc'[s] # "new"
    BY Zenon, <1>1
  <2> QED BY ZenonT(60), <2>1, <2>2, <2>3 DEF Inv, PlaceInv
<1> QED BY Zenon, <1>2, <1>3, <1>4

\* A core leaves its thread's code for an interrupt handler, or goes on in one.
LEMMA CpcMove ==
  ASSUME Inv, NEW c \in Core, NEW q \in InterruptPoints \cup {"run"},
         cpc[c] \notin {"switch", "finish"}, cpc' = [cpc EXCEPT ![c] = q],
         state[current[c]] = "RUNNING",
         UNCHANGED <<current, next, outgoing, runq, state, on_cpu, pc, sleepers, waitq, batch>>
  PROVE  CpuInv' /\ StateInv' /\ PlaceInv'
<1>1. /\ cpc'[c] = q /\ \A d \in Core : d # c => cpc'[d] = cpc[d]
      /\ current[c] \in Thread
  BY Zenon DEF Inv, TypeOK
<1>2. CpuInv'
  BY Zenon, CpuFrame DEF Inv, CpuPoints, InterruptPoints
<1>3. StateInv'
  <2>1. /\ \A d \in Core : cpc'[d] \in InterruptPoints => state'[current'[d]] = "RUNNING"
        /\ \A d \in Core : cpc'[d] \in {"run", "finish"} /\ pc'[current'[d]] \notin OutPoints
                              => state'[current'[d]] \in {"RUNNING", "DEAD"}
    BY ZenonT(60), <1>1 DEF Inv, StateInv
  <2>2. ASSUME NEW s \in Thread,
               \/ pc[s] \in OutPoints \cup (DyingPoints \ {"dead"})
               \/ state[s] = "DEAD" /\ pc[s] # "dead"
        PROVE  \E d \in Core : current[d] = s /\ cpc'[d] = "run"
    <3>1. \E d \in Core : current[d] = s /\ cpc[d] = "run"
      BY Zenon, <2>2 DEF Inv, StateInv
    <3>2. state[s] # "RUNNING"
      BY Zenon, <2>2 DEF Inv, StateInv
    <3> QED BY Zenon, <3>1, <3>2, <1>1
  <2> QED BY SMTT(60), ZenonT(60), <2>1, <2>2 DEF Inv, StateInv
<1>4. PlaceInv'
  BY Zenon DEF Inv, PlaceInv
<1> QED BY Zenon, <1>2, <1>3, <1>4

\* What the point a running thread has reached says about it.
LEMMA Running ==
  ASSUME Inv, NEW c \in Core, cpc[c] = "run"
  PROVE  LET t == current[c]
         IN /\ t \in Thread /\ on_cpu[t] /\ pc[t] \in Points \ {"new"}
            /\ pc[t] \notin OutPoints => /\ state[t] \in {"RUNNING", "DEAD"}
                                         /\ waitq[t] = none /\ t \notin sleepers
                                         /\ ~InSeq(runq, t)
                                         /\ \A w \in Thread : t \notin batch[w]
            /\ pc[t] \notin OutPoints \cup DyingPoints \cup WakerPoints => state[t] = "RUNNING"
            /\ pc[t] \in DyingPoints => state[t] = "DEAD"
            /\ pc[t] \notin {"batch", "more", "kicked"} => batch[t] = {}
            /\ pc[t] # "run" => t \in Spawned
            /\ pc[t] \notin ReaperPoints => t \in User \cup Kernel
<1> DEFINE t == current[c]
<1>1. t \in Thread /\ on_cpu[t] /\ pc[t] \in Points \ {"new"}
  BY SMTT(60), ZenonT(60) DEF Inv, TypeOK, CpuInv, StateInv
<1>2. pc[t] \notin OutPoints => state[t] \in {"RUNNING", "DEAD"}
  BY Zenon DEF Inv, StateInv
<1>3. pc[t] \notin OutPoints => /\ waitq[t] = none /\ t \notin sleepers /\ ~InSeq(runq, t)
                               /\ \A w \in Thread : t \notin batch[w]
  BY Zenon, <1>1, <1>2 DEF Inv, PlaceInv
<1>4. /\ pc[t] \notin OutPoints \cup DyingPoints \cup WakerPoints => state[t] = "RUNNING"
      /\ pc[t] \in DyingPoints => state[t] = "DEAD"
  BY Zenon, <1>1, <1>2 DEF Inv, StateInv
<1>5. pc[t] \notin {"batch", "more", "kicked"} => batch[t] = {}
  BY Zenon, <1>1 DEF Inv, PlaceInv
<1>6. /\ pc[t] # "run" => t \in Spawned
      /\ pc[t] \notin ReaperPoints => t \in User \cup Kernel
  BY Zenon, <1>1 DEF Inv, PointsInv, Thread, Spawned, ReaperPoints
<1> QED BY Zenon, <1>1, <1>2, <1>3, <1>4, <1>5, <1>6

\* Where a running thread t may step to, given its state and kind.
StepsWell(t) ==
    /\ pc'[t] \notin OutPoints \cup {"new", "dead", "reap"}
    /\ state[t] = "DEAD" => pc'[t] \in DyingPoints \cup WakerPoints
    /\ state[t] # "DEAD" => pc'[t] \notin DyingPoints
    /\ t = reaper => pc'[t] \in ReaperPoints
    /\ t \in User => pc'[t] \notin {"critical", "enable", "refused"}

\* What the point t steps to says about its wait, its wake and its deadline.
WaitsWell(t) ==
    /\ pc'[t] \in WaitPoints =>
          /\ t = reaper => req'[t].obj = reaper
          /\ t # reaper => req'[t].obj \in Obj /\ req'[t].mask # {}
          /\ pc'[t] = "register" => req'[t].timed
    /\ pc'[t] \in WakerPoints => wake'[t].obj \in Obj
    /\ timed' \subseteq timed \cup {t}
    /\ t \in timed' => /\ req'[t].timed
                       /\ pc'[t] \in {"block", "refused", "block_out", "woke", "unregister"}

\* The running thread moves on in its own code, away from the points where it is parked,
\* leaving or dying, and changes no list: what is left to show of such a step is what it
\* says about the thread's own wait or wake.
LEMMA ThreadMove ==
  ASSUME Inv, NEW c \in Core, cpc[c] = "run",
         current[c] \in Spawned, batch[current[c]] = {}, pc[current[c]] \notin OutPoints \cup {"reap"},
         \A s \in Thread : s # current[c] => pc'[s] = pc[s] /\ req'[s] = req[s] /\ wake'[s] = wake[s],
         StepsWell(current[c]), WaitsWell(current[c]),
         \/ cpc' = cpc
         \/ state[current[c]] = "RUNNING" /\ cpc' = [cpc EXCEPT ![c] = "service"],
         UNCHANGED <<current, next, outgoing, runq, state, on_cpu, sleepers, waitq, batch,
                     killed, reapVars>>
  PROVE  /\ CpuInv' /\ StateInv' /\ PlaceInv' /\ PointsInv' /\ DeadInv' /\ WaitInv'
         /\ TimedNodeAlive' /\ KilledNotParked'
<1> DEFINE t == current[c]
<1>1. /\ t \in Thread /\ t \notin Core /\ reaper \in Thread /\ User \cup Kernel \subseteq Thread
      /\ reaper \notin User \cup Kernel /\ timed \subseteq Thread
  BY ZenonT(60), DisjointAssumption DEF Inv, TypeOK, Thread, Spawned
<1>2. CpuInv' /\ StateInv' /\ PlaceInv'
  BY Zenon, PcMove DEF StepsWell
<1>3. DeadInv' /\ KilledNotParked'
  BY Zenon DEF Inv, DeadInv, KilledNotParked
<1>4. PointsInv'
  BY SMTT(60), ZenonT(60), <1>1 DEF StepsWell, Inv, PointsInv, ReaperPoints, Thread
<1>5. WaitInv'
  <2>1. \A s \in User \cup Kernel : pc'[s] \in WaitPoints =>
          req'[s].obj \in Obj /\ req'[s].mask # {} /\ (pc'[s] = "register" => req'[s].timed)
    BY SMTT(60), ZenonT(60), <1>1 DEF WaitsWell, Inv, WaitInv
  <2>2. pc'[reaper] \in WaitPoints => req'[reaper].obj = reaper
    BY Zenon, <1>1 DEF WaitsWell, Inv, WaitInv
  <2>3. \A s \in timed' : req'[s].timed
    BY ZenonT(60), <1>1 DEF WaitsWell, Inv, WaitInv
  <2>4. \A s \in Thread : pc'[s] \in WakerPoints => wake'[s].obj \in Obj
    BY ZenonT(60), <1>1 DEF WaitsWell, Inv, WaitInv
  <2> QED BY Zenon, <2>1, <2>2, <2>3, <2>4 DEF WaitInv
<1>6. TimedNodeAlive'
  BY ZenonT(60), <1>1 DEF WaitsWell, Inv, TimedNodeAlive
<1> QED BY Zenon, <1>2, <1>3, <1>4, <1>5, <1>6

\* A thread outside the parking points of a timed wait has no registry entry.
LEMMA NotTimed ==
  ASSUME Inv, NEW t \in Thread,
         pc[t] \notin {"block", "refused", "block_out", "woke", "unregister"}
  PROVE  t \notin timed
BY Zenon DEF Inv, TimedNodeAlive

\* Where block_if's callers go on: reaper_main, wait_signals or wait_signals_deadline.
LEMMA AfterBlockPoint ==
  ASSUME Inv, NEW t \in Thread
  PROVE  /\ AfterBlock(t) \in {"run", "unregister", "check"}
         /\ t = reaper => AfterBlock(t) = "run"
         /\ t # reaper => AfterBlock(t) # "run"
         /\ t \in timed => AfterBlock(t) = "unregister"
BY SMTT(60), ZenonT(60), DisjointAssumption DEF Inv, TypeOK, WaitInv, AfterBlock

\* A step that leaves cores, lists, states and points alone.
LEMMA StillFrame ==
  ASSUME Inv, UNCHANGED <<cpuVars, runq, state, on_cpu, pc, waitq, sleepers, batch>>
  PROVE  CpuInv' /\ StateInv' /\ PlaceInv'
<1>1. CpuInv'
  BY SMTT(60), ZenonT(60) DEF Inv, CpuInv
<1>2. StateInv'
  BY SMTT(60), ZenonT(60) DEF Inv, StateInv
<1>3. PlaceInv'
  BY Zenon DEF Inv, PlaceInv
<1> QED BY Zenon, <1>1, <1>2, <1>3

\* A step that leaves points, states and everything about waits and the dead alone.
LEMMA RestFrame ==
  ASSUME Inv, UNCHANGED <<pc, corpse, zombies, reaped, state, on_cpu, req, timed, wake,
                          waitq, sleepers, killed>>
  PROVE  PointsInv' /\ DeadInv' /\ WaitInv' /\ TimedNodeAlive' /\ KilledNotParked'
<1>1. PointsInv'
  BY Zenon DEF Inv, PointsInv
<1>2. DeadInv'
  BY Zenon DEF Inv, DeadInv
<1>3. WaitInv'
  BY Zenon DEF Inv, WaitInv
<1>4. TimedNodeAlive' /\ KilledNotParked'
  BY Zenon DEF Inv, TimedNodeAlive, KilledNotParked
<1> QED BY Zenon, <1>1, <1>2, <1>3, <1>4

----------------------------------------------------------------------------
(* Steps that move no thread between lists.                                *)

\* critical_section's constructor.
LEMMA EnterCriticalInv ==
  ASSUME Inv, NEW c \in Core, EnterCritical(c)
  PROVE  Inv'
<1> DEFINE t == current[c]
<1>1. /\ t \in Kernel /\ t \in Thread /\ t \in Spawned /\ pc[t] = "run" /\ cpc[c] = "run"
      /\ state[t] = "RUNNING" /\ batch[t] = {} /\ t # reaper
  BY Zenon, Running, DisjointAssumption
     DEF Inv, PointsInv, EnterCritical, At, May, Thread, Spawned, OutPoints, DyingPoints, WakerPoints, ReaperPoints
<1>2. /\ pc' \in [Thread -> Points] /\ pc'[t] = "critical"
      /\ \A s \in Thread : s # t => pc'[s] = pc[s] /\ req'[s] = req[s] /\ wake'[s] = wake[s]
  BY Zenon, <1>1 DEF Inv, TypeOK, EnterCritical, At, Goto, OnlyPc, Points
<1>3. TypeOK'
  BY Zenon, <1>2 DEF Inv, TypeOK, EnterCritical, OnlyPc
<1>4. WaitsWell(t)
  BY Zenon, <1>1, <1>2, NotTimed DEF WaitsWell, Inv, EnterCritical, OnlyPc, WaitPoints, WakerPoints, Thread, Spawned
<1>5. UNCHANGED <<current, next, outgoing, runq, state, on_cpu, sleepers, waitq, batch,
                  killed, reapVars>>
  BY Zenon DEF EnterCritical, OnlyPc
<1>6. cpc' = cpc
  BY Zenon DEF EnterCritical, OnlyPc
<1>7. pc[t] \notin OutPoints \cup {"reap"} /\ StepsWell(t)
  BY Zenon, <1>1, <1>2, DisjointAssumption
     DEF StepsWell, OutPoints, DyingPoints, WakerPoints, ReaperPoints
<1>8. /\ CpuInv' /\ StateInv' /\ PlaceInv' /\ PointsInv' /\ DeadInv' /\ WaitInv'
      /\ TimedNodeAlive' /\ KilledNotParked'
  BY Zenon, <1>1, <1>2, <1>4, <1>5, <1>6, <1>7, ThreadMove
<1> QED BY Zenon, <1>3, <1>8 DEF Inv

\* preempt_enable drops the depth.
LEMMA LeaveCriticalInv ==
  ASSUME Inv, NEW c \in Core, LeaveCritical(c)
  PROVE  Inv'
<1> DEFINE t == current[c]
<1>1. /\ t \in Kernel /\ t \in Thread /\ t \in Spawned /\ pc[t] = "critical" /\ cpc[c] = "run"
      /\ state[t] = "RUNNING" /\ batch[t] = {} /\ t # reaper
  BY Zenon, Running, DisjointAssumption
     DEF Inv, PointsInv, LeaveCritical, At, Thread, Spawned, OutPoints, DyingPoints, WakerPoints, ReaperPoints
<1>2. /\ pc' \in [Thread -> Points] /\ pc'[t] = "enable"
      /\ \A s \in Thread : s # t => pc'[s] = pc[s] /\ req'[s] = req[s] /\ wake'[s] = wake[s]
  BY Zenon, <1>1 DEF Inv, TypeOK, LeaveCritical, At, Goto, OnlyPc, Points
<1>3. TypeOK'
  BY Zenon, <1>2 DEF Inv, TypeOK, LeaveCritical, OnlyPc
<1>4. WaitsWell(t)
  BY Zenon, <1>1, <1>2, NotTimed DEF WaitsWell, Inv, LeaveCritical, OnlyPc, WaitPoints, WakerPoints, Thread, Spawned
<1>5. UNCHANGED <<current, next, outgoing, runq, state, on_cpu, sleepers, waitq, batch,
                  killed, reapVars>>
  BY Zenon DEF LeaveCritical, OnlyPc
<1>6. cpc' = cpc
  BY Zenon DEF LeaveCritical, OnlyPc
<1>7. pc[t] \notin OutPoints \cup {"reap"} /\ StepsWell(t)
  BY Zenon, <1>1, <1>2, DisjointAssumption
     DEF StepsWell, OutPoints, DyingPoints, WakerPoints, ReaperPoints
<1>8. /\ CpuInv' /\ StateInv' /\ PlaceInv' /\ PointsInv' /\ DeadInv' /\ WaitInv'
      /\ TimedNodeAlive' /\ KilledNotParked'
  BY Zenon, <1>1, <1>2, <1>4, <1>5, <1>6, <1>7, ThreadMove
<1> QED BY Zenon, <1>3, <1>8 DEF Inv

\* preempt_enable serves the pending preemption.
LEMMA EnablePreemptInv ==
  ASSUME Inv, NEW c \in Core, EnablePreempt(c)
  PROVE  Inv'
<1> DEFINE t == current[c]
<1>1. /\ t \in Kernel /\ t \in Thread /\ t \in Spawned /\ pc[t] = "enable" /\ cpc[c] = "run"
      /\ state[t] = "RUNNING" /\ batch[t] = {} /\ t # reaper
  BY Zenon, Running, DisjointAssumption
     DEF Inv, PointsInv, EnablePreempt, At, Thread, Spawned, OutPoints, DyingPoints, WakerPoints, ReaperPoints
<1>2. /\ pc' \in [Thread -> Points] /\ pc'[t] = "run"
      /\ \A s \in Thread : s # t => pc'[s] = pc[s] /\ req'[s] = req[s] /\ wake'[s] = wake[s]
  BY Zenon, <1>1 DEF Inv, TypeOK, EnablePreempt, At, Goto, Points
<1>3. TypeOK'
  <2>1. cpc' \in [Core -> CpuPoints]
    BY Zenon DEF Inv, TypeOK, EnablePreempt, CpuPoints
  <2> QED BY Zenon, <1>2, <2>1 DEF Inv, TypeOK, EnablePreempt
<1>4. WaitsWell(t)
  BY Zenon, <1>1, <1>2, NotTimed DEF WaitsWell, Inv, EnablePreempt, WaitPoints, WakerPoints, Thread, Spawned
<1>5. UNCHANGED <<current, next, outgoing, runq, state, on_cpu, sleepers, waitq, batch,
                  killed, reapVars>>
  BY Zenon DEF EnablePreempt
<1>6. cpc' = cpc \/ cpc' = [cpc EXCEPT ![c] = "service"]
  BY Zenon DEF EnablePreempt
<1>7. pc[t] \notin OutPoints \cup {"reap"} /\ StepsWell(t)
  BY Zenon, <1>1, <1>2, DisjointAssumption
     DEF StepsWell, OutPoints, DyingPoints, WakerPoints, ReaperPoints
<1>8. /\ CpuInv' /\ StateInv' /\ PlaceInv' /\ PointsInv' /\ DeadInv' /\ WaitInv'
      /\ TimedNodeAlive' /\ KilledNotParked'
  BY Zenon, <1>1, <1>2, <1>4, <1>5, <1>6, <1>7, ThreadMove
<1> QED BY Zenon, <1>3, <1>8 DEF Inv

\* wait_signals and wait_signals_deadline are entered.
LEMMA BeginWaitInv ==
  ASSUME Inv, NEW c \in Core, NEW o \in Watched, NEW m \in (SUBSET Bits) \ {{}},
         NEW h \in BOOLEAN, NEW d \in 0..MaxDelay, BeginWait(c, o, m, h, d)
  PROVE  Inv'
<1> DEFINE t == current[c]
<1>1. /\ t \in User \cup Kernel /\ t \in Thread /\ t \in Spawned /\ pc[t] = "run" /\ cpc[c] = "run"
      /\ state[t] = "RUNNING" /\ batch[t] = {} /\ t # reaper
  BY Zenon, Running, DisjointAssumption
     DEF BeginWait, At, May, Thread, Spawned, OutPoints, DyingPoints, WakerPoints, ReaperPoints
<1>2. /\ pc' \in [Thread -> Points] /\ pc'[t] = "check"
      /\ \A s \in Thread : s # t => pc'[s] = pc[s] /\ req'[s] = req[s] /\ wake'[s] = wake[s]
      /\ req'[t] = [obj |-> o, mask |-> m, timed |-> h]
      /\ o \in Obj
  BY ZenonT(60), <1>1, SizeAssumption DEF Inv, TypeOK, BeginWait, At, Goto, Points
<1>3. TypeOK'
  <2>1. req' \in [Thread -> [obj : Queue \cup {none}, mask : SUBSET Bits, timed : BOOLEAN]]
    BY Zenon, <1>1, <1>2 DEF Inv, TypeOK, BeginWait, NoReq, Queue, Obj
  <2>2. timer' \in [Thread -> 0..MaxDelay]
    BY Zenon, <1>1, SizeAssumption DEF Inv, TypeOK, BeginWait
  <2> QED BY Zenon, <1>2, <2>1, <2>2 DEF Inv, TypeOK, BeginWait
<1>4. WaitsWell(t)
  BY SMTT(60), ZenonT(60), <1>1, <1>2, NotTimed DEF WaitsWell, Inv, BeginWait, WaitPoints, WakerPoints, Thread, Spawned
<1>5. UNCHANGED <<current, next, outgoing, runq, state, on_cpu, sleepers, waitq, batch,
                  killed, reapVars>>
  BY Zenon DEF BeginWait
<1>6. cpc' = cpc
  BY Zenon DEF BeginWait
<1>7. pc[t] \notin OutPoints \cup {"reap"} /\ StepsWell(t)
  BY Zenon, <1>1, <1>2, DisjointAssumption
     DEF StepsWell, OutPoints, DyingPoints, WakerPoints, ReaperPoints
<1>8. /\ CpuInv' /\ StateInv' /\ PlaceInv' /\ PointsInv' /\ DeadInv' /\ WaitInv'
      /\ TimedNodeAlive' /\ KilledNotParked'
  BY Zenon, <1>1, <1>2, <1>4, <1>5, <1>6, <1>7, ThreadMove
<1> QED BY Zenon, <1>3, <1>8 DEF Inv

\* The head of the wait loops.
LEMMA CheckSignalsInv ==
  ASSUME Inv, NEW c \in Core, CheckSignals(c)
  PROVE  Inv'
<1> DEFINE t == current[c]
<1>1. /\ t \in User \cup Kernel /\ t \in Thread /\ t \in Spawned /\ pc[t] = "check" /\ cpc[c] = "run"
      /\ state[t] = "RUNNING" /\ batch[t] = {} /\ t # reaper
  BY ZenonT(60), Running, DisjointAssumption
     DEF CheckSignals, At, Thread, Spawned, OutPoints, DyingPoints, WakerPoints, ReaperPoints
<1>2. /\ pc' \in [Thread -> Points] /\ pc'[t] \in {"boundary", "run", "register", "block"}
      /\ \A s \in Thread : s # t => pc'[s] = pc[s] /\ req'[s] = req[s] /\ wake'[s] = wake[s]
      /\ req[t].obj \in Obj /\ req[t].mask # {}
      /\ pc'[t] \in {"register", "block"} => req' = req
      /\ pc'[t] = "register" => req[t].timed
      /\ t \in User => pc'[t] # "run"
  BY ZenonT(60), <1>1 DEF Inv, TypeOK, CheckSignals, At, Goto, Return, WaitInv, WaitPoints, Points
<1>3. TypeOK'
  <2>1. req' \in [Thread -> [obj : Queue \cup {none}, mask : SUBSET Bits, timed : BOOLEAN]]
    BY Zenon, <1>1, <1>2 DEF Inv, TypeOK, CheckSignals, NoReq, Queue, Obj
  <2>2. timer' \in [Thread -> 0..MaxDelay]
    BY SMTT(60), ZenonT(60), <1>1, SizeAssumption DEF Inv, TypeOK, CheckSignals
  <2> QED BY Zenon, <1>2, <2>1, <2>2 DEF Inv, TypeOK, CheckSignals
<1>4. WaitsWell(t)
  BY Zenon, <1>1, <1>2, NotTimed DEF WaitsWell, Inv, CheckSignals, WaitPoints, WakerPoints, Thread, Spawned
<1>5. UNCHANGED <<current, next, outgoing, runq, state, on_cpu, sleepers, waitq, batch,
                  killed, reapVars>>
  BY Zenon DEF CheckSignals
<1>6. cpc' = cpc
  BY Zenon DEF CheckSignals
<1>7. pc[t] \notin OutPoints \cup {"reap"} /\ StepsWell(t)
  BY Zenon, <1>1, <1>2, DisjointAssumption
     DEF StepsWell, OutPoints, DyingPoints, WakerPoints, ReaperPoints
<1>8. /\ CpuInv' /\ StateInv' /\ PlaceInv' /\ PointsInv' /\ DeadInv' /\ WaitInv'
      /\ TimedNodeAlive' /\ KilledNotParked'
  BY Zenon, <1>1, <1>2, <1>4, <1>5, <1>6, <1>7, ThreadMove
<1> QED BY Zenon, <1>3, <1>8 DEF Inv

\* timed_wait_register adds an entry whose node is in the waiter's frame.
LEMMA TimedWaitRegisterInv ==
  ASSUME Inv, NEW c \in Core, TimedWaitRegister(c)
  PROVE  Inv'
<1> DEFINE t == current[c]
<1>1. /\ t \in User \cup Kernel /\ t \in Thread /\ t \in Spawned /\ pc[t] = "register" /\ cpc[c] = "run"
      /\ state[t] = "RUNNING" /\ batch[t] = {} /\ t # reaper
  BY ZenonT(60), Running, DisjointAssumption
     DEF TimedWaitRegister, At, Thread, Spawned, OutPoints, DyingPoints, WakerPoints, ReaperPoints
<1>2. /\ pc' \in [Thread -> Points] /\ pc'[t] = "block"
      /\ \A s \in Thread : s # t => pc'[s] = pc[s] /\ req'[s] = req[s] /\ wake'[s] = wake[s]
      /\ req[t].timed
  BY Zenon, <1>1 DEF Inv, TypeOK, TimedWaitRegister, At, Goto, WaitInv, WaitPoints, Points
<1>3. TypeOK'
  <2>1. timed' \subseteq User \cup Kernel
    BY Zenon, <1>1 DEF Inv, TypeOK, TimedWaitRegister
  <2> QED BY Zenon, <1>2, <2>1 DEF Inv, TypeOK, TimedWaitRegister
<1>4. WaitsWell(t)
  BY Zenon, <1>1, <1>2, NotTimed DEF WaitsWell, Inv, WaitInv, TypeOK, TimedWaitRegister, WaitPoints, WakerPoints, Thread, Spawned
<1>5. UNCHANGED <<current, next, outgoing, runq, state, on_cpu, sleepers, waitq, batch,
                  killed, reapVars>>
  BY Zenon DEF TimedWaitRegister
<1>6. cpc' = cpc
  BY Zenon DEF TimedWaitRegister
<1>7. pc[t] \notin OutPoints \cup {"reap"} /\ StepsWell(t)
  BY Zenon, <1>1, <1>2, DisjointAssumption
     DEF StepsWell, OutPoints, DyingPoints, WakerPoints, ReaperPoints
<1>8. /\ CpuInv' /\ StateInv' /\ PlaceInv' /\ PointsInv' /\ DeadInv' /\ WaitInv'
      /\ TimedNodeAlive' /\ KilledNotParked'
  BY Zenon, <1>1, <1>2, <1>4, <1>5, <1>6, <1>7, ThreadMove
<1> QED BY Zenon, <1>3, <1>8 DEF Inv

\* block_if's early return.
LEMMA BlockIfRefusedInv ==
  ASSUME Inv, NEW c \in Core, BlockIfRefused(c)
  PROVE  Inv'
<1> DEFINE t == current[c]
<1>1. /\ t \in Spawned /\ t \in Thread /\ t \in Spawned /\ pc[t] = "block" /\ cpc[c] = "run"
      /\ state[t] = "RUNNING" /\ batch[t] = {}
  BY Zenon, Running, DisjointAssumption
     DEF BlockIfRefused, At, Thread, Spawned, OutPoints, DyingPoints, WakerPoints, ReaperPoints
<1>2. /\ pc' \in [Thread -> Points] /\ pc'[t] \in {"refused", "run", "unregister", "check"}
      /\ \A s \in Thread : s # t => pc'[s] = pc[s] /\ req'[s] = req[s] /\ wake'[s] = wake[s]
      /\ pc'[t] = "refused" => t \notin User
      /\ t \in User => pc'[t] # "run"
      /\ t = reaper => pc'[t] \in {"refused", "run"}
      /\ t # reaper => pc'[t] # "run"
      /\ t \in timed => pc'[t] \in {"refused", "unregister"}
  BY ZenonT(60), <1>1, AfterBlockPoint, DisjointAssumption DEF Inv, TypeOK, BlockIfRefused, At, Goto, Thread, Spawned, Points
<1>3. TypeOK'
  BY Zenon, <1>2 DEF Inv, TypeOK, BlockIfRefused
<1>4. WaitsWell(t)
  BY Zenon, <1>1, <1>2 DEF WaitsWell, Inv, WaitInv, TypeOK, BlockIfRefused, WaitPoints, WakerPoints, Thread, Spawned
<1>5. UNCHANGED <<current, next, outgoing, runq, state, on_cpu, sleepers, waitq, batch,
                  killed, reapVars>>
  BY Zenon DEF BlockIfRefused
<1>6. cpc' = cpc
  BY Zenon DEF BlockIfRefused
<1>7. pc[t] \notin OutPoints \cup {"reap"} /\ StepsWell(t)
  BY Zenon, <1>1, <1>2, DisjointAssumption
     DEF StepsWell, OutPoints, DyingPoints, WakerPoints, ReaperPoints
<1>8. /\ CpuInv' /\ StateInv' /\ PlaceInv' /\ PointsInv' /\ DeadInv' /\ WaitInv'
      /\ TimedNodeAlive' /\ KilledNotParked'
  BY Zenon, <1>1, <1>2, <1>4, <1>5, <1>6, <1>7, ThreadMove
<1> QED BY Zenon, <1>3, <1>8 DEF Inv

\* The guards of block_if's early return unwind.
LEMMA ReleaseRefusedInv ==
  ASSUME Inv, NEW c \in Core, ReleaseRefused(c)
  PROVE  Inv'
<1> DEFINE t == current[c]
<1>1. /\ t \in Spawned /\ t \in Thread /\ t \in Spawned /\ pc[t] = "refused" /\ cpc[c] = "run"
      /\ state[t] = "RUNNING" /\ batch[t] = {}
  BY Zenon, Running, DisjointAssumption
     DEF ReleaseRefused, At, Thread, Spawned, OutPoints, DyingPoints, WakerPoints, ReaperPoints
<1>2. /\ pc' \in [Thread -> Points] /\ pc'[t] \in {"run", "unregister", "check"}
      /\ \A s \in Thread : s # t => pc'[s] = pc[s] /\ req'[s] = req[s] /\ wake'[s] = wake[s]
      /\ t = reaper => pc'[t] = "run"
      /\ t # reaper => pc'[t] # "run"
      /\ t \in timed => pc'[t] = "unregister"
  BY Zenon, <1>1, AfterBlockPoint, DisjointAssumption DEF Inv, TypeOK, ReleaseRefused, At, Goto, Thread, Spawned, Points
<1>3. TypeOK'
  <2>1. masked' \in [Thread -> BOOLEAN]
    BY Zenon, <1>1 DEF Inv, TypeOK, ReleaseRefused
  <2>2. cpc' \in [Core -> CpuPoints]
    BY Zenon DEF Inv, TypeOK, ReleaseRefused, CpuPoints
  <2> QED BY Zenon, <1>2, <2>1, <2>2 DEF Inv, TypeOK, ReleaseRefused
<1>4. WaitsWell(t)
  BY Zenon, <1>1, <1>2 DEF WaitsWell, Inv, WaitInv, TypeOK, ReleaseRefused, WaitPoints, WakerPoints, Thread, Spawned
<1>5. UNCHANGED <<current, next, outgoing, runq, state, on_cpu, sleepers, waitq, batch,
                  killed, reapVars>>
  BY Zenon DEF ReleaseRefused
<1>6. cpc' = cpc \/ cpc' = [cpc EXCEPT ![c] = "service"]
  BY Zenon DEF ReleaseRefused
<1>7. pc[t] \notin OutPoints \cup {"reap"} /\ StepsWell(t)
  BY Zenon, <1>1, <1>2, DisjointAssumption
     DEF StepsWell, OutPoints, DyingPoints, WakerPoints, ReaperPoints
<1>8. /\ CpuInv' /\ StateInv' /\ PlaceInv' /\ PointsInv' /\ DeadInv' /\ WaitInv'
      /\ TimedNodeAlive' /\ KilledNotParked'
  BY Zenon, <1>1, <1>2, <1>4, <1>5, <1>6, <1>7, ThreadMove
<1> QED BY Zenon, <1>3, <1>8 DEF Inv

\* block_if returns after a wake.
LEMMA WokeInv ==
  ASSUME Inv, NEW c \in Core, Woke(c)
  PROVE  Inv'
<1> DEFINE t == current[c]
<1>1. /\ t \in Spawned /\ t \in Thread /\ t \in Spawned /\ pc[t] = "woke" /\ cpc[c] = "run"
      /\ state[t] = "RUNNING" /\ batch[t] = {}
  BY Zenon, Running, DisjointAssumption
     DEF Woke, At, Thread, Spawned, OutPoints, DyingPoints, WakerPoints, ReaperPoints
<1>2. /\ pc' \in [Thread -> Points] /\ pc'[t] \in {"run", "unregister", "check"}
      /\ \A s \in Thread : s # t => pc'[s] = pc[s] /\ req'[s] = req[s] /\ wake'[s] = wake[s]
      /\ t = reaper => pc'[t] = "run"
      /\ t # reaper => pc'[t] # "run"
      /\ t \in timed => pc'[t] = "unregister"
  BY Zenon, <1>1, AfterBlockPoint, DisjointAssumption DEF Inv, TypeOK, Woke, At, Goto, Thread, Spawned, OnlyPc, Points
<1>3. TypeOK'
  BY Zenon, <1>2 DEF Inv, TypeOK, Woke, OnlyPc
<1>4. WaitsWell(t)
  BY Zenon, <1>1, <1>2 DEF WaitsWell, Inv, WaitInv, TypeOK, Woke, OnlyPc, WaitPoints, WakerPoints, Thread, Spawned
<1>5. UNCHANGED <<current, next, outgoing, runq, state, on_cpu, sleepers, waitq, batch,
                  killed, reapVars>>
  BY Zenon DEF Woke, OnlyPc
<1>6. cpc' = cpc
  BY Zenon DEF Woke, OnlyPc
<1>7. pc[t] \notin OutPoints \cup {"reap"} /\ StepsWell(t)
  BY Zenon, <1>1, <1>2, DisjointAssumption
     DEF StepsWell, OutPoints, DyingPoints, WakerPoints, ReaperPoints
<1>8. /\ CpuInv' /\ StateInv' /\ PlaceInv' /\ PointsInv' /\ DeadInv' /\ WaitInv'
      /\ TimedNodeAlive' /\ KilledNotParked'
  BY Zenon, <1>1, <1>2, <1>4, <1>5, <1>6, <1>7, ThreadMove
<1> QED BY Zenon, <1>3, <1>8 DEF Inv

\* timed_wait_unregister removes the entry before the frame is reused.
LEMMA TimedWaitUnregisterInv ==
  ASSUME Inv, NEW c \in Core, TimedWaitUnregister(c)
  PROVE  Inv'
<1> DEFINE t == current[c]
<1>1. /\ t \in User \cup Kernel /\ t \in Thread /\ t \in Spawned /\ pc[t] = "unregister" /\ cpc[c] = "run"
      /\ state[t] = "RUNNING" /\ batch[t] = {} /\ t # reaper
  BY ZenonT(60), Running, DisjointAssumption
     DEF TimedWaitUnregister, At, Thread, Spawned, OutPoints, DyingPoints, WakerPoints, ReaperPoints
<1>2. /\ pc' \in [Thread -> Points] /\ pc'[t] = "check"
      /\ \A s \in Thread : s # t => pc'[s] = pc[s] /\ req'[s] = req[s] /\ wake'[s] = wake[s]
  BY Zenon, <1>1 DEF Inv, TypeOK, TimedWaitUnregister, At, Goto, Points
<1>3. TypeOK'
  <2>1. timed' \subseteq User \cup Kernel
    BY Zenon, <1>1 DEF Inv, TypeOK, TimedWaitUnregister
  <2> QED BY Zenon, <1>2, <2>1 DEF Inv, TypeOK, TimedWaitUnregister
<1>4. WaitsWell(t)
  BY Zenon, <1>1, <1>2 DEF WaitsWell, Inv, WaitInv, TypeOK, TimedWaitUnregister, WaitPoints, WakerPoints, Thread, Spawned
<1>5. UNCHANGED <<current, next, outgoing, runq, state, on_cpu, sleepers, waitq, batch,
                  killed, reapVars>>
  BY Zenon DEF TimedWaitUnregister
<1>6. cpc' = cpc
  BY Zenon DEF TimedWaitUnregister
<1>7. pc[t] \notin OutPoints \cup {"reap"} /\ StepsWell(t)
  BY Zenon, <1>1, <1>2, DisjointAssumption
     DEF StepsWell, OutPoints, DyingPoints, WakerPoints, ReaperPoints
<1>8. /\ CpuInv' /\ StateInv' /\ PlaceInv' /\ PointsInv' /\ DeadInv' /\ WaitInv'
      /\ TimedNodeAlive' /\ KilledNotParked'
  BY Zenon, <1>1, <1>2, <1>4, <1>5, <1>6, <1>7, ThreadMove
<1> QED BY Zenon, <1>3, <1>8 DEF Inv

\* signal_set's fetch_or.
LEMMA SignalSetInv ==
  ASSUME Inv, NEW c \in Core, NEW o \in Event, NEW b \in Bits, SignalSet(c, o, b)
  PROVE  Inv'
<1> DEFINE t == current[c]
<1>1. /\ t \in User \cup Kernel /\ t \in Thread /\ t \in Spawned /\ pc[t] = "run" /\ cpc[c] = "run"
      /\ state[t] = "RUNNING" /\ batch[t] = {} /\ t # reaper
  BY Zenon, Running, DisjointAssumption
     DEF SignalSet, At, May, Thread, Spawned, OutPoints, DyingPoints, WakerPoints, ReaperPoints
<1>2. /\ pc' \in [Thread -> Points] /\ pc'[t] = "load"
      /\ \A s \in Thread : s # t => pc'[s] = pc[s] /\ req'[s] = req[s] /\ wake'[s] = wake[s]
      /\ o \in Obj
      /\ wake'[t].obj = o
  BY ZenonT(60), <1>1 DEF Inv, TypeOK, SignalSet, At, Goto, Obj, Points
<1>3. TypeOK'
  <2>1. wake' \in [Thread -> [obj : Obj \cup {none}, signals : SUBSET Bits]]
    BY Zenon, <1>1, <1>2 DEF Inv, TypeOK, SignalSet, NoWake, Obj
  <2>2. sig \in [Obj -> SUBSET Bits] /\ sig' = [sig EXCEPT ![o] = @ \cup {b}] /\ b \in Bits
    BY Zenon, SizeAssumption DEF Inv, TypeOK, SignalSet
  <2>3. sig' \in [Obj -> SUBSET Bits]
    BY Zenon, <1>2, <2>2
  <2> QED BY Zenon, <1>2, <2>1, <2>2, <2>3 DEF Inv, TypeOK, SignalSet
<1>4. WaitsWell(t)
  BY Zenon, <1>1, <1>2, NotTimed DEF WaitsWell, Inv, SignalSet, WaitPoints, WakerPoints, Thread, Spawned
<1>5. UNCHANGED <<current, next, outgoing, runq, state, on_cpu, sleepers, waitq, batch,
                  killed, reapVars>>
  BY Zenon DEF SignalSet
<1>6. cpc' = cpc
  BY Zenon DEF SignalSet
<1>7. pc[t] \notin OutPoints \cup {"reap"} /\ StepsWell(t)
  BY Zenon, <1>1, <1>2, DisjointAssumption
     DEF StepsWell, OutPoints, DyingPoints, WakerPoints, ReaperPoints
<1>8. /\ CpuInv' /\ StateInv' /\ PlaceInv' /\ PointsInv' /\ DeadInv' /\ WaitInv'
      /\ TimedNodeAlive' /\ KilledNotParked'
  BY Zenon, <1>1, <1>2, <1>4, <1>5, <1>6, <1>7, ThreadMove
<1> QED BY Zenon, <1>3, <1>8 DEF Inv

\* signal_clear.
LEMMA SignalClearInv ==
  ASSUME Inv, NEW c \in Core, NEW o \in Event, NEW b \in Bits, SignalClear(c, o, b)
  PROVE  Inv'
<1> DEFINE t == current[c]
<1>1. /\ t \in User \cup Kernel /\ t \in Thread /\ t \in Spawned /\ pc[t] = "run" /\ cpc[c] = "run"
      /\ state[t] = "RUNNING" /\ batch[t] = {} /\ t # reaper
  BY Zenon, Running, DisjointAssumption
     DEF SignalClear, At, May, Thread, Spawned, OutPoints, DyingPoints, WakerPoints, ReaperPoints
<1>2. /\ pc' \in [Thread -> Points] /\ pc'[t] \in {"boundary", "run"}
      /\ \A s \in Thread : s # t => pc'[s] = pc[s] /\ req'[s] = req[s] /\ wake'[s] = wake[s]
  BY Zenon, <1>1 DEF Inv, TypeOK, SignalClear, At, Goto, Return, Points
<1>3. TypeOK'
  <2>1. sig \in [Obj -> SUBSET Bits] /\ sig' = [sig EXCEPT ![o] = @ \ {b}] /\ b \in Bits
    BY Zenon, SizeAssumption DEF Inv, TypeOK, SignalClear
  <2>2. sig' \in [Obj -> SUBSET Bits]
    BY Zenon, <1>2, <2>1
  <2> QED BY Zenon, <1>2, <2>1, <2>2 DEF Inv, TypeOK, SignalClear
<1>4. WaitsWell(t)
  BY Zenon, <1>1, <1>2, NotTimed DEF WaitsWell, Inv, SignalClear, WaitPoints, WakerPoints, Thread, Spawned
<1>5. UNCHANGED <<current, next, outgoing, runq, state, on_cpu, sleepers, waitq, batch,
                  killed, reapVars>>
  BY Zenon DEF SignalClear
<1>6. cpc' = cpc
  BY Zenon DEF SignalClear
<1>7. pc[t] \notin OutPoints \cup {"reap"} /\ StepsWell(t)
  BY Zenon, <1>1, <1>2, DisjointAssumption
     DEF StepsWell, OutPoints, DyingPoints, WakerPoints, ReaperPoints
<1>8. /\ CpuInv' /\ StateInv' /\ PlaceInv' /\ PointsInv' /\ DeadInv' /\ WaitInv'
      /\ TimedNodeAlive' /\ KilledNotParked'
  BY Zenon, <1>1, <1>2, <1>4, <1>5, <1>6, <1>7, ThreadMove
<1> QED BY Zenon, <1>3, <1>8 DEF Inv

\* object_signal_wake reads the signals.
LEMMA LoadSignalsInv ==
  ASSUME Inv, NEW c \in Core, LoadSignals(c)
  PROVE  Inv'
<1> DEFINE t == current[c]
<1>1. /\ t \in User \cup Kernel /\ t \in Thread /\ t \in Spawned /\ pc[t] = "load" /\ cpc[c] = "run"
      /\ state[t] \in {"RUNNING", "DEAD"} /\ batch[t] = {} /\ t # reaper
  BY ZenonT(60), Running, DisjointAssumption
     DEF LoadSignals, At, Thread, Spawned, OutPoints, DyingPoints, WakerPoints, ReaperPoints
<1>2. /\ pc' \in [Thread -> Points] /\ pc'[t] = "scan"
      /\ \A s \in Thread : s # t => pc'[s] = pc[s] /\ req'[s] = req[s] /\ wake'[s] = wake[s]
      /\ wake[t].obj \in Obj
      /\ wake'[t].obj = wake[t].obj
  BY Zenon, <1>1 DEF Inv, TypeOK, LoadSignals, At, Goto, WaitInv, WakerPoints, Points
<1>3. TypeOK'
  <2>1. wake' \in [Thread -> [obj : Obj \cup {none}, signals : SUBSET Bits]]
    BY Zenon, <1>1, <1>2 DEF Inv, TypeOK, LoadSignals, NoWake, Obj
  <2> QED BY Zenon, <1>2, <2>1 DEF Inv, TypeOK, LoadSignals
<1>4. WaitsWell(t)
  BY Zenon, <1>1, <1>2, NotTimed DEF WaitsWell, Inv, LoadSignals, WaitPoints, WakerPoints, Thread, Spawned
<1>5. UNCHANGED <<current, next, outgoing, runq, state, on_cpu, sleepers, waitq, batch,
                  killed, reapVars>>
  BY Zenon DEF LoadSignals
<1>6. cpc' = cpc
  BY Zenon DEF LoadSignals
<1>7. pc[t] \notin OutPoints \cup {"reap"} /\ StepsWell(t)
  BY Zenon, <1>1, <1>2, DisjointAssumption
     DEF StepsWell, OutPoints, DyingPoints, WakerPoints, ReaperPoints
<1>8. /\ CpuInv' /\ StateInv' /\ PlaceInv' /\ PointsInv' /\ DeadInv' /\ WaitInv'
      /\ TimedNodeAlive' /\ KilledNotParked'
  BY Zenon, <1>1, <1>2, <1>4, <1>5, <1>6, <1>7, ThreadMove
<1> QED BY Zenon, <1>3, <1>8 DEF Inv

\* wake_matching has made its batch ready.
LEMMA WakeDoneInv ==
  ASSUME Inv, NEW c \in Core, WakeDone(c)
  PROVE  Inv'
<1> DEFINE t == current[c]
<1>1. /\ t \in User \cup Kernel /\ t \in Thread /\ t \in Spawned /\ pc[t] \in {"batch", "more"} /\ cpc[c] = "run"
      /\ state[t] \in {"RUNNING", "DEAD"} /\ batch[t] = {} /\ t # reaper
  BY ZenonT(60), Running, DisjointAssumption
     DEF WakeDone, At, Thread, Spawned, OutPoints, DyingPoints, WakerPoints, ReaperPoints
<1>2. /\ pc' \in [Thread -> Points] /\ pc'[t] \in {"scan", "kick", "boundary", "run"}
      /\ \A s \in Thread : s # t => pc'[s] = pc[s] /\ req'[s] = req[s] /\ wake'[s] = wake[s]
      /\ pc'[t] = "scan" => wake' = wake /\ wake[t].obj \in Obj
      /\ state[t] = "DEAD" => pc'[t] \in {"scan", "kick"}
      /\ state[t] # "DEAD" => pc'[t] # "kick"
  BY ZenonT(60), <1>1 DEF Inv, TypeOK, WakeDone, At, Goto, Return, NextPass, AfterWake, WaitInv, WakerPoints, Points
<1>3. TypeOK'
  <2>1. wake' \in [Thread -> [obj : Obj \cup {none}, signals : SUBSET Bits]]
    BY Zenon, <1>1, <1>2 DEF Inv, TypeOK, WakeDone, NoWake, Obj
  <2> QED BY Zenon, <1>2, <2>1 DEF Inv, TypeOK, WakeDone
<1>4. WaitsWell(t)
  BY Zenon, <1>1, <1>2, NotTimed DEF WaitsWell, Inv, WakeDone, WaitPoints, WakerPoints, Thread, Spawned
<1>5. UNCHANGED <<current, next, outgoing, runq, state, on_cpu, sleepers, waitq, batch,
                  killed, reapVars>>
  BY Zenon DEF WakeDone
<1>6. cpc' = cpc
  BY Zenon DEF WakeDone
<1>7. pc[t] \notin OutPoints \cup {"reap"} /\ StepsWell(t)
  BY Zenon, <1>1, <1>2, DisjointAssumption
     DEF StepsWell, OutPoints, DyingPoints, WakerPoints, ReaperPoints
<1>8. /\ CpuInv' /\ StateInv' /\ PlaceInv' /\ PointsInv' /\ DeadInv' /\ WaitInv'
      /\ TimedNodeAlive' /\ KilledNotParked'
  BY Zenon, <1>1, <1>2, <1>4, <1>5, <1>6, <1>7, ThreadMove
<1> QED BY Zenon, <1>3, <1>8 DEF Inv

\* The kill boundary at the end of syscall_dispatch.
LEMMA BoundaryInv ==
  ASSUME Inv, NEW c \in Core, Boundary(c)
  PROVE  Inv'
<1> DEFINE t == current[c]
<1>1. /\ t \in User \cup Kernel /\ t \in Thread /\ t \in Spawned /\ pc[t] = "boundary" /\ cpc[c] = "run"
      /\ state[t] = "RUNNING" /\ batch[t] = {} /\ t # reaper
  BY ZenonT(60), Running, DisjointAssumption
     DEF Boundary, At, Thread, Spawned, OutPoints, DyingPoints, WakerPoints, ReaperPoints
<1>2. /\ pc' \in [Thread -> Points] /\ pc'[t] \in {"exit", "run"}
      /\ \A s \in Thread : s # t => pc'[s] = pc[s] /\ req'[s] = req[s] /\ wake'[s] = wake[s]
  BY Zenon, <1>1 DEF Inv, TypeOK, Boundary, At, Goto, OnlyPc, Points
<1>3. TypeOK'
  BY Zenon, <1>2 DEF Inv, TypeOK, Boundary, OnlyPc
<1>4. WaitsWell(t)
  BY Zenon, <1>1, <1>2, NotTimed DEF WaitsWell, Inv, Boundary, OnlyPc, WaitPoints, WakerPoints, Thread, Spawned
<1>5. UNCHANGED <<current, next, outgoing, runq, state, on_cpu, sleepers, waitq, batch,
                  killed, reapVars>>
  BY Zenon DEF Boundary, OnlyPc
<1>6. cpc' = cpc
  BY Zenon DEF Boundary, OnlyPc
<1>7. pc[t] \notin OutPoints \cup {"reap"} /\ StepsWell(t)
  BY Zenon, <1>1, <1>2, DisjointAssumption
     DEF StepsWell, OutPoints, DyingPoints, WakerPoints, ReaperPoints
<1>8. /\ CpuInv' /\ StateInv' /\ PlaceInv' /\ PointsInv' /\ DeadInv' /\ WaitInv'
      /\ TimedNodeAlive' /\ KilledNotParked'
  BY Zenon, <1>1, <1>2, <1>4, <1>5, <1>6, <1>7, ThreadMove
<1> QED BY Zenon, <1>3, <1>8 DEF Inv

\* A thread enters exit_current.
LEMMA BeginExitInv ==
  ASSUME Inv, NEW c \in Core, BeginExit(c)
  PROVE  Inv'
<1> DEFINE t == current[c]
<1>1. /\ t \in User \cup Kernel /\ t \in Thread /\ t \in Spawned /\ pc[t] = "run" /\ cpc[c] = "run"
      /\ state[t] = "RUNNING" /\ batch[t] = {} /\ t # reaper
  BY Zenon, Running, DisjointAssumption
     DEF BeginExit, At, May, Thread, Spawned, OutPoints, DyingPoints, WakerPoints, ReaperPoints
<1>2. /\ pc' \in [Thread -> Points] /\ pc'[t] = "exit"
      /\ \A s \in Thread : s # t => pc'[s] = pc[s] /\ req'[s] = req[s] /\ wake'[s] = wake[s]
  BY Zenon, <1>1 DEF Inv, TypeOK, BeginExit, At, Goto, OnlyPc, Points
<1>3. TypeOK'
  BY Zenon, <1>2 DEF Inv, TypeOK, BeginExit, OnlyPc
<1>4. WaitsWell(t)
  BY Zenon, <1>1, <1>2, NotTimed DEF WaitsWell, Inv, BeginExit, OnlyPc, WaitPoints, WakerPoints, Thread, Spawned
<1>5. UNCHANGED <<current, next, outgoing, runq, state, on_cpu, sleepers, waitq, batch,
                  killed, reapVars>>
  BY Zenon DEF BeginExit, OnlyPc
<1>6. cpc' = cpc
  BY Zenon DEF BeginExit, OnlyPc
<1>7. pc[t] \notin OutPoints \cup {"reap"} /\ StepsWell(t)
  BY Zenon, <1>1, <1>2, DisjointAssumption
     DEF StepsWell, OutPoints, DyingPoints, WakerPoints, ReaperPoints
<1>8. /\ CpuInv' /\ StateInv' /\ PlaceInv' /\ PointsInv' /\ DeadInv' /\ WaitInv'
      /\ TimedNodeAlive' /\ KilledNotParked'
  BY Zenon, <1>1, <1>2, <1>4, <1>5, <1>6, <1>7, ThreadMove
<1> QED BY Zenon, <1>3, <1>8 DEF Inv

\* exit_current's signal_set(SIGNAL_TERMINATED).
LEMMA SignalTerminatedInv ==
  ASSUME Inv, NEW c \in Core, SignalTerminated(c)
  PROVE  Inv'
<1> DEFINE t == current[c]
<1>1. /\ t \in User \cup Kernel /\ t \in Thread /\ t \in Spawned /\ pc[t] = "terminated" /\ cpc[c] = "run"
      /\ state[t] = "DEAD" /\ batch[t] = {} /\ t # reaper
  BY ZenonT(60), Running, DisjointAssumption
     DEF SignalTerminated, At, Thread, Spawned, OutPoints, DyingPoints, WakerPoints, ReaperPoints
<1>2. /\ pc' \in [Thread -> Points] /\ pc'[t] = "load"
      /\ \A s \in Thread : s # t => pc'[s] = pc[s] /\ req'[s] = req[s] /\ wake'[s] = wake[s]
      /\ t \in Obj
      /\ wake'[t].obj = t
  BY Zenon, <1>1 DEF Inv, TypeOK, SignalTerminated, At, Goto, Obj, Points
<1>3. TypeOK'
  <2>1. wake' \in [Thread -> [obj : Obj \cup {none}, signals : SUBSET Bits]]
    BY Zenon, <1>1, <1>2 DEF Inv, TypeOK, SignalTerminated, NoWake, Obj
  <2>2. sig \in [Obj -> SUBSET Bits] /\ sig' = [sig EXCEPT ![t] = @ \cup {TERMINATED}] /\ TERMINATED \in Bits
    BY Zenon, SizeAssumption DEF Inv, TypeOK, SignalTerminated
  <2>3. sig' \in [Obj -> SUBSET Bits]
    BY Zenon, <1>2, <2>2
  <2> QED BY Zenon, <1>2, <2>1, <2>2, <2>3 DEF Inv, TypeOK, SignalTerminated
<1>4. WaitsWell(t)
  BY Zenon, <1>1, <1>2, NotTimed DEF WaitsWell, Inv, SignalTerminated, WaitPoints, WakerPoints, Thread, Spawned
<1>5. UNCHANGED <<current, next, outgoing, runq, state, on_cpu, sleepers, waitq, batch,
                  killed, reapVars>>
  BY Zenon DEF SignalTerminated
<1>6. cpc' = cpc
  BY Zenon DEF SignalTerminated
<1>7. pc[t] \notin OutPoints \cup {"reap"} /\ StepsWell(t)
  BY Zenon, <1>1, <1>2, DisjointAssumption
     DEF StepsWell, OutPoints, DyingPoints, WakerPoints, ReaperPoints
<1>8. /\ CpuInv' /\ StateInv' /\ PlaceInv' /\ PointsInv' /\ DeadInv' /\ WaitInv'
      /\ TimedNodeAlive' /\ KilledNotParked'
  BY Zenon, <1>1, <1>2, <1>4, <1>5, <1>6, <1>7, ThreadMove
<1> QED BY Zenon, <1>3, <1>8 DEF Inv

\* exit_current goes on to schedule_out.
LEMMA ExitDoneInv ==
  ASSUME Inv, NEW c \in Core, ExitDone(c)
  PROVE  Inv'
<1> DEFINE t == current[c]
<1>1. /\ t \in User \cup Kernel /\ t \in Thread /\ t \in Spawned /\ pc[t] = "kicked" /\ cpc[c] = "run"
      /\ state[t] = "DEAD" /\ batch[t] = {} /\ t # reaper
  BY ZenonT(60), Running, DisjointAssumption
     DEF ExitDone, At, Thread, Spawned, OutPoints, DyingPoints, WakerPoints, ReaperPoints
<1>2. /\ pc' \in [Thread -> Points] /\ pc'[t] = "exit_out"
      /\ \A s \in Thread : s # t => pc'[s] = pc[s] /\ req'[s] = req[s] /\ wake'[s] = wake[s]
  BY Zenon, <1>1 DEF Inv, TypeOK, ExitDone, At, Goto, OnlyPc, Points
<1>3. TypeOK'
  BY Zenon, <1>2 DEF Inv, TypeOK, ExitDone, OnlyPc
<1>4. WaitsWell(t)
  BY Zenon, <1>1, <1>2, NotTimed DEF WaitsWell, Inv, ExitDone, OnlyPc, WaitPoints, WakerPoints, Thread, Spawned
<1>5. UNCHANGED <<current, next, outgoing, runq, state, on_cpu, sleepers, waitq, batch,
                  killed, reapVars>>
  BY Zenon DEF ExitDone, OnlyPc
<1>6. cpc' = cpc
  BY Zenon DEF ExitDone, OnlyPc
<1>7. pc[t] \notin OutPoints \cup {"reap"} /\ StepsWell(t)
  BY Zenon, <1>1, <1>2, DisjointAssumption
     DEF StepsWell, OutPoints, DyingPoints, WakerPoints, ReaperPoints
<1>8. /\ CpuInv' /\ StateInv' /\ PlaceInv' /\ PointsInv' /\ DeadInv' /\ WaitInv'
      /\ TimedNodeAlive' /\ KilledNotParked'
  BY Zenon, <1>1, <1>2, <1>4, <1>5, <1>6, <1>7, ThreadMove
<1> QED BY Zenon, <1>3, <1>8 DEF Inv

----------------------------------------------------------------------------
(* Interrupts and the switch.                                              *)

\* The timer interrupt is entered.
LEMMA TickInv ==
  ASSUME Inv, NEW c \in Core, Tick(c)
  PROVE  Inv'
<1>1. cpc[c] = "run" /\ state[current[c]] = "RUNNING"
  <2>1. pc[current[c]] \notin OutPoints
    BY Zenon DEF Tick, Interruptible, IrqOnPoints, OutPoints
  <2> QED BY Zenon, <2>1 DEF Inv, StateInv, Tick, Interruptible
<1>2. TypeOK'
  <2>1. timer' \in [Thread -> 0..MaxDelay]
    <3>1. timer \in [Thread -> 0..MaxDelay] /\ MaxDelay \in Nat
      BY Zenon, SizeAssumption DEF Inv, TypeOK
    <3>2. \/ timer' = timer
          \/ timer' = [t \in Thread |-> IF timer[t] = 0 THEN 0 ELSE timer[t] - 1]
      BY ZenonT(30) DEF Tick
    <3> HIDE DEF cpuVars, lockVars, timeVars, threadVars, waitVars, reapVars
    <3> QED BY SMTT(60), <3>1, <3>2
  <2> QED BY Zenon, <2>1 DEF Inv, TypeOK, Tick, CpuPoints
<1>3. CpuInv' /\ StateInv' /\ PlaceInv'
  BY Zenon, <1>1, CpcMove DEF Tick, InterruptPoints
<1>4. PointsInv' /\ DeadInv' /\ WaitInv' /\ TimedNodeAlive' /\ KilledNotParked'
  BY Zenon, RestFrame DEF Tick
<1> QED BY Zenon, <1>2, <1>3, <1>4 DEF Inv

\* A reschedule IPI is taken.
LEMMA ReschedIPIInv ==
  ASSUME Inv, NEW c \in Core, ReschedIPI(c)
  PROVE  Inv'
<1>1. cpc[c] = "run" /\ state[current[c]] = "RUNNING"
  <2>1. pc[current[c]] \notin OutPoints
    BY Zenon DEF ReschedIPI, Interruptible, IrqOnPoints, OutPoints
  <2> QED BY Zenon, <2>1 DEF Inv, StateInv, ReschedIPI, Interruptible
<1>2. TypeOK'
  BY Zenon DEF Inv, TypeOK, ReschedIPI, CpuPoints
<1>3. CpuInv' /\ StateInv' /\ PlaceInv'
  BY Zenon, <1>1, CpcMove DEF ReschedIPI, InterruptPoints
<1>4. PointsInv' /\ DeadInv' /\ WaitInv' /\ TimedNodeAlive' /\ KilledNotParked'
  BY Zenon, RestFrame DEF ReschedIPI
<1> QED BY Zenon, <1>2, <1>3, <1>4 DEF Inv

\* on_tick takes g_sched_lock.
LEMMA TickLockInv ==
  ASSUME Inv, NEW c \in Core, TickLock(c)
  PROVE  Inv'
<1>1. cpc[c] = "tick" /\ state[current[c]] = "RUNNING"
  BY Zenon DEF Inv, StateInv, TickLock, InterruptPoints
<1>2. TypeOK'
  BY Zenon DEF Inv, TypeOK, TickLock, CpuPoints, Spawned
<1>3. CpuInv' /\ StateInv' /\ PlaceInv'
  BY Zenon, <1>1, CpcMove DEF TickLock, InterruptPoints
<1>4. PointsInv' /\ DeadInv' /\ WaitInv' /\ TimedNodeAlive' /\ KilledNotParked'
  BY Zenon, RestFrame DEF TickLock
<1> QED BY Zenon, <1>2, <1>3, <1>4 DEF Inv

\* on_tick decides whether to reschedule.
LEMMA TickDecideInv ==
  ASSUME Inv, NEW c \in Core, TickDecide(c)
  PROVE  Inv'
<1>1. cpc[c] = "scan" /\ state[current[c]] = "RUNNING"
  BY Zenon DEF Inv, StateInv, TickDecide, InterruptPoints
<1>2. TypeOK'
  <2>1. slice' \in [Thread -> 0..TIMESLICE]
    BY SMTT(60), ZenonT(60), SizeAssumption DEF Inv, TypeOK, TickDecide, DecrementSlice
  <2>2. pending' \in [Core -> BOOLEAN]
    BY Zenon DEF Inv, TypeOK, TickDecide, Resched
  <2> QED BY Zenon, <2>1, <2>2 DEF Inv, TypeOK, TickDecide, CpuPoints
<1>3. CpuInv' /\ StateInv' /\ PlaceInv'
  BY Zenon, <1>1, CpcMove DEF TickDecide, InterruptPoints
<1>4. PointsInv' /\ DeadInv' /\ WaitInv' /\ TimedNodeAlive' /\ KilledNotParked'
  BY Zenon, RestFrame DEF TickDecide
<1> QED BY Zenon, <1>2, <1>3, <1>4 DEF Inv

\* The locked half of switch_to.
LEMMA SwitchToInv ==
  ASSUME Inv, NEW c \in Core, SwitchTo(c)
  PROVE  Inv'
<1> DEFINE out == current[c]
           in == next[c]
<1>1. /\ cpc[c] = "switch" /\ out \in Thread /\ in \in Thread /\ in # none
      /\ on_cpu[out] /\ ~on_cpu[in] /\ in # out
      /\ in \in Core => in = c
      /\ \A d \in Core : current[d] # in /\ outgoing[d] # in /\ next[d] # out
      /\ \A d \in Core : d # c => current[d] # out /\ next[d] # in /\ outgoing[d] # out
  <2>1. cpc[c] = "switch" /\ out \in Thread /\ in # none
    BY ZenonT(60) DEF Inv, TypeOK, CpuInv, SwitchTo
  <2>2. in \in Thread /\ on_cpu[out] /\ ~on_cpu[in] /\ in # out /\ (in \in Core => in = c)
    BY SMTT(60), ZenonT(60), <2>1 DEF Inv, TypeOK, CpuInv
  <2>3. \A d \in Core : current[d] # in /\ outgoing[d] # in /\ next[d] # out
    BY ZenonT(60), <2>1, <2>2, DisjointAssumption DEF Inv, CpuInv
  <2>4. \A d \in Core : d # c => current[d] # out /\ next[d] # in /\ outgoing[d] # out
    BY Zenon, <2>1 DEF Inv, CpuInv
  <2> QED BY Zenon, <2>1, <2>2, <2>3, <2>4
<1>2. pc[in] \notin OutPoints \cup DyingPoints \cup {"new"} /\ state[in] # "DEAD"
  <2>1. CASE in \in Spawned
    <3>1. state[in] = "READY" /\ pc[in] # "new"
      BY Zenon, <2>1 DEF Inv, PlaceInv
    <3>2. pc[in] \notin OutPoints \cup DyingPoints
      BY SMTT(60), ZenonT(60), <1>1, <3>1 DEF Inv, StateInv
    <3> QED BY Zenon, <3>1, <3>2
  <2>2. CASE in \in Core
    BY Zenon, <2>2, <1>1 DEF Inv, PointsInv, StateInv, OutPoints, DyingPoints, WakerPoints
  <2> QED BY Zenon, <2>1, <2>2, <1>1 DEF Thread, Spawned
<1>3. /\ state' \in [Thread -> {"READY", "RUNNING", "BLOCKED", "DEAD"}]
      /\ state'[in] = "RUNNING"
      /\ state'[out] = IF state[out] = "RUNNING" THEN "READY" ELSE state[out]
      /\ \A s \in Thread : s # in /\ s # out => state'[s] = state[s]
  BY Zenon, <1>1 DEF Inv, TypeOK, SwitchTo
<1>4. /\ on_cpu' \in [Thread -> BOOLEAN]
      /\ on_cpu'[in] /\ \A s \in Thread : s # in => on_cpu'[s] = on_cpu[s]
  BY Zenon, <1>1 DEF Inv, TypeOK, SwitchTo
<1>5. /\ current'[c] = in /\ outgoing'[c] = out /\ next'[c] = none /\ cpc'[c] = "finish"
      /\ \A d \in Core : d # c => /\ current'[d] = current[d] /\ outgoing'[d] = outgoing[d]
                                  /\ next'[d] = next[d] /\ cpc'[d] = cpc[d]
  BY Zenon DEF Inv, TypeOK, SwitchTo
<1>6. TypeOK'
  <2>1. slice' \in [Thread -> 0..TIMESLICE]
    <3>1. TIMESLICE \in 0..TIMESLICE
      BY SMTT(60), ZenonT(60), SizeAssumption
    <3> QED BY Zenon, <3>1 DEF Inv, TypeOK, SwitchTo
  <2>2. /\ current' \in [Core -> Thread] /\ next' \in [Core -> Thread \cup {none}]
        /\ outgoing' \in [Core -> Thread \cup {none}] /\ cpc' \in [Core -> CpuPoints]
    BY Zenon, <1>1 DEF Inv, TypeOK, SwitchTo, CpuPoints
  <2> QED BY Zenon, <2>1, <2>2, <1>3, <1>4 DEF Inv, TypeOK, SwitchTo
<1>7. CpuInv'
  <2>1. \A d \in Core : /\ on_cpu'[current'[d]]
                        /\ outgoing'[d] # none <=> cpc'[d] = "finish"
                        /\ next'[d] # none <=> cpc'[d] = "switch"
                        /\ outgoing'[d] # none => on_cpu'[outgoing'[d]] /\ outgoing'[d] # current'[d]
                        /\ next'[d] # none => ~on_cpu'[next'[d]]
                        /\ current'[d] \in Core => current'[d] = d
                        /\ outgoing'[d] \in Core => outgoing'[d] = d
                        /\ next'[d] \in Core => next'[d] = d
    <3> TAKE d \in Core
    <3>1. CASE d = c
      BY Zenon, <3>1, <1>1, <1>4, <1>5, DisjointAssumption DEF Inv, CpuInv, Thread
    <3>2. CASE d # c
      <4>1. current[d] \in Thread /\ outgoing[d] \in Thread \cup {none} /\ next[d] \in Thread \cup {none}
        BY Zenon DEF Inv, TypeOK
      <4> QED BY SMTT(60), ZenonT(60), <3>2, <4>1, <1>1, <1>4, <1>5 DEF Inv, CpuInv
    <3> QED BY Zenon, <3>1, <3>2
  <2>2. \A d, e \in Core : d # e => /\ current'[d] # current'[e] /\ outgoing'[d] # current'[e]
                                    /\ outgoing'[d] # none => outgoing'[d] # outgoing'[e]
                                    /\ next'[d] # none => next'[d] # next'[e]
    <3> TAKE d, e \in Core
    <3>1. CASE d = c
      BY SMTT(60), ZenonT(60), <3>1, <1>1, <1>5 DEF Inv, CpuInv
    <3>2. CASE e = c
      BY SMTT(60), ZenonT(60), <3>2, <1>1, <1>5 DEF Inv, CpuInv
    <3>3. CASE d # c /\ e # c
      BY SMTT(60), ZenonT(60), <3>3, <1>5 DEF Inv, CpuInv
    <3> QED BY Zenon, <3>1, <3>2, <3>3
  <2>3. \A s \in Thread : on_cpu'[s] => \E d \in Core : s = current'[d] \/ s = outgoing'[d]
    <3> SUFFICES ASSUME NEW s \in Thread, on_cpu'[s]
                 PROVE  \E d \in Core : s = current'[d] \/ s = outgoing'[d]
      OBVIOUS
    <3>1. CASE s = in \/ s = out
      BY Zenon, <3>1, <1>5
    <3>2. CASE s # in /\ s # out
      <4>1. PICK d \in Core : s = current[d] \/ s = outgoing[d]
        BY Zenon, <3>2, <1>4 DEF Inv, CpuInv
      <4>2. outgoing[c] = none
        BY Zenon, <1>1 DEF Inv, CpuInv
      <4>3. d # c
        BY Zenon, <4>1, <4>2, <3>2, DisjointAssumption DEF Thread
      <4> QED BY Zenon, <4>1, <4>3, <1>5
    <3> QED BY Zenon, <3>1, <3>2
  <2> QED BY Zenon, <2>1, <2>2, <2>3 DEF CpuInv
<1>8. StateInv'
  <2>1. /\ \A d \in Core : cpc'[d] \in InterruptPoints => state'[current'[d]] = "RUNNING"
        /\ \A d \in Core : cpc'[d] \in {"run", "finish"} /\ pc'[current'[d]] \notin OutPoints
                              => state'[current'[d]] \in {"RUNNING", "DEAD"}
    BY SMTT(60), ZenonT(60), <1>1, <1>3, <1>5 DEF Inv, TypeOK, StateInv, SwitchTo, InterruptPoints
  <2>2. \A s \in Thread : /\ pc[s] \in OutPoints => state'[s] \in {"BLOCKED", "READY"}
                          /\ pc[s] \in DyingPoints => state'[s] = "DEAD"
                          /\ state'[s] = "DEAD" => state[s] = "DEAD"
                          /\ pc[s] = "new" => state'[s] = "READY" /\ ~on_cpu'[s]
    <3> TAKE s \in Thread
    <3>1. /\ pc[s] \in OutPoints => state[s] \in {"BLOCKED", "READY"}
          /\ pc[s] \in DyingPoints => state[s] = "DEAD"
          /\ pc[s] = "new" => state[s] = "READY" /\ ~on_cpu[s]
      BY Zenon DEF Inv, StateInv
    <3>2. CASE s = in
      BY Zenon, <3>2, <1>2, <1>3
    <3>3. CASE s = out
      BY Zenon, <3>1, <3>3, <1>1, <1>3, <1>4
    <3>4. CASE s # in /\ s # out
      BY Zenon, <3>1, <3>4, <1>3, <1>4
    <3> QED BY Zenon, <3>2, <3>3, <3>4
  <2>3. \A s \in Thread : pc[s] \in OutPoints \cup (DyingPoints \ {"dead"})
                         \/ (state'[s] = "DEAD" /\ pc[s] # "dead") =>
          \E d \in Core : current'[d] = s /\ cpc'[d] = "run"
    BY SMTT(60), ZenonT(60), <1>1, <1>5, <2>2 DEF Inv, StateInv
  <2>4. pc' = pc
    BY Zenon DEF SwitchTo
  <2> QED BY ZenonT(60), <2>1, <2>2, <2>3, <2>4 DEF Inv, StateInv
<1>9. PlaceInv'
  <2>1. UNCHANGED <<runq, pc, waitq, sleepers, batch>>
    BY Zenon DEF SwitchTo
  <2>2. \A s \in Thread : /\ state[s] = "BLOCKED" /\ s \in Spawned => state'[s] = "BLOCKED"
                          /\ state[s] = "READY" /\ s # in => state'[s] = "READY"
    <3>1. in \in Spawned => state[in] = "READY"
      BY Zenon DEF Inv, PlaceInv
    <3> QED BY SMTT(60), ZenonT(60), <1>1, <1>3, <3>1
  <2>3. \A s \in Thread : InSeq(runq, s) => s \in Spawned /\ s # in
    <3> TAKE s \in Thread
    <3> HAVE InSeq(runq, s)
    <3>1. s \in Spawned
      BY Zenon, SeqMember DEF Inv, TypeOK
    <3>2. in \in Spawned => ~InSeq(runq, in)
      BY Zenon DEF Inv, PlaceInv
    <3> QED BY Zenon, <3>1, <3>2
  <2>4. \A d \in Core : next'[d] \in Spawned =>
          state'[next'[d]] = "READY" /\ pc'[next'[d]] # "new" /\ ~InSeq(runq, next'[d])
    BY SMTT(60), ZenonT(60), <1>1, <1>5, <2>1, <2>2, DisjointAssumption DEF Inv, PlaceInv, Spawned, Thread
  <2>5. /\ sleepers \subseteq Spawned /\ Spawned \subseteq Thread
        /\ \A w \in Thread : batch[w] \subseteq Spawned
    BY Zenon DEF Inv, TypeOK, Spawned, Thread
  <2>6. /\ \A s \in Thread : waitq[s] # none => state'[s] = "BLOCKED"
        /\ \A s \in sleepers : state'[s] = "BLOCKED"
        /\ \A w \in Thread : \A s \in batch[w] : state'[s] = "BLOCKED"
    BY Zenon, <2>2, <2>5 DEF Inv, PlaceInv
  <2>7. \A s \in Thread : InSeq(runq, s) => state'[s] = "READY"
    BY Zenon, <2>2, <2>3 DEF Inv, PlaceInv
  <2> QED BY ZenonT(60), <2>1, <2>4, <2>6, <2>7 DEF Inv, PlaceInv
<1>10. DeadInv'
  <2>1. \A s \in Thread : state[s] = "DEAD" => state'[s] = "DEAD" /\ on_cpu'[s] = on_cpu[s]
    BY ZenonT(60), <1>1, <1>2, <1>3, <1>4
  <2>2. UNCHANGED <<zombies, corpse, reaped>> /\ reaped \subseteq Thread
        /\ corpse \in Thread \cup {none}
    BY Zenon DEF Inv, TypeOK, SwitchTo, Thread
  <2> QED BY Zenon, <2>1, <2>2 DEF Inv, DeadInv
<1>11. PointsInv' /\ WaitInv' /\ TimedNodeAlive' /\ KilledNotParked'
  BY Zenon DEF Inv, PointsInv, WaitInv, TimedNodeAlive, KilledNotParked, SwitchTo
<1> QED BY Zenon, <1>6, <1>7, <1>8, <1>9, <1>10, <1>11 DEF Inv

\* sched_finish_switch.
LEMMA FinishSwitchInv ==
  ASSUME Inv, NEW c \in Core, FinishSwitch(c)
  PROVE  Inv'
<1> DEFINE out == outgoing[c]
<1>1. /\ cpc[c] = "finish" /\ out \in Thread /\ out # none
      /\ \A d \in Core : current[d] # out
      /\ \A d \in Core : d # c => outgoing[d] # out
  <2>1. cpc[c] = "finish" /\ out # none
    BY Zenon DEF Inv, CpuInv, FinishSwitch
  <2>2. outgoing[c] \in Thread \cup {none} /\ outgoing[c] # current[c]
    <3>1. outgoing \in [Core -> Thread \cup {none}]
      BY Zenon DEF Inv, TypeOK
    <3>2. outgoing[c] # none => outgoing[c] # current[c]
      BY Zenon DEF Inv, CpuInv
    <3> QED BY Zenon, <2>1, <3>1, <3>2
  <2>3. /\ \A d \in Core : d # c => current[d] # out
        /\ \A d \in Core : d # c => outgoing[d] # out
    BY ZenonT(60), <2>1 DEF Inv, CpuInv
  <2> QED BY Zenon, <2>1, <2>2, <2>3
<1>2. /\ on_cpu' \in [Thread -> BOOLEAN] /\ ~on_cpu'[out]
      /\ \A s \in Thread : s # out => on_cpu'[s] = on_cpu[s]
  BY Zenon, <1>1 DEF Inv, TypeOK, FinishSwitch
<1>3. /\ outgoing'[c] = none /\ cpc'[c] = "run"
      /\ \A d \in Core : d # c => outgoing'[d] = outgoing[d] /\ cpc'[d] = cpc[d]
      /\ UNCHANGED <<current, next, state, pc>>
      /\ \A d \in Core : current[d] \in Thread /\ outgoing[d] \in Thread \cup {none}
                         /\ next[d] \in Thread \cup {none}
  BY Zenon DEF Inv, TypeOK, FinishSwitch
<1>4. TypeOK'
  BY Zenon, <1>2 DEF Inv, TypeOK, FinishSwitch, CpuPoints
<1>5. CpuInv'
  <2>1. \A d \in Core : /\ on_cpu'[current'[d]]
                        /\ outgoing'[d] # none <=> cpc'[d] = "finish"
                        /\ next'[d] # none <=> cpc'[d] = "switch"
                        /\ outgoing'[d] # none => on_cpu'[outgoing'[d]] /\ outgoing'[d] # current'[d]
                        /\ next'[d] # none => ~on_cpu'[next'[d]]
                        /\ current'[d] \in Core => current'[d] = d
                        /\ outgoing'[d] \in Core => outgoing'[d] = d
                        /\ next'[d] \in Core => next'[d] = d
    <3> TAKE d \in Core
    <3>1. CASE d = c
      BY ZenonT(60), <3>1, <1>1, <1>2, <1>3, DisjointAssumption DEF Inv, CpuInv, Thread
    <3>2. CASE d # c
      BY SMTT(60), ZenonT(60), <3>2, <1>1, <1>2, <1>3 DEF Inv, CpuInv
    <3> QED BY Zenon, <3>1, <3>2
  <2>2. \A d, e \in Core : d # e => /\ current'[d] # current'[e] /\ outgoing'[d] # current'[e]
                                    /\ outgoing'[d] # none => outgoing'[d] # outgoing'[e]
                                    /\ next'[d] # none => next'[d] # next'[e]
    <3> TAKE d, e \in Core
    <3> HAVE d # e
    <3>1. /\ current[d] # current[e] /\ outgoing[d] # current[e]
          /\ outgoing[d] # none => outgoing[d] # outgoing[e]
          /\ next[d] # none => next[d] # next[e]
      BY Zenon DEF Inv, CpuInv
    <3> QED BY SMTT(60), ZenonT(60), <1>1, <1>3, <3>1, DisjointAssumption
  <2>3. \A s \in Thread : on_cpu'[s] => \E d \in Core : s = current'[d] \/ s = outgoing'[d]
    <3> TAKE s \in Thread
    <3> HAVE on_cpu'[s]
    <3>0. s # out /\ on_cpu[s]
      BY Zenon, <1>1, <1>2
    <3>1. PICK d \in Core : s = current[d] \/ s = outgoing[d]
      BY Zenon, <3>0 DEF Inv, CpuInv
    <3>2. CASE s = current[d]
      BY Zenon, <1>3, <3>2
    <3>3. CASE s = outgoing[d]
      <4>1. d # c
        BY Zenon, <3>0, <3>3
      <4> QED BY Zenon, <1>3, <3>3, <4>1
    <3> QED BY Zenon, <3>1, <3>2, <3>3
  <2> QED BY Zenon, <2>1, <2>2, <2>3 DEF CpuInv
<1>6. StateInv'
  <2>1. /\ \A d \in Core : cpc'[d] \in InterruptPoints => state'[current'[d]] = "RUNNING"
        /\ \A d \in Core : cpc'[d] \in {"run", "finish"} /\ pc'[current'[d]] \notin OutPoints
                              => state'[current'[d]] \in {"RUNNING", "DEAD"}
    BY ZenonT(60), <1>1, <1>3 DEF Inv, StateInv, InterruptPoints
  <2>2. \A s \in Thread : pc[s] \in OutPoints \cup (DyingPoints \ {"dead"})
                         \/ (state[s] = "DEAD" /\ pc[s] # "dead") =>
          \E d \in Core : current'[d] = s /\ cpc'[d] = "run"
    <3> TAKE s \in Thread
    <3> HAVE pc[s] \in OutPoints \cup (DyingPoints \ {"dead"})
             \/ (state[s] = "DEAD" /\ pc[s] # "dead")
    <3>1. PICK d \in Core : current[d] = s /\ cpc[d] = "run"
      BY Zenon DEF Inv, StateInv
    <3>2. d # c
      BY Zenon, <1>1, <3>1
    <3>3. current'[d] = s /\ cpc'[d] = "run"
      BY Zenon, <1>3, <3>1, <3>2
    <3> QED BY Zenon, <3>3
  <2>3. \A s \in Thread : pc[s] = "new" => state[s] = "READY" /\ ~on_cpu'[s]
    BY ZenonT(60), <1>2 DEF Inv, StateInv
  <2> QED BY SMTT(60), ZenonT(60), <1>3, <2>1, <2>2, <2>3 DEF Inv, StateInv
<1>7. PlaceInv' /\ PointsInv' /\ WaitInv' /\ TimedNodeAlive' /\ KilledNotParked'
  BY SMTT(60), ZenonT(60) DEF Inv, PlaceInv, PointsInv, WaitInv, TimedNodeAlive, KilledNotParked, FinishSwitch
<1>8. DeadInv'
  <2>1. UNCHANGED <<zombies, corpse, reaped, state>> /\ reaped \subseteq Thread
    BY Zenon DEF Inv, TypeOK, FinishSwitch, Thread
  <2> QED BY Zenon, <1>2, <2>1 DEF Inv, DeadInv
<1> QED BY Zenon, <1>4, <1>5, <1>6, <1>7, <1>8 DEF Inv
=============================================================================
