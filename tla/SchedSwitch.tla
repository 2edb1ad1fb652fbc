---------------------------- MODULE SchedSwitch -----------------------------
(***************************************************************************)
(* The steps that move threads between lists preserve the invariant of the *)
(* scheduler: picking the next thread; then parking, waking, kill, birth,  *)
(* death and reaping, which move a thread onto a list, off one into a      *)
(* waker's hands, or out of a reaper's.                                    *)
(***************************************************************************)
EXTENDS SchedMoves

USE DEF cpuVars, lockVars, timeVars, threadVars, waitVars, reapVars

\* A step that changes no core's thread keeps what CpuInv says of the threads on each core,
LEMMA CoreKept ==
  ASSUME Inv, UNCHANGED <<current, outgoing, on_cpu>>
  PROVE  \A d \in Core : /\ on_cpu'[current'[d]]
                         /\ outgoing'[d] # none => on_cpu'[outgoing'[d]] /\ outgoing'[d] # current'[d]
                         /\ current'[d] \in Core => current'[d] = d
                         /\ outgoing'[d] \in Core => outgoing'[d] = d
<1>1. \A d \in Core : /\ on_cpu[current[d]]
                      /\ outgoing[d] # none => on_cpu[outgoing[d]] /\ outgoing[d] # current[d]
                      /\ current[d] \in Core => current[d] = d
                      /\ outgoing[d] \in Core => outgoing[d] = d
  BY Zenon DEF Inv, CpuInv
<1>2. current' = current /\ outgoing' = outgoing /\ on_cpu' = on_cpu
  BY Zenon
<1> QED BY Zenon, <1>1, <1>2

\* that no two cores share a thread,
LEMMA CoresKept ==
  ASSUME Inv, UNCHANGED <<current, outgoing, on_cpu>>
  PROVE  \A d, e \in Core : d # e =>
            /\ current'[d] # current'[e] /\ outgoing'[d] # current'[e]
            /\ outgoing'[d] # none => outgoing'[d] # outgoing'[e]
<1>1. \A d, e \in Core : d # e =>
         /\ current[d] # current[e] /\ outgoing[d] # current[e]
         /\ outgoing[d] # none => outgoing[d] # outgoing[e]
  BY Zenon DEF Inv, CpuInv
<1>2. current' = current /\ outgoing' = outgoing /\ on_cpu' = on_cpu
  BY Zenon
<1> QED BY Zenon, <1>1, <1>2

\* and that on_cpu is set for those threads only.
LEMMA OnCpuKept ==
  ASSUME Inv, UNCHANGED <<current, outgoing, on_cpu>>
  PROVE  \A u \in Thread : on_cpu'[u] => \E d \in Core : u = current'[d] \/ u = outgoing'[d]
<1>1. \A u \in Thread : on_cpu[u] => \E d \in Core : u = current[d] \/ u = outgoing[d]
  BY Zenon DEF Inv, CpuInv
<1>2. current' = current /\ outgoing' = outgoing /\ on_cpu' = on_cpu
  BY Zenon
<1> QED BY ZenonT(60), <1>1, <1>2

\* A core picks a thread and queues its own behind it (yield, preemption).
LEMMA PickFrame ==
  ASSUME Inv, NEW c \in Core, PickAndRequeue(c),
         cpc[c] \notin {"switch", "finish"}, state[current[c]] = "RUNNING",
         \A u \in Thread : \/ pc'[u] = pc[u]
                           \/ pc[u] = "run" /\ pc'[u] = "boundary" /\ state[u] = "RUNNING",
         UNCHANGED <<current, outgoing, on_cpu, waitq, sleepers, batch, zombies, corpse, reaped>>
  PROVE  /\ CpuInv' /\ StateInv' /\ PlaceInv' /\ DeadInv'
         /\ runq' \in Seq(Spawned) /\ next' \in [Core -> Thread \cup {none}]
         /\ cpc' \in [Core -> CpuPoints]
         /\ state' \in [Thread -> {"READY", "RUNNING", "BLOCKED", "DEAD"}]
<1> DEFINE t == current[c]
<1>1. PICK k \in Pickable : /\ next' = [next EXCEPT ![c] = runq[k]]
                            /\ cpc' = [cpc EXCEPT ![c] = "switch"]
                            /\ IF t = c
                               THEN runq' = AfterPick(k) /\ UNCHANGED state
                               ELSE /\ runq' = Append(AfterPick(k), t)
                                    /\ state' = [state EXCEPT ![t] = "READY"]
  BY ZenonT(60) DEF PickAndRequeue, Idle
<1> DEFINE x == runq[k]
<1>2. /\ t \in Thread /\ on_cpu[t] /\ (t # c => t \in Spawned)
      /\ runq \in Seq(Spawned) /\ Distinct(runq) /\ Spawned \subseteq Thread
      /\ \A d \in Core : current[d] \in Thread /\ next[d] \in Thread \cup {none}
      /\ sleepers \subseteq Thread /\ reaped \subseteq Thread /\ corpse \in Thread \cup {none}
      /\ \A w \in Thread : batch[w] \subseteq Thread
  BY SMTT(60), ZenonT(60) DEF Inv, TypeOK, CpuInv, PlaceInv, Thread, Spawned
<1>3. /\ x \in Spawned /\ InSeq(runq, x) /\ ~on_cpu[x]
      /\ AfterPick(k) \in Seq(Spawned) /\ Distinct(AfterPick(k))
      /\ \A u : InSeq(AfterPick(k), u) <=> InSeq(runq, u) /\ u # x
  BY Zenon, <1>2, PickFacts
<1>4. /\ x # t /\ x \notin Core /\ x # none /\ state[x] = "READY" /\ pc[x] # "new"
      /\ ~InSeq(runq, t) /\ pc[t] # "new" /\ pc[t] \notin OutPoints \cup DyingPoints
      /\ \A d \in Core : next[d] # x /\ next[d] # t
      /\ \A d \in Core : d # c => current[d] # t
      /\ next[c] = none /\ outgoing[c] = none
  <2>1. x # t /\ x \notin Core /\ x # none /\ state[x] = "READY" /\ pc[x] # "new"
    <3> HIDE DEF x, t
    <3>1. x # t
      BY Zenon, <1>2, <1>3
    <3>2. x \in Thread /\ x \notin Core /\ x # none
      BY ZenonT(60), <1>2, <1>3, DisjointAssumption DEF Spawned, Thread
    <3>3. state[x] = "READY" /\ pc[x] # "new"
      BY ZenonT(60), <1>3, <3>2 DEF Inv, PlaceInv
    <3> QED BY Zenon, <3>1, <3>2, <3>3
  <2>2. ~InSeq(runq, t) /\ pc[t] # "new" /\ pc[t] \notin OutPoints \cup DyingPoints
    BY ZenonT(60), <1>2 DEF Inv, PlaceInv, StateInv
  <2>3. \A d \in Core : next[d] # x
    BY ZenonT(60), <1>3 DEF Inv, PlaceInv
  <2>4. \A d \in Core : next[d] # t
    <3> HIDE DEF t
    <3>1. t # none
      BY Zenon, <1>2, DisjointAssumption
    <3>2. \A d \in Core : next[d] # none => ~on_cpu[next[d]]
      BY Zenon DEF Inv, CpuInv
    <3> QED BY Zenon, <1>2, <3>1, <3>2
  <2>5. /\ \A d \in Core : d # c => current[d] # t
        /\ next[c] = none /\ outgoing[c] = none
    BY Zenon DEF Inv, CpuInv
  <2> QED BY Zenon, <2>1, <2>2, <2>3, <2>4, <2>5
<1>5. /\ next'[c] = x /\ cpc'[c] = "switch"
      /\ \A d \in Core : d # c => next'[d] = next[d] /\ cpc'[d] = cpc[d]
      /\ next' \in [Core -> Thread \cup {none}] /\ cpc' \in [Core -> CpuPoints]
  <2>1. next' = [next EXCEPT ![c] = x] /\ cpc' = [cpc EXCEPT ![c] = "switch"]
    BY Zenon, <1>1
  <2>2. next \in [Core -> Thread \cup {none}] /\ cpc \in [Core -> CpuPoints]
    BY Zenon DEF Inv, TypeOK
  <2>3. x \in Thread /\ "switch" \in CpuPoints
    BY Zenon, <1>2, <1>3 DEF CpuPoints
  <2> HIDE DEF x
  <2> QED BY ZenonT(60), <2>1, <2>2, <2>3
<1>6. /\ \A u \in Thread : u # t => state'[u] = state[u]
      /\ state'[t] = IF t = c THEN "RUNNING" ELSE "READY"
      /\ state' \in [Thread -> {"READY", "RUNNING", "BLOCKED", "DEAD"}]
  <2>1. CASE t = c
    BY ZenonT(60), <2>1, <1>1, <1>2 DEF Inv, TypeOK
  <2>2. CASE t # c
    <3>1. state' = [state EXCEPT ![t] = "READY"]
      BY Zenon, <2>2, <1>1
    <3>2. state \in [Thread -> {"READY", "RUNNING", "BLOCKED", "DEAD"}]
      BY Zenon DEF Inv, TypeOK
    <3> QED BY ZenonT(60), <2>2, <3>1, <3>2, <1>2
  <2> QED BY Zenon, <2>1, <2>2
<1>7. /\ runq' \in Seq(Spawned) /\ Distinct(runq')
      /\ \A u : InSeq(runq', u) <=> (InSeq(runq, u) /\ u # x) \/ (u = t /\ t # c)
  <2>1. CASE t = c
    BY ZenonT(60), <2>1, <1>1, <1>3
  <2>2. CASE t # c
    <3>1. t \in Spawned /\ ~InSeq(AfterPick(k), t) /\ runq' = Append(AfterPick(k), t)
      BY ZenonT(60), <2>2, <1>1, <1>2, <1>3, <1>4
    <3>2. /\ runq' \in Seq(Spawned) /\ Distinct(runq')
          /\ \A u : InSeq(runq', u) <=> InSeq(AfterPick(k), u) \/ u = t
      <4>1. \A q \in Seq(Spawned), y \in Spawned :
              /\ Append(q, y) \in Seq(Spawned)
              /\ \A u : InSeq(Append(q, y), u) <=> InSeq(q, u) \/ u = y
              /\ Distinct(q) /\ ~InSeq(q, y) => Distinct(Append(q, y))
        BY Zenon, AppendFacts
      <4> HIDE DEF t, x
      <4> QED BY ZenonT(60), <3>1, <1>3, <4>1
    <3> QED BY ZenonT(60), <3>2, <2>2, <1>3
  <2> QED BY ZenonT(60), <2>1, <2>2
<1>8. \A u \in Thread : /\ pc'[u] \in OutPoints <=> pc[u] \in OutPoints
                        /\ pc'[u] \in DyingPoints <=> pc[u] \in DyingPoints
                        /\ pc'[u] = "dead" <=> pc[u] = "dead"
                        /\ pc'[u] = "new" <=> pc[u] = "new"
                        /\ pc[u] \in WakerPoints => pc'[u] \in WakerPoints
                        /\ pc[u] \in {"batch", "more", "kicked"} => pc'[u] = pc[u]
  BY ZenonT(60) DEF OutPoints, DyingPoints, WakerPoints
<1>9. CpuInv'
  <2>1. \A d \in Core : /\ on_cpu'[current'[d]]
                        /\ outgoing'[d] # none <=> cpc'[d] = "finish"
                        /\ next'[d] # none <=> cpc'[d] = "switch"
                        /\ outgoing'[d] # none => on_cpu'[outgoing'[d]] /\ outgoing'[d] # current'[d]
                        /\ next'[d] # none => ~on_cpu'[next'[d]]
                        /\ current'[d] \in Core => current'[d] = d
                        /\ outgoing'[d] \in Core => outgoing'[d] = d
                        /\ next'[d] \in Core => next'[d] = d
    <3> TAKE d \in Core
    <3>1. CASE d = c
      BY ZenonT(60), <3>1, <1>2, <1>3, <1>4, <1>5 DEF Inv, CpuInv
    <3>2. CASE d # c
      <4>1. CpuInv
        BY Zenon DEF Inv
      <4> QED BY SMTT(60), ZenonT(60), <3>2, <1>5, <4>1 DEF CpuInv
    <3> QED BY Zenon, <3>1, <3>2
  <2>2. \A d, e \in Core : d # e /\ next'[d] # none => next'[d] # next'[e]
    <3>1. \A d, e \in Core : d # e /\ next[d] # none => next[d] # next[e]
      BY Zenon DEF Inv, CpuInv
    <3> TAKE d, e \in Core
    <3> HAVE d # e /\ next'[d] # none
    <3> HIDE DEF x, t
    <3>2. CASE d = c
      BY ZenonT(60), <3>2, <1>4, <1>5
    <3>3. CASE e = c
      BY Zenon, <3>3, <1>4, <1>5
    <3>4. CASE d # c /\ e # c
      <4>1. next'[d] = next[d] /\ next'[e] = next[e]
        BY Zenon, <3>4, <1>5
      <4> QED BY Zenon, <4>1, <3>1
    <3> QED BY Zenon, <3>2, <3>3, <3>4
  <2>3. /\ \A d, e \in Core : d # e =>
             /\ current'[d] # current'[e] /\ outgoing'[d] # current'[e]
             /\ outgoing'[d] # none => outgoing'[d] # outgoing'[e]
        /\ \A u \in Thread : on_cpu'[u] => \E d \in Core : u = current'[d] \/ u = outgoing'[d]
    <3>1. UNCHANGED <<current, outgoing, on_cpu>>
      BY Zenon
    <3>2. \A d, e \in Core : d # e =>
             /\ current'[d] # current'[e] /\ outgoing'[d] # current'[e]
             /\ outgoing'[d] # none => outgoing'[d] # outgoing'[e]
      BY Zenon, <3>1, CoresKept
    <3>3. \A u \in Thread : on_cpu'[u] => \E d \in Core : u = current'[d] \/ u = outgoing'[d]
      BY Zenon, <3>1, OnCpuKept
    <3> QED BY Zenon, <3>2, <3>3
  <2> QED BY ZenonT(60), <2>1, <2>2, <2>3 DEF CpuInv
<1>10. StateInv'
  <2>1. \A d \in Core : /\ cpc'[d] \in InterruptPoints => state'[current[d]] = "RUNNING"
                        /\ cpc'[d] \in {"run", "finish"} /\ pc'[current[d]] \notin OutPoints
                              => state'[current[d]] \in {"RUNNING", "DEAD"}
    <3> TAKE d \in Core
    <3>1. CASE d = c
      BY Zenon, <3>1, <1>5 DEF InterruptPoints
    <3>2. CASE d # c
      <4> HIDE DEF t, x
      <4>1. current[d] \in Thread /\ state'[current[d]] = state[current[d]] /\ cpc'[d] = cpc[d]
        BY Zenon, <3>2, <1>2, <1>4, <1>5, <1>6
      <4>2. /\ cpc[d] \in InterruptPoints => state[current[d]] = "RUNNING"
            /\ cpc[d] \in {"run", "finish"} /\ pc[current[d]] \notin OutPoints
                  => state[current[d]] \in {"RUNNING", "DEAD"}
        BY Zenon DEF Inv, StateInv
      <4> QED BY Zenon, <4>1, <4>2, <1>8
    <3> QED BY Zenon, <3>1, <3>2
  <2>2. \A u \in Thread : /\ pc'[u] \in OutPoints => state'[u] \in {"BLOCKED", "READY"}
                          /\ pc'[u] \in DyingPoints => state'[u] = "DEAD"
                          /\ state'[u] = "DEAD" => pc'[u] \in DyingPoints \cup WakerPoints
                          /\ pc'[u] = "new" => state'[u] = "READY" /\ ~on_cpu[u]
    <3> TAKE u \in Thread
    <3> HIDE DEF t, x
    <3>1. CASE u = t
      <4>1. state'[t] # "DEAD"
        BY Zenon, <1>6
      <4> QED BY Zenon, <3>1, <4>1, <1>4, <1>8
    <3>2. CASE u # t
      <4>1. /\ pc[u] \in OutPoints => state[u] \in {"BLOCKED", "READY"}
            /\ pc[u] \in DyingPoints => state[u] = "DEAD"
            /\ state[u] = "DEAD" => pc[u] \in DyingPoints \cup WakerPoints
            /\ pc[u] = "new" => state[u] = "READY" /\ ~on_cpu[u]
        BY Zenon DEF Inv, StateInv
      <4>2. state'[u] = state[u]
        BY Zenon, <3>2, <1>6
      <4> QED BY ZenonT(60), <4>1, <4>2, <1>8
    <3> QED BY Zenon, <3>1, <3>2
  <2>3. \A u \in Thread : pc'[u] \in OutPoints \cup (DyingPoints \ {"dead"})
                         \/ (state'[u] = "DEAD" /\ pc'[u] # "dead") =>
          \E d \in Core : current'[d] = u /\ cpc'[d] = "run"
    <3> SUFFICES ASSUME NEW u \in Thread,
                        \/ pc'[u] \in OutPoints \cup (DyingPoints \ {"dead"})
                        \/ state'[u] = "DEAD" /\ pc'[u] # "dead"
                 PROVE  \E d \in Core : current'[d] = u /\ cpc'[d] = "run"
      BY Zenon
    <3> HIDE DEF t, x
    <3>1. u # t
      BY ZenonT(60), <1>4, <1>6, <1>8
    <3>2. \/ pc[u] \in OutPoints \cup (DyingPoints \ {"dead"})
          \/ state[u] = "DEAD" /\ pc[u] # "dead"
      BY ZenonT(60), <3>1, <1>6, <1>8
    <3>3. PICK d \in Core : current[d] = u /\ cpc[d] = "run"
      BY Zenon, <3>2 DEF Inv, StateInv
    <3>4. d # c
      BY Zenon, <3>1, <3>3 DEF t
    <3>5. current'[d] = u /\ cpc'[d] = "run"
      BY Zenon, <3>3, <3>4, <1>5
    <3> QED BY Zenon, <3>5
  <2>4. current' = current /\ on_cpu' = on_cpu /\ \A d \in Core : current'[d] = current[d]
    BY Zenon
  <2>5. /\ \A d \in Core : cpc'[d] \in InterruptPoints => state'[current'[d]] = "RUNNING"
        /\ \A d \in Core : cpc'[d] \in {"run", "finish"} /\ pc'[current'[d]] \notin OutPoints
                              => state'[current'[d]] \in {"RUNNING", "DEAD"}
    BY ZenonT(60), <2>1, <2>4
  <2>6. /\ \A u \in Thread : pc'[u] \in OutPoints => state'[u] \in {"BLOCKED", "READY"}
        /\ \A u \in Thread : pc'[u] \in DyingPoints => state'[u] = "DEAD"
        /\ \A u \in Thread : state'[u] = "DEAD" => pc'[u] \in DyingPoints \cup WakerPoints
    <3>1. \A u \in Thread : pc'[u] \in OutPoints => state'[u] \in {"BLOCKED", "READY"}
      BY ZenonT(60), <2>2
    <3>2. \A u \in Thread : pc'[u] \in DyingPoints => state'[u] = "DEAD"
      BY ZenonT(60), <2>2
    <3>3. \A u \in Thread : state'[u] = "DEAD" => pc'[u] \in DyingPoints \cup WakerPoints
      BY ZenonT(60), <2>2
    <3> QED BY Zenon, <3>1, <3>2, <3>3
  <2>7. \A u \in Thread : pc'[u] = "new" => state'[u] = "READY" /\ ~on_cpu'[u]
    BY ZenonT(60), <2>2, <2>4
  <2> QED BY ZenonT(60), <2>5, <2>6, <2>7, <2>3 DEF StateInv
<1>11. PlaceInv'
  <2>1. \A u \in Thread : InSeq(runq', u) => state'[u] = "READY" /\ pc'[u] # "new"
    <3> TAKE u \in Thread
    <3> HIDE DEF t, x
    <3>1. CASE u = t
      <4>1. InSeq(runq', t) => t # c
        BY Zenon, <1>4, <1>7
      <4> QED BY Zenon, <3>1, <4>1, <1>4, <1>6, <1>8
    <3>2. CASE u # t
      <4>1. InSeq(runq, u) => state[u] = "READY" /\ pc[u] # "new"
        BY Zenon DEF Inv, PlaceInv
      <4> QED BY ZenonT(60), <3>2, <4>1, <1>6, <1>7, <1>8
    <3> QED BY Zenon, <3>1, <3>2
  <2>2. \A d \in Core : next'[d] \in Spawned =>
          state'[next'[d]] = "READY" /\ pc'[next'[d]] # "new" /\ ~InSeq(runq', next'[d])
    <3> TAKE d \in Core
    <3> HIDE DEF t, x
    <3>1. CASE d = c
      <4>1. x \in Thread /\ state'[x] = "READY" /\ pc'[x] # "new"
        BY Zenon, <1>2, <1>3, <1>4, <1>6, <1>8
      <4>2. ~InSeq(runq', x)
        BY Zenon, <1>4, <1>7
      <4> QED BY Zenon, <3>1, <4>1, <4>2, <1>5
    <3>2. CASE d # c
      <4>1. next[d] \in Spawned =>
              state[next[d]] = "READY" /\ pc[next[d]] # "new" /\ ~InSeq(runq, next[d])
        BY ZenonT(60) DEF Inv, PlaceInv
      <4>2. next'[d] = next[d] /\ next[d] # t
        BY Zenon, <3>2, <1>4, <1>5
      <4>3. next[d] \in Spawned => next[d] \in Thread
        BY Zenon, <1>2
      <4>4. next[d] \in Spawned => state'[next[d]] = state[next[d]] /\ pc'[next[d]] # "new"
        BY ZenonT(60), <4>1, <4>2, <4>3, <1>6, <1>8
      <4>5. next[d] \in Spawned => ~InSeq(runq', next[d])
        BY ZenonT(60), <4>1, <4>2, <1>7
      <4> QED BY Zenon, <4>1, <4>2, <4>4, <4>5
    <3> QED BY Zenon, <3>1, <3>2
  <2>3. /\ \A u \in Thread : waitq[u] # none => state'[u] = "BLOCKED"
        /\ \A u \in sleepers : state'[u] = "BLOCKED"
        /\ \A w \in Thread : \A u \in batch[w] : state'[u] = "BLOCKED"
    <3>1. /\ \A u \in Thread : waitq[u] # none => state[u] = "BLOCKED"
          /\ \A u \in sleepers : state[u] = "BLOCKED"
          /\ \A w \in Thread : \A u \in batch[w] : state[u] = "BLOCKED"
      BY Zenon DEF Inv, PlaceInv
    <3>2. \A u \in Thread : state[u] = "BLOCKED" => state'[u] = "BLOCKED"
      BY Zenon, <1>6
    <3> QED BY ZenonT(60), <1>2, <3>1, <3>2
  <2>4. \A w \in Thread : batch[w] # {} => pc'[w] \in {"batch", "more", "kicked"}
    BY Zenon, <1>8 DEF Inv, PlaceInv
  <2>5. /\ \A u \in Thread : waitq'[u] # none => u \in Spawned /\ u \notin sleepers'
        /\ \A w \in Thread : \A u \in batch'[w] : waitq'[u] = none /\ u \notin sleepers'
        /\ \A v, w \in Thread : v # w => batch'[v] \cap batch'[w] = {}
    BY ZenonT(60) DEF Inv, PlaceInv
  <2>6. UNCHANGED <<waitq, sleepers, batch>>
    BY Zenon
  <2> QED BY ZenonT(60), <1>7, <2>1, <2>2, <2>3, <2>4, <2>5, <2>6 DEF PlaceInv
<1>12. DeadInv'
  <2>1. \A u \in Thread : state[u] = "DEAD" => state'[u] = "DEAD"
    BY ZenonT(60), <1>6
  <2> QED BY ZenonT(60), <1>2, <2>1 DEF Inv, DeadInv
<1> QED BY Zenon, <1>5, <1>6, <1>7, <1>9, <1>10, <1>11, <1>12

\* yield.
LEMMA YieldInv ==
  ASSUME Inv, NEW c \in Core, Yield(c)
  PROVE  Inv'
<1> DEFINE t == current[c]
<1>1. /\ t \in Thread /\ t # reaper /\ pc[t] = "run" /\ cpc[c] = "run" /\ state[t] = "RUNNING"
      /\ batch[t] = {} /\ pc' = [pc EXCEPT ![t] = Return(t)]
  BY ZenonT(60), Running, DisjointAssumption
     DEF Yield, At, Goto, May, Idle, Thread, OutPoints, DyingPoints, WakerPoints
<1>2. /\ \A s \in Thread : s # t => pc'[s] = pc[s]
      /\ pc'[t] \in {"run", "boundary"} /\ (pc'[t] = "boundary" => t \in User)
      /\ pc' \in [Thread -> Points]
  BY ZenonT(60), <1>1 DEF Inv, TypeOK, Return, Points
<1>3. PointsInv'
  BY SMTT(60), ZenonT(60), <1>1, <1>2, DisjointAssumption DEF Inv, PointsInv, ReaperPoints, Thread, Yield
<1>4. WaitInv' /\ TimedNodeAlive' /\ KilledNotParked'
  <2>1. /\ UNCHANGED <<req, wake, timed, killed, waitq, sleepers>>
        /\ timed \subseteq Thread /\ User \cup Kernel \subseteq Thread /\ reaper \in Thread
    BY ZenonT(60) DEF Inv, TypeOK, Yield, Thread
  <2>2. t \notin timed
    BY ZenonT(60), <1>1 DEF Inv, TimedNodeAlive
  <2>3. WaitInv'
    BY ZenonT(60), <1>1, <1>2, <2>1, <2>2 DEF Inv, WaitInv, WaitPoints, WakerPoints
  <2> QED BY Zenon, <1>1, <1>2, <2>1, <2>2, <2>3 DEF Inv, TimedNodeAlive, KilledNotParked
<1>5. CASE Pickable = {}
  <2>1. UNCHANGED <<cpuVars, runq, threadVars, waitVars, sleepers, reapVars>>
    BY ZenonT(60), <1>5 DEF Yield
  <2>2. CpuInv' /\ StateInv' /\ PlaceInv'
    BY ZenonT(60), <1>1, <1>2, <2>1, PcMove DEF OutPoints, DyingPoints
  <2>3. TypeOK' /\ DeadInv'
    BY SMTT(60), ZenonT(60), <1>2, <2>1 DEF Inv, TypeOK, DeadInv, Yield
  <2> QED BY ZenonT(60), <1>3, <1>4, <2>2, <2>3 DEF Inv
<1>6. CASE Pickable # {}
  <2>1. PickAndRequeue(c)
        /\ UNCHANGED <<current, outgoing, on_cpu, waitq, sleepers, batch, zombies, corpse, reaped>>
    BY ZenonT(60), <1>6 DEF Yield
  <2>2. \A u \in Thread : \/ pc'[u] = pc[u]
                          \/ pc[u] = "run" /\ pc'[u] = "boundary" /\ state[u] = "RUNNING"
    BY ZenonT(60), <1>1, <1>2
  <2>3. /\ CpuInv' /\ StateInv' /\ PlaceInv' /\ DeadInv'
        /\ runq' \in Seq(Spawned) /\ next' \in [Core -> Thread \cup {none}]
        /\ cpc' \in [Core -> CpuPoints]
        /\ state' \in [Thread -> {"READY", "RUNNING", "BLOCKED", "DEAD"}]
    BY ZenonT(60), <1>1, <2>1, <2>2, PickFrame
  <2>4. TypeOK'
    BY ZenonT(60), <1>2, <2>3 DEF Inv, TypeOK, Yield
  <2> QED BY Zenon, <1>3, <1>4, <2>3, <2>4 DEF Inv
<1> QED BY ZenonT(60), <1>5, <1>6

\* service_pending_preemption.
LEMMA ServiceInv ==
  ASSUME Inv, NEW c \in Core, Service(c)
  PROVE  Inv'
<1> DEFINE t == current[c]
           hook == pending[c] /\ ~PreemptDisabled(t)
           exitNow == killed[t] /\ pc[t] = "run"
<1>1. cpc[c] = "service" /\ t \in Thread /\ state[t] = "RUNNING"
  BY ZenonT(60) DEF Inv, TypeOK, StateInv, Service, InterruptPoints
<1>2. CASE hook /\ ~exitNow /\ Pickable # {}
  <2>1. /\ PickAndRequeue(c)
        /\ UNCHANGED <<current, outgoing, lockVars, timeVars, on_cpu, slice, killed,
                       masked, waitVars, reapVars>>
        /\ pending' \in [Core -> BOOLEAN]
    BY ZenonT(60), <1>2 DEF Inv, TypeOK, Service, StillPending
  <2>2. pc' = pc
    BY ZenonT(60), <1>1, <1>2 DEF Inv, TypeOK, Service, StillPending
  <2>3. /\ CpuInv' /\ StateInv' /\ PlaceInv' /\ DeadInv'
        /\ runq' \in Seq(Spawned) /\ next' \in [Core -> Thread \cup {none}]
        /\ cpc' \in [Core -> CpuPoints]
        /\ state' \in [Thread -> {"READY", "RUNNING", "BLOCKED", "DEAD"}]
    BY ZenonT(60), <1>1, <2>1, <2>2, PickFrame
  <2>4. TypeOK'
    BY ZenonT(60), <2>1, <2>2, <2>3 DEF Inv, TypeOK
  <2>5. PointsInv' /\ WaitInv' /\ TimedNodeAlive' /\ KilledNotParked'
    BY ZenonT(60), <2>1, <2>2 DEF Inv, PointsInv, WaitInv, TimedNodeAlive, KilledNotParked
  <2> QED BY Zenon, <2>3, <2>4, <2>5 DEF Inv
<1>3. CASE ~(hook /\ exitNow) /\ ~(hook /\ ~exitNow /\ Pickable # {})
  <2>1. /\ cpc' = [cpc EXCEPT ![c] = "run"]
        /\ UNCHANGED <<current, next, outgoing, lockVars, runq, timeVars, threadVars, killed,
                       masked, waitVars, reapVars>>
        /\ pending' \in [Core -> BOOLEAN]
    BY ZenonT(60), <1>3 DEF Inv, TypeOK, Service, StillPending
  <2>2. pc' = pc
    BY ZenonT(60), <1>1, <1>3 DEF Inv, TypeOK, Service, StillPending
  <2>3. CpuInv' /\ StateInv' /\ PlaceInv'
    BY ZenonT(60), <1>1, <2>1, <2>2, CpcMove
  <2>4. TypeOK'
    BY ZenonT(60), <2>1, <2>2 DEF Inv, TypeOK, CpuPoints
  <2>5. PointsInv' /\ DeadInv' /\ WaitInv' /\ TimedNodeAlive' /\ KilledNotParked'
    BY ZenonT(60), <2>1, <2>2, RestFrame
  <2> QED BY ZenonT(60), <2>3, <2>4, <2>5 DEF Inv
<1>4. CASE hook /\ exitNow
  <2>1. /\ cpc' = [cpc EXCEPT ![c] = "run"] /\ pc' = [pc EXCEPT ![t] = "exit"]
        /\ UNCHANGED <<current, next, outgoing, lockVars, runq, timeVars, threadVars, killed,
                       masked, waitVars, reapVars>>
        /\ pending' \in [Core -> BOOLEAN]
    BY ZenonT(60), <1>4 DEF Inv, TypeOK, Service, StillPending
  <2>2. t \in User /\ pc[t] = "run" /\ t \notin Core \cup {reaper} /\ batch[t] = {} /\ t \notin timed
    BY ZenonT(60), <1>1, <1>4, DisjointAssumption DEF Inv, PointsInv, PlaceInv, TimedNodeAlive
  <2>3. /\ \A s \in Thread : s # t => pc'[s] = pc[s]
        /\ pc'[t] = "exit" /\ pc' \in [Thread -> Points]
    BY ZenonT(60), <1>1, <2>1 DEF Inv, TypeOK, Points
  <2>4. CpuInv' /\ StateInv' /\ PlaceInv'
    BY ZenonT(60), <1>1, <2>1, <2>2, <2>3, PcMove DEF OutPoints, DyingPoints
  <2>5. TypeOK'
    BY ZenonT(60), <2>1, <2>3 DEF Inv, TypeOK, CpuPoints
  <2>6. PointsInv' /\ DeadInv'
    BY ZenonT(60), <2>1, <2>2, <2>3 DEF Inv, PointsInv, DeadInv, ReaperPoints, Thread
  <2>7. WaitInv' /\ TimedNodeAlive' /\ KilledNotParked'
    <3>1. timed \subseteq Thread /\ User \cup Kernel \subseteq Thread /\ reaper \in Thread
      BY ZenonT(60) DEF Inv, TypeOK, Thread
    <3>2. WaitInv'
      BY ZenonT(60), <2>1, <2>2, <2>3, <3>1 DEF Inv, WaitInv, WaitPoints, WakerPoints
    <3> QED BY Zenon, <2>1, <2>2, <2>3, <3>1, <3>2 DEF Inv, TimedNodeAlive, KilledNotParked
  <2> QED BY ZenonT(60), <2>4, <2>5, <2>6, <2>7 DEF Inv
<1> QED BY ZenonT(60), <1>2, <1>3, <1>4

\* schedule_out.
LEMMA ScheduleOutInv ==
  ASSUME Inv, NEW c \in Core, ScheduleOut(c)
  PROVE  Inv'
<1> DEFINE t == current[c]
           x == next'[c]
<1>1. /\ cpc[c] = "run" /\ t \in Thread /\ on_cpu[t] /\ t \in Spawned /\ t \notin Core
      /\ pc[t] \in {"block_out", "sleep_out", "exit_out"} /\ batch[t] = {}
      /\ state[t] # "RUNNING" /\ (pc[t] = "exit_out" <=> state[t] = "DEAD")
      /\ outgoing[c] = none /\ next[c] = none
  <2>1. cpc[c] = "run" /\ pc[t] \in {"block_out", "sleep_out", "exit_out"}
    BY Zenon DEF ScheduleOut
  <2>2. t \in Thread /\ on_cpu[t] /\ t \in Spawned /\ batch[t] = {}
    BY ZenonT(60), <2>1, Running
  <2>3. state[t] # "RUNNING" /\ (pc[t] = "exit_out" <=> state[t] = "DEAD")
    BY ZenonT(60), <2>1, <2>2 DEF Inv, StateInv, OutPoints, DyingPoints, WakerPoints
  <2>4. outgoing[c] = none /\ next[c] = none
    BY ZenonT(60), <2>1 DEF Inv, CpuInv
  <2> QED BY ZenonT(60), <2>1, <2>2, <2>3, <2>4, DisjointAssumption DEF Spawned
<1>2. /\ pc' \in [Thread -> Points] /\ \A s \in Thread : s # t => pc'[s] = pc[s]
      /\ pc'[t] = Resume(t)
      /\ pc[t] = "block_out" => pc'[t] = "woke"
      /\ pc[t] = "sleep_out" => pc'[t] = Return(t)
      /\ pc[t] = "exit_out" => pc'[t] = "dead"
  <2>1. pc' = [pc EXCEPT ![t] = Resume(t)]
    BY Zenon DEF ScheduleOut, Goto
  <2>2. /\ pc[t] = "block_out" => Resume(t) = "woke"
        /\ pc[t] = "sleep_out" => Resume(t) = Return(t)
        /\ pc[t] = "exit_out" => Resume(t) = "dead"
    BY Zenon DEF Resume
  <2>3. Resume(t) \in Points
    BY ZenonT(60), <1>1, <2>2 DEF Return, Points
  <2> QED BY ZenonT(60), <1>1, <2>1, <2>2, <2>3 DEF Inv, TypeOK
<1>3. /\ UNCHANGED <<current, outgoing, pending, lockVars, timeVars, threadVars, killed,
                     masked, waitVars, reapVars>>
      /\ cpc' = [cpc EXCEPT ![c] = "switch"] /\ cpc'[c] = "switch"
      /\ \A d \in Core : d # c => cpc'[d] = cpc[d]
  BY ZenonT(60) DEF Inv, TypeOK, ScheduleOut
<1>4. /\ runq \in Seq(Spawned) /\ Distinct(runq) /\ Spawned \subseteq Thread
      /\ \A d \in Core : current[d] \in Thread /\ next[d] \in Thread \cup {none}
      /\ \A d \in Core : d # c => current[d] # t
  BY SMTT(60), ZenonT(60) DEF Inv, TypeOK, CpuInv, PlaceInv, Thread, Spawned
<1>5. /\ next' = [next EXCEPT ![c] = x]
      /\ x \in Thread /\ x # none /\ ~on_cpu[x] /\ (x \in Core => x = c)
      /\ \A d \in Core : next[d] # x
      /\ x \in Spawned => state[x] = "READY" /\ pc[x] # "new"
      /\ runq' \in Seq(Spawned) /\ Distinct(runq') /\ ~InSeq(runq', x)
      /\ \A u : InSeq(runq', u) => InSeq(runq, u)
  <2>1. CASE Pickable = {}
    <3>1. next' = [next EXCEPT ![c] = c] /\ runq' = runq
      BY ZenonT(60), <2>1 DEF ScheduleOut
    <3>2. x = c
      BY ZenonT(60), <3>1 DEF Inv, TypeOK
    <3>3. c \in Thread /\ c # none /\ c \notin Spawned
      BY ZenonT(60), DisjointAssumption DEF Thread, Spawned
    <3>4. ~on_cpu[c]
      <4>1. \A d \in Core : /\ current[d] \in Core => current[d] = d
                            /\ outgoing[d] \in Core => outgoing[d] = d
        BY Zenon DEF Inv, CpuInv
      <4>2. \A d \in Core : current[d] # c /\ outgoing[d] # c
        BY Zenon, <4>1, <1>1, <3>3
      <4>3. on_cpu[c] => \E d \in Core : c = current[d] \/ c = outgoing[d]
        BY Zenon, <3>3 DEF Inv, CpuInv
      <4> QED BY Zenon, <4>2, <4>3
    <3>5. \A d \in Core : next[d] # c
      <4>1. \A d \in Core : next[d] \in Core => next[d] = d
        BY Zenon DEF Inv, CpuInv
      <4> QED BY Zenon, <4>1, <1>1, <3>3
    <3>6. ~InSeq(runq, c)
      <4>1. InSeq(runq, c) => c \in Spawned
        BY Zenon, <1>4, SeqMember
      <4> QED BY Zenon, <4>1, <3>3
    <3> QED BY Zenon, <3>1, <3>2, <3>3, <3>4, <3>5, <3>6, <1>4
  <2>2. CASE \E k \in Pickable : next' = [next EXCEPT ![c] = runq[k]] /\ runq' = AfterPick(k)
    <3>1. PICK k \in Pickable : next' = [next EXCEPT ![c] = runq[k]] /\ runq' = AfterPick(k)
      BY ZenonT(60), <2>2
    <3>2. x = runq[k]
      BY ZenonT(60), <3>1 DEF Inv, TypeOK
    <3>3. /\ x \in Spawned /\ InSeq(runq, x) /\ ~on_cpu[x]
          /\ runq' \in Seq(Spawned) /\ Distinct(runq')
          /\ \A u : InSeq(runq', u) <=> InSeq(runq, u) /\ u # x
      BY ZenonT(60), <3>1, <3>2, <1>4, PickFacts
    <3>4. state[x] = "READY" /\ pc[x] # "new" /\ \A d \in Core : next[d] # x
      BY ZenonT(60), <3>3, <1>4 DEF Inv, PlaceInv
    <3>5. x # none /\ x \notin Core
      BY ZenonT(60), <3>3, DisjointAssumption DEF Spawned, Thread
    <3> QED BY ZenonT(60), <3>1, <3>2, <3>3, <3>4, <3>5, <1>4
  <2>3. \/ Pickable = {}
        \/ \E k \in Pickable : next' = [next EXCEPT ![c] = runq[k]] /\ runq' = AfterPick(k)
    BY ZenonT(60) DEF ScheduleOut
  <2> QED BY Zenon, <2>1, <2>2, <2>3
<1>6. /\ \A d \in Core : d # c => next'[d] = next[d]
      /\ next' \in [Core -> Thread \cup {none}]
  <2>1. next \in [Core -> Thread \cup {none}]
    BY Zenon DEF Inv, TypeOK
  <2> HIDE DEF x
  <2> QED BY ZenonT(60), <1>5, <2>1
<1> HIDE DEF x
<1>7. TypeOK'
  BY Zenon, <1>2, <1>3, <1>5, <1>6 DEF Inv, TypeOK, CpuPoints
<1>8. /\ pc'[t] \notin OutPoints \cup {"new", "batch", "more", "kicked"}
      /\ pc'[t] \in DyingPoints <=> pc'[t] = "dead"
      /\ pc'[t] = "dead" <=> state[t] = "DEAD"
  BY ZenonT(60), <1>1, <1>2 DEF OutPoints, DyingPoints, Return
<1>9. CpuInv'
  <2>0. UNCHANGED <<current, outgoing, on_cpu>>
    BY Zenon, <1>3
  <2>1. \A d \in Core : /\ outgoing'[d] # none <=> cpc'[d] = "finish"
                        /\ next'[d] # none <=> cpc'[d] = "switch"
                        /\ next'[d] # none => ~on_cpu'[next'[d]]
                        /\ next'[d] \in Core => next'[d] = d
    <3> TAKE d \in Core
    <3>1. CASE d = c
      <4>1. outgoing'[c] = none /\ cpc'[c] = "switch" /\ next'[c] # none /\ ~on_cpu'[next'[c]]
        BY ZenonT(60), <1>1, <1>3, <1>5 DEF x
      <4>2. next'[c] \in Core => next'[c] = c
        BY Zenon, <1>5 DEF x
      <4> QED BY Zenon, <3>1, <4>1, <4>2
    <3>2. CASE d # c
      <4>1. /\ outgoing[d] # none <=> cpc[d] = "finish"
            /\ next[d] # none <=> cpc[d] = "switch"
            /\ next[d] # none => ~on_cpu[next[d]]
            /\ next[d] \in Core => next[d] = d
        BY Zenon DEF Inv, CpuInv
      <4>2. next'[d] = next[d] /\ cpc'[d] = cpc[d] /\ outgoing'[d] = outgoing[d] /\ on_cpu' = on_cpu
        BY Zenon, <3>2, <1>3, <1>6
      <4> QED BY Zenon, <4>1, <4>2
    <3> QED BY Zenon, <3>1, <3>2
  <2>2. \A d, e \in Core : d # e /\ next'[d] # none => next'[d] # next'[e]
    <3>1. \A d, e \in Core : d # e /\ next[d] # none => next[d] # next[e]
      BY Zenon DEF Inv, CpuInv
    <3>2. x = next'[c]
      BY Zenon DEF x
    <3> TAKE d, e \in Core
    <3> HAVE d # e /\ next'[d] # none
    <3>3. CASE d = c
      BY Zenon, <3>2, <3>3, <1>5, <1>6
    <3>4. CASE e = c
      BY Zenon, <3>2, <3>4, <1>5, <1>6
    <3>5. CASE d # c /\ e # c
      BY Zenon, <3>5, <1>6, <3>1
    <3> QED BY Zenon, <3>3, <3>4, <3>5
  <2>3. \A d \in Core : /\ on_cpu'[current'[d]]
                        /\ outgoing'[d] # none => on_cpu'[outgoing'[d]] /\ outgoing'[d] # current'[d]
                        /\ current'[d] \in Core => current'[d] = d
                        /\ outgoing'[d] \in Core => outgoing'[d] = d
    BY Zenon, <2>0, CoreKept
  <2>4. /\ \A d, e \in Core : d # e =>
             /\ current'[d] # current'[e] /\ outgoing'[d] # current'[e]
             /\ outgoing'[d] # none => outgoing'[d] # outgoing'[e]
        /\ \A u \in Thread : on_cpu'[u] => \E d \in Core : u = current'[d] \/ u = outgoing'[d]
    <3>2. \A d, e \in Core : d # e =>
             /\ current'[d] # current'[e] /\ outgoing'[d] # current'[e]
             /\ outgoing'[d] # none => outgoing'[d] # outgoing'[e]
      BY Zenon, <2>0, CoresKept
    <3>3. \A u \in Thread : on_cpu'[u] => \E d \in Core : u = current'[d] \/ u = outgoing'[d]
      BY Zenon, <2>0, OnCpuKept
    <3> QED BY Zenon, <3>2, <3>3
  <2> QED BY ZenonT(60), <2>1, <2>2, <2>3, <2>4 DEF CpuInv
<1>10. StateInv'
  <2>1. \A d \in Core : /\ cpc'[d] \in InterruptPoints => state[current[d]] = "RUNNING"
                        /\ cpc'[d] \in {"run", "finish"} /\ pc'[current[d]] \notin OutPoints
                              => state[current[d]] \in {"RUNNING", "DEAD"}
    <3> TAKE d \in Core
    <3>1. CASE d = c
      BY Zenon, <3>1, <1>3 DEF InterruptPoints
    <3>2. CASE d # c
      <4>1. current[d] \in Thread /\ pc'[current[d]] = pc[current[d]] /\ cpc'[d] = cpc[d]
        BY Zenon, <3>2, <1>2, <1>3, <1>4
      <4>2. /\ cpc[d] \in InterruptPoints => state[current[d]] = "RUNNING"
            /\ cpc[d] \in {"run", "finish"} /\ pc[current[d]] \notin OutPoints
                  => state[current[d]] \in {"RUNNING", "DEAD"}
        BY Zenon DEF Inv, StateInv
      <4> QED BY Zenon, <4>1, <4>2
    <3> QED BY Zenon, <3>1, <3>2
  <2>2. \A u \in Thread : /\ pc'[u] \in OutPoints => state[u] \in {"BLOCKED", "READY"}
                          /\ pc'[u] \in DyingPoints => state[u] = "DEAD"
                          /\ state[u] = "DEAD" => pc'[u] \in DyingPoints \cup WakerPoints
                          /\ pc'[u] = "new" => state[u] = "READY" /\ ~on_cpu[u]
    <3> TAKE u \in Thread
    <3>1. CASE u = t
      BY Zenon, <3>1, <1>1, <1>8
    <3>2. CASE u # t
      <4>1. /\ pc[u] \in OutPoints => state[u] \in {"BLOCKED", "READY"}
            /\ pc[u] \in DyingPoints => state[u] = "DEAD"
            /\ state[u] = "DEAD" => pc[u] \in DyingPoints \cup WakerPoints
            /\ pc[u] = "new" => state[u] = "READY" /\ ~on_cpu[u]
        BY Zenon DEF Inv, StateInv
      <4> QED BY Zenon, <3>2, <4>1, <1>2
    <3> QED BY Zenon, <3>1, <3>2
  <2>3. \A u \in Thread : pc'[u] \in OutPoints \cup (DyingPoints \ {"dead"})
                         \/ (state[u] = "DEAD" /\ pc'[u] # "dead") =>
          \E d \in Core : current[d] = u /\ cpc'[d] = "run"
    <3> SUFFICES ASSUME NEW u \in Thread,
                        \/ pc'[u] \in OutPoints \cup (DyingPoints \ {"dead"})
                        \/ state[u] = "DEAD" /\ pc'[u] # "dead"
                 PROVE  \E d \in Core : current[d] = u /\ cpc'[d] = "run"
      OBVIOUS
    <3>1. u # t
      BY ZenonT(60), <1>8
    <3>2. PICK d \in Core : current[d] = u /\ cpc[d] = "run"
      BY ZenonT(60), <3>1, <1>2 DEF Inv, StateInv
    <3> QED BY ZenonT(60), <3>1, <3>2, <1>3
  <2>4. state' = state /\ current' = current /\ on_cpu' = on_cpu /\ \A d \in Core : current'[d] = current[d]
    BY Zenon, <1>3
  <2>5. /\ \A d \in Core : cpc'[d] \in InterruptPoints => state'[current'[d]] = "RUNNING"
        /\ \A d \in Core : cpc'[d] \in {"run", "finish"} /\ pc'[current'[d]] \notin OutPoints
                              => state'[current'[d]] \in {"RUNNING", "DEAD"}
    BY ZenonT(60), <2>1, <2>4
  <2>6. /\ \A u \in Thread : pc'[u] \in OutPoints => state'[u] \in {"BLOCKED", "READY"}
        /\ \A u \in Thread : pc'[u] \in DyingPoints => state'[u] = "DEAD"
        /\ \A u \in Thread : state'[u] = "DEAD" => pc'[u] \in DyingPoints \cup WakerPoints
    BY ZenonT(60), <2>2, <2>4
  <2>7. \A u \in Thread : pc'[u] = "new" => state'[u] = "READY" /\ ~on_cpu'[u]
    BY ZenonT(60), <2>2, <2>4
  <2>8. \A u \in Thread : pc'[u] \in OutPoints \cup (DyingPoints \ {"dead"})
                         \/ (state'[u] = "DEAD" /\ pc'[u] # "dead") =>
          \E d \in Core : current'[d] = u /\ cpc'[d] = "run"
    BY ZenonT(60), <2>3, <2>4
  <2> QED BY ZenonT(60), <2>5, <2>6, <2>7, <2>8 DEF StateInv
<1>11. PlaceInv'
  <2>1. \A u \in Thread : InSeq(runq', u) => state[u] = "READY" /\ pc'[u] # "new"
    BY ZenonT(60), <1>2, <1>5, <1>8 DEF Inv, PlaceInv
  <2>2. \A d \in Core : next'[d] \in Spawned =>
          state[next'[d]] = "READY" /\ pc'[next'[d]] # "new" /\ ~InSeq(runq', next'[d])
    <3> TAKE d \in Core
    <3>1. CASE d = c
      BY ZenonT(60), <3>1, <1>2, <1>4, <1>5, <1>8 DEF x
    <3>2. CASE d # c
      <4>1. next[d] \in Spawned => state[next[d]] = "READY" /\ pc[next[d]] # "new" /\ ~InSeq(runq, next[d])
        BY Zenon DEF Inv, PlaceInv
      <4>2. next'[d] = next[d]
        BY Zenon, <3>2, <1>6
      <4>3. \A u \in Thread : pc[u] # "new" => pc'[u] # "new"
        BY ZenonT(60), <1>2, <1>8
      <4> QED BY Zenon, <4>1, <4>2, <4>3, <1>4, <1>5
    <3> QED BY Zenon, <3>1, <3>2
  <2>3. \A w \in Thread : batch[w] # {} => pc'[w] \in {"batch", "more", "kicked"}
    BY ZenonT(60), <1>1, <1>2 DEF Inv, PlaceInv
  <2>4. PlaceInv
    BY Zenon DEF Inv
  <2>5. /\ \A u \in Thread : waitq'[u] # none => u \in Spawned /\ state'[u] = "BLOCKED" /\ u \notin sleepers'
        /\ \A u \in sleepers' : state'[u] = "BLOCKED"
    BY Zenon, <1>3, <2>4 DEF PlaceInv
  <2>6. /\ \A w \in Thread : \A u \in batch'[w] :
             state'[u] = "BLOCKED" /\ waitq'[u] = none /\ u \notin sleepers'
        /\ \A v, w \in Thread : v # w => batch'[v] \cap batch'[w] = {}
    BY Zenon, <1>3, <2>4 DEF PlaceInv
  <2>7. /\ Distinct(runq')
        /\ \A u \in Thread : InSeq(runq', u) => state'[u] = "READY" /\ pc'[u] # "new"
    BY Zenon, <1>3, <1>5, <2>1
  <2>8. /\ \A d \in Core : next'[d] \in Spawned =>
             state'[next'[d]] = "READY" /\ pc'[next'[d]] # "new" /\ ~InSeq(runq', next'[d])
        /\ \A w \in Thread : batch'[w] # {} => pc'[w] \in {"batch", "more", "kicked"}
    BY ZenonT(60), <1>3, <2>2, <2>3
  <2> QED BY Zenon, <2>5, <2>6, <2>7, <2>8 DEF PlaceInv
<1>12. PointsInv' /\ DeadInv'
  BY SMTT(60), ZenonT(60), <1>1, <1>2, <1>3, DisjointAssumption
     DEF Inv, PointsInv, DeadInv, ReaperPoints, Thread, Return
<1>13. WaitInv'
  <2>1. timed \subseteq Thread /\ User \cup Kernel \subseteq Thread /\ reaper \in Thread
    BY ZenonT(60) DEF Inv, TypeOK, Thread
  <2>2. pc'[t] \in WaitPoints => pc[t] \in WaitPoints /\ pc'[t] = "woke"
    BY ZenonT(60), <1>1, <1>2 DEF WaitPoints, Return
  <2>3. pc'[t] \notin WakerPoints
    BY ZenonT(60), <1>1, <1>2 DEF WakerPoints, Return
  <2> QED BY ZenonT(60), <1>2, <1>3, <2>1, <2>2, <2>3 DEF Inv, WaitInv
<1>14. TimedNodeAlive' /\ KilledNotParked'
  <2>1. timed \subseteq Thread
    BY ZenonT(60) DEF Inv, TypeOK, Thread
  <2>2. t \in timed => pc[t] = "block_out"
    BY Zenon, <1>1 DEF Inv, TimedNodeAlive
  <2> QED BY ZenonT(60), <1>2, <1>3, <2>1, <2>2 DEF Inv, TimedNodeAlive, KilledNotParked
<1> QED BY ZenonT(60), <1>7, <1>9, <1>10, <1>11, <1>12, <1>13, <1>14 DEF Inv

----------------------------------------------------------------------------
(* Lists.                                                                  *)

\* What StateInv says of a thread depends on the class of its point only.
LEMMA StatesKept ==
  ASSUME Inv, UNCHANGED <<current, cpc, state, on_cpu>>,
         \A u \in Thread : /\ pc'[u] \in OutPoints <=> pc[u] \in OutPoints
                           /\ pc'[u] \in DyingPoints <=> pc[u] \in DyingPoints
                           /\ pc[u] \in WakerPoints => pc'[u] \in WakerPoints
                           /\ pc'[u] = "dead" <=> pc[u] = "dead"
                           /\ pc'[u] = "new" => pc[u] = "new"
  PROVE  StateInv'
<1>1. StateInv /\ \A d \in Core : current[d] \in Thread
  BY Zenon DEF Inv, TypeOK
<1>2. /\ \A d \in Core : cpc'[d] \in InterruptPoints => state'[current'[d]] = "RUNNING"
      /\ \A d \in Core : cpc'[d] \in {"run", "finish"} /\ pc'[current'[d]] \notin OutPoints
                            => state'[current'[d]] \in {"RUNNING", "DEAD"}
  BY Zenon, <1>1 DEF StateInv
<1>3. \A u \in Thread : /\ pc'[u] \in OutPoints => state'[u] \in {"BLOCKED", "READY"}
                        /\ pc'[u] \in DyingPoints => state'[u] = "DEAD"
                        /\ state'[u] = "DEAD" => pc'[u] \in DyingPoints \cup WakerPoints
                        /\ pc'[u] = "new" => state'[u] = "READY" /\ ~on_cpu'[u]
  BY Zenon, <1>1 DEF StateInv
<1>4. \A u \in Thread : pc'[u] \in OutPoints \cup (DyingPoints \ {"dead"})
                        \/ (state'[u] = "DEAD" /\ pc'[u] # "dead") =>
        \E d \in Core : current'[d] = u /\ cpc'[d] = "run"
  <2> TAKE u \in Thread
  <2> HAVE pc'[u] \in OutPoints \cup (DyingPoints \ {"dead"})
             \/ (state'[u] = "DEAD" /\ pc'[u] # "dead")
  <2>1. pc[u] \in OutPoints \cup (DyingPoints \ {"dead"})
             \/ (state[u] = "DEAD" /\ pc[u] # "dead")
    BY Zenon
  <2>2. PICK d \in Core : current[d] = u /\ cpc[d] = "run"
    BY Zenon, <1>1, <2>1 DEF StateInv
  <2>3. current'[d] = u /\ cpc'[d] = "run"
    BY Zenon, <2>2
  <2> QED BY Zenon, <2>3
<1> QED BY ZenonT(60), <1>2, <1>3, <1>4 DEF StateInv

\* The lists when a running thread leaves for a wait queue, the sleepers or its grave.
LEMMA ParkPlace ==
  ASSUME Inv, NEW t \in Spawned,
         ~InSeq(runq, t), waitq[t] = none, t \notin sleepers, batch[t] = {},
         \A w \in Thread : t \notin batch[w],
         \A d \in Core : next[d] # t,
         \A s \in Thread : s # t => state'[s] = state[s] /\ pc'[s] = pc[s] /\ waitq'[s] = waitq[s],
         sleepers' \subseteq sleepers \cup {t},
         waitq'[t] # none => state'[t] = "BLOCKED" /\ t \notin sleepers',
         t \in sleepers' => state'[t] = "BLOCKED",
         UNCHANGED <<runq, next, batch>>
  PROVE  PlaceInv'
<1>1. /\ PlaceInv /\ t \in Thread /\ sleepers \subseteq Thread /\ Spawned \subseteq Thread
      /\ \A w \in Thread : batch[w] \subseteq Thread
  BY Zenon DEF Inv, TypeOK, Thread, Spawned
<1>2. \A s \in Thread : InSeq(runq, s) => state'[s] = "READY" /\ pc'[s] # "new"
  <2> TAKE s \in Thread
  <2> HAVE InSeq(runq, s)
  <2>1. s # t
    BY Zenon
  <2>2. state[s] = "READY" /\ pc[s] # "new"
    BY Zenon, <1>1 DEF PlaceInv
  <2> QED BY Zenon, <2>1, <2>2
<1>3. \A d \in Core : next[d] \in Spawned =>
        state'[next[d]] = "READY" /\ pc'[next[d]] # "new" /\ ~InSeq(runq, next[d])
  <2> TAKE d \in Core
  <2> HAVE next[d] \in Spawned
  <2>1. /\ next[d] \in Thread /\ next[d] # t
        /\ state[next[d]] = "READY" /\ pc[next[d]] # "new" /\ ~InSeq(runq, next[d])
    BY Zenon, <1>1 DEF PlaceInv
  <2> QED BY Zenon, <2>1
<1>4. \A s \in Thread : waitq'[s] # none =>
        s \in Spawned /\ state'[s] = "BLOCKED" /\ s \notin sleepers'
  <2> TAKE s \in Thread
  <2>1. CASE s = t
    BY Zenon, <2>1
  <2>2. CASE s # t
    <3>1. waitq[s] # none => s \in Spawned /\ state[s] = "BLOCKED" /\ s \notin sleepers
      BY Zenon, <1>1 DEF PlaceInv
    <3>2. /\ waitq'[s] = waitq[s] /\ state'[s] = state[s]
          /\ s \in sleepers' => s \in sleepers
      BY Zenon, <2>2
    <3> QED BY Zenon, <3>1, <3>2
  <2> QED BY Zenon, <2>1, <2>2
<1>5. \A s \in sleepers' : state'[s] = "BLOCKED"
  <2> TAKE s \in sleepers'
  <2>1. CASE s = t
    BY Zenon, <2>1
  <2>2. CASE s # t
    <3>1. s \in sleepers /\ s \in Thread
      BY Zenon, <1>1, <2>2
    <3>2. state[s] = "BLOCKED"
      BY Zenon, <1>1, <3>1 DEF PlaceInv
    <3> QED BY Zenon, <2>2, <3>1, <3>2
  <2> QED BY Zenon, <2>1, <2>2
<1>6. \A w \in Thread : \A s \in batch[w] :
        state'[s] = "BLOCKED" /\ waitq'[s] = none /\ s \notin sleepers'
  <2> TAKE w \in Thread
  <2> TAKE s \in batch[w]
  <2>1. s \in Thread /\ s # t
    BY Zenon, <1>1
  <2>2. state[s] = "BLOCKED" /\ waitq[s] = none /\ s \notin sleepers
    BY Zenon, <1>1 DEF PlaceInv
  <2> QED BY Zenon, <2>1, <2>2
<1>7. \A w \in Thread : batch[w] # {} => pc'[w] \in {"batch", "more", "kicked"}
  BY Zenon, <1>1 DEF PlaceInv
<1>8. Distinct(runq) /\ \A v, w \in Thread : v # w => batch[v] \cap batch[w] = {}
  BY Zenon, <1>1 DEF PlaceInv
<1> QED BY Zenon, <1>2, <1>3, <1>4, <1>5, <1>6, <1>7, <1>8 DEF PlaceInv

\* The running thread parks, or dies.
LEMMA ParkFrame ==
  ASSUME Inv, NEW c \in Core, NEW to \in {"BLOCKED", "DEAD"},
         cpc[c] = "run", pc[current[c]] \in {"block", "run", "exit"},
         state' = [state EXCEPT ![current[c]] = to],
         \A s \in Thread : s # current[c] => pc'[s] = pc[s],
         pc'[current[c]] \in (IF to = "BLOCKED" THEN OutPoints ELSE {"terminated"}),
         UNCHANGED <<cpuVars, on_cpu, runq, batch>>
  PROVE  LET t == current[c]
         IN /\ CpuInv' /\ StateInv'
            /\ t \in Thread /\ state[t] = "RUNNING" /\ ~InSeq(runq, t)
            /\ waitq[t] = none /\ t \notin sleepers /\ state'[t] = to
            /\ \A s \in Thread : s # t => state'[s] = state[s]
            /\ \A w \in Thread : t \notin batch[w]
            /\ \A d \in Core : next[d] # t
            /\ batch[t] = {}
<1> DEFINE t == current[c]
<1>1. /\ t \in Thread /\ on_cpu[t] /\ state[t] = "RUNNING" /\ ~InSeq(runq, t)
      /\ waitq[t] = none /\ t \notin sleepers /\ batch[t] = {}
      /\ \A w \in Thread : t \notin batch[w]
  BY Zenon, Running DEF OutPoints, DyingPoints, WakerPoints
<1>2. /\ state'[t] = to /\ \A s \in Thread : s # t => state'[s] = state[s]
      /\ \A d \in Core : d # c => current[d] # t
      /\ \A d \in Core : next[d] # t
      /\ \A d \in Core : current[d] \in Thread
  <2>1. /\ CpuInv /\ state \in [Thread -> {"READY", "RUNNING", "BLOCKED", "DEAD"}]
        /\ current \in [Core -> Thread] /\ t # none
    BY Zenon, <1>1, DisjointAssumption DEF Inv, TypeOK
  <2>2. \A d \in Core : d # c => current[d] # t
    BY Zenon, <2>1 DEF CpuInv
  <2>3. \A d \in Core : next[d] # t
    BY Zenon, <1>1, <2>1 DEF CpuInv
  <2> QED BY Zenon, <1>1, <2>1, <2>2, <2>3
<1>3. CpuInv'
  BY Zenon, CpuFrame DEF Inv
<1>4. /\ to = "BLOCKED" => pc'[t] \in OutPoints /\ pc'[t] \notin DyingPoints \cup {"new", "dead"}
      /\ to = "DEAD" => pc'[t] \in DyingPoints \ {"dead"} /\ pc'[t] \notin OutPoints \cup {"new"}
  BY Zenon DEF OutPoints, DyingPoints
<1>5. StateInv'
  <2>1. /\ \A d \in Core : cpc[d] \in InterruptPoints => state'[current[d]] = "RUNNING"
        /\ \A d \in Core : cpc[d] \in {"run", "finish"} /\ pc'[current[d]] \notin OutPoints
                              => state'[current[d]] \in {"RUNNING", "DEAD"}
    <3> SUFFICES ASSUME NEW d \in Core
                 PROVE  /\ cpc[d] \in InterruptPoints => state'[current[d]] = "RUNNING"
                        /\ cpc[d] \in {"run", "finish"} /\ pc'[current[d]] \notin OutPoints
                              => state'[current[d]] \in {"RUNNING", "DEAD"}
      BY Zenon
    <3>1. /\ cpc[d] \in InterruptPoints => state[current[d]] = "RUNNING"
          /\ cpc[d] \in {"run", "finish"} /\ pc[current[d]] \notin OutPoints
                => state[current[d]] \in {"RUNNING", "DEAD"}
      BY Zenon DEF Inv, StateInv
    <3>2. CASE d # c
      <4>1. current[d] # t /\ current[d] \in Thread
        BY Zenon, <1>2, <3>2
      <4>2. state'[current[d]] = state[current[d]] /\ pc'[current[d]] = pc[current[d]]
        BY Zenon, <1>1, <1>2, <4>1
      <4> QED BY Zenon, <3>1, <4>2
    <3>3. CASE d = c
      <4>1. cpc[d] \notin InterruptPoints
        BY Zenon, <3>3, <1>1 DEF InterruptPoints
      <4> QED BY Zenon, <4>1, <3>3, <1>2, <1>4
    <3> QED BY Zenon, <3>2, <3>3
  <2>2. \A s \in Thread : /\ pc'[s] \in OutPoints => state'[s] \in {"BLOCKED", "READY"}
                          /\ pc'[s] \in DyingPoints => state'[s] = "DEAD"
                          /\ state'[s] = "DEAD" => pc'[s] \in DyingPoints \cup WakerPoints
                          /\ pc'[s] = "new" => state'[s] = "READY" /\ ~on_cpu[s]
    <3> TAKE s \in Thread
    <3>1. CASE s = t
      BY Zenon, <3>1, <1>2, <1>4
    <3>2. CASE s # t
      <4>1. state'[s] = state[s] /\ pc'[s] = pc[s] /\ StateInv
        BY Zenon, <3>2, <1>2 DEF Inv
      <4>2. /\ pc[s] \in OutPoints => state[s] \in {"BLOCKED", "READY"}
            /\ pc[s] \in DyingPoints => state[s] = "DEAD"
            /\ state[s] = "DEAD" => pc[s] \in DyingPoints \cup WakerPoints
            /\ pc[s] = "new" => state[s] = "READY" /\ ~on_cpu[s]
        BY Zenon, <4>1 DEF StateInv
      <4> QED BY Zenon, <4>1, <4>2
    <3> QED BY Zenon, <3>1, <3>2
  <2>3. \A s \in Thread : pc'[s] \in OutPoints \cup (DyingPoints \ {"dead"})
                         \/ (state'[s] = "DEAD" /\ pc'[s] # "dead") =>
          \E d \in Core : current[d] = s /\ cpc[d] = "run"
    <3> TAKE s \in Thread
    <3>1. CASE s = t
      BY Zenon, <3>1
    <3>2. CASE s # t
      <4>1. state'[s] = state[s] /\ pc'[s] = pc[s] /\ StateInv
        BY Zenon, <3>2, <1>2 DEF Inv
      <4>2. pc[s] \in OutPoints \cup (DyingPoints \ {"dead"})
                \/ (state[s] = "DEAD" /\ pc[s] # "dead") =>
              \E d \in Core : current[d] = s /\ cpc[d] = "run"
        BY Zenon, <4>1 DEF StateInv
      <4> QED BY Zenon, <4>1, <4>2
    <3> QED BY Zenon, <3>1, <3>2
  <2>4. current' = current /\ cpc' = cpc /\ on_cpu' = on_cpu
    BY Zenon
  <2>5. /\ \A d \in Core : cpc'[d] \in InterruptPoints => state'[current'[d]] = "RUNNING"
        /\ \A d \in Core : cpc'[d] \in {"run", "finish"} /\ pc'[current'[d]] \notin OutPoints
                              => state'[current'[d]] \in {"RUNNING", "DEAD"}
    BY ONLY Zenon, <2>1, <2>4
  <2>6. /\ \A s \in Thread : pc'[s] = "new" => state'[s] = "READY" /\ ~on_cpu'[s]
        /\ \A s \in Thread : pc'[s] \in OutPoints \cup (DyingPoints \ {"dead"})
                              \/ (state'[s] = "DEAD" /\ pc'[s] # "dead") =>
             \E d \in Core : current'[d] = s /\ cpc'[d] = "run"
    BY ONLY SMT, <2>2, <2>3, <2>4
  <2> QED BY ONLY ZenonT(60), <2>2, <2>5, <2>6 DEF StateInv
<1> QED BY Zenon, <1>1, <1>2, <1>3, <1>5

\* block_if parks the thread.
LEMMA BlockIfInv ==
  ASSUME Inv, NEW c \in Core, BlockIf(c)
  PROVE  Inv'
<1> DEFINE t == current[c]
<1>1. cpc[c] = "run" /\ pc[t] = "block" /\ t \in Spawned /\ t \in Thread /\ ~Refused(t)
  BY Zenon, Running DEF BlockIf, At, Thread, Spawned
<1>2. /\ pc'[t] = "block_out" /\ \A s \in Thread : s # t => pc'[s] = pc[s]
      /\ pc' \in [Thread -> Points]
      /\ waitq'[t] = req[t].obj /\ \A s \in Thread : s # t => waitq'[s] = waitq[s]
      /\ waitq' \in [Thread -> Queue \cup {none}]
  BY ZenonT(60), <1>1 DEF Inv, TypeOK, BlockIf, Goto, Points
<1>3. /\ CpuInv' /\ StateInv'
      /\ state[t] = "RUNNING" /\ ~InSeq(runq, t)
      /\ waitq[t] = none /\ t \notin sleepers /\ state'[t] = "BLOCKED"
      /\ \A s \in Thread : s # t => state'[s] = state[s]
      /\ \A w \in Thread : t \notin batch[w]
      /\ \A d \in Core : next[d] # t
      /\ batch[t] = {}
  BY Zenon, <1>1, <1>2, ParkFrame DEF BlockIf, OutPoints
<1>4. TypeOK'
  <2>1. state' \in [Thread -> {"READY", "RUNNING", "BLOCKED", "DEAD"}]
    BY Zenon DEF Inv, TypeOK, BlockIf
  <2> QED BY Zenon, <1>2, <2>1 DEF Inv, TypeOK, BlockIf
<1>5. PlaceInv'
  <2>1. UNCHANGED <<runq, next, sleepers, batch>>
    BY Zenon DEF BlockIf
  <2> QED BY Zenon, <1>1, <1>2, <1>3, <2>1, ParkPlace
<1>6. DeadInv'
  <2>1. \A s \in Thread : state[s] = "DEAD" => state'[s] = "DEAD"
    BY Zenon, <1>3
  <2> QED BY Zenon, <2>1 DEF Inv, TypeOK, DeadInv, BlockIf, Thread
<1>7. PointsInv'
  <2>1. t \notin Core
    BY Zenon, <1>1, DisjointAssumption DEF Spawned
  <2>2. PointsInv /\ UNCHANGED <<corpse, killed>> /\ Core \cup User \cup Kernel \cup {reaper} \subseteq Thread
    BY Zenon DEF Inv, BlockIf, Thread
  <2>3. /\ \A d \in Core : pc'[d] = "run"
        /\ \A u \in User : pc'[u] \notin {"critical", "enable", "refused", "reap"}
        /\ \A u \in Kernel : pc'[u] # "reap"
        /\ \A u \in Thread : killed[u] => u \in User
    BY Zenon, <1>2, <2>1, <2>2 DEF PointsInv
  <2>4. pc'[reaper] \in ReaperPoints /\ (pc'[reaper] = "reap" <=> corpse # none)
    BY Zenon, <1>1, <1>2, <2>2 DEF PointsInv, ReaperPoints
  <2> QED BY Zenon, <2>2, <2>3, <2>4 DEF PointsInv
<1>8. WaitInv'
  <2>1. UNCHANGED <<req, wake, timed>> /\ timed \subseteq Thread /\ User \cup Kernel \cup {reaper} \subseteq Thread
    BY Zenon DEF Inv, TypeOK, BlockIf, Thread
  <2> QED BY ZenonT(60), <1>1, <1>2, <2>1 DEF Inv, WaitInv, WaitPoints, WakerPoints
<1>9. TimedNodeAlive'
  <2>1. timed' = timed /\ timed \subseteq Thread
    BY Zenon DEF Inv, TypeOK, BlockIf, Thread
  <2> QED BY Zenon, <1>2, <2>1 DEF Inv, TimedNodeAlive
<1>10. KilledNotParked'
  <2>1. t \in User => ~killed[t]
    BY Zenon, <1>1 DEF Inv, WaitInv, WaitPoints, Refused
  <2>2. UNCHANGED <<killed, sleepers>>
    BY Zenon DEF BlockIf
  <2> QED BY Zenon, <1>2, <1>3, <2>1, <2>2 DEF Inv, KilledNotParked, Thread
<1> QED BY Zenon, <1>3, <1>4, <1>5, <1>6, <1>7, <1>8, <1>9, <1>10 DEF Inv

\* thread_enqueue.
LEMMA SpawnInv ==
  ASSUME Inv, NEW c \in Core, NEW s \in User \cup Kernel, Spawn(c, s)
  PROVE  Inv'
<1> DEFINE t == current[c]
<1>1. /\ t \in Thread /\ t # reaper /\ pc[t] = "run" /\ cpc[c] = "run" /\ state[t] = "RUNNING"
      /\ batch[t] = {} /\ s \in Spawned /\ s \in Thread /\ pc[s] = "new" /\ s # t
      /\ s \notin Core \cup {reaper}
  BY ZenonT(60), Running, DisjointAssumption, CoreAssumption
     DEF Spawn, At, Thread, Spawned, OutPoints, DyingPoints, WakerPoints
<1>2. /\ pc' \in [Thread -> Points] /\ pc'[s] = "run" /\ pc'[t] \in {"run", "boundary"}
      /\ pc'[t] = "boundary" => t \in User
      /\ \A u \in Thread : u # s /\ u # t => pc'[u] = pc[u]
  BY Zenon, <1>1 DEF Inv, TypeOK, Spawn, Return, Points
<1>3. /\ state[s] = "READY" /\ ~on_cpu[s] /\ ~InSeq(runq, s) /\ batch[s] = {}
      /\ \A d \in Core : next[d] # s /\ current[d] # s
  <2>1. StateInv /\ PlaceInv /\ CpuInv
    BY Zenon DEF Inv
  <2>2. state[s] = "READY" /\ ~on_cpu[s]
    BY Zenon, <1>1, <2>1 DEF StateInv
  <2>3. ~InSeq(runq, s) /\ batch[s] = {} /\ \A d \in Core : next[d] # s
    BY ZenonT(60), <1>1, <2>1 DEF PlaceInv
  <2>4. \A d \in Core : current[d] # s
    <3>1. \A d \in Core : on_cpu[current[d]]
      BY Zenon, <2>1 DEF CpuInv
    <3> QED BY Zenon, <2>2, <3>1
  <2> QED BY Zenon, <2>2, <2>3, <2>4
<1>4. /\ runq' \in Seq(Spawned) /\ Distinct(runq')
      /\ \A u : InSeq(runq', u) <=> InSeq(runq, u) \/ u = s
  <2>1. runq \in Seq(Spawned) /\ Distinct(runq) /\ runq' = Append(runq, s)
    BY Zenon DEF Inv, TypeOK, PlaceInv, Spawn
  <2> QED BY Zenon, <1>1, <1>3, <2>1, EnqueueFacts
<1>5. /\ UNCHANGED <<cpuVars, lockVars, timeVars, threadVars, killed, masked, waitVars, reapVars>>
      /\ \A d \in Core : current[d] \in Thread /\ next[d] \in Thread \cup {none}
      /\ Spawned \subseteq Thread
      /\ timed \subseteq Thread /\ User \cup Kernel \subseteq Thread /\ reaper \in Thread
  BY Zenon DEF Inv, TypeOK, Spawn, Thread, Spawned
<1>6. TypeOK'
  BY Zenon, <1>2, <1>4, <1>5 DEF Inv, TypeOK
<1>7. CpuInv'
  BY Zenon, <1>5, CpuFrame DEF Inv
<1>8. \A u \in Thread : /\ pc'[u] \in OutPoints <=> pc[u] \in OutPoints
                        /\ pc'[u] \in DyingPoints <=> pc[u] \in DyingPoints
                        /\ pc'[u] \in WakerPoints <=> pc[u] \in WakerPoints
                        /\ pc'[u] = "dead" <=> pc[u] = "dead"
                        /\ pc'[u] = "new" <=> pc[u] = "new" /\ u # s
                        /\ pc[u] \in {"batch", "more", "kicked"} => pc'[u] = pc[u]
  BY Zenon, <1>1, <1>2 DEF OutPoints, DyingPoints, WakerPoints
<1>9. StateInv'
  BY Zenon, <1>5, <1>8, StatesKept
<1>10. PlaceInv'
  <2>1. \A u \in Thread : InSeq(runq', u) => state[u] = "READY" /\ pc'[u] # "new"
    BY Zenon, <1>3, <1>4, <1>8 DEF Inv, PlaceInv
  <2>2. \A d \in Core : next[d] \in Spawned =>
          state[next[d]] = "READY" /\ pc'[next[d]] # "new" /\ ~InSeq(runq', next[d])
    BY ZenonT(60), <1>3, <1>4, <1>5, <1>8 DEF Inv, PlaceInv
  <2>3. \A w \in Thread : batch[w] # {} => pc'[w] \in {"batch", "more", "kicked"}
    BY Zenon, <1>8 DEF Inv, PlaceInv
  <2> QED BY ZenonT(60), <1>4, <1>5, <2>1, <2>2, <2>3 DEF Inv, PlaceInv
<1>11. PointsInv' /\ DeadInv'
  <2>1. PointsInv /\ DeadInv /\ Core \subseteq Thread
    BY Zenon DEF Inv, Thread
  <2>2. /\ \A d \in Core : pc'[d] = "run"
        /\ \A u \in User : pc'[u] \notin {"critical", "enable", "refused", "reap"}
        /\ \A u \in Kernel : pc'[u] # "reap"
        /\ pc'[reaper] = pc[reaper]
    <3>1. \A d \in Core : d # s /\ (pc'[d] = "boundary" => d \notin User)
      BY Zenon, <1>1, DisjointAssumption
    <3>2. \A d \in Core : pc'[d] = "run"
      BY Zenon, <1>2, <2>1, <3>1 DEF PointsInv
    <3> QED BY Zenon, <1>1, <1>2, <1>5, <2>1, <3>2 DEF PointsInv
  <2>3. PointsInv'
    BY Zenon, <1>5, <2>1, <2>2 DEF PointsInv
  <2>4. DeadInv'
    BY Zenon, <1>5, <2>1 DEF DeadInv
  <2> QED BY Zenon, <2>3, <2>4
<1>12. WaitInv'
  <2>1. \A u \in Thread : pc'[u] \in WaitPoints => pc'[u] = pc[u]
    BY Zenon, <1>1, <1>2 DEF WaitPoints
  <2> QED BY Zenon, <1>5, <1>8, <2>1 DEF Inv, WaitInv
<1>13. TimedNodeAlive' /\ KilledNotParked'
  <2>1. s \notin timed /\ t \notin timed
    BY Zenon, <1>1 DEF Inv, TimedNodeAlive
  <2> QED BY Zenon, <1>2, <1>5, <2>1 DEF Inv, TimedNodeAlive, KilledNotParked
<1> QED BY Zenon, <1>6, <1>7, <1>9, <1>10, <1>11, <1>12, <1>13 DEF Inv

\* sleep_ticks.
LEMMA SleepInv ==
  ASSUME Inv, NEW c \in Core, NEW d \in 1..MaxDelay, Sleep(c, d)
  PROVE  Inv'
<1> DEFINE t == current[c]
<1>1. /\ t \in User \cup Kernel /\ t \in Thread /\ t \notin Core \cup {reaper}
      /\ pc[t] = "run" /\ cpc[c] = "run" /\ state[t] = "RUNNING" /\ batch[t] = {}
      /\ waitq[t] = none
  BY Zenon, Running, DisjointAssumption DEF Sleep, At, May, Thread, OutPoints, DyingPoints, WakerPoints
<1>2. /\ \A s \in Thread : s # t => pc'[s] = pc[s]
      /\ pc' \in [Thread -> Points] /\ pc'[t] \in {"sleep_out", "boundary", "run"}
      /\ killed[t] => pc'[t] = "boundary" /\ t \in User
      /\ ~killed[t] => pc'[t] = "sleep_out"
  <2>1. CASE killed[t]
    <3>1. pc' = [pc EXCEPT ![t] = "boundary"] /\ t \in User
      BY Zenon, <2>1, <1>1 DEF Inv, PointsInv, Sleep, Goto, Return
    <3> QED BY ZenonT(60), <2>1, <3>1, <1>1 DEF Inv, TypeOK, Points
  <2>2. CASE ~killed[t]
    <3>1. pc' = [pc EXCEPT ![t] = "sleep_out"]
      BY Zenon, <2>2 DEF Sleep, Goto
    <3> QED BY ZenonT(60), <2>2, <3>1, <1>1 DEF Inv, TypeOK, Points
  <2> QED BY Zenon, <2>1, <2>2
<1>3. /\ UNCHANGED <<cpuVars, lockVars, runq, timed, on_cpu, slice, killed,
                      masked, waitVars, reapVars>>
      /\ timed \subseteq Thread /\ User \cup Kernel \cup {reaper} \subseteq Thread
      /\ t \notin timed
  BY Zenon, <1>1 DEF Inv, TypeOK, TimedNodeAlive, Sleep, Thread
<1>4. PointsInv'
  BY ZenonT(60), <1>1, <1>2, <1>3 DEF Inv, PointsInv, ReaperPoints, Thread
<1>5. WaitInv' /\ TimedNodeAlive'
  BY ZenonT(60), <1>1, <1>2, <1>3 DEF Inv, WaitInv, TimedNodeAlive, WaitPoints, WakerPoints
<1>6. CASE killed[t]
  <2>1. UNCHANGED <<state, sleepers, timer>>
    BY Zenon, <1>6 DEF Sleep
  <2>2. CpuInv' /\ StateInv' /\ PlaceInv'
    BY Zenon, <1>1, <1>2, <1>3, <1>6, <2>1, PcMove DEF OutPoints, DyingPoints
  <2>3. TypeOK'
    BY Zenon, <1>2, <1>3, <2>1 DEF Inv, TypeOK
  <2>4. DeadInv' /\ KilledNotParked'
    BY Zenon, <1>3, <2>1 DEF Inv, DeadInv, KilledNotParked
  <2> QED BY Zenon, <1>4, <1>5, <2>2, <2>3, <2>4 DEF Inv
<1>7. CASE ~killed[t]
  <2>1. /\ state' = [state EXCEPT ![t] = "BLOCKED"] /\ sleepers' = sleepers \cup {t}
        /\ timer' = [timer EXCEPT ![t] = d]
    BY Zenon, <1>7 DEF Sleep
  <2>2. /\ CpuInv' /\ StateInv' /\ ~InSeq(runq, t) /\ state'[t] = "BLOCKED"
        /\ \A s \in Thread : s # t => state'[s] = state[s]
        /\ \A w \in Thread : t \notin batch[w]
        /\ \A e \in Core : next[e] # t
    BY Zenon, <1>1, <1>2, <1>3, <1>7, <2>1, ParkFrame DEF OutPoints
  <2>3. TypeOK'
    <3>1. state' \in [Thread -> {"READY", "RUNNING", "BLOCKED", "DEAD"}]
      BY Zenon, <2>1 DEF Inv, TypeOK
    <3>2. sleepers' \subseteq User \cup Kernel
      BY ZenonT(60), <1>1, <2>1 DEF Inv, TypeOK
    <3>3. timer' \in [Thread -> 0..MaxDelay]
      BY SMTT(60), ZenonT(60), <2>1, SizeAssumption DEF Inv, TypeOK
    <3> QED BY Zenon, <1>2, <1>3, <3>1, <3>2, <3>3 DEF Inv, TypeOK
  <2>4. PlaceInv'
    <3>1. t \in Spawned /\ t \notin sleepers /\ sleepers' \subseteq sleepers \cup {t}
      BY ZenonT(60), <1>1, <2>1, Running DEF Spawned, OutPoints
    <3>2. UNCHANGED <<runq, next, batch, waitq>>
      BY Zenon, <1>3
    <3> QED BY Zenon, <1>1, <1>2, <2>2, <3>1, <3>2, ParkPlace
  <2>5. DeadInv'
    <3>1. \A s \in Thread : state[s] = "DEAD" => state'[s] = "DEAD"
      BY Zenon, <1>1, <2>2
    <3> QED BY ZenonT(60), <1>3, <3>1 DEF Inv, TypeOK, DeadInv, Thread
  <2>6. KilledNotParked'
    BY Zenon, <1>3, <1>7, <2>1 DEF Inv, KilledNotParked
  <2> QED BY Zenon, <1>4, <1>5, <2>2, <2>3, <2>4, <2>5, <2>6 DEF Inv
<1> QED BY Zenon, <1>6, <1>7

\* exit_current up to the release of the lock.
LEMMA ExitCurrentInv ==
  ASSUME Inv, NEW c \in Core, ExitCurrent(c)
  PROVE  Inv'
<1> DEFINE t == current[c]
<1>1. /\ t \in User \cup Kernel /\ t \in Thread /\ t \notin Core \cup {reaper}
      /\ pc[t] = "exit" /\ cpc[c] = "run" /\ state[t] = "RUNNING" /\ batch[t] = {}
  BY ZenonT(60), Running, DisjointAssumption
     DEF ExitCurrent, At, Thread, OutPoints, DyingPoints, WakerPoints, ReaperPoints
<1>2. /\ \A s \in Thread : s # t => pc'[s] = pc[s]
      /\ pc' \in [Thread -> Points] /\ pc'[t] = "terminated"
  BY ZenonT(60), <1>1 DEF Inv, TypeOK, ExitCurrent, Goto, Points
<1>3. /\ UNCHANGED <<cpuVars, lockVars, runq, timeVars, on_cpu, slice, killed,
                      masked, waitVars, corpse, reaped>>
      /\ timed \subseteq Thread /\ User \cup Kernel \cup {reaper} \subseteq Thread
      /\ t \notin timed
  BY Zenon, <1>1 DEF Inv, TypeOK, TimedNodeAlive, ExitCurrent, Thread
<1>4. /\ CpuInv' /\ StateInv' /\ ~InSeq(runq, t) /\ state'[t] = "DEAD"
      /\ waitq[t] = none /\ t \notin sleepers
      /\ \A s \in Thread : s # t => state'[s] = state[s]
      /\ \A w \in Thread : t \notin batch[w]
      /\ \A e \in Core : next[e] # t
  BY Zenon, <1>1, <1>2, <1>3, ParkFrame DEF ExitCurrent
<1>5. /\ zombies' \in Seq(User \cup Kernel)
      /\ \A u : InSeq(zombies', u) <=> InSeq(zombies, u) \/ u = t
  <2> DEFINE S == User \cup Kernel
  <2>1. zombies \in Seq(S) /\ t \in S /\ zombies' = Append(zombies, t)
    BY Zenon, <1>1 DEF Inv, TypeOK, ExitCurrent
  <2> HIDE DEF S
  <2>2. /\ zombies' \in Seq(S)
        /\ \A u : InSeq(zombies', u) <=> InSeq(zombies, u) \/ u = t
    BY ZenonT(60), <2>1, AppendFacts
  <2> QED BY Zenon, <2>2 DEF S
<1>6. TypeOK'
  <2>1. state' \in [Thread -> {"READY", "RUNNING", "BLOCKED", "DEAD"}]
    BY Zenon DEF Inv, TypeOK, ExitCurrent
  <2> QED BY Zenon, <1>2, <1>3, <1>5, <2>1 DEF Inv, TypeOK
<1>7. PlaceInv'
  <2>1. t \in Spawned /\ UNCHANGED <<runq, next, batch, waitq, sleepers>>
    BY Zenon, <1>1, <1>3 DEF Spawned
  <2> QED BY Zenon, <1>1, <1>2, <1>4, <2>1, ParkPlace
<1>8. DeadInv'
  <2>1. \A s \in Thread : state[s] = "DEAD" => state'[s] = "DEAD"
    BY Zenon, <1>1, <1>4
  <2> QED BY ZenonT(60), <1>3, <1>4, <1>5, <2>1 DEF Inv, TypeOK, DeadInv, Thread
<1>9. PointsInv'
  BY ZenonT(60), <1>1, <1>2, <1>3 DEF Inv, PointsInv, ReaperPoints, Thread
<1>10. WaitInv' /\ TimedNodeAlive' /\ KilledNotParked'
  <2>1. pc'[t] \notin WaitPoints \cup WakerPoints
    BY Zenon, <1>2 DEF WaitPoints, WakerPoints
  <2>2. WaitInv /\ TimedNodeAlive /\ KilledNotParked
    BY Zenon DEF Inv
  <2>3. WaitInv'
    BY Zenon, <1>1, <1>2, <1>3, <2>1, <2>2 DEF WaitInv
  <2> QED BY Zenon, <1>2, <1>3, <2>2, <2>3 DEF TimedNodeAlive, KilledNotParked
<1> QED BY Zenon, <1>4, <1>6, <1>7, <1>8, <1>9, <1>10 DEF Inv

\* A waker unlinks the nodes of the threads it takes and keeps them to make them ready.
LEMMA TakeFrame ==
  ASSUME Inv, NEW c \in Core, NEW taken \in SUBSET Spawned,
         cpc[c] = "run", pc[current[c]] \in {"scan", "kick"},
         \A s \in taken : waitq[s] # none,
         batch' = [batch EXCEPT ![current[c]] = taken],
         waitq' = [s \in Thread |-> IF s \in taken THEN none ELSE waitq[s]],
         pc[current[c]] = "scan" => \E p \in {"batch", "more"} : pc' = [pc EXCEPT ![current[c]] = p],
         pc[current[c]] = "kick" => pc' = [pc EXCEPT ![current[c]] = "kicked"],
         UNCHANGED <<cpuVars, lockVars, runq, timeVars, threadVars, killed,
                     masked, req, sig, wake, reapVars>>
  PROVE  Inv'
<1> DEFINE t == current[c]
<1>1. /\ t \in User \cup Kernel /\ t \in Thread /\ t \notin Core \cup {reaper} /\ batch[t] = {}
      /\ pc[t] = "kick" => state[t] = "DEAD"
  <2>1. /\ pc[t] \notin ReaperPoints \cup {"batch", "more", "kicked"}
        /\ pc[t] = "kick" => pc[t] \in DyingPoints
    BY Zenon DEF DyingPoints, ReaperPoints
  <2>2. /\ t \in User \cup Kernel /\ t \in Thread /\ batch[t] = {}
        /\ pc[t] = "kick" => state[t] = "DEAD"
    BY Zenon, <2>1, Running
  <2> QED BY Zenon, <2>2, DisjointAssumption
<1>2. /\ \A s \in Thread : s # t => pc'[s] = pc[s]
      /\ pc' \in [Thread -> Points]
      /\ pc[t] = "scan" => pc'[t] \in {"batch", "more"}
      /\ pc[t] = "kick" => pc'[t] = "kicked"
      /\ pc'[t] \in {"batch", "more", "kicked"}
  <2>1. PICK p \in {"batch", "more", "kicked"} :
          /\ pc' = [pc EXCEPT ![t] = p]
          /\ pc[t] = "scan" => p # "kicked"
          /\ pc[t] = "kick" => p = "kicked"
    OBVIOUS
  <2> QED BY ZenonT(60), <1>1, <2>1 DEF Inv, TypeOK, Points
<1>3. /\ batch'[t] = taken /\ \A w \in Thread : w # t => batch'[w] = batch[w]
      /\ batch' \in [Thread -> SUBSET Spawned]
      /\ waitq' \in [Thread -> Queue \cup {none}]
      /\ \A s \in Thread : waitq'[s] = IF s \in taken THEN none ELSE waitq[s]
      /\ timed \subseteq Thread /\ User \cup Kernel \cup {reaper} \subseteq Thread
      /\ Spawned \subseteq Thread /\ sleepers \subseteq Thread
      /\ \A d \in Core : current[d] \in Thread
  BY Zenon, <1>1 DEF Inv, TypeOK, Thread, Spawned
<1>4. TypeOK'
  BY Zenon, <1>2, <1>3 DEF Inv, TypeOK
<1>5. CpuInv'
  BY Zenon, CpuFrame DEF Inv
<1>6. StateInv'
  <2>1. \A s \in Thread : /\ pc'[s] \in OutPoints <=> pc[s] \in OutPoints
                          /\ pc'[s] = "new" <=> pc[s] = "new"
                          /\ pc'[s] = "dead" <=> pc[s] = "dead"
                          /\ pc'[s] \in DyingPoints <=> pc[s] \in DyingPoints
                          /\ pc'[s] \in WakerPoints <=> pc[s] \in WakerPoints
    BY Zenon, <1>1, <1>2 DEF OutPoints, DyingPoints, WakerPoints
  <2> QED BY Zenon, <2>1, StatesKept
<1>7. PlaceInv'
  <2>1. /\ \A s \in Thread : InSeq(runq, s) => state[s] = "READY" /\ pc'[s] # "new"
        /\ \A d \in Core : next[d] \in Spawned =>
             state[next[d]] = "READY" /\ pc'[next[d]] # "new" /\ ~InSeq(runq, next[d])
    <3>1. PlaceInv /\ \A s \in Thread : pc'[s] = "new" => pc[s] = "new"
      BY Zenon, <1>2 DEF Inv
    <3> QED BY Zenon, <1>3, <3>1 DEF PlaceInv
  <2>2. \A s \in taken : /\ state[s] = "BLOCKED" /\ s \notin sleepers /\ waitq'[s] = none
                         /\ \A w \in Thread : s \notin batch[w]
    BY ZenonT(60), <1>3 DEF Inv, PlaceInv
  <2>3. /\ \A s \in Thread : waitq'[s] # none =>
             s \in Spawned /\ state[s] = "BLOCKED" /\ s \notin sleepers
        /\ \A s \in sleepers : state[s] = "BLOCKED"
    BY Zenon, <1>3 DEF Inv, PlaceInv
  <2>4. \A w \in Thread : \A s \in batch'[w] :
             state[s] = "BLOCKED" /\ waitq'[s] = none /\ s \notin sleepers
    <3> TAKE w \in Thread
    <3>1. CASE w = t
      BY Zenon, <3>1, <1>3, <2>2
    <3>2. CASE w # t
      <4>1. batch'[w] = batch[w] /\ batch[w] \subseteq Thread
        BY Zenon, <3>2, <1>3 DEF Inv, TypeOK
      <4> QED BY ZenonT(60), <4>1, <1>3 DEF Inv, PlaceInv
    <3> QED BY Zenon, <3>1, <3>2
  <2>5. \A v, w \in Thread : v # w => batch'[v] \cap batch'[w] = {}
    <3> TAKE v, w \in Thread
    <3> HAVE v # w
    <3>1. CASE v = t
      BY Zenon, <3>1, <1>3, <2>2
    <3>2. CASE w = t
      BY Zenon, <3>2, <1>3, <2>2
    <3>3. CASE v # t /\ w # t
      BY ZenonT(60), <3>3, <1>3 DEF Inv, PlaceInv
    <3> QED BY Zenon, <3>1, <3>2, <3>3
  <2>6. \A w \in Thread : batch'[w] # {} => pc'[w] \in {"batch", "more", "kicked"}
    BY Zenon, <1>2, <1>3 DEF Inv, PlaceInv
  <2> QED BY ZenonT(60), <2>1, <2>3, <2>4, <2>5, <2>6 DEF Inv, PlaceInv
<1>8. PointsInv' /\ DeadInv'
  <2>1. PointsInv /\ DeadInv /\ Core \cup User \cup Kernel \cup {reaper} \subseteq Thread
    BY Zenon DEF Inv, Thread
  <2>2. /\ \A d \in Core : pc'[d] = "run"
        /\ \A u \in User : pc'[u] \notin {"critical", "enable", "refused", "reap"}
        /\ \A u \in Kernel : pc'[u] # "reap"
        /\ pc'[reaper] = pc[reaper]
    <3>1. /\ \A d \in Core : d # t /\ d \in Thread
          /\ \A u \in User \cup Kernel : u \in Thread
          /\ reaper \in Thread /\ reaper # t
      BY Zenon, <1>1, <2>1
    <3>2. \A d \in Core : pc'[d] = "run"
      BY Zenon, <1>2, <2>1, <3>1 DEF PointsInv
    <3>3. \A u \in User : pc'[u] \notin {"critical", "enable", "refused", "reap"}
      BY Zenon, <1>2, <2>1, <3>1 DEF PointsInv
    <3>4. \A u \in Kernel : pc'[u] # "reap"
      BY Zenon, <1>2, <2>1, <3>1 DEF PointsInv
    <3> QED BY Zenon, <1>2, <3>1, <3>2, <3>3, <3>4
  <2>3. PointsInv'
    BY Zenon, <2>1, <2>2 DEF PointsInv
  <2>4. DeadInv'
    BY Zenon, <2>1 DEF DeadInv
  <2> QED BY Zenon, <2>3, <2>4
<1>9. WaitInv'
  <2>1. pc'[t] \notin WaitPoints /\ (pc'[t] \in WakerPoints => pc[t] \in WakerPoints)
    BY Zenon, <1>2 DEF WaitPoints, WakerPoints
  <2> QED BY ZenonT(60), <1>1, <1>2, <1>3, <2>1 DEF Inv, WaitInv
<1>10. TimedNodeAlive' /\ KilledNotParked'
  <2>1. t \notin timed
    BY Zenon DEF Inv, TimedNodeAlive
  <2> QED BY Zenon, <1>2, <1>3, <2>1 DEF Inv, TimedNodeAlive, KilledNotParked
<1> QED BY Zenon, <1>4, <1>5, <1>6, <1>7, <1>8, <1>9, <1>10 DEF Inv

\* wake_matching takes a batch.
LEMMA TakeBatchInv ==
  ASSUME Inv, NEW c \in Core, NEW taken \in SUBSET Spawned, TakeBatch(c, taken)
  PROVE  Inv'
<1>1. /\ current[c] \in Thread /\ pc[current[c]] = "scan" /\ cpc[c] = "run"
      /\ current[c] \in User \cup Kernel
  BY Zenon, Running DEF TakeBatch, At, ReaperPoints
<1>2. wake[current[c]].obj # none
  BY ZenonT(60), <1>1, DisjointAssumption DEF Inv, WaitInv, WakerPoints, Obj, Thread
<1>3. \A s \in taken : waitq[s] # none
  BY Zenon, <1>2 DEF TakeBatch, Matching
<1> QED BY Zenon, <1>1, <1>3, TakeFrame DEF TakeBatch, Unlink, Goto

\* reaper_kick takes the reaper off its queue.
LEMMA ReaperKickInv ==
  ASSUME Inv, NEW c \in Core, ReaperKick(c)
  PROVE  Inv'
<1> DEFINE parked == {s \in Spawned : waitq[s] = reaper}
<1>1. reaper # none
  BY Zenon, DisjointAssumption DEF Thread
<1>2. parked \in SUBSET Spawned /\ \A s \in parked : waitq[s] # none
  BY Zenon, <1>1
<1> QED BY Zenon, <1>2, TakeFrame DEF ReaperKick, Unlink, At, Goto

----------------------------------------------------------------------------
(* Waking, kill and reaping.                                               *)

\* reaper_main pops a zombie or goes to park.
LEMMA ReaperPopInv ==
  ASSUME Inv, NEW c \in Core, ReaperPop(c)
  PROVE  Inv'
<1>1. /\ current[c] = reaper /\ pc[reaper] = "run" /\ cpc[c] = "run" /\ reaper \in Thread
      /\ state[reaper] = "RUNNING" /\ batch[reaper] = {} /\ reaper \notin User \cup Kernel \cup Core
      /\ corpse = none
  <2>1. current[c] = reaper /\ pc[reaper] = "run" /\ cpc[c] = "run"
    BY Zenon DEF ReaperPop, At
  <2> QED BY Zenon, <2>1, Running, DisjointAssumption
          DEF Inv, PointsInv, Thread, OutPoints, DyingPoints, WakerPoints
<1>2. /\ pc'[reaper] \in {"block", "reap"}
      /\ \A s \in Thread : s # reaper => pc'[s] = pc[s] /\ req'[s] = req[s]
      /\ req' \in [Thread -> [obj : Queue \cup {none}, mask : SUBSET Bits, timed : BOOLEAN]]
      /\ pc'[reaper] = "block" => req'[reaper].obj = reaper /\ corpse' = none
      /\ pc' \in [Thread -> Points]
  <2>1. CASE zombies = <<>>
    <3>1. /\ pc' = [pc EXCEPT ![reaper] = "block"] /\ corpse' = corpse
          /\ req' = [req EXCEPT ![reaper] = [obj |-> reaper, mask |-> {}, timed |-> FALSE]]
      BY Zenon, <2>1 DEF ReaperPop, Goto
    <3>2. req' \in [Thread -> [obj : Queue \cup {none}, mask : SUBSET Bits, timed : BOOLEAN]]
      BY Zenon, <3>1 DEF Inv, TypeOK, Queue
    <3>3. pc \in [Thread -> Points] /\ req \in [Thread -> [obj : Queue \cup {none}, mask : SUBSET Bits, timed : BOOLEAN]]
      BY Zenon DEF Inv, TypeOK
    <3>4. /\ pc'[reaper] = "block" /\ pc' \in [Thread -> Points]
          /\ \A s \in Thread : s # reaper => pc'[s] = pc[s]
      BY Zenon, <1>1, <3>1, <3>3 DEF Points
    <3>5. /\ req'[reaper] = [obj |-> reaper, mask |-> {}, timed |-> FALSE]
          /\ \A s \in Thread : s # reaper => req'[s] = req[s]
      BY Zenon, <1>1, <3>1, <3>3
    <3>6. req'[reaper].obj = reaper
      BY SMTT(60), <3>5
    <3> QED BY Zenon, <1>1, <3>1, <3>2, <3>4, <3>5, <3>6
  <2>2. CASE zombies # <<>>
    <3>1. pc' = [pc EXCEPT ![reaper] = "reap"] /\ req' = req
      BY Zenon, <2>2 DEF ReaperPop, Goto
    <3> QED BY Zenon, <1>1, <3>1 DEF Inv, TypeOK, Points
  <2> QED BY Zenon, <2>1, <2>2
<1>3. /\ zombies' \in Seq(User \cup Kernel)
      /\ \A s \in Thread : InSeq(zombies', s) => InSeq(zombies, s)
      /\ pc'[reaper] = "reap" => corpse' \in User \cup Kernel /\ InSeq(zombies, corpse')
  <2>1. CASE zombies = <<>>
    BY Zenon, <2>1, <1>1 DEF Inv, TypeOK, ReaperPop, Goto
  <2>2. CASE zombies # <<>>
    <3>1. /\ zombies \in Seq(User \cup Kernel) /\ zombies' = Tail(zombies)
          /\ corpse' = Head(zombies)
      BY Zenon, <2>2 DEF Inv, TypeOK, ReaperPop
    <3>2. /\ Tail(zombies) \in Seq(User \cup Kernel) /\ Len(Tail(zombies)) = Len(zombies) - 1
          /\ \A i \in 1..Len(Tail(zombies)) : Tail(zombies)[i] = zombies[i + 1]
          /\ Head(zombies) = zombies[1] /\ Head(zombies) \in User \cup Kernel
          /\ Len(zombies) \in Nat /\ Len(zombies) > 0
      BY SMTT(60), <2>2, <3>1
    <3>3. InSeq(zombies, corpse')
      BY SMTT(60), <3>1, <3>2 DEF InSeq
    <3>4. \A i \in 1..Len(zombies') : i + 1 \in 1..Len(zombies) /\ zombies'[i] = zombies[i + 1]
      BY SMTT(60), <3>1, <3>2
    <3> QED BY Zenon, <3>1, <3>2, <3>3, <3>4 DEF InSeq
  <2> QED BY Zenon, <2>1, <2>2
<1>4. TypeOK'
  <2>1. corpse' \in User \cup Kernel \cup {none}
    BY Zenon, <1>2, <1>3
  <2> QED BY Zenon, <1>2, <1>3, <2>1 DEF Inv, TypeOK, ReaperPop
<1>5. CpuInv' /\ StateInv' /\ PlaceInv'
  BY Zenon, <1>1, <1>2, PcMove DEF ReaperPop, OutPoints, DyingPoints
<1>6. PointsInv'
  <2>1. corpse' # none <=> pc'[reaper] = "reap"
    BY Zenon, <1>2, <1>3, DisjointAssumption DEF Thread
  <2>2. killed' = killed
    BY Zenon DEF ReaperPop
  <2>3. PointsInv /\ Core \cup User \cup Kernel \subseteq Thread
    BY Zenon DEF Inv, Thread
  <2>4. /\ \A d \in Core : pc'[d] = "run"
        /\ \A u \in User : pc'[u] \notin {"critical", "enable", "refused", "reap"}
        /\ \A u \in Kernel : pc'[u] # "reap"
    BY Zenon, <1>1, <1>2, <2>3 DEF PointsInv
  <2> QED BY Zenon, <1>2, <2>1, <2>2, <2>3, <2>4 DEF PointsInv, ReaperPoints
<1>7. DeadInv'
  <2>1. UNCHANGED <<state, on_cpu, reaped>>
    BY Zenon DEF ReaperPop
  <2>2. corpse' # none => state[corpse'] = "DEAD"
    BY Zenon, <1>2, <1>3 DEF Inv, DeadInv, Thread
  <2> QED BY Zenon, <1>3, <2>1, <2>2 DEF Inv, DeadInv
<1>8. WaitInv' /\ TimedNodeAlive' /\ KilledNotParked'
  <2>1. timed \subseteq User \cup Kernel /\ User \cup Kernel \subseteq Thread
        /\ UNCHANGED <<timed, wake, waitq, sleepers, killed>>
    BY Zenon DEF Inv, TypeOK, Thread, ReaperPop
  <2>2. WaitInv'
    <3>1. WaitInv /\ pc'[reaper] \notin WakerPoints /\ (pc'[reaper] \in WaitPoints => pc'[reaper] = "block")
      BY Zenon, <1>2 DEF Inv, WaitPoints, WakerPoints
    <3>2. \A u \in User \cup Kernel : pc'[u] = pc[u] /\ req'[u] = req[u]
      BY Zenon, <1>1, <1>2, <2>1
    <3> QED BY Zenon, <1>2, <2>1, <3>1, <3>2 DEF WaitInv
  <2> QED BY Zenon, <1>1, <1>2, <2>1, <2>2 DEF Inv, TimedNodeAlive, KilledNotParked
<1> QED BY Zenon, <1>4, <1>5, <1>6, <1>7, <1>8 DEF Inv

\* reap frees the corpse.
LEMMA ReapInv ==
  ASSUME Inv, NEW c \in Core, Reap(c)
  PROVE  Inv'
<1>1. /\ current[c] = reaper /\ pc[reaper] = "reap" /\ cpc[c] = "run" /\ reaper \in Thread
      /\ state[reaper] = "RUNNING" /\ batch[reaper] = {} /\ reaper \notin User \cup Kernel \cup Core
      /\ corpse # none
  <2>1. current[c] \in Thread /\ pc[current[c]] = "reap" /\ cpc[c] = "run"
    BY Zenon DEF Inv, TypeOK, Reap, At
  <2>2. current[c] = reaper
    BY Zenon, <2>1 DEF Inv, PointsInv, Thread
  <2> QED BY Zenon, <2>1, <2>2, Running, DisjointAssumption
          DEF Inv, PointsInv, Thread, OutPoints, DyingPoints, WakerPoints
<1>2. /\ pc'[reaper] = "run" /\ corpse' = none
      /\ \A s \in Thread : s # reaper => pc'[s] = pc[s]
      /\ pc' \in [Thread -> Points]
      /\ reaped' = reaped \cup {corpse} /\ corpse \in User \cup Kernel /\ ~on_cpu[corpse]
  BY Zenon, <1>1 DEF Inv, TypeOK, Reap, LastSwitchDone, Goto, Points
<1>3. TypeOK'
  BY Zenon, <1>2 DEF Inv, TypeOK, Reap
<1>4. CpuInv' /\ StateInv' /\ PlaceInv'
  BY Zenon, <1>1, <1>2, PcMove DEF Reap, OutPoints, DyingPoints
<1>5. PointsInv'
  <2>1. killed' = killed
    BY Zenon DEF Reap
  <2> QED BY Zenon, <1>1, <1>2, <2>1 DEF Inv, PointsInv, ReaperPoints, Thread
<1>6. DeadInv'
  <2>1. UNCHANGED <<state, on_cpu, zombies>>
    BY Zenon DEF Reap
  <2> QED BY Zenon, <1>1, <1>2, <2>1 DEF Inv, DeadInv
<1>7. WaitInv' /\ TimedNodeAlive' /\ KilledNotParked'
  <2>1. timed \subseteq User \cup Kernel /\ User \cup Kernel \subseteq Thread
        /\ UNCHANGED <<timed, wake, waitq, sleepers, killed, req>>
    BY Zenon DEF Inv, TypeOK, Thread, Reap
  <2>2. WaitInv'
    BY Zenon, <1>1, <1>2, <2>1 DEF Inv, WaitInv, WaitPoints, WakerPoints
  <2> QED BY Zenon, <1>1, <1>2, <2>1, <2>2 DEF Inv, TimedNodeAlive, KilledNotParked
<1> QED BY Zenon, <1>3, <1>4, <1>5, <1>6, <1>7 DEF Inv

\* A parked thread is made ready: it leaves the list or the hands that held it and
\* joins the run queue.  The thread that does it may return from its call.
Readied(s) ==
    /\ state[s] = "BLOCKED" /\ MakeReady(s)
    /\ waitq'[s] = none /\ s \notin sleepers' /\ \A w \in Thread : s \notin batch'[w]
    /\ \A u \in Thread : u # s => waitq'[u] = waitq[u]
    /\ sleepers' \subseteq sleepers
    /\ \A w \in Thread : batch'[w] \subseteq batch[w]
    /\ \A u \in Thread : \/ pc'[u] = pc[u]
                         \/ pc[u] = "run" /\ pc'[u] = "boundary" /\ state[u] = "RUNNING"
    /\ UNCHANGED <<current, next, outgoing, cpc, on_cpu, zombies, corpse, reaped>>

\* MakeReady keeps what the lists, the states and the cores have to do with one another.
LEMMA ReadyFrame ==
  ASSUME Inv, NEW s \in Spawned, Readied(s)
  PROVE  CpuInv' /\ StateInv' /\ PlaceInv' /\ DeadInv'
<1>1. /\ s \in Thread /\ state[s] = "BLOCKED" /\ state'[s] = "READY"
      /\ \A u \in Thread : u # s => state'[u] = state[u]
      /\ Spawned \subseteq Thread /\ runq \in Seq(Spawned) /\ runq' = Append(runq, s)
  BY Zenon DEF Inv, TypeOK, MakeReady, Thread, Spawned, Readied
<1>2. \A u \in Thread : /\ pc'[u] \in OutPoints <=> pc[u] \in OutPoints
                        /\ pc'[u] \in DyingPoints <=> pc[u] \in DyingPoints
                        /\ pc'[u] = "dead" <=> pc[u] = "dead"
                        /\ pc'[u] = "new" <=> pc[u] = "new"
                        /\ pc[u] \in WakerPoints => pc'[u] \in WakerPoints
                        /\ pc[u] \in {"batch", "more", "kicked"} => pc'[u] = pc[u]
  BY Zenon DEF OutPoints, DyingPoints, WakerPoints, Readied
<1>3. CpuInv /\ StateInv /\ PlaceInv /\ DeadInv
  BY Zenon DEF Inv
<1>4. /\ \A d \in Core : current[d] \in Thread /\ next[d] \in Thread \cup {none}
      /\ UNCHANGED <<current, next, outgoing, cpc, on_cpu, zombies, corpse, reaped>>
  BY Zenon DEF Inv, TypeOK, Readied, Thread
<1>5. /\ ~InSeq(runq, s) /\ \A d \in Core : next[d] # s
      /\ pc[s] # "new" /\ pc[s] \notin DyingPoints
  <2>1. ~InSeq(runq, s) /\ \A d \in Core : next[d] # s
    BY Zenon, <1>1, <1>3 DEF PlaceInv
  <2>2. pc[s] # "new" /\ pc[s] \notin DyingPoints
    BY Zenon, <1>1, <1>3 DEF StateInv
  <2> QED BY Zenon, <2>1, <2>2
<1>6. CpuInv'
  BY ZenonT(60), <1>3, <1>4 DEF CpuInv
<1>7. StateInv'
  <2>1. \A d \in Core : cpc[d] \in InterruptPoints => state'[current[d]] = "RUNNING"
    <3> TAKE d \in Core
    <3> HAVE cpc[d] \in InterruptPoints
    <3>1. state[current[d]] = "RUNNING" /\ current[d] \in Thread
      BY Zenon, <1>3, <1>4 DEF StateInv
    <3> QED BY Zenon, <1>1, <3>1
  <2>2. \A d \in Core : cpc[d] \in {"run", "finish"} /\ pc'[current[d]] \notin OutPoints
                              => state'[current[d]] \in {"RUNNING", "DEAD"}
    <3> TAKE d \in Core
    <3> HAVE cpc[d] \in {"run", "finish"} /\ pc'[current[d]] \notin OutPoints
    <3>1. current[d] \in Thread /\ pc[current[d]] \notin OutPoints
      BY Zenon, <1>2, <1>4
    <3>2. state[current[d]] \in {"RUNNING", "DEAD"}
      BY Zenon, <1>3, <3>1 DEF StateInv
    <3> QED BY Zenon, <1>1, <3>1, <3>2
  <2>3. \A u \in Thread : /\ pc'[u] \in OutPoints => state'[u] \in {"BLOCKED", "READY"}
                          /\ pc'[u] \in DyingPoints => state'[u] = "DEAD"
                          /\ pc'[u] = "new" => state'[u] = "READY" /\ ~on_cpu[u]
    <3> TAKE u \in Thread
    <3>1. /\ pc[u] \in OutPoints => state[u] \in {"BLOCKED", "READY"}
          /\ pc[u] \in DyingPoints => state[u] = "DEAD"
          /\ pc[u] = "new" => state[u] = "READY" /\ ~on_cpu[u]
      BY Zenon, <1>3 DEF StateInv
    <3>2. CASE u = s
      BY Zenon, <3>2, <1>1, <1>2, <1>5
    <3>3. CASE u # s
      BY Zenon, <3>1, <3>3, <1>1, <1>2
    <3> QED BY Zenon, <3>2, <3>3
  <2>4. \A u \in Thread : state'[u] = "DEAD" => state[u] = "DEAD"
    BY Zenon, <1>1
  <2>5. \A u \in Thread : state'[u] = "DEAD" => pc'[u] \in DyingPoints \cup WakerPoints
    BY Zenon, <1>2, <1>3, <2>4 DEF StateInv
  <2>6. \A u \in Thread : pc'[u] \in OutPoints \cup (DyingPoints \ {"dead"})
                         \/ (state'[u] = "DEAD" /\ pc'[u] # "dead") =>
          \E d \in Core : current[d] = u /\ cpc[d] = "run"
    BY Zenon, <1>2, <1>3, <2>4 DEF StateInv
  <2> QED BY ZenonT(60), <1>4, <2>1, <2>2, <2>3, <2>5, <2>6 DEF StateInv
<1>8. PlaceInv'
  <2>1. /\ Distinct(runq')
        /\ \A u : InSeq(runq', u) <=> InSeq(runq, u) \/ u = s
    <3>1. Distinct(runq)
      BY Zenon, <1>3 DEF PlaceInv
    <3> QED BY Zenon, <1>1, <1>5, <3>1, EnqueueFacts
  <2>2. \A u \in Thread : InSeq(runq', u) => state'[u] = "READY" /\ pc'[u] # "new"
    <3> TAKE u \in Thread
    <3>1. CASE u = s
      BY Zenon, <3>1, <1>1, <1>2, <1>5
    <3>2. CASE u # s
      <4>1. InSeq(runq, u) => state[u] = "READY" /\ pc[u] # "new"
        BY Zenon, <1>3 DEF PlaceInv
      <4> QED BY Zenon, <3>2, <4>1, <1>1, <1>2, <2>1
    <3> QED BY Zenon, <3>1, <3>2
  <2>3. \A d \in Core : next[d] \in Spawned =>
          state'[next[d]] = "READY" /\ pc'[next[d]] # "new" /\ ~InSeq(runq', next[d])
    <3> TAKE d \in Core
    <3> HAVE next[d] \in Spawned
    <3>1. /\ next[d] \in Thread /\ next[d] # s
          /\ state[next[d]] = "READY" /\ pc[next[d]] # "new" /\ ~InSeq(runq, next[d])
      BY Zenon, <1>1, <1>3, <1>5 DEF PlaceInv
    <3> QED BY Zenon, <3>1, <1>1, <1>2, <2>1
  <2>4. /\ waitq'[s] = none /\ s \notin sleepers' /\ \A w \in Thread : s \notin batch'[w]
        /\ \A u \in Thread : u # s => waitq'[u] = waitq[u]
        /\ sleepers' \subseteq sleepers /\ sleepers \subseteq Thread
        /\ \A w \in Thread : batch'[w] \subseteq batch[w] /\ batch[w] \subseteq Thread
    <3>1. sleepers \subseteq Thread /\ \A w \in Thread : batch[w] \subseteq Thread
      BY ZenonT(60), <1>1 DEF Inv, TypeOK, Spawned
    <3> QED BY Zenon, <3>1 DEF Readied
  <2>5. \A u \in Thread : waitq'[u] # none =>
          u \in Spawned /\ state'[u] = "BLOCKED" /\ u \notin sleepers'
    <3> TAKE u \in Thread
    <3> HAVE waitq'[u] # none
    <3>1. u # s /\ waitq[u] # none
      BY Zenon, <2>4
    <3>2. u \in Spawned /\ state[u] = "BLOCKED" /\ u \notin sleepers
      BY Zenon, <1>3, <3>1 DEF PlaceInv
    <3> QED BY Zenon, <1>1, <2>4, <3>1, <3>2
  <2>6. \A u \in sleepers' : state'[u] = "BLOCKED"
    <3> TAKE u \in sleepers'
    <3>1. u # s /\ u \in Thread /\ u \in sleepers
      BY Zenon, <2>4
    <3>2. state[u] = "BLOCKED"
      BY Zenon, <1>3, <3>1 DEF PlaceInv
    <3> QED BY Zenon, <1>1, <3>1, <3>2
  <2>7. \A w \in Thread : \A u \in batch'[w] :
          state'[u] = "BLOCKED" /\ waitq'[u] = none /\ u \notin sleepers'
    <3> TAKE w \in Thread
    <3> TAKE u \in batch'[w]
    <3>1. u # s /\ u \in Thread /\ u \in batch[w]
      BY Zenon, <2>4
    <3>2. state[u] = "BLOCKED" /\ waitq[u] = none /\ u \notin sleepers
      BY Zenon, <1>3, <3>1 DEF PlaceInv
    <3> QED BY Zenon, <1>1, <2>4, <3>1, <3>2
  <2>8. /\ \A v, w \in Thread : v # w => batch'[v] \cap batch'[w] = {}
        /\ \A w \in Thread : batch'[w] # {} => pc'[w] \in {"batch", "more", "kicked"}
    BY ZenonT(60), <1>2, <1>3, <2>4 DEF PlaceInv
  <2> QED BY Zenon, <1>4, <2>1, <2>2, <2>3, <2>5, <2>6, <2>7, <2>8 DEF PlaceInv
<1>9. DeadInv'
  <2>1. reaped \subseteq Thread /\ corpse \in Thread \cup {none}
    BY Zenon DEF Inv, TypeOK, Thread
  <2> QED BY Zenon, <1>1, <1>3, <1>4, <2>1 DEF DeadInv
<1> QED BY Zenon, <1>6, <1>7, <1>8, <1>9

\* wake_due_sleepers.
LEMMA VisitSleeperInv ==
  ASSUME Inv, NEW c \in Core, NEW s \in scan, VisitSleeper(c, s)
  PROVE  Inv'
<1>1. s \in Spawned /\ s \in Thread /\ state[s] = "BLOCKED"
  BY Zenon DEF Inv, TypeOK, PlaceInv, VisitSleeper, Spawned, Thread
<1>2. CASE timer[s] = 0
  <2>1. MakeReady(s) /\ sleepers' = sleepers \ {s}
        /\ UNCHANGED <<cpuVars, timed, timer, on_cpu, pc, waitVars, reapVars, killed>>
    BY Zenon, <1>2 DEF VisitSleeper
  <2>2. waitq[s] = none /\ \A w \in Thread : s \notin batch[w]
    BY Zenon, <1>1 DEF Inv, PlaceInv, VisitSleeper
  <2>3. CpuInv' /\ StateInv' /\ PlaceInv' /\ DeadInv'
    BY Zenon, <1>1, <2>1, <2>2, ReadyFrame DEF Readied, cpuVars, reapVars, threadVars, waitVars
  <2>4. TypeOK'
    <3>1. runq' \in Seq(Spawned)
      BY Zenon, <1>1, <2>1, AppendFacts DEF Inv, TypeOK, MakeReady
    <3>2. state' \in [Thread -> {"READY", "RUNNING", "BLOCKED", "DEAD"}]
      BY Zenon, <2>1 DEF Inv, TypeOK, MakeReady
    <3> QED BY Zenon, <2>1, <3>1, <3>2 DEF Inv, TypeOK, VisitSleeper
  <2>5. PointsInv' /\ WaitInv' /\ TimedNodeAlive' /\ KilledNotParked'
    BY Zenon, <2>1 DEF Inv, PointsInv, WaitInv, TimedNodeAlive, KilledNotParked
  <2> QED BY Zenon, <2>3, <2>4, <2>5 DEF Inv
<1>3. CASE timer[s] # 0
  <2>1. UNCHANGED <<cpuVars, runq, timeVars, threadVars, killed, pc, masked, lock, waitVars, reapVars>>
    BY Zenon, <1>3 DEF VisitSleeper
  <2>2. TypeOK'
    BY Zenon, <2>1 DEF Inv, TypeOK, VisitSleeper
  <2>3. CpuInv' /\ StateInv' /\ PlaceInv'
    BY Zenon, <2>1, StillFrame
  <2>4. PointsInv' /\ DeadInv' /\ WaitInv' /\ TimedNodeAlive' /\ KilledNotParked'
    BY Zenon, <2>1, RestFrame
  <2> QED BY Zenon, <2>2, <2>3, <2>4 DEF Inv
<1> QED BY Zenon, <1>2, <1>3

\* wake_due_timed_waits.
LEMMA VisitTimedWaitInv ==
  ASSUME Inv, NEW c \in Core, NEW s \in scan, VisitTimedWait(c, s)
  PROVE  Inv'
<1>1. s \in Spawned /\ s \in Thread
  BY Zenon DEF Inv, TypeOK, VisitTimedWait, Spawned, Thread
<1>2. CASE timer[s] = 0 /\ waitq[s] # none
  <2>1. /\ MakeReady(s) /\ waitq' = [waitq EXCEPT ![s] = none] /\ timed' = timed \ {s}
        /\ UNCHANGED <<cpuVars, sleepers, timer, on_cpu, pc, req, sig, wake, batch, reapVars, killed>>
    BY Zenon, <1>2 DEF VisitTimedWait, Claims
  <2>2. /\ state[s] = "BLOCKED" /\ s \notin sleepers
        /\ \A w \in Thread : s \notin batch[w]
        /\ waitq'[s] = none /\ \A u \in Thread : u # s => waitq'[u] = waitq[u]
    BY ZenonT(60), <1>1, <1>2, <2>1 DEF Inv, TypeOK, PlaceInv
  <2>3. CpuInv' /\ StateInv' /\ PlaceInv' /\ DeadInv'
    BY Zenon, <1>1, <2>1, <2>2, ReadyFrame DEF Readied, cpuVars, reapVars, threadVars, waitVars
  <2>4. TypeOK'
    <3>1. runq' \in Seq(Spawned)
      BY Zenon, <1>1, <2>1, AppendFacts DEF Inv, TypeOK, MakeReady
    <3>2. /\ state' \in [Thread -> {"READY", "RUNNING", "BLOCKED", "DEAD"}]
          /\ waitq' \in [Thread -> Queue \cup {none}]
      BY Zenon, <2>1 DEF Inv, TypeOK, MakeReady
    <3> QED BY Zenon, <2>1, <3>1, <3>2 DEF Inv, TypeOK, VisitTimedWait
  <2>5. PointsInv' /\ WaitInv' /\ TimedNodeAlive'
    BY Zenon, <2>1 DEF Inv, PointsInv, WaitInv, TimedNodeAlive
  <2>6. KilledNotParked'
    BY Zenon, <2>1, <2>2 DEF Inv, KilledNotParked, Thread
  <2> QED BY Zenon, <2>3, <2>4, <2>5, <2>6 DEF Inv
<1>3. CASE ~(timer[s] = 0 /\ waitq[s] # none)
  <2>1. UNCHANGED <<cpuVars, runq, timeVars, threadVars, killed, pc, masked, lock, waitVars, reapVars>>
    BY Zenon, <1>3 DEF VisitTimedWait, Claims
  <2>2. TypeOK'
    BY Zenon, <2>1 DEF Inv, TypeOK, VisitTimedWait
  <2>3. CpuInv' /\ StateInv' /\ PlaceInv'
    BY Zenon, <2>1, StillFrame
  <2>4. PointsInv' /\ DeadInv' /\ WaitInv' /\ TimedNodeAlive' /\ KilledNotParked'
    BY Zenon, <2>1, RestFrame
  <2> QED BY Zenon, <2>2, <2>3, <2>4 DEF Inv
<1> QED BY Zenon, <1>2, <1>3

\* wake_matching and wake_one make a taken thread ready.
LEMMA WakeTakenInv ==
  ASSUME Inv, NEW c \in Core, NEW s \in batch[current[c]], WakeTaken(c, s)
  PROVE  Inv'
<1> DEFINE t == current[c]
<1>1. t \in Thread /\ s \in Spawned /\ s \in Thread
  BY Zenon DEF Inv, TypeOK, Spawned, Thread
<1>2. /\ batch' \in [Thread -> SUBSET Spawned] /\ batch'[t] = batch[t] \ {s}
      /\ \A w \in Thread : w # t => batch'[w] = batch[w]
  BY Zenon, <1>1 DEF Inv, TypeOK, WakeTaken
<1>3. /\ state[s] = "BLOCKED" /\ waitq[s] = none /\ s \notin sleepers
      /\ \A w \in Thread : s \notin batch'[w]
  BY Zenon, <1>1, <1>2 DEF Inv, PlaceInv
<1>4. CpuInv' /\ StateInv' /\ PlaceInv' /\ DeadInv'
  BY Zenon, <1>1, <1>2, <1>3, ReadyFrame DEF WakeTaken, Readied, cpuVars, reapVars, threadVars, waitVars
<1>5. TypeOK'
  <2>1. runq' \in Seq(Spawned)
    BY Zenon, <1>1, AppendFacts DEF Inv, TypeOK, MakeReady, WakeTaken
  <2>2. state' \in [Thread -> {"READY", "RUNNING", "BLOCKED", "DEAD"}]
    BY Zenon DEF Inv, TypeOK, MakeReady, WakeTaken
  <2> QED BY Zenon, <1>2, <2>1, <2>2 DEF Inv, TypeOK, WakeTaken
<1>6. PointsInv' /\ WaitInv' /\ TimedNodeAlive' /\ KilledNotParked'
  BY Zenon DEF Inv, PointsInv, WaitInv, TimedNodeAlive, KilledNotParked, WakeTaken
<1> QED BY Zenon, <1>4, <1>5, <1>6 DEF Inv

\* task_kill's scan.
LEMMA KillInv ==
  ASSUME Inv, NEW c \in Core, NEW v \in User, Kill(c, v)
  PROVE  Inv'
<1> DEFINE t == current[c]
<1>1. /\ t \in User \cup Kernel /\ t \in Thread /\ t \notin Core \cup {reaper}
      /\ pc[t] = "run" /\ cpc[c] = "run" /\ state[t] = "RUNNING"
      /\ batch[t] = {} /\ v \in Thread /\ v \in Spawned
      /\ pc' = [pc EXCEPT ![t] = Return(t)] /\ killed' = [killed EXCEPT ![v] = TRUE]
  BY Zenon, Running, DisjointAssumption DEF Kill, At, Goto, May, Thread, Spawned, OutPoints, DyingPoints, WakerPoints
<1>2. /\ \A s \in Thread : s # t => pc'[s] = pc[s]
      /\ pc'[t] \in {"run", "boundary"} /\ (pc'[t] = "boundary" => t \in User)
      /\ pc' \in [Thread -> Points] /\ killed' \in [Thread -> BOOLEAN]
      /\ killed'[v] /\ \A s \in Thread : s # v => killed'[s] = killed[s]
  BY Zenon, <1>1 DEF Inv, TypeOK, Return, Points
<1>3. PointsInv'
  <2>1. UNCHANGED <<corpse, reaped>> /\ reaper \in Thread /\ Core \cup User \cup Kernel \subseteq Thread
    BY Zenon DEF Kill, Thread, reapVars
  <2>2. PointsInv
    BY Zenon DEF Inv
  <2>3. /\ \A d \in Core : pc'[d] = "run"
        /\ pc'[reaper] = pc[reaper]
    BY Zenon, <1>1, <1>2, <2>1, <2>2 DEF PointsInv
  <2>4. /\ \A u \in User : pc'[u] \notin {"critical", "enable", "refused", "reap"}
        /\ \A u \in Kernel : pc'[u] # "reap"
    BY Zenon, <1>2, <2>1, <2>2 DEF PointsInv
  <2>5. \A u \in Thread : killed'[u] => u \in User
    BY ZenonT(60), <1>1, <1>2, <2>2 DEF PointsInv
  <2> QED BY Zenon, <2>1, <2>2, <2>3, <2>4, <2>5 DEF PointsInv
<1>4. WaitInv' /\ TimedNodeAlive'
  <2>1. UNCHANGED <<req, wake, timed>> /\ timed \subseteq Thread /\ User \cup Kernel \subseteq Thread
    BY Zenon DEF Inv, TypeOK, Kill, Thread
  <2>2. t \notin timed
    BY Zenon, <1>1 DEF Inv, TimedNodeAlive
  <2>3. \A u \in Thread : pc'[u] \in WaitPoints \cup WakerPoints => pc'[u] = pc[u]
    BY Zenon, <1>2 DEF WaitPoints, WakerPoints
  <2>4. WaitInv /\ TimedNodeAlive /\ reaper \in Thread
    BY Zenon DEF Inv, Thread
  <2>5. WaitInv'
    BY Zenon, <2>1, <2>3, <2>4 DEF WaitInv
  <2> QED BY Zenon, <1>2, <2>1, <2>2, <2>4, <2>5 DEF TimedNodeAlive
<1>5. CASE waitq[v] # none \/ v \in sleepers
  <2>1. /\ waitq' = [waitq EXCEPT ![v] = none] /\ sleepers' = sleepers \ {v} /\ MakeReady(v)
        /\ UNCHANGED <<cpuVars, on_cpu, batch, reapVars>>
    BY Zenon, <1>5 DEF Kill
  <2>2. /\ state[v] = "BLOCKED" /\ waitq'[v] = none
        /\ \A w \in Thread : v \notin batch[w]
        /\ \A u \in Thread : u # v => waitq'[u] = waitq[u]
        /\ waitq' \in [Thread -> Queue \cup {none}]
    <3>1. PlaceInv /\ waitq \in [Thread -> Queue \cup {none}]
      BY Zenon DEF Inv, TypeOK
    <3>2. state[v] = "BLOCKED" /\ \A w \in Thread : v \notin batch[w]
      BY Zenon, <1>1, <1>5, <3>1 DEF PlaceInv
    <3> QED BY Zenon, <1>1, <2>1, <3>1, <3>2
  <2>3. CpuInv' /\ StateInv' /\ PlaceInv' /\ DeadInv'
    <3>1. \A u \in Thread : \/ pc'[u] = pc[u]
                            \/ pc[u] = "run" /\ pc'[u] = "boundary" /\ state[u] = "RUNNING"
      BY ZenonT(60), <1>1, <1>2
    <3> QED BY Zenon, <1>1, <2>1, <2>2, <3>1, ReadyFrame DEF Readied, cpuVars, reapVars, threadVars, waitVars
  <2>4. TypeOK'
    <3>1. runq' \in Seq(Spawned)
      BY Zenon, <1>1, <2>1, AppendFacts DEF Inv, TypeOK, MakeReady
    <3>2. state' \in [Thread -> {"READY", "RUNNING", "BLOCKED", "DEAD"}]
      BY Zenon, <2>1 DEF Inv, TypeOK, MakeReady
    <3>3. sleepers' \subseteq User \cup Kernel
      BY Zenon, <2>1 DEF Inv, TypeOK
    <3>4. UNCHANGED <<cpuVars, lockVars, timed, timer, on_cpu, slice, masked, req,
                      sig, wake, batch, reapVars>>
      BY Zenon DEF Kill
    <3> QED BY ZenonT(60), <1>2, <2>2, <3>1, <3>2, <3>3, <3>4 DEF Inv, TypeOK
  <2>5. KilledNotParked'
    BY Zenon, <1>2, <2>1, <2>2 DEF Inv, KilledNotParked, Thread
  <2> QED BY Zenon, <1>3, <1>4, <2>3, <2>4, <2>5 DEF Inv
<1>6. CASE waitq[v] = none /\ v \notin sleepers
  <2>1. UNCHANGED <<cpuVars, runq, threadVars, waitVars, sleepers, reapVars>>
    BY Zenon, <1>6 DEF Kill
  <2>2. CpuInv' /\ StateInv' /\ PlaceInv'
    <3>1. /\ cpc' = cpc /\ cpc[c] \in {"run", "service"}
          /\ UNCHANGED <<current, next, outgoing, runq, state, on_cpu, sleepers, waitq, batch>>
      BY Zenon, <1>1, <2>1 DEF cpuVars, threadVars, waitVars
    <3>2. /\ pc[t] \notin OutPoints /\ pc'[t] \notin OutPoints \cup {"new", "dead"}
          /\ pc'[t] \notin DyingPoints /\ state[t] # "DEAD"
      BY Zenon, <1>1, <1>2 DEF OutPoints, DyingPoints
    <3> QED BY ZenonT(60), <1>1, <1>2, <3>1, <3>2, PcMove
  <2>3. TypeOK'
    BY ZenonT(60), <1>2, <2>1 DEF Inv, TypeOK, Kill
  <2>4. DeadInv'
    BY Zenon, <2>1 DEF Inv, DeadInv
  <2>5. KilledNotParked'
    BY Zenon, <1>2, <1>6, <2>1 DEF Inv, KilledNotParked, Thread
  <2> QED BY Zenon, <1>3, <1>4, <2>2, <2>3, <2>4, <2>5 DEF Inv
<1> QED BY Zenon, <1>5, <1>6
=============================================================================
