------------------------------ MODULE SchedInv ------------------------------
(***************************************************************************)
(* The inductive invariant behind the safety properties of Sched: what the *)
(* point a core and a thread have reached says about the thread's state,   *)
(* and why no two lists can hold the same thread.                          *)
(***************************************************************************)
EXTENDS Sched

InSeq(q, t) == \E i \in 1..Len(q) : q[i] = t
Distinct(q) == \A i, j \in 1..Len(q) : q[i] = q[j] => i = j

OutPoints == {"block_out", "sleep_out"}
DyingPoints == {"terminated", "kick", "kicked", "exit_out", "dead"}
WakerPoints == {"load", "scan", "batch", "more"}
InterruptPoints == {"tick", "scan", "service"}
ReaperPoints == {"run", "block", "refused", "block_out", "woke", "reap"}

\* Each kind of thread runs its own code only (reaper_main, idle_loop, user code),
\* and only threads of user tasks are killed.
PointsInv ==
    /\ \A c \in Core : pc[c] = "run"
    /\ pc[reaper] \in ReaperPoints
    /\ \A t \in User : pc[t] \notin {"critical", "enable", "refused", "reap"}
    /\ \A t \in Kernel : pc[t] # "reap"
    /\ pc[reaper] = "reap" <=> corpse # none
    /\ \A t \in Thread : killed[t] => t \in User

\* What a core holds, and that on_cpu says exactly which contexts are in use.
CpuInv ==
    /\ \A c \in Core :
          /\ on_cpu[current[c]]
          /\ outgoing[c] # none <=> cpc[c] = "finish"
          /\ next[c] # none <=> cpc[c] = "switch"
          /\ outgoing[c] # none => on_cpu[outgoing[c]] /\ outgoing[c] # current[c]
          /\ next[c] # none => ~on_cpu[next[c]]
          /\ current[c] \in Core => current[c] = c
          /\ outgoing[c] \in Core => outgoing[c] = c
          /\ next[c] \in Core => next[c] = c
    /\ \A c, d \in Core : c # d =>
          /\ current[c] # current[d]
          /\ outgoing[c] # current[d]
          /\ outgoing[c] # none => outgoing[c] # outgoing[d]
          /\ next[c] # none => next[c] # next[d]
    /\ \A t \in Thread : on_cpu[t] =>
          \E c \in Core : t = current[c] \/ t = outgoing[c]

\* The state of a thread, from the point it and its core have reached.
StateInv ==
    /\ \A c \in Core : cpc[c] \in InterruptPoints => state[current[c]] = "RUNNING"
    /\ \A c \in Core : cpc[c] \in {"run", "finish"} /\ pc[current[c]] \notin OutPoints
                          => state[current[c]] \in {"RUNNING", "DEAD"}
    /\ \A t \in Thread : pc[t] \in OutPoints => state[t] \in {"BLOCKED", "READY"}
    /\ \A t \in Thread : pc[t] \in DyingPoints => state[t] = "DEAD"
    /\ \A t \in Thread : state[t] = "DEAD" => pc[t] \in DyingPoints \cup WakerPoints
    /\ \A t \in Thread : pc[t] \in OutPoints \cup (DyingPoints \ {"dead"})
                         \/ (state[t] = "DEAD" /\ pc[t] # "dead") =>
          \E c \in Core : current[c] = t /\ cpc[c] = "run"
    /\ \A t \in Thread : pc[t] = "new" => state[t] = "READY" /\ ~on_cpu[t]

\* Every list holds threads of one state, and holds each of them once.
PlaceInv ==
    /\ Distinct(runq)
    /\ \A t \in Thread : InSeq(runq, t) => state[t] = "READY" /\ pc[t] # "new"
    /\ \A c \in Core : next[c] \in Spawned =>
          state[next[c]] = "READY" /\ pc[next[c]] # "new" /\ ~InSeq(runq, next[c])
    /\ \A t \in Thread : waitq[t] # none =>
          t \in Spawned /\ state[t] = "BLOCKED" /\ t \notin sleepers
    /\ \A t \in sleepers : state[t] = "BLOCKED"
    /\ \A w \in Thread : \A t \in batch[w] :
          state[t] = "BLOCKED" /\ waitq[t] = none /\ t \notin sleepers
    /\ \A v, w \in Thread : v # w => batch[v] \cap batch[w] = {}
    /\ \A w \in Thread : batch[w] # {} => pc[w] \in {"batch", "more", "kicked"}

\* The dead: zombies, the corpse in the reaper's hands, the reaped.
DeadInv ==
    /\ \A t \in Thread : InSeq(zombies, t) => state[t] = "DEAD"
    /\ corpse # none => state[corpse] = "DEAD"
    /\ \A t \in reaped : state[t] = "DEAD" /\ ~on_cpu[t]

\* What a thread in a wait loop has asked for, and the registry of deadlines.
WaitPoints == {"check", "register", "block", "refused", "block_out", "woke", "unregister"}
WaitInv ==
    /\ \A t \in User \cup Kernel : pc[t] \in WaitPoints =>
          req[t].obj \in Obj /\ req[t].mask # {} /\ (pc[t] = "register" => req[t].timed)
    /\ pc[reaper] \in WaitPoints => req[reaper].obj = reaper
    /\ \A t \in timed : req[t].timed
    /\ \A t \in Thread : pc[t] \in WakerPoints => wake[t].obj \in Obj

Inv == /\ TypeOK /\ PointsInv /\ CpuInv /\ StateInv /\ PlaceInv /\ DeadInv /\ WaitInv
       /\ TimedNodeAlive /\ KilledNotParked

\* Beside Inv, what HeldOnce needs: no thread falls out of every list, the dead are in one
\* list each, and a core that has picked its next thread has already parked, buried or
\* queued its own, unless that is the idle thread.
HeldInv ==
    /\ \A t \in Spawned : state[t] = "READY" /\ pc[t] # "new" =>
          InSeq(runq, t) \/ \E c \in Core : next[c] = t
    /\ \A t \in Spawned : state[t] = "BLOCKED" =>
          waitq[t] # none \/ t \in sleepers \/ \E w \in Thread : t \in batch[w]
    /\ \A t \in Spawned : state[t] = "DEAD" => InSeq(zombies, t) \/ t = corpse \/ t \in reaped
    /\ Distinct(zombies) /\ ~InSeq(zombies, corpse) /\ corpse \notin reaped
    /\ \A t \in reaped : ~InSeq(zombies, t)
    /\ \A c \in Core : cpc[c] = "switch" /\ current[c] \in Spawned => state[current[c]] # "RUNNING"
=============================================================================
