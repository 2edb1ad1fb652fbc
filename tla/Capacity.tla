------------------------------ MODULE Capacity ------------------------------
(***************************************************************************)
(* The storage behind scheduling (scheduler.cpp, sleep.cpp, reaper.cpp):   *)
(* spawn counts the new thread and grows the run queue, the sleepers and   *)
(* the zombies outside of g_sched_lock, so that pushes under the lock,     *)
(* from the tick among them, find room.  Spawns run on several threads at  *)
(* once, between and beside what is pushed and popped.                     *)
(*                                                                         *)
(* The sleepers are a vector, [items, room]; the timed waits and the stack *)
(* cache grow like the sleepers and the zombies and are left out.          *)
(***************************************************************************)
EXTENDS Deque, FiniteSets

CONSTANTS
    THREADS, ASLEEP, DEAD,  \* bounds: threads that exist, sleep, are zombies at a time
    Spawner,  \* contexts that call spawn
    Core,
    SLACK,    \* the 2 of ensure_tick_capacity
    OOM,      \* whether an allocation may fail
    None

VARIABLES
    g_live_threads,
    g_run_queue, g_zombies,
    g_sleepers,
    cpu,        \* [Core -> [at, current, leaving]]: leaving is still on_cpu after its switch out
    reaping,    \* the thread in the reaper's hands, or None
    spawn,      \* [Spawner -> [at, target, thread]]
    allocated   \* the list the last push under the lock had to allocate for, or None

vars == <<g_live_threads, g_run_queue, g_zombies, g_sleepers, cpu, reaping, spawn, allocated>>

ThreadId == 1..THREADS
Idle == [at |-> "idle", target |-> 0, thread |-> None]

Init ==
    /\ g_live_threads = 0
    /\ g_run_queue = <<>> /\ g_zombies = <<>>
    /\ g_sleepers = [items |-> <<>>, room |-> 0]
    /\ cpu = [c \in Core |-> [at |-> "run", current |-> None, leaving |-> None]]
    /\ reaping = None
    /\ spawn = [s \in Spawner |-> Idle]
    /\ allocated = None

\* Where threads are: in a list, or held by a core, a spawn or the reaper.
Lists == <<Contents(g_run_queue), Contents(g_zombies), g_sleepers.items>>
Listed == LET lists == Lists IN UNION {ToSet(lists[i]) : i \in 1..3}
Held == ({cpu[c].current : c \in Core} \cup {spawn[s].thread : s \in Spawner} \cup {reaping}) \ {None}
on_cpu(t) == \E c \in Core : t \in {cpu[c].current, cpu[c].leaving}
Unborn == LET born == Listed \cup Held IN {t \in ThreadId \ born : ~on_cpu(t)}

----------------------------------------------------------------------------
(* thread_create_in, ensure_tick_capacity                                  *)

\* Mutant: the count is taken before it is raised.
TargetBefore(live) == live - 1
\* Room for every live thread and some slack.
Target(live) == live + SLACK

Count(s) ==
    /\ spawn[s].at = "idle" /\ Unborn # {}
    /\ g_live_threads' = g_live_threads + 1
    /\ spawn' = [spawn EXCEPT ![s] =
           [at |-> "queue", target |-> Target(g_live_threads'), thread |-> Min(Unborn)]]
    /\ UNCHANGED <<g_run_queue, g_zombies, g_sleepers, cpu, reaping, allocated>>

\* The values move over in order.
Moved(d, fresh) == FoldLeft(push_back, fresh, Contents(d))

\* grow_under_sched_lock, of a deque and of a vector.
GrownDeque(d, n) == IF capacity(d) >= n THEN d ELSE Moved(d, reserve(<<>>, n))
GrownVector(v, n) == IF v.room >= n THEN v ELSE [v EXCEPT !.room = n]

At(s, at, then) == spawn[s].at = at /\ spawn' = [spawn EXCEPT ![s].at = then]

GrowQueue(s) ==
    /\ At(s, "queue", "sleepers")
    /\ g_run_queue' = GrownDeque(g_run_queue, spawn[s].target)
    /\ UNCHANGED <<g_live_threads, g_zombies, g_sleepers, cpu, reaping, allocated>>

GrowSleepers(s) ==
    /\ At(s, "sleepers", "zombies")
    /\ g_sleepers' = GrownVector(g_sleepers, spawn[s].target)
    /\ UNCHANGED <<g_live_threads, g_run_queue, g_zombies, cpu, reaping, allocated>>

GrowZombies(s) ==
    /\ At(s, "zombies", "enqueue")
    /\ g_zombies' = GrownDeque(g_zombies, spawn[s].target)
    /\ UNCHANGED <<g_live_threads, g_run_queue, g_sleepers, cpu, reaping, allocated>>

\* The count of a thread that will not run, or is gone.
Uncounted == g_live_threads - 1

\* A reservation fails: the thread is given up.
SpawnFails(s) ==
    /\ OOM /\ spawn[s].at \in {"queue", "sleepers", "zombies"}
    /\ g_live_threads' = Uncounted
    /\ spawn' = [spawn EXCEPT ![s] = Idle]
    /\ UNCHANGED <<g_run_queue, g_zombies, g_sleepers, cpu, reaping, allocated>>

----------------------------------------------------------------------------
(* Pushes under g_sched_lock.                                              *)

Notes(d, list) == allocated' = IF MustAllocate(d) THEN list ELSE None

\* thread_enqueue: a push that cannot allocate gives the thread up.
Enqueue(s) ==
    /\ spawn[s].at = "enqueue"
    /\ \E ok \in IF OOM /\ MustAllocate(g_run_queue) THEN BOOLEAN ELSE {TRUE} :
          /\ g_run_queue' = IF ok THEN push_back(g_run_queue, spawn[s].thread) ELSE g_run_queue
          /\ g_live_threads' = IF ok THEN g_live_threads ELSE Uncounted
    /\ Notes(g_run_queue, "queue")
    /\ spawn' = [spawn EXCEPT ![s] = Idle]
    /\ UNCHANGED <<g_zombies, g_sleepers, cpu, reaping>>

\* pop_locked: threads still on a core rotate to the back.  What is left, and the thread.
Rotations(d) ==
    LET s == Contents(d)  away == {i \in DOMAIN s : ~on_cpu(s[i])} IN IF away = {} THEN Len(s) ELSE Min(away) - 1
Turned(d, n) == FoldLeft(LAMBDA q, i : push_back(pop_front(q), front(q)), d, [i \in 1..n |-> i])
Picked(d) == LET n == Rotations(d) IN IF n = Size(d) THEN None ELSE Contents(d)[n + 1]
Rest(d) == IF Picked(d) = None THEN Turned(d, Rotations(d)) ELSE pop_front(Turned(d, Rotations(d)))
RotationAllocates(d) == \E n \in 1..Rotations(d) : MustAllocate(pop_front(Turned(d, n - 1)))

\* yield and service_pending_preemption: pick, then queue the thread that runs.
Preempt(c) ==
    LET t == cpu[c].current
        rest == Rest(g_run_queue)
        queued == t # None /\ Picked(g_run_queue) # None IN
    /\ cpu[c].at = "run" /\ Size(g_run_queue) > 0
    /\ g_run_queue' = IF queued THEN push_back(rest, t) ELSE rest
    /\ allocated' = IF RotationAllocates(g_run_queue) \/ (queued /\ MustAllocate(rest)) THEN "queue" ELSE None
    /\ cpu' = IF Picked(g_run_queue) = None THEN cpu
              ELSE [cpu EXCEPT ![c] = [at |-> "switched", current |-> Picked(g_run_queue), leaving |-> t]]
    /\ UNCHANGED <<g_live_threads, g_zombies, g_sleepers, reaping, spawn>>

\* schedule_out, after the thread was parked.
schedule_out(c) ==
    /\ cpu[c].at = "out"
    /\ g_run_queue' = Rest(g_run_queue)
    /\ allocated' = IF RotationAllocates(g_run_queue) THEN "queue" ELSE None
    /\ cpu' = [cpu EXCEPT ![c].at = "switched", ![c].current = Picked(g_run_queue)]
    /\ UNCHANGED <<g_live_threads, g_zombies, g_sleepers, reaping, spawn>>

sched_finish_switch(c) ==
    /\ cpu[c].at = "switched"
    /\ cpu' = [cpu EXCEPT ![c].at = "run", ![c].leaving = None]
    /\ UNCHANGED <<g_live_threads, g_run_queue, g_zombies, g_sleepers, reaping, spawn, allocated>>

Out(c) ==
    /\ cpu[c].at = "run" /\ cpu[c].current # None
    /\ cpu' = [cpu EXCEPT ![c] = [at |-> "out", current |-> None, leaving |-> @.current]]

sleep_ticks(c) ==
    /\ Out(c) /\ Len(g_sleepers.items) < ASLEEP
    /\ LET n == Len(g_sleepers.items)
           full == n = g_sleepers.room IN
       /\ allocated' = IF full THEN "sleepers" ELSE None
       /\ g_sleepers' = [items |-> Append(g_sleepers.items, cpu[c].current),
                         room |-> IF full THEN n + 1 ELSE g_sleepers.room]
    /\ UNCHANGED <<g_live_threads, g_run_queue, g_zombies, reaping, spawn>>

SwapRemove(s, i) == SubSeq([s EXCEPT ![i] = s[Len(s)]], 1, Len(s) - 1)

\* The tick, or a kill, takes a sleeper out of the list.
wake_sleeper(i) ==
    /\ i <= Len(g_sleepers.items)
    /\ g_run_queue' = push_back(g_run_queue, g_sleepers.items[i])
    /\ Notes(g_run_queue, "queue")
    /\ g_sleepers' = [g_sleepers EXCEPT !.items = SwapRemove(@, i)]
    /\ UNCHANGED <<g_live_threads, g_zombies, cpu, reaping, spawn>>

\* exit_current
reaper_enqueue(c) ==
    /\ Out(c) /\ Size(g_zombies) < DEAD
    /\ g_zombies' = push_back(g_zombies, cpu[c].current)
    /\ Notes(g_zombies, "zombies")
    /\ UNCHANGED <<g_live_threads, g_run_queue, g_sleepers, reaping, spawn>>

reaper_main ==
    /\ reaping = None /\ Size(g_zombies) > 0
    /\ reaping' = front(g_zombies)
    /\ g_zombies' = pop_front(g_zombies)
    /\ UNCHANGED <<g_live_threads, g_run_queue, g_sleepers, cpu, spawn, allocated>>

\* reap: once the thread's core has left it.
note_thread_reaped ==
    /\ reaping # None /\ ~on_cpu(reaping)
    /\ reaping' = None
    /\ g_live_threads' = Uncounted
    /\ UNCHANGED <<g_run_queue, g_zombies, g_sleepers, cpu, spawn, allocated>>

Next ==
    \/ \E s \in Spawner : Count(s) \/ GrowQueue(s) \/ GrowSleepers(s) \/ GrowZombies(s)
                          \/ SpawnFails(s) \/ Enqueue(s)
    \/ \E c \in Core : Preempt(c) \/ schedule_out(c) \/ sched_finish_switch(c)
                       \/ sleep_ticks(c) \/ reaper_enqueue(c)
    \/ \E i \in ThreadId : wake_sleeper(i)
    \/ reaper_main \/ note_thread_reaped

Spec == Init /\ [][Next]_vars

----------------------------------------------------------------------------
(* Properties.                                                             *)

\* Growing the lists beside running cores and other spawns loses and doubles no thread, and
\* leaves the count exact: each of the g_live_threads is in one place.
CountedOnce ==
    LET lists == Lists  all == lists[1] \o lists[2] \o lists[3] IN
    /\ IsInjective(all) /\ ToSet(all) \cap Held = {}
    /\ g_live_threads = Cardinality(ToSet(all) \cup Held)

\* "the high-water mark of this count is what the run queue and sleeper list stay reserved for,
\* so tick-context pushes never grow them" (scheduler.cpp:201): no push under g_sched_lock
\* allocates, with spawns that overtake one another, fail, and grow the lists in use. It holds for
\* blocks of at most SLACK + 1 slots. A larger first block may have more consumed slots than the
\* slack makes up for, and capacity(), by which grow_under_sched_lock returns early, counts them.
PushesFit == allocated = None
==============================================================================
