------------------------------- MODULE Mutex --------------------------------
(***************************************************************************)
(* kernel::synchronization::mutex: an atomic flag, and a wait queue for    *)
(* the threads that find it set. block_if evaluates its predicate (another *)
(* try_acquire) and parks under the queue's lock; wake_one unlinks a       *)
(* waiter under the same lock and makes it ready afterwards. task_kill     *)
(* claims a parked thread, which then contends again: a mutex wait has     *)
(* mask 0, so a killed thread still parks. Which waiter wake_one finds     *)
(* first makes no difference below.                                        *)
(***************************************************************************)
EXTENDS Naturals, TLAPS

CONSTANTS Thread, none
ASSUME NoneAssumption == none \notin Thread

VARIABLES
    m_state,  \* the flag
    waiters,  \* m_waiters
    pc,       \* [Thread -> where it is]
    woken,    \* [Thread -> the thread a waker has unlinked, or none]
    killed    \* threads marked by task_kill
vars == <<m_state, waiters, pc, woken, killed>>

Init ==
    /\ m_state = 0 /\ waiters = {} /\ killed = {}
    /\ pc = [t \in Thread |-> "out"]
    /\ woken = [t \in Thread |-> none]

Goto(t, p) == pc' = [pc EXCEPT ![t] = p]

\* Mutant: the exchange's verdict is ignored.
TryAcquireBlind(t, fail) == m_state' = 1 /\ Goto(t, "in")
\* try_acquire: compare_exchange of 0 by 1.
TryAcquire(t, fail) ==
    \/ m_state = 0 /\ m_state' = 1 /\ Goto(t, "in")
    \/ m_state = 1 /\ UNCHANGED m_state /\ Goto(t, fail)

\* lock() begins.
Lock(t) == pc[t] = "out" /\ TryAcquire(t, "contend") /\ UNCHANGED <<waiters, woken, killed>>
\* try_lock()
TryLock(t) == pc[t] = "out" /\ TryAcquire(t, "out") /\ UNCHANGED <<waiters, woken, killed>>

\* Mutant: the flag is looked at before the queue is locked only.
ParkBlind(t) == waiters' = waiters \cup {t} /\ Goto(t, "parked") /\ UNCHANGED m_state
\* The predicate runs under the queue's lock: acquire, or join the queue.
Park(t) ==
    \/ m_state = 0 /\ m_state' = 1 /\ Goto(t, "in") /\ UNCHANGED waiters
    \/ m_state = 1 /\ waiters' = waiters \cup {t} /\ Goto(t, "parked") /\ UNCHANGED m_state

\* One turn of lock()'s loop: block_if.
Contend(t) == pc[t] = "contend" /\ Park(t) /\ UNCHANGED <<woken, killed>>

\* unlock(): the flag is cleared ...
Unlock(t) ==
    /\ pc[t] = "in"
    /\ m_state' = 0
    /\ Goto(t, "waking")
    /\ UNCHANGED <<waiters, woken, killed>>

\* unlink
Unlinked(u) == waiters \ {u}

\* ... and wake_one unlinks a waiter, if there is one ...
WakeTake(t) ==
    /\ pc[t] = "waking" /\ woken[t] = none
    /\ \/ waiters = {} /\ Goto(t, "out") /\ UNCHANGED <<waiters, woken>>
       \/ \E u \in waiters : /\ waiters' = Unlinked(u)
                             /\ woken' = [woken EXCEPT ![t] = u]
                             /\ Goto(u, "taken")
    /\ UNCHANGED <<m_state, killed>>

\* ... which make_ready queues to run: it goes round lock()'s loop.
WakeReady(t) ==
    /\ pc[t] = "waking" /\ woken[t] # none
    /\ woken' = [woken EXCEPT ![t] = none]
    /\ pc' = [pc EXCEPT ![t] = "out", ![woken[t]] = "contend"]
    /\ UNCHANGED <<m_state, waiters, killed>>

\* task_kill's claim: it wins only against a node that is still linked.
Kill(t) ==
    /\ t \notin killed
    /\ killed' = killed \cup {t}
    /\ waiters' = waiters \ {t}
    /\ IF pc[t] = "parked" THEN Goto(t, "contend") ELSE UNCHANGED pc
    /\ UNCHANGED <<m_state, woken>>

Step(t) == Lock(t) \/ TryLock(t) \/ Contend(t) \/ Unlock(t) \/ WakeTake(t) \/ WakeReady(t) \/ Kill(t)
Next == \E t \in Thread : Step(t)
Spec == Init /\ [][Next]_vars

\* A thread inside the mutex leaves it, a waker wakes, and a thread that contends
\* runs again; that anybody comes is not assumed.
LiveSpec ==
    /\ Spec
    /\ \A t \in Thread : WF_vars(Unlock(t) \/ WakeTake(t) \/ WakeReady(t) \/ Contend(t))

----------------------------------------------------------------------------
(* Properties.                                                             *)

\* The type invariant: the queue holds exactly the parked threads, and a waker's hand
\* a taken thread no other waker has.
TypeOK ==
    /\ m_state \in {0, 1} /\ killed \subseteq Thread
    /\ pc \in [Thread -> {"out", "contend", "parked", "taken", "in", "waking"}]
    /\ waiters = {t \in Thread : pc[t] = "parked"}
    /\ woken \in [Thread -> Thread \cup {none}]
    /\ \A t \in Thread : woken[t] # none => pc[t] = "waking" /\ pc[woken[t]] = "taken"
    /\ \A t, u \in Thread : woken[t] # none /\ woken[t] = woken[u] => t = u

\* At most one thread is between lock() and unlock(), and only while the flag is set.
MutualExclusion ==
    \A t \in Thread : pc[t] = "in" => m_state = 1 /\ \A u \in Thread : pc[u] = "in" => u = t

\* The window between the release of the flag and wake_one loses nobody: while a
\* thread is parked, a holder, a waker or a woken contender is there to pass it on.
NoLostWaiter == waiters # {} => \E t \in Thread : pc[t] \in {"in", "waking", "contend"}

\* The flag is set only by a thread that is inside.
HeldBySomebody == m_state = 1 => \E t \in Thread : pc[t] = "in"

\* What the steps preserve.
Inv == TypeOK /\ MutualExclusion /\ NoLostWaiter /\ HeldBySomebody

\* While threads want the mutex, one of them gets in.
SomebodyGetsIn ==
    (\E t \in Thread : pc[t] \in {"parked", "taken", "contend"}) ~> (\E t \in Thread : pc[t] = "in")

----------------------------------------------------------------------------
(* Mutual exclusion, and that no waiter is lost, for any set of threads.   *)
(* The two need each other: a thread parks only while the flag is set, and *)
(* the flag is set only by a thread inside, which will come to wake_one.   *)

\* An unlocked mutex with no waiter has the invariant.
LEMMA InitInv == Init => Inv
BY NoneAssumption DEF Init, Inv, TypeOK, MutualExclusion, NoLostWaiter, HeldBySomebody

\* A thread acquires the flag, wherever it comes from.
LEMMA AcquireInv ==
  ASSUME Inv, NEW t \in Thread, pc[t] \in {"out", "contend"}, m_state = 0, m_state' = 1,
         Goto(t, "in"), waiters' = waiters, woken' = woken, killed' \subseteq Thread
  PROVE  Inv'
<1>1. \A u \in Thread : pc[u] # "in"
  BY DEF Inv, MutualExclusion
<1>2. /\ pc'[t] = "in" /\ \A u \in Thread : u # t => pc'[u] = pc[u]
      /\ pc' \in [Thread -> {"out", "contend", "parked", "taken", "in", "waking"}]
  BY DEF Inv, TypeOK, Goto
<1>3. TypeOK'
  BY <1>2 DEF Inv, TypeOK
<1> QED BY <1>1, <1>2, <1>3 DEF Inv, MutualExclusion, NoLostWaiter, HeldBySomebody

\* Every step of lock, try_lock and unlock keeps the invariant.
LEMMA NextInv == Inv /\ [Next]_vars => Inv'
<1> SUFFICES ASSUME Inv, [Next]_vars PROVE Inv'
  OBVIOUS
<1>1. CASE UNCHANGED vars
  BY <1>1 DEF vars, Inv, TypeOK, MutualExclusion, NoLostWaiter, HeldBySomebody
<1>2. ASSUME NEW t \in Thread, Lock(t) \/ TryLock(t) PROVE Inv'
  <2>1. CASE m_state = 0
    BY <1>2, <2>1, AcquireInv DEF Lock, TryLock, TryAcquire, Inv, TypeOK
  <2>2. CASE m_state = 1
    <3>1. /\ m_state' = 1 /\ waiters' = waiters /\ woken' = woken /\ killed' = killed
          /\ pc[t] = "out" /\ pc'[t] \in {"out", "contend"}
          /\ \A u \in Thread : u # t => pc'[u] = pc[u]
          /\ pc' \in [Thread -> {"out", "contend", "parked", "taken", "in", "waking"}]
      BY <1>2, <2>2 DEF Lock, TryLock, TryAcquire, Goto, Inv, TypeOK
    <3>2. TypeOK'
      BY <3>1 DEF Inv, TypeOK
    <3>3. HeldBySomebody'
      BY <2>2, <3>1 DEF Inv, HeldBySomebody
    <3> QED BY <2>2, <3>1, <3>2, <3>3 DEF Inv, MutualExclusion, NoLostWaiter
  <2> QED BY <2>1, <2>2 DEF Inv, TypeOK
<1>3. ASSUME NEW t \in Thread, Contend(t) PROVE Inv'
  <2>1. CASE m_state = 0
    BY <1>3, <2>1, AcquireInv DEF Contend, Park, Inv, TypeOK
  <2>2. CASE m_state = 1
    <3>1. /\ m_state' = 1 /\ waiters' = waiters \cup {t} /\ woken' = woken /\ killed' = killed
          /\ pc[t] = "contend" /\ pc'[t] = "parked"
          /\ \A u \in Thread : u # t => pc'[u] = pc[u]
          /\ pc' \in [Thread -> {"out", "contend", "parked", "taken", "in", "waking"}]
      BY <1>3, <2>2 DEF Contend, Park, Goto, Inv, TypeOK
    <3>2. TypeOK'
      BY <3>1 DEF Inv, TypeOK
    <3>3. HeldBySomebody' /\ NoLostWaiter'
      BY <2>2, <3>1 DEF Inv, HeldBySomebody, NoLostWaiter
    <3> QED BY <2>2, <3>1, <3>2, <3>3 DEF Inv, MutualExclusion
  <2> QED BY <2>1, <2>2 DEF Inv, TypeOK
<1>4. ASSUME NEW t \in Thread, Unlock(t) PROVE Inv'
  <2>1. /\ m_state' = 0 /\ waiters' = waiters /\ woken' = woken /\ killed' = killed
        /\ pc[t] = "in" /\ pc'[t] = "waking"
        /\ \A u \in Thread : u # t => pc'[u] = pc[u]
        /\ pc' \in [Thread -> {"out", "contend", "parked", "taken", "in", "waking"}]
    BY <1>4 DEF Unlock, Goto, Inv, TypeOK
  <2>2. TypeOK'
    BY <2>1 DEF Inv, TypeOK
  <2> QED BY <2>1, <2>2 DEF Inv, MutualExclusion, NoLostWaiter, HeldBySomebody
<1>5. ASSUME NEW t \in Thread, WakeTake(t) PROVE Inv'
  <2>1. CASE waiters = {} /\ Goto(t, "out") /\ UNCHANGED <<waiters, woken>>
    <3>1. /\ m_state' = m_state /\ killed' = killed /\ pc[t] = "waking" /\ woken[t] = none
          /\ pc'[t] = "out" /\ \A u \in Thread : u # t => pc'[u] = pc[u]
          /\ pc' \in [Thread -> {"out", "contend", "parked", "taken", "in", "waking"}]
      BY <1>5, <2>1 DEF WakeTake, Goto, Inv, TypeOK
    <3>2. TypeOK'
      BY <2>1, <3>1 DEF Inv, TypeOK
    <3> QED BY <2>1, <3>1, <3>2 DEF Inv, MutualExclusion, NoLostWaiter, HeldBySomebody
  <2>2. ASSUME NEW u \in waiters, waiters' = waiters \ {u}, woken' = [woken EXCEPT ![t] = u],
               Goto(u, "taken")
        PROVE  Inv'
    <3>1. /\ m_state' = m_state /\ killed' = killed /\ pc[t] = "waking" /\ woken[t] = none
          /\ u \in Thread /\ pc[u] = "parked" /\ u # t /\ pc'[u] = "taken" /\ pc'[t] = "waking"
          /\ \A v \in Thread : v # u => pc'[v] = pc[v]
          /\ pc' \in [Thread -> {"out", "contend", "parked", "taken", "in", "waking"}]
      BY <1>5, <2>2 DEF WakeTake, Goto, Inv, TypeOK
    <3>2. TypeOK'
      <4>1. waiters' = {v \in Thread : pc'[v] = "parked"}
        BY <2>2, <3>1 DEF Inv, TypeOK
      <4>2. \A v \in Thread : woken'[v] # none => pc'[v] = "waking" /\ pc'[woken'[v]] = "taken"
        BY <2>2, <3>1 DEF Inv, TypeOK
      <4>3. woken' \in [Thread -> Thread \cup {none}]
        BY <2>2, <3>1 DEF Inv, TypeOK
      <4>4. \A v, w \in Thread : woken'[v] # none /\ woken'[v] = woken'[w] => v = w
        BY <2>2, <3>1 DEF Inv, TypeOK
      <4> QED BY <3>1, <4>1, <4>2, <4>3, <4>4 DEF Inv, TypeOK
    <3> QED BY <2>2, <3>1, <3>2 DEF Inv, MutualExclusion, NoLostWaiter, HeldBySomebody
  <2> QED BY <1>5, <2>1, <2>2 DEF WakeTake, Unlinked
<1>6. ASSUME NEW t \in Thread, WakeReady(t) PROVE Inv'
  <2> DEFINE u == woken[t]
  <2>1. /\ m_state' = m_state /\ killed' = killed /\ waiters' = waiters
        /\ pc[t] = "waking" /\ u \in Thread /\ u # t /\ pc[u] = "taken"
        /\ pc'[t] = "out" /\ pc'[u] = "contend"
        /\ \A v \in Thread : v # t /\ v # u => pc'[v] = pc[v]
        /\ pc' \in [Thread -> {"out", "contend", "parked", "taken", "in", "waking"}]
        /\ woken' = [woken EXCEPT ![t] = none]
    BY <1>6 DEF WakeReady, Inv, TypeOK
  <2>2. TypeOK'
    <3>1. waiters' = {v \in Thread : pc'[v] = "parked"}
      BY <2>1 DEF Inv, TypeOK
    <3>2. \A v \in Thread : woken'[v] # none => pc'[v] = "waking" /\ pc'[woken'[v]] = "taken"
      BY <2>1 DEF Inv, TypeOK
    <3>3. woken' \in [Thread -> Thread \cup {none}]
      BY <2>1 DEF Inv, TypeOK
    <3>4. \A v, w \in Thread : woken'[v] # none /\ woken'[v] = woken'[w] => v = w
      BY <2>1 DEF Inv, TypeOK
    <3> QED BY <2>1, <3>1, <3>2, <3>3, <3>4 DEF Inv, TypeOK
  <2> QED BY <2>1, <2>2 DEF Inv, MutualExclusion, NoLostWaiter, HeldBySomebody
<1>7. ASSUME NEW t \in Thread, Kill(t) PROVE Inv'
  <2>1. /\ m_state' = m_state /\ killed' \subseteq Thread /\ woken' = woken /\ waiters' = waiters \ {t}
        /\ pc[t] = "parked" => pc'[t] = "contend"
        /\ pc[t] # "parked" => pc'[t] = pc[t]
        /\ \A v \in Thread : v # t => pc'[v] = pc[v]
        /\ pc' \in [Thread -> {"out", "contend", "parked", "taken", "in", "waking"}]
    BY <1>7 DEF Kill, Goto, Inv, TypeOK
  <2>2. TypeOK'
    BY <2>1 DEF Inv, TypeOK
  <2> QED BY <2>1, <2>2 DEF Inv, MutualExclusion, NoLostWaiter, HeldBySomebody
<1> QED BY <1>1, <1>2, <1>3, <1>4, <1>5, <1>6, <1>7 DEF Next, Step

\* The inductive invariant holds throughout.
THEOREM Invariance == Spec => []Inv
BY InitInv, NextInv, PTL DEF Spec

\* For any set of threads, at most one is between lock() and unlock().
THEOREM Exclusion == Spec => []MutualExclusion
<1>1. Inv => MutualExclusion
  BY DEF Inv
<1> QED BY <1>1, Invariance, PTL

\* For any set of threads, a parked thread always has a holder, a waker or a woken
\* contender before it: unlock()'s release-then-wake loses nobody.
THEOREM NobodyLost == Spec => []NoLostWaiter
<1>1. Inv => NoLostWaiter
  BY DEF Inv
<1> QED BY <1>1, Invariance, PTL
=============================================================================
