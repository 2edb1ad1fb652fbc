------------------------------ MODULE Lockdep -------------------------------
(***************************************************************************)
(* The lock-order checker of debug builds, and the guards that call it.    *)
(* A lock has an identity, recycled when the lock is destroyed; acquired() *)
(* learns an edge from every lock the context holds to the new one, after  *)
(* the lock has been taken, and panics when the edge closes a cycle. The   *)
(* held stack belongs to the core; a switch carries it with the thread.    *)
(***************************************************************************)
EXTENDS Naturals, Sequences, FiniteSets

CONSTANTS Core, Thread, Locks, Spin, none,
          MAX_LOCKS,  \* CONFIG_LOCKDEP_MAX_LOCKS
          MAX_EDGES,  \* CONFIG_LOCKDEP_MAX_EDGES
          MAX_HELD    \* CONFIG_LOCKDEP_MAX_HELD
\* What the model relies on.
Sane == Spin \subseteq Locks /\ none \notin Thread

VARIABLES
    id,             \* [Locks -> its identity, 0 when it does not exist]
    free,           \* g_free_list, a stack
    next_identity,  \* g_next_identity
    edges,          \* g_edges, as a set of pairs of identities
    owner,          \* [identity -> owning thread while owned, or none]
    holder,         \* [Locks -> the thread inside it, or none]
    on,             \* [Core -> running thread]
    held,           \* [Core -> the context's held locks]
    saved,          \* [Thread -> held locks of a thread that is switched out]
    step,           \* [Thread -> <<>>, or the guard half done: <<"take" or "drop", lock>>]
    nested,         \* which living lock was taken inside which (history)
    panic
vars == <<id, free, next_identity, edges, owner, holder, on, held, saved, step, nested, panic>>
tables == <<id, free, next_identity>>

Init ==
    /\ id = [l \in Locks |-> 0] /\ free = <<>> /\ next_identity = 1 /\ edges = {}
    /\ owner = [i \in 1..MAX_LOCKS |-> none] /\ holder = [l \in Locks |-> none]
    /\ on \in {f \in [Core -> Thread] : \A c, d \in Core : f[c] = f[d] => c = d}
    /\ held = [c \in Core |-> <<>>] /\ saved = [t \in Thread |-> <<>>]
    /\ step = [t \in Thread |-> <<>>] /\ nested = {} /\ panic = "no"

Elems(s) == {s[i] : i \in DOMAIN s}
Panic(what) == panic' = what /\ UNCHANGED <<id, free, next_identity, edges, owner, holder, on, held, saved, step, nested>>

\* allocate_identity, in a lock's constructor.
Construct(l) ==
    /\ id[l] = 0
    /\ IF free # <<>>
       THEN id' = [id EXCEPT ![l] = free[Len(free)]] /\ free' = SubSeq(free, 1, Len(free) - 1)
                /\ UNCHANGED <<next_identity, panic>>
       ELSE IF next_identity > MAX_LOCKS THEN panic' = "lock capacity" /\ UNCHANGED tables
       ELSE id' = [id EXCEPT ![l] = next_identity] /\ next_identity' = next_identity + 1
                /\ UNCHANGED <<free, panic>>
    /\ UNCHANGED <<edges, owner, holder, on, held, saved, step, nested>>

\* The edges release_identity leaves.
EdgesWithout(i) == {e \in edges : i \notin {e[1], e[2]}}

\* The destructor of a lock nobody is using: assert_not_owned and release_identity.
Destroy(l) ==
    /\ id[l] # 0 /\ holder[l] = none
    /\ IF owner[id[l]] # none THEN Panic("destroying owned")
       ELSE /\ edges' = EdgesWithout(id[l])
            /\ free' = Append(free, id[l])
            /\ id' = [id EXCEPT ![l] = 0]
            /\ nested' = {p \in nested : l \notin {p[1], p[2]}}
            /\ UNCHANGED <<next_identity, owner, holder, on, held, saved, step, panic>>

\* path_exists: to is reachable from from.
path_exists(E, from, to) ==
    LET reach[n \in Nat] == IF n = 0 THEN {from}
                            ELSE reach[n - 1] \cup {e[2] : e \in {e \in E : e[1] \in reach[n - 1]}}
    IN to \in reach[MAX_LOCKS]

\* What acquired() makes of the edges, taking the held locks from the bottom up: the
\* edges, or the panic it ends in.
learn_edge(E, from, to) ==
    CASE <<from, to>> \in E -> [edges |-> E, panic |-> "no"]
      [] <<from, to>> \notin E /\ path_exists(E, to, from) -> [edges |-> E, panic |-> "cycle"]
      [] OTHER -> IF Cardinality(E) = MAX_EDGES THEN [edges |-> E, panic |-> "edge capacity"]
                  ELSE [edges |-> E \cup {<<from, to>>}, panic |-> "no"]

Learned(stack, l) ==
    LET after[n \in 0..Len(stack)] ==
          IF n = 0 THEN [edges |-> edges, panic |-> "no"]
          ELSE IF after[n - 1].panic # "no" THEN after[n - 1]
          ELSE IF stack[n] = l THEN [edges |-> after[n - 1].edges, panic |-> "recursive"]
          ELSE learn_edge(after[n - 1].edges, id[stack[n]], id[l])
    IN after[Len(stack)]

\* A guard takes the lock: a mutex needs a context that may block, and blocking on it
\* with a lock held is schedule_out's panic; a spinlock spins.
Take(c, l) ==
    LET t == on[c] IN
    /\ step[t] = <<>> /\ id[l] # 0
    /\ IF l \notin Spin /\ Elems(held[c]) \cap Spin # {} THEN Panic("not preemptible")
       ELSE IF holder[l] # none
       THEN l \notin Spin /\ held[c] # <<>> /\ Panic("scheduling while holding")
       ELSE /\ holder' = [holder EXCEPT ![l] = t]
            /\ step' = [step EXCEPT ![t] = <<"take", l>>]
            /\ UNCHANGED <<tables, edges, owner, on, held, saved, nested, panic>>

\* Mutant: a lock belongs to the core it was taken on.
OwnerCore(c) == c
\* Whose a lock is that core c takes, and who gives it up there: "By thread, not core".
Owner(c) == on[c]

\* acquired()
Acquired(c) ==
    LET t == on[c]  l == step[t][2]  r == Learned(held[c], l) IN
    /\ step[t] # <<>> /\ step[t][1] = "take"
    /\ nested' = nested \cup {<<k, l>> : k \in Elems(held[c])}
    /\ edges' = r.edges
    /\ step' = [step EXCEPT ![t] = <<>>]
    /\ panic' = IF r.panic # "no" THEN r.panic
                ELSE IF Len(held[c]) = MAX_HELD THEN "held capacity"
                ELSE IF owner[id[l]] # none THEN "already owned" ELSE "no"
    /\ IF panic' = "no"
       THEN held' = [held EXCEPT ![c] = Append(@, l)] /\ owner' = [owner EXCEPT ![id[l]] = Owner(c)]
       ELSE UNCHANGED <<held, owner>>
    /\ UNCHANGED <<tables, holder, on, saved>>

\* released(), for the guard opened last by the thread.
Released(c) ==
    LET t == on[c]  mine == {l \in Locks : holder[l] = t} IN
    /\ step[t] = <<>> /\ mine # {}
    /\ IF held[c] = <<>> \/ held[c][Len(held[c])] \notin mine THEN Panic("unbalanced")
       ELSE LET l == held[c][Len(held[c])] IN
            IF owner[id[l]] # Owner(c) THEN Panic("non-owner")
            ELSE /\ held' = [held EXCEPT ![c] = SubSeq(@, 1, Len(@) - 1)]
                 /\ owner' = [owner EXCEPT ![id[l]] = none]
                 /\ step' = [step EXCEPT ![t] = <<"drop", l>>]
                 /\ UNCHANGED <<tables, edges, holder, on, saved, nested, panic>>

\* The unlock that ends the guard.
Unlock(c) ==
    LET t == on[c] IN
    /\ step[t] # <<>> /\ step[t][1] = "drop"
    /\ holder' = [holder EXCEPT ![step[t][2]] = none]
    /\ step' = [step EXCEPT ![t] = <<>>]
    /\ UNCHANGED <<tables, edges, owner, on, held, saved, nested, panic>>

\* The held locks switch_to loads for the incoming thread.
Restored(c, t) == saved[t]

\* A tick moves the core to another thread, unless preemption is disabled.
Switch(c, t) ==
    /\ t \notin {on[d] : d \in Core}
    /\ \A l \in Spin : holder[l] # on[c]
    /\ saved' = [saved EXCEPT ![on[c]] = held[c]]
    /\ held' = [held EXCEPT ![c] = Restored(c, t)]
    /\ on' = [on EXCEPT ![c] = t]
    /\ UNCHANGED <<tables, edges, owner, holder, step, nested, panic>>

Next ==
    /\ panic = "no"
    /\ \/ \E l \in Locks : Construct(l) \/ Destroy(l)
       \/ \E c \in Core, l \in Locks : Take(c, l)
       \/ \E c \in Core : Acquired(c) \/ Released(c) \/ Unlock(c)
       \/ \E c \in Core, t \in Thread : Switch(c, t)
Spec == Init /\ [][Next]_vars

----------------------------------------------------------------------------
(* Properties.                                                             *)

Cyclic(R) ==
    LET succ(S) == S \cup {p[2] : p \in {p \in R : p[1] \in S}}
        reach[n \in Nat, l \in Locks] == IF n = 0 THEN {p[2] : p \in {p \in R : p[1] = l}}
                                        ELSE succ(reach[n - 1, l])
    IN \E l \in Locks : l \in reach[Cardinality(Locks), l]

\* While the kernel runs, the order in which its living locks have been nested has no
\* cycle: an inversion is reported the first time both orders have been completed,
\* through any chain of locks and threads, by whichever core closes it.
OrdersAgree == panic = "no" => ~Cyclic(nested)

\* A reported cycle is one: it was made by locks that exist, not by the past of a
\* recycled identity.
CycleIsReal == panic = "cycle" => Cyclic(nested)

\* Guards that nest never meet the checker's own complaints, however their threads
\* are preempted and moved between cores in the middle of a guard.
NoFalseAlarm == panic \notin {"unbalanced", "non-owner", "recursive", "already owned", "destroying owned"}
=============================================================================
