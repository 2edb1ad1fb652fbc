---------------------------- MODULE Translations ----------------------------
(***************************************************************************)
(* What address spaces promise (includes/kernel/mm/vm_aspace.h): each      *)
(* space is a map from pages to translations.  A user page is installed    *)
(* where none was, with the protection asked for and a cache mode no       *)
(* looser, and removed; the kernel's own pages are the same in every       *)
(* space and never change.                                                 *)
(***************************************************************************)
EXTENDS Integers

CONSTANTS Spaces, UserPages, KernelPages, Nothing, Attributes, KernelMap

VARIABLE map \* Nothing for a space that does not exist

vars == <<map>>

\* "may degrade a mapping toward stricter caching but never looser" (includes/kernel/mm/paging.h:22)
Strictness(c) == CASE c = "CACHED" -> 0 [] c = "WRITE_COMBINING" -> 1 [] c = "DEVICE" -> 2
Fresh == [v \in UserPages \cup KernelPages |-> IF v \in KernelPages THEN KernelMap[v] ELSE Nothing]

Init == map = [s \in Spaces |-> Nothing]

Create(old, new) == old = Nothing /\ new = Fresh
Destroy(old, new) == old # Nothing /\ new = Nothing
Change(old, new) ==
    /\ old # Nothing /\ new # Nothing
    /\ \E v \in UserPages :
          /\ \A w \in DOMAIN old \ {v} : new[w] = old[w]
          /\ \/ old[v] # Nothing /\ new[v] = Nothing
             \/ /\ old[v] = Nothing /\ new[v] # Nothing
                /\ \E a \in Attributes : new[v] = [a EXCEPT !.cache = new[v].cache] /\ Strictness(new[v].cache) >= Strictness(a.cache)

Next ==
    LET old == map
        new == map'
    IN  \E s \in Spaces :
           /\ \A t \in Spaces \ {s} : new[t] = old[t]
           /\ Create(old[s], new[s]) \/ Destroy(old[s], new[s]) \/ Change(old[s], new[s])

Spec == Init /\ [][Next]_vars
=============================================================================
