------------------------------- MODULE Paging -------------------------------
(***************************************************************************)
(* Page tables (mm/paging.cpp) with the entry formats of both              *)
(* architectures (riscv64/paging.cpp, x86_64/paging.cpp), the space active *)
(* on each core, and the TLBs.                                             *)
(*                                                                         *)
(* A table has two entries and a page two units, so an address of level i  *)
(* consumes one bit where the machine consumes nine.  Entries are an       *)
(* address and the set of bits that are on.  Map and unmap run under       *)
(* g_vmm_lock; switching address spaces does not.                          *)
(***************************************************************************)
EXTENDS Integers, Sequences, FiniteSets, FiniteSetsExt

CONSTANTS ARCH, Cores, Spaces, kernel, None,
          PT_LEVELS, FRAMES,
          VSPACE,        \* addresses are 0 .. VSPACE - 1
          Requests,      \* <<vaddr, protection, cache mode>> asked of map_page
          DATA,          \* physical address that data pages are mapped to
          Cached,        \* addresses whose translations the TLBs are followed for
          SPECULATIVE    \* whether a core fills its TLB between the two steps of activate

PAGE == 2
VA_BITS == PT_LEVELS + 1
Entries == {0, 1}
Absent == [addr |-> 0, bits |-> {}]
Free == [i \in Entries |-> Absent]
EmptyTlb == [v \in {} |-> 0]

VARIABLES mem,     \* page-table pages, by physical address
          free,    \* frames the PMM may give to tables
          root,    \* m_arch.root_phys of each space, 0 for none
          satp,    \* root each core walks
          active,  \* g_active_space
          running, \* space of the thread on each core
          pc,      \* what each core is in the middle of
          tlb      \* translations each core has cached, 0 for a cached miss

vars == <<mem, free, root, satp, active, running, pc, tlb>>
tables == <<mem, free, root>>
cores == <<satp, active, running, pc, tlb>>

(***************************************************************************)
(* Entry formats.                                                          *)
(***************************************************************************)
riscv == ARCH = "riscv64"
Modes == <<"CACHED", "DEVICE", "WRITE_COMBINING">>
mode_number(c) == CHOOSE i \in 0 .. 2 : Modes[i + 1] = c

pte_present(e) == "present" \in e.bits

\* Sv39: any of R/W/X makes a leaf; the cache mode is kept in the two software bits.
sv39_leaf(e) == e.bits \cap {"READ", "WRITE", "EXECUTE"} # {}
soft_bits(cache) == {b \in {"RSW0", "RSW1"} : (mode_number(cache) \div (IF b = "RSW0" THEN 1 ELSE 2)) % 2 = 1}
sv39_flags(prot, cache) == {"ACCESSED", "DIRTY"} \cup prot \cup soft_bits(cache)
sv39_attrs(e, paddr) ==
    [paddr |-> paddr, prot |-> e.bits \cap {"READ", "WRITE", "EXECUTE", "USER"},
     cache |-> Modes[1 + (IF "RSW0" \in e.bits THEN 1 ELSE 0) + (IF "RSW1" \in e.bits THEN 2 ELSE 0)]]

\* x86_64: no read bit, execution denied by a bit of its own, and only "cached or not".
x86_leaf(e) == "HUGE" \in e.bits
x86_flags(prot, cache) ==
    (prot \cap {"WRITE", "USER"})
    \cup (IF "EXECUTE" \in prot THEN {} ELSE {"NO_EXECUTE"})
    \cup (IF cache \in {"DEVICE", "WRITE_COMBINING"} THEN {"CACHE_DISABLE"} ELSE {})
x86_attrs(e, paddr) ==
    [paddr |-> paddr,
     prot |-> {"READ"} \cup (e.bits \cap {"WRITE", "USER"}) \cup (IF "NO_EXECUTE" \in e.bits THEN {} ELSE {"EXECUTE"}),
     cache |-> IF "CACHE_DISABLE" \in e.bits THEN "DEVICE" ELSE "CACHED"]

pte_leaf(e) == IF riscv THEN sv39_leaf(e) ELSE x86_leaf(e)
pte_leaf_bottom(e) == riscv => sv39_leaf(e)
leaf_flags(prot, cache) == IF riscv THEN sv39_flags(prot, cache) ELSE x86_flags(prot, cache)
attrs_from_pte(e, paddr) == IF riscv THEN sv39_attrs(e, paddr) ELSE x86_attrs(e, paddr)
make_leaf(paddr, flags) == [addr |-> paddr, bits |-> flags \cup {"present"}]
make_table_ptr(child, flags) ==
    [addr |-> child, bits |-> IF riscv THEN {"present"} ELSE {"present", "WRITE"} \cup (flags \cap {"USER"})]
widen_table_ptr(e, flags) == IF riscv THEN e ELSE [e EXCEPT !.bits = @ \cup (flags \cap {"USER"})]

(***************************************************************************)
(* Walking.                                                                *)
(***************************************************************************)
level_index(v, level) == (v \div 2 ^ (VA_BITS - 1 - level)) % 2
is_canonical_any(v) == TRUE
is_canonical(v) == LET s == v \div 2 ^ (VA_BITS - 1) IN s = 0 \/ s = (VSPACE \div 2 ^ (VA_BITS - 1)) - 1
low_limit == 2 ^ (VA_BITS - 1)

RECURSIVE resolve(_, _, _)
\* The terminal entry for v from the table at t, and the size of what it maps; None if unmapped.
resolve(t, v, level) ==
    LET e == mem[t][level_index(v, level)]
    IN  IF ~pte_present(e) THEN None
        ELSE IF level = PT_LEVELS - 1
             THEN IF pte_leaf_bottom(e) THEN [entry |-> e, span |-> 2 ^ (VA_BITS - level - 1)] ELSE None
        ELSE IF pte_leaf(e) THEN [entry |-> e, span |-> 2 ^ (VA_BITS - level - 1)]
        ELSE resolve(e.addr, v, level + 1)

walk_ext(r, v) ==
    LET term == resolve(r, v, 0)
    IN  IF r = 0 \/ ~is_canonical(v) \/ term = None THEN None
        ELSE attrs_from_pte(term.entry, (term.entry.addr - (term.entry.addr % term.span)) + (v % term.span))
walk(r, v) == IF walk_ext(r, v) = None THEN 0 ELSE walk_ext(r, v).paddr

\* The tables on the way to v's leaf slot, from table t of a level: a sequence as long as the walk gets.
RECURSIVE Path(_, _, _)
Path(t, v, level) ==
    LET e == mem[t][level_index(v, level)]
    IN  IF level = PT_LEVELS - 1 \/ ~pte_present(e) \/ pte_leaf(e) THEN <<t>>
        ELSE <<t>> \o Path(e.addr, v, level + 1)

RECURSIVE Subtree(_, _)
\* The tables reachable from an entry that points at one of a level.
Subtree(e, level) ==
    IF ~pte_present(e) \/ pte_leaf(e) \/ level <= 1 THEN {}
    ELSE {e.addr} \cup UNION {Subtree(mem[e.addr][i], level - 1) : i \in Entries}

(***************************************************************************)
(* Building and tearing down.                                              *)
(***************************************************************************)
\* Any free frame will do: the PMM's lowest.
Take(n) == CHOOSE S \in SUBSET free : Cardinality(S) = n /\ \A f \in S, g \in free \ S : f < g
Nth(S, i) == CHOOSE f \in S : Cardinality({g \in S : g < f}) = i - 1

\* The bootloader's tables: a large leaf and a table of small ones in the kernel half.
BootRoot == -3
BootMem ==
    [t \in {-3, -2, -1} |->
        CASE t = -3 -> [i \in Entries |-> IF i = 1 THEN make_table_ptr(-2, {}) ELSE Absent]
          [] t = -2 -> [i \in Entries |-> IF i = 0 THEN [make_leaf(40, leaf_flags({"READ", "WRITE"}, "CACHED")) EXCEPT !.bits = @ \cup {"HUGE"}]
                                          ELSE make_table_ptr(-1, {})]
          [] t = -1 -> [i \in Entries |-> IF i = 0 THEN make_leaf(50, leaf_flags({"READ", "EXECUTE"}, "CACHED")) ELSE Absent]]

Init ==
    /\ mem = [t \in {-3, -2, -1} \cup {2 * f : f \in 1 .. FRAMES} |-> IF t < 0 THEN BootMem[t] ELSE Free]
    /\ free = {2 * f : f \in 1 .. FRAMES}
    /\ root = [s \in Spaces \cup {kernel} |-> 0]
    /\ satp = [c \in Cores |-> BootRoot] /\ active = [c \in Cores |-> None]
    /\ running = [c \in Cores |-> None] /\ pc = [c \in Cores |-> <<"run">>] /\ tlb = [c \in Cores |-> EmptyTlb]

\* arch_init_kernel: every table of the kernel half is copied into frames the kernel owns, leaves
\* verbatim, pointers redirected; then the space is activated (by each core as it comes up).
Owned(old) == {BootRoot} \cup Subtree(old[1], PT_LEVELS)
arch_init_kernel ==
    LET old == Owned(mem[BootRoot])
        new == Take(Cardinality(old))
        copy == [t \in old |-> Nth(new, Cardinality({u \in old : u <= t}))]
        Redirect(e) == IF pte_present(e) /\ ~pte_leaf(e) /\ e.addr \in old THEN [e EXCEPT !.addr = copy[e.addr]] ELSE e
    IN  /\ root[kernel] = 0 /\ Cardinality(free) >= Cardinality(old)
        /\ mem' = [t \in DOMAIN mem |->
                     IF t \notin new THEN mem[t]
                     ELSE LET src == CHOOSE u \in old : copy[u] = t
                          IN  [i \in Entries |-> IF src = BootRoot /\ i = 0 THEN Absent ELSE Redirect(mem[src][i])]]
        /\ free' = free \ new
        /\ root' = [root EXCEPT ![kernel] = copy[BootRoot]]
        /\ UNCHANGED cores

\* arch_init: a root that shares the kernel half of the space the core runs on.
arch_init(c, s) ==
    LET f == Nth(free, 1)
    IN  /\ root[kernel] # 0 /\ active[c] # None /\ root[s] = 0 /\ free # {} /\ pc[c] = <<"run">>
        /\ mem' = [mem EXCEPT ![f] = [i \in Entries |-> IF i = 1 THEN mem[satp[c]][1] ELSE Absent]]
        /\ free' = free \ {f}
        /\ root' = [root EXCEPT ![s] = f]
        /\ UNCHANGED cores

\* arch_destroy: the user half's tables and the root go back to the PMM.
Halves == {0}
arch_destroy(s) ==
    LET gone == {root[s]} \cup UNION {Subtree(mem[root[s]][i], PT_LEVELS) : i \in Halves}
    IN  /\ root[s] # 0
        /\ \A c \in Cores : s # running[c] /\ (Len(pc[c]) > 1 => s # pc[c][2])
        /\ mem' = [t \in DOMAIN mem |-> IF t \in gone THEN Free ELSE mem[t]]
        /\ free' = free \cup gone
        /\ root' = [root EXCEPT ![s] = 0]
        /\ active' = [c \in Cores |-> IF active[c] = s THEN None ELSE active[c]]
        /\ UNCHANGED <<satp, running, pc, tlb>>

(***************************************************************************)
(* Mapping.                                                                *)
(***************************************************************************)
Locked == \E c \in Cores : pc[c][1] \in {"shoot", "fence"}
Drop(c, v) == [w \in DOMAIN tlb[c] \ {v} |-> tlb[c][w]]
remote_cores_with_none(c, s) == {}
remote_cores_with(c, s) == {d \in Cores \ {c} : active[d] = s}

LocalFlush(c, r, v) == IF satp[c] = r THEN [tlb EXCEPT ![c] = Drop(c, v)] ELSE tlb
flush_new_leaf(c, r, v) == IF riscv THEN LocalFlush(c, r, v) ELSE tlb

\* ensure_leaf_slot: the tables that exist are widened, the missing ones allocated and linked from
\* the top down; when a frame is missing, what the walk linked is unlinked and freed again.
Widened(path, v, flags) ==
    [t \in DOMAIN mem |->
        IF \E i \in 1 .. Len(path) - 1 : path[i] = t
        THEN LET i == CHOOSE k \in 1 .. Len(path) - 1 : path[k] = t
             IN  [mem[t] EXCEPT ![level_index(v, i - 1)] = widen_table_ptr(@, flags)]
        ELSE mem[t]]
ensure_leaf_slot(path, v, flags, new) ==
    LET n == Len(path)
        all == path \o [i \in 1 .. PT_LEVELS - n |-> Nth(new, i)]
    IN  [t \in DOMAIN mem |->
            IF \E i \in n .. PT_LEVELS - 1 : all[i] = t
            THEN LET i == CHOOSE k \in n .. PT_LEVELS - 1 : all[k] = t
                 IN  [mem[t] EXCEPT ![level_index(v, i - 1)] = make_table_ptr(all[i + 1], flags)]
            ELSE Widened(path, v, flags)[t]]

Unwind(got) == got

map_page(c, s, r) ==
    LET v == r[1]
        flags == leaf_flags(r[2], r[3])
        path == Path(root[s], v, 0)
        missing == PT_LEVELS - Len(path)
        last == path[Len(path)]
        large == missing > 0 /\ pte_present(mem[last][level_index(v, Len(path) - 1)])
    IN  /\ pc[c] = <<"run">> /\ ~Locked /\ running[c] = s /\ root[s] # 0
        /\ is_canonical(v) /\ v % PAGE = 0 /\ "READ" \in r[2]
        /\ UNCHANGED root
        /\ IF large \/ missing > Cardinality(free)
           THEN /\ free' = IF large \/ free = {} THEN free ELSE Unwind(free)
                /\ mem' = Widened(path, v, flags) /\ UNCHANGED cores
           ELSE LET new == Take(missing)
                    slots == ensure_leaf_slot(path, v, flags, new)
                    leaf == IF missing = 0 THEN last ELSE Nth(new, missing)
                    i == level_index(v, PT_LEVELS - 1)
                IN  /\ free' = free \ new
                    /\ IF pte_present(slots[leaf][i])
                       THEN mem' = slots /\ UNCHANGED cores
                       ELSE /\ mem' = [slots EXCEPT ![leaf][i] = make_leaf(DATA, flags)]
                            /\ tlb' = flush_new_leaf(c, root[s], v)
                            /\ pc' = [pc EXCEPT ![c] = <<"shoot", s, v>>]
                            /\ UNCHANGED <<satp, active, running>>

\* unmap_page: small pages only.
unmap_page(c, s, v) ==
    LET path == Path(root[s], v, 0)
        last == path[Len(path)]
        i == level_index(v, PT_LEVELS - 1)
    IN  /\ pc[c] = <<"run">> /\ ~Locked /\ running[c] = s /\ root[s] # 0 /\ is_canonical(v) /\ v % PAGE = 0
        /\ Len(path) = PT_LEVELS /\ pte_present(mem[last][i])
        /\ mem' = [mem EXCEPT ![last][i] = Absent]
        /\ tlb' = LocalFlush(c, root[s], v)
        /\ pc' = [pc EXCEPT ![c] = <<"shoot", s, v>>]
        /\ UNCHANGED <<free, root, satp, active, running>>

\* The other cores the space is live on are read, then fenced; x86_64 fences none.
ShootMask(c) ==
    /\ pc[c][1] = "shoot"
    /\ LET remote == remote_cores_with(c, pc[c][2])
       IN  pc' = [pc EXCEPT ![c] = IF remote = {} \/ ~riscv THEN <<"run">> ELSE <<"fence", pc[c][2], pc[c][3], remote>>]
    /\ UNCHANGED <<tables, satp, active, running, tlb>>
shootdown_tlb_page(c) ==
    /\ pc[c][1] = "fence"
    /\ tlb' = [d \in Cores |-> IF d \in pc[c][4] THEN Drop(d, pc[c][3]) ELSE tlb[d]]
    /\ pc' = [pc EXCEPT ![c] = <<"run">>]
    /\ UNCHANGED <<tables, satp, active, running>>

(***************************************************************************)
(* The scheduler's switch: the space of the next thread is loaded, then    *)
(* recorded.                                                               *)
(***************************************************************************)
Leaving(c, s) == running[c] \* the outgoing thread counts as on the core until finish_switch
Switch(c, s) ==
    /\ pc[c] = <<"run">> /\ root[s] # 0 /\ s # running[c]
    /\ running' = [running EXCEPT ![c] = Leaving(c, s)]
    /\ pc' = [pc EXCEPT ![c] = IF active[c] = s THEN <<"finish", s>> ELSE <<"set_root", s>>]
    /\ UNCHANGED <<tables, satp, active, tlb>>
set_root(c) ==
    /\ pc[c][1] = "set_root"
    /\ satp' = [satp EXCEPT ![c] = root[pc[c][2]]]
    /\ tlb' = [tlb EXCEPT ![c] = EmptyTlb]
    /\ pc' = [pc EXCEPT ![c] = <<"record", pc[c][2]>>]
    /\ UNCHANGED <<tables, active, running>>
Record(c) ==
    /\ pc[c][1] = "record"
    /\ active' = [active EXCEPT ![c] = pc[c][2]]
    /\ pc' = [pc EXCEPT ![c] = <<"finish", pc[c][2]>>]
    /\ UNCHANGED <<tables, satp, running, tlb>>
Finish(c) ==
    /\ pc[c][1] = "finish"
    /\ running' = [running EXCEPT ![c] = pc[c][2]] /\ pc' = [pc EXCEPT ![c] = <<"run">>]
    /\ UNCHANGED <<tables, satp, active, tlb>>

\* The hardware walks the tables, and may cache what it finds; Sv39 may also cache a miss.
Fill(c, v) ==
    LET paddr == walk(satp[c], v)
    IN  /\ satp[c] # BootRoot /\ v \notin DOMAIN tlb[c] /\ (paddr # 0 \/ riscv)
        /\ pc[c][1] = "record" => SPECULATIVE
        /\ tlb' = [tlb EXCEPT ![c] = [w \in DOMAIN @ \cup {v} |-> IF w = v THEN paddr ELSE @[w]]]
        /\ UNCHANGED <<tables, satp, active, running, pc>>

Next ==
    \/ arch_init_kernel
    \/ \E s \in Spaces : arch_destroy(s)
    \/ \E c \in Cores :
          \/ \E s \in Spaces : \/ arch_init(c, s)
                               \/ \E r \in Requests : map_page(c, s, r) \/ unmap_page(c, s, r[1])
          \/ ShootMask(c) \/ shootdown_tlb_page(c) \/ set_root(c) \/ Record(c) \/ Finish(c)
          \/ \E s \in Spaces \cup {kernel} : Switch(c, s)
          \/ \E v \in Cached : Fill(c, v)

Spec == Init /\ [][Next]_vars

-----------------------------------------------------------------------------
(***************************************************************************)
(* Correctness.                                                            *)
(***************************************************************************)
Live == {s \in Spaces \cup {kernel} : root[s] # 0}
TablesOf(s, half) == Subtree(mem[root[s]][half], PT_LEVELS)
Pages == {v \in 0 .. VSPACE - 1 : v % PAGE = 0}

\* Table frames are neither lost nor shared: every frame not with the PMM is a root or belongs to the
\* user half of one space or to the kernel half of all, also after a map that ran out of frames
\* half-way (paging.cpp:75) and after a destroy.
TablesExact ==
    root[kernel] # 0 =>
        /\ \A s, t \in Live : s # t => ({root[s]} \cup TablesOf(s, 0)) \cap ({root[t]} \cup TablesOf(t, 0) \cup TablesOf(kernel, 1)) = {}
        /\ DOMAIN mem \ {-3, -2, -1} = free \cup UNION {{root[s]} \cup TablesOf(s, 0) \cup TablesOf(s, 1) : s \in Live}
        /\ \A s \in Live : free \cap ({root[s]} \cup TablesOf(s, 0) \cup TablesOf(s, 1)) = {}

\* "A core holds a user address space active only while running one of that task's threads, so the
\* reaper can tear a space down from any core" (scheduler.cpp:129): no core walks a freed table, and
\* once the kernel is on its own tables none walks the bootloader's.
WalksLive ==
    \A c \in Cores : satp[c] # BootRoot =>
        /\ \E s \in Live : root[s] = satp[c]
        /\ \A v \in Pages : LET p == Path(satp[c], v, 0) IN \A i \in DOMAIN p : p[i] > 0 /\ p[i] \notin free

\* On x86_64 user mode needs the USER bit at every level: a page mapped for user mode is reachable by
\* it, whatever was mapped under the same tables before (make_table_ptr, widen_table_ptr).
UserReachable ==
    \A s \in Live : \A v \in Pages :
        LET a == walk_ext(root[s], v)
            p == Path(root[s], v, 0)
        IN  (a # None /\ "USER" \in a.prot /\ ~riscv) => \A i \in DOMAIN p : "USER" \in mem[p[i]][level_index(v, i - 1)].bits

\* "SBI RFENCE ... returns once they have executed it, so the caller's unmap is complete everywhere on
\* return" (riscv64/paging.cpp:111), and a new leaf is not hidden by a cached miss: with no map or
\* unmap under way, what a core has cached is what its tables say.
TlbCoherent ==
    ~Locked => \A c \in Cores : \A v \in DOMAIN tlb[c] : tlb[c][v] = walk(satp[c], v)

\* The spaces as maps from pages to translations.
Attributes == {[paddr |-> DATA, prot |-> r[2], cache |-> r[3]] : r \in Requests}
Abstract ==
    INSTANCE Translations WITH
        UserPages <- {v \in Pages : v < low_limit},
        KernelPages <- {v \in Pages : v >= low_limit},
        Nothing <- None,
        KernelMap <- [v \in {w \in Pages : w >= low_limit} |->
                        IF v >= VSPACE - low_limit /\ v < VSPACE - low_limit + 4 THEN [paddr |-> 40 + (v % 4), prot |-> {"READ", "WRITE"}, cache |-> "CACHED"]
                        ELSE IF v = VSPACE - 4 THEN [paddr |-> 50, prot |-> {"READ", "EXECUTE"}, cache |-> "CACHED"]
                        ELSE None],
        map <- [s \in Spaces |-> IF root[s] = 0 THEN None ELSE [v \in Pages |-> walk_ext(root[s], v)]]

\* Page tables implement the maps of Translations: one page at a time, the attributes asked for (cache
\* modes only ever stricter), the kernel half of every space the kernel's, and non-canonical
\* addresses unmapped rather than aliased.
ImplementsTranslations == Abstract!Spec
=============================================================================
