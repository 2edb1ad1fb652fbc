--------------------------------- MODULE Vm ---------------------------------
(***************************************************************************)
(* Virtual memory above the page tables: an address space's region tree    *)
(* (mm/region.cpp), virtual memory objects and their pagers (mm/vmo.cpp,   *)
(* mm/pager_*.cpp), demand paging (mm/fault.cpp) and the system calls that *)
(* drive them (syscalls/vmo.cpp).  Everything is done under one lock,      *)
(* g_vmm_lock, so an operation is one step -- except the teardown of an    *)
(* address space, which takes no lock and is taken apart here.             *)
(*                                                                         *)
(* An address is a number of units, PAGE of them to a page, below WORD     *)
(* (2^64 in the code): alignment and wrap-around stay what they are.  A    *)
(* slot of the region tree is a record; "up" is 0 in the root region and   *)
(* the base of the sub-region elsewhere.  A user task has one thread.      *)
(***************************************************************************)
EXTENDS Integers, Sequences, FiniteSets, SequencesExt

CONSTANTS Tasks,        \* user tasks, each with one address space and one thread
          Anon, Device, \* VMOs by pager: zero-fill frames, a fixed window
          Size,         \* pages of each VMO
          PAGE, WORD,   \* units of a page, of the machine word
          LIMIT, FLOOR, \* low_limit(), USER_MAP_FLOOR
          CHUNK,        \* CHUNK_ENTRIES of the residency index
          FRAMES,       \* frames the PMM has
          HEAP,         \* slots the kernel heap has room for
          Vaddrs, Lengths, Offsets, Prots, \* what the callers ask for
          Subs, Touch   \* where kernel code carves sub-regions, where threads load and store

Vmos == Anon \cup Device
None == [none |-> 0]
Rights == {"R", "W"}
ZeroPage == FRAMES + 1
Window(p) == ZeroPage + 1 + p
Pages == 0 .. LIMIT \div PAGE - 1
NoPte == [frame |-> 0, prot |-> {}, cache |-> "CACHED"]
Rest == [at |-> "none", vaddr |-> 0, write |-> FALSE, present |-> FALSE]
\* The root region: the low half without the null page, every protection allowed.
Root == [base |-> PAGE, size |-> LIMIT - PAGE, prot |-> {"R", "W", "X", "U"}]

\* What the address arithmetic relies on.
Sane == /\ PAGE > 0 /\ LIMIT % PAGE = 0 /\ FLOOR % PAGE = 0 /\ 2 * LIMIT <= WORD
        /\ Anon \cap Device = {} /\ CHUNK > 0

VARIABLES slots,     \* every region_child of every tree
          data, size,\* m_mappings of each VMO: its array and m_size
          handles,   \* rights of each task's handle to each VMO, {} for no handle
          live,      \* VMOs that exist
          mem,       \* residency index and its chunks, page descriptors, free frames
          pt,        \* translations: task -> page -> leaf
          thread,    \* the task's thread and the access it faulted on
          swap       \* teardown: the index swap_remove is filling, 0 for none

vars == <<slots, data, size, handles, live, mem, pt, thread, swap>>

Init ==
    /\ slots = {} /\ data = [v \in Vmos |-> <<>>] /\ size = [v \in Vmos |-> 0]
    /\ handles = [t \in Tasks |-> [v \in Vmos |-> {}]]
    /\ live = {}
    /\ mem = [chunks   |-> [v \in Vmos |-> [c \in 0 .. (Size[v] - 1) \div CHUNK |-> 0]],
              resident |-> [v \in Vmos |-> [p \in 0 .. Size[v] - 1 |-> 0]],
              owner    |-> [f \in 1 .. Window(FRAMES) |-> <<>>],
              free     |-> 1 .. FRAMES]
    /\ pt = [t \in Tasks |-> [p \in Pages |-> NoPte]]
    /\ thread = [t \in Tasks |-> Rest]
    /\ swap = [t \in Tasks |-> 0]

Running(t) == thread[t].at = "run"
Key(s) == <<s.task, s.up, s.base>>

(***************************************************************************)
(* The region tree.                                                        *)
(***************************************************************************)
Children(t, up) == {s \in slots : s.task = t /\ s.up = up}
RegionAt(t, up) == IF up = 0 THEN Root ELSE CHOOSE s \in Children(t, 0) : s.base = up

\* m_children.find_le: the last slot that starts at or before an address, as a set.
FindLe(S, addr) ==
    LET below == {s \in S : s.base <= addr}
    IN  {s \in below : \A o \in below : o.base <= s.base}

\* Siblings are disjoint: only the last slot that starts before the end can overlap.
Vacant(t, up, base, end) ==
    \A s \in FindLe(Children(t, up), end - 1) : s.base + s.size <= base

insert_slot(t, up, base, sz, prot) ==
    LET r == RegionAt(t, up)
        end == (base + sz) % WORD
    IN  /\ sz # 0 /\ base % PAGE = 0 /\ sz % PAGE = 0
        /\ end >= base
        /\ base >= r.base /\ end <= r.base + r.size
        /\ prot \subseteq r.prot
        /\ Vacant(t, up, base, end)
        /\ Cardinality(slots) < HEAP

\* One turn of map_anywhere's loop; "found" is its break.
Visit(c, s, sz) ==
    IF c.found \/ s.base + s.size <= c.at THEN c
    ELSE IF s.base >= c.at /\ s.base - c.at >= sz THEN [c EXCEPT !.found = TRUE]
    ELSE [c EXCEPT !.at = s.base + s.size]

\* Where map_anywhere binds: the slots of the root region are visited in address order.
Cursor(S, floor, sz) ==
    LET inOrder == SetToSortSeq(S, LAMBDA a, b : a.base < b.base)
    IN  FoldLeft(LAMBDA c, s : Visit(c, s, sz),
                 [at |-> Max({floor, Root.base}), found |-> FALSE], inOrder).at

\* find_binding: the deepest slot that holds the address, if it is a binding.
find_binding(t, addr) ==
    LET Hit(up) == {s \in FindLe(Children(t, up), addr) : addr < s.base + s.size}
    IN  UNION {IF s.sub THEN Hit(s.base) ELSE {s} : s \in Hit(0)}

stricter_cache(a, b) ==
    IF "DEVICE" \in {a, b} THEN "DEVICE" ELSE IF "WC" \in {a, b} THEN "WC" ELSE "CACHED"
cache_mode(v) == IF v \in Device THEN "WC" ELSE "CACHED"

\* The slots that go with S: a sub-region takes its own children along.
WithBelow(S) == S \cup {c \in slots : \E s \in S : s.sub /\ c.task = s.task /\ c.up = s.base}
Covers(s, p) == ~s.sub /\ s.base <= p * PAGE /\ p * PAGE < s.base + s.size
zap_range_first(S) ==
    [t \in Tasks |-> [p \in Pages |-> IF \E s \in S : s.task = t /\ ~s.sub /\ s.base = p * PAGE THEN NoPte ELSE pt[t][p]]]
zap_range(S) ==
    [t \in Tasks |-> [p \in Pages |-> IF \E s \in S : s.task = t /\ Covers(s, p) THEN NoPte ELSE pt[t][p]]]

(***************************************************************************)
(* VMOs: residency, back-references and the end of the last reference.     *)
(***************************************************************************)
Alloc(F) == CHOOSE f \in F : \A g \in F : f <= g

\* An absent chunk of the index is a frame of its own, allocated on first touch.
chunk_for(v, p, m) ==
    IF m.chunks[v][p \div CHUNK] # 0 \/ m.free = {} THEN m
    ELSE [m EXCEPT !.chunks[v][p \div CHUNK] = Alloc(m.free), !.free = @ \ {Alloc(@)}]

\* pager::fill: a fresh frame of the PMM, or the window's own.
fill(v, p, m) ==
    LET f == IF v \in Device THEN Window(p) ELSE Alloc(m.free)
    IN  [m EXCEPT !.resident[v][p] = f, !.owner[f] = <<v, p>>, !.free = @ \ {f}]

\* The memory after fill_page; the page stays absent when a frame was missing.
fill_page(v, p, m) ==
    LET m1 == chunk_for(v, p, m)
    IN  IF m1.chunks[v][p \div CHUNK] = 0 \/ m1.resident[v][p] # 0 \/ (v \in Anon /\ m1.free = {})
        THEN m1 ELSE fill(v, p, m1)

\* ~vmo of every VMO that S and H no longer refer to: frames a pager owns go back to the PMM, and
\* so do the chunks.
Unreferenced(S, H) == {v \in live : (\A t \in Tasks : H[t][v] = {}) /\ (\A s \in S : s.vmo # v)}
destroy_vmos(D, m) ==
    LET held(v) == {m.resident[v][p] : p \in DOMAIN m.resident[v]} \ {0}
        index(v) == {m.chunks[v][c] : c \in DOMAIN m.chunks[v]} \ {0}
        back == UNION {index(v) : v \in D} \cup UNION {held(v) : v \in D \cap Anon}
    IN  [chunks   |-> [v \in Vmos |-> [c \in DOMAIN m.chunks[v] |-> IF v \in D THEN 0 ELSE m.chunks[v][c]]],
         resident |-> [v \in Vmos |-> [p \in DOMAIN m.resident[v] |-> IF v \in D THEN 0 ELSE m.resident[v][p]]],
         owner    |-> [f \in DOMAIN m.owner |-> IF \E v \in D : f \in held(v) THEN <<>> ELSE m.owner[f]],
         free     |-> m.free \cup back]
\* A VMO that dies while mapped fails the destructor's assertion and stops the kernel: no step.
Release(S, H) ==
    /\ \A v \in Unreferenced(S, H) : size'[v] = 0
    /\ live' = live \ Unreferenced(S, H)
    /\ mem' = destroy_vmos(Unreferenced(S, H), mem)

\* m_mappings: push_back, and the two halves of swap_remove.
PushBack(v, e) ==
    /\ data' = [data EXCEPT ![v] = IF size[v] < Len(@) THEN [@ EXCEPT ![size[v] + 1] = e] ELSE Append(@, e)]
    /\ size' = [size EXCEPT ![v] = @ + 1]
Recorded(v) == SubSeq(data[v], 1, size[v])
\* What the array holds past m_size matters only to a swap_remove under way.
PastEnd(v) == IF \E t \in Tasks : swap[t] # 0 THEN SubSeq(data[v], size[v] + 1, Len(data[v])) ELSE <<>>
\* remove_mapping of every slot of S, under the lock: what is left keeps no order a reader relies on.
RemoveMappings(S) ==
    LET kept(v) == SelectSeq(Recorded(v), LAMBDA e : \A s \in S : Key(s) # e)
    IN  /\ data' = [v \in Vmos |-> IF \E s \in S : s.vmo = v THEN kept(v) \o PastEnd(v) ELSE data[v]]
        /\ size' = [v \in Vmos |-> IF \E s \in S : s.vmo = v THEN Len(kept(v)) ELSE size[v]]

(***************************************************************************)
(* System calls and kernel calls on handles and VMOs.                      *)
(***************************************************************************)
sys_vmo_create(t, v) ==
    /\ Running(t) /\ v \in Anon \ live
    /\ live' = live \cup {v}
    /\ handles' = [handles EXCEPT ![t][v] = Rights]
    /\ UNCHANGED <<slots, data, size, mem, pt, thread, swap>>

\* A boot module or device window reaches a task as a read-only handle.
create_wired_vmo(t, v) ==
    /\ Running(t) /\ v \in Device \ live
    /\ live' = live \cup {v}
    /\ handles' = [handles EXCEPT ![t][v] = {"R"}]
    /\ UNCHANGED <<slots, data, size, mem, pt, thread, swap>>

\* Handles move between tasks over channels, mapped or not.
PassHandle(t, u, v) ==
    /\ Running(t) /\ Running(u) /\ t # u /\ handles[t][v] # {} /\ handles[u][v] = {}
    /\ handles' = [handles EXCEPT ![t][v] = {}, ![u][v] = handles[t][v]]
    /\ UNCHANGED <<slots, data, size, live, mem, pt, thread, swap>>

CloseHandle(t, v) ==
    /\ Running(t) /\ handles[t][v] # {}
    /\ handles' = [handles EXCEPT ![t][v] = {}]
    /\ UNCHANGED <<slots, data, size, pt, thread, swap>>
    /\ Release(slots, handles')

\* Eager population by kernel code, of a VMO that user tasks may have mapped (task_spawn's image).
commit(v, p, n) ==
    /\ v \in live /\ p + n <= Size[v]
    /\ LET upTo[i \in 0 .. n] ==
               IF i = 0 THEN mem
               ELSE IF i > 1 /\ upTo[i - 1].resident[v][p + i - 2] = 0 THEN upTo[i - 1]
               ELSE fill_page(v, p + i - 1, upTo[i - 1])
       IN  mem' = upTo[n]
    /\ UNCHANGED <<slots, data, size, handles, live, pt, thread, swap>>

(***************************************************************************)
(* Binding and unbinding.                                                  *)
(***************************************************************************)
\* A back-reference that cannot be recorded (untracked) undoes the binding.
add_mapping(s, tracked) ==
    IF tracked /\ size[s.vmo] < HEAP THEN slots' = slots \cup {s} /\ PushBack(s.vmo, Key(s))
    ELSE UNCHANGED <<slots, data, size>>

map_locked(t, up, vaddr, sz, v, off, prot, tracked) ==
    /\ off % PAGE = 0
    /\ (off + sz) % WORD >= off /\ ((off + sz) % WORD) \div PAGE <= Size[v]
    /\ insert_slot(t, up, vaddr, sz, prot)
    /\ LET s == [task |-> t, up |-> up, base |-> vaddr, size |-> sz, prot |-> prot, sub |-> FALSE,
                 vmo |-> v, off |-> off, cache |-> stricter_cache("CACHED", cache_mode(v))]
       IN  add_mapping(s, tracked)

\* Each protection needs its right on the handle; address 0 asks the kernel to choose.
sys_vmo_map(t, v, vaddr, off, len, prot, tracked) ==
    /\ Running(t)
    /\ prot # {} /\ prot \subseteq Rights /\ prot \subseteq handles[t][v]
    /\ IF vaddr # 0 THEN map_locked(t, 0, vaddr, len, v, off, prot \cup {"U"}, tracked)
       ELSE LET at == Cursor(Children(t, 0), FLOOR, len)
            IN  /\ len # 0 /\ len % PAGE = 0
                /\ at <= LIMIT /\ LIMIT - at >= len
                /\ map_locked(t, 0, at, len, v, off, prot \cup {"U"}, tracked)
    /\ UNCHANGED <<handles, live, mem, pt, thread, swap>>

\* remove_slot of a set of slots, under the lock.
RemoveSlots(S) ==
    LET gone == WithBelow(S)
    IN  /\ slots' = slots \ gone
        /\ pt' = zap_range(gone)
        /\ RemoveMappings(gone)
        /\ Release(slots', handles)

sys_vmo_unmap(t, vaddr) ==
    /\ Running(t)
    /\ \E s \in FindLe(Children(t, 0), vaddr) :
          vaddr < s.base + s.size /\ ~s.sub /\ RemoveSlots({s})
    /\ UNCHANGED <<handles, thread, swap>>

\* Kernel code: a sub-region, and a binding inside it.
create_child(t, base, sz, max) ==
    /\ Running(t)
    /\ insert_slot(t, 0, base, sz, max)
    /\ slots' = slots \cup {[task |-> t, up |-> 0, base |-> base, size |-> sz, prot |-> max, sub |-> TRUE,
                             vmo |-> None, off |-> 0, cache |-> "CACHED"]}
    /\ UNCHANGED <<data, size, handles, live, mem, pt, thread, swap>>

map(t, up, vaddr, sz, v, off, prot, tracked) ==
    /\ Running(t) /\ v \in live
    /\ map_locked(t, up, vaddr, sz, v, off, prot, tracked)
    /\ UNCHANGED <<handles, live, mem, pt, thread, swap>>

\* Whole slots only: a range that cuts through one is refused.
unmap(t, base, sz) ==
    LET end == (base + sz) % WORD
        hit == {s \in Children(t, 0) : s.base < end /\ s.base + s.size > base}
    IN  /\ Running(t)
        /\ end >= base /\ base >= Root.base /\ end <= LIMIT
        /\ \A s \in hit : s.base >= base /\ s.base + s.size <= end
        /\ RemoveSlots({s \in Children(t, 0) : s.base >= base /\ s.base < end})
        /\ UNCHANGED <<handles, thread, swap>>

(***************************************************************************)
(* Demand paging.  "present" is read from the trap before the lock.        *)
(***************************************************************************)
PageOf(addr) == addr \div PAGE
Allows(t, addr, write) ==
    {"R", "U"} \cup (IF write THEN {"W"} ELSE {}) \subseteq pt[t][PageOf(addr)].prot

Trap(t, addr, write) ==
    /\ Running(t) /\ ~Allows(t, addr, write)
    /\ thread' = [thread EXCEPT ![t] = [at |-> "trap", vaddr |-> addr, write |-> write,
                                        present |-> pt[t][PageOf(addr)] # NoPte]]
    /\ UNCHANGED <<slots, data, size, handles, live, mem, pt, swap>>

\* map_page refuses an address that is translated already; its tables may not be had.
map_page(before, leaf, room) == room /\ before = NoPte /\ "R" \in leaf.prot

ReadOnly(prot) == prot \ {"W"}

\* A frame of the VMO is mapped with the whole protection of its binding, whatever the access.
FrameProt(f, s) == s.prot

\* What the fault wants installed, and the memory it leaves behind: no leaf when it is refused.
Wanted(t, s) ==
    LET f == thread[t]
        p == (f.vaddr - s.base + s.off) \div PAGE
        filled == fill_page(s.vmo, p, mem)
        shared == ~f.write /\ mem.resident[s.vmo][p] = 0 /\ s.vmo \in Anon
    IN  IF p >= Size[s.vmo] \/ (f.present /\ ~f.write) THEN [leaf |-> NoPte, mem |-> mem]
        ELSE IF ~f.present /\ shared
        THEN [leaf |-> [frame |-> ZeroPage, prot |-> ReadOnly(s.prot), cache |-> s.cache], mem |-> mem]
        ELSE IF filled.resident[s.vmo][p] = 0 THEN [leaf |-> NoPte, mem |-> filled]
        ELSE [leaf |-> [frame |-> filled.resident[s.vmo][p], prot |-> FrameProt(f, s), cache |-> s.cache], mem |-> filled]

\* The access fits the binding; a binding without a VMO is a reservation.
Authorized(t, s) == {"R", "U"} \cup (IF thread[t].write THEN {"W"} ELSE {}) \subseteq s.prot

\* A present page is taken out before the new leaf goes in (resolve_cow).
vmm_handle_fault(t, room) ==
    LET f == thread[t]
        p == PageOf(f.vaddr)
        hit == {s \in find_binding(t, f.vaddr) : Authorized(t, s)}
        want == Wanted(t, CHOOSE s \in hit : TRUE)
        freed == IF f.present /\ want.leaf # NoPte THEN [pt EXCEPT ![t][p] = NoPte] ELSE pt
        ok == hit # {} /\ map_page(freed[t][p], want.leaf, room \/ f.present)
    IN  /\ f.at = "trap"
        /\ mem' = IF hit = {} THEN mem ELSE want.mem
        /\ pt' = IF ok THEN [freed EXCEPT ![t][p] = want.leaf] ELSE IF hit = {} THEN pt ELSE freed
        /\ thread' = [thread EXCEPT ![t].at = IF ok THEN "retry" ELSE "dead"]
        /\ UNCHANGED <<slots, data, size, handles, live, swap>>

\* The instruction runs again.
Retry(t) ==
    /\ thread[t].at = "retry"
    /\ thread' = [thread EXCEPT ![t] = [Rest EXCEPT !.at = "run"]]
    /\ UNCHANGED <<slots, data, size, handles, live, mem, pt, swap>>

(***************************************************************************)
(* A task's address space from its creation to its teardown.               *)
(***************************************************************************)
Start(t) ==
    /\ thread[t].at = "none"
    /\ thread' = [thread EXCEPT ![t] = [Rest EXCEPT !.at = "run"]]
    /\ UNCHANGED <<slots, data, size, handles, live, mem, pt, swap>>

Die(t) ==
    /\ Running(t)
    /\ thread' = [thread EXCEPT ![t] = [Rest EXCEPT !.at = "dead"]]
    /\ UNCHANGED <<slots, data, size, handles, live, mem, pt, swap>>

\* teardown_user_task: the handle table first.
ClearHandles(t) ==
    /\ thread[t].at = "dead"
    /\ thread' = [thread EXCEPT ![t] = [Rest EXCEPT !.at = "clear"]]
    /\ handles' = [handles EXCEPT ![t] = [v \in Vmos |-> {}]]
    /\ UNCHANGED <<slots, data, size, pt, swap>>
    /\ Release(slots, handles')

\* clear_children takes the first slot, a sub-region's children before the sub-region.
First(S) == CHOOSE s \in S : \A o \in S : s.base <= o.base
NextSlot(t) ==
    LET s == First(Children(t, 0))
    IN  IF s.sub /\ Children(t, s.base) # {} THEN First(Children(t, s.base)) ELSE s

\* ~Region runs without g_vmm_lock: other tasks' operations fall between its steps.  First half of
\* swap_remove: the index is found and m_size shrinks.
Shrink(t) ==
    LET s == NextSlot(t)
        at == {i \in 1 .. size[s.vmo] : data[s.vmo][i] = Key(s)}
    IN  /\ thread[t].at = "clear" /\ swap[t] = 0 /\ Children(t, 0) # {} /\ ~s.sub
        /\ pt' = zap_range({s})
        /\ swap' = [swap EXCEPT ![t] = IF at = {} THEN -1 ELSE CHOOSE i \in at : \A j \in at : i <= j]
        /\ size' = IF at = {} THEN size ELSE [size EXCEPT ![s.vmo] = @ - 1]
        /\ UNCHANGED <<slots, data, handles, live, mem, thread>>

\* Second half: the element past the end fills the hole; then the slot is erased and deleted.
Erase(t) ==
    LET s == NextSlot(t)
        i == swap[t]
        n == size[s.vmo]
    IN  /\ thread[t].at = "clear" /\ Children(t, 0) # {} /\ (s.sub \/ i # 0)
        /\ data' = IF s.sub \/ i = -1 THEN data
                   ELSE [data EXCEPT ![s.vmo] =
                            LET moved == IF i # n + 1 /\ n < Len(@) THEN [@ EXCEPT ![i] = data[s.vmo][n + 1]] ELSE @
                            IN  IF \E u \in Tasks \ {t} : swap[u] # 0 THEN moved ELSE SubSeq(moved, 1, n)]
        /\ slots' = slots \ {s}
        /\ swap' = [swap EXCEPT ![t] = 0]
        /\ UNCHANGED <<size, handles, pt, thread>>
        /\ Release(slots', handles)

arch_destroy(t) ==
    /\ thread[t].at = "clear" /\ Children(t, 0) = {}
    /\ thread' = [thread EXCEPT ![t] = Rest]
    /\ UNCHANGED <<slots, data, size, handles, live, mem, pt, swap>>

Next ==
    \/ \E t \in Tasks :
          \/ Start(t) \/ Die(t) \/ ClearHandles(t) \/ Shrink(t) \/ Erase(t) \/ arch_destroy(t) \/ Retry(t)
          \/ \E v \in Vmos : sys_vmo_create(t, v) \/ create_wired_vmo(t, v) \/ CloseHandle(t, v)
          \/ \E u \in Tasks, v \in Vmos : PassHandle(t, u, v)
          \/ \E v \in Vmos, vaddr \in Vaddrs \cup {0}, off \in Offsets, len \in Lengths, prot \in Prots,
                tracked \in BOOLEAN : sys_vmo_map(t, v, vaddr, off, len, prot, tracked)
          \/ \E vaddr \in Vaddrs : sys_vmo_unmap(t, vaddr)
          \/ \E base \in Subs, sz \in Lengths, max \in Prots : create_child(t, base, sz, max \cup {"U"})
          \/ \E s \in Children(t, 0), v \in Vmos, vaddr \in Vaddrs, sz \in Lengths, off \in Offsets,
                prot \in Prots, tracked \in BOOLEAN :
                s.sub /\ map(t, s.base, vaddr, sz, v, off, prot \cup {"U"}, tracked)
          \/ \E base \in Vaddrs, sz \in Lengths : unmap(t, base, sz)
          \/ \E addr \in Touch, write \in BOOLEAN : Trap(t, addr, write)
          \/ \E room \in BOOLEAN : vmm_handle_fault(t, room)
    \/ \E v \in Vmos, p \in 0 .. 1, n \in 1 .. 2 : commit(v, p, n)

Spec == Init /\ [][Next]_vars

-----------------------------------------------------------------------------
(***************************************************************************)
(* Correctness.                                                            *)
(***************************************************************************)
Resident(v, p) == mem.resident[v][p]
PageIn(s, p) == (p * PAGE - s.base + s.off) \div PAGE

\* Page tables are a cache of the region tree and the VMOs (zap_range, vmm_handle_fault): every
\* translation lies in a live binding of its task, grants no more than the binding, is no more
\* cacheable than the pager allows, and leads to the VMO's frame for that page or, without write
\* permission, to the zero page: the page of an anonymous VMO that was absent when it was mapped,
\* and that another task, another binding or commit may have filled since (SharedAgree).
TranslationsBacked ==
    \A t \in Tasks, p \in Pages :
        LET e == pt[t][p]
        IN  e # NoPte =>
              \E s \in slots :
                 /\ s.task = t /\ Covers(s, p) /\ s.vmo \in live
                 /\ e.prot \subseteq s.prot
                 /\ e.cache = stricter_cache(e.cache, cache_mode(s.vmo))
                 /\ IF e.frame = ZeroPage THEN "W" \notin e.prot /\ s.vmo \in Anon
                    ELSE e.frame = Resident(s.vmo, PageIn(s, p))

\* Page-table entries "are a cache of VMO and region truth" (docs/Kernel/Memory Subsystem.md:66), and
\* a task that is sent a VMO handle shares its memory: two translations of one page of a VMO lead to
\* one frame.
SharedAgree ==
    \A s, r \in {x \in slots : ~x.sub} : \A p, q \in Pages :
        /\ s.vmo = r.vmo /\ Covers(s, p) /\ Covers(r, q) /\ PageIn(s, p) = PageIn(r, q)
        /\ pt[s.task][p] # NoPte /\ pt[r.task][q] # NoPte
        => pt[s.task][p].frame = pt[r.task][q].frame

\* Every frame of the PMM has one use at a time (fill_page, chunk_for, ~vmo): free, a chunk of one
\* index, or one page of one VMO, and its descriptor says which.
FramesOnce ==
    \A f \in 1 .. FRAMES :
        LET pages == {<<v, p>> \in Vmos \X (0 .. Max({Size[v] : v \in Vmos}) - 1) :
                         p < Size[v] /\ Resident(v, p) = f}
            index == {<<v, c>> \in Vmos \X (0 .. Max({Size[v] : v \in Vmos})) :
                         c \in DOMAIN mem.chunks[v] /\ mem.chunks[v][c] = f}
        IN  /\ Cardinality(pages) + Cardinality(index) + (IF f \in mem.free THEN 1 ELSE 0) = 1
            /\ \A o \in pages : mem.owner[f] = o
            /\ pages = {} => mem.owner[f] = <<>>

\* A fault vmm_handle_fault resolves is resolved for good: the access it retries is allowed, so the
\* thread cannot fault on it for ever.
Resolved == \A t \in Tasks : thread[t].at = "retry" => Allows(t, thread[t].vaddr, thread[t].write)

\* The assertion of resolve_cow (fault.cpp:20): a write that faults on a page its binding lets it
\* write meets the zero page there, so nothing has to be copied.
CowOnZeroPage ==
    \A t \in Tasks :
        thread[t].at = "trap" /\ thread[t].present /\ thread[t].write =>
            \A s \in find_binding(t, thread[t].vaddr) :
                Authorized(t, s) => pt[t][PageOf(thread[t].vaddr)].frame = ZeroPage

\* The slots of a region are disjoint, inside it, and grant no more than it does (insert_slot),
\* whatever wraps in the request.
SlotsNest ==
    \A s \in slots :
        LET r == RegionAt(s.task, s.up)
        IN  /\ s.base >= r.base /\ s.base + s.size <= r.base + r.size /\ s.prot \subseteq r.prot
            /\ \A o \in Children(s.task, s.up) \ {s} : o.base + o.size <= s.base \/ s.base + s.size <= o.base
            /\ ~s.sub => PageIn(s, PageOf(s.base + s.size) - 1) < Size[s.vmo]

\* map_anywhere binds "at the lowest gap between direct children that fits" (region.h:70), for every
\* layout that can be reached.
LowestGap ==
    \A t \in Tasks, n \in 1 .. PageOf(LIMIT) :
        LET fits(a) == /\ a >= FLOOR /\ a + n * PAGE <= LIMIT
                       /\ \A s \in Children(t, 0) : a + n * PAGE <= s.base \/ s.base + s.size <= a
            gaps == {a \in {p * PAGE : p \in Pages} : fits(a)}
            at == Cursor(Children(t, 0), FLOOR, n * PAGE)
        IN  IF gaps = {} THEN at > LIMIT - n * PAGE ELSE at = Min(gaps)

\* The back-references of a VMO are exactly its bindings (vmo.h:48 "They record every translation of
\* a page so eviction and writeback can find them"), read whenever nothing is being torn down.
BackrefsExact ==
    (\A t \in Tasks : swap[t] = 0) =>
        \A v \in live :
            /\ ToSet(Recorded(v)) = {Key(s) : s \in {x \in slots : x.vmo = v}}
            /\ size[v] = Cardinality(ToSet(Recorded(v)))
=============================================================================
