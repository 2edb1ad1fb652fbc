----------------------------- MODULE ObjectArena -----------------------------
(***************************************************************************)
(* Per-type arenas (mm/object_arena.cpp): one-page slabs of exact-size     *)
(* slots whose whole allocation state is a bitmap, and whose free slots    *)
(* are always zero.  Several arenas share the pages of the PMM, and as in  *)
(* the slab heap the arena lock is dropped while a page is fetched or      *)
(* given back.                                                             *)
(***************************************************************************)
EXTENDS Integers, Sequences, FiniteSets, SequencesExt

CONSTANTS Threads, FRAMES, PAGE,
          HEADER,       \* sizeof(arena_slab)
          WORD_BYTES, WORD_BITS, \* of a bitmap word
          Arenas, None,
          object_size, alignment \* functions of the arena

Frames == 1 .. FRAMES
Idle == [at |-> "idle", arena |-> None, frame |-> 0]

\* What the layout of a slab relies on.
Sane == \A a \in Arenas : alignment[a] > 0 /\ PAGE % alignment[a] = 0 /\ object_size[a] >= 0

VARIABLES slab,    \* header of each page: owner (None: no magic) and bitmap
          dirty,   \* of each page, the slots whose bytes are not all zero
          partial, \* per arena, m_partial
          slabs,   \* per arena, m_slab_count
          free,    \* frames of the PMM
          held,    \* objects clients hold: address and arena
          pc       \* threads inside alloc or free

vars == <<slab, dirty, partial, slabs, free, held, pc>>

(***************************************************************************)
(* The layout the constructor solves for.                                  *)
(***************************************************************************)
align_up(value, align) == ((value + align - 1) \div align) * align
slot_size(a) == align_up(IF object_size[a] = 0 THEN 1 ELSE object_size[a], alignment[a])
Words(n) == (n + WORD_BITS - 1) \div WORD_BITS
Offset(a, n) == align_up(HEADER + Words(n) * WORD_BYTES, alignment[a])
FitsPage(a, n) == Offset(a, n) + n * slot_size(a) <= PAGE

\* Shrinking from the bound that ignores the bitmap stops at the largest count that fits.
slots_per_slab(a) ==
    LET upper == (PAGE - HEADER) \div slot_size(a)
    IN  CHOOSE n \in 1 .. upper : FitsPage(a, n) /\ \A k \in n + 1 .. upper : ~FitsPage(a, k)
slots_offset(a) == Offset(a, slots_per_slab(a))
AddressOf(a, f, slot) == f * PAGE + slots_offset(a) + slot * slot_size(a)

Init ==
    /\ slab = [f \in Frames |-> [owner |-> None, live |-> {}]]
    /\ dirty = [f \in Frames |-> 0 .. PAGE]
    /\ partial = [a \in Arenas |-> <<>>] /\ slabs = [a \in Arenas |-> 0]
    /\ free = Frames /\ held = {} /\ pc = [t \in Threads |-> Idle]

(***************************************************************************)
(* Allocation.                                                             *)
(***************************************************************************)
\* The lowest clear bit; a full slab would run into the bits past the last slot and panic.
FreeSlot(s) == CHOOSE n \in 0 .. Cardinality(s.live) : n \notin s.live /\ \A k \in 0 .. n - 1 : k \in s.live

take_slot(a, list, f) ==
    LET slot == FreeSlot(slab[f])
        full == Cardinality(slab[f].live) + 1 = slots_per_slab(a)
    IN  /\ slot < slots_per_slab(a)
        /\ slab' = [slab EXCEPT ![f].live = @ \cup {slot}]
        /\ partial' = [partial EXCEPT ![a] = IF full THEN SelectSeq(list, LAMBDA g : g # f) ELSE list]
        /\ held' = held \cup {[addr |-> AddressOf(a, f, slot), arena |-> a]}

alloc(t, a) ==
    /\ pc[t] = Idle
    /\ IF partial[a] # <<>>
       THEN take_slot(a, partial[a], Head(partial[a])) /\ UNCHANGED pc
       ELSE pc' = [pc EXCEPT ![t] = [Idle EXCEPT !.at = "fetch", !.arena = a]] /\ UNCHANGED <<slab, partial, held>>
    /\ UNCHANGED <<dirty, slabs, free>>

\* A page is zeroed before its header is written, whatever it held before.
Scrub_not(slots) == slots
Scrub(slots) == {}

new_slab(t) ==
    /\ pc[t].at = "fetch"
    /\ IF free = {} THEN pc' = [pc EXCEPT ![t] = Idle] /\ UNCHANGED <<slab, dirty, free>>
       ELSE \E f \in free :
              /\ free' = free \ {f}
              /\ dirty' = [dirty EXCEPT ![f] = Scrub(@)]
              /\ slab' = [slab EXCEPT ![f] = [owner |-> pc[t].arena, live |-> {}]]
              /\ pc' = [pc EXCEPT ![t].at = "link", ![t].frame = f]
    /\ UNCHANGED <<partial, slabs, held>>

Link(t) ==
    LET a == pc[t].arena
    IN  /\ pc[t].at = "link"
        /\ take_slot(a, <<pc[t].frame>> \o partial[a], pc[t].frame)
        /\ slabs' = [slabs EXCEPT ![a] = @ + 1]
        /\ pc' = [pc EXCEPT ![t] = Idle]
        /\ UNCHANGED <<dirty, free>>

(***************************************************************************)
(* The object's life in between, and free.                                 *)
(***************************************************************************)
SlotAt(b) == ((b.addr % PAGE) - slots_offset(b.arena)) \div slot_size(b.arena)

Construct(b) ==
    /\ dirty' = [dirty EXCEPT ![b.addr \div PAGE] = @ \cup {SlotAt(b)}]
    /\ UNCHANGED <<slab, partial, slabs, free, held, pc>>

\* What arena a's free() lets through; everything else panics.
Owned(a, s) == s.owner = a
Accepts(a, addr) ==
    LET f == addr \div PAGE
        offset == (addr % PAGE) - slots_offset(a)
    IN  /\ Owned(a, slab[f])
        /\ offset >= 0 /\ offset % slot_size(a) = 0
        /\ offset \div slot_size(a) < slots_per_slab(a)
        /\ offset \div slot_size(a) \in slab[f].live

\* A slab that was full goes back on the list; one that is empty leaves it, if it was there at all.
WasFull(a, live) == live + 1 = slots_per_slab(a) /\ live # 0

Free(t, b) ==
    LET f == b.addr \div PAGE
        a == b.arena
        live == slab[f].live \ {SlotAt(b)}
        wasFull == WasFull(a, Cardinality(live))
        release == ~wasFull /\ live = {}
    IN  /\ pc[t] = Idle /\ Accepts(a, b.addr)
        /\ dirty' = [dirty EXCEPT ![f] = @ \ {SlotAt(b)}]
        /\ slab' = [slab EXCEPT ![f].live = live]
        /\ partial' = [partial EXCEPT ![a] = IF wasFull THEN <<f>> \o @ ELSE IF release THEN SelectSeq(@, LAMBDA g : g # f) ELSE @]
        /\ slabs' = [slabs EXCEPT ![a] = @ - (IF release THEN 1 ELSE 0)]
        /\ pc' = IF release THEN [pc EXCEPT ![t] = [at |-> "release", arena |-> a, frame |-> f]] ELSE pc
        /\ held' = held \ {b}
        /\ UNCHANGED free

\* The page goes back after the lock; the next user of it writes what it likes.
Release(t) ==
    /\ pc[t].at = "release"
    /\ free' = free \cup {pc[t].frame}
    /\ slab' = [slab EXCEPT ![pc[t].frame] = [owner |-> None, live |-> {}]]
    /\ dirty' = [dirty EXCEPT ![pc[t].frame] = 0 .. PAGE]
    /\ pc' = [pc EXCEPT ![t] = Idle]
    /\ UNCHANGED <<partial, slabs, held>>

Next ==
    \/ \E t \in Threads : \/ \E a \in Arenas : alloc(t, a)
                          \/ new_slab(t) \/ Link(t) \/ Release(t)
                          \/ \E b \in held : Free(t, b)
    \/ \E b \in held : Construct(b)

Spec == Init /\ [][Next]_vars

-----------------------------------------------------------------------------
(***************************************************************************)
(* Correctness.                                                            *)
(***************************************************************************)
Moving == {pc[t].frame : t \in {u \in Threads : pc[u].at \in {"link", "release"}}}
Slabs(a) == {f \in Frames \ (free \cup Moving) : slab[f].owner = a}

\* "every slot an arena hands out is already zero" (object_arena.h:13-15): the free slots of every
\* slab are zero, through recycled pages and reused slots.
FreeSlotsZero ==
    \A a \in Arenas : \A f \in Slabs(a) : dirty[f] \cap (0 .. slots_per_slab(a) - 1) \subseteq slab[f].live

\* Objects lie inside one page, past its header and bitmap, aligned, and never share a byte.
ObjectsApart ==
    \A b \in held :
        LET size == object_size[b.arena]
            words == Words(slots_per_slab(b.arena))
        IN  /\ b.addr % alignment[b.arena] = 0
            /\ b.addr % PAGE >= HEADER + words * WORD_BYTES /\ (b.addr % PAGE) + size <= PAGE
            /\ b.addr \div PAGE \in Slabs(b.arena)
            /\ \A d \in held \ {b} : b.addr + size <= d.addr \/ d.addr + object_size[d.arena] <= b.addr

\* "a free of a pointer the arena does not own -- wrong arena, interior, double, never allocated --
\* is a deterministic panic" (object_arena.h:17), and an owned one is never refused.
ArenaFreeExact ==
    \A f \in UNION {Slabs(o) : o \in Arenas}, a \in Arenas, k \in 0 .. PAGE - 1 :
        Accepts(a, f * PAGE + k) <=> [addr |-> f * PAGE + k, arena |-> a] \in held

\* Partial lists hold exactly the slabs with room and with something in them; full slabs stay off,
\* one-slot slabs never get on, and an empty slab's page is given back, counted out of its arena.
ArenaListExact ==
    \A a \in Arenas :
        /\ Len(partial[a]) = Cardinality(ToSet(partial[a]))
        /\ ToSet(partial[a]) = {f \in Slabs(a) : Cardinality(slab[f].live) < slots_per_slab(a)}
        /\ \A f \in Slabs(a) : slab[f].live # {}
        /\ slabs[a] = Cardinality(Slabs(a))
=============================================================================
