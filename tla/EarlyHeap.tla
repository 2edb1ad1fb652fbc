------------------------------ MODULE EarlyHeap ------------------------------
(***************************************************************************)
(* The boot-time heap (mm/early_heap.cpp), a first-fit list of blocks that *)
(* tile one region, and the switch of operator new and delete between it   *)
(* and the slab heap (mm/heap.cpp).  Each call runs with interrupts masked *)
(* on the only core that allocates, so a call is one step.                 *)
(*                                                                         *)
(* The slab heap appears as the set of addresses it may return; SlabHeap   *)
(* models how it returns them.                                             *)
(***************************************************************************)
EXTENDS Integers, Sequences, FiniteSets, SequencesExt

CONSTANTS START, END,      \* what on_boot is given
          HEADER,          \* sizeof(early_heap_block)
          BLOCK_ALIGN,     \* alignof(early_heap_block)
          heap_alignment_fallback,
          Requests,        \* <<size, alignment>>
          SlabAddresses    \* outside the early region

kMinimumSplitSize == HEADER + heap_alignment_fallback
align_up(value, align) == ((value + align - 1) \div align) * align

VARIABLES blocks, \* the block list: addr, size, free, payload
          active, \* g_slab_active
          held    \* what callers of operator new hold

vars == <<blocks, active, held>>

heap_start == align_up(START, BLOCK_ALIGN)
heap_end == (END \div BLOCK_ALIGN) * BLOCK_ALIGN

\* A region with room for a block, and slab pages outside it.
Sane == /\ START < END /\ heap_end > heap_start + HEADER
        /\ \A s \in SlabAddresses : s < START \/ s >= END

\* on_boot
Init ==
    /\ blocks = << [addr |-> heap_start, size |-> heap_end - heap_start, free |-> TRUE, payload |-> 0] >>
    /\ active = FALSE /\ held = {}

(***************************************************************************)
(* early_heap::alloc                                                       *)
(***************************************************************************)
Payload(b, align) == align_up(b.addr + HEADER, align)
Prefix(b, align) == Payload(b, align) - b.addr
Fits(b, size, align) == b.free /\ Prefix(b, align) <= b.size /\ b.size - Prefix(b, align) >= size

\* Where the rest of the block starts, and how much of it there is.
Rest(b, total) ==
    LET gap == align_up(b.addr + total, BLOCK_ALIGN) - (b.addr + total)
        left == b.size - total
    IN  IF left <= gap THEN [addr |-> b.addr + total, size |-> 0]
        ELSE [addr |-> b.addr + total + gap, size |-> left - gap]

Kept(b, rest) == b.size - rest.size

\* The blocks that take the place of b: the allocated one, and the rest when it is worth splitting.
Split(b, size, align) ==
    LET rest == Rest(b, Prefix(b, align) + size)
        used == [b EXCEPT !.free = FALSE, !.payload = Payload(b, align)]
    IN  IF rest.size < kMinimumSplitSize THEN << used >>
        ELSE << [used EXCEPT !.size = Kept(b, rest)],
                [addr |-> rest.addr, size |-> rest.size, free |-> TRUE, payload |-> 0] >>

Aligned_ignored(align) == heap_alignment_fallback
Aligned(align) == IF align < heap_alignment_fallback THEN heap_alignment_fallback ELSE align

\* First fit; running out panics, so a call that finds nothing does not return.
EarlyAlloc(size, asked) ==
    LET align == Aligned(asked)
    IN  \E i \in 1 .. Len(blocks) :
            /\ Fits(blocks[i], size, align)
            /\ \A j \in 1 .. i - 1 : ~Fits(blocks[j], size, align)
            /\ blocks' = SubSeq(blocks, 1, i - 1) \o Split(blocks[i], size, align) \o SubSeq(blocks, i + 1, Len(blocks))
            /\ held' = held \cup {[addr |-> Payload(blocks[i], align), size |-> size, align |-> asked, from |-> "early"]}

(***************************************************************************)
(* early_heap::free                                                        *)
(***************************************************************************)
\* Block i of list absorbs the free blocks that follow it.
Merge(list, i) ==
    LET n == CHOOSE k \in i .. Len(list) : /\ \A j \in i + 1 .. k : list[j].free
                                          /\ k < Len(list) => ~list[k + 1].free
        size == FoldSeq(LAMBDA b, sum : b.size + sum, 0, SubSeq(list, i, n))
    IN  SubSeq(list, 1, i - 1) \o << [list[i] EXCEPT !.size = size] >> \o SubSeq(list, n + 1, Len(list))

\* The block becomes free, absorbs what follows, and is absorbed by a free block before it.
Before(list, i) == IF i > 1 /\ list[i - 1].free THEN Merge(list, i - 1) ELSE list

EarlyFree(addr) ==
    \E i \in 1 .. Len(blocks) :
        /\ ~blocks[i].free /\ blocks[i].payload = addr
        /\ \A j \in 1 .. i - 1 : blocks[j].free \/ blocks[j].payload # addr
        /\ blocks' = Before(Merge([blocks EXCEPT ![i].free = TRUE, ![i].payload = 0], i), i)

(***************************************************************************)
(* heap.cpp: operator new and delete.                                      *)
(***************************************************************************)
contains(addr) == addr >= heap_start /\ addr < heap_end

\* A zero-size request gets a unique pointer from either heap.
new(r) ==
    LET size == IF r[1] = 0 THEN 1 ELSE r[1]
    IN  /\ IF active
           THEN \E s \in SlabAddresses :
                  /\ \A b \in held : b.addr # s
                  /\ held' = held \cup {[addr |-> s, size |-> size, align |-> r[2], from |-> "slab"]}
                  /\ UNCHANGED blocks
           ELSE EarlyAlloc(size, r[2])
        /\ UNCHANGED active

\* A pointer is routed by its address alone.
delete(b) ==
    /\ held' = held \ {b}
    /\ IF contains(b.addr) THEN EarlyFree(b.addr) ELSE UNCHANGED blocks
    /\ UNCHANGED active

heap_activate == active = FALSE /\ active' = TRUE /\ UNCHANGED <<blocks, held>>

Next == (\E r \in Requests : new(r)) \/ (\E b \in held : delete(b)) \/ heap_activate

Spec == Init /\ [][Next]_vars

-----------------------------------------------------------------------------
(***************************************************************************)
(* Correctness.                                                            *)
(***************************************************************************)
\* The blocks tile the region in address order whatever is split or merged, every header aligned:
\* alignment gaps and tails too small to split stay inside a block (early_heap.cpp:116-142).
Tiles ==
    /\ blocks[1].addr = heap_start
    /\ \A i \in 1 .. Len(blocks) :
          /\ blocks[i].addr % BLOCK_ALIGN = 0 /\ blocks[i].size >= HEADER
          /\ blocks[i].addr + blocks[i].size = IF i = Len(blocks) THEN heap_end ELSE blocks[i + 1].addr

\* Every early pointer in use is aligned and its bytes lie past the header of a block of its own.
PayloadsOwn ==
    \A b \in {h \in held : h.from = "early"} :
        /\ b.addr % b.align = 0
        /\ \E i \in 1 .. Len(blocks) :
              /\ ~blocks[i].free /\ blocks[i].payload = b.addr
              /\ blocks[i].addr + HEADER <= b.addr /\ b.addr + b.size <= blocks[i].addr + blocks[i].size
              /\ \A d \in held \ {b} : blocks[i].payload # d.addr

\* Free neighbours are always merged (early_heap.cpp:172-186), so that once everything is freed the
\* whole region is one free block again, the boot allocations' fragments included.
Coalesced ==
    /\ \A i \in 1 .. Len(blocks) - 1 : ~(blocks[i].free /\ blocks[i + 1].free)
    /\ (\A b \in held : b.from = "slab") => blocks = << [addr |-> heap_start, size |-> heap_end - heap_start, free |-> TRUE, payload |-> 0] >>

\* "Early-heap pointers freed after the flip are recognized by address range" (heap.cpp:11): no
\* pointer is ever freed into the heap it did not come from.
Routed == \A b \in held : contains(b.addr) <=> b.from = "early"
=============================================================================
