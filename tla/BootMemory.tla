----------------------------- MODULE BootMemory -----------------------------
(***************************************************************************)
(* From the firmware's memory map to the page frame allocator. The boot    *)
(* protocol lists entries sorted by base; translate_memmap classifies,     *)
(* splits at the firmware fence and coalesces them into a fixed array;     *)
(* init_memory gives the whole, non-wrapping, non-empty usable ranges to   *)
(* the allocator and to the page descriptors, the kernel's to the          *)
(* descriptors only. Addresses are words of a small machine.               *)
(***************************************************************************)
EXTENDS Integers, Sequences, FiniteSets

CONSTANTS
    WORD,               \* addresses are 0..WORD - 1, and wrap
    PAGE,               \* KERNEL_MINIMUM_PAGE_SIZE
    MAX_MEMORY_RANGES,  \* coalesced entries
    MAX_MEMMAP_RANGES,  \* ranges with page descriptors, per kind
    MAX_ENTRIES,        \* bound: entries the firmware lists
    Fences              \* firmware_fenced_memory_base, 0 for none

VARIABLES
    fence,     \* platform::firmware_fenced_memory_base()
    memmap,    \* entries read so far: [base, length, type]
    ranges,    \* g_ranges
    pc,        \* "translate", "feed", "done", "panic"
    i,         \* the range init_memory is at
    regions,   \* the allocator's regions, which are also usable_ranges
    reserved,  \* pages reserved
    wired      \* wired_ranges
vars == <<fence, memmap, ranges, pc, i, regions, reserved, wired>>

Types == {"USABLE", "EXECUTABLE_AND_MODULES", "BOOTLOADER_RECLAIMABLE", "RESERVED"}
Add(a, b) == (a + b) % WORD

Init ==
    /\ fence \in Fences /\ memmap = <<>> /\ ranges = <<>> /\ pc = "translate"
    /\ i = 1 /\ regions = <<>> /\ reserved = 0 /\ wired = <<>>

\* Mutant: what the boot loader still uses is taken for free memory.
classify_reclaim(type) ==
    CASE type \in {"USABLE", "BOOTLOADER_RECLAIMABLE"} -> "USABLE"
      [] type = "EXECUTABLE_AND_MODULES" -> "KERNEL"
      [] OTHER -> "OTHER"
classify(type) ==
    CASE type = "USABLE" -> "USABLE"
      [] type = "EXECUTABLE_AND_MODULES" -> "KERNEL"
      [] OTHER -> "OTHER"

Touches(r, base, kind) == r.kind = kind /\ Add(r.base, r.length) = base

push_range(rs, base, length, kind) ==
    LET n == Len(rs) IN
    IF n > 0 /\ Touches(rs[n], base, kind) THEN [rs EXCEPT ![n].length = Add(@, length)]
    ELSE IF n = MAX_MEMORY_RANGES THEN rs
    ELSE Append(rs, [base |-> base, length |-> length, kind |-> kind])

\* A reclaimable entry that reaches past the fence: hands off below it, free above it.
Fenced(e, end) ==
    LET split == IF e.base > fence THEN e.base ELSE fence
        below == IF split > e.base THEN push_range(ranges, e.base, split - e.base, "OTHER") ELSE ranges
    IN push_range(below, split, (end - split) % WORD, "USABLE")

\* The firmware's entries, sorted and apart; the last one may run past the address space.
Entries ==
    LET low == IF memmap = <<>> THEN 0 ELSE memmap[Len(memmap)].base + memmap[Len(memmap)].length IN
    {e \in [base : low..WORD - 1, length : 0..WORD - 1, type : Types] : e.base + e.length <= WORD + PAGE}

\* translate_memmap, one entry.
Translate ==
    /\ pc = "translate" /\ Len(memmap) < MAX_ENTRIES
    /\ \E e \in Entries :
         LET end == Add(e.base, e.length) IN
         /\ memmap' = Append(memmap, e)
         /\ ranges' = IF e.type = "BOOTLOADER_RECLAIMABLE" /\ fence # 0 /\ end > fence THEN Fenced(e, end)
                      ELSE push_range(ranges, e.base, e.length, classify(e.type))
    /\ UNCHANGED <<fence, pc, i, regions, reserved, wired>>

\* init_memory begins.
Translated ==
    /\ pc = "translate" /\ pc' = IF ranges = <<>> THEN "panic" ELSE "feed"
    /\ UNCHANGED <<fence, memmap, ranges, i, regions, reserved, wired>>

Aligned(r) == r.base % PAGE = 0 /\ r.length % PAGE = 0
Wraps(r) == Add(r.base, r.length) < r.base
Region(r) == [start |-> r.base, count |-> r.length \div PAGE]

\* init_memory, one range.
Feed ==
    /\ pc = "feed" /\ i <= Len(ranges)
    /\ i' = i + 1
    /\ LET r == ranges[i]
           pages == r.length \div PAGE
           sound == r.kind \in {"USABLE", "KERNEL"} /\ Aligned(r) /\ ~Wraps(r)
           free == sound /\ r.kind = "USABLE" /\ pages > 0 /\ Len(regions) < MAX_MEMMAP_RANGES
           kernel == sound /\ r.kind = "KERNEL"
       IN /\ regions' = IF free THEN Append(regions, Region(r)) ELSE regions
          /\ reserved' = IF kernel THEN reserved + pages ELSE reserved
          /\ wired' = IF kernel /\ Len(wired) < MAX_MEMMAP_RANGES THEN Append(wired, Region(r)) ELSE wired
    /\ UNCHANGED <<fence, memmap, ranges, pc>>

Fed ==
    /\ pc = "feed" /\ i > Len(ranges) /\ pc' = IF regions = <<>> THEN "panic" ELSE "done"
    /\ UNCHANGED <<fence, memmap, ranges, i, regions, reserved, wired>>

Next == Translate \/ Translated \/ Feed \/ Fed
Spec == Init /\ [][Next]_vars

----------------------------------------------------------------------------
(* Properties.                                                             *)

Extent(e) == e.base..e.base + e.length - 1
Owned(r) == r.start..r.start + r.count * PAGE - 1
Elements(s) == {s[k] : k \in DOMAIN s}
\* The addresses the firmware gave up: usable ones, and reclaimable ones above the fence.
Given ==
    UNION {Extent(e) : e \in {x \in Elements(memmap) : x.type = "USABLE"}} \cup
    {a \in UNION {Extent(e) : e \in {x \in Elements(memmap) : x.type = "BOOTLOADER_RECLAIMABLE"}} :
        fence # 0 /\ a >= fence}

\* The allocator never gets an address that the firmware did not give up: no part of the
\* kernel, of what the boot loader still uses, or of a hole the coalescing ran over.
OnlyGivenMemory == \A r \in Elements(regions) : Owned(r) \subseteq Given

\* The allocator's regions are whole pages inside the address space, and apart from each
\* other and from the kernel's.
RegionsSound ==
    /\ \A r \in Elements(regions) : r.count > 0 /\ r.start % PAGE = 0 /\ r.start + r.count * PAGE <= WORD
    /\ \A k, l \in DOMAIN regions : k # l => Owned(regions[k]) \cap Owned(regions[l]) = {}
    /\ \A k \in DOMAIN regions, l \in DOMAIN wired : Owned(regions[k]) \cap Owned(wired[l]) = {}

\* A firmware map of whole pages below the top of the address space loses nothing as long as
\* the tables do not overflow: every page given up reaches the allocator.
NothingLost ==
    pc = "done" /\ Len(ranges) < MAX_MEMORY_RANGES /\ Len(regions) < MAX_MEMMAP_RANGES
    /\ (\A e \in Elements(memmap) : e.base % PAGE = 0 /\ e.length % PAGE = 0 /\ e.base + e.length < WORD)
    /\ fence % PAGE = 0
        => UNION {Owned(r) : r \in Elements(regions)} = Given
=============================================================================
