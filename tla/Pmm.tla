-------------------------------- MODULE Pmm ---------------------------------
(***************************************************************************)
(* The page frame allocator and the page descriptor table. Free frames are *)
(* in region tails, whose top zeroed_count pages are zero already, or on   *)
(* one of two intrusive stacks that keep their links in the frames         *)
(* themselves. Each operation runs under m_lock, except the zeroing of a   *)
(* contiguous run, which comes after the lock is released.                 *)
(***************************************************************************)
EXTENDS Naturals, Sequences, FiniteSets

CONSTANTS Caller,   \* threads that allocate and free
          Regions,  \* the regions boot adds: a sequence of <<start, count>>
          ARRAY     \* pages of the descriptor array

VARIABLES
    regions,   \* m_regions: [start, count, zeroed]
    zeroed,    \* m_zeroed, a stack of frames
    dirty,     \* m_dirty, a stack of frames
    free,      \* m_free_pages
    ready,     \* m_region_zeroed
    content,   \* [frame -> "zero", "junk", or "link": zero but for the link word]
    state,     \* [frame -> page_state], meaningful once the table exists
    table,     \* whether g_page_descriptors is initialised
    owned,     \* [Caller -> frames returned to it]
    run,       \* [Caller -> frames carved for it, not yet zeroed]
    panic
vars == <<regions, zeroed, dirty, free, ready, content, state, table, owned, run, panic>>

Frame == UNION {r[1]..(r[1] + r[2] - 1) : r \in {Regions[i] : i \in DOMAIN Regions}}
Elems(s) == {s[i] : i \in DOMAIN s}
Pop(s) == SubSeq(s, 1, Len(s) - 1)
Top(s) == s[Len(s)]

\* add_region, for each usable range.
Init ==
    /\ regions = [i \in DOMAIN Regions |-> [start |-> Regions[i][1], count |-> Regions[i][2], zeroed |-> 0]]
    /\ zeroed = <<>> /\ dirty = <<>> /\ free = Cardinality(Frame) /\ ready = 0
    /\ content = [f \in Frame |-> "junk"] /\ state = [f \in Frame |-> "none"] /\ table = FALSE
    /\ owned = [c \in Caller |-> {}] /\ run = [c \in Caller |-> {}] /\ panic = FALSE

\* set_state, mark_range
Marked(fs, s) == IF table THEN [f \in Frame |-> IF f \in fs THEN s ELSE state[f]] ELSE state

\* The last region that has pages left; the ones after it are popped.
LastUsed == {i \in DOMAIN regions : regions[i].count > 0 /\ \A j \in DOMAIN regions : j > i => regions[j].count = 0}

Give(c, fs) == owned' = [owned EXCEPT ![c] = @ \cup fs]

\* Mutant: the link word stays in the frame.
PopZeroedRaw(c) ==
    /\ zeroed # <<>> /\ zeroed' = Pop(zeroed) /\ Give(c, {Top(zeroed)})
    /\ state' = Marked({Top(zeroed)}, "ACTIVE") /\ UNCHANGED <<content, dirty, regions, ready>>
\* alloc(), served from the zeroed pool: pop clears the link word.
PopZeroed(c) ==
    /\ zeroed # <<>> /\ zeroed' = Pop(zeroed) /\ Give(c, {Top(zeroed)})
    /\ content' = [content EXCEPT ![Top(zeroed)] = "zero"]
    /\ state' = Marked({Top(zeroed)}, "ACTIVE") /\ UNCHANGED <<dirty, regions, ready>>

\* ... from the dirty pool, zeroing inline.
PopDirty(c) ==
    /\ zeroed = <<>> /\ dirty # <<>> /\ dirty' = Pop(dirty) /\ Give(c, {Top(dirty)})
    /\ content' = [content EXCEPT ![Top(dirty)] = "zero"]
    /\ state' = Marked({Top(dirty)}, "ACTIVE") /\ UNCHANGED <<zeroed, regions, ready>>

\* ... from the tail of the last region, zeroing unless it was zeroed in place.
PopTail(c) ==
    /\ zeroed = <<>> /\ dirty = <<>>
    /\ \E i \in LastUsed :
         LET r == regions[i]  f == r.start + r.count - 1  pre == r.zeroed > 0 IN
         /\ regions' = [SubSeq(regions, 1, i) EXCEPT ![i].count = @ - 1, ![i].zeroed = IF pre THEN @ - 1 ELSE @]
         /\ ready' = IF pre THEN ready - 1 ELSE ready
         /\ content' = IF pre THEN content ELSE [content EXCEPT ![f] = "zero"]
         /\ Give(c, {f}) /\ state' = Marked({f}, "ACTIVE")
    /\ UNCHANGED <<zeroed, dirty>>

Alloc(c) ==
    /\ PopZeroed(c) \/ PopDirty(c) \/ PopTail(c)
    /\ free' = free - 1
    /\ UNCHANGED <<table, run, panic>>

\* free()'s check against the descriptor.
Refused(f) == table /\ state[f] \in {"FREE", "ZEROED"}

PushDirty(f) ==
    IF Refused(f) THEN panic' = TRUE /\ UNCHANGED <<dirty, free, state, content>>
    ELSE /\ dirty' = Append(dirty, f) /\ free' = free + 1
         /\ state' = Marked({f}, "FREE") /\ content' = [content EXCEPT ![f] = "junk"]
         /\ UNCHANGED panic

\* free() of a frame its caller owns ...
Free(c, f) ==
    /\ f \in owned[c]
    /\ owned' = [owned EXCEPT ![c] = @ \ {f}]
    /\ PushDirty(f)
    /\ UNCHANGED <<regions, zeroed, ready, table, run>>

\* ... and of one that is back in a pool already: a caller's mistake.
FreeAgain(f) ==
    /\ table /\ f \in Elems(dirty) \cup Elems(zeroed)
    /\ PushDirty(f)
    /\ UNCHANGED <<regions, zeroed, ready, table, owned, run>>

\* The pages of the run that are not in the region's zeroed tail.
ToZero(r, n) == {f \in (r.start + r.count - n)..(r.start + r.count - 1) : f < r.start + r.count - r.zeroed}

\* The last region with n pages.
Fitting(n) == {i \in DOMAIN regions : regions[i].count >= n /\ \A j \in DOMAIN regions : j > i => regions[j].count < n}

Carved(i, n) ==
    LET r == regions[i]  pre == IF r.zeroed < n THEN r.zeroed ELSE n IN
    /\ regions' = [regions EXCEPT ![i].count = @ - n, ![i].zeroed = @ - pre]
    /\ ready' = ready - pre
    /\ free' = free - n

\* alloc_contiguous(): carve under the lock ...
AllocContiguous(c, n) ==
    /\ run[c] = {}
    /\ \E i \in Fitting(n) :
         LET r == regions[i]  pages == (r.start + r.count - n)..(r.start + r.count - 1) IN
         /\ Carved(i, n)
         /\ state' = Marked(pages, "ACTIVE")
         /\ run' = [run EXCEPT ![c] = ToZero(r, n)]
         /\ owned' = [owned EXCEPT ![c] = @ \cup (pages \ ToZero(r, n))]
    /\ UNCHANGED <<zeroed, dirty, content, table, panic>>

\* ... and zero outside it, before the caller sees the run.
ZeroRun(c) ==
    /\ run[c] # {}
    /\ content' = [f \in Frame |-> IF f \in run[c] THEN "zero" ELSE content[f]]
    /\ Give(c, run[c]) /\ run' = [run EXCEPT ![c] = {}]
    /\ UNCHANGED <<regions, zeroed, dirty, free, ready, state, table, panic>>

\* page_descriptor_table::init: carve the array, mark the usable ranges FREE and the
\* array WIRED.
InitTable ==
    /\ ~table /\ table' = TRUE
    /\ \E i \in Fitting(ARRAY) :
         LET r == regions[i]  pages == (r.start + r.count - ARRAY)..(r.start + r.count - 1) IN
         /\ Carved(i, ARRAY)
         /\ state' = [f \in Frame |-> IF f \in pages THEN "WIRED" ELSE "FREE"]
         /\ content' = [f \in Frame |-> IF f \in pages THEN "junk" ELSE content[f]]
    /\ UNCHANGED <<zeroed, dirty, owned, run, panic>>

\* The region page zero_one_page turns to.
NextToZero(r) == r.start + r.count - r.zeroed - 1

\* Mutant: the page is published to the pool before it is zeroed.
ZeroDirtyRaw ==
    /\ dirty # <<>>
    /\ dirty' = Pop(dirty) /\ zeroed' = Append(zeroed, Top(dirty))
    /\ content' = [content EXCEPT ![Top(dirty)] = "junk"]
    /\ state' = Marked({Top(dirty)}, "ZEROED")
    /\ UNCHANGED <<regions, free, ready, table, owned, run, panic>>
\* zero_one_page(), the zeroer thread's step: a dirty page into the pool ...
ZeroDirty ==
    /\ dirty # <<>>
    /\ dirty' = Pop(dirty) /\ zeroed' = Append(zeroed, Top(dirty))
    /\ content' = [content EXCEPT ![Top(dirty)] = "link"]
    /\ state' = Marked({Top(dirty)}, "ZEROED")
    /\ UNCHANGED <<regions, free, ready, table, owned, run, panic>>

\* ... or a region's page in place.
ZeroTail ==
    /\ dirty = <<>> /\ Len(zeroed) + ready < free
    /\ \E i \in DOMAIN regions :
         /\ regions[i].zeroed # regions[i].count
         /\ \A j \in DOMAIN regions : j > i => regions[j].zeroed = regions[j].count
         /\ regions' = [regions EXCEPT ![i].zeroed = @ + 1]
         /\ content' = [content EXCEPT ![NextToZero(regions[i])] = "zero"]
         /\ state' = Marked({NextToZero(regions[i])}, "ZEROED")
    /\ ready' = ready + 1
    /\ UNCHANGED <<zeroed, dirty, free, table, owned, run, panic>>

\* An owner writes to its frame.
Use(c, f) ==
    /\ f \in owned[c] /\ content' = [content EXCEPT ![f] = "junk"]
    /\ UNCHANGED <<regions, zeroed, dirty, free, ready, state, table, owned, run, panic>>

\* The table comes before any other allocation; the panic ends it all.
Next ==
    /\ ~panic
    /\ \/ InitTable
       \/ table /\ \/ \E c \in Caller : Alloc(c) \/ ZeroRun(c) \/ \E n \in 1..2 : AllocContiguous(c, n)
                   \/ \E c \in Caller, f \in Frame : Free(c, f) \/ Use(c, f)
                   \/ \E f \in Frame : FreeAgain(f)
                   \/ ZeroDirty \/ ZeroTail
Spec == Init /\ [][Next]_vars

----------------------------------------------------------------------------
(* Properties.                                                             *)

TailOf(r) == r.start..(r.start + r.count - 1)
ZeroTailOf(r) == {f \in TailOf(r) : f >= r.start + r.count - r.zeroed}
InTails == UNION {TailOf(regions[i]) : i \in DOMAIN regions}
ZeroInTails == UNION {ZeroTailOf(regions[i]) : i \in DOMAIN regions}
Out == UNION {owned[c] \cup run[c] : c \in Caller}

\* Every frame is in one place: a pool (once), a tail, or with one owner; and the
\* counters say how many are free and how many are zero.
OnePlace ==
    /\ \A s \in {zeroed, dirty} : Cardinality(Elems(s)) = Len(s)
    /\ \A c, d \in Caller : c # d => (owned[c] \cup run[c]) \cap (owned[d] \cup run[d]) = {}
    /\ Elems(zeroed) \cap Elems(dirty) = {}
    /\ (Elems(zeroed) \cup Elems(dirty)) \cap (InTails \cup Out) = {} /\ InTails \cap Out = {}
    /\ free = Len(zeroed) + Len(dirty) + Cardinality(InTails)
    /\ ready = Cardinality(ZeroInTails)

\* A descriptor tells the truth about its frame whenever the lock is free: FREE and
\* ZEROED frames are the allocator's, and free() can trust them.
DescriptorsTrue ==
    table => \A f \in Frame : /\ state[f] = "ZEROED" <=> f \in Elems(zeroed) \cup ZeroInTails
                              /\ state[f] = "FREE" <=> f \in Elems(dirty) \cup (InTails \ ZeroInTails)

\* What the allocator calls zero is zero, but for a link word.
ZeroedIsZero ==
    /\ \A f \in ZeroInTails : content[f] = "zero"
    /\ \A f \in Elems(zeroed) : content[f] = "link"

\* Every frame a caller receives reads as zero, from whichever source it came and
\* whatever the zeroer did meanwhile.
HandsOutZero == \A c \in Caller : \A f \in owned'[c] \ owned[c] : content'[f] = "zero"
=============================================================================
