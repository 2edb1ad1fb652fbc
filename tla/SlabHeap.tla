------------------------------ MODULE SlabHeap ------------------------------
(***************************************************************************)
(* The kernel heap (mm/slab_heap.cpp): one-page slabs of power-of-two      *)
(* classes and page runs for anything larger, with the run lengths kept in *)
(* page descriptors (mm/heap_pages.cpp).  The heap lock is a leaf: pages   *)
(* are fetched from and given back to the PMM outside it, and other        *)
(* threads run between those steps.                                        *)
(*                                                                         *)
(* An address is page * PAGE + offset.  A slab's list of partial slabs is  *)
(* a sequence, its freelist the sequence of offsets threaded through its   *)
(* slots, its bitmap the set of live offsets.                              *)
(***************************************************************************)
EXTENDS Integers, Sequences, FiniteSets, SequencesExt

CONSTANTS Threads, FRAMES, PAGE, HEADER_BYTES,
          CLASS_SIZES,    \* ascending, a sequence
          MAX_SLAB_ALIGN,
          WORD,           \* SIZE_MAX + 1
          Requests        \* <<size, align>> the clients ask for

Frames == 1 .. FRAMES
Classes == 1 .. Len(CLASS_SIZES)
MAX_CLASS_BYTES == CLASS_SIZES[Len(CLASS_SIZES)]
NoSlab == [magic |-> FALSE, class |-> 1, live |-> {}, free |-> <<>>, uninit |-> 0]
Idle == [at |-> "idle", size |-> 0, align |-> 0, frames |-> {}]

\* What the layout of a slab relies on.
Sane == /\ PAGE > HEADER_BYTES + MAX_CLASS_BYTES - 1 /\ HEADER_BYTES > 0 /\ WORD % PAGE = 0
        /\ \A r \in Requests : r[1] \in 0 .. WORD - 1 /\ r[2] \in 1 .. PAGE /\ PAGE % r[2] = 0

VARIABLES slab,    \* header of each page
          run,     \* run length tagged in the page descriptor, 0 for no tag
          partial, \* per class: slabs with a free slot, in list order
          count,   \* per class: slab_count and live
          large,   \* m_large_allocs and m_large_pages
          free,    \* frames of the PMM
          held,    \* blocks clients hold: address, size, alignment
          pc       \* each thread inside the heap

vars == <<slab, run, partial, count, large, free, held, pc>>

Init ==
    /\ slab = [f \in Frames |-> NoSlab] /\ run = [f \in Frames |-> 0]
    /\ partial = [c \in Classes |-> <<>>]
    /\ count = [c \in Classes |-> [slabs |-> 0, live |-> 0]]
    /\ large = [allocs |-> 0, pages |-> 0]
    /\ free = Frames /\ held = {} /\ pc = [t \in Threads |-> Idle]

(***************************************************************************)
(* Slabs.                                                                  *)
(***************************************************************************)
class_for(bytes) == CHOOSE c \in Classes : bytes <= CLASS_SIZES[c] /\ \A d \in Classes : bytes <= CLASS_SIZES[d] => c <= d
full(s) == s.free = <<>> /\ s.uninit = 0
per_slab(c) == (PAGE - HEADER_BYTES) \div CLASS_SIZES[c]

\* The never-used slot after this one, 0 when the page has no room for another.
Following(offset, size) == IF offset + 2 * size <= PAGE THEN offset + size ELSE 0

\* take_slot on the slab in page f: the slab afterwards, and the offset handed out.
SlotOf(s) == IF s.free # <<>> THEN Head(s.free) ELSE s.uninit
Taken(s) ==
    IF s.free # <<>> THEN [s EXCEPT !.free = Tail(@), !.live = @ \cup {SlotOf(s)}]
    ELSE [s EXCEPT !.uninit = Following(@, CLASS_SIZES[s.class]), !.live = @ \cup {SlotOf(s)}]

take_slot(S, list, f, size, align) ==
    /\ slab' = [S EXCEPT ![f] = Taken(@)]
    /\ partial' = [list EXCEPT ![S[f].class] = IF full(Taken(S[f])) THEN SelectSeq(@, LAMBDA g : g # f) ELSE @]
    /\ held' = held \cup {[addr |-> f * PAGE + SlotOf(S[f]), size |-> size, align |-> align]}

(***************************************************************************)
(* Allocation.                                                             *)
(***************************************************************************)
Need(r) == IF r[1] > r[2] THEN r[1] ELSE r[2]
IsLarge(r) == Need(r) > MAX_CLASS_BYTES \/ r[2] > MAX_SLAB_ALIGN
NonZero(r) == IF r[1] = 0 THEN <<1, r[2]>> ELSE r

\* A partial slab serves the request under the lock; without one the page is fetched outside it.
alloc(t, r) ==
    LET c == class_for(Need(r))
    IN  /\ pc[t] = Idle /\ ~IsLarge(r)
        /\ IF partial[c] # <<>>
           THEN /\ take_slot(slab, partial, Head(partial[c]), r[1], r[2])
                /\ count' = [count EXCEPT ![c].live = @ + 1]
                /\ UNCHANGED <<run, large, free, pc>>
           ELSE /\ pc' = [pc EXCEPT ![t] = [at |-> "fetch", size |-> r[1], align |-> r[2], frames |-> {}]]
                /\ UNCHANGED <<slab, run, partial, count, large, free, held>>

\* new_slab: a page of the PMM with a fresh header, or failure as a value.
new_slab(t) ==
    /\ pc[t].at = "fetch"
    /\ IF free = {} THEN pc' = [pc EXCEPT ![t] = Idle] /\ UNCHANGED <<slab, free>>
       ELSE \E f \in free :
              /\ slab' = [slab EXCEPT ![f] = [magic |-> TRUE, class |-> class_for(Need(<<pc[t].size, pc[t].align>>)),
                                              live |-> {}, free |-> <<>>, uninit |-> HEADER_BYTES]]
              /\ free' = free \ {f}
              /\ pc' = [pc EXCEPT ![t].at = "link", ![t].frames = {f}]
    /\ UNCHANGED <<run, partial, count, large, held>>

\* The new slab goes to the front of the list, whatever the list holds by now.
Link(t) ==
    LET f == CHOOSE g \in pc[t].frames : TRUE
        c == slab[f].class
    IN  /\ pc[t].at = "link"
        /\ take_slot(slab, [partial EXCEPT ![c] = <<f>> \o @], f, pc[t].size, pc[t].align)
        /\ count' = [count EXCEPT ![c] = [slabs |-> @.slabs + 1, live |-> @.live + 1]]
        /\ pc' = [pc EXCEPT ![t] = Idle]
        /\ UNCHANGED <<run, large, free>>

\* A size whose rounding wraps fails; a run of zero pages never reaches the PMM.
Impossible(size) == size > (WORD - 1) - (PAGE - 1)

alloc_large(t, r) ==
    LET pages == ((r[1] + PAGE - 1) % WORD) \div PAGE
        Fits(f) == f .. f + pages - 1 \subseteq free
    IN  /\ pc[t] = Idle /\ IsLarge(r) /\ ~Impossible(r[1])
        /\ \E f \in Frames :
              /\ Fits(f)
              /\ free' = free \ (f .. f + pages - 1)
              /\ run' = [run EXCEPT ![f] = pages]
              /\ pc' = [pc EXCEPT ![t] = [at |-> "count", size |-> r[1], align |-> r[2], frames |-> {f}]]
        /\ UNCHANGED <<slab, partial, count, large, held>>

CountLarge(t) ==
    LET f == CHOOSE g \in pc[t].frames : TRUE
    IN  /\ pc[t].at = "count"
        /\ large' = [allocs |-> large.allocs + 1, pages |-> large.pages + run[f]]
        /\ held' = held \cup {[addr |-> f * PAGE, size |-> pc[t].size, align |-> pc[t].align]}
        /\ pc' = [pc EXCEPT ![t] = Idle]
        /\ UNCHANGED <<slab, run, partial, count, free>>

(***************************************************************************)
(* Free.                                                                   *)
(***************************************************************************)
PageOf(addr) == addr \div PAGE
OffsetOf(addr) == addr % PAGE

\* The tag in the page descriptor: set by note_run, checked and cleared by take_run.
ReadRun(f) == run[f]

\* What free() lets through; everything else panics.
OnSlot(s, offset) ==
    /\ offset >= HEADER_BYTES /\ offset <= PAGE - CLASS_SIZES[s.class]
    /\ (offset - HEADER_BYTES) % CLASS_SIZES[s.class] = 0
TestLive(s, offset) == offset \in s.live
Accepts(addr) ==
    LET s == slab[PageOf(addr)]
    IN  IF OffsetOf(addr) = 0 THEN ReadRun(PageOf(addr)) # 0
        ELSE s.magic /\ OnSlot(s, OffsetOf(addr)) /\ TestLive(s, OffsetOf(addr))

\* The tag is cleared under the lock, the pages go back after it.
FreeLarge(t, b) ==
    LET f == PageOf(b.addr)
    IN  /\ pc[t] = Idle /\ OffsetOf(b.addr) = 0 /\ Accepts(b.addr)
        /\ held' = held \ {b}
        /\ run' = [run EXCEPT ![f] = 0]
        /\ large' = [allocs |-> large.allocs - 1, pages |-> large.pages - ReadRun(f)]
        /\ pc' = [pc EXCEPT ![t] = [Idle EXCEPT !.at = "release", !.frames = f .. f + ReadRun(f) - 1]]
        /\ UNCHANGED <<slab, partial, count, free>>

\* The last partial slab of a class is kept as a spare even when it is empty.
Spare(list, f) == list = <<f>>

FreeSlot(t, b) ==
    LET f == PageOf(b.addr)
        s == slab[f]
        freed == [s EXCEPT !.live = @ \ {OffsetOf(b.addr)}, !.free = <<OffsetOf(b.addr)>> \o @]
        list == IF full(s) THEN <<f>> \o partial[s.class] ELSE partial[s.class]
        release == freed.live = {} /\ ~Spare(list, f)
    IN  /\ pc[t] = Idle /\ OffsetOf(b.addr) # 0 /\ Accepts(b.addr)
        /\ held' = held \ {b}
        /\ slab' = [slab EXCEPT ![f] = freed]
        /\ partial' = [partial EXCEPT ![s.class] = IF release THEN SelectSeq(list, LAMBDA g : g # f) ELSE list]
        /\ count' = [count EXCEPT ![s.class] = [slabs |-> @.slabs - (IF release THEN 1 ELSE 0), live |-> @.live - 1]]
        /\ pc' = IF release THEN [pc EXCEPT ![t] = [Idle EXCEPT !.at = "release", !.frames = {f}]] ELSE pc
        /\ UNCHANGED <<run, large, free>>

\* heap_pages_free: one frame at a time, each under the PMM's own lock.  What a page holds once the
\* PMM has it is no longer the heap's.
AfterFrame_last(frames, f) == {}
AfterFrame(frames, f) == frames \ {f}

heap_pages_free(t) ==
    /\ pc[t].at = "release"
    /\ LET f == CHOOSE g \in pc[t].frames : \A h \in pc[t].frames : g <= h
       IN  /\ free' = free \cup {f}
           /\ slab' = [slab EXCEPT ![f] = NoSlab]
           /\ pc' = [pc EXCEPT ![t] = IF AfterFrame(@.frames, f) = {} THEN Idle ELSE [@ EXCEPT !.frames = AfterFrame(@, f)]]
    /\ UNCHANGED <<run, partial, count, large, held>>

Next ==
    \E t \in Threads :
       \/ \E r \in Requests : alloc(t, NonZero(r)) \/ alloc_large(t, NonZero(r))
       \/ new_slab(t) \/ Link(t) \/ CountLarge(t) \/ heap_pages_free(t)
       \/ \E b \in held : FreeLarge(t, b) \/ FreeSlot(t, b)

Spec == Init /\ [][Next]_vars

-----------------------------------------------------------------------------
(***************************************************************************)
(* Correctness.                                                            *)
(***************************************************************************)
InFlight == UNION {pc[t].frames : t \in {u \in Threads : pc[u].at \in {"link", "release"}}}
RunPages == UNION {f .. f + run[f] - 1 : f \in Frames}
\* Slabs the heap knows: they hold something, or wait on a list.
Slabs(c) == {f \in Frames \ (free \cup InFlight \cup RunPages) : slab[f].magic /\ slab[f].class = c}

\* Blocks handed out (take_slot, alloc_large) never overlap each other, a slab header or a page the
\* heap does not own, and are aligned as asked.
BlocksApart ==
    \A b \in held :
        /\ b.addr % b.align = 0
        /\ PageOf(b.addr + b.size - 1) \in Frames \ free
        /\ OffsetOf(b.addr) # 0 => OffsetOf(b.addr) >= HEADER_BYTES /\ PageOf(b.addr + b.size - 1) = PageOf(b.addr)
        /\ \A d \in held \ {b} : b.addr + b.size <= d.addr \/ d.addr + d.size <= b.addr

\* free() accepts exactly the addresses clients hold (slab_heap.cpp:203-207, heap_pages_take_run): a
\* double free, a slot never carved, an interior address or the page tail always panics.
FreeExact ==
    LET known == UNION {Slabs(c) : c \in Classes}
        counting == UNION {pc[t].frames : t \in {u \in Threads : pc[u].at = "count"}}
        out == {b.addr : b \in held}
    IN  \A f \in Frames, o \in 0 .. PAGE - 1 :
           (o = 0 /\ f \notin counting) \/ f \in known => (Accepts(f * PAGE + o) <=> f * PAGE + o \in out)

\* Every page is in one place: with the PMM, in a slab the class counts, in a run, or on its way
\* through one thread.  No failure or race loses or duplicates one.
PagesConserved ==
    /\ \A c \in Classes : count[c].slabs = Cardinality(Slabs(c))
    /\ free \cap InFlight = {} /\ free \cap RunPages = {} /\ InFlight \cap RunPages = {}
    /\ Frames = free \cup InFlight \cup RunPages \cup UNION {Slabs(c) : c \in Classes}
    /\ \A t, u \in Threads : t # u => pc[t].frames \cap pc[u].frames = {}

\* The partial list holds exactly the slabs with room (take_slot, free), and the live count is what
\* the slabs say.
ListExact ==
    \A c \in Classes :
        /\ ToSet(partial[c]) = {f \in Slabs(c) : Cardinality(slab[f].live) < per_slab(c)}
        /\ Len(partial[c]) = Cardinality(ToSet(partial[c]))
        /\ count[c].live = FoldSet(LAMBDA f, n : Cardinality(slab[f].live) + n, 0, Slabs(c))

\* "keep the last partial slab as a hot spare, release any other fully-free slab"
\* (slab_heap.cpp:222): a class never keeps two empty slabs.
OneSpare ==
    \A c \in Classes : Cardinality({f \in Slabs(c) : slab[f].live = {}}) <= 1
=============================================================================
