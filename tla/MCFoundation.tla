---------------------------- MODULE MCFoundation -----------------------------
(*****************************************************************************)
(* What the kernel stands on: the mutex and the lock order checker, the      *)
(* deque and the room its lists keep, physical memory and the heaps above    *)
(* it, the loader of images and the symbol table. Each has the interface of  *)
(* the others as its environment, so they are put side by side: a behaviour  *)
(* of this module is a behaviour of one of them, which part names.           *)
(*****************************************************************************)
EXTENDS Integers, Sequences, Mutex, TLC

CONSTANTS
    Two,    \* threads that hold locks, spawn, allocate
    off     \* no arena; the value of a variable that is not in use

VARIABLES
    part,
    id, free, next_identity, edges, owner, holder, on, held, saved, step, nested, panic,
    blocks, seq, reserved, grew,
    g_live_threads, g_run_queue, g_zombies, g_sleepers, cpu, reaping, spawn, allocated,
    fence, memmap, ranges, map_pc, map_i, regions, map_reserved, wired,
    early_blocks, active, early_held,
    frames_regions, zeroed, dirty, frames_free, ready, content, state, table, owned, run,
    frames_panic,
    slab, slabs_run, partial, count, large, slabs_free, slabs_held, slabs_pc,
    arena_slab, arena_dirty, arena_partial, slabs, arena_free, arena_held, arena_pc,
    blob, at, error, img, total, next, aspace, copied,
    syms_blob, syms_at, syms_next, g_entries, g_string_pool, g_initialized, found

\* Program images: words of sixteen values, pages of two bytes, files of eight.
Ph(type, offset, filesz, vaddr, memsz, flags) ==
    [type |-> type, offset |-> offset, filesz |-> filesz, vaddr |-> vaddr, memsz |-> memsz, flags |-> flags]
Load(o, f, v, m) == Ph("LOAD", o, f, v, m, {"R"})

\* Files that start, end and overflow at the edges; extents that fill, pass or wrap the space.
Loadable == {Load(o, f, v, m) : o \in {0, 5, 15}, f \in {0, 1, 3, 4}, v \in {2, 4, 10, 14}, m \in {1, 3, 4, 15}}
Others == {Ph("NOTE", 0, 1, 3, 1, {}), Ph("INTERP", 0, 1, 2, 1, {}), Load(0, 0, 2, 0), Load(0, 1, 3, 1),
           Ph("LOAD", 0, 1, 2, 1, {"W", "X"})}
ProgramHeaders ==
    {<<>>} \cup {<<p>> : p \in Loadable \cup Others}
    \cup {<<p, q>> : p \in Others \cup {Load(0, 1, 4, 3), Load(5, 3, 4, 4)}, q \in Loadable}
    \cup {<<Load(0, 1, 2, 1), p, Load(0, 1, 10, 1)>> : p \in Loadable}
Program(base, ident, native, exec, phoff, phentsize, entry, ph) ==
    [at |-> base, size |-> 8, ident |-> ident, native |-> native, exec |-> exec, phoff |-> phoff,
     phentsize |-> phentsize, entry |-> entry, ph |-> ph]
ElfImages ==
    {Program(a, i, n, e, o, s, 4, <<Load(0, 1, 4, 1)>>) :
        a \in {0, 1}, i, n, e \in BOOLEAN, o \in {0, 2, 3, 8}, s \in {0, 1}}
    \cup {Program(0, TRUE, TRUE, TRUE, 2, 1, e, t) : e \in {4, 8, 11}, t \in ProgramHeaders}

\* Kernel images: three symbols and a cell after them; the names "ab", "b", empty, the
\* unterminated "c", and one outside the table of five characters.
Cell(func, name, value, size) == [func |-> func, name |-> name, value |-> value, size |-> size]
Cells == {Cell(TRUE, n, v, s) : n \in {0, 4}, v \in {2, 4, 5}, s \in {1, 3}}
         \cup {Cell(FALSE, 0, 2, 1), Cell(TRUE, 9, 2, 1), Cell(TRUE, 3, 2, 2), Cell(TRUE, 1, 4, 0), Cell(TRUE, 1, 4, 9)}
Stray == Cell(TRUE, 0, 7, 1)
Section(type, offset, size, entsize, link, cells) ==
    [type |-> type, offset |-> offset, size |-> size, entsize |-> entsize, link |-> link, cells |-> cells, chars |-> <<1, 2, 0, 0, 3>>]
Symtab(cells) == Section("SYMTAB", 4, 6, 2, 1, cells \o <<Stray, Stray, Stray, Stray>>)
Strtab == Section("STRTAB", 10, 5, 0, 0, <<>>)
KernelImage(base, ident, shoff, shentsize, sh) ==
    [at |-> base, size |-> 16, ident |-> ident, shoff |-> shoff, shentsize |-> shentsize, sh |-> sh]
Good(sh) == KernelImage(0, TRUE, 2, 1, sh)
Whole == <<Cell(TRUE, 0, 2, 1), Cell(TRUE, 0, 4, 1), Cell(TRUE, 0, 5, 1)>>
SymbolImages ==
    {Good(<<Symtab(<<x, y, z>>), Strtab>>) : x, y, z \in Cells}
    \cup {KernelImage(base, i, o, e, <<Symtab(Whole), Strtab>>) : base \in {0, 1}, i \in BOOLEAN, o \in {0, 2, 3, 15}, e \in {0, 1}}
    \cup {Good(<<Section("SYMTAB", o, n, e, l, Whole), Section("STRTAB", p, 5, 0, 0, <<>>)>>) :
            o \in {3, 4, 14}, n \in {6, 15}, e \in {1, 2}, l \in {1, 2}, p \in {10, 12}}
    \cup {Good(<<Strtab>>), Good(<<>>)}

Chain == INSTANCE Lockdep WITH Core <- {0}, Thread <- Two, Locks <- {"A", "B", "C"}, Spin <- {},
    MAX_LOCKS <- 3, MAX_EDGES <- 3, MAX_HELD <- 3
Dep == INSTANCE Lockdep WITH Core <- {0, 1}, Thread <- Two \cup {0}, Locks <- {"A", "B", "S"},
    Spin <- {"S"}, MAX_LOCKS <- 2, MAX_EDGES <- 3, MAX_HELD <- 2
Deq == INSTANCE DequeUse WITH k_block_capacity <- 3, SIZE <- 7, RESERVE <- 7
Cap == INSTANCE Capacity WITH THREADS <- 3, ASLEEP <- 3, DEAD <- 3, Spawner <- Two,
    Core <- {0, 1}, OOM <- TRUE, k_block_capacity <- 2, SLACK <- 2, None <- none
Turn == INSTANCE Capacity WITH THREADS <- 4, ASLEEP <- 1, DEAD <- 1, Spawner <- {0}, Core <- {0},
    OOM <- FALSE, k_block_capacity <- 3, SLACK <- 2, None <- none
Map == INSTANCE BootMemory WITH WORD <- 6, PAGE <- 2, MAX_MEMORY_RANGES <- 3,
    MAX_MEMMAP_RANGES <- 2, MAX_ENTRIES <- 3, Fences <- {0, 3}, pc <- map_pc, i <- map_i,
    reserved <- map_reserved
Early == INSTANCE EarlyHeap WITH START <- 1, END <- 60, HEADER <- 8, BLOCK_ALIGN <- 2,
    heap_alignment_fallback <- 4, Requests <- {<<0, 1>>, <<3, 8>>, <<5, 16>>, <<20, 2>>},
    SlabAddresses <- {60, 200}, blocks <- early_blocks, held <- early_held
Frames == INSTANCE Pmm WITH Caller <- Two, Regions <- <<<<0, 2>>, <<4, 4>>>>, ARRAY <- 1,
    regions <- frames_regions, free <- frames_free, panic <- frames_panic
Slabs == INSTANCE SlabHeap WITH Threads <- Two, FRAMES <- 3, PAGE <- 8, HEADER_BYTES <- 4,
    CLASS_SIZES <- <<2, 4>>, MAX_SLAB_ALIGN <- 2, WORD <- 32,
    Requests <- {<<0, 1>>, <<3, 2>>, <<2, 4>>, <<9, 1>>, <<31, 1>>}, run <- slabs_run,
    free <- slabs_free, held <- slabs_held, pc <- slabs_pc
Arena == INSTANCE ObjectArena WITH Threads <- Two, FRAMES <- 3, PAGE <- 12, HEADER <- 2,
    WORD_BYTES <- 1, WORD_BITS <- 2, Arenas <- {"small", "big"},
    object_size <- [small |-> 3, big |-> 7], alignment <- [small |-> 1, big |-> 4], None <- off,
    slab <- arena_slab, dirty <- arena_dirty, partial <- arena_partial, free <- arena_free,
    held <- arena_held, pc <- arena_pc
Elf64 == INSTANCE Elf WITH Blobs <- ElfImages, WORD <- 16, ALIGN <- 2, EHDR <- 2, PHDR <- 1,
    PAGE <- 2, MAX_SEGMENTS <- 2, MAX_IMAGE_BYTES <- 6, UserLo <- 2, UserHi <- 14
Syms == INSTANCE Symbols WITH Blobs <- SymbolImages, WORD <- 32, ALIGN <- 2, EHDR <- 2, SHDR <- 1,
    SYM <- 2, kMaxSymbols <- 3, kStringPoolBytes <- 9, SIZE <- 8, None <- none,
    Addresses <- {1, 2, 4, 5, 6, 8}, blob <- syms_blob, at <- syms_at, next <- syms_next
Many == INSTANCE Symbols WITH Blobs <- SymbolImages, WORD <- 32, ALIGN <- 2, EHDR <- 2, SHDR <- 1,
    SYM <- 2, kMaxSymbols <- 2, kStringPoolBytes <- 5, SIZE <- 8, None <- none,
    Addresses <- {1, 2, 4, 5, 6, 8}, blob <- syms_blob, at <- syms_at, next <- syms_next

lockdepVars == <<id, free, next_identity, edges, owner, holder, on, held, saved, step, nested,
    panic>>
dequeUseVars == <<blocks, seq, reserved, grew>>
capacityVars == <<g_live_threads, g_run_queue, g_zombies, g_sleepers, cpu, reaping, spawn,
    allocated>>
bootMemoryVars == <<fence, memmap, ranges, map_pc, map_i, regions, map_reserved, wired>>
earlyHeapVars == <<early_blocks, active, early_held>>
pmmVars == <<frames_regions, zeroed, dirty, frames_free, ready, content, state, table, owned, run,
    frames_panic>>
slabHeapVars == <<slab, slabs_run, partial, count, large, slabs_free, slabs_held, slabs_pc>>
objectArenaVars == <<arena_slab, arena_dirty, arena_partial, slabs, arena_free, arena_held,
    arena_pc>>
elfVars == <<blob, at, error, img, total, next, aspace, copied>>
symbolsVars == <<syms_blob, syms_at, syms_next, g_entries, g_string_pool, g_initialized, found>>
allvars == <<part, vars, lockdepVars, dequeUseVars, capacityVars, bootMemoryVars, earlyHeapVars,
    pmmVars, slabHeapVars, objectArenaVars, elfVars, symbolsVars>>

\* Variables of a part that does not run.
NoLockdep == id = off /\ free = off /\ next_identity = off /\ edges = off /\ owner = off /\
    holder = off /\ on = off /\ held = off /\ saved = off /\ step = off /\ nested = off /\
    panic = off
NoDequeUse == blocks = off /\ seq = off /\ reserved = off /\ grew = off
NoCapacity == g_live_threads = off /\ g_run_queue = off /\ g_zombies = off /\ g_sleepers = off /\
    cpu = off /\ reaping = off /\ spawn = off /\ allocated = off
NoBootMemory == fence = off /\ memmap = off /\ ranges = off /\ map_pc = off /\ map_i = off /\
    regions = off /\ map_reserved = off /\ wired = off
NoEarlyHeap == early_blocks = off /\ active = off /\ early_held = off
NoPmm == frames_regions = off /\ zeroed = off /\ dirty = off /\ frames_free = off /\
    ready = off /\ content = off /\ state = off /\ table = off /\ owned = off /\ run = off /\
    frames_panic = off
NoSlabHeap == slab = off /\ slabs_run = off /\ partial = off /\ count = off /\ large = off /\
    slabs_free = off /\ slabs_held = off /\ slabs_pc = off
NoObjectArena == arena_slab = off /\ arena_dirty = off /\ arena_partial = off /\ slabs = off /\
    arena_free = off /\ arena_held = off /\ arena_pc = off
NoElf == blob = off /\ at = off /\ error = off /\ img = off /\ total = off /\ next = off /\
    aspace = off /\ copied = off
NoSymbols == syms_blob = off /\ syms_at = off /\ syms_next = off /\ g_entries = off /\
    g_string_pool = off /\ g_initialized = off /\ found = off

AllInit ==
    \/ part = "mutex" /\ Init /\ NoLockdep /\ NoDequeUse /\ NoCapacity /\ NoBootMemory /\
       NoEarlyHeap /\ NoPmm /\ NoSlabHeap /\ NoObjectArena /\ NoElf /\ NoSymbols
    \/ part = "lock chains" /\ Init /\ Chain!Init /\ NoDequeUse /\ NoCapacity /\ NoBootMemory /\
       NoEarlyHeap /\ NoPmm /\ NoSlabHeap /\ NoObjectArena /\ NoElf /\ NoSymbols
    \/ part = "lock cores" /\ Init /\ Dep!Init /\ NoDequeUse /\ NoCapacity /\ NoBootMemory /\
       NoEarlyHeap /\ NoPmm /\ NoSlabHeap /\ NoObjectArena /\ NoElf /\ NoSymbols
    \/ part = "deque" /\ Init /\ Deq!Init /\ NoLockdep /\ NoCapacity /\ NoBootMemory /\
       NoEarlyHeap /\ NoPmm /\ NoSlabHeap /\ NoObjectArena /\ NoElf /\ NoSymbols
    \/ part = "spawns" /\ Init /\ Cap!Init /\ NoLockdep /\ NoDequeUse /\ NoBootMemory /\
       NoEarlyHeap /\ NoPmm /\ NoSlabHeap /\ NoObjectArena /\ NoElf /\ NoSymbols
    \/ part = "preemption" /\ Init /\ Turn!Init /\ NoLockdep /\ NoDequeUse /\ NoBootMemory /\
       NoEarlyHeap /\ NoPmm /\ NoSlabHeap /\ NoObjectArena /\ NoElf /\ NoSymbols
    \/ part = "boot" /\ Init /\ Map!Init /\ NoLockdep /\ NoDequeUse /\ NoCapacity /\
       NoEarlyHeap /\ NoPmm /\ NoSlabHeap /\ NoObjectArena /\ NoElf /\ NoSymbols
    \/ part = "early" /\ Init /\ Early!Init /\ NoLockdep /\ NoDequeUse /\ NoCapacity /\
       NoBootMemory /\ NoPmm /\ NoSlabHeap /\ NoObjectArena /\ NoElf /\ NoSymbols
    \/ part = "pmm" /\ Init /\ Frames!Init /\ NoLockdep /\ NoDequeUse /\ NoCapacity /\
       NoBootMemory /\ NoEarlyHeap /\ NoSlabHeap /\ NoObjectArena /\ NoElf /\ NoSymbols
    \/ part = "slab" /\ Init /\ Slabs!Init /\ NoLockdep /\ NoDequeUse /\ NoCapacity /\
       NoBootMemory /\ NoEarlyHeap /\ NoPmm /\ NoObjectArena /\ NoElf /\ NoSymbols
    \/ part = "arena" /\ Init /\ Arena!Init /\ NoLockdep /\ NoDequeUse /\ NoCapacity /\
       NoBootMemory /\ NoEarlyHeap /\ NoPmm /\ NoSlabHeap /\ NoElf /\ NoSymbols
    \/ part = "elf" /\ Init /\ Elf64!Init /\ NoLockdep /\ NoDequeUse /\ NoCapacity /\
       NoBootMemory /\ NoEarlyHeap /\ NoPmm /\ NoSlabHeap /\ NoObjectArena /\ NoSymbols
    \/ part = "symbols" /\ Init /\ Syms!Init /\ NoLockdep /\ NoDequeUse /\ NoCapacity /\
       NoBootMemory /\ NoEarlyHeap /\ NoPmm /\ NoSlabHeap /\ NoObjectArena /\ NoElf
    \/ part = "many symbols" /\ Init /\ Many!Init /\ NoLockdep /\ NoDequeUse /\ NoCapacity /\
       NoBootMemory /\ NoEarlyHeap /\ NoPmm /\ NoSlabHeap /\ NoObjectArena /\ NoElf

AllNext ==
    \/ part = "mutex" /\ Next /\ UNCHANGED <<part, lockdepVars, dequeUseVars, capacityVars,
         bootMemoryVars, earlyHeapVars, pmmVars, slabHeapVars, objectArenaVars, elfVars,
         symbolsVars>>
    \/ part = "lock chains" /\ Chain!Next /\ UNCHANGED <<part, vars, dequeUseVars, capacityVars,
         bootMemoryVars, earlyHeapVars, pmmVars, slabHeapVars, objectArenaVars, elfVars,
         symbolsVars>>
    \/ part = "lock cores" /\ Dep!Next /\ UNCHANGED <<part, vars, dequeUseVars, capacityVars,
         bootMemoryVars, earlyHeapVars, pmmVars, slabHeapVars, objectArenaVars, elfVars,
         symbolsVars>>
    \/ part = "deque" /\ Deq!Next /\ UNCHANGED <<part, vars, lockdepVars, capacityVars,
         bootMemoryVars, earlyHeapVars, pmmVars, slabHeapVars, objectArenaVars, elfVars,
         symbolsVars>>
    \/ part = "spawns" /\ Cap!Next /\ UNCHANGED <<part, vars, lockdepVars, dequeUseVars,
         bootMemoryVars, earlyHeapVars, pmmVars, slabHeapVars, objectArenaVars, elfVars,
         symbolsVars>>
    \/ part = "preemption" /\ Turn!Next /\ UNCHANGED <<part, vars, lockdepVars, dequeUseVars,
         bootMemoryVars, earlyHeapVars, pmmVars, slabHeapVars, objectArenaVars, elfVars,
         symbolsVars>>
    \/ part = "boot" /\ Map!Next /\ UNCHANGED <<part, vars, lockdepVars, dequeUseVars,
         capacityVars, earlyHeapVars, pmmVars, slabHeapVars, objectArenaVars, elfVars,
         symbolsVars>>
    \/ part = "early" /\ Early!Next /\ UNCHANGED <<part, vars, lockdepVars, dequeUseVars,
         capacityVars, bootMemoryVars, pmmVars, slabHeapVars, objectArenaVars, elfVars,
         symbolsVars>>
    \/ part = "pmm" /\ Frames!Next /\ UNCHANGED <<part, vars, lockdepVars, dequeUseVars,
         capacityVars, bootMemoryVars, earlyHeapVars, slabHeapVars, objectArenaVars, elfVars,
         symbolsVars>>
    \/ part = "slab" /\ Slabs!Next /\ UNCHANGED <<part, vars, lockdepVars, dequeUseVars,
         capacityVars, bootMemoryVars, earlyHeapVars, pmmVars, objectArenaVars, elfVars,
         symbolsVars>>
    \/ part = "arena" /\ Arena!Next /\ UNCHANGED <<part, vars, lockdepVars, dequeUseVars,
         capacityVars, bootMemoryVars, earlyHeapVars, pmmVars, slabHeapVars, elfVars,
         symbolsVars>>
    \/ part = "elf" /\ Elf64!Next /\ UNCHANGED <<part, vars, lockdepVars, dequeUseVars,
         capacityVars, bootMemoryVars, earlyHeapVars, pmmVars, slabHeapVars, objectArenaVars,
         symbolsVars>>
    \/ part = "symbols" /\ Syms!Next /\ UNCHANGED <<part, vars, lockdepVars, dequeUseVars,
         capacityVars, bootMemoryVars, earlyHeapVars, pmmVars, slabHeapVars, objectArenaVars,
         elfVars>>
    \/ part = "many symbols" /\ Many!Next /\ UNCHANGED <<part, vars, lockdepVars, dequeUseVars,
         capacityVars, bootMemoryVars, earlyHeapVars, pmmVars, slabHeapVars, objectArenaVars,
         elfVars>>
    \* These may come to an end.
    \/ part \in {"lock chains", "lock cores", "boot", "pmm", "elf"} /\ UNCHANGED allvars

AllSpec == AllInit /\ [][AllNext]_allvars

ASSUME Parameters ==
    /\ Chain!Sane /\ Dep!Sane /\ Deq!Sane /\ Cap!Sane /\ Turn!Sane
    /\ Early!Sane /\ Slabs!Sane /\ Arena!Sane /\ Elf64!Sane /\ Syms!Sane

\* The two threads are interchangeable.
Symmetry == Permutations(Two)

\* The lock order checker tells the truth. While the kernel runs, the order in which its living locks
\* have been nested has no cycle: an inversion is reported the first time both orders have been
\* completed, through a chain of three locks, or by two threads on two cores. A reported cycle is one,
\* made by locks that exist and not by the past of a recycled identity; and guards that nest meet no
\* other complaint, however their threads are preempted and moved: a mutex is given up by its thread on
\* whichever core it is then (lockdep.cpp:155-156).
LocksOrdered ==
    /\ part = "lock chains" => Chain!OrdersAgree /\ Chain!CycleIsReal /\ Chain!NoFalseAlarm
    /\ part = "lock cores" => Dep!OrdersAgree /\ Dep!CycleIsReal /\ Dep!NoFalseAlarm

\* The lists of the scheduler hold what was put into them. A deque is the sequence of what was
\* pushed and not popped, whatever blocks were consumed, rotated and provisioned, and a push within
\* the reserved size does not allocate. Growing the lists beside running cores and other spawns,
\* which overtake one another and fail, loses and doubles no thread and keeps g_live_threads exact;
\* and no push under g_sched_lock allocates while a block of the deques holds at most one slot more
\* than the slack of two (run queue_room has the larger blocks of the code).
ListsHold ==
    /\ part = "deque" => Deq!IsSequence /\ Deq!ReserveKept /\ Deq!Contiguous
    /\ part = "spawns" => Cap!CountedOnce /\ Cap!PushesFit
    /\ part = "preemption" => Turn!CountedOnce /\ Turn!PushesFit

\* From the firmware's map the allocator gets no address that was not given up (no part of the kernel,
\* of what the boot loader still uses, or of a hole the coalescing ran over), as whole pages inside
\* the address space, apart from one another and from the kernel's; and while the tables do not
\* overflow every page given up arrives.
MemoryGiven == part = "boot" => Map!OnlyGivenMemory /\ Map!RegionsSound /\ Map!NothingLost

\* The blocks of the early heap tile its region, aligned, whatever is split or merged; free neighbours
\* are merged (early_heap.cpp:172-186); every pointer in use has a block of its own; and "Early-heap
\* pointers freed after the flip are recognized by address range" (heap.cpp:11): none is freed into
\* the heap it did not come from.
EarlyHeapSound == part = "early" => Early!Tiles /\ Early!PayloadsOwn /\ Early!Coalesced /\ Early!Routed

\* Every frame is in one place, a pool, a tail or with one owner, and counted there; its descriptor
\* tells the truth whenever the lock is free, so free() can trust it; and what the allocator calls
\* zero is zero, but for a link word.
FramesSound == part = "pmm" => Frames!OnePlace /\ Frames!DescriptorsTrue /\ Frames!ZeroedIsZero

\* Blocks of the slab heap overlap neither each other nor a header nor a page the heap does not own;
\* free() accepts exactly the addresses clients hold, every other one panics (slab_heap.cpp:203-207);
\* no failure or race loses or duplicates a page; the partial list holds exactly the slabs with room,
\* and a class never keeps two empty ones (slab_heap.cpp:222).
SlabsSound ==
    part = "slab" => /\ Slabs!BlocksApart /\ Slabs!FreeExact /\ Slabs!PagesConserved
                     /\ Slabs!ListExact /\ Slabs!OneSpare

\* "every slot an arena hands out is already zero" (object_arena.h:13-15), through recycled pages and
\* reused slots; objects lie past the header and bitmap of one page and never share a byte; "a free
\* of a pointer the arena does not own ... is a deterministic panic" (object_arena.h:17); and full
\* and empty slabs are off the partial lists.
ArenasSound ==
    part = "arena" => /\ Arena!FreeSlotsZero /\ Arena!ObjectsApart
                      /\ Arena!ArenaFreeExact /\ Arena!ArenaListExact

\* A loaded image is what its program headers describe: each address of a loadable segment holds its
\* file byte, or zero past the file's part, and its entry lies in one of its bindings; the loader
\* reads no byte outside the image whatever its offsets and sizes overflow to, accepts no segment that
\* wraps the address space, and spends no more memory than the ceiling.
ImageLoaded ==
    part = "elf" => /\ Elf64!LoadedExact /\ Elf64!EntryMapped /\ Elf64!ReadsInside
                    /\ Elf64!NoWrap /\ Elf64!CeilingKept

\* An address is attributed to an entry that covers it, and where no symbol overlaps another none is
\* missed. The table is the usable symbols of the image that fit, stably sorted; names neither run
\* together nor overwrite one another; and no symbol outside the declared table is read.
SymbolsRight ==
    /\ part = "symbols" => /\ Syms!LookupRight /\ Syms!TableSorted
                           /\ Syms!NamesIntact /\ Syms!TablesBounded
    /\ part = "many symbols" => Many!NamesIntact /\ Many!TablesBounded

\* Every frame a caller receives reads as zero, from whichever source it came and
\* whatever the zeroer did meanwhile.
HandedOutZero == [][part = "pmm" => Frames!HandsOutZero]_allvars
==============================================================================
