-------------------------------- MODULE MCVm ---------------------------------
(*****************************************************************************)
(* Virtual memory, and what is left to see the kernel by when it fails: page *)
(* tables and TLBs, the regions, VMOs and faults above them; the console's   *)
(* terminal, the log ring and the crash dump, which reads only what is       *)
(* mapped. Each sees of the others only which pages are translated, so they  *)
(* are put side by side: a behaviour of this module is a behaviour of one    *)
(* instance, which part names.                                               *)
(*****************************************************************************)
EXTENDS Integers, Sequences, TLC

CONSTANTS
    Two,           \* spaces, tasks
    lone,          \* the only space or task of some instances
    c1, c2,        \* cores
    anon, device,  \* VMOs
    kernel, none,  \* the kernel's space, no space
    NoRegs, Odd,   \* no registers; an address that is not aligned
    off            \* the value of a variable that is not in use

VARIABLES
    part,
    mem, free, root, satp, active, running, pc, tlb,
    slots, data, size, handles, live, layout_mem, pt, thread, swap,
    owner, depth, wr, wire, ring, head, tail, fb, escape_t, painter,
    m_write, m_read, m_dropped, m_flushing, log_slots, pr, rd, emitted,
    walk_mem, walk_owner, walk_depth, g_in_dump, core, walk, read, walk_wire, machine

\* Pages 0-6 are the user half, 24-30 the kernel half, and 8-22 are not canonical.
RU == {"READ", "USER"}
Rejected == {<<12, RU, "CACHED">>, <<4, {"WRITE"}, "CACHED">>}
TreeRequests == Rejected \cup {<<0, {"READ"}, "CACHED">>, <<6, {"READ", "WRITE", "USER"}, "WRITE_COMBINING">>}
CodecRequests == TreeRequests \cup {<<2, {"READ", "EXECUTE", "USER"}, "DEVICE">>}
TlbRequests == {<<0, RU, "WRITE_COMBINING">>, <<2, RU, "DEVICE">>}
RW == {{"R"}, {"R", "W"}}

\* Terminal input: text, controls, cursor moves, erases, colours, frames and sequences cut short
\* or too long.
CSI == <<"ESC", "[">>
Escapes ==
    {<<"x", "y">>, <<"NL">>, <<"x", "CR">>, <<"BS", "CTL">>, <<"ESC", "(">>,
     CSI \o <<"2", ";", "9", "H">>, CSI \o <<"2", "A">>, CSI \o <<"B", "z">>, CSI \o <<"9", "C">>, CSI \o <<"4", "0", "9", "5", "C">>,
     CSI \o <<"D">>, CSI \o <<"3", "G">>, CSI \o <<"0", "d">>, CSI \o <<"J">>, CSI \o <<"1", "J">>,
     CSI \o <<"K">>, CSI \o <<"1", "K">>, CSI \o <<"2", "K">>,
     CSI \o <<"?", "2", "0", "2", "6", "h">>, CSI \o <<"?", "2", "0", "2", "6", "l">>, <<"TAB">>}
Colours ==
    {<<"x">>, <<"NL">>, CSI \o <<"m">>, CSI \o <<"1", ";", "7", "m">>, CSI \o <<"2", "7", ";", "3", "1", "m">>,
     CSI \o <<"4", "8", ";", "5", ";", "9", "m">>, CSI \o <<"3", "8", ";", "2", ";", ";", ";", "9", "9", "m">>,
     CSI \o <<";", ";", ";", ";", ";", "7", "m">>, CSI \o <<"2", "J">>}

\* Sixteen words of memory, pages of four, a frame record at every word.  Frame pointers that
\* climb, loop, point down, to user space, near the top or nowhere; one return address may be
\* bad; each page of the kernel half may be unmapped.
Regs(fp, sp) == [fp |-> fp, sp |-> sp]
Words == {[a \in -2..15 |-> IF a = bad THEN 3 ELSE IF a = 11 THEN over ELSE IF a \in DOMAIN to THEN to[a] ELSE 12] :
            bad \in {0, 9, 13}, over \in {3, 13}, to \in [{8, 10, 13} -> {8, 13, 15, Odd, 3}]}
Corrupt == {[mapped |-> m, word |-> w] : m \in {{0, 2, 3}, {2}, {3}}, w \in Words}
AnyFrame == {Regs(8, 11), Regs(10, 9), Regs(11, 12), Regs(13, 13), Regs(Odd, Odd), Regs(3, 3)}

\* Framebuffers: good ones, and ones to refuse: too short a pitch, no pixels, narrower than a
\* glyph, too wide or too tall for the word, not 32 bits a pixel.
Frame(w, h, p, bits) == [width |-> w, height |-> h, pitch |-> p, bpp |-> bits]
Panels == {Frame(6, 4, 24, 32), Frame(7, 5, 30, 32), Frame(6, 4, 20, 32), Frame(0, 4, 8, 32),
           Frame(1, 4, 24, 32), Frame(64, 2, 0, 32), Frame(6, 30, 24, 32), Frame(6, 4, 24, 16)}

Tree == INSTANCE Paging WITH ARCH <- "x86_64", Cores <- {c1}, Spaces <- Two, PT_LEVELS <- 3,
    FRAMES <- 8, VSPACE <- 32, Requests <- TreeRequests, DATA <- 90, Cached <- {},
    SPECULATIVE <- FALSE, None <- none
Sv == INSTANCE Paging WITH ARCH <- "riscv64", Cores <- {c1}, Spaces <- Two, PT_LEVELS <- 3,
    FRAMES <- 7, VSPACE <- 32, Requests <- CodecRequests, DATA <- 90, Cached <- {},
    SPECULATIVE <- FALSE, None <- none
Tlb == INSTANCE Paging WITH ARCH <- "riscv64", Cores <- {c1, c2}, Spaces <- {lone}, PT_LEVELS <- 3,
    FRAMES <- 6, VSPACE <- 32, Requests <- TlbRequests, DATA <- 90, Cached <- {0, 2},
    SPECULATIVE <- FALSE, None <- none
Fills == INSTANCE Paging WITH ARCH <- "riscv64", Cores <- {c1, c2}, Spaces <- {lone},
    PT_LEVELS <- 3, FRAMES <- 6, VSPACE <- 32, Requests <- TlbRequests, DATA <- 90,
    Cached <- {0, 2}, SPECULATIVE <- TRUE, None <- none
Layout == INSTANCE Vm WITH Tasks <- {lone}, Anon <- {anon}, Device <- {device},
    Size <- [x \in {anon, device} |-> 2], PAGE <- 2, WORD <- 32, LIMIT <- 10, FLOOR <- 6,
    CHUNK <- 1, FRAMES <- 0, HEAP <- 3, Vaddrs <- {2, 4, 7, 8}, Lengths <- {1, 2, 4, 28},
    Offsets <- {0, 30}, Prots <- RW, Subs <- {4}, Touch <- {}, mem <- layout_mem
Share == INSTANCE Vm WITH Tasks <- Two, Anon <- {anon}, Device <- {},
    Size <- [x \in {anon, device} |-> 2], PAGE <- 2, WORD <- 16, LIMIT <- 6, FLOOR <- 2,
    CHUNK <- 2, FRAMES <- 3, HEAP <- 2, Vaddrs <- {2}, Lengths <- {4}, Offsets <- {0},
    Prots <- RW, Subs <- {}, Touch <- {4}, mem <- layout_mem
Escape == INSTANCE Console WITH Core <- {c1}, Strings <- Escapes, LINES <- 2, PIECES <- 1,
    Framebuffers <- {Frame(3, 2, 12, 32)}, GLYPH <- 1, SIZE_MAX <- 255, RING_SIZE <- 16,
    BATCH <- 4, FLUSH_BYTES <- 8, PARAMS <- 5, TAB <- 2, INT_MAX <- 2047, None <- none,
    t <- escape_t
Colour == INSTANCE Console WITH Core <- {c1}, Strings <- Colours, LINES <- 3, PIECES <- 1,
    Framebuffers <- {Frame(3, 2, 12, 32)}, GLYPH <- 1, SIZE_MAX <- 255, RING_SIZE <- 32,
    BATCH <- 4, FLUSH_BYTES <- 8, PARAMS <- 5, TAB <- 2, INT_MAX <- 2047, None <- none,
    t <- escape_t
Panel == INSTANCE Console WITH Core <- {c1}, Strings <- {<<"x", "y", "NL">>}, LINES <- 1,
    PIECES <- 2, Framebuffers <- Panels, GLYPH <- 2, SIZE_MAX <- 255, RING_SIZE <- 4, BATCH <- 2,
    FLUSH_BYTES <- 6, PARAMS <- 5, TAB <- 2, INT_MAX <- 2047, None <- none, t <- escape_t
Log == INSTANCE LogRing WITH Producer <- {c1, c2}, CALLS <- 2, Capacity <- 2, WORD <- 16,
    Scan <- "show", slots <- log_slots
CrashLog == INSTANCE LogRing WITH Producer <- {c1, c2}, CALLS <- 2, Capacity <- 2, WORD <- 16,
    Scan <- "crash", slots <- log_slots
Walk == INSTANCE Crash WITH Core <- {c1}, Memories <- Corrupt, Frames <- AnyFrame, WORD <- 16,
    PAGE <- 4, RET_SLOT <- 1, NEXT_SLOT <- 0, MAX_FRAMES <- 3, STACK <- 3, HARNESS <- FALSE,
    LINES <- 0, None <- none, mem <- walk_mem, owner <- walk_owner, depth <- walk_depth,
    wire <- walk_wire
Below == INSTANCE Crash WITH Core <- {c1}, Memories <- Corrupt, Frames <- AnyFrame, WORD <- 16,
    PAGE <- 4, RET_SLOT <- -1, NEXT_SLOT <- -2, MAX_FRAMES <- 3, STACK <- 3, HARNESS <- FALSE,
    LINES <- 0, None <- none, mem <- walk_mem, owner <- walk_owner, depth <- walk_depth,
    wire <- walk_wire

pagingVars == <<mem, free, root, satp, active, running, pc, tlb>>
vmVars == <<slots, data, size, handles, live, layout_mem, pt, thread, swap>>
consoleVars == <<owner, depth, wr, wire, ring, head, tail, fb, escape_t, painter>>
logRingVars == <<m_write, m_read, m_dropped, m_flushing, log_slots, pr, rd, emitted>>
crashVars == <<walk_mem, walk_owner, walk_depth, g_in_dump, core, walk, read, walk_wire, machine>>
allvars == <<part, pagingVars, vmVars, consoleVars, logRingVars, crashVars>>

\* Variables of a part that does not run.
NoPaging == mem = off /\ free = off /\ root = off /\ satp = off /\ active = off /\
    running = off /\ pc = off /\ tlb = off
NoVm == slots = off /\ data = off /\ size = off /\ handles = off /\ live = off /\
    layout_mem = off /\ pt = off /\ thread = off /\ swap = off
NoConsole == owner = off /\ depth = off /\ wr = off /\ wire = off /\ ring = off /\ head = off /\
    tail = off /\ fb = off /\ escape_t = off /\ painter = off
NoLogRing == m_write = off /\ m_read = off /\ m_dropped = off /\ m_flushing = off /\
    log_slots = off /\ pr = off /\ rd = off /\ emitted = off
NoCrash == walk_mem = off /\ walk_owner = off /\ walk_depth = off /\ g_in_dump = off /\
    core = off /\ walk = off /\ read = off /\ walk_wire = off /\ machine = off

AllInit ==
    \/ part = "tree" /\ Tree!Init /\ NoVm /\ NoConsole /\ NoLogRing /\ NoCrash
    \/ part = "sv39" /\ Sv!Init /\ NoVm /\ NoConsole /\ NoLogRing /\ NoCrash
    \/ part = "tlb" /\ Tlb!Init /\ NoVm /\ NoConsole /\ NoLogRing /\ NoCrash
    \/ part = "fills" /\ Fills!Init /\ NoVm /\ NoConsole /\ NoLogRing /\ NoCrash
    \/ part = "layout" /\ Layout!Init /\ NoPaging /\ NoConsole /\ NoLogRing /\ NoCrash
    \/ part = "share" /\ Share!Init /\ NoPaging /\ NoConsole /\ NoLogRing /\ NoCrash
    \/ part = "escapes" /\ Escape!Init /\ NoPaging /\ NoVm /\ NoLogRing /\ NoCrash
    \/ part = "colours" /\ Colour!Init /\ NoPaging /\ NoVm /\ NoLogRing /\ NoCrash
    \/ part = "panels" /\ Panel!Init /\ NoPaging /\ NoVm /\ NoLogRing /\ NoCrash
    \/ part = "log" /\ Log!Init /\ NoPaging /\ NoVm /\ NoConsole /\ NoCrash
    \/ part = "crash log" /\ CrashLog!Init /\ NoPaging /\ NoVm /\ NoConsole /\ NoCrash
    \/ part = "walk" /\ Walk!Init /\ NoPaging /\ NoVm /\ NoConsole /\ NoLogRing
    \/ part = "riscv walk" /\ Below!Init /\ NoPaging /\ NoVm /\ NoConsole /\ NoLogRing

AllNext ==
    \/ part = "tree" /\ Tree!Next /\ UNCHANGED <<part, vmVars, consoleVars, logRingVars,
         crashVars>>
    \/ part = "sv39" /\ Sv!Next /\ UNCHANGED <<part, vmVars, consoleVars, logRingVars, crashVars>>
    \/ part = "tlb" /\ Tlb!Next /\ UNCHANGED <<part, vmVars, consoleVars, logRingVars, crashVars>>
    \/ part = "fills" /\ Fills!Next /\ UNCHANGED <<part, vmVars, consoleVars, logRingVars,
         crashVars>>
    \/ part = "layout" /\ Layout!Next /\ UNCHANGED <<part, pagingVars, consoleVars, logRingVars,
         crashVars>>
    \/ part = "share" /\ Share!Next /\ UNCHANGED <<part, pagingVars, consoleVars, logRingVars,
         crashVars>>
    \/ part = "escapes" /\ Escape!Next /\ UNCHANGED <<part, pagingVars, vmVars, logRingVars,
         crashVars>>
    \/ part = "colours" /\ Colour!Next /\ UNCHANGED <<part, pagingVars, vmVars, logRingVars,
         crashVars>>
    \/ part = "panels" /\ Panel!Next /\ UNCHANGED <<part, pagingVars, vmVars, logRingVars,
         crashVars>>
    \/ part = "log" /\ Log!Next /\ UNCHANGED <<part, pagingVars, vmVars, consoleVars, crashVars>>
    \/ part = "crash log" /\ CrashLog!Next /\ UNCHANGED <<part, pagingVars, vmVars, consoleVars,
         crashVars>>
    \/ part = "walk" /\ Walk!Next /\ UNCHANGED <<part, pagingVars, vmVars, consoleVars,
         logRingVars>>
    \/ part = "riscv walk" /\ Below!Next /\ UNCHANGED <<part, pagingVars, vmVars, consoleVars,
         logRingVars>>
    \* These may come to an end.
    \/ part \in {"layout", "share", "escapes", "colours", "panels", "log", "crash log", "walk", "riscv walk"} /\ UNCHANGED allvars

AllSpec == AllInit /\ [][AllNext]_allvars

\* The two instances alone in which the code and what is said of it disagree.
FillsSpec == AllInit /\ part = "fills" /\ [][AllNext]_allvars
ShareSpec == AllInit /\ part = "share" /\ [][AllNext]_allvars

ASSUME Parameters == Layout!Sane /\ Share!Sane /\ Log!Sane

Symmetry == Permutations(Two)

\* Page tables are sound. Every frame not with the PMM is a root or belongs to the user half of one
\* space or the kernel half of all, also after a map that ran out of frames half-way (paging.cpp:75);
\* "A core holds a user address space active only while running one of that task's threads, so the
\* reaper can tear a space down from any core" (scheduler.cpp:129): no core walks a freed table; a
\* page mapped for user mode is reachable by it, whatever was mapped under the same tables before; and
\* with no map or unmap under way, what a core has cached is what its tables say.
TablesSound ==
    /\ part = "tree" => Tree!TablesExact /\ Tree!WalksLive /\ Tree!UserReachable
    /\ part = "fills" => Fills!WalksLive
    /\ part = "tlb" => Tlb!TlbCoherent

\* Regions and translations agree. The slots of a region are disjoint, inside it, and grant no more
\* than it does, whatever wraps in the request; map_anywhere binds "at the lowest gap between direct
\* children that fits" (region.h:70); the back-references of a VMO are exactly its bindings (vmo.h:48).
\* Translations follow it (zap_range, vmm_handle_fault): each lies in a live binding of its task, grants
\* no more than the binding, and leads to the VMO's frame for that page or, without write permission,
\* to the zero page, also when the page has been filled since (ZeroPageCurrent is about that), and the
\* zero page is all that a write fault ever has to replace (the assertion of resolve_cow, fault.cpp:20);
\* every frame has one use at a time; and an access that vmm_handle_fault retries is allowed, so no
\* thread faults on it for ever.
MappingsSound ==
    /\ part = "layout" => Layout!SlotsNest /\ Layout!LowestGap /\ Layout!BackrefsExact
    /\ part = "share" => /\ Share!TranslationsBacked /\ Share!FramesOnce
                         /\ Share!Resolved /\ Share!CowOnZeroPage

\* "SBI RFENCE ... returns once they have executed it, so the caller's unmap is complete everywhere on
\* return" (riscv64/paging.cpp:111), and a new leaf is not hidden by a cached miss: with no map or
\* unmap under way, what a core has cached is what its tables say, when a core may fill its buffer
\* on its own.
FilledCoherent == part = "fills" => Fills!TlbCoherent

\* The back-references of a VMO are exactly its bindings (vmo.h:48 "They record every translation of
\* a page so eviction and writeback can find them"), when two address spaces share the VMO.
SharedBackrefsExact == part = "share" => Share!BackrefsExact

\* Page-table entries "are a cache of VMO and region truth" (docs/Kernel/Memory Subsystem.md:66): what
\* one task has written to a page of a VMO, another that has it mapped reads, also one that had read
\* it before and got the zero page (vmm_handle_fault, resolve_cow).
ZeroPageCurrent == part = "share" => Share!SharedAgree

\* A clean terminal is on the panel: every path that changes a cell marks the grid, and flush blits
\* and writes back every cell that changed; the cursor stays in the grid and the parser in its array,
\* whatever bytes arrive; bytes drained between two flushes stay below the flood cap, also when a
\* synchronized frame is left open; and every glyph's bytes lie in its own scanlines and in the memory
\* handed over, for every framebuffer init() accepts.
TerminalExact ==
    /\ part = "escapes" => Escape!PanelExact /\ Escape!CursorInGrid /\ Escape!FloodBounded
    /\ part = "colours" => Colour!PanelExact /\ Colour!CursorInGrid
    /\ part = "panels" => Panel!BlitInside

\* The console shows every message once, whole and in the order of the sequence numbers, although
\* producers and flushers share the slots without locks: a reserved slot belongs to one producer, and
\* nothing reserved is overrun. A scan visits every message that was committed in its window when it
\* began and whose slot no producer has reclaimed since.
LogWhole ==
    /\ part = "log" => /\ Log!EmittedInOrder /\ Log!NothingOverrun
                       /\ Log!SlotsExclusive /\ Log!ScanComplete
    /\ part = "crash log" => CrashLog!ScanComplete

\* The dumper dereferences only mapped memory, however corrupt the frame pointer chain, the stack
\* pointer or the pages around them, so a dump does not fault itself; and no frame is reported twice,
\* so a chain that loops ends the walk.
DumpReads ==
    /\ part = "walk" => Walk!ReadsMapped /\ Walk!FramesClimb
    /\ part = "riscv walk" => Below!ReadsMapped

\* Page tables implement the maps of Translations: one page at a time, the attributes asked for (cache
\* modes only ever stricter), the kernel half of every space the kernel's, and non-canonical
\* addresses unmapped rather than aliased.
ImplementsTranslations ==
    /\ part = "tree" => Tree!Abstract!Init
    /\ part = "sv39" => Sv!Abstract!Init
    /\ [][/\ part = "tree" => UNCHANGED Tree!Abstract!vars \/ Tree!Abstract!Next
          /\ part = "sv39" => UNCHANGED Sv!Abstract!vars \/ Sv!Abstract!Next]_allvars
==============================================================================
