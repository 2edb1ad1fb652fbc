-------------------------------- MODULE Crash --------------------------------
(***************************************************************************)
(* The crash dumper (crash/crash.cpp): a core that panics or faults takes  *)
(* the console, walks the frame pointers and the stack through memory that *)
(* may be corrupt, drains the log and stops the machine; the dump itself   *)
(* may fault, other cores may be writing a line or crash as well.          *)
(*                                                                         *)
(* Memory is words of eight bytes, WORD of them, the upper half the        *)
(* kernel's; Odd is an address that is not aligned to a word.              *)
(***************************************************************************)
EXTENDS Integers, Sequences, FiniteSets, FiniteSetsExt

CONSTANTS
    Core,
    Memories,     \* [mapped: set of pages, word: [address -> value]] the dump may find
    Frames,       \* the trap's registers: {[fp, sp]}, or NoRegs for a voluntary panic
    WORD, PAGE,
    RET_SLOT, NEXT_SLOT,    \* frame_ret_slot, frame_next_slot in words: 1 and 0, or -1 and -2
    MAX_FRAMES,   \* fp_walk_result::max_frames
    STACK,        \* kStackBytes in words
    HARNESS,      \* g_harness_enabled
    LINES,        \* bound: log lines each core writes before it crashes
    NoRegs, Odd, None

VARIABLES
    mem,
    owner, depth, \* the console's line guard
    g_in_dump,
    core,         \* [Core -> [at, regs, lines]]
    walk,         \* walk_frame_pointers: [fp, prev, seen: the frame pointers of frames]
    read,         \* addresses the dumper has dereferenced
    wire,         \* what reached the UART: <<core, token>>
    machine       \* "running" or "exited"

vars == <<mem, owner, depth, g_in_dump, core, walk, read, wire, machine>>

Half == WORD \div 2
NewWalk(fp) == [fp |-> fp, prev |-> 0, seen |-> <<>>]

Init ==
    /\ mem \in Memories
    /\ owner = None /\ depth = 0 /\ g_in_dump = FALSE
    /\ core = [c \in Core |-> [at |-> "run", regs |-> NoRegs, lines |-> 0]]
    /\ walk = NewWalk(0) /\ read = {} /\ wire = <<>> /\ machine = "running"

At(c, at) == core[c].at = at /\ machine = "running"
Goto(c, at) == core' = [core EXCEPT ![c].at = at]
Say(c, tokens) == wire' = wire \o [i \in DOMAIN tokens |-> <<c, tokens[i]>>]

----------------------------------------------------------------------------
(* The address tests.                                                      *)

in_kernel_half(p) == p \in Half..(WORD - 1)
plausible_fp(p) == p # Odd /\ in_kernel_half(p)

\* Mapped, as the page tables say.
probe_readable(a) == a \in 0..(WORD - 1) /\ a \div PAGE \in mem.mapped

\* Slot reads near the top would wrap.
NearTop(fp) == fp > WORD - 3

\* The chain climbs the stack.
Climbs(fp, prev) == fp # prev /\ (prev = 0 \/ fp > prev)

\* Both slots of the frame record are mapped.
SlotsProbed(fp) == probe_readable(fp + RET_SLOT) /\ probe_readable(fp + NEXT_SLOT)

\* The next frame may be read.
Walkable(w) ==
    /\ Len(w.seen) < MAX_FRAMES
    /\ plausible_fp(w.fp) /\ ~NearTop(w.fp) /\ Climbs(w.fp, w.prev)
    /\ SlotsProbed(w.fp)

----------------------------------------------------------------------------
(* Ordinary log lines.                                                     *)

LineBegin(c) ==
    /\ At(c, "run") /\ core[c].lines < LINES /\ owner = None
    /\ owner' = c /\ depth' = 1
    /\ core' = [core EXCEPT ![c].at = "line", ![c].lines = @ + 1]
    /\ Say(c, <<"log">>)
    /\ UNCHANGED <<mem, g_in_dump, walk, read, machine>>

LineEnd(c) ==
    /\ At(c, "line")
    /\ depth' = depth - 1 /\ owner' = IF depth = 1 THEN None ELSE owner
    /\ Goto(c, "run")
    /\ Say(c, <<"endl">>)
    /\ UNCHANGED <<mem, g_in_dump, walk, read, machine>>

----------------------------------------------------------------------------
(* dispatch                                                                *)

\* A panic or an exception, between lines or in the middle of one.
Trap(c, regs) ==
    /\ At(c, "run") \/ At(c, "line")
    /\ core' = [core EXCEPT ![c].at = "guard", ![c].regs = regs]
    /\ UNCHANGED <<mem, owner, depth, g_in_dump, walk, read, wire, machine>>

Dumping == {"walk", "header", "backtrace", "stack", "log", "end"}

\* A fault inside the dump enters dispatch again.
Recurse(c) ==
    /\ core[c].at \in Dumping /\ machine = "running"
    /\ Goto(c, "guard")
    /\ UNCHANGED <<mem, owner, depth, g_in_dump, walk, read, wire, machine>>

\* The console is free, or this core has it already.
GuardFree(c) == owner \in {c, None}

\* What a crash inside the dump leaves.
Notice == IF HARNESS THEN <<"RECURSIVE", "END", "abort">> ELSE <<"RECURSIVE">>

\* The guard is taken for good; a crash inside the dump leaves a short notice.
Dispatch(c) ==
    /\ At(c, "guard") /\ GuardFree(c)
    /\ owner' = c /\ depth' = IF owner = c THEN depth + 1 ELSE 1
    /\ IF g_in_dump
       THEN /\ Say(c, Notice)
            /\ Goto(c, "terminate")
            /\ UNCHANGED <<g_in_dump, walk>>
       ELSE /\ g_in_dump' = TRUE
            /\ Goto(c, IF core[c].regs = NoRegs THEN "header" ELSE "walk")
            /\ walk' = NewWalk(IF core[c].regs = NoRegs THEN 0 ELSE core[c].regs.fp)
            /\ UNCHANGED wire
    /\ UNCHANGED <<mem, read, machine>>

\* One turn of walk_frame_pointers, ended also by a return address outside the kernel.
WalkFrame(c) ==
    LET fp == walk.fp
        ret == mem.word[fp + RET_SLOT]
    IN  /\ At(c, "walk") /\ Walkable(walk)
        /\ read' = read \cup {fp + RET_SLOT} \cup (IF in_kernel_half(ret) THEN {fp + NEXT_SLOT} ELSE {})
        /\ IF in_kernel_half(ret)
           THEN /\ walk' = [fp |-> mem.word[fp + NEXT_SLOT], prev |-> fp, seen |-> Append(walk.seen, fp)]
                /\ UNCHANGED core
           ELSE UNCHANGED walk /\ Goto(c, "header")
        /\ UNCHANGED <<mem, owner, depth, g_in_dump, wire, machine>>

WalkEnd(c) ==
    /\ At(c, "walk") /\ ~Walkable(walk)
    /\ Goto(c, "header")
    /\ UNCHANGED <<mem, owner, depth, g_in_dump, walk, read, wire, machine>>

\* The header with the registers, then the backtrace.
EmitHeader(c) ==
    /\ At(c, "header")
    /\ Say(c, <<"BEGIN">>)
    /\ Goto(c, "backtrace")
    /\ UNCHANGED <<mem, owner, depth, g_in_dump, walk, read, machine>>

emit_backtrace(c) ==
    /\ At(c, "backtrace")
    /\ Say(c, [i \in DOMAIN walk.seen |-> "FRAME"])
    /\ Goto(c, "stack")
    /\ UNCHANGED <<mem, owner, depth, g_in_dump, walk, read, machine>>

\* Mutant: the first page decides for the whole window.
PrefixFirst(sp) == IF probe_readable(sp) THEN STACK ELSE 0
\* The words of the stack window before the first page that is not mapped.
Prefix(sp) == Max({n \in 0..STACK : \A k \in 0..(n - 1) : probe_readable(sp + k)})

emit_stack(c) ==
    LET sp == core[c].regs.sp
        bad == sp = Odd \/ ~in_kernel_half(sp) \/ sp > WORD - 1 - STACK
    IN  /\ At(c, "stack")
        /\ read' = IF core[c].regs = NoRegs \/ bad THEN read
                   ELSE read \cup {sp + k : k \in 0..(Prefix(sp) - 1)}
        /\ Say(c, IF core[c].regs = NoRegs THEN <<>> ELSE <<"STACK">>)
        /\ Goto(c, "log")
        /\ UNCHANGED <<mem, owner, depth, g_in_dump, walk, machine>>

emit_log_drain(c) ==
    /\ At(c, "log")
    /\ Say(c, <<"LOG">>)
    /\ Goto(c, "end")
    /\ UNCHANGED <<mem, owner, depth, g_in_dump, walk, read, machine>>

EmitEnd(c) ==
    /\ At(c, "end")
    /\ Say(c, IF HARNESS THEN <<"END", "abort">> ELSE <<"halted">>)
    /\ Goto(c, "terminate")
    /\ UNCHANGED <<mem, owner, depth, g_in_dump, walk, read, machine>>

\* harness_exit ends the machine, hcf only this core.
terminate(c) ==
    /\ At(c, "terminate")
    /\ Goto(c, "halt")
    /\ machine' = IF HARNESS THEN "exited" ELSE machine
    /\ UNCHANGED <<mem, owner, depth, g_in_dump, walk, read, wire>>

----------------------------------------------------------------------------
Report(c) == Dispatch(c) \/ WalkFrame(c) \/ WalkEnd(c) \/ EmitHeader(c) \/ emit_backtrace(c)
             \/ emit_stack(c) \/ emit_log_drain(c) \/ EmitEnd(c) \/ terminate(c)

Next == \E c \in Core : LineBegin(c) \/ LineEnd(c) \/ Recurse(c) \/ Report(c)
                        \/ \E regs \in Frames : Trap(c, regs)

\* A core runs its own code; nothing preempts a dump, which has interrupts off.
Spec == Init /\ [][Next]_vars /\ \A c \in Core : WF_vars(Report(c)) /\ WF_vars(LineEnd(c))

----------------------------------------------------------------------------
(* Properties.                                                             *)

\* The dumper dereferences only mapped memory, however corrupt the frame pointer
\* chain, the stack pointer or the pages around them: a dump does not fault itself.
ReadsMapped == \A a \in read : probe_readable(a)

\* No frame is reported twice, so a chain that loops ends the walk.
FramesClimb == \A i, j \in DOMAIN walk.seen : i < j => walk.seen[i] < walk.seen[j]

\* Once a report has begun only its own core reaches the UART, and it never begins
\* inside a line of another core.
ReportWhole ==
    \A i \in DOMAIN wire : wire[i][2] \in {"BEGIN", "RECURSIVE"} =>
        /\ \A j \in i..Len(wire) : wire[j][1] = wire[i][1]
        /\ \A d \in Core \ {wire[i][1]} :
              Cardinality({j \in 1..i : wire[j] = <<d, "log">>})
                = Cardinality({j \in 1..i : wire[j] = <<d, "endl">>})

\* A harness sees the end of the report and the abort before the machine exits, also
\* when the dump crashed.
AbortSeen ==
    machine = "exited" => Len(wire) >= 2 /\ wire[Len(wire)][2] = "abort" /\ wire[Len(wire) - 1][2] = "END"

\* Some core's crash always comes to its end: with a harness the machine exits.
CrashEnds == (\E c \in Core : At(c, "guard")) ~> (\E c \in Core : core[c].at = "halt")
==============================================================================
