-------------------------------- MODULE Boot --------------------------------
(***************************************************************************)
(* Bring-up of the cores and the choice of what to boot. The boot core     *)
(* keys its per-core tables by its place in the boot protocol's CPU list,  *)
(* releases the other cores with their places, waits for them (for ever on *)
(* x86_64, for a second on riscv64), starts the scheduler they wait for,   *)
(* and launches the coordinator, unless the command line asks for a shell  *)
(* that holds the boot; `boot continue` in the shell launches it then.     *)
(***************************************************************************)
EXTENDS Naturals, Sequences, FiniteSets

CONSTANTS
    MAX_CORES,   \* CONFIG_MAX_CORES
    CPUS,        \* cpu_count of the boot protocol
    CmdLines,    \* command lines: sequences of characters
    SHELL,       \* the token "shell"
    SHELL_BOOT,  \* the token "shell+boot"
    space

VARIABLES
    arch,         \* "x86_64" or "riscv64"
    bp,           \* boot_cpu_index, CPUS when the boot core is not in the list
    dead,         \* CPUs that are listed but never run (riscv64)
    shell,        \* CONFIG_KERNEL_SHELL
    boot,         \* where the boot core is
    next,         \* the CPU cpu_start_cores is at
    goto_,        \* CPUs whose goto_address is set
    arg,          \* [CPU -> extra_argument]
    slot,         \* [CPU -> the per-core slot it runs with, CPUS before it runs]
    initialized,  \* slots marked initialised
    idle,         \* slots with an idle thread
    joined,       \* CPUs in their idle loop
    started,      \* g_started
    line, mode,   \* the command line, and the mode resolved from it
    s_continued,  \* continue_boot's flag
    seen,         \* [caller of continue_boot -> what it read, or "none"]
    launched      \* calls of launch_coordinator
vars == <<arch, bp, dead, shell, boot, next, goto_, arg, slot, initialized, idle, joined, started, line, mode,
          s_continued, seen, launched>>
cores == <<next, goto_, arg, slot, initialized, idle, joined, started>>
input == <<arch, bp, dead, shell, line>>
coordinator == <<s_continued, seen, launched>>

Cpu == 0..CPUS - 1
Callers == {"late_boot", "shell"}
Count == IF CPUS > MAX_CORES THEN MAX_CORES ELSE CPUS

Init ==
    /\ arch \in {"x86_64", "riscv64"} /\ bp \in 0..CPUS /\ shell \in BOOLEAN /\ line \in CmdLines
    /\ dead \in IF arch = "riscv64" THEN SUBSET (Cpu \ {bp}) ELSE {{}}
    /\ boot = "start" /\ next = 0 /\ goto_ = {} /\ mode = "none"
    /\ arg = [c \in Cpu |-> 0] /\ slot = [c \in Cpu |-> CPUS]
    /\ initialized = {} /\ idle = {} /\ joined = {} /\ started = FALSE
    /\ s_continued = FALSE /\ seen = [w \in Callers |-> "none"] /\ launched = 0

\* cmdline_has_token: the loop from one space to the next.
cmdline_has_token(s, token) ==
    LET at[i \in 1..(Len(s) + 2)] ==
          i <= Len(s) + 1 /\
          LET gaps == {k \in i..Len(s) : s[k] = space}
              gap == IF gaps = {} THEN Len(s) + 1 ELSE CHOOSE k \in gaps : \A j \in gaps : k <= j
          IN SubSeq(s, i, gap - 1) = token \/ (gaps # {} /\ at[gap + 1])
    IN at[1]

\* _start: the boot core's place is checked, its slot taken and its core initialised.
StartBoot ==
    /\ boot = "start"
    /\ IF bp >= Count THEN boot' = "panic" /\ UNCHANGED <<slot, initialized>>
       ELSE /\ boot' = "release"
            /\ slot' = [slot EXCEPT ![bp] = bp]
            /\ initialized' = initialized \cup {bp}
    /\ UNCHANGED <<input, next, goto_, arg, idle, joined, started, mode, coordinator>>

\* Mutant: in one cell for all cores.
PublishedShared(c) == [d \in Cpu |-> c]
\* start_cpu publishes the place in the list ...
Published(c) == [arg EXCEPT ![c] = c]

\* cpu_start_cores, one turn: ... and releases the core.
StartCore ==
    /\ boot = "release" /\ next < Count
    /\ next' = next + 1
    /\ IF next = bp THEN UNCHANGED <<goto_, arg>>
       ELSE goto_' = goto_ \cup {next} /\ arg' = Published(next)
    /\ UNCHANGED <<input, boot, slot, initialized, idle, joined, started, mode, coordinator>>

Gate ==
    /\ boot = "release" /\ next = Count /\ boot' = "gate"
    /\ UNCHANGED <<input, cores, mode, coordinator>>

\* The slots the gate waits for.
Awaited == 0..Count - 1

\* cpu_gate_wait_for_cores_started: riscv64 gives up after its deadline.
GateOpens ==
    /\ boot = "gate" /\ (Awaited \subseteq initialized \/ arch = "riscv64")
    /\ boot' = "late"
    /\ UNCHANGED <<input, cores, mode, coordinator>>

\* ap_entry and hart_entry: the core takes the slot it was given and reports.
CoreUp(c) ==
    /\ c \in goto_ \ dead /\ slot[c] = CPUS
    /\ slot' = [slot EXCEPT ![c] = arg[c]]
    /\ initialized' = initialized \cup {slot'[c]}
    /\ UNCHANGED <<input, boot, next, goto_, arg, idle, joined, started, mode, coordinator>>

\* sched::init prepares an idle thread for every core that was released.
Idles == 0..Count - 1

\* late_boot up to the scheduler, and the boot core's own idle thread.
StartScheduler ==
    /\ boot = "late" /\ boot' = "mode"
    /\ idle' = Idles /\ started' = TRUE /\ joined' = joined \cup {bp}
    /\ UNCHANGED <<input, next, goto_, arg, slot, initialized, mode, coordinator>>

\* A secondary core that sees the scheduler started joins it.
Join(c) ==
    /\ c \in goto_ \ joined /\ slot[c] # CPUS /\ started
    /\ joined' = joined \cup {c}
    /\ UNCHANGED <<input, boot, next, goto_, arg, slot, initialized, idle, started, mode, coordinator>>

\* resolve_boot_mode, and the end of late_boot.
Resolve ==
    /\ boot = "mode"
    /\ mode' = IF cmdline_has_token(line, SHELL_BOOT) THEN "SHELL_AND_BOOT"
               ELSE IF cmdline_has_token(line, SHELL) THEN "SHELL" ELSE "BOOT"
    /\ boot' = IF mode' = "SHELL" /\ shell THEN "done" ELSE "continue"
    /\ UNCHANGED <<input, cores, coordinator>>

\* Who may call continue_boot: late_boot at its end, the shell's `boot continue` at any time.
Calls(w) == IF w = "late_boot" THEN boot = "continue" ELSE shell /\ mode \in {"SHELL", "SHELL_AND_BOOT"}

\* continue_boot: s_continued is read with interrupts off, which keeps the other caller
\* out on this core and on no other ...
ReadContinued(w) ==
    /\ seen[w] = "none" /\ Calls(w)
    /\ joined # {bp} \/ \A v \in Callers : seen[v] \in {"none", "done"}
    /\ seen' = [seen EXCEPT ![w] = IF s_continued THEN "yes" ELSE "no"]
    /\ UNCHANGED <<input, boot, cores, mode, s_continued, launched>>
\* ... and written; the first caller launches.
SetContinued(w) ==
    /\ seen[w] \in {"yes", "no"}
    /\ s_continued' = TRUE
    /\ launched' = IF seen[w] = "no" THEN launched + 1 ELSE launched
    /\ seen' = [seen EXCEPT ![w] = IF w = "late_boot" THEN "done" ELSE "none"]
    /\ boot' = IF w = "late_boot" THEN "done" ELSE boot
    /\ UNCHANGED <<input, cores, mode>>

BootStep == StartBoot \/ StartCore \/ Gate \/ GateOpens \/ StartScheduler \/ Resolve
Next ==
    \/ BootStep
    \/ \E c \in Cpu : CoreUp(c) \/ Join(c)
    \/ \E w \in Callers : ReadContinued(w) \/ SetContinued(w)
\* Every core that is released and alive runs, and late_boot goes on: nothing there
\* blocks, and the shell waits for input between two commands. Nobody need type any.
Fairness ==
    /\ WF_vars(BootStep) /\ SF_vars(ReadContinued("late_boot"))
    /\ \A c \in Cpu : WF_vars(CoreUp(c) \/ Join(c))
    /\ \A w \in Callers : WF_vars(SetContinued(w))
Spec == Init /\ [][Next]_vars /\ Fairness

----------------------------------------------------------------------------
(* Properties.                                                             *)

\* No two cores ever run with one slot of the per-core tables, and a secondary core
\* runs with its own place in the list.
SlotsApart == \A c, d \in Cpu : slot[c] # CPUS /\ slot[c] = slot[d] => c = d

\* A core that enters its idle loop, however late it came up, finds the idle thread
\* the scheduler made for its slot.
JoinersHaveIdle == \A c \in joined : slot[c] \in idle

Token(s, w) ==
    \E i \in 1..Len(s) + 1 : LET j == i + Len(w) - 1 IN
        /\ j <= Len(s) /\ SubSeq(s, i, j) = w
        /\ i = 1 \/ s[i - 1] = space
        /\ j = Len(s) \/ s[j + 1] = space
\* The shell is entered exactly when the command line has its whole word, and "shell"
\* is not found inside "shell+boot".
ModeExact ==
    mode # "none" => /\ mode = "SHELL_AND_BOOT" <=> Token(line, SHELL_BOOT)
                     /\ mode = "SHELL" <=> Token(line, SHELL) /\ ~Token(line, SHELL_BOOT)

\* While one core schedules, one coordinator at most is launched, whoever calls
\* continue_boot when. With more, interrupts off keep nobody out: late_boot and the shell
\* may both find s_continued clear, and then, against the comment in continue_boot, two
\* coordinators run; never more, however often `boot continue` is typed.
OneCoordinator == launched <= IF joined = {bp} THEN 1 ELSE Cardinality(Callers)

\* What a boot comes to: the scheduler up, a coordinator unless the shell holds the boot, and
\* every core that was released and lives in its idle loop.
Up ==
    /\ boot = "done" /\ started /\ goto_ \ dead \subseteq joined
    /\ (mode = "SHELL" /\ shell) \/ launched > 0
=============================================================================
