------------------------------- MODULE MCLive --------------------------------
(*****************************************************************************)
(* What the system must do in the end: small instances of the components     *)
(* whose progress depends on a fair scheduler, and of the safety that goes   *)
(* with it. They share no state here, so they are put side by side: a        *)
(* behaviour of this module is a behaviour of one of them, which part names. *)
(*****************************************************************************)
EXTENDS Integers, Sequences, TLC

CONSTANTS
    t1, t2, t3,   \* threads, tasks
    x1, x2,       \* port bindings
    None, NoRegs, Odd, idler,
    off           \* the value of a variable that is not in use

VARIABLES
    part,
    arch, bp, dead, shell, boot, next, goto_, arg, slot, initialized, idle, joined, started, line,
    mode, s_continued, seen, launched,
    parent, pc, held, refs, queue, draft, callers, todo, thread, on_cpu, killed, state, exit, rec,
    reaper,
    m_state, waiters, mtx_pc, woken, mtx_killed,
    osig, list, prt_b, ready, readable, alive, lock, th, due,
    owner, depth, wr, wire, ring, head, tail, fb, con_t, painter,
    mem, dump_owner, dump_depth, g_in_dump, core, walk, read, dump_wire, machine,
    mail, children, names, parked, table, coord_state, up, unread, port, drain, serve, asked,
    sent, lost, missed,
    g_run_queue, current, at, kick_next, kick_idle, slice, need, ipi

\* A framebuffer of six pixels by four.
Panel == [width |-> 6, height |-> 4, pitch |-> 24, bpp |-> 32]

\* A stack of two frames, below a caller in user space.
Sound == [mapped |-> {2, 3}, word |-> [a \in -2..15 |-> IF a = 8 THEN 10 ELSE IF a = 10 THEN 3 ELSE 12]]

\* A server, a client and a late server in two slots, after the coordinator's own image.
Req(op, name, txid, gift) == [op |-> op, name |-> name, txid |-> txid, gift |-> gift]
Mail == <<[kind |-> "init", image |-> None], [kind |-> "task", image |-> t1],
          [kind |-> "task", image |-> t2], [kind |-> "task", image |-> t3]>>
Asks ==
    (t1 :> {Req("REGISTER", "echo", 1, TRUE)}
     @@ t2 :> {Req("CONNECT", "echo", 1, FALSE), Req("CONNECT", "log", 2, FALSE)}
     @@ t3 :> {Req("REGISTER", "echo", 1, FALSE), Req("CONNECT", "echo", 2, FALSE)})

Smp == INSTANCE Boot WITH MAX_CORES <- 3, CPUS <- 4, CmdLines <- {<<>>, <<"a">>, <<"a", "b">>},
    SHELL <- <<"a">>, SHELL_BOOT <- <<"a", "b">>, space <- " "
One == INSTANCE Boot WITH MAX_CORES <- 2, CPUS <- 1,
    CmdLines <- UNION {[1..n -> {"a", "b", " "}] : n \in 0..4}, SHELL <- <<"a">>,
    SHELL_BOOT <- <<"a", "b">>, space <- " "
Task == INSTANCE UserTask WITH Modules <- {"m1"}, QUEUE_DEPTH <- 1
Mtx == INSTANCE Mutex WITH Thread <- {t1, t2, t3}, none <- None, pc <- mtx_pc,
    killed <- mtx_killed
Prt == INSTANCE Port WITH Thread <- {t1, t2}, Binding <- {x1, x2}, Key <- {"key"}, Bit <- {"bit"},
    none <- None, b <- prt_b
Con == INSTANCE Console WITH Core <- {0, 1}, Strings <- {<<"TAB", "x", "x">>}, LINES <- 1,
    PIECES <- 2, Framebuffers <- {Panel, [Panel EXCEPT !.bpp = 16]}, GLYPH <- 2, SIZE_MAX <- 255,
    RING_SIZE <- 4, BATCH <- 2, FLUSH_BYTES <- 6, PARAMS <- 5, TAB <- 2, INT_MAX <- 2047, t <- con_t
Dump == INSTANCE Crash WITH Core <- {0, 1}, Memories <- {Sound},
    Frames <- {[fp |-> 8, sp |-> 9], NoRegs}, WORD <- 16, PAGE <- 4, RET_SLOT <- 1,
    NEXT_SLOT <- 0, MAX_FRAMES <- 3, STACK <- 3, HARNESS <- TRUE, LINES <- 1, owner <- dump_owner,
    depth <- dump_depth, wire <- dump_wire
Coord == INSTANCE Coordinator WITH Image <- {t1, t2, t3}, Mail <- Mail, Asks <- Asks,
    Slot <- {1, 2}, Entry <- {1, 2}, Parking <- {1, 2}, DEPTH <- 2, Faults <- {},
    state <- coord_state

\* Two threads wake each other while cores go idle.
Kick == INSTANCE IdleKick WITH CORES <- 2, Thread <- {t1, t2}, SLICE <- 1, Idle <- idler,
    next <- kick_next, idle <- kick_idle

bootVars == <<arch, bp, dead, shell, boot, next, goto_, arg, slot, initialized, idle, joined,
    started, line, mode, s_continued, seen, launched>>
userTaskVars == <<parent, pc, held, refs, queue, draft, callers, todo, thread, on_cpu, killed,
    state, exit, rec, reaper>>
mutexVars == <<m_state, waiters, mtx_pc, woken, mtx_killed>>
portVars == <<osig, list, prt_b, ready, readable, alive, lock, th, due>>
consoleVars == <<owner, depth, wr, wire, ring, head, tail, fb, con_t, painter>>
crashVars == <<mem, dump_owner, dump_depth, g_in_dump, core, walk, read, dump_wire, machine>>
coordinatorVars == <<mail, children, names, parked, table, coord_state, up, unread, port, drain,
    serve, asked, sent, lost, missed>>
kickVars == <<g_run_queue, current, at, kick_next, kick_idle, slice, need, ipi>>
allvars == <<part, bootVars, userTaskVars, mutexVars, portVars, consoleVars, crashVars,
    coordinatorVars, kickVars>>

\* Variables of a part that does not run.
NoBoot == arch = off /\ bp = off /\ dead = off /\ shell = off /\ boot = off /\ next = off /\
    goto_ = off /\ arg = off /\ slot = off /\ initialized = off /\ idle = off /\ joined = off /\
    started = off /\ line = off /\ mode = off /\ s_continued = off /\ seen = off /\ launched = off
NoUserTask == parent = off /\ pc = off /\ held = off /\ refs = off /\ queue = off /\
    draft = off /\ callers = off /\ todo = off /\ thread = off /\ on_cpu = off /\ killed = off /\
    state = off /\ exit = off /\ rec = off /\ reaper = off
NoMutex == m_state = off /\ waiters = off /\ mtx_pc = off /\ woken = off /\ mtx_killed = off
NoPort == osig = off /\ list = off /\ prt_b = off /\ ready = off /\ readable = off /\
    alive = off /\ lock = off /\ th = off /\ due = off
NoConsole == owner = off /\ depth = off /\ wr = off /\ wire = off /\ ring = off /\ head = off /\
    tail = off /\ fb = off /\ con_t = off /\ painter = off
NoCrash == mem = off /\ dump_owner = off /\ dump_depth = off /\ g_in_dump = off /\ core = off /\
    walk = off /\ read = off /\ dump_wire = off /\ machine = off
NoCoordinator == mail = off /\ children = off /\ names = off /\ parked = off /\ table = off /\
    coord_state = off /\ up = off /\ unread = off /\ port = off /\ drain = off /\ serve = off /\
    asked = off /\ sent = off /\ lost = off /\ missed = off
NoKick == g_run_queue = off /\ current = off /\ at = off /\ kick_next = off /\ kick_idle = off /\
    slice = off /\ need = off /\ ipi = off

AllInit ==
    \/ part = "boot" /\ Smp!Init /\ NoUserTask /\ NoMutex /\ NoPort /\ NoConsole /\ NoCrash /\
       NoCoordinator /\ NoKick
    \/ part = "mode" /\ One!Init /\ NoUserTask /\ NoMutex /\ NoPort /\ NoConsole /\ NoCrash /\
       NoCoordinator /\ NoKick
    \/ part = "task" /\ Task!Init /\ NoBoot /\ NoMutex /\ NoPort /\ NoConsole /\ NoCrash /\
       NoCoordinator /\ NoKick
    \/ part = "mutex" /\ Mtx!Init /\ NoBoot /\ NoUserTask /\ NoPort /\ NoConsole /\ NoCrash /\
       NoCoordinator /\ NoKick
    \/ part = "port" /\ Prt!Init /\ NoBoot /\ NoUserTask /\ NoMutex /\ NoConsole /\ NoCrash /\
       NoCoordinator /\ NoKick
    \/ part = "console" /\ Con!Init /\ NoBoot /\ NoUserTask /\ NoMutex /\ NoPort /\ NoCrash /\
       NoCoordinator /\ NoKick
    \/ part = "crash" /\ Dump!Init /\ NoBoot /\ NoUserTask /\ NoMutex /\ NoPort /\ NoConsole /\
       NoCoordinator /\ NoKick
    \/ part = "coordinator" /\ Coord!Init /\ NoBoot /\ NoUserTask /\ NoMutex /\ NoPort /\
       NoConsole /\ NoCrash /\ NoKick
    \/ part = "kick" /\ Kick!Init /\ NoBoot /\ NoUserTask /\ NoMutex /\ NoPort /\ NoConsole /\
       NoCrash /\ NoCoordinator

\* A step of one part.
OnlySmp == part = "boot" /\ UNCHANGED <<part, userTaskVars, mutexVars, portVars, consoleVars,
    crashVars, coordinatorVars, kickVars>>
OnlyOne == part = "mode" /\ UNCHANGED <<part, userTaskVars, mutexVars, portVars, consoleVars,
    crashVars, coordinatorVars, kickVars>>
OnlyTask == part = "task" /\ UNCHANGED <<part, bootVars, mutexVars, portVars, consoleVars,
    crashVars, coordinatorVars, kickVars>>
OnlyMtx == part = "mutex" /\ UNCHANGED <<part, bootVars, userTaskVars, portVars, consoleVars,
    crashVars, coordinatorVars, kickVars>>
OnlyPrt == part = "port" /\ UNCHANGED <<part, bootVars, userTaskVars, mutexVars, consoleVars,
    crashVars, coordinatorVars, kickVars>>
OnlyCon == part = "console" /\ UNCHANGED <<part, bootVars, userTaskVars, mutexVars, portVars,
    crashVars, coordinatorVars, kickVars>>
OnlyDump == part = "crash" /\ UNCHANGED <<part, bootVars, userTaskVars, mutexVars, portVars,
    consoleVars, coordinatorVars, kickVars>>
OnlyCoord == part = "coordinator" /\ UNCHANGED <<part, bootVars, userTaskVars, mutexVars,
    portVars, consoleVars, crashVars, kickVars>>
OnlyKick == part = "kick" /\ UNCHANGED <<part, bootVars, userTaskVars, mutexVars, portVars,
    consoleVars, crashVars, coordinatorVars>>

AllNext ==
    \/ OnlySmp /\ Smp!Next
    \/ OnlyOne /\ One!Next
    \/ OnlyTask /\ Task!Next
    \/ OnlyMtx /\ Mtx!Next
    \/ OnlyPrt /\ (Prt!Serve(t1) \/ Prt!Feed(t2))
    \/ OnlyCon /\ Con!Next
    \/ OnlyDump /\ Dump!Next
    \/ OnlyCoord /\ Coord!Next
    \/ OnlyKick /\ Kick!Next
    \* These may come to an end.
    \/ part \in {"boot", "mode", "task", "console", "crash", "coordinator"} /\ UNCHANGED allvars

\* The fairness each component states, while it is the one that runs: part never changes, so
\* fairness of a disjunction over parts is fairness of each.
AllSpec ==
    /\ AllInit /\ [][AllNext]_allvars
    /\ WF_allvars(
          \/ OnlySmp /\ Smp!BootStep
          \/ OnlyTask /\ Task!Creator
          \/ OnlyMtx /\ (Mtx!Unlock(t1) \/ Mtx!WakeTake(t1) \/ Mtx!WakeReady(t1) \/ Mtx!Contend(t1))
          \/ OnlyPrt /\ Prt!Serve(t1)
          \/ OnlyCon /\ Con!Paint
          \/ OnlyDump /\ Dump!Report(0)
          \/ OnlyCoord /\ Coord!Coordinate
          \/ OnlyKick /\ Kick!Own(0))
    /\ WF_allvars(
          \/ OnlySmp /\ (Smp!CoreUp(0) \/ Smp!Join(0))
          \/ OnlyTask /\ Task!Leave
          \/ OnlyMtx /\ (Mtx!Unlock(t2) \/ Mtx!WakeTake(t2) \/ Mtx!WakeReady(t2) \/ Mtx!Contend(t2))
          \/ OnlyPrt /\ Prt!Proceed(t1)
          \/ OnlyCon /\ Con!Write(0) /\ ~Con!At(0, "idle")
          \/ OnlyDump /\ Dump!Report(1)
          \/ OnlyKick /\ Kick!Own(1))
    /\ WF_allvars(
          \/ OnlySmp /\ (Smp!CoreUp(1) \/ Smp!Join(1))
          \/ OnlyTask /\ Task!OffCpu
          \/ OnlyMtx /\ (Mtx!Unlock(t3) \/ Mtx!WakeTake(t3) \/ Mtx!WakeReady(t3) \/ Mtx!Contend(t3))
          \/ OnlyPrt /\ Prt!Proceed(t2)
          \/ OnlyCon /\ Con!Write(1) /\ ~Con!At(1, "idle")
          \/ OnlyDump /\ Dump!LineEnd(0))
    /\ WF_allvars(
          \/ OnlySmp /\ (Smp!CoreUp(2) \/ Smp!Join(2))
          \/ OnlyTask /\ Task!Reap
          \/ OnlyDump /\ Dump!LineEnd(1))
    /\ WF_allvars(
          \/ OnlySmp /\ (Smp!CoreUp(3) \/ Smp!Join(3))
          \/ OnlyTask /\ Task!Kill("killer"))
    /\ WF_allvars(
          \/ OnlySmp /\ Smp!SetContinued("late_boot")
          \/ OnlyTask /\ Task!Kill("spawner"))
    /\ WF_allvars(
          \/ OnlySmp /\ Smp!SetContinued("shell")
          \/ OnlyTask /\ Task!Abandon /\ Task!DropParent)
    /\ SF_allvars(
          \/ OnlySmp /\ Smp!ReadContinued("late_boot")
          \/ OnlyKick /\ Kick!Tick(0))
    /\ SF_allvars(OnlyKick /\ Kick!Tick(1))
    /\ SF_allvars(OnlyKick /\ Kick!RescheduleIpi(0))
    /\ SF_allvars(OnlyKick /\ Kick!RescheduleIpi(1))

\* What is brought up is whole. No two cores run with one slot of the per-core tables, a core that
\* enters its idle loop, however late, finds the idle thread of its slot, and one coordinator at most
\* is launched, by whichever of late_boot and the shell, while one core schedules (each of the two may
\* launch one when more do, and none a second). A task's creation that failed, at whatever
\* step, has given back everything; TERMINATED is seen only when the teardown is complete; no escrowed
\* handle is orphaned, except by a coordinator torn down under endow_boot_modules' copy of its mailbox,
\* and the stack and address space stay while a core may be on them.
BroughtUp ==
    /\ part = "boot" => Smp!SlotsApart /\ Smp!JoinersHaveIdle /\ Smp!OneCoordinator
    /\ part = "mode" => One!ModeExact /\ One!OneCoordinator
    /\ part = "task" => /\ Task!FailureLeavesNothing /\ Task!TerminatedIsLast
                        /\ Task!NoOrphanEscrow /\ Task!RunsOnItsStack

\* What is printed is whole. Nothing the painter has not taken is overwritten when the ring is full,
\* and no string of one core's line comes between two of another's. Once a crash report has begun only
\* its own core reaches the UART, never inside a line of another, and a harness sees the end of the
\* report and the abort before the machine exits, also when the dump crashed.
OutputWhole ==
    /\ part = "console" => Con!RingIntact /\ Con!Unspliced
    /\ part = "crash" => Dump!ReportWhole /\ Dump!AbortSeen

\* What is begun comes to its end. A boot whose boot core is usable ends with its scheduler up and,
\* unless the shell holds it, a coordinator, and all the cores that come up end in their idle loops;
\* cores the firmware cannot start do not hold it on riscv64. A child whose creation failed once its
\* thread was running is killed, and ends, or, when the kill finds no memory either, has lost the only
\* handles on it. A crash comes to its end on one core, whichever cores crash
\* while it reports. (part never changes: the formula says of each part that its case leads to its end.)
Finishes ==
    \/ part = "boot" /\ bp < Smp!Count
    \/ part = "task" /\ pc = "failed_kill"
    \/ part = "crash" /\ \E c \in {0, 1} : Dump!At(c, "guard")
  ~>
    \/ part = "boot" /\ Smp!Up
    \/ part = "task" /\ Task!Ended
    \/ part = "crash" /\ \E c \in {0, 1} : core[c].at = "halt"

\* Who waits is served. As long as threads wait for the mutex somebody gets it: no wake-up is lost.
\* Every queued packet is taken by a server that keeps waiting on its port (the bindings are alike: one
\* stands for both). What has been written gets on the panel once the writers pause, unless a tab set out from the last
\* stop of a line, whose loop in render() never ends. A queued thread
\* gets a core: what a kick misses, because the core it went to was about to run another thread or the
\* one that goes idle was not idle yet, a tick makes up for. No request to the coordinator is forgotten
\* in a mailbox, whatever the order of sends, drains and bindings: all are in the end answered or
\* parked, except those of tasks that died; and the slots of dead children are freed, also when one
\* died before its mailbox was bound or while the drain was looking at it. Both except a child whose
\* first request, or whose death, fell between sys_port_bind's look at its signals and its binding.
Waits ==
    \/ part = "mutex" /\ \E t \in {t1, t2, t3} : mtx_pc[t] \in {"parked", "taken", "contend"}
    \/ part = "port" /\ prt_b[x1].pending
    \/ part = "console" /\ fb # None /\ Con!Written
    \/ part = "kick" /\ t1 \in Kick!Queued
    \/ part = "coordinator" /\ \E c \in {t1, t2, t3} : asked[c] # {}
IsServed ==
    \/ part = "mutex" /\ \E t \in {t1, t2, t3} : mtx_pc[t] = "in"
    \/ part = "port" /\ ~prt_b[x1].pending
    \/ part = "console" /\ (Con!Shown \/ ~Con!Written \/ Con!EndlessTab(con_t))
    \/ part = "kick" /\ Kick!on_cpu(t1)
    \/ part = "coordinator" /\ Coord!AllHeard
==============================================================================
