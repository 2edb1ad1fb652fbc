------------------------------ MODULE UserTask ------------------------------
(***************************************************************************)
(* A user task from create_user_task to TERMINATED: the many steps that    *)
(* create it and what each undoes when it fails, the bootstrap message and *)
(* the boot modules escrowed in the kernel's handle table, kill, exit, and *)
(* the reaper's teardown. Every failure of an allocation is possible. What *)
(* the task costs is a set of names; the two ends of its bootstrap channel *)
(* live as long as somebody holds a reference, and the messages queued on  *)
(* it as long as one end does.                                             *)
(***************************************************************************)
EXTENDS Naturals, Sequences, FiniteSets

CONSTANTS
    Modules,     \* boot modules to endow
    QUEUE_DEPTH  \* Channel::QUEUE_DEPTH

VARIABLES
    parent,    \* "kernel" (launch_coordinator) or "caller" (SYS_TASK_SPAWN)
    pc,        \* the creator's step
    held,      \* what the kernel holds for the task
    refs,      \* who refers to an end of the channel
    queue,     \* messages to the child: sets of escrowed handles
    draft,     \* the handles of the message being put together
    callers,   \* the handles task_spawn gave its caller
    todo,      \* modules not endowed yet
    thread, on_cpu, killed,
    state,     \* task_state
    exit,      \* m_exit_cause, "none" before a record
    rec,       \* [recorder -> record_exit's progress]
    reaper     \* the reaper's step
vars == <<parent, pc, held, refs, queue, draft, callers, todo, thread, on_cpu, killed, state, exit, rec, reaper>>
child == <<thread, on_cpu, killed>>
record == <<exit, rec>>

Steps == <<"parse", "task", "aspace", "image", "ustack", "owner", "pair", "child", "register",
           "kstack", "thread", "slot", "ipc", "add", "reserve",
           "message", "escrow_task", "escrow_thread", "write", "settle", "enqueue", "created">>
At(s) == CHOOSE k \in DOMAIN Steps : Steps[k] = s
After(s) == Steps[At(s) + 1]
\* The kernel-table entries a message may own.
Escrow == {"escrow_task", "escrow_thread"} \cup Modules
Parents == {"first", "mailbox", "out", "mail"}  \* references to the parent's end
Children == {"second", "table"}                 \* references to the child's
Killers == {"killer", "spawner"}
AtWork == {"created", "insert_task", "insert_mailbox", "failed_kill", "endow", "retain", "dangling", "mail", "mailed"}
Over == {"open", "failed", "done"}

Init ==
    /\ parent \in {"kernel", "caller"} /\ pc = "open" /\ held = {} /\ refs = {} /\ queue = <<>> /\ draft = {}
    /\ callers = {} /\ todo = Modules /\ thread = "none" /\ on_cpu = FALSE /\ killed = FALSE /\ state = "NEW"
    /\ exit = "none" /\ rec = [r \in {"thread"} \cup Killers |-> "none"] /\ reaper = "idle"

----------------------------------------------------------------------------
(* create_user_task and thread_create_in.                                  *)

\* What a step leaves behind when it succeeds.
Gain(s) == IF s \in {"aspace", "owner", "kstack", "slot", "ipc", "escrow_task", "escrow_thread"} THEN {s}
           ELSE IF s = "register" THEN {"registered"}
           ELSE IF s = "add" THEN {"member"} ELSE IF s = "reserve" THEN {"live"} ELSE {}

\* Dropping references: with the last one the queued messages close their handles.
Drop(away, gone) ==
    /\ refs' = refs \ away
    /\ queue' = IF refs' = {} THEN <<>> ELSE queue
    /\ held' = held \ (gone \cup IF refs' = {} THEN UNION {queue[k] : k \in DOMAIN queue} ELSE {})

\* launch_coordinator looks its module up; task_spawn commits the image's first page, looks at
\* its magic, commits the rest and checks that the frames are contiguous. Nothing is held yet.
Open ==
    /\ pc = "open" /\ pc' \in {"parse", "failed"}
    /\ UNCHANGED <<parent, held, refs, queue, draft, callers, todo, child, state, record, reaper>>

\* register_task does not look at the result of its push_back: the task may go on unlisted.
Succeed ==
    /\ pc \notin AtWork \cup Over
    /\ pc' = After(pc)
    /\ held' = held \cup Gain(pc) \/ (pc = "register" /\ held' = held)
    /\ draft' = IF pc \in Escrow THEN draft \cup {pc} ELSE IF pc = "write" THEN {} ELSE draft
    /\ queue' = IF pc = "write" THEN Append(queue, draft) ELSE queue
    /\ refs' = CASE pc = "pair" -> {"first", "second"}
                 [] pc = "child" -> refs \cup {"table"}
                 [] pc = "settle" -> (refs \ {"first"}) \cup {IF parent = "kernel" THEN "mailbox" ELSE "out"}
                 [] pc = "enqueue" -> refs \ {"second"}
                 [] OTHER -> refs
    /\ state' = IF pc = "register" THEN "RUNNING" ELSE state
    /\ thread' = IF pc = "thread" THEN "new" ELSE IF pc = "enqueue" THEN "ready" ELSE thread
    /\ UNCHANGED <<parent, callers, todo, on_cpu, killed, record, reaper>>

\* thread_discard, and what thread_create_in gives back step by step.
Thread_undo(s) ==
    CASE At(s) > At("reserve") -> {"live", "member", "ipc", "slot", "kstack"}
      [] s = "reserve" -> {"member", "ipc", "slot", "kstack"}
      [] s = "add" -> {"ipc", "slot", "kstack"}
      [] s = "ipc" -> {"slot", "kstack"}
      [] s \in {"slot", "thread"} -> {"kstack"}
      [] OTHER -> {}
\* fail, and fail_wired once the task has an owner handle.
Fail_undo(s) == IF At(s) > At("owner") THEN {"registered", "owner", "aspace"} ELSE {"aspace"}

\* A step fails: what it undoes itself, then fail or fail_wired, then the references the
\* frames of create_user_task and task_spawn held.
Fail ==
    /\ pc \notin AtWork \cup Over \cup {"register", "settle"}
    /\ Drop(refs, Thread_undo(pc) \cup Fail_undo(pc) \cup draft)
    /\ pc' = "failed" /\ draft' = {}
    /\ thread' = "none"
    /\ UNCHANGED <<parent, callers, todo, on_cpu, killed, state, record, reaper>>

----------------------------------------------------------------------------
(* After creation: task_spawn's handles, launch_coordinator's modules.     *)

Created ==
    /\ pc = "created" /\ pc' = IF parent = "kernel" THEN "endow" ELSE "insert_task"
    /\ UNCHANGED <<parent, held, refs, queue, draft, callers, todo, child, state, record, reaper>>

\* task_spawn: the caller's handles; the child already runs, so a failure kills it.
Insert ==
    /\ \/ /\ pc = "insert_task" /\ callers' = {"task"} /\ pc' = "insert_mailbox"
       \/ /\ pc = "insert_mailbox" /\ callers' = {"task", "mailbox"} /\ pc' = "done"
    /\ UNCHANGED <<parent, held, refs, queue, draft, todo, child, state, record, reaper>>
InsertFails ==
    /\ pc \in {"insert_task", "insert_mailbox"}
    /\ callers' = {} /\ pc' = "failed_kill"
    /\ rec' = [rec EXCEPT !["spawner"] = "kill"]
    /\ UNCHANGED <<parent, held, refs, queue, draft, todo, child, state, exit, reaper>>
\* The parent drops its end: task_spawn on its way out, after its kill, ...
Abandon == pc = "failed_kill" /\ rec["spawner"] \in {"none", "spared"}
\* ... or the caller closes it later.
DropParent ==
    /\ "out" \in refs /\ (pc = "done" \/ Abandon)
    /\ Drop({"out"}, {}) /\ callers' = callers \ {"mailbox"}
    /\ UNCHANGED <<parent, pc, draft, todo, child, state, record, reaper>>

\* endow_boot_modules, one module: the image or its message cannot be had ...
EndowSkips ==
    /\ pc = "endow" /\ draft = {} /\ \E m \in todo : todo' = todo \ {m}
    /\ UNCHANGED <<parent, pc, held, refs, queue, draft, callers, child, state, record, reaper>>
\* ... or it is escrowed ...
EndowEscrow ==
    /\ pc = "endow" /\ draft = {}
    /\ \E m \in todo : todo' = todo \ {m} /\ draft' = {m} /\ held' = held \cup {m}
    /\ UNCHANGED <<parent, pc, refs, queue, callers, child, state, record, reaper>>
\* ... the mailbox is read: a pointer that may be null ...
EndowLoad ==
    /\ pc = "endow" /\ draft # {}
    /\ IF "mailbox" \in refs THEN pc' = "retain" /\ UNCHANGED <<held, draft>>
       ELSE pc' = "done" /\ held' = held \ draft /\ draft' = {}
    /\ UNCHANGED <<parent, refs, queue, callers, todo, child, state, record, reaper>>
\* ... and retained. Nothing locks the two together: when teardown_user_task dropped the last
\* reference in between, the pointer dangles and nothing more is said of this run ...
EndowRetain ==
    /\ pc = "retain"
    /\ IF refs \cap Parents = {} THEN pc' = "dangling" /\ UNCHANGED refs
       ELSE pc' = "mail" /\ refs' = refs \cup {"mail"}
    /\ UNCHANGED <<parent, held, queue, draft, callers, todo, child, state, record, reaper>>
\* ... and the message written, or dropped with its handle when the queue is full or the peer gone.
EndowWrite ==
    /\ pc = "mail"
    /\ IF refs \cap Children # {} /\ Len(queue) < QUEUE_DEPTH
       THEN queue' = Append(queue, draft) /\ UNCHANGED held
       ELSE held' = held \ draft /\ UNCHANGED queue
    /\ draft' = {} /\ pc' = "mailed"
    /\ UNCHANGED <<parent, refs, callers, todo, child, state, record, reaper>>
EndowNext ==
    /\ pc = "mailed" /\ Drop({"mail"}, {}) /\ pc' = "endow"
    /\ UNCHANGED <<parent, draft, callers, todo, child, state, record, reaper>>
EndowDone ==
    /\ pc = "endow" /\ draft = {} /\ todo = {} /\ pc' = "done"
    /\ UNCHANGED <<parent, held, refs, queue, draft, callers, todo, child, state, record, reaper>>

----------------------------------------------------------------------------
(* The child's thread, kill, and the record of how it ended.               *)

Run ==
    /\ thread = "ready" /\ thread' = "running" /\ on_cpu' = TRUE
    /\ UNCHANGED <<parent, pc, held, refs, queue, draft, callers, todo, killed, state, record, reaper>>
\* The child reads a message: its handles move to the child's table.
Read ==
    /\ thread = "running" /\ "table" \in refs /\ queue # <<>>
    /\ queue' = Tail(queue) /\ held' = held \ Head(queue)
    /\ UNCHANGED <<parent, pc, refs, draft, callers, todo, child, state, record, reaper>>
\* The child may close its end before it exits.
CloseChild ==
    /\ thread = "running" /\ "table" \in refs /\ Drop({"table"}, {})
    /\ UNCHANGED <<parent, pc, draft, callers, todo, child, state, record, reaper>>

Recorded(r) == IF r = "thread" THEN "over" ELSE "mark"
\* record_exit: the flag is tested ...
RecordTest(r) ==
    /\ rec[r] = "test" /\ rec' = [rec EXCEPT ![r] = IF exit = "none" THEN "write" ELSE Recorded(r)]
    /\ UNCHANGED <<parent, pc, held, refs, queue, draft, callers, todo, child, state, exit, reaper>>
\* ... and the cause written.
RecordWrite(r) ==
    /\ rec[r] = "write" /\ rec' = [rec EXCEPT ![r] = Recorded(r)]
    /\ exit' = IF r = "thread" THEN "EXITED" ELSE "KILLED"
    /\ UNCHANGED <<parent, pc, held, refs, queue, draft, callers, todo, child, state, reaper>>

\* SYS_EXIT or a fault.
ExitBegin ==
    /\ thread = "running" /\ rec["thread"] = "none" /\ rec' = [rec EXCEPT !["thread"] = "test"]
    /\ UNCHANGED <<parent, pc, held, refs, queue, draft, callers, todo, child, state, exit, reaper>>
\* exit_current, after the record or at the kill boundary.
Exit ==
    /\ thread = "running" /\ (rec["thread"] = "over" \/ (killed /\ rec["thread"] = "none"))
    /\ thread' = "dead"
    /\ UNCHANGED <<parent, pc, held, refs, queue, draft, callers, todo, on_cpu, killed, state, record, reaper>>
OffCpu ==
    /\ thread = "dead" /\ on_cpu /\ on_cpu' = FALSE
    /\ UNCHANGED <<parent, pc, held, refs, queue, draft, callers, todo, thread, killed, state, record, reaper>>

\* Somebody has a handle on the task: its caller, or the child, which may have passed it on.
Handed == "task" \in callers \/ (thread \in {"running", "dead"} /\ "escrow_task" \notin held)
\* SYS_TASK_KILL.
KillBegin ==
    /\ Handed /\ rec["killer"] = "none" /\ rec' = [rec EXCEPT !["killer"] = "kill"]
    /\ UNCHANGED <<parent, pc, held, refs, queue, draft, callers, todo, child, state, exit, reaper>>
\* task_kill: nothing to do for a task that is over or has no live thread.
KillCheck(k) ==
    /\ rec[k] = "kill"
    /\ rec' = [rec EXCEPT ![k] = IF state = "TERMINATED" \/ "member" \notin held \/ thread = "dead" THEN "none" ELSE "test"]
    /\ UNCHANGED <<parent, pc, held, refs, queue, draft, callers, todo, child, state, exit, reaper>>
\* ... and nothing it can do when there is no memory for the snapshot of the threads: the error
\* goes to the caller of SYS_TASK_KILL, which may try again; task_spawn drops it.
KillOom(k) ==
    /\ rec[k] = "kill" /\ state # "TERMINATED" /\ "member" \in held
    /\ rec' = [rec EXCEPT ![k] = IF k = "spawner" THEN "spared" ELSE "none"]
    /\ UNCHANGED <<parent, pc, held, refs, queue, draft, callers, todo, child, state, exit, reaper>>
\* Mutant: a thread that is on a core is left alone.
KillMark_parked(k) ==
    /\ rec[k] = "mark" /\ rec' = [rec EXCEPT ![k] = "none"]
    /\ killed' = (killed \/ thread \in {"new", "ready"})
    /\ UNCHANGED <<parent, pc, held, refs, queue, draft, callers, todo, thread, on_cpu, state, exit, reaper>>
\* The live threads of the snapshot are marked.
KillMark(k) ==
    /\ rec[k] = "mark" /\ rec' = [rec EXCEPT ![k] = "none"]
    /\ killed' = (killed \/ thread \in {"new", "ready", "running"})
    /\ UNCHANGED <<parent, pc, held, refs, queue, draft, callers, todo, thread, on_cpu, state, exit, reaper>>

----------------------------------------------------------------------------
(* reap and teardown_user_task.                                            *)

\* The order of the steps.
Teardown == [idle |-> "ipc", ipc |-> "kstack", kstack |-> "table", table |-> "mailbox", mailbox |-> "aspace",
             aspace |-> "registered", registered |-> "owner", owner |-> "terminate", terminate |-> "live",
             live |-> "reaped"]

Reapable == thread = "dead" /\ ~on_cpu

Reap ==
    /\ reaper # "reaped" /\ Reapable
    /\ reaper' = Teardown[reaper]
    /\ CASE reaper = "idle" -> Drop({}, {"member"})
         [] reaper = "ipc" -> Drop({}, {"ipc", "slot"})
         [] reaper \in {"table", "mailbox"} -> Drop({reaper}, {})
         [] OTHER -> Drop({}, {reaper})
    /\ state' = IF reaper = "terminate" THEN "TERMINATED" ELSE state
    /\ UNCHANGED <<parent, pc, draft, callers, todo, child, record>>

Creator ==
    \/ Open \/ Succeed \/ Fail \/ Created \/ Insert \/ InsertFails
    \/ EndowSkips \/ EndowEscrow \/ EndowLoad \/ EndowRetain \/ EndowWrite \/ EndowNext \/ EndowDone
Record(r) == RecordTest(r) \/ RecordWrite(r)
Kill(k) == KillCheck(k) \/ KillOom(k) \/ Record(k) \/ KillMark(k)
\* What the child's thread does whatever its program is.
Leave == Run \/ Record("thread") \/ Exit
Next ==
    \/ Creator \/ DropParent
    \/ Leave \/ Read \/ CloseChild \/ ExitBegin \/ OffCpu
    \/ KillBegin \/ \E k \in Killers : Kill(k)
    \/ Reap
\* The creator, a killer that has begun and the reaper are threads that never wait for
\* the child; the child is scheduled and, once killed, leaves at its next boundary.
Fairness ==
    /\ WF_vars(Creator) /\ WF_vars(Leave) /\ WF_vars(OffCpu) /\ WF_vars(Reap)
    /\ \A k \in Killers : WF_vars(Kill(k))
    /\ WF_vars(Abandon /\ DropParent)
Spec == Init /\ [][Next]_vars /\ Fairness

----------------------------------------------------------------------------
(* Properties.                                                             *)

Queued == UNION {queue[k] : k \in DOMAIN queue}

\* A creation that failed, at whatever step, has given back everything: the address space,
\* the stack, the IPC slot, the registration and every entry in the kernel's handle table.
FailureLeavesNothing == pc = "failed" => held = {} /\ refs = {}

\* TERMINATED is seen only when the teardown is complete: what is left is what a parent that
\* still holds its end keeps queued, and the reaper's count.
TerminatedIsLast ==
    state = "TERMINATED" => held \subseteq {"live"} \cup Queued \cup draft /\ refs \cap {"table", "mailbox"} = {}

\* Every escrowed handle in the kernel's table belongs to a message that is queued on a live
\* channel or being put together: none is orphaned, whoever drops which end when. The one
\* exception is a coordinator torn down while endow_boot_modules copies its mailbox
\* reference: the copy then retains a freed endpoint, and nothing can be said of its message.
NoOrphanEscrow ==
    \/ held \cap Escrow = Queued \cup draft /\ pc # "dangling"
    \/ pc = "dangling" /\ parent = "kernel" /\ "mailbox" \notin refs /\ thread = "dead"

\* The thread's stack and address space stay while a core may be on them.
RunsOnItsStack == thread = "running" \/ on_cpu => {"kstack", "aspace", "ipc"} \subseteq held

\* A task whose spawner could not be given its handles ends, although it was already running,
\* unless the kill itself finds no memory for its snapshot: then, since task_spawn drops that
\* error, the task lives on with nobody's handle on it, and the closed end of its bootstrap
\* channel is all it is told.
Ended == state = "TERMINATED" \/ (rec["spawner"] = "spared" /\ refs \cap Parents = {})
OrphanEnds == pc = "failed_kill" ~> Ended
=============================================================================
