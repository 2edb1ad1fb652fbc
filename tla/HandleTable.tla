----------------------------- MODULE HandleTable -----------------------------
(***************************************************************************)
(* A task's handle table: slots with generations, a free list threaded     *)
(* through the dead ones, growth in batches that may run out of memory,    *)
(* and the operations that take m_lock more than once (the verify-then-act *)
(* pipeline of handle_dispatch.cpp, duplicate, clear).  A section under    *)
(* m_lock is one step; op[t] is what thread t carries from one to the next.*)
(***************************************************************************)
EXTENDS Integers, FiniteSets

CONSTANTS
    Thread,         \* threads of the task, and kernel threads acting on its table
    Object,         \* kernel objects
    Right,          \* rights bits
    DUPLICATE,      \* RIGHT_DUPLICATE
    ValidRights,    \* [Object -> SUBSET Right]: the contract of the object's type
    GROW_BATCH,
    MAX_GENERATION,
    MaxSlots,       \* bound: entries the vector has memory for
    none            \* no object

Slot == 0..(MaxSlots - 1)
Id == [index : Slot, generation : 0..MAX_GENERATION]

\* What the table relies on.
Sane ==
    /\ GROW_BATCH \in Nat \ {0} /\ MAX_GENERATION \in Nat /\ MaxSlots \in Nat \ {0}
    /\ DUPLICATE \in Right /\ none \notin Object
    /\ ValidRights \in [Object -> SUBSET Right]

VARIABLES
    size,       \* m_entries.size()
    object,     \* [Slot -> Object or none]: HandleEntry::object (and ::strong)
    rights,     \* HandleEntry::rights
    generation, \* HandleEntry::generation
    next_free,  \* HandleEntry::next_free, -1 for none
    free_head,  \* m_free_head
    count,      \* m_count
    op,         \* what a thread is in the middle of
    closed,     \* ghost: the ids that were closed, taken or cleared
    granted,    \* ghost: the rights each object was first inserted with
    unlinked    \* ghost: dead slots an operation left off the free list on purpose

table == <<size, object, rights, generation, next_free, free_head, count>>
vars == <<table, op, closed, granted, unlinked>>

Points == {"idle", "close", "duplicate", "create", "moved", "clear", "rebuild"}
Idle == [pc |-> "idle", id |-> [index |-> 0, generation |-> 0], obj |-> none, rights |-> {}]
Live(i) == object[i] # none
Named(o) == {i \in Slot : object[i] = o}

\* lookup_entry(id) finds an entry.
Lookup(id) ==
    /\ id.index < size
    /\ generation[id.index] = id.generation
    /\ Live(id.index)

Init ==
    /\ size = 0
    /\ object = [i \in Slot |-> none]
    /\ rights = [i \in Slot |-> {}]
    /\ generation = [i \in Slot |-> 0]
    /\ next_free = [i \in Slot |-> -1]
    /\ free_head = -1
    /\ count = 0
    /\ op = [t \in Thread |-> Idle]
    /\ closed = {}
    /\ granted = [o \in Object |-> {}]
    /\ unlinked = {}

At(t, p) == op[t].pc = p
Finish(t) == op' = [op EXCEPT ![t] = Idle]

----------------------------------------------------------------------------
(* Creating a handle.                                                      *)

\* grow() has memory for the whole batch.
CanGrow == size + GROW_BATCH <= MaxSlots
\* grow(): the new slots are chained in ascending order before the old list.
GrownLinks ==
    [i \in Slot |-> IF i \in size..(size + GROW_BATCH - 1)
                    THEN IF i = size + GROW_BATCH - 1 THEN free_head ELSE i + 1
                    ELSE next_free[i]]

\* create_handle(o, r): take the head of the free list, growing an empty one.
Create(o, r) ==
    LET empty == free_head = -1
        slot == IF empty THEN size ELSE free_head
        links == IF empty THEN GrownLinks ELSE next_free
    IN  /\ empty => CanGrow
        /\ size' = IF empty THEN size + GROW_BATCH ELSE size
        /\ object' = [object EXCEPT ![slot] = o]
        /\ rights' = [rights EXCEPT ![slot] = r]
        /\ free_head' = links[slot]
        /\ next_free' = [links EXCEPT ![slot] = -1]
        /\ count' = count + 1
        /\ UNCHANGED <<generation, unlinked>>

\* create_handle fails: grow() ran out of memory after some of the entries.
CreateOom ==
    /\ free_head = -1
    /\ \E n \in 0..(GROW_BATCH - 1) :
          /\ size + n <= MaxSlots
          /\ size' = size + n
          /\ unlinked' = unlinked \cup (size..(size + n - 1))
    /\ UNCHANGED <<object, rights, generation, next_free, free_head, count>>

\* emplace or insert of an object that no handle names yet.
Emplace(t, o, r) ==
    /\ At(t, "idle")
    /\ Named(o) = {} /\ \A u \in Thread : op[u].obj # o
    /\ r \subseteq ValidRights[o]
    /\ \/ Create(o, r) /\ granted' = [granted EXCEPT ![o] = r]
       \/ CreateOom /\ UNCHANGED granted
    /\ UNCHANGED <<op, closed>>

----------------------------------------------------------------------------
(* Taking, closing and moving handles.                                     *)

\* Mutant: a handle's generation survives its close.
NextGenerationKept(i) == generation[i]
\* The generation a slot goes on with.
NextGeneration(i) ==
    IF generation[i] = MAX_GENERATION THEN MAX_GENERATION ELSE generation[i] + 1

\* take() retires the slot.
Retired(i) == generation[i] = MAX_GENERATION

\* The entry's reference is moved out.
Emptied(i) == [object EXCEPT ![i] = none]

\* m_count after one entry was given up.
Released == count - 1

\* take(id), which found slot i.
TakeEntry(i) ==
    /\ object' = Emptied(i)
    /\ rights' = [rights EXCEPT ![i] = {}]
    /\ count' = Released
    /\ generation' = [generation EXCEPT ![i] = NextGeneration(i)]
    /\ next_free' = [next_free EXCEPT ![i] = IF Retired(i) THEN -1 ELSE free_head]
    /\ free_head' = IF Retired(i) THEN free_head ELSE i
    /\ unlinked' = IF generation[i] = MAX_GENERATION THEN unlinked \cup {i} ELSE unlinked
    /\ closed' = closed \cup {[index |-> i, generation |-> generation[i]]}
    /\ UNCHANGED size

\* take(id) by thread t: the entry's reference and rights are now the thread's.
TakeFor(t, id) ==
    /\ Lookup(id)
    /\ TakeEntry(id.index)
    /\ op' = [op EXCEPT ![t] = [pc |-> "moved", id |-> id, obj |-> object[id.index],
                                rights |-> rights[id.index]]]

\* take() by a kernel path that moves a handle (channel send, start-up).
Take(t, id) ==
    /\ At(t, "idle")
    /\ TakeFor(t, id)
    /\ UNCHANGED granted

\* The moved reference is dropped (close), or inserted again with its rights.
Drop(t) ==
    /\ At(t, "moved")
    /\ Finish(t)
    /\ UNCHANGED <<table, closed, granted, unlinked>>
InsertMoved(t) ==
    /\ At(t, "moved")
    /\ Create(op[t].obj, op[t].rights) \/ CreateOom
    /\ Finish(t)
    /\ UNCHANGED <<closed, granted>>

----------------------------------------------------------------------------
(* The verify-then-act pipeline of dispatch_handle_op.                     *)

\* dispatch_handle_op: verify(id, required rights) under the lock, then the handler.
Dispatch(t, id, handler) ==
    /\ At(t, "idle")
    /\ Lookup(id)
    /\ handler = "duplicate" => DUPLICATE \in rights[id.index]
    /\ op' = [op EXCEPT ![t] = [pc |-> handler, id |-> id, obj |-> object[id.index],
                                rights |-> {}]]
    /\ UNCHANGED <<table, closed, granted, unlinked>>

\* op_close: close(id) looks the id up again.
Close(t) ==
    /\ At(t, "close")
    /\ \/ TakeFor(t, op[t].id)
       \/ ~Lookup(op[t].id) /\ Finish(t) /\ UNCHANGED <<table, closed, unlinked>>
    /\ UNCHANGED granted

\* duplicate()'s rights and its capability check.
Narrowed(held, mask) == held \cap mask
MayDuplicate(i) == DUPLICATE \in rights[i]

\* duplicate(source, mask), first section: read the source under the lock.
Duplicate(t, mask) ==
    LET id == op[t].id IN
    /\ At(t, "duplicate")
    /\ \/ /\ Lookup(id) /\ MayDuplicate(id.index)
          /\ op' = [op EXCEPT ![t] = [pc |-> "create", id |-> id, obj |-> object[id.index],
                                      rights |-> Narrowed(rights[id.index], mask)]]
       \/ ~(Lookup(id) /\ MayDuplicate(id.index)) /\ Finish(t)
    /\ UNCHANGED <<table, closed, granted, unlinked>>

\* duplicate(), second section: create_handle with the copy, which again checks
\* the type's contract (a subset of rights that passed it once).
DuplicateCreate(t) ==
    /\ At(t, "create")
    /\ op[t].rights \subseteq ValidRights[op[t].obj]
    /\ Create(op[t].obj, op[t].rights) \/ CreateOom
    /\ Finish(t)
    /\ UNCHANGED <<closed, granted>>

----------------------------------------------------------------------------
(* clear(): one entry per lock section, then the free list is rebuilt.      *)

ClearBegin(t) ==
    /\ At(t, "idle")
    /\ op' = [op EXCEPT ![t] = [Idle EXCEPT !.pc = "clear"]]
    /\ UNCHANGED <<table, closed, granted, unlinked>>

LiveFrom(n) == {i \in Slot : i >= n /\ i < size /\ Live(i)}

ClearEntry(t) ==
    /\ At(t, "clear")
    /\ \E i \in LiveFrom(op[t].id.index) :
          /\ \A j \in LiveFrom(op[t].id.index) : i <= j
          /\ object' = [object EXCEPT ![i] = none]
          /\ rights' = [rights EXCEPT ![i] = {}]
          /\ count' = Released
          /\ generation' = [generation EXCEPT ![i] = NextGeneration(i)]
          /\ closed' = closed \cup {[index |-> i, generation |-> generation[i]]}
          /\ unlinked' = unlinked \cup {i}
          /\ op' = [op EXCEPT ![t].id.index = i]
    /\ UNCHANGED <<size, next_free, free_head, granted>>

ClearScanned(t) ==
    /\ At(t, "clear")
    /\ LiveFrom(op[t].id.index) = {}
    /\ op' = [op EXCEPT ![t].pc = "rebuild"]
    /\ UNCHANGED <<table, closed, granted, unlinked>>

\* The slots the rebuilt list holds: dead and not retired.
Rebuilt == {i \in Slot : i < size /\ ~Live(i) /\ generation[i] # MAX_GENERATION}

\* The lowest slot of S at or above n, or -1.
LowestFrom(S, n) ==
    IF \E i \in S : i >= n
    THEN CHOOSE i \in S : i >= n /\ \A j \in S : j >= n => i <= j
    ELSE -1

ClearRebuild(t) ==
    /\ At(t, "rebuild")
    /\ free_head' = LowestFrom(Rebuilt, 0)
    /\ next_free' = [i \in Slot |-> IF i \in Rebuilt THEN LowestFrom(Rebuilt, i + 1)
                                    ELSE -1]
    /\ unlinked' = {i \in Slot : i < size /\ ~Live(i) /\ generation[i] = MAX_GENERATION}
    /\ Finish(t)
    /\ UNCHANGED <<size, object, rights, generation, count, closed, granted>>

----------------------------------------------------------------------------

Step(t) ==
    \/ \E o \in Object, r \in SUBSET Right : Emplace(t, o, r)
    \/ \E id \in Id : Take(t, id) \/ \E h \in {"close", "duplicate"} : Dispatch(t, id, h)
    \/ Drop(t) \/ InsertMoved(t)
    \/ Close(t)
    \/ \E mask \in SUBSET Right : Duplicate(t, mask)
    \/ DuplicateCreate(t)
    \/ ClearBegin(t) \/ ClearEntry(t) \/ ClearScanned(t) \/ ClearRebuild(t)

Next == \E t \in Thread : Step(t)
Spec == Init /\ [][Next]_vars

----------------------------------------------------------------------------
(* Properties.                                                             *)

\* An id that was closed, taken or cleared names nothing ever again, however often
\* its slot is recycled (take and clear advance the generation and retire the slot
\* where it would wrap).
StaleStaysDead == \A id \in closed : ~Lookup(id)

\* No chain of duplicates, moves and inserts gives a handle a right its object was
\* not inserted with (duplicate() intersects, InsertMoved keeps).
NoEscalation == \A i \in Slot : Live(i) => rights[i] \subseteq granted[object[i]]

\* An object inserted without the duplicate right (a channel endpoint, a port) has at
\* most one holder: one handle, or one thread moving it.
MoveOnly ==
    \A o \in Object : DUPLICATE \notin granted[o] =>
        Cardinality(Named(o)) + Cardinality({t \in Thread : op[t].obj = o
                                               /\ op[t].pc \in {"moved", "create"}}) <= 1

\* The slots the free list reaches from m_free_head, in at most MaxSlots links.
Walk[n \in 0..MaxSlots] ==
    IF n = 0 THEN free_head
    ELSE IF Walk[n - 1] = -1 THEN -1 ELSE next_free[Walk[n - 1]]

\* The free list ends, and holds every dead slot that is not retired, left over by a
\* growth that failed half way, or waiting for clear() to rebuild the list.
FreeListExact ==
    /\ Walk[MaxSlots] = -1
    /\ {Walk[n] : n \in 0..MaxSlots} \ {-1} = {i \in Slot : i < size /\ ~Live(i)} \ unlinked

\* m_count is the number of live handles, in the middle of a clear() too.
CountExact == count = Cardinality({i \in Slot : Live(i)})

\* A handle names what it was made for, or nothing: all of the above.
HandlesTrue == StaleStaysDead /\ NoEscalation /\ MoveOnly /\ FreeListExact /\ CountExact
=============================================================================
