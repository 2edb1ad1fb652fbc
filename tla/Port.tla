-------------------------------- MODULE Port --------------------------------
(***************************************************************************)
(* A port and the bindings that turn an object's signal transitions into   *)
(* packets on it. Threads set and clear the object's signals, bind and     *)
(* unbind, wait for packets and drop the port. g_port_lock sections are    *)
(* single steps, except bind's: its list insertion may still sit in the    *)
(* core's store buffer when it loads the object's signals, and signal_set  *)
(* looks at the list without the lock.                                     *)
(***************************************************************************)
EXTENDS Naturals, Sequences, FiniteSets, SequencesExt

CONSTANTS Thread, Binding, Key, Bit, none

VARIABLES
    osig,      \* the watched object's m_signals
    list,      \* its binding list, newest first
    b,         \* [Binding -> port_binding]
    ready,     \* the port's FIFO of pending packets
    readable,  \* the port's READABLE
    alive,     \* the port exists
    lock,      \* the thread inside g_port_lock, or none
    th,        \* [Thread -> where it is in which call]
    due        \* <<binding, "linked" or "linking">>: transitions into the mask of a binding on the
               \* list, or of one that bind is putting there, that have yet to reach it

vars == <<osig, list, b, ready, readable, alive, lock, th, due>>
portVars == <<list, b, ready, readable, alive, lock>>

Idle == [pc |-> "idle", prev |-> {}, cur |-> {}, bind |-> none, seen |-> {}]
Free == [key |-> none, mask |-> {}, pending |-> FALSE, psig |-> {}]
Bound == {x \in Binding : b[x].key # none}

Init ==
    /\ osig = {} /\ list = <<>> /\ b = [x \in Binding |-> Free]
    /\ ready = <<>> /\ readable = FALSE /\ alive = TRUE /\ lock = none
    /\ th = [t \in Thread |-> Idle]
    /\ due = {}

At(t, p) == th[t].pc = p
Goto(t, p) == th' = [th EXCEPT ![t].pc = p]
Done(t) == th' = [th EXCEPT ![t] = Idle]

\* Threads that hold a reference to the port.
Inside == {t \in Thread : th[t].pc \in {"linking", "pended", "wait", "sleep"}}

----------------------------------------------------------------------------
(* Object::signal_set, signal_clear and port_notify.                       *)

\* The bindings a change takes from unmatched to matched.
Rising(bits) == {x \in Bound : osig \cap b[x].mask = {} /\ bits \cap b[x].mask # {}}
Linked(x) == IF x \in ToSet(list) THEN "linked" ELSE "linking"
Reached(x) == {d \in due : d[1] # x}

\* fetch_or, and the wake of threads parked on the object.
SignalSet(t, bits) ==
    /\ At(t, "idle")
    /\ th' = [th EXCEPT ![t] = [Idle EXCEPT !.pc = "look", !.prev = osig, !.cur = osig \cup bits]]
    /\ osig' = osig \cup bits
    /\ due' = due \cup {<<x, Linked(x)>> : x \in {y \in Rising(bits) : ~b[y].pending}}
    /\ UNCHANGED <<portVars>>

SignalClear(t, bits) ==
    /\ At(t, "idle") /\ osig \cap bits # {}
    /\ osig' = osig \ bits
    /\ UNCHANGED <<portVars, th, due>>

\* m_bindings is read without the lock.
Look(t) ==
    /\ At(t, "look")
    /\ IF list = <<>> THEN Done(t) ELSE Goto(t, "notify")
    /\ UNCHANGED <<osig, portVars, due>>

\* The asserted signals a binding asked for.
Hits(t, x) == th[t].cur \cap b[x].mask

\* Mutant: any signal asserted before, inside the mask or not, hides the transition.
IsEdgeUnmasked(t, x) == Hits(t, x) # {} /\ ~b[x].pending /\ th[t].prev = {}
\* The change takes a binding that is not pending from unmatched to matched.
IsEdge(t, x) == Hits(t, x) # {} /\ ~b[x].pending /\ th[t].prev \cap b[x].mask = {}

\* The index of the first such binding on the list, past the end when there is none.
FirstEdge(t) == SelectInSeq(list, LAMBDA x : IsEdge(t, x))

\* The signals of a pending packet the scan passes.
Coalesced(t, x) == b[x].psig \cup Hits(t, x)

\* One locked scan: coalesce into pending packets up to the first binding with an
\* edge, queue that one and leave to signal the port; without one, return.
Notify(t) ==
    LET e == FirstEdge(t)
        past == {list[i] : i \in 1..(IF e = 0 THEN Len(list) ELSE e - 1)}
        passed == [x \in Binding |-> IF x \in past /\ b[x].pending
                                     THEN [b[x] EXCEPT !.psig = Coalesced(t, x)] ELSE b[x]]
    IN  /\ At(t, "notify") /\ lock = none
        /\ IF e = 0
           THEN /\ b' = passed /\ Done(t)
                /\ UNCHANGED <<ready, due>>
           ELSE /\ b' = [passed EXCEPT ![list[e]].pending = TRUE,
                                       ![list[e]].psig = Hits(t, list[e])]
                /\ ready' = Append(ready, list[e])
                /\ due' = Reached(list[e])
                /\ Goto(t, "signal")
        /\ UNCHANGED <<osig, list, readable, alive, lock>>

\* signal_set(READABLE)
Signalled == TRUE

\* The port found in the scan is signalled once the lock is free. Nothing keeps it: Destroy may
\* have run, and the step then writes to a port that is gone.
NotifySignal(t) ==
    /\ At(t, "signal")
    /\ readable' = Signalled
    /\ Goto(t, "notify")
    /\ UNCHANGED <<osig, list, b, ready, alive, lock, due>>

----------------------------------------------------------------------------
(* Port::bind, unbind, dequeue, and the system calls around them.          *)

\* In the lock: the binding is filled in and the object's signals are loaded, with
\* the insertion into the object's list not yet visible to other cores.
Bind(t, x, k, mask) ==
    /\ At(t, "idle") /\ alive /\ lock = none /\ x \notin Bound
    /\ b' = [b EXCEPT ![x] = [Free EXCEPT !.key = k, !.mask = mask]]
    /\ th' = [th EXCEPT ![t] = [Idle EXCEPT !.pc = "linking", !.bind = x, !.seen = osig \cap mask]]
    /\ lock' = t
    /\ UNCHANGED <<osig, list, ready, readable, alive, due>>

\* A signal already inside the mask queues a packet at once.
QueuedAtBind(t) == th[t].seen # {}

\* The insertion becomes visible, at the latest with the release of the lock.
BindPublish(t) ==
    LET x == th[t].bind IN
    /\ At(t, "linking")
    /\ list' = <<x>> \o list
    /\ IF QueuedAtBind(t)
       THEN /\ b' = [b EXCEPT ![x].pending = TRUE, ![x].psig = th[t].seen]
            /\ ready' = Append(ready, x)
            /\ due' = Reached(x)
            /\ Goto(t, "pended")
       ELSE Done(t) /\ UNCHANGED <<b, ready, due>>
    /\ lock' = none
    /\ UNCHANGED <<osig, readable, alive>>

BindSignal(t) ==
    /\ At(t, "pended")
    /\ readable' = TRUE
    /\ Done(t)
    /\ UNCHANGED <<osig, list, b, ready, alive, lock, due>>

\* The FIFO without the packets of bindings that are dropped.
Excised(gone) == SelectSeq(ready, LAMBDA x : x \notin gone)

Drop(gone) ==
    /\ list' = SelectSeq(list, LAMBDA x : x \notin gone)
    /\ b' = [x \in Binding |-> IF x \in gone THEN Free ELSE b[x]]
    /\ due' = {d \in due : d[1] \notin gone}

Unbind(t, k) ==
    LET gone == {x \in Bound : b[x].key = k} IN
    /\ At(t, "idle") /\ alive /\ lock = none
    /\ Drop(gone)
    /\ ready' = Excised(gone)
    /\ readable' = (readable /\ ready' # <<>>)
    /\ UNCHANGED <<osig, alive, lock, th>>

\* sys_port_wait: dequeue, and wait for READABLE when there was nothing.
PortWait(t) ==
    /\ At(t, "idle") /\ alive
    /\ Goto(t, "wait")
    /\ UNCHANGED <<osig, portVars, due>>

\* READABLE after a dequeue.
StillReadable(rest) == readable /\ rest # <<>>

\* A binding whose packet was taken is armed again.
Dequeued(x) == [b[x] EXCEPT !.pending = FALSE, !.psig = {}]

Dequeue(t) ==
    /\ At(t, "wait") /\ lock = none
    /\ \/ /\ ready = <<>>
          /\ readable' = FALSE
          /\ Goto(t, "sleep")
          /\ UNCHANGED <<b, ready>>
       \/ /\ ready # <<>>
          /\ ready' = Tail(ready)
          /\ b' = [b EXCEPT ![Head(ready)] = Dequeued(Head(ready))]
          /\ readable' = StillReadable(Tail(ready))
          /\ Done(t)
    /\ UNCHANGED <<osig, list, alive, lock, due>>

Woken(t) ==
    /\ At(t, "sleep") /\ readable
    /\ Goto(t, "wait")
    /\ UNCHANGED <<osig, portVars, due>>

\* The deadline passed, or the thread was killed.
GiveUp(t) ==
    /\ At(t, "sleep")
    /\ Done(t)
    /\ UNCHANGED <<osig, portVars, due>>

\* ~Port, once no handle and no call refers to the port.
Destroy(t) ==
    /\ At(t, "idle") /\ alive /\ lock = none /\ Inside = {}
    /\ Drop(Bound)
    /\ ready' = <<>>
    /\ alive' = FALSE
    /\ UNCHANGED <<osig, readable, lock, th>>

----------------------------------------------------------------------------

Masks == SUBSET Bit \ {{}}

Step(t) ==
    \/ \E bits \in Masks : SignalSet(t, bits) \/ SignalClear(t, bits)
    \/ Look(t) \/ Notify(t) \/ NotifySignal(t)
    \/ \E x \in Binding, k \in Key, mask \in Masks : Bind(t, x, k, mask)
    \/ BindPublish(t) \/ BindSignal(t)
    \/ \E k \in Key : Unbind(t, k)
    \/ PortWait(t) \/ Dequeue(t) \/ Woken(t) \/ GiveUp(t)
    \/ Destroy(t)

Next == \E t \in Thread : Step(t)
Spec == Init /\ [][Next]_vars

\* The steps of a call that has begun, of a server's waits, and of those who signal
\* and bind.
Proceed(t) == Look(t) \/ Notify(t) \/ NotifySignal(t) \/ BindPublish(t) \/ BindSignal(t)
Serve(t) == PortWait(t) \/ Dequeue(t) \/ Woken(t)
Feed(t) ==
    \/ Proceed(t)
    \/ \E bits \in Masks : SignalSet(t, bits) \/ SignalClear(t, bits)
    \/ \E x \in Binding, k \in Key, mask \in Masks : Bind(t, x, k, mask)

----------------------------------------------------------------------------
(* Properties.                                                             *)

\* The ready FIFO holds every pending binding and no other, and every binding on
\* it, or on the object's list, is bound: no list keeps a binding that was destroyed.
ReadyExact ==
    /\ ToSet(ready) = {x \in Binding : b[x].pending}
    /\ ToSet(ready) \subseteq ToSet(list) /\ ToSet(list) \subseteq Bound

\* READABLE "can flicker high on an empty queue but never sit low on a full one": a
\* packet that is queued without READABLE has a thread on its way to assert it.
NeverLowOnFull ==
    alive /\ ready # <<>> /\ ~readable => \E t \in Thread : th[t].pc \in {"signal", "pended"}

\* A packet for the binding is queued, or somebody is on the way to queue it: the setter that saw
\* the signals unmatched, or bind itself.
OnItsWay(x) ==
    \/ b[x].pending
    \/ \E t \in Thread : /\ th[t].pc \in {"look", "notify", "signal"}
                         /\ Hits(t, x) # {} /\ th[t].prev \cap b[x].mask = {}
    \/ \E t \in Thread : At(t, "linking") /\ th[t].bind = x /\ QueuedAtBind(t)

\* A transition into the mask of a linked binding reaches it: until a packet is
\* queued, the setter that saw the signals unmatched is still on its way. Setters
\* whose notifications run in another order, and clears in between, lose no edge.
EdgeDelivered == \A x \in Binding : <<x, "linked">> \in due => OnItsWay(x)

\* "bind's asserted-at-bind check covers the transition a racing bind could miss" (object.h):
\* a transition that happens while bind links the binding reaches it too.
BindMissesNothing == \A x \in Binding : <<x, "linking">> \in due => OnItsWay(x)
=============================================================================
