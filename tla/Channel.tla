------------------------------ MODULE Channel ------------------------------
(***************************************************************************)
(* A channel pair: two endpoints, a ring of messages per direction, the    *)
(* signals of both endpoints, and handles that travel inside messages.     *)
(* Threads of one or more tasks run the channel system calls; the pair's   *)
(* lock is held over several steps where signals() may be read meanwhile.  *)
(* A handle is in a task's table, in escrow (in the kernel's table, named  *)
(* by one message), or gone.                                               *)
(***************************************************************************)
EXTENDS Naturals, Sequences, FiniteSets

CONSTANTS
    Thread,
    Cargo,        \* handles of other objects
    Body,         \* message contents
    QUEUE_DEPTH,
    none

Side == {0, 1}

ASSUME ChannelAssumption == QUEUE_DEPTH \in Nat \ {0} /\ none \notin Side \cup Cargo \cup Thread

Peer(s) == 1 - s
Handle == Side \cup Cargo    \* an endpoint's handle is named by its side
Message == [body : Body, cargo : Handle \cup {none}]
NoMessage == [body |-> none, cargo |-> none]

VARIABLES
    ends,   \* channel_state::ends, as "is not null"
    slots,  \* channel_state::inbound[s].slots
    head,   \* ... .head
    count,  \* ... .count
    sig,    \* [Side -> signal bits] of the two endpoints
    lock,   \* the thread inside channel_state::lock, or none
    place,  \* [Handle -> "unborn" | "table" | "escrow" | "gone"]
    th      \* [Thread -> where the thread is, and what it holds]

pair == <<ends, slots, head, count, sig, lock>>
vars == <<pair, place, th>>

Idle == [pc |-> "idle", side |-> 0, refs |-> {}, msg |-> NoMessage, full |-> FALSE, dying |-> {}]

Init ==
    /\ ends = [s \in Side |-> FALSE]
    /\ slots = [s \in Side |-> [i \in 0..(QUEUE_DEPTH - 1) |-> NoMessage]]
    /\ head = [s \in Side |-> 0]
    /\ count = [s \in Side |-> 0]
    /\ sig = [s \in Side |-> {}]
    /\ lock = none
    /\ place = [h \in Handle |-> IF h \in Side THEN "unborn" ELSE "table"]
    /\ th = [t \in Thread |-> Idle]

At(t, p) == th[t].pc = p

\* Mutant: the references of other threads are not counted.
DyingEarly(t, where) == {s \in Side : ends[s] /\ where[s] = "gone"}

\* Endpoints that nobody refers to once thread t has dropped its references and the
\* handles are placed as in where.
Dying(t, where) ==
    {s \in Side : /\ ends[s] /\ where[s] = "gone"
                  /\ \A u \in Thread \ {t} : s \notin th[u].refs \cup th[u].dying}

\* The handles once those in lost are closed.
Closed(lost) == [h \in Handle |-> IF h \in lost THEN "gone" ELSE place[h]]

\* The system call of t ends with the handles placed as in where: its references are
\* dropped, and with the last one of an endpoint the destructor runs on this thread.
Return(t, where) ==
    /\ place' = where
    /\ th' = [th EXCEPT ![t] = IF Dying(t, where) = {} THEN Idle
                               ELSE [Idle EXCEPT !.pc = "dtor", !.dying = Dying(t, where)]]

----------------------------------------------------------------------------
(* sys_channel_create: both ends exist, then a handle each. The call keeps *)
(* its own references to both until it returns.                            *)

Create(t) ==
    /\ At(t, "idle") /\ \A s \in Side : place[s] = "unborn"
    /\ ends' = [s \in Side |-> TRUE]
    /\ sig' = [s \in Side |-> {"WRITABLE"}]
    /\ \/ /\ place' = [place EXCEPT ![0] = "table"]
          /\ th' = [th EXCEPT ![t] = [Idle EXCEPT !.pc = "second", !.refs = Side]]
       \/ /\ place' = Closed(Side)
          /\ th' = [th EXCEPT ![t] = [Idle EXCEPT !.pc = "dtor", !.dying = Side]]
    /\ UNCHANGED <<slots, head, count, lock>>

\* The second insert, or its failure, after which the first handle is closed again;
\* another thread may have closed it before.
CreateSecond(t) ==
    /\ At(t, "second")
    /\ \/ Return(t, [place EXCEPT ![1] = "table"])
       \/ Return(t, Closed({1} \cup (IF place[0] = "table" THEN {0} ELSE {})))
    /\ UNCHANGED pair

----------------------------------------------------------------------------
(* sys_channel_send and Channel::write.                                    *)

\* verify() finds the endpoint's handle; a message that will carry a handle first
\* looks at the flow-control signals.
Send(t, s, b, h) ==
    /\ At(t, "idle") /\ place[s] = "table"
    /\ th' = [th EXCEPT ![t] = [Idle EXCEPT !.pc = IF h = none THEN "write" ELSE "check",
                                            !.side = s, !.refs = {s},
                                            !.msg = [body |-> b, cargo |-> h]]]
    /\ UNCHANGED <<pair, place>>

\* signals() is read without the lock; an error consumes nothing.
SendCheck(t) ==
    LET seen == sig[th[t].side] IN
    /\ At(t, "check")
    /\ \/ /\ "PEER_CLOSED" \in seen \/ "WRITABLE" \notin seen
          /\ Return(t, place)
       \/ /\ "PEER_CLOSED" \notin seen /\ "WRITABLE" \in seen
          /\ th' = [th EXCEPT ![t].pc = "take"] /\ UNCHANGED place
    /\ UNCHANGED pair

\* take() from the sender's table and insert into the kernel's. Nothing is consumed
\* when there is no page for the message or the handle is invalid; when the kernel's
\* table has no room the handle is lost.
SendTake(t) ==
    LET h == th[t].msg.cargo IN
    /\ At(t, "take")
    /\ \/ Return(t, place)
       \/ place[h] = "table" /\ Return(t, Closed({h}))
       \/ /\ place[h] = "table"
          /\ place' = [place EXCEPT ![h] = "escrow"]
          /\ th' = [th EXCEPT ![t].pc = "write"]
    /\ UNCHANGED pair

\* The handle in a message the thread owns, closed with it (release_handles).
Owned(t) == {th[t].msg.cargo} \ {none}

\* carries_endpoint_from_pair
CarriesOwnPair(m) == m.cargo \in Side

\* The queue side s reads from is full.
Full(s) == count[s] = QUEUE_DEPTH

\* Mutant: the ring's tail is taken to be its count.
TailUnwrapped(s) == count[s]
\* The slot a new message of side s goes to.
TailSlot(s) == (head[s] + count[s]) % QUEUE_DEPTH

WriteReject(t) ==
    /\ At(t, "write")
    /\ \/ CarriesOwnPair(th[t].msg)
       \/ lock = none /\ (~ends[Peer(th[t].side)] \/ Full(Peer(th[t].side)))
    /\ Return(t, Closed(Owned(t)))
    /\ UNCHANGED pair

\* Under the lock: queue the message and assert the peer's READABLE.
WritePush(t) ==
    LET p == Peer(th[t].side) IN
    /\ At(t, "write") /\ lock = none
    /\ ~CarriesOwnPair(th[t].msg) /\ ends[p] /\ ~Full(p)
    /\ slots' = [slots EXCEPT ![p][TailSlot(p)] = th[t].msg]
    /\ count' = [count EXCEPT ![p] = @ + 1]
    /\ sig' = [sig EXCEPT ![p] = @ \cup {"READABLE"}]
    /\ lock' = t
    /\ th' = [th EXCEPT ![t].pc = "pushed", ![t].msg = NoMessage]
    /\ UNCHANGED <<ends, head, place>>

\* Mutant: a writer that fills the queue leaves WRITABLE set.
AfterPushKept(s) == sig[s]
\* The writer's signals when its push filled the queue.
AfterPush(s) == IF Full(Peer(s)) THEN sig[s] \ {"WRITABLE"} ELSE sig[s]

WriteDone(t) ==
    LET s == th[t].side IN
    /\ At(t, "pushed")
    /\ sig' = [sig EXCEPT ![s] = AfterPush(s)]
    /\ lock' = none
    /\ Return(t, place)
    /\ UNCHANGED <<ends, slots, head, count>>

----------------------------------------------------------------------------
(* sys_channel_recv and Channel::read.                                     *)

Recv(t, s) ==
    /\ At(t, "idle") /\ place[s] = "table"
    /\ th' = [th EXCEPT ![t] = [Idle EXCEPT !.pc = "read", !.side = s, !.refs = {s}]]
    /\ UNCHANGED <<pair, place>>

\* would_block or peer_closed.
ReadEmpty(t) ==
    /\ At(t, "read") /\ lock = none /\ count[th[t].side] = 0
    /\ Return(t, place)
    /\ UNCHANGED pair

\* Mutant: the head moves, the message stays in its slot as well.
MovedOutKept(s) == slots[s]
\* The slots once the front message was moved out.
MovedOut(s) == [slots[s] EXCEPT ![head[s]] = NoMessage]

ReadPop(t) ==
    LET s == th[t].side IN
    /\ At(t, "read") /\ lock = none /\ count[s] > 0
    /\ th' = [th EXCEPT ![t].pc = "popped", ![t].msg = slots[s][head[s]], ![t].full = Full(s)]
    /\ slots' = [slots EXCEPT ![s] = MovedOut(s)]
    /\ head' = [head EXCEPT ![s] = (@ + 1) % QUEUE_DEPTH]
    /\ count' = [count EXCEPT ![s] = @ - 1]
    /\ sig' = [sig EXCEPT ![s] = IF count[s] = 1 THEN @ \ {"READABLE"} ELSE @]
    /\ lock' = t
    /\ UNCHANGED <<ends, place>>

\* The peer of a queue that was full may write again; an oversized message is
\* discarded once the lock is free.
ReadDone(t) ==
    LET p == Peer(th[t].side) IN
    /\ At(t, "popped")
    /\ sig' = [sig EXCEPT ![p] = IF th[t].full /\ ends[p] THEN @ \cup {"WRITABLE"} ELSE @]
    /\ lock' = none
    /\ \/ Return(t, Closed(Owned(t)))
       \/ th' = [th EXCEPT ![t].pc = "deliver"] /\ UNCHANGED place
    /\ UNCHANGED <<ends, slots, head, count>>

\* The handle moves from escrow to the receiver's table, or is closed for want of room.
Deliver(t) ==
    /\ At(t, "deliver")
    /\ \/ Return(t, Closed(Owned(t)))
       \/ Owned(t) # {} /\ Return(t, [place EXCEPT ![th[t].msg.cargo] = "table"])
    /\ UNCHANGED pair

----------------------------------------------------------------------------
(* Closing handles, and ~Channel on the thread that drops the last         *)
(* reference.                                                              *)

CloseHandle(t, h) ==
    /\ At(t, "idle") /\ place[h] = "table"
    /\ Return(t, Closed({h}))
    /\ UNCHANGED pair

\* The survivor can no longer write.
Hangup(s) == sig[s] \ {"WRITABLE"}

\* ~Channel with a live peer: unlink, clear the peer's WRITABLE ...
DtorUnlink(t, s) ==
    /\ At(t, "dtor") /\ s \in th[t].dying /\ lock = none /\ ends[Peer(s)]
    /\ ends' = [ends EXCEPT ![s] = FALSE]
    /\ sig' = [sig EXCEPT ![Peer(s)] = Hangup(Peer(s))]
    /\ lock' = t
    /\ th' = [th EXCEPT ![t].pc = "hangup", ![t].side = s, ![t].dying = @ \ {s}]
    /\ UNCHANGED <<slots, head, count, place>>

\* ... and set its PEER_CLOSED.
DtorHangup(t) ==
    LET s == th[t].side IN
    /\ At(t, "hangup")
    /\ sig' = [sig EXCEPT ![Peer(s)] = @ \cup {"PEER_CLOSED"}]
    /\ lock' = none
    /\ th' = [th EXCEPT ![t] = IF th[t].dying = {} THEN Idle ELSE [th[t] EXCEPT !.pc = "dtor"]]
    /\ UNCHANGED <<ends, slots, head, count, place>>

\* Handles in escrow on the queues of the pair.
QueuedCargo == {slots[s][i].cargo : s \in Side, i \in 0..(QUEUE_DEPTH - 1)} \ {none}

\* ~Channel of the second end: the shared state goes, and the messages in it.
DtorLast(t, s) ==
    /\ At(t, "dtor") /\ s \in th[t].dying /\ lock = none /\ ~ends[Peer(s)]
    /\ ends' = [ends EXCEPT ![s] = FALSE]
    /\ slots' = [r \in Side |-> [i \in 0..(QUEUE_DEPTH - 1) |-> NoMessage]]
    /\ count' = [r \in Side |-> 0]
    /\ place' = [h \in Handle |-> IF h \in QueuedCargo THEN "gone" ELSE place[h]]
    /\ th' = [th EXCEPT ![t] = IF th[t].dying = {s} THEN Idle
                               ELSE [th[t] EXCEPT !.dying = @ \ {s}]]
    /\ UNCHANGED <<head, sig, lock>>

----------------------------------------------------------------------------

Step(t) ==
    \/ Create(t) \/ CreateSecond(t)
    \/ \E s \in Side : Recv(t, s) \/ DtorUnlink(t, s) \/ DtorLast(t, s)
                       \/ \E b \in Body, h \in Handle \cup {none} : Send(t, s, b, h)
    \/ SendCheck(t) \/ SendTake(t) \/ WriteReject(t) \/ WritePush(t) \/ WriteDone(t)
    \/ ReadEmpty(t) \/ ReadPop(t) \/ ReadDone(t) \/ Deliver(t)
    \/ \E h \in Handle : CloseHandle(t, h)
    \/ DtorHangup(t)

Next == \E t \in Thread : Step(t)
Spec == Init /\ [][Next]_vars

----------------------------------------------------------------------------
(* Properties.                                                             *)

Points == {"idle", "second", "check", "take", "write", "pushed", "read", "popped",
           "deliver", "dtor", "hangup"}

\* The type invariant.
TypeOK ==
    /\ ends \in [Side -> BOOLEAN]
    /\ slots \in [Side -> [0..(QUEUE_DEPTH - 1) -> Message \cup {NoMessage}]]
    /\ head \in [Side -> 0..(QUEUE_DEPTH - 1)]
    /\ count \in [Side -> 0..QUEUE_DEPTH]
    /\ sig \in [Side -> SUBSET {"READABLE", "WRITABLE", "PEER_CLOSED"}]
    /\ lock \in Thread \cup {none}
    /\ place \in [Handle -> {"unborn", "table", "escrow", "gone"}]
    /\ th \in [Thread -> [pc : Points, side : Side, refs : SUBSET Side,
                          msg : Message \cup {NoMessage}, full : BOOLEAN, dying : SUBSET Side]]

\* The messages side s has yet to read, oldest first.
Queue(s) == [i \in 1..count[s] |-> slots[s][(head[s] + i - 1) % QUEUE_DEPTH]]

\* Whenever the pair's lock is free, the signals of a live endpoint say exactly what
\* its next read, its next write and its peer would: no reader or writer that waits
\* for them can sleep on a queue it could use.
SignalsAgree ==
    lock = none => \A s \in Side : ends[s] =>
        /\ "READABLE" \in sig[s] <=> count[s] > 0
        /\ "WRITABLE" \in sig[s] <=> ends[Peer(s)] /\ ~Full(Peer(s))
        /\ "PEER_CLOSED" \in sig[s] <=> ~ends[Peer(s)]

\* The messages that carry handle h: queued, or in a thread's hands.
Queued(h) == {si \in Side \X (0..(QUEUE_DEPTH - 1)) : slots[si[1]][si[2]].cargo = h}
Carrying(h) == {t \in Thread : th[t].pc \in {"write", "popped", "deliver"} /\ th[t].msg.cargo = h}

\* No endpoint is ever queued on its own pair: the queue would keep itself alive
\* (carries_endpoint_from_pair).
NoSelfOwnership == \A s \in Side : Queued(s) = {}

\* A handle in escrow belongs to exactly one message, queued or in a thread's hands,
\* and no message names a handle that is not in escrow: no transfer loses, doubles or
\* leaks a handle, whichever step of send, recv or close it is at. None of them is an
\* endpoint queued on its own pair.
EscrowOwned ==
    /\ NoSelfOwnership
    /\ \A h \in Handle : Cardinality(Queued(h)) + Cardinality(Carrying(h))
                         = IF place[h] = "escrow" THEN 1 ELSE 0

\* An endpoint exists exactly as long as a handle, a call or its destructor refers to
\* it, so none is freed early and none outlives its last reference, and a thread under
\* the pair's lock that is about to signal an endpoint finds it alive.
PeerSafe ==
    \A s \in Side :
        /\ ends[s] <=> \/ place[s] \in {"table", "escrow"}
                       \/ \E t \in Thread : s \in th[t].refs \cup th[t].dying
        /\ \A t \in Thread : th[t].pc = "hangup" /\ Peer(th[t].side) = s => ends[s]

\* Who refers to what: a handle or a call keeps its endpoint alive; a destructor runs on
\* one thread, when nothing else refers to the endpoint; and a message that was queued
\* names no endpoint of the pair. Nothing is queued before the pair exists.
InCall == {"check", "take", "write", "pushed", "read", "popped", "deliver"}
Refers(t) ==
    /\ th[t].pc # "idle" => place[0] # "unborn"
    /\ th[t].pc = "second" =>
          th[t].refs = Side /\ place[1] = "unborn" /\ \A u \in Thread \ {t} : th[u].pc # "second"
    /\ th[t].pc \in InCall => th[t].refs = {th[t].side} /\ place[th[t].side] # "unborn"
    /\ th[t].pc \notin InCall \cup {"second"} => th[t].refs = {}
    /\ th[t].pc \notin {"dtor", "hangup"} => th[t].dying = {}
    /\ th[t].pc \in {"check", "take", "write"} => th[t].msg \in Message
    /\ th[t].pc = "write" /\ th[t].msg.cargo \in Side => place[th[t].msg.cargo] # "unborn"
    /\ th[t].pc \in {"popped", "deliver"} => th[t].msg.cargo \notin Side
    /\ th[t].pc \in {"pushed", "popped", "hangup"} => lock = t
    /\ th[t].pc = "hangup" => ends[Peer(th[t].side)]
    /\ \A s \in th[t].refs : ends[s]
    /\ \A s \in th[t].dying :
          /\ ends[s] /\ place[s] = "gone" /\ s \notin th[t].refs
          /\ \A u \in Thread \ {t} : s \notin th[u].refs /\ s \notin th[u].dying
References ==
    /\ place[0] = "unborn" => \A s \in Side : place[s] = "unborn" /\ ~ends[s] /\ count[s] = 0
    /\ \A s \in Side : place[s] \in {"table", "escrow"} => ends[s]
    /\ \A s \in Side : ends[s] => \/ place[s] \in {"table", "escrow"}
                                  \/ \E t \in Thread : s \in th[t].refs \cup th[t].dying
    /\ \A s \in Side, i \in 0..(QUEUE_DEPTH - 1) : slots[s][i].cargo \notin Side
    /\ \A t \in Thread : Refers(t)

\* The ring and its signals implement the bounded FIFO of ChannelFifo.
Fifo == INSTANCE ChannelFifo WITH Depth <- QUEUE_DEPTH, open <- ends,
            queue <- [s \in Side |-> Queue(s)]
FifoSpec == Fifo!Spec
=============================================================================
