----------------------------- MODULE MCServices ------------------------------
(*****************************************************************************)
(* What tasks talk through and what serves them: channels, sockets, ports    *)
(* and the handles that name them, and the coordinator. They share no state  *)
(* here, so they are put side by side: a behaviour of this module is a       *)
(* behaviour of one of them, which part names.                               *)
(*****************************************************************************)
EXTENDS Integers, Channel, TLC

CONSTANTS
    Binding, Bit,   \* bindings and signal bits of Port
    ia, ib, ic,     \* images of the coordinator's children
    off             \* the value of a variable that is not in use

VARIABLES
    part,
    sock_ends, page, sock_head, sock_count, sock_sig, sock_lock, sock_th,
    osig, list, prt_b, ready, readable, alive, prt_lock, prt_th, due,
    size, object, rights, generation, next_free, free_head, tab_count, op, closed, granted,
    unlinked,
    mail, children, names, parked, table, state, up, unread, port, drain, serve, asked, sent,
    lost, missed

\* A port cannot be duplicated.
MCRights == ("event" :> {"READ", "DUPLICATE"}) @@ ("port" :> {"READ"})

Req(opcode, name, txid, gift) == [op |-> opcode, name |-> name, txid |-> txid, gift |-> gift]
Note(kind, image) == [kind |-> kind, image |-> image]

\* A server, a client and a late server in two slots, after our own image.
ServiceMail == <<Note("init", none), Note("task", ia), Note("task", ib), Note("task", ic)>>
ServiceAsks ==
    (ia :> {Req("REGISTER", "echo", 1, TRUE)}
     @@ ib :> {Req("CONNECT", "echo", 1, FALSE), Req("CONNECT", "log", 2, FALSE)}
     @@ ic :> {Req("REGISTER", "echo", 1, FALSE), Req("CONNECT", "echo", 2, FALSE)})

\* Refusals: mail that is not an image, names out of bounds, unknown opcodes, messages that do not
\* fit; then full tables.
RefusalMail == <<Note("junk", ib), Note("long", ib), Note("task", ia)>>
RefusalAsks ==
    (ia :> {Req("REGISTER", "empty", 1, FALSE), Req("CONNECT", "long", 2, FALSE),
            Req("OTHER", "echo", 3, TRUE), Req("CONNECT", "huge", 4, TRUE), Req("CONNECT", "echo", 5, FALSE)}
     @@ ib :> {} @@ ic :> {})
FullAsks ==
    (ia :> {Req("CONNECT", "echo", 1, FALSE), Req("CONNECT", "log", 2, FALSE),
            Req("REGISTER", "echo", 3, FALSE), Req("REGISTER", "log", 4, FALSE)}
     @@ ib :> {} @@ ic :> {})

Sock == INSTANCE Socket WITH BUFFER_BYTES <- 2, PAGE_BYTES <- 2, IPC_BYTES <- 3, Writer <- {0},
    ends <- sock_ends, head <- sock_head, count <- sock_count, sig <- sock_sig, lock <- sock_lock,
    th <- sock_th
Prt == INSTANCE Port WITH Key <- {"key"}, b <- prt_b, lock <- prt_lock, th <- prt_th
Tab == INSTANCE HandleTable WITH Object <- {"event", "port"}, Right <- {"READ", "DUPLICATE"},
    DUPLICATE <- "DUPLICATE", ValidRights <- MCRights, GROW_BATCH <- 2, MAX_GENERATION <- 1,
    MaxSlots <- 2, count <- tab_count
Coord == INSTANCE Coordinator WITH Image <- {ia, ib, ic}, Mail <- ServiceMail,
    Asks <- ServiceAsks, Slot <- {1, 2}, Entry <- {1, 2}, Parking <- {1, 2}, DEPTH <- 2,
    Faults <- {"bind", "kill", "mint"}, None <- none
Refuse == INSTANCE Coordinator WITH Image <- {ia, ib, ic}, Mail <- RefusalMail,
    Asks <- RefusalAsks, Slot <- {1}, Entry <- {1}, Parking <- {1}, DEPTH <- 2,
    Faults <- {"spawn"}, None <- none
Crowd == INSTANCE Coordinator WITH Image <- {ia, ib, ic}, Mail <- RefusalMail, Asks <- FullAsks,
    Slot <- {1}, Entry <- {1}, Parking <- {1}, DEPTH <- 2, Faults <- {"spawn"}, None <- none

socketVars == <<sock_ends, page, sock_head, sock_count, sock_sig, sock_lock, sock_th>>
portVars == <<osig, list, prt_b, ready, readable, alive, prt_lock, prt_th, due>>
handleTableVars == <<size, object, rights, generation, next_free, free_head, tab_count, op,
    closed, granted, unlinked>>
coordinatorVars == <<mail, children, names, parked, table, state, up, unread, port, drain, serve,
    asked, sent, lost, missed>>
allvars == <<part, vars, socketVars, portVars, handleTableVars, coordinatorVars>>

\* Variables of a part that does not run.
NoSocket == sock_ends = off /\ page = off /\ sock_head = off /\ sock_count = off /\
    sock_sig = off /\ sock_lock = off /\ sock_th = off
NoPort == osig = off /\ list = off /\ prt_b = off /\ ready = off /\ readable = off /\
    alive = off /\ prt_lock = off /\ prt_th = off /\ due = off
NoHandleTable == size = off /\ object = off /\ rights = off /\ generation = off /\
    next_free = off /\ free_head = off /\ tab_count = off /\ op = off /\ closed = off /\
    granted = off /\ unlinked = off
NoCoordinator == mail = off /\ children = off /\ names = off /\ parked = off /\ table = off /\
    state = off /\ up = off /\ unread = off /\ port = off /\ drain = off /\ serve = off /\
    asked = off /\ sent = off /\ lost = off /\ missed = off

AllInit ==
    \/ part = "channel" /\ Init /\ NoSocket /\ NoPort /\ NoHandleTable /\ NoCoordinator
    \/ part = "socket" /\ Init /\ Sock!Init /\ NoPort /\ NoHandleTable /\ NoCoordinator
    \/ part = "port" /\ Init /\ Prt!Init /\ NoSocket /\ NoHandleTable /\ NoCoordinator
    \/ part = "handles" /\ Init /\ Tab!Init /\ NoSocket /\ NoPort /\ NoCoordinator
    \/ part = "coordinator" /\ Init /\ Coord!Init /\ NoSocket /\ NoPort /\ NoHandleTable
    \/ part = "refusals" /\ Init /\ Refuse!Init /\ NoSocket /\ NoPort /\ NoHandleTable
    \/ part = "full tables" /\ Init /\ Crowd!Init /\ NoSocket /\ NoPort /\ NoHandleTable

AllNext ==
    \/ part = "channel" /\ Next /\ UNCHANGED <<part, socketVars, portVars, handleTableVars,
         coordinatorVars>>
    \/ part = "socket" /\ Sock!Next /\ UNCHANGED <<part, vars, portVars, handleTableVars,
         coordinatorVars>>
    \/ part = "port" /\ Prt!Next /\ UNCHANGED <<part, vars, socketVars, handleTableVars,
         coordinatorVars>>
    \/ part = "handles" /\ Tab!Next /\ UNCHANGED <<part, vars, socketVars, portVars,
         coordinatorVars>>
    \/ part = "coordinator" /\ Coord!Next /\ UNCHANGED <<part, vars, socketVars, portVars,
         handleTableVars>>
    \/ part = "refusals" /\ Refuse!Next /\ UNCHANGED <<part, vars, socketVars, portVars,
         handleTableVars>>
    \/ part = "full tables" /\ Crowd!Next /\ UNCHANGED <<part, vars, socketVars, portVars,
         handleTableVars>>
    \* These may come to an end.
    \/ part \in {"channel", "socket", "coordinator", "refusals", "full tables"} /\ UNCHANGED allvars

AllSpec == AllInit /\ [][AllNext]_allvars

ASSUME Parameters == Tab!Sane

Symmetry == Permutations(Thread)

\* Whenever the lock of a socket pair is free, the signals of a live end say what its next read and
\* write would find: nobody waits on a ring that could serve. And a call never moves more bytes than
\* it was asked to, its walk over the IPC buffer staying inside the page it is on.
SocketAgrees == part = "socket" => Sock!SignalsAgree /\ Sock!WalkInBounds

\* A port owes and loses no edge. A transition into the mask of a linked binding reaches it: until a
\* packet is queued, the setter that saw the signals unmatched is still on its way, whatever the order
\* of notifications and the clears in between. READABLE "can flicker high on an empty queue but never
\* sit low on a full one" (port.cpp). The ready FIFO holds every pending binding and no destroyed one.
\* A transition while bind is still linking its binding may be lost: Port!BindMissesNothing is false.
EdgesDelivered == part = "port" => Prt!EdgeDelivered /\ Prt!NeverLowOnFull /\ Prt!ReadyExact

\* A handle names what it was made for, or nothing. An id that was closed, taken or cleared names
\* nothing ever again, however often its slot is recycled; no chain of duplicates and moves gives a
\* right that was not granted, and what cannot be duplicated has one holder; and the free list holds
\* every dead slot that may be reused, in the middle of a clear or a failed growth too.
HandlesTrue == part = "handles" => Tab!HandlesTrue

\* The coordinator keeps what it is asked and owns. Every REGISTER or CONNECT of a child in a slot is
\* in one place, unread, received, parked, being served or answered, except one in a message over
\* MSG_CAP, which sys_channel_drain discards unanswered; a registration or parked connect belongs to the task now
\* in its slot, and a name has one owner; a requester told that its connect succeeded has a peer, to
\* which the other end went once; and between two packets the coordinator holds the task and mailbox
\* handles of its children and nothing else.
RequestsKept ==
    /\ part = "coordinator" => Coord!OnePlace /\ Coord!RegistryCurrent /\ Coord!Paired /\ Coord!TableExact
    /\ part = "refusals" => Refuse!OnePlace /\ Refuse!TableExact
    /\ part = "full tables" => Crowd!OnePlace /\ Crowd!TableExact

\* Writes and reads of a socket, in runs of a page each, are those of one byte stream a
\* direction: nothing is lost, doubled or reordered.
StreamInOrder ==
    /\ part = "socket" => Sock!Abstract!Init
    /\ [][part = "socket" => UNCHANGED Sock!Abstract!vars \/ Sock!Abstract!Next]_allvars
==============================================================================
