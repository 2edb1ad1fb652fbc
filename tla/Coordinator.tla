----------------------------- MODULE Coordinator -----------------------------
(***************************************************************************)
(* The coordinator (sys/init/main.cpp): one thread that waits on a port,   *)
(* spawns a task for every IMAGE the kernel mails, and serves REGISTER and *)
(* CONNECT on the mailboxes of its children.  Children run, ask, read      *)
(* their replies and die at any point between two of its system calls.     *)
(*                                                                         *)
(* A task is named by the image it was spawned from.  A minted channel     *)
(* pair is named by the request it serves.  Messages a child has not read  *)
(* are counted, not stored; `sent` remembers every message that got into a *)
(* mailbox, `lost` every request whose reply did not, and `missed` the     *)
(* signals that rose unseen while their mailbox was being bound.  The      *)
(* kernel has mailed its images when the coordinator binds its own mailbox *)
(* (see UserTask for their delivery).                                      *)
(***************************************************************************)
EXTENDS Naturals, Sequences, FiniteSets, SequencesExt

CONSTANTS
    Image,       \* tasks, one per image the kernel mails
    Mail,        \* the kernel's messages, in order: [kind, image]
    Asks,        \* [Image -> set of requests [op, name, txid, gift]]; besides the names
                 \* of services a name may be "empty", "long", over ABI_COORD_NAME_MAX,
                 \* or "huge", in a message that is over MSG_CAP
    Slot,        \* 1..MAX_CHILDREN
    Entry,       \* 1..MAX_REGISTRATIONS
    Parking,     \* 1..MAX_PENDING
    DEPTH,       \* Channel::QUEUE_DEPTH
    Faults,      \* the system calls that may fail: "spawn", "bind", "kill", "mint"
    None

VARIABLES
    mail,        \* the unread part of Mail
    children,    \* g_children: [Slot -> Image or None]
    names,       \* g_names: [Entry -> [slot, name, by] or None], by a history field
    parked,      \* g_pending: [Parking -> [slot, req, by] or None]
    table,       \* the handles the coordinator holds, and its bindings ("bound")
    state,       \* [Image -> "unborn", "alive", "dead"]
    up,          \* [Image -> requests the coordinator has not received]
    unread,      \* [Image -> number of messages the task has not read]
    port,        \* keys with a packet, in order
    drain,       \* what sys_channel_drain is at: [key, at, msg], msg what recv gave it
    serve,       \* the calls of serve_connect still to make
    asked, sent, lost, missed

vars == <<mail, children, names, parked, table, state, up, unread, port, drain, serve,
          asked, sent, lost, missed>>
tasks == <<state, up, unread, asked>>

Idle == [key |-> None, at |-> None, msg |-> None]
Self == 0

Range0(f) == {f[i] : i \in DOMAIN f} \ {None}
Task(s) == children[s]
SlotOf(c) == CHOOSE s \in Slot : children[s] = c

Init ==
    /\ mail = Mail /\ port = <<Self>> /\ drain = Idle /\ serve = <<>>
    /\ children = [s \in Slot |-> None]
    /\ names = [e \in Entry |-> None]
    /\ parked = [p \in Parking |-> None]
    /\ table = {}
    /\ state = [c \in Image |-> "unborn"]
    /\ up = [c \in Image |-> <<>>]
    /\ unread = [c \in Image |-> 0]
    /\ asked = [c \in Image |-> {}]
    /\ sent = {} /\ lost = {} /\ missed = {}

----------------------------------------------------------------------------
(* The port and the mailboxes, as the coordinator uses them.               *)

\* A signal of the mailbox of c rises: a binding that is in its list gets a packet, unless
\* it has one. While sys_port_bind stands between its look at the signals and the moment
\* other cores see its binding, nobody is told (Port has this window).
Post(c, signal) ==
    /\ port' = IF c \in Range0(children) /\ <<"bound", c>> \in table /\ SlotOf(c) \notin Range(port)
               THEN Append(port, SlotOf(c)) ELSE port
    /\ missed' = IF drain.at = "publish" /\ drain.msg = [image |-> c, queued |-> FALSE]
                 THEN missed \cup {<<c, signal>>} ELSE missed

\* sys_channel_send on the parent end of a mailbox reaches a task that holds its own
\* end and has room.
Reaches(c) == state[c] = "alive" /\ unread[c] < DEPTH

\* A message to task c with no interest in its failure: (void)send_message(...).
Reply(c, req, status) ==
    IF Reaches(c)
    THEN /\ unread' = [unread EXCEPT ![c] = @ + 1]
         /\ sent' = sent \cup {[to |-> c, op |-> req.op, of |-> <<c, req>>, status |-> status]}
         /\ UNCHANGED lost
    ELSE lost' = lost \cup {<<c, req>>} /\ UNCHANGED <<unread, sent>>

----------------------------------------------------------------------------
(* The children.                                                           *)

Ask(c, req) ==
    /\ state[c] = "alive" /\ <<"mailbox", c>> \in table
    /\ req \in Asks[c] \ asked[c] /\ Len(up[c]) < DEPTH
    /\ up' = [up EXCEPT ![c] = Append(@, req)]
    /\ asked' = [asked EXCEPT ![c] = @ \cup {req}]
    /\ IF up[c] = <<>> THEN Post(c, "READABLE") ELSE UNCHANGED <<port, missed>>
    /\ UNCHANGED <<mail, children, names, parked, table, state, unread, drain, serve, sent, lost>>

Read(c) ==
    /\ state[c] = "alive" /\ unread[c] > 0
    /\ unread' = [unread EXCEPT ![c] = @ - 1]
    /\ UNCHANGED <<mail, children, names, parked, table, state, up, port, drain, serve, asked,
                   sent, lost, missed>>

\* Exit, crash or kill: the task's end of the mailbox closes.
Die(c) ==
    /\ state[c] = "alive"
    /\ state' = [state EXCEPT ![c] = "dead"]
    /\ unread' = [unread EXCEPT ![c] = 0]
    /\ Post(c, "PEER_CLOSED")
    /\ UNCHANGED <<mail, children, names, parked, table, up, drain, serve, asked, sent, lost>>

----------------------------------------------------------------------------
(* main: one packet, and the drain of the channel it names.                *)

\* sys_port_wait; a key of an unused slot is skipped.
Wait ==
    /\ drain = Idle /\ port # <<>>
    /\ port' = Tail(port)
    /\ drain' = IF Head(port) = Self \/ Task(Head(port)) # None
                THEN [key |-> Head(port), at |-> "recv", msg |-> None] ELSE Idle
    /\ UNCHANGED <<mail, children, names, parked, table, tasks, serve, sent, lost, missed>>

Draining(at) == drain.at = at /\ serve = <<>>

\* After a message the drain receives again, also after one that was cut off.
RecvAgain == "recv"
Receive == [drain EXCEPT !.at = RecvAgain, !.msg = None]

\* sys_channel_recv: the message, and what rides in it moves to our table.
Carried(msg) == IF "gift" \in DOMAIN msg /\ ~msg.gift THEN {} ELSE {<<"arrived", msg>>}
RecvImage ==
    /\ Draining("recv") /\ drain.key = Self /\ mail # <<>>
    /\ mail' = Tail(mail)
    /\ table' = table \cup Carried(Head(mail))
    /\ drain' = [drain EXCEPT !.at = "image", !.msg = Head(mail)]
    /\ UNCHANGED <<children, names, parked, tasks, port, serve, sent, lost, missed>>
RecvMessage ==
    /\ Draining("recv") /\ drain.key # Self
    /\ LET c == Task(drain.key) IN
       /\ up[c] # <<>> /\ up' = [up EXCEPT ![c] = Tail(@)]
       /\ IF Head(up[c]).name = "huge"     \* ERR_TRUNCATED: the channel discards it
          THEN drain' = Receive /\ UNCHANGED table
          ELSE /\ table' = table \cup Carried(Head(up[c]))
               /\ drain' = [drain EXCEPT !.at = "message", !.msg = Head(up[c])]
    /\ UNCHANGED <<mail, children, names, parked, state, unread, asked, port, serve, sent, lost, missed>>

\* The queue is exhausted.
RecvNothing ==
    /\ Draining("recv")
    /\ IF drain.key = Self THEN mail = <<>> ELSE up[Task(drain.key)] = <<>>
    /\ drain' = IF drain.key = Self THEN Idle ELSE [drain EXCEPT !.at = "look"]
    /\ UNCHANGED <<mail, children, names, parked, table, tasks, port, serve, sent, lost, missed>>

\* PEER_CLOSED and not READABLE.
Gone(c) == state[c] = "dead" /\ up[c] = <<>>

\* Mutant: the parked connects of the task stay.
ParkedOfNobody(s) == {}
\* Parked connects of a slot.
ParkedOf(s) == {p \in Parking : parked[p] # None /\ parked[p].slot = s}
\* Registrations of a slot.
NamesOf(s) == {e \in Entry : names[e] # None /\ names[e].slot = s}

HandlesOf(c) == {<<"task", c>>, <<"mailbox", c>>, <<"bound", c>>}

\* sys_port_unbind drops the key's packet.
Unqueued(s) == SelectSeq(port, LAMBDA k : k # s)

\* The drain's last look at the signals, and child_gone.
Look ==
    /\ Draining("look")
    /\ drain' = Idle
    /\ LET s == drain.key  c == Task(drain.key) IN
       IF ~Gone(c)
       THEN UNCHANGED <<children, names, parked, table, port>>
       ELSE /\ names' = [e \in Entry |-> IF e \in NamesOf(s) THEN None ELSE names[e]]
            /\ parked' = [p \in Parking |-> IF p \in ParkedOf(s) THEN None ELSE parked[p]]
            /\ port' = Unqueued(s)
            /\ table' = table \ HandlesOf(c)
            /\ children' = [children EXCEPT ![s] = None]
    /\ UNCHANGED <<mail, tasks, serve, sent, lost, missed>>

----------------------------------------------------------------------------
(* handle_image                                                            *)

Free == {s \in Slot : children[s] = None}
FirstFree == CHOOSE s \in Free : \A t \in Free : s <= t

\* Malformed mail, a name too long, our own image, no slot or no task: nothing comes of it
\* but the VMO, which is closed.
Unspawned == drain.msg.kind # "task" \/ Free = {} \/ "spawn" \in Faults
ImageRefused ==
    /\ drain.at = "image" /\ Unspawned
    /\ drain' = Receive
    /\ table' = table \ Carried(drain.msg)
    /\ UNCHANGED <<mail, children, names, parked, tasks, port, serve, sent, lost, missed>>
\* ... or a new child, that is not bound yet.
HandleImage ==
    /\ drain.at = "image" /\ drain.msg.kind = "task" /\ Free # {}
    /\ LET c == drain.msg.image IN
       /\ children' = [children EXCEPT ![FirstFree] = c]
       /\ state' = [state EXCEPT ![c] = "alive"]
       /\ table' = (table \ Carried(drain.msg)) \cup {<<"task", c>>, <<"mailbox", c>>}
    /\ drain' = [drain EXCEPT !.at = "bind"]
    /\ UNCHANGED <<mail, names, parked, up, unread, asked, port, serve, sent, lost, missed>>

\* sys_port_bind queues a packet for signals already asserted.
PostAtBind(c) == up[c] # <<>> \/ state[c] = "dead"

\* The new mailbox is bound: sys_port_bind looks at its signals ...
Bind ==
    /\ drain.at = "bind"
    /\ drain' = [drain EXCEPT !.at = "publish",
                  !.msg = [image |-> drain.msg.image, queued |-> PostAtBind(drain.msg.image)]]
    /\ UNCHANGED <<mail, children, names, parked, table, tasks, port, serve, sent, lost, missed>>
\* ... and its binding gets to the other cores.
BindPublish ==
    /\ drain.at = "publish"
    /\ table' = table \cup {<<"bound", drain.msg.image>>}
    /\ port' = IF drain.msg.queued THEN Append(port, SlotOf(drain.msg.image)) ELSE port
    /\ drain' = Receive
    /\ UNCHANGED <<mail, children, names, parked, tasks, serve, sent, lost, missed>>
\* Or it cannot be bound: its task is killed, if that can be done, and everything closed.
BindFailed ==
    /\ drain.at = "bind" /\ "bind" \in Faults
    /\ LET c == drain.msg.image IN
       /\ table' = table \ HandlesOf(c)
       /\ children' = [children EXCEPT ![SlotOf(c)] = None]
       /\ \/ state' = [state EXCEPT ![c] = "dead"] /\ unread' = [unread EXCEPT ![c] = 0]
          \/ "kill" \in Faults /\ UNCHANGED <<state, unread>>
    /\ drain' = Receive
    /\ UNCHANGED <<mail, names, parked, up, asked, port, serve, sent, lost, missed>>

----------------------------------------------------------------------------
(* handle_child_message and serve_connect                                  *)

Holder(name) == {e \in Entry : names[e] # None /\ names[e].name = name}
FreeEntry == {e \in Entry : names[e] = None}
FreeParking == {p \in Parking : parked[p] = None}
LeastOf(S) == CHOOSE x \in S : \A y \in S : x <= y

Job(s, req, server) == [slot |-> s, req |-> req, server |-> server, at |-> "mint"]

\* The refusal of a REGISTER, None when the claim stands.
Refusal(req) ==
    CASE req.name = "long"                      -> "-10"
      [] Holder(req.name) # {}                  -> "-7"
      [] FreeEntry = {} \/ req.name = "empty"   -> "-10"
      [] OTHER                                  -> None

\* The parked connects a new name serves.
Waiters(name) == {p \in Parking : parked[p] # None /\ parked[p].req.name = name}

\* The parking places serve_pending frees.
Unparked(name) == Waiters(name)

\* The reply, then serve_pending over the parking places in order.
Register(s, req) ==
    IF Refusal(req) # None
    THEN Reply(Task(s), req, Refusal(req)) /\ UNCHANGED <<names, parked, serve>>
    ELSE /\ names' = [names EXCEPT ![LeastOf(FreeEntry)] =
                        [slot |-> s, name |-> req.name, by |-> Task(s)]]
         /\ Reply(Task(s), req, "0")
         /\ parked' = [p \in Parking |-> IF p \in Unparked(req.name) THEN None ELSE parked[p]]
         /\ serve' = LET order == SetToSortSeq(Waiters(req.name), <)
                     IN  [i \in 1..Len(order) |->
                            Job(parked[order[i]].slot, parked[order[i]].req, s)]

\* Served by the registrant, parked, or refused when the parking is full.
Connect(s, req) ==
    CASE req.name = "long" ->
            Reply(Task(s), req, "-10") /\ UNCHANGED <<names, parked, serve>>
      [] req.name # "long" /\ Holder(req.name) # {} ->
            /\ serve' = <<Job(s, req, names[LeastOf(Holder(req.name))].slot)>>
            /\ UNCHANGED <<names, parked, unread, sent, lost>>
      [] req.name # "long" /\ Holder(req.name) = {} /\ FreeParking # {} ->
            /\ parked' = [parked EXCEPT ![LeastOf(FreeParking)] =
                            [slot |-> s, req |-> req, by |-> Task(s)]]
            /\ UNCHANGED <<names, serve, unread, sent, lost>>
      [] OTHER ->
            Reply(Task(s), req, "-10") /\ UNCHANGED <<names, parked, serve>>

\* sys_close_arrived closes whatever a request carries.
Arrived(msg) == Carried(msg)

\* A message of a child.  A short message and an unknown opcode are ignored.
HandleChildMessage ==
    /\ drain.at = "message"
    /\ table' = table \ Arrived(drain.msg)
    /\ LET s == drain.key  req == drain.msg IN
       CASE req.op = "REGISTER" -> Register(s, req)
         [] req.op = "CONNECT"  -> Connect(s, req)
         [] OTHER               -> UNCHANGED <<names, parked, serve, unread, sent, lost>>
    /\ drain' = Receive
    /\ UNCHANGED <<mail, children, state, up, asked, port, missed>>

\* Ends closed when the registrant cannot be reached.
ClosedOnRefusal(c, req) == {<<"end", c, req, 0>>, <<"end", c, req, 1>>}

\* The reply when the registrant cannot be reached.
Unreachable == "-1"

\* The pair is minted and its first end sent to the registrant.
ServeMint ==
    /\ serve # <<>> /\ Head(serve).at = "mint"
    /\ LET j == Head(serve)  c == Task(j.slot)  server == Task(j.server)
           pair == {<<"end", c, j.req, k>> : k \in {0, 1}} IN
       \/ /\ "mint" \in Faults
          /\ Reply(c, j.req, "-4")
          /\ serve' = Tail(serve)
          /\ UNCHANGED table
       \/ /\ ~Reaches(server)
          /\ table' = (table \cup pair) \ ClosedOnRefusal(c, j.req)
          /\ Reply(c, j.req, Unreachable)
          /\ serve' = Tail(serve)
       \/ /\ Reaches(server)
          /\ table' = table \cup (pair \ {<<"end", c, j.req, 0>>})
          /\ unread' = [unread EXCEPT ![server] = @ + 1]
          /\ sent' = sent \cup {[to |-> server, op |-> "CONNECTION", of |-> <<c, j.req>>,
                                 status |-> "0"]}
          /\ serve' = [serve EXCEPT ![1].at = "reply"]
          /\ UNCHANGED lost
    /\ UNCHANGED <<mail, children, names, parked, state, up, asked, port, drain, missed>>

\* The reply carries the second end, closed when the requester cannot be reached.
ServeReply ==
    /\ serve # <<>> /\ Head(serve).at = "reply"
    /\ LET j == Head(serve)  c == Task(j.slot) IN
       /\ Reply(c, j.req, "0")
       /\ table' = table \ {<<"end", c, j.req, 1>>}
    /\ serve' = Tail(serve)
    /\ UNCHANGED <<mail, children, names, parked, state, up, asked, port, drain, missed>>

----------------------------------------------------------------------------
Coordinate == \/ Wait \/ RecvImage \/ RecvMessage \/ RecvNothing \/ Look
              \/ ImageRefused \/ HandleImage \/ Bind \/ BindPublish \/ BindFailed
              \/ HandleChildMessage \/ ServeMint \/ ServeReply

Next == \/ Coordinate
        \/ \E c \in Image : Read(c) \/ Die(c) \/ \E req \in Asks[c] : Ask(c, req)

\* The coordinator's thread is scheduled; what the children do is up to them.
Spec == Init /\ [][Next]_vars /\ WF_vars(Coordinate)

----------------------------------------------------------------------------
(* Properties.                                                             *)

\* Between two packets the coordinator holds the task and mailbox handles of its
\* children and nothing else: every path of handle_image, handle_child_message,
\* serve_connect and child_gone closes or sends what it was given or minted.
TableExact ==
    drain = Idle => table = UNION {HandlesOf(c) : c \in Range0(children)}

\* A registration or parked connect belongs to the task now in its slot, never to an
\* earlier one that used the same slot; a name has one owner; and a parked connect
\* waits for a name nobody holds.
RegistryCurrent ==
    /\ \A e \in Range0(names) : children[e.slot] = e.by
    /\ \A p \in Range0(parked) : children[p.slot] = p.by /\ Holder(p.req.name) = {}
    /\ \A e, f \in Entry : names[e] # None /\ names[f] # None /\ names[e].name = names[f].name
                           => e = f

Replies(c, req) == {m \in sent : m.of = <<c, req>> /\ m.op = req.op}

\* Where a request of a child is: waiting, received, parked, being served, answered or lost.
Places(c, req) ==
    {<<"up", i>> : i \in {i \in DOMAIN up[c] : up[c][i] = req}}
    \cup (IF drain.at = "message" /\ drain.msg = req /\ Task(drain.key) = c THEN {<<"received", 0>>} ELSE {})
    \cup {<<"parked", p>> : p \in {p \in Parking : parked[p] # None /\ parked[p].by = c
                                                      /\ parked[p].req = req}}
    \cup {<<"served", i>> : i \in {i \in DOMAIN serve : Task(serve[i].slot) = c
                                                          /\ serve[i].req = req}}
    \cup {<<"answered", m.status>> : m \in Replies(c, req)}
    \cup (IF <<c, req>> \in lost THEN {<<"lost", 0>>} ELSE {})

\* Every REGISTER or CONNECT of a child in a slot is in exactly one place: none is
\* dropped by handle_child_message, answered twice by serve_pending, or both parked
\* and answered.  Only one in a message over MSG_CAP is discarded without an answer, by
\* sys_channel_drain, although message.h promises a refusal for every name too long.
OnePlace ==
    \A c \in Range0(children) : \A req \in asked[c] :
        req.op \in {"REGISTER", "CONNECT"} =>
            Cardinality(Places(c, req)) = IF req.name = "huge" /\ req \notin Range(up[c]) THEN 0 ELSE 1

\* A requester told that its connect succeeded has a peer: the other end of its pair
\* went, before and once, to a task that asked to register the name.
Paired ==
    \A m \in sent : m.op = "CONNECT" /\ m.status = "0" =>
        LET ends == {k \in sent : k.op = "CONNECTION" /\ k.of = m.of}
        IN  /\ Cardinality(ends) = 1
            /\ \A k \in ends : \E req \in asked[k.to] : req.op = "REGISTER" /\ req.name = m.of[2].name

Settled(c, req) == \/ Replies(c, req) # {} \/ <<c, req>> \in lost
                   \/ \E p \in Range0(parked) : p.by = c /\ p.req = req
                   \/ req.name = "huge" /\ req \notin Range(up[c])

\* No request is forgotten in a mailbox, whatever the order of sends and drains: all are
\* answered, parked or over MSG_CAP, except those of a task that died and of one whose
\* first request came while sys_port_bind was bringing its binding into the list.
AllHeard ==
    \A c \in Image : \A req \in asked[c] :
        Settled(c, req) \/ state[c] = "dead" \/ <<c, "READABLE">> \in missed

\* The dead children whose slots are still to be freed. One that died while its mailbox was
\* being bound may keep its slot for ever.
Unburied == {c \in Range0(children) : state[c] = "dead" /\ <<c, "PEER_CLOSED">> \notin missed}
==============================================================================
