------------------------------- MODULE Socket -------------------------------
(***************************************************************************)
(* A socket pair: one byte ring per direction, copied in and out in at     *)
(* most two runs, signals as on channels, and the system calls that walk   *)
(* the caller's IPC buffer page run by page run, taking the pair's lock    *)
(* once per run. The IPC buffer of a writer holds its own position at each *)
(* position, so that bytes can be told apart.                              *)
(***************************************************************************)
EXTENDS Naturals, Sequences

CONSTANTS
    Thread,
    BUFFER_BYTES,  \* size of a ring
    PAGE_BYTES,    \* size of a page of the IPC buffer
    IPC_BYTES,     \* size of the IPC buffer
    Writer,        \* the ends that write; their peers read
    none

Side == {0, 1}
Peer(s) == 1 - s
Byte == 0..(IPC_BYTES - 1)

VARIABLES
    ends,   \* socket_state::ends, as "is not null"
    page,   \* socket_state::inbound[s].page, the bytes
    head,   \* ... .head
    count,  \* ... .count
    sig,    \* [Side -> signal bits]
    lock,   \* the thread inside socket_state::lock, or none
    th      \* [Thread -> where it is, and its walk of the IPC buffer]

vars == <<ends, page, head, count, sig, lock, th>>

Idle == [pc |-> "idle", side |-> 0, offset |-> 0, length |-> 0, done |-> 0, data |-> <<>>, full |-> FALSE, short |-> FALSE]

\* After sys_socket_create.
Init ==
    /\ ends = [s \in Side |-> TRUE]
    /\ page = [s \in Side |-> [i \in 0..(BUFFER_BYTES - 1) |-> 0]]
    /\ head = [s \in Side |-> 0] /\ count = [s \in Side |-> 0]
    /\ sig = [s \in Side |-> {"WRITABLE"}]
    /\ lock = none
    /\ th = [t \in Thread |-> Idle]

At(t, p) == th[t].pc = p
Min(x, y) == IF x < y THEN x ELSE y

\* sys_socket_write or sys_socket_read begins, with offset and length inside the buffer.
Enter(t, p, s, offset, length) ==
    /\ At(t, "idle") /\ ends[s] /\ offset + length <= IPC_BYTES
    /\ th' = [th EXCEPT ![t] = [Idle EXCEPT !.pc = p, !.side = s, !.offset = offset, !.length = length]]
    /\ UNCHANGED <<ends, page, head, count, sig, lock>>

\* The position of the next byte.
Position(t) == th[t].offset + th[t].done

\* kernel_at: the bytes left on the page, cut to what is left of the request.
Run(t) == Min(PAGE_BYTES - (Position(t) % PAGE_BYTES), th[t].length - th[t].done)

\* The call returns the count: everything is done, or the last run was short.
Finish(t) ==
    /\ th[t].pc \in {"write", "read"}
    /\ th[t].done = th[t].length \/ th[t].short
    /\ th' = [th EXCEPT ![t] = Idle]
    /\ UNCHANGED <<ends, page, head, count, sig, lock>>

More(t) == th[t].done < th[t].length /\ ~th[t].short /\ lock = none

----------------------------------------------------------------------------
(* Socket::write.                                                          *)

Space(s) == BUFFER_BYTES - count[s]

\* peer_closed or capacity_exhausted: the call ends with what it has done.
WriteFails(t) ==
    /\ At(t, "write") /\ More(t)
    /\ ~ends[Peer(th[t].side)] \/ Space(Peer(th[t].side)) = 0
    /\ th' = [th EXCEPT ![t] = Idle]
    /\ UNCHANGED <<ends, page, head, count, sig, lock>>

\* Mutant: the copy is not split at the ring's edge, and the rest is dropped.
CopiedInStraight(s, tail, from, n) ==
    [i \in 0..(BUFFER_BYTES - 1) |-> IF i >= tail /\ i < tail + n THEN from + (i - tail) ELSE page[s][i]]
\* The ring after n bytes were copied to its tail: a run to the edge, then one from
\* the front.
CopiedIn(s, tail, from, n) ==
    LET first == Min(n, BUFFER_BYTES - tail) IN
    [i \in 0..(BUFFER_BYTES - 1) |->
        IF i >= tail /\ i < tail + first THEN from + (i - tail)
        ELSE IF i < n - first THEN from + first + i
        ELSE page[s][i]]

WriteRun(t) ==
    LET p == Peer(th[t].side)
        n == Min(Run(t), Space(p))
    IN  /\ At(t, "write") /\ More(t) /\ ends[p] /\ Space(p) > 0
        /\ page' = [page EXCEPT ![p] = CopiedIn(p, (head[p] + count[p]) % BUFFER_BYTES, Position(t), n)]
        /\ count' = [count EXCEPT ![p] = @ + n]
        /\ sig' = [sig EXCEPT ![p] = @ \cup {"READABLE"}]
        /\ lock' = t
        /\ th' = [th EXCEPT ![t].pc = "wrote", ![t].done = @ + n, ![t].short = n < Run(t),
                            ![t].data = [i \in 1..n |-> Position(t) + i - 1]]
        /\ UNCHANGED <<ends, head>>

WriteDone(t) ==
    LET s == th[t].side IN
    /\ At(t, "wrote")
    /\ sig' = [sig EXCEPT ![s] = IF Space(Peer(s)) = 0 THEN @ \ {"WRITABLE"} ELSE @]
    /\ lock' = none
    /\ th' = [th EXCEPT ![t].pc = "write", ![t].data = <<>>]
    /\ UNCHANGED <<ends, page, head, count>>

----------------------------------------------------------------------------
(* Socket::read.                                                           *)

\* would_block or peer_closed.
ReadFails(t) ==
    /\ At(t, "read") /\ More(t) /\ count[th[t].side] = 0
    /\ th' = [th EXCEPT ![t] = Idle]
    /\ UNCHANGED <<ends, page, head, count, sig, lock>>

\* n bytes from the head, in a run to the edge and one from the front.
CopiedOut(s, n) ==
    LET first == Min(n, BUFFER_BYTES - head[s])
    IN  [i \in 1..n |-> IF i <= first THEN page[s][head[s] + i - 1] ELSE page[s][i - first - 1]]

\* Mutant: a reader that empties a full ring is the only one to make room.
MadeRoomLast(t, s) == count[s] = 0
\* The ring was full before this read.
MadeRoom(t, s) == th[t].full

ReadRun(t) ==
    LET s == th[t].side
        n == Min(Run(t), count[s])
    IN  /\ At(t, "read") /\ More(t) /\ count[s] > 0
        /\ head' = [head EXCEPT ![s] = (@ + n) % BUFFER_BYTES]
        /\ count' = [count EXCEPT ![s] = @ - n]
        /\ sig' = [sig EXCEPT ![s] = IF n = count[s] THEN @ \ {"READABLE"} ELSE @]
        /\ lock' = t
        /\ th' = [th EXCEPT ![t].pc = "took", ![t].done = @ + n, ![t].short = n < Run(t),
                            ![t].full = Space(s) = 0, ![t].data = CopiedOut(s, n)]
        /\ UNCHANGED <<ends, page>>

ReadDone(t) ==
    LET s == th[t].side
        p == Peer(s)
    IN  /\ At(t, "took")
        /\ sig' = [sig EXCEPT ![p] = IF MadeRoom(t, s) /\ ends[p] THEN @ \cup {"WRITABLE"} ELSE @]
        /\ lock' = none
        /\ th' = [th EXCEPT ![t].pc = "read", ![t].data = <<>>, ![t].full = FALSE]
        /\ UNCHANGED <<ends, page, head, count>>

----------------------------------------------------------------------------
(* ~Socket, on the thread that closes the only handle with no call inside. *)

Close(t, s) ==
    /\ At(t, "idle") /\ ends[s] /\ lock = none
    /\ \A u \in Thread : At(u, "idle") \/ th[u].side # s
    /\ ends' = [ends EXCEPT ![s] = FALSE]
    /\ IF ends[Peer(s)]
       THEN /\ sig' = [sig EXCEPT ![Peer(s)] = @ \ {"WRITABLE"}]
            /\ lock' = t
            /\ th' = [th EXCEPT ![t] = [Idle EXCEPT !.pc = "hangup", !.side = s]]
       ELSE UNCHANGED <<sig, lock, th>>
    /\ UNCHANGED <<page, head, count>>

CloseDone(t) ==
    /\ At(t, "hangup")
    /\ sig' = [sig EXCEPT ![Peer(th[t].side)] = @ \cup {"PEER_CLOSED"}]
    /\ lock' = none
    /\ th' = [th EXCEPT ![t] = Idle]
    /\ UNCHANGED <<ends, page, head, count>>

Step(t) ==
    \/ \E s \in Writer, o \in Byte, n \in 1..IPC_BYTES :
            Enter(t, "write", s, o, n) \/ Enter(t, "read", Peer(s), o, n)
    \/ WriteFails(t) \/ WriteRun(t) \/ WriteDone(t)
    \/ ReadFails(t) \/ ReadRun(t) \/ ReadDone(t)
    \/ Finish(t)
    \/ \E s \in Side : Close(t, s)
    \/ CloseDone(t)
Next == \E t \in Thread : Step(t)
Spec == Init /\ [][Next]_vars

----------------------------------------------------------------------------
(* Properties.                                                             *)

\* Whenever the pair's lock is free, the signals of a live end say what its next read
\* and write would find: nobody waits on a ring that could serve.
SignalsAgree ==
    lock = none => \A s \in Side : ends[s] =>
        /\ "READABLE" \in sig[s] <=> count[s] > 0
        /\ "WRITABLE" \in sig[s] <=> ends[Peer(s)] /\ Space(Peer(s)) > 0
        /\ "PEER_CLOSED" \in sig[s] <=> ~ends[Peer(s)]

\* The bytes side s has yet to read.
Stream(s) == [i \in 1..count[s] |-> page[s][(head[s] + i - 1) % BUFFER_BYTES]]

\* The rings implement the bounded byte streams of SocketStream: bytes come out once,
\* in order and unchanged, across every cut and wrap.
Abstract == INSTANCE SocketStream WITH Capacity <- BUFFER_BYTES, open <- ends,
                stream <- [s \in Side |-> Stream(s)],
                moved <- IF lock = none THEN <<>> ELSE th[lock].data
StreamSpec == Abstract!Spec

\* A call never moves more bytes than it was asked to, and its walk stays inside the
\* page it is on.
WalkInBounds ==
    \A t \in Thread : /\ th[t].done <= th[t].length
                      /\ th[t].pc \in {"write", "read"} /\ th[t].done < th[t].length =>
                            (Position(t) % PAGE_BYTES) + Run(t) <= PAGE_BYTES
=============================================================================
