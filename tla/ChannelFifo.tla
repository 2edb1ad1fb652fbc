---------------------------- MODULE ChannelFifo ----------------------------
(***************************************************************************)
(* What a channel promises (channel.h): messages are delivered in order,   *)
(* one bounded queue per direction, and what was queued stays readable     *)
(* after the sender's end is closed.                                       *)
(***************************************************************************)
EXTENDS Naturals, Sequences

CONSTANTS Message, Depth

Side == {0, 1}
Peer(s) == 1 - s

VARIABLES open,  \* [Side -> BOOLEAN]: the endpoint exists
          queue  \* [Side -> Seq(Message)]: what the endpoint has yet to read

vars == <<open, queue>>

Init == open = [s \in Side |-> FALSE] /\ queue = [s \in Side |-> <<>>]

Create ==
    /\ \A s \in Side : ~open[s] /\ queue[s] = <<>>
    /\ open' = [s \in Side |-> TRUE]
    /\ UNCHANGED queue
Write(s, m) ==
    /\ open[s] /\ open[Peer(s)] /\ Len(queue[Peer(s)]) < Depth
    /\ queue' = [queue EXCEPT ![Peer(s)] = Append(@, m)]
    /\ UNCHANGED open
Read(s) ==
    /\ open[s] /\ queue[s] # <<>>
    /\ queue' = [queue EXCEPT ![s] = Tail(@)]
    /\ UNCHANGED open
\* The second close takes what is still queued with it.
Close(s) ==
    /\ open[s]
    /\ open' = [open EXCEPT ![s] = FALSE]
    /\ queue' = IF open[Peer(s)] THEN queue ELSE [r \in Side |-> <<>>]

Next == \/ Create
        \/ \E s \in Side : Read(s) \/ Close(s) \/ \E m \in Message : Write(s, m)
Spec == Init /\ [][Next]_vars
=============================================================================
