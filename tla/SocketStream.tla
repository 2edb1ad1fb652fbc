--------------------------- MODULE SocketStream ---------------------------
(***************************************************************************)
(* What a socket pair promises (socket.h): a bounded stream of bytes per   *)
(* direction, cut anywhere by short writes and reads, and readable to its  *)
(* end after the writer is gone.                                           *)
(***************************************************************************)
EXTENDS Naturals, Sequences

CONSTANTS Byte, Capacity

Side == {0, 1}

VARIABLES open,   \* [Side -> BOOLEAN]
          stream, \* [Side -> bytes the side has yet to read]
          moved   \* bytes a caller is giving or being given

vars == <<open, stream, moved>>

Init == open = [s \in Side |-> TRUE] /\ stream = [s \in Side |-> <<>>] /\ moved = <<>>

Write(s) ==
    /\ open[s] /\ open[1 - s] /\ moved = <<>> /\ moved' \in Seq(Byte) \ {<<>>}
    /\ stream' = [stream EXCEPT ![1 - s] = @ \o moved']
    /\ Len(stream'[1 - s]) <= Capacity
    /\ UNCHANGED open
Read(s) ==
    /\ open[s] /\ moved = <<>> /\ moved' # <<>>
    /\ stream[s] = moved' \o stream'[s]
    /\ stream'[1 - s] = stream[1 - s]
    /\ UNCHANGED open
Return == moved' = <<>> /\ UNCHANGED <<open, stream>>
Close(s) == open[s] /\ open' = [open EXCEPT ![s] = FALSE] /\ UNCHANGED <<stream, moved>>

Next == Return \/ \E s \in Side : Write(s) \/ Read(s) \/ Close(s)
Spec == Init /\ [][Next]_vars
=============================================================================
