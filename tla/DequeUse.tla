------------------------------ MODULE DequeUse -------------------------------
(***************************************************************************)
(* A deque in use: values enter in order, leave at either end, and room is *)
(* reserved in between.  seq is the plain sequence it stands for.          *)
(***************************************************************************)
EXTENDS Deque

CONSTANTS SIZE, RESERVE  \* bounds: values held, largest reservation

VARIABLES blocks, seq, reserved, grew
vars == <<blocks, seq, reserved, grew>>

Init == blocks = <<>> /\ seq = <<>> /\ reserved = 0 /\ grew = FALSE

PushBack(v) ==
    /\ Len(seq) < SIZE
    /\ blocks' = push_back(blocks, v) /\ seq' = Append(seq, v)
    /\ grew' = (MustAllocate(blocks) /\ Len(seq) < reserved)
    /\ UNCHANGED reserved
PopFront ==
    /\ seq # <<>>
    /\ blocks' = pop_front(blocks) /\ seq' = Tail(seq) /\ UNCHANGED <<reserved, grew>>
PopBack ==
    /\ seq # <<>>
    /\ blocks' = pop_back(blocks) /\ seq' = Front(seq) /\ UNCHANGED <<reserved, grew>>
Reserve(n) ==
    /\ n > reserved
    /\ blocks' = reserve(blocks, n) /\ reserved' = n /\ UNCHANGED <<seq, grew>>
Clear == blocks # <<>> /\ blocks' = <<>> /\ seq' = <<>> /\ reserved' = 0 /\ grew' = FALSE

\* One value after another, so that lost, doubled and swapped ones show.
NextValue == IF seq = <<>> THEN 0 ELSE (Last(seq) + 1) % 4
Next == PushBack(NextValue) \/ PopFront \/ PopBack \/ Clear \/ \E n \in 1..RESERVE : Reserve(n)
Spec == Init /\ [][Next]_vars

\* The deque is the sequence of what was pushed and not popped, whatever blocks were
\* consumed, rotated and provisioned in between.
IsSequence == Contents(blocks) = seq

\* A push within the reserved size never allocates, which the scheduler's pushes from
\* interrupt context rely on.
ReserveKept == ~grew

\* Blocks in use come first and none lies between them empty, so both ends are found.
Contiguous == \A i \in DOMAIN blocks : ~Drained(blocks[i]) => \A j \in 1..i : ~Drained(blocks[j])
==============================================================================
