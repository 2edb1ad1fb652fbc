-------------------------------- MODULE Deque --------------------------------
(***************************************************************************)
(* ktl::deque: a queue in blocks of k_block_capacity slots.  Popping from  *)
(* the front consumes slots of the first block, which is rotated to the    *)
(* back once it is empty; pushing fills the last block in use, then the    *)
(* provisioned empty ones, and allocates a block only when there is none.  *)
(*                                                                         *)
(* A deque is its sequence of blocks [values, head].                       *)
(***************************************************************************)
EXTENDS Naturals, Sequences, SequencesExt

CONSTANT k_block_capacity

\* A block holds something.
Sane == k_block_capacity \in Nat \ {0}

Vacant == [values |-> <<>>, head |-> 0]
Live(b) == SubSeq(b.values, b.head + 1, Len(b.values))
Drained(b) == b.head = Len(b.values)

\* What the deque holds, front first, and m_size.
Contents(d) == FlattenSeq([i \in DOMAIN d |-> Live(d[i])])
Size(d) == Len(Contents(d))
capacity(d) == Len(d) * k_block_capacity

InUse(d) == {i \in DOMAIN d : ~Drained(d[i])}
last_non_empty(d) == IF InUse(d) = {} THEN 1 ELSE CHOOSE i \in InUse(d) : \A j \in InUse(d) : j <= i
first_non_empty(d) == IF InUse(d) = {} THEN 1 ELSE CHOOSE i \in InUse(d) : \A j \in InUse(d) : i <= j

\* The blocks a reservation of n provides.
BlocksFor(n) == ((n + k_block_capacity - 1) \div k_block_capacity) + 1

reserve(d, n) == d \o [i \in 1..(IF BlocksFor(n) > Len(d) THEN BlocksFor(n) - Len(d) ELSE 0) |-> Vacant]

\* The next push has to allocate.
MustAllocate(d) ==
    \/ d = <<>>
    \/ last_non_empty(d) = Len(d) /\ Len(d[Len(d)].values) = k_block_capacity

\* select_back_block: the last block in use while it has room, then the block behind it.
select_back_block(d) ==
    IF d = <<>> THEN 1
    ELSE IF Len(d[last_non_empty(d)].values) < k_block_capacity THEN last_non_empty(d)
    ELSE last_non_empty(d) + 1

push_back(d, v) ==
    LET room == IF MustAllocate(d) THEN Append(d, Vacant) ELSE d
    IN  [room EXCEPT ![select_back_block(d)].values = Append(@, v)]

\* A block whose last value is gone starts over.
Reset(b) == IF Drained(b) THEN Vacant ELSE b

\* The vacated front block goes to the back.
Rotated(d) == Append(Tail(d), Vacant)

\* remove_empty_front_blocks: at most one block empties at a time.
Compact(d) == IF InUse(d) # {} /\ Len(d) > 1 /\ Drained(d[1]) THEN Rotated(d) ELSE d

pop_front(d) ==
    LET i == first_non_empty(d) IN Compact([d EXCEPT ![i] = Reset([@ EXCEPT !.head = @ + 1])])

pop_back(d) ==
    LET i == last_non_empty(d) IN [d EXCEPT ![i] = Reset([@ EXCEPT !.values = Front(@)])]

front(d) == Head(Contents(d))
==============================================================================
