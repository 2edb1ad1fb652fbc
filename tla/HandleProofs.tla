---------------------------- MODULE HandleProofs ----------------------------
(***************************************************************************)
(* What HandleTable promises, for every set of threads, objects and rights *)
(* and every batch, generation limit and capacity: a closed id stays dead, *)
(* rights only narrow, what cannot be duplicated has one holder, and the   *)
(* free list and the count are exact.                                      *)
(***************************************************************************)
EXTENDS HandleTable, FiniteSetTheorems, WellFoundedInduction, TLAPS

\* The values the fields of the table may have.
TableType ==
    /\ size \in 0..MaxSlots
    /\ object \in [Slot -> Object \cup {none}]
    /\ rights \in [Slot -> SUBSET Right]
    /\ generation \in [Slot -> 0..MAX_GENERATION]
    /\ next_free \in [Slot -> Slot \cup {-1}]
    /\ free_head \in Slot \cup {-1}
    /\ count \in Int

\* The values of what threads carry between lock sections, and of the history.
CallType ==
    /\ op \in [Thread -> [pc : Points, id : Id, obj : Object \cup {none}, rights : SUBSET Right]]
    /\ closed \in SUBSET Id
    /\ granted \in [Object -> SUBSET Right]

\* m_free_head and every next_free name a dead slot inside the vector, and no slot is
\* named twice; entries that do not exist yet are empty.
Links ==
    /\ \A i \in Slot : i >= size => ~Live(i) /\ next_free[i] = -1
    /\ free_head # -1 => free_head < size /\ ~Live(free_head)
    /\ \A i \in Slot : next_free[i] # -1 =>
          next_free[i] < size /\ ~Live(next_free[i]) /\ next_free[i] # free_head
    /\ \A i, j \in Slot : next_free[i] # -1 /\ next_free[i] = next_free[j] => i = j

\* A retired slot: dead for good, because no link leads back to it.
Buried(i) ==
    /\ i < size /\ ~Live(i)
    /\ generation[i] = MAX_GENERATION
    /\ free_head # i /\ \A j \in Slot : next_free[j] # i

\* The slot of a closed id went on to another generation, or is retired.
Outlived == \A id \in closed : id.generation < generation[id.index] \/ Buried(id.index)

\* Thread t has a reference to o that it took out of a handle, or copied from one.
Holds(t, o) == op[t].obj = o /\ op[t].pc \in {"moved", "create"}

\* The rights a thread carries are among those granted, and a copy is of an object
\* that may be duplicated.
CarriedInv ==
    \A t \in Thread : op[t].pc \in {"moved", "create"} =>
        /\ op[t].obj \in Object
        /\ op[t].rights \subseteq granted[op[t].obj]
        /\ op[t].pc = "create" => DUPLICATE \in granted[op[t].obj]

\* MoveOnly without counting.
OneHolder ==
    \A o \in Object : DUPLICATE \notin granted[o] =>
        /\ \A i, j \in Slot : object[i] = o /\ object[j] = o => i = j
        /\ \A t, u \in Thread : Holds(t, o) /\ Holds(u, o) => t = u
        /\ \A t \in Thread, i \in Slot : ~(Holds(t, o) /\ object[i] = o)

\* The dead slots the free list should hold.
FreeSet == {i \in Slot : i < size /\ ~Live(i)} \ unlinked

\* The links never leave FreeSet, every slot of it but the head has one before it, and
\* they end: along them some number decreases.
Chain ==
    /\ unlinked \subseteq {i \in Slot : i < size /\ ~Live(i)}
    /\ free_head # -1 => free_head \in FreeSet
    /\ \A i \in FreeSet : i = free_head \/ \E j \in FreeSet : next_free[j] = i
    /\ \E rank \in [Slot -> Nat] : \A i \in FreeSet : next_free[i] # -1 =>
          next_free[i] \in FreeSet /\ rank[next_free[i]] < rank[i]

TableInv == TableType /\ Links /\ Outlived /\ CountExact
CallInv == CallType /\ NoEscalation /\ CarriedInv /\ OneHolder
IInv == TableInv /\ CallInv

----------------------------------------------------------------------------
(* The table alone.                                                        *)

\* The step gives dead slot s to o with rights r.
Fills(s, o, r) ==
    /\ s \in Slot /\ ~Live(s)
    /\ object' = [object EXCEPT ![s] = o]
    /\ rights' = [rights EXCEPT ![s] = r]

\* The step empties live slot i.
Empties(i) ==
    /\ i \in Slot /\ Live(i)
    /\ object' = [object EXCEPT ![i] = none]
    /\ rights' = [rights EXCEPT ![i] = {}]

\* Slots are integers and finitely many.
LEMMA SlotFacts ==
    ASSUME Sane
    PROVE  /\ Slot \subseteq Int /\ -1 \notin Slot /\ IsFiniteSet(Slot)
           /\ \A i \in Slot : 0 <= i /\ i < MaxSlots
  <1>1. IsFiniteSet(Slot)
    BY FS_Interval DEF Sane, Slot
  <1> QED
    BY <1>1 DEF Sane, Slot

\* create_handle adds one live slot, so m_count stays exact.
LEMMA FillCounts ==
    ASSUME Sane, TableType, CountExact, NEW s, NEW o \in Object, NEW r,
           Fills(s, o, r), count' = count + 1
    PROVE  CountExact'
  <1> DEFINE L == {i \in Slot : Live(i)}
  <1>1. IsFiniteSet(L)
    BY SlotFacts, FS_Subset
  <1>2. {i \in Slot : Live(i)}' = L \cup {s}
    BY DEF Fills, Live, TableType, Sane
  <1>3. s \notin L
    BY DEF Fills
  <1>4. Cardinality(L \cup {s}) = Cardinality(L) + 1
    BY Zenon, <1>1, <1>3, FS_AddElement
  <1> QED
    BY <1>2, <1>4 DEF CountExact

\* take() and clear() give up one live slot each.
LEMMA EmptyCounts ==
    ASSUME Sane, TableType, CountExact, NEW i, Empties(i), count' = Released
    PROVE  CountExact'
  <1> DEFINE L == {j \in Slot : Live(j)}
  <1>1. IsFiniteSet(L)
    BY SlotFacts, FS_Subset
  <1>2. {j \in Slot : Live(j)}' = L \ {i}
    BY DEF Empties, Live, TableType
  <1>3. i \in L
    BY DEF Empties
  <1>4. Cardinality(L \ {i}) = Cardinality(L) - 1
    BY <1>1, <1>3, FS_RemoveElement
  <1> QED
    BY Zenon, <1>2, <1>4 DEF CountExact, Released

\* The generation of a slot that is given up grows, or is the last and stays.
LEMMA Advances ==
    ASSUME Sane, TableType, NEW i \in Slot
    PROVE  /\ NextGeneration(i) \in 0..MAX_GENERATION
           /\ generation[i] # MAX_GENERATION => generation[i] < NextGeneration(i)
           /\ generation[i] = MAX_GENERATION => NextGeneration(i) = MAX_GENERATION
  BY DEF Sane, TableType, NextGeneration

\* Closed ids stay outlived when no id is closed, no generation changes and retired
\* slots stay buried.
LEMMA StaysOutlived ==
    ASSUME Outlived, closed \in SUBSET Id, closed' = closed, generation' = generation,
           \A k \in Slot : Buried(k) => Buried(k)'
    PROVE  Outlived'
  <1>1. \A id \in closed : id.index \in Slot
    BY DEF Id
  <1> QED
    BY <1>1 DEF Outlived

\* An id that is closed as its slot i is given up is outlived from the start.
LEMMA OutlivesMore ==
    ASSUME Sane, TableType, Outlived, closed \in SUBSET Id, NEW i \in Slot,
           generation' = [generation EXCEPT ![i] = NextGeneration(i)],
           closed' = closed \cup {[index |-> i, generation |-> generation[i]]},
           \A k \in Slot : Buried(k) => Buried(k)',
           generation[i] = MAX_GENERATION => Buried(i)'
    PROVE  Outlived'
  <1>1. \A k \in Slot : generation[k] <= generation'[k]
    BY Advances DEF TableType, Sane
  <1>2. ASSUME NEW id \in closed
        PROVE  id.generation < generation'[id.index] \/ Buried(id.index)'
    <2>1. id.index \in Slot /\ id.generation \in Int
      BY DEF Id, Sane
    <2>2. CASE id.generation < generation[id.index]
      BY <1>1, <2>1, <2>2, Advances DEF TableType, Sane
    <2>3. CASE Buried(id.index)
      BY <2>1, <2>3
    <2> QED
      BY <2>2, <2>3 DEF Outlived
  <1>3. generation[i] < generation'[i] \/ Buried(i)'
    BY Advances DEF TableType
  <1> QED
    BY <1>2, <1>3 DEF Outlived

\* create_handle from a free list that is not empty takes its head.
LEMMA CreateHead ==
    ASSUME Sane, TableInv, closed \in SUBSET Id, NEW o \in Object, NEW r \in SUBSET Right,
           Create(o, r), closed' = closed, free_head # -1
    PROVE  TableInv' /\ Fills(free_head, o, r)
  <1> DEFINE s == free_head
  <1>1. /\ size' = size /\ object' = [object EXCEPT ![s] = o]
        /\ rights' = [rights EXCEPT ![s] = r]
        /\ free_head' = next_free[s] /\ next_free' = [next_free EXCEPT ![s] = -1]
        /\ count' = count + 1 /\ generation' = generation
    BY DEF Create
  <1>2. TableType /\ Links /\ Outlived /\ CountExact /\ s \in Slot /\ s < size
    BY DEF TableInv, TableType, Links
  <1>3. Fills(s, o, r)
    BY <1>1, <1>2 DEF Fills, Links
  <1>4. TableType'
    BY <1>1, <1>2 DEF TableType
  <1>5. Links'
    <2>1. \A i \in Slot : object'[i] # none <=> (Live(i) \/ i = s)
      BY <1>1, <1>2 DEF Live, TableType, Sane
    <2>2. \A i \in Slot : next_free'[i] = IF i = s THEN -1 ELSE next_free[i]
      BY <1>1, <1>2 DEF TableType
    <2>3. next_free[s] # -1 => next_free[s] # s
      BY <1>2 DEF Links
    <2>4. \A i \in Slot : i >= size => object'[i] = none /\ next_free'[i] = -1
      BY <1>2, <2>1, <2>2, SlotFacts DEF Links, TableType
    <2>5. next_free[s] # -1 => next_free[s] < size /\ object'[next_free[s]] = none
      BY <1>2, <2>1, <2>3 DEF Links, TableType
    <2>6. ASSUME NEW i \in Slot, next_free'[i] # -1
          PROVE  next_free'[i] < size /\ object'[next_free'[i]] = none /\ next_free'[i] # next_free[s]
      <3>1. i # s /\ next_free'[i] = next_free[i] /\ next_free[i] # -1
        BY <2>2, <2>6
      <3>2. next_free[i] < size /\ ~Live(next_free[i]) /\ next_free[i] # s
        BY <1>2, <3>1 DEF Links
      <3>3. next_free[i] # next_free[s] /\ next_free[i] \in Slot
        BY <1>2, <3>1 DEF Links, TableType
      <3> QED
        BY <2>1, <3>1, <3>2, <3>3
    <2>7. \A i, j \in Slot : next_free'[i] # -1 /\ next_free'[i] = next_free'[j] => i = j
      BY <1>2, <2>2 DEF Links
    <2> QED
      BY <1>1, <2>4, <2>5, <2>6, <2>7 DEF Links, Live
  <1>6. Outlived'
    <2>1. ASSUME NEW k \in Slot, Buried(k)
          PROVE  Buried(k)'
      <3>1. /\ k < size /\ object[k] = none /\ generation[k] = MAX_GENERATION
            /\ s # k /\ \A j \in Slot : next_free[j] # k
        BY <2>1 DEF Buried, Live
      <3>2. object'[k] = none /\ free_head' # k
        BY <1>1, <1>2, <3>1 DEF TableType
      <3>3. \A j \in Slot : next_free'[j] # k
        BY <1>1, <1>2, <3>1, SlotFacts DEF TableType
      <3> QED
        BY <1>1, <3>1, <3>2, <3>3 DEF Buried, Live
    <2> QED
      BY <1>1, <1>2, <2>1, StaysOutlived
  <1> QED
    BY <1>1, <1>2, <1>3, <1>4, <1>5, <1>6, FillCounts DEF TableInv

\* create_handle from an empty list grows the vector and takes the first new slot; the
\* others are chained behind it.
LEMMA CreateGrown ==
    ASSUME Sane, TableInv, closed \in SUBSET Id, NEW o \in Object, NEW r \in SUBSET Right,
           Create(o, r), closed' = closed, free_head = -1
    PROVE  TableInv' /\ Fills(size, o, r)
  <1> DEFINE s == size
             e == size + GROW_BATCH
  <1>1. /\ CanGrow /\ size' = e /\ object' = [object EXCEPT ![s] = o]
        /\ rights' = [rights EXCEPT ![s] = r]
        /\ free_head' = GrownLinks[s] /\ next_free' = [GrownLinks EXCEPT ![s] = -1]
        /\ count' = count + 1 /\ generation' = generation
    BY DEF Create
  <1>2. TableType /\ Links /\ Outlived /\ CountExact /\ s \in Slot /\ e \in Int /\ s < e /\ e <= MaxSlots
    BY <1>1 DEF TableInv, TableType, CanGrow, Sane, Slot
  <1>3. Fills(s, o, r)
    BY <1>1, <1>2 DEF Fills, Links, Sane, TableType
  <1>4. /\ \A i \in Slot : i < s \/ i >= e => GrownLinks[i] = next_free[i]
        /\ \A i \in Slot : s <= i /\ i < e - 1 => GrownLinks[i] = i + 1
        /\ e - 1 \in Slot /\ GrownLinks[e - 1] = -1
    <2>1. \A i \in Slot : i \in size..(size + GROW_BATCH - 1) <=> s <= i /\ i < e
      BY <1>2, SlotFacts DEF Sane, TableType
    <2>2. e - 1 \in Slot /\ s <= e - 1
      BY <1>2 DEF Slot, Sane, TableType
    <2>3. ASSUME NEW i \in Slot
          PROVE  GrownLinks[i] = IF s <= i /\ i < e
                                 THEN IF i = e - 1 THEN -1 ELSE i + 1 ELSE next_free[i]
      <3>1. GrownLinks[i] = IF i \in size..(size + GROW_BATCH - 1)
                            THEN IF i = size + GROW_BATCH - 1 THEN -1 ELSE i + 1
                            ELSE next_free[i]
        BY DEF GrownLinks
      <3> QED
        BY <1>2, <2>1, <3>1, SlotFacts DEF Sane, TableType
    <2> QED
      BY <1>2, <2>2, <2>3, SlotFacts DEF TableType, Sane
  <1>5. TableType'
    <2>1. GrownLinks \in [Slot -> Slot \cup {-1}]
      BY <1>2, SlotFacts DEF GrownLinks, Slot, Sane, TableType
    <2> QED
      BY <1>1, <1>2, <2>1 DEF TableType, Sane
  <1>6. /\ \A i \in Slot : i < s \/ i >= e => next_free'[i] = next_free[i]
        /\ \A i \in Slot : s < i /\ i < e - 1 => next_free'[i] = i + 1
        /\ next_free'[s] = -1 /\ next_free'[e - 1] = -1
        /\ free_head' = IF s = e - 1 THEN -1 ELSE s + 1
    BY <1>1, <1>2, <1>4, SlotFacts DEF GrownLinks, Sane
  <1>7. \A i \in Slot : object'[i] # none <=> (Live(i) \/ i = s)
    BY <1>1, <1>2 DEF Live, TableType, Sane
  <1>8. Links'
    <2>1. \A i \in Slot : next_free[i] # -1 =>
             i < s /\ next_free[i] \in Slot /\ next_free[i] < s /\ ~Live(next_free[i])
      BY <1>2, SlotFacts DEF Links, TableType
    <2>2. ASSUME NEW i \in Slot, next_free'[i] # -1
          PROVE  \/ i < s /\ next_free[i] # -1 /\ next_free'[i] = next_free[i]
                 \/ s < i /\ i < e - 1 /\ next_free'[i] = i + 1
      <3>1. CASE i < s \/ i >= e
        BY <1>6, <2>1, <2>2, <3>1
      <3>2. CASE s <= i /\ i < e
        BY <1>2, <1>6, <2>2, <3>2, SlotFacts DEF TableType
      <3> QED
        BY <1>2, <3>1, <3>2, SlotFacts DEF TableType
    <2>3. \A i \in Slot : s < i => ~Live(i) /\ object'[i] = none
      BY <1>2, <1>7, SlotFacts DEF Links, TableType
    <2>4. \A i \in Slot : i >= e => object'[i] = none /\ next_free'[i] = -1
      BY <1>2, <2>2, <2>3, SlotFacts DEF TableType
    <2>5. free_head' # -1 => free_head' \in Slot /\ s < free_head' /\ free_head' < e
      BY <1>2, <1>6 DEF Slot, TableType, Sane
    <2>6. ASSUME NEW i \in Slot, next_free'[i] # -1
          PROVE  next_free'[i] < e /\ object'[next_free'[i]] = none /\ next_free'[i] # free_head'
      <3>1. CASE i < s /\ next_free[i] # -1 /\ next_free'[i] = next_free[i]
        <4>1. PICK v \in Slot : v = next_free[i] /\ v < s /\ ~Live(v)
          BY <2>1, <3>1
        <4>2. v \in Int /\ s \in Int
          BY <1>2, SlotFacts DEF TableType
        <4>3. v # s
          BY <4>1, <4>2
        <4>4. object'[v] = none
          BY <1>7, <4>1, <4>3
        <4>5. v < e
          BY <1>2, <4>1, <4>2
        <4>6. free_head' # v
          BY <1>6, <4>1, <4>2, SlotFacts
        <4> QED
          BY <3>1, <4>1, <4>4, <4>5, <4>6
      <3>2. CASE s < i /\ i < e - 1 /\ next_free'[i] = i + 1
        <4>1. i + 1 \in Slot /\ s < i + 1 /\ i + 1 < e /\ i + 1 # s + 1
          BY <1>2, <3>2 DEF Slot, TableType, Sane
        <4> QED
          BY <1>6, <2>3, <2>6, <3>2, <4>1
      <3> QED
        BY <2>2, <2>6, <3>1, <3>2
    <2>7. ASSUME NEW i \in Slot, NEW j \in Slot, next_free'[i] # -1, next_free'[i] = next_free'[j]
          PROVE  i = j
      <3>1. next_free'[j] # -1
        BY <2>7
      <3>2. CASE i < s /\ j < s
        BY <1>2, <2>2, <2>7, <3>1, <3>2, SlotFacts DEF Links, TableType
      <3>3. CASE i < s /\ s < j
        BY <1>2, <2>1, <2>2, <2>7, <3>1, <3>3, SlotFacts DEF TableType
      <3>4. CASE s < i /\ j < s
        BY <1>2, <2>1, <2>2, <2>7, <3>1, <3>4, SlotFacts DEF TableType
      <3>5. CASE s < i /\ s < j
        BY <1>2, <2>2, <2>7, <3>1, <3>5, SlotFacts DEF TableType
      <3> QED
        BY <2>2, <2>7, <3>1, <3>2, <3>3, <3>4, <3>5
    <2> QED
      BY <1>1, <2>3, <2>4, <2>5, <2>6, <2>7 DEF Links, Live
  <1>9. Outlived'
    <2>1. ASSUME NEW k \in Slot, Buried(k)
          PROVE  Buried(k)'
      <3>1. k < s /\ ~Live(k) /\ generation[k] = MAX_GENERATION /\ \A j \in Slot : next_free[j] # k
        BY <2>1 DEF Buried
      <3>2. k < e /\ object'[k] = none
        BY <1>2, <1>7, <3>1, SlotFacts DEF TableType
      <3>3. free_head' # k
        BY <1>2, <1>6, <3>1, SlotFacts DEF TableType
      <3>4. \A j \in Slot : next_free'[j] # k
        BY <1>2, <1>6, <3>1, SlotFacts DEF Links, TableType
      <3> QED
        BY <1>1, <3>1, <3>2, <3>3, <3>4 DEF Buried, Live
    <2> QED
      BY <1>1, <1>2, <2>1, StaysOutlived
  <1> QED
    BY <1>1, <1>2, <1>3, <1>5, <1>8, <1>9, FillCounts DEF TableInv

\* create_handle keeps the table sound and gives out a slot that was dead.
LEMMA CreateTable ==
    ASSUME Sane, TableInv, closed \in SUBSET Id, NEW o \in Object, NEW r \in SUBSET Right,
           Create(o, r), closed' = closed
    PROVE  TableInv' /\ \E s \in Slot : Fills(s, o, r)
  <1>1. CASE free_head = -1
    BY <1>1, CreateGrown DEF Fills
  <1>2. CASE free_head # -1
    BY <1>2, CreateHead DEF Fills
  <1> QED
    BY <1>1, <1>2

\* A growth that runs out of memory only lengthens the vector by dead entries.
LEMMA OomTable ==
    ASSUME Sane, TableInv, closed \in SUBSET Id, CreateOom, closed' = closed
    PROVE  TableInv' /\ UNCHANGED <<object, rights, generation>>
  <1>1. /\ size' \in 0..MaxSlots /\ size <= size'
        /\ UNCHANGED <<object, rights, generation, next_free, free_head, count>>
    BY DEF CreateOom, TableInv, TableType, Sane
  <1>2. TableType /\ Links /\ Outlived /\ CountExact
    BY DEF TableInv
  <1>3. TableType'
    BY <1>1, <1>2 DEF TableType
  <1>4. Links'
    <2>1. \A i \in Slot : i < size => i < size'
      BY <1>1, <1>2, SlotFacts DEF TableType
    <2>2. \A i \in Slot : i >= size' => i >= size
      BY <1>1, <1>2, SlotFacts DEF TableType
    <2>3. free_head # -1 => free_head < size'
      BY <1>2, <2>1 DEF Links, TableType
    <2>4. \A i \in Slot : next_free[i] # -1 => next_free[i] < size'
      BY <1>2, <2>1 DEF Links, TableType
    <2> QED
      BY <1>1, <1>2, <2>2, <2>3, <2>4 DEF Links, Live
  <1>5. Outlived'
    <2>1. \A k \in Slot : Buried(k) => Buried(k)'
      BY <1>1, <1>2, SlotFacts DEF Buried, Live, TableType
    <2> QED
      BY <1>1, <1>2, <2>1, StaysOutlived
  <1>6. CountExact'
    BY <1>1, <1>2 DEF CountExact, Live
  <1> QED
    BY <1>1, <1>3, <1>4, <1>5, <1>6 DEF TableInv

\* take(): a live slot is on no link; it is pushed on the free list, or retired when its
\* generation is the last.
LEMMA TakeTable ==
    ASSUME Sane, TableInv, closed \in SUBSET Id, NEW i \in Slot, Live(i), TakeEntry(i)
    PROVE  TableInv' /\ Empties(i) /\ closed' \in SUBSET Id
  <1> DEFINE retired == generation[i] = MAX_GENERATION
  <1>1. /\ size' = size /\ object' = [object EXCEPT ![i] = none]
        /\ rights' = [rights EXCEPT ![i] = {}]
        /\ count' = Released
        /\ generation' = [generation EXCEPT ![i] = NextGeneration(i)]
        /\ next_free' = [next_free EXCEPT ![i] = IF retired THEN -1 ELSE free_head]
        /\ free_head' = IF retired THEN free_head ELSE i
        /\ closed' = closed \cup {[index |-> i, generation |-> generation[i]]}
    BY DEF TakeEntry, Emptied, Retired
  <1>2. TableType /\ Links /\ Outlived /\ CountExact
    BY DEF TableInv
  <1>3. Empties(i)
    BY <1>1 DEF Empties
  <1>4. closed' \in SUBSET Id
    BY <1>1, <1>2 DEF TableType, Id
  <1>5. TableType'
    BY <1>1, <1>2, Advances DEF TableType, Released
  <1>6. i \in Int /\ i # -1 /\ i < size /\ free_head # i /\ \A j \in Slot : next_free[j] # i
    BY <1>2, SlotFacts DEF Links, TableType
  <1>7. \A j \in Slot : object'[j] # none <=> (Live(j) /\ j # i)
    BY <1>1, <1>2 DEF Live, TableType
  <1>8. \A j \in Slot : next_free'[j] = IF j # i THEN next_free[j] ELSE IF retired THEN -1 ELSE free_head
    BY <1>1, <1>2 DEF TableType
  <1>9. Links'
    <2>1. \A j \in Slot : j >= size => object'[j] = none /\ next_free'[j] = -1
      BY <1>2, <1>6, <1>7, <1>8, SlotFacts DEF Links, TableType
    <2>2. free_head' # -1 => free_head' < size /\ object'[free_head'] = none
      BY <1>1, <1>2, <1>6, <1>7 DEF Links, TableType
    <2>3. ASSUME NEW j \in Slot, next_free'[j] # -1
          PROVE  next_free'[j] < size /\ object'[next_free'[j]] = none /\ next_free'[j] # free_head'
      <3>1. CASE j = i
        BY Zenon, <1>1, <1>2, <1>6, <1>7, <1>8, <2>3, <3>1 DEF Links, TableType
      <3>2. CASE j # i
        <4>1. next_free'[j] = next_free[j] /\ next_free[j] # -1 /\ next_free[j] \in Slot
          BY Zenon, <1>2, <1>8, <2>3, <3>2 DEF TableType
        <4>2. next_free[j] < size /\ ~Live(next_free[j]) /\ next_free[j] # free_head
          BY Zenon, <1>2, <4>1 DEF Links
        <4>3. object'[next_free[j]] = none
          BY Zenon, <1>7, <4>1, <4>2
        <4>4. next_free[j] # free_head'
          BY Zenon, <1>1, <1>6, <4>2
        <4> QED
          BY Zenon, <4>1, <4>2, <4>3, <4>4
      <3> QED
        BY <3>1, <3>2
    <2>4. \A j, k \in Slot : next_free'[j] # -1 /\ next_free'[j] = next_free'[k] => j = k
      BY <1>2, <1>8 DEF Links
    <2> QED
      BY <1>1, <2>1, <2>2, <2>3, <2>4 DEF Links, Live
  <1>10. ASSUME NEW k \in Slot, Buried(k)
         PROVE  Buried(k)'
    <2>1. /\ k < size /\ ~Live(k) /\ generation[k] = MAX_GENERATION
          /\ free_head # k /\ \A j \in Slot : next_free[j] # k
      BY <1>10 DEF Buried
    <2>2. k # i /\ object'[k] = none /\ generation'[k] = MAX_GENERATION
      BY <1>1, <1>2, <1>7, <2>1 DEF TableType
    <2>3. free_head' # k /\ \A j \in Slot : next_free'[j] # k
      BY <1>1, <1>8, <2>1, <2>2, SlotFacts
    <2> QED
      BY <1>1, <2>1, <2>2, <2>3 DEF Buried, Live
  <1>11. retired => Buried(i)'
    BY <1>1, <1>2, <1>6, <1>7, <1>8, Advances DEF Buried, Live, TableType
  <1>12. Outlived'
    BY Zenon, <1>1, <1>2, <1>10, <1>11, OutlivesMore
  <1> QED
    BY <1>1, <1>2, <1>3, <1>4, <1>5, <1>9, <1>12, EmptyCounts DEF TableInv

\* One entry of clear(): the slot is on no link and goes on none.
LEMMA ClearTable ==
    ASSUME Sane, TableInv, closed \in SUBSET Id, NEW i \in Slot, Live(i),
           object' = [object EXCEPT ![i] = none], rights' = [rights EXCEPT ![i] = {}],
           count' = Released, generation' = [generation EXCEPT ![i] = NextGeneration(i)],
           closed' = closed \cup {[index |-> i, generation |-> generation[i]]},
           UNCHANGED <<size, next_free, free_head>>
    PROVE  TableInv' /\ Empties(i) /\ closed' \in SUBSET Id
  <1>1. TableType /\ Links /\ Outlived /\ CountExact
    BY DEF TableInv
  <1>2. Empties(i)
    BY DEF Empties
  <1>3. closed' \in SUBSET Id
    BY <1>1 DEF TableType, Id
  <1>4. TableType'
    BY <1>1, Advances DEF TableType, Released
  <1>5. i < size /\ free_head # i /\ \A j \in Slot : next_free[j] # i
    BY <1>1, SlotFacts DEF Links, TableType
  <1>6. \A j \in Slot : object'[j] # none <=> (Live(j) /\ j # i)
    BY <1>1 DEF Live, TableType
  <1>7. Links'
    <2>1. free_head # -1 => object'[free_head] = none
      BY <1>1, <1>6 DEF Links, TableType
    <2>2. \A j \in Slot : next_free[j] # -1 => object'[next_free[j]] = none
      BY <1>1, <1>6 DEF Links, TableType
    <2> QED
      BY Zenon, <1>1, <1>6, <2>1, <2>2 DEF Links, Live
  <1>8. \A k \in Slot : Buried(k) => Buried(k)'
    BY <1>1, <1>6 DEF Buried, Live, TableType
  <1>9. generation[i] = MAX_GENERATION => Buried(i)'
    BY <1>1, <1>5, <1>6, Advances DEF Buried, Live, TableType
  <1>10. Outlived'
    BY Zenon, <1>1, <1>8, <1>9, OutlivesMore
  <1> QED
    BY <1>1, <1>2, <1>3, <1>4, <1>7, <1>10, EmptyCounts DEF TableInv

\* A set of naturals that is not empty has a least element.
LEMMA Least ==
    ASSUME NEW S \in SUBSET Nat, S # {}
    PROVE  \E m \in S : \A k \in S : m <= k
  <1> DEFINE R == {ss \in Nat \X Nat : ss[1] < ss[2]}
  <1>1. IsWellFoundedOn(R, Nat)
    BY Zenon, NatLessThanWellFounded DEF OpToRel
  <1> HIDE DEF R
  <1>2. PICK m \in S : \A k \in S : ~(<<k, m>> \in R)
    BY Zenon, <1>1, WFMin
  <1>3. \A k \in S : ~(k < m)
    BY Zenon, <1>2 DEF R
  <1> QED
    BY <1>3

\* LowestFrom finds the lowest slot of S from n on, or says that there is none.
LEMMA LowestIs ==
    ASSUME Sane, NEW S \in SUBSET Slot, NEW n \in Int
    PROVE  \/ LowestFrom(S, n) = -1 /\ \A j \in S : j < n
           \/ /\ LowestFrom(S, n) \in S /\ LowestFrom(S, n) >= n
              /\ \A j \in S : j >= n => LowestFrom(S, n) <= j
  <1>1. CASE \E i \in S : i >= n
    <2> DEFINE T == {i \in S : i >= n}
    <2>1. T \in SUBSET Nat /\ T # {}
      <3>1. Slot \subseteq Nat
        BY SlotFacts
      <3> QED
        BY Zenon, <1>1, <3>1
    <2>2. PICK m \in T : \A k \in T : m <= k
      BY Zenon, <2>1, Least
    <2>3. \E i \in S : i >= n /\ \A j \in S : j >= n => i <= j
      BY <2>2
    <2>4. LowestFrom(S, n) = CHOOSE i \in S : i >= n /\ \A j \in S : j >= n => i <= j
      BY <1>1 DEF LowestFrom
    <2> QED
      BY Zenon, <2>3, <2>4
  <1>2. CASE ~\E i \in S : i >= n
    BY <1>2, SlotFacts DEF LowestFrom
  <1> QED
    BY <1>1, <1>2

\* The end of clear(): the list goes through the dead slots in ascending order, past
\* those at the last generation.
LEMMA RebuildTable ==
    ASSUME Sane, TableInv, closed \in SUBSET Id, NEW t \in Thread, ClearRebuild(t)
    PROVE  TableInv' /\ UNCHANGED <<object, rights, generation, size>>
  <1> DEFINE low(n) == LowestFrom(Rebuilt, n)
  <1>1. /\ free_head' = low(0)
        /\ next_free' = [i \in Slot |-> IF i \in Rebuilt THEN low(i + 1) ELSE -1]
        /\ UNCHANGED <<size, object, rights, generation, count, closed>>
    BY DEF ClearRebuild
  <1>2. TableType /\ Links /\ Outlived /\ CountExact
    BY DEF TableInv
  <1>3. Rebuilt \in SUBSET Slot /\ \A i \in Slot : i \in Int /\ i + 1 \in Int /\ i >= 0 /\ i # -1
    BY SlotFacts DEF Rebuilt
  <1>4. \A n \in Int : \/ low(n) = -1
                       \/ low(n) \in Rebuilt /\ low(n) >= n /\ \A j \in Rebuilt : j >= n => low(n) <= j
    BY <1>3, LowestIs
  <1> HIDE DEF low
  <1>5. TableType'
    BY <1>1, <1>2, <1>3, <1>4 DEF TableType
  <1>6. \A i \in Slot : next_free'[i] = IF i \in Rebuilt THEN low(i + 1) ELSE -1
    BY <1>1
  <1>7. \A i \in Rebuilt : i < size /\ object[i] = none /\ generation[i] # MAX_GENERATION
    BY DEF Rebuilt, Live
  <1>8. \A i \in Slot : next_free'[i] # -1 =>
           /\ i \in Rebuilt /\ next_free'[i] = low(i + 1) /\ low(i + 1) \in Rebuilt
           /\ low(i + 1) >= i + 1 /\ \A j \in Rebuilt : j >= i + 1 => low(i + 1) <= j
    BY <1>3, <1>4, <1>6
  <1>9. free_head' # -1 => free_head' \in Rebuilt /\ \A j \in Rebuilt : free_head' <= j
    BY <1>1, <1>3, <1>4
  <1>10. Links'
    <2>1. \A i \in Slot : i >= size => object[i] = none /\ next_free'[i] = -1
      BY <1>2, <1>3, <1>6, <1>7 DEF Links, Live, TableType
    <2>2. ASSUME NEW i \in Slot, next_free'[i] # -1
          PROVE  next_free'[i] < size /\ object[next_free'[i]] = none /\ next_free'[i] # free_head'
      BY <1>3, <1>7, <1>8, <1>9, <2>2
    <2>3. ASSUME NEW i \in Slot, NEW j \in Slot, next_free'[i] # -1, next_free'[i] = next_free'[j]
          PROVE  i = j
      <3>1. i \in Rebuilt /\ j \in Rebuilt /\ low(i + 1) = low(j + 1)
        BY <1>8, <2>3
      <3>2. ~(i < j)
        BY <1>3, <1>8, <2>3, <3>1
      <3>3. ~(j < i)
        BY <1>3, <1>8, <2>3, <3>1
      <3> QED
        BY <1>3, <3>2, <3>3
    <2> QED
      BY Zenon, <1>1, <1>7, <1>9, <2>1, <2>2, <2>3 DEF Links, Live
  <1>11. Outlived'
    <2>1. ASSUME NEW k \in Slot, Buried(k)
          PROVE  Buried(k)'
      <3>1. k < size /\ object[k] = none /\ generation[k] = MAX_GENERATION
        BY <2>1 DEF Buried, Live
      <3>2. k \notin Rebuilt /\ k # -1
        BY <1>3, <1>7, <3>1
      <3>3. free_head' # k
        BY <1>9, <3>2
      <3>4. \A j \in Slot : next_free'[j] # k
        BY <1>8, <3>2
      <3> QED
        BY <1>1, <3>1, <3>3, <3>4 DEF Buried, Live
    <2> QED
      BY Zenon, <1>1, <1>2, <2>1, StaysOutlived
  <1>12. CountExact'
    BY Zenon, <1>1, <1>2 DEF CountExact, Live
  <1> QED
    BY <1>1, <1>5, <1>10, <1>11, <1>12 DEF TableInv

----------------------------------------------------------------------------
(* Rights and holders.                                                     *)

\* A step that fills no slot and gives no thread a reference disturbs neither.
LEMMA NothingGained ==
    ASSUME Sane, TableType, CallInv, CallType', granted' = granted,
           \A i \in Slot : object'[i] # none => object'[i] = object[i] /\ rights'[i] = rights[i],
           \A u \in Thread : op'[u].pc \in {"moved", "create"} => op'[u] = op[u]
    PROVE  CallInv'
  <1>1. CallType /\ NoEscalation /\ CarriedInv /\ OneHolder
    BY DEF CallInv
  <1>2. NoEscalation'
    BY Zenon, <1>1 DEF NoEscalation, Live
  <1>3. CarriedInv'
    BY Zenon, <1>1 DEF CarriedInv
  <1>4. \A u \in Thread, o \in Object : Holds(u, o)' => Holds(u, o)
    BY Zenon DEF Holds
  <1>5. OneHolder'
    <2>1. \A o \in Object, i \in Slot : object'[i] = o => object[i] = o
      BY DEF Sane
    <2> QED
      BY Zenon, <1>1, <1>4, <2>1 DEF OneHolder
  <1> QED
    BY Zenon, <1>2, <1>3, <1>5 DEF CallInv

\* The reference a thread carried goes into a slot: insert of a moved handle, or the
\* second half of duplicate().
LEMMA CarriedGoesIn ==
    ASSUME Sane, TableType, CallInv, NEW t \in Thread, op[t].pc \in {"moved", "create"},
           NEW s, Fills(s, op[t].obj, op[t].rights), Finish(t), UNCHANGED <<closed, granted>>
    PROVE  CallInv'
  <1> DEFINE o == op[t].obj
  <1>1. CallType /\ NoEscalation /\ CarriedInv /\ OneHolder
    BY DEF CallInv
  <1>2. o \in Object /\ op[t].rights \subseteq granted[o] /\ s \in Slot /\ object[s] = none
    BY Zenon, <1>1 DEF CarriedInv, Fills, Live
  <1>3. /\ \A i \in Slot : object'[i] = IF i = s THEN o ELSE object[i]
        /\ \A i \in Slot : rights'[i] = IF i = s THEN op[t].rights ELSE rights[i]
    BY <1>2 DEF Fills, TableType
  <1>4. \A u \in Thread : op'[u] = IF u = t THEN Idle ELSE op[u]
    BY Zenon, <1>1 DEF Finish, CallType
  <1>5. Idle.pc = "idle" /\ Idle \in [pc : Points, id : Id, obj : Object \cup {none}, rights : SUBSET Right]
    BY DEF Idle, Points, Id, Slot, Sane
  <1>6. CallType'
    BY Zenon, <1>1, <1>5 DEF CallType, Finish
  <1>7. NoEscalation'
    BY Zenon, <1>1, <1>2, <1>3 DEF NoEscalation, Live
  <1>8. CarriedInv'
    BY ZenonT(60), <1>1, <1>4, <1>5 DEF CarriedInv
  <1>9. ASSUME NEW p \in Object, DUPLICATE \notin granted[p]
        PROVE  /\ \A i, j \in Slot : object'[i] = p /\ object'[j] = p => i = j
               /\ \A u, v \in Thread : Holds(u, p)' /\ Holds(v, p)' => u = v
               /\ \A u \in Thread, i \in Slot : ~(Holds(u, p)' /\ object'[i] = p)
    <2>1. \A u \in Thread : Holds(u, p)' => u # t /\ Holds(u, p)
      BY Zenon, <1>4, <1>5 DEF Holds
    <2>2. CASE p # o
      <3>1. \A i \in Slot : object'[i] = p => object[i] = p
        BY Zenon, <1>3, <2>2
      <3>2. /\ \A i, j \in Slot : object[i] = p /\ object[j] = p => i = j
            /\ \A u, v \in Thread : Holds(u, p) /\ Holds(v, p) => u = v
            /\ \A u \in Thread, i \in Slot : ~(Holds(u, p) /\ object[i] = p)
        BY Zenon, <1>1, <1>9 DEF OneHolder
      <3> QED
        BY Zenon, <2>1, <3>1, <3>2
    <2>3. CASE p = o
      <3>1. Holds(t, p)
        BY Zenon, <2>3 DEF Holds
      <3>2. \A i \in Slot : object[i] # p
        BY Zenon, <1>1, <1>9, <3>1 DEF OneHolder
      <3>3. \A u \in Thread : ~Holds(u, p)'
        BY Zenon, <1>1, <1>9, <2>1, <3>1 DEF OneHolder
      <3> QED
        BY Zenon, <1>3, <3>2, <3>3
    <2> QED
      BY <2>2, <2>3
  <1>10. OneHolder'
    BY Zenon, <1>9 DEF OneHolder
  <1> QED
    BY <1>6, <1>7, <1>8, <1>10 DEF CallInv

\* A new object starts with the rights it is inserted with, and its first handle.
LEMMA NewGoesIn ==
    ASSUME Sane, TableType, CallInv, NEW o \in Object, NEW r \in SUBSET Right,
           Named(o) = {}, \A u \in Thread : op[u].obj # o,
           NEW s, Fills(s, o, r), granted' = [granted EXCEPT ![o] = r], UNCHANGED <<op, closed>>
    PROVE  CallInv'
  <1>1. CallType /\ NoEscalation /\ CarriedInv /\ OneHolder
    BY DEF CallInv
  <1>2. s \in Slot /\ object[s] = none /\ \A i \in Slot : object[i] # o
    BY DEF Fills, Live, Named
  <1>3. /\ \A i \in Slot : object'[i] = IF i = s THEN o ELSE object[i]
        /\ \A i \in Slot : rights'[i] = IF i = s THEN r ELSE rights[i]
        /\ \A p \in Object : granted'[p] = IF p = o THEN r ELSE granted[p]
    BY <1>1, <1>2 DEF Fills, TableType, CallType
  <1>4. CallType'
    BY Zenon, <1>1 DEF CallType
  <1>5. NoEscalation'
    BY <1>1, <1>2, <1>3 DEF NoEscalation, Live, TableType
  <1>6. CarriedInv'
    BY Zenon, <1>1, <1>3 DEF CarriedInv
  <1>7. \A u \in Thread, p \in Object : Holds(u, p)' <=> Holds(u, p) /\ p # o
    BY Zenon DEF Holds
  <1>8. ASSUME NEW p \in Object, DUPLICATE \notin granted'[p]
        PROVE  /\ \A i, j \in Slot : object'[i] = p /\ object'[j] = p => i = j
               /\ \A u, v \in Thread : Holds(u, p)' /\ Holds(v, p)' => u = v
               /\ \A u \in Thread, i \in Slot : ~(Holds(u, p)' /\ object'[i] = p)
    <2>1. CASE p = o
      <3>1. \A i \in Slot : object'[i] = p => i = s
        BY Zenon, <1>2, <1>3, <2>1
      <3>2. \A u \in Thread : ~Holds(u, p)'
        BY Zenon, <1>7, <2>1
      <3> QED
        BY Zenon, <3>1, <3>2
    <2>2. CASE p # o
      <3>1. \A i \in Slot : object'[i] = p => object[i] = p
        BY Zenon, <1>3, <2>2
      <3>2. DUPLICATE \notin granted[p]
        BY Zenon, <1>3, <1>8, <2>2
      <3>3. /\ \A i, j \in Slot : object[i] = p /\ object[j] = p => i = j
            /\ \A u, v \in Thread : Holds(u, p) /\ Holds(v, p) => u = v
            /\ \A u \in Thread, i \in Slot : ~(Holds(u, p) /\ object[i] = p)
        BY Zenon, <1>1, <3>2 DEF OneHolder
      <3> QED
        BY Zenon, <1>7, <3>1, <3>3
    <2> QED
      BY Zenon, <2>1, <2>2
  <1>9. OneHolder'
    BY Zenon, <1>8 DEF OneHolder
  <1> QED
    BY Zenon, <1>4, <1>5, <1>6, <1>9 DEF CallInv

\* take(): the reference and the rights of slot i are now those of thread t.
LEMMA TakenOut ==
    ASSUME Sane, TableType, CallInv, NEW t \in Thread, NEW i, Empties(i), NEW id \in Id,
           op[t].pc \notin {"moved", "create"}, closed' \in SUBSET Id, granted' = granted,
           op' = [op EXCEPT ![t] = [pc |-> "moved", id |-> id, obj |-> object[i], rights |-> rights[i]]]
    PROVE  CallInv'
  <1> DEFINE o == object[i]
  <1>1. CallType /\ NoEscalation /\ CarriedInv /\ OneHolder
    BY Zenon DEF CallInv
  <1>2. i \in Slot /\ o \in Object /\ o # none /\ rights[i] \subseteq granted[o] /\ rights[i] \in SUBSET Right
    BY Zenon, <1>1 DEF Empties, TableType, Live, NoEscalation
  <1>3. /\ \A j \in Slot : object'[j] = IF j = i THEN none ELSE object[j]
        /\ \A j \in Slot : rights'[j] = IF j = i THEN {} ELSE rights[j]
    BY Zenon, <1>2 DEF Empties, TableType
  <1>4. \A u \in Thread : op'[u] = IF u = t THEN [pc |-> "moved", id |-> id, obj |-> o, rights |-> rights[i]]
                                   ELSE op[u]
    BY Zenon, <1>1 DEF CallType
  <1>5. CallType'
    BY Zenon, <1>1, <1>2 DEF CallType, Points
  <1>6. NoEscalation'
    BY ZenonT(60), <1>1, <1>3 DEF NoEscalation, Live
  <1>a. /\ op'[t].pc = "moved" /\ op'[t].obj = o /\ op'[t].rights = rights[i]
        /\ \A u \in Thread : u # t => op'[u] = op[u]
    BY <1>4
  <1>7. CarriedInv'
    <2> SUFFICES ASSUME NEW u \in Thread, op'[u].pc \in {"moved", "create"}
                 PROVE  /\ op'[u].obj \in Object
                        /\ op'[u].rights \subseteq granted[op'[u].obj]
                        /\ op'[u].pc = "create" => DUPLICATE \in granted[op'[u].obj]
      BY Zenon DEF CarriedInv
    <2>1. CASE u = t
      BY Zenon, <1>2, <1>a, <2>1
    <2>2. CASE u # t
      BY Zenon, <1>1, <1>a, <2>2 DEF CarriedInv
    <2> QED
      BY Zenon, <2>1, <2>2
  <1>8. \A u \in Thread, p \in Object : Holds(u, p)' <=> IF u = t THEN p = o ELSE Holds(u, p)
    <2> TAKE u \in Thread, p \in Object
    <2>1. CASE u = t
      BY Zenon, <1>a, <2>1 DEF Holds
    <2>2. CASE u # t
      BY Zenon, <1>a, <2>2 DEF Holds
    <2> QED
      BY Zenon, <2>1, <2>2
  <1>9. ASSUME NEW p \in Object, DUPLICATE \notin granted[p]
        PROVE  /\ \A j, k \in Slot : object'[j] = p /\ object'[k] = p => j = k
               /\ \A u, v \in Thread : Holds(u, p)' /\ Holds(v, p)' => u = v
               /\ \A u \in Thread, j \in Slot : ~(Holds(u, p)' /\ object'[j] = p)
    <2>1. p # none
      BY Zenon DEF Sane
    <2>2. CASE p # o
      <3>1. \A j \in Slot : object'[j] = p => object[j] = p
        BY Zenon, <1>3, <2>1
      <3>2. \A u \in Thread : Holds(u, p)' => Holds(u, p)
        BY Zenon, <1>8, <2>2
      <3>3. /\ \A j, k \in Slot : object[j] = p /\ object[k] = p => j = k
            /\ \A u, v \in Thread : Holds(u, p) /\ Holds(v, p) => u = v
            /\ \A u \in Thread, j \in Slot : ~(Holds(u, p) /\ object[j] = p)
        BY Zenon, <1>1, <1>9 DEF OneHolder
      <3> QED
        BY Zenon, <3>1, <3>2, <3>3
    <2>3. CASE p = o
      <3>1. \A j \in Slot : object'[j] # p
        BY Zenon, <1>1, <1>2, <1>3, <1>9, <2>1, <2>3 DEF OneHolder
      <3>2. \A u \in Thread : Holds(u, p)' => u = t
        BY Zenon, <1>1, <1>2, <1>8, <1>9, <2>3 DEF OneHolder
      <3> QED
        BY Zenon, <3>1, <3>2
    <2> QED
      BY Zenon, <2>2, <2>3
  <1>10. OneHolder'
    BY Zenon, <1>9 DEF OneHolder
  <1> QED
    BY Zenon, <1>5, <1>6, <1>7, <1>10 DEF CallInv

\* duplicate() reads a source that may be duplicated, and narrows its rights.
LEMMA CopiedOut ==
    ASSUME Sane, TableType, CallInv, NEW t \in Thread, NEW mask, NEW i \in Slot, Live(i), MayDuplicate(i),
           NEW id \in Id,
           op' = [op EXCEPT ![t] = [pc |-> "create", id |-> id, obj |-> object[i],
                                    rights |-> Narrowed(rights[i], mask)]],
           UNCHANGED <<object, rights, closed, granted>>
    PROVE  CallInv'
  <1> DEFINE o == object[i]
             w == rights[i] \cap mask
  <1>1. CallType /\ NoEscalation /\ CarriedInv /\ OneHolder
    BY Zenon DEF CallInv
  <1>2. o \in Object /\ w \subseteq granted[o] /\ w \in SUBSET Right /\ DUPLICATE \in granted[o]
    BY Zenon, <1>1 DEF TableType, Live, NoEscalation, MayDuplicate
  <1>3. \A u \in Thread : op'[u] = IF u = t THEN [pc |-> "create", id |-> id, obj |-> o, rights |-> w]
                                   ELSE op[u]
    BY Zenon, <1>1 DEF CallType, Narrowed
  <1>4. CallType'
    BY Zenon, <1>1, <1>2 DEF CallType, Points, Narrowed
  <1>5. NoEscalation'
    BY Zenon, <1>1 DEF NoEscalation, Live
  <1>a. /\ op'[t].pc = "create" /\ op'[t].obj = o /\ op'[t].rights = w
        /\ \A u \in Thread : u # t => op'[u] = op[u]
    BY <1>3
  <1> HIDE DEF w
  <1>6. CarriedInv'
    <2> SUFFICES ASSUME NEW u \in Thread, op'[u].pc \in {"moved", "create"}
                 PROVE  /\ op'[u].obj \in Object
                        /\ op'[u].rights \subseteq granted[op'[u].obj]
                        /\ op'[u].pc = "create" => DUPLICATE \in granted[op'[u].obj]
      BY Zenon DEF CarriedInv
    <2>1. CASE u = t
      BY Zenon, <1>2, <1>a, <2>1
    <2>2. CASE u # t
      BY Zenon, <1>1, <1>a, <2>2 DEF CarriedInv
    <2> QED
      BY Zenon, <2>1, <2>2
  <1>7. \A u \in Thread, p \in Object : DUPLICATE \notin granted[p] /\ Holds(u, p)' => Holds(u, p)
    <2> SUFFICES ASSUME NEW u \in Thread, NEW p \in Object, DUPLICATE \notin granted[p], Holds(u, p)'
                 PROVE  Holds(u, p)
      BY Zenon
    <2>1. u # t
      BY Zenon, <1>2, <1>a DEF Holds
    <2> QED
      BY Zenon, <1>a, <2>1 DEF Holds
  <1>8. OneHolder'
    BY Zenon, <1>1, <1>7 DEF OneHolder
  <1> QED
    BY Zenon, <1>4, <1>5, <1>6, <1>8 DEF CallInv

----------------------------------------------------------------------------
(* The steps.                                                              *)

\* The fields of a call record after a thread finished, or began a call that carries
\* no reference.
LEMMA Recorded ==
    ASSUME Sane, CallType, NEW t \in Thread,
           NEW c \in [pc : Points, id : Id, obj : Object \cup {none}, rights : SUBSET Right],
           op' = [op EXCEPT ![t] = c], c.pc \notin {"moved", "create"},
           closed' \in SUBSET Id, granted' = granted
    PROVE  /\ CallType'
           /\ \A u \in Thread : op'[u].pc \in {"moved", "create"} => op'[u] = op[u]
  BY Zenon DEF CallType

\* Idle is a call record.
LEMMA IdleIs ==
    ASSUME Sane
    PROVE  /\ Idle \in [pc : Points, id : Id, obj : Object \cup {none}, rights : SUBSET Right]
           /\ Idle.pc = "idle"
  BY DEF Idle, Points, Id, Slot, Sane

\* emplace and insert of a new object.
LEMMA EmplaceInv ==
    ASSUME Sane, IInv, NEW t \in Thread, NEW o \in Object, NEW r \in SUBSET Right, Emplace(t, o, r)
    PROVE  IInv'
  <1>1. TableInv /\ CallInv /\ TableType /\ CallType /\ closed \in SUBSET Id /\ UNCHANGED <<op, closed>>
    BY DEF IInv, TableInv, CallInv, CallType, Emplace
  <1>2. CASE Create(o, r) /\ granted' = [granted EXCEPT ![o] = r]
    <2>1. TableInv' /\ \E s \in Slot : Fills(s, o, r)
      BY <1>1, <1>2, CreateTable
    <2>2. PICK s \in Slot : Fills(s, o, r)
      BY Zenon, <2>1
    <2>3. CallInv'
      BY Zenon, <1>1, <1>2, <2>2, NewGoesIn DEF Emplace
    <2> QED
      BY <2>1, <2>3 DEF IInv
  <1>3. CASE CreateOom /\ UNCHANGED granted
    <2>1. TableInv' /\ UNCHANGED <<object, rights>>
      BY <1>1, <1>3, OomTable
    <2>2. CallInv'
      BY <1>1, <1>3, <2>1, NothingGained DEF CallType
    <2> QED
      BY <2>1, <2>2 DEF IInv
  <1> QED
    BY ZenonT(60), <1>2, <1>3 DEF Emplace

\* create_handle with what a thread carries, which may run out of memory.
LEMMA CarriedCreated ==
    ASSUME Sane, IInv, NEW t \in Thread, op[t].pc \in {"moved", "create"},
           Create(op[t].obj, op[t].rights) \/ CreateOom, Finish(t), UNCHANGED <<closed, granted>>
    PROVE  IInv'
  <1>1. TableInv /\ CallInv /\ TableType /\ CallType /\ CarriedInv /\ closed \in SUBSET Id
    BY DEF IInv, TableInv, CallInv, CallType
  <1>2. op[t].obj \in Object /\ op[t].rights \in SUBSET Right
    BY Zenon, <1>1 DEF CarriedInv, CallType
  <1>3. CASE Create(op[t].obj, op[t].rights)
    <2>1. TableInv' /\ \E s \in Slot : Fills(s, op[t].obj, op[t].rights)
      BY Zenon, <1>1, <1>2, <1>3, CreateTable
    <2>2. CallInv'
      BY Zenon, <1>1, <2>1, CarriedGoesIn
    <2> QED
      BY Zenon, <2>1, <2>2 DEF IInv
  <1>4. CASE CreateOom
    <2>1. TableInv' /\ UNCHANGED <<object, rights>>
      BY Zenon, <1>1, <1>4, OomTable
    <2>2. CallType' /\ \A u \in Thread : op'[u].pc \in {"moved", "create"} => op'[u] = op[u]
      BY Zenon, <1>1, IdleIs, Recorded DEF Finish
    <2>3. CallInv'
      BY <1>1, <2>1, <2>2, NothingGained
    <2> QED
      BY Zenon, <2>1, <2>3 DEF IInv
  <1> QED
    BY Zenon, <1>3, <1>4

\* take(id), by a kernel path or as the second half of close.
LEMMA TakeForInv ==
    ASSUME Sane, IInv, NEW t \in Thread, NEW id \in Id, TakeFor(t, id), granted' = granted,
           op[t].pc \notin {"moved", "create"}
    PROVE  IInv'
  <1>1. TableInv /\ CallInv /\ TableType /\ closed \in SUBSET Id
    BY Zenon DEF IInv, TableInv, CallInv, CallType
  <1>2. id.index \in Slot /\ Live(id.index) /\ TakeEntry(id.index)
    BY Zenon DEF TakeFor, Lookup, Id
  <1>3. TableInv' /\ Empties(id.index) /\ closed' \in SUBSET Id
    BY Zenon, <1>1, <1>2, TakeTable
  <1>4. CallInv'
    BY Zenon, <1>1, <1>3, TakenOut DEF TakeFor
  <1> QED
    BY Zenon, <1>3, <1>4 DEF IInv

\* A step that leaves the table alone and only changes what call t is in.
LEMMA OnlyCall ==
    ASSUME Sane, IInv, NEW t \in Thread,
           NEW c \in [pc : Points, id : Id, obj : Object \cup {none}, rights : SUBSET Right],
           op' = [op EXCEPT ![t] = c], c.pc \notin {"moved", "create"},
           UNCHANGED <<table, closed, granted>>
    PROVE  IInv'
  <1>1. TableInv /\ CallInv /\ TableType /\ CallType /\ closed \in SUBSET Id
    BY DEF IInv, TableInv, CallInv, CallType
  <1>2. CallType' /\ \A u \in Thread : op'[u].pc \in {"moved", "create"} => op'[u] = op[u]
    BY Zenon, <1>1, Recorded
  <1>3. UNCHANGED <<size, object, rights, generation, next_free, free_head, count>>
    BY Zenon DEF table
  <1>4. CallInv'
    BY Zenon, <1>1, <1>2, <1>3, NothingGained
  <1>5. TableInv'
    BY <1>1, <1>3 DEF TableInv, TableType, Links, Outlived, Buried, CountExact, Live
  <1> QED
    BY <1>4, <1>5 DEF IInv

\* Every entry of clear() keeps the invariant.
LEMMA ClearEntryInv ==
    ASSUME Sane, IInv, NEW t \in Thread, ClearEntry(t)
    PROVE  IInv'
  <1>1. TableInv /\ CallInv /\ TableType /\ CallType /\ closed \in SUBSET Id
    BY DEF IInv, TableInv, CallInv, CallType
  <1>2. PICK i \in Slot :
          /\ Live(i)
          /\ object' = [object EXCEPT ![i] = none] /\ rights' = [rights EXCEPT ![i] = {}]
          /\ count' = Released /\ generation' = [generation EXCEPT ![i] = NextGeneration(i)]
          /\ closed' = closed \cup {[index |-> i, generation |-> generation[i]]}
          /\ op' = [op EXCEPT ![t].id.index = i]
    BY Zenon DEF ClearEntry, LiveFrom
  <1>3. UNCHANGED <<size, next_free, free_head, granted>> /\ op[t].pc = "clear"
    BY DEF ClearEntry, At
  <1>4. TableInv' /\ Empties(i) /\ closed' \in SUBSET Id
    BY Zenon, <1>1, <1>2, <1>3, ClearTable
  <1>5. PICK c : c = [op[t] EXCEPT !.id.index = i]
    BY Zenon
  <1>6. c \in [pc : Points, id : Id, obj : Object \cup {none}, rights : SUBSET Right] /\ c.pc = "clear"
    BY Zenon, <1>1, <1>3, <1>5 DEF CallType, Id
  <1>7. op' = [op EXCEPT ![t] = c]
    BY <1>1, <1>2, <1>5 DEF CallType
  <1>8. CallType' /\ \A u \in Thread : op'[u].pc \in {"moved", "create"} => op'[u] = op[u]
    BY Zenon, <1>1, <1>3, <1>4, <1>6, <1>7, Recorded
  <1>9. \A j \in Slot : object'[j] # none => object'[j] = object[j] /\ rights'[j] = rights[j]
    BY <1>1, <1>2 DEF TableType
  <1>10. CallInv'
    BY <1>1, <1>3, <1>8, <1>9, NothingGained
  <1> QED
    BY <1>4, <1>10 DEF IInv

\* So does the end of clear(), which rebuilds the free list.
LEMMA ClearRebuildInv ==
    ASSUME Sane, IInv, NEW t \in Thread, ClearRebuild(t)
    PROVE  IInv'
  <1>1. TableInv /\ CallInv /\ TableType /\ CallType /\ closed \in SUBSET Id
    BY DEF IInv, TableInv, CallInv, CallType
  <1>2. TableInv' /\ UNCHANGED <<object, rights>>
    BY <1>1, RebuildTable
  <1>3. op' = [op EXCEPT ![t] = Idle] /\ UNCHANGED <<closed, granted>>
    BY Zenon DEF ClearRebuild, Finish
  <1>4. CallType' /\ \A u \in Thread : op'[u].pc \in {"moved", "create"} => op'[u] = op[u]
    BY Zenon, <1>1, <1>3, IdleIs, Recorded
  <1>5. CallInv'
    BY <1>1, <1>2, <1>3, <1>4, NothingGained
  <1> QED
    BY <1>2, <1>5 DEF IInv

\* The invariant holds of an empty table.
LEMMA InitInv ==
    ASSUME Sane, Init
    PROVE  IInv
  <1>1. TableType
    BY DEF Init, TableType, Slot, Sane
  <1>2. Links
    BY DEF Init, Links, Live
  <1>3. Outlived
    BY DEF Init, Outlived
  <1>4. CountExact
    <2>1. {i \in Slot : Live(i)} = {}
      BY DEF Init, Live
    <2> QED
      BY <2>1, FS_EmptySet DEF Init, CountExact
  <1>5. CallType
    BY IdleIs DEF Init, CallType
  <1>6. NoEscalation
    BY DEF Init, NoEscalation, Live
  <1>7. CarriedInv
    BY Zenon, IdleIs DEF Init, CarriedInv
  <1>8. OneHolder
    BY IdleIs DEF Init, OneHolder, Holds, Sane
  <1> QED
    BY <1>1, <1>2, <1>3, <1>4, <1>5, <1>6, <1>7, <1>8 DEF IInv, TableInv, CallInv

\* Every step of the table keeps the invariant.
LEMMA NextInv ==
    ASSUME Sane, IInv, [Next]_vars
    PROVE  IInv'
  <1> DEFINE Call == [pc : Points, id : Id, obj : Object \cup {none}, rights : SUBSET Right]
  <1>0. CallType /\ TableType
    BY ZenonT(60) DEF IInv, CallInv, TableInv
  <1>1. CASE UNCHANGED vars
    <2>1. UNCHANGED <<size, object, rights, generation, next_free, free_head, count, op, closed, granted>>
      BY <1>1 DEF vars, table
    <2> QED
      BY <2>1 DEF IInv, TableInv, TableType, Links, Outlived, Buried, CountExact, Live,
                  CallInv, CallType, NoEscalation, CarriedInv, OneHolder, Holds
  <1>2. ASSUME NEW t \in Thread, Step(t)
        PROVE  IInv'
    <2>1. ASSUME NEW o \in Object, NEW r \in SUBSET Right, Emplace(t, o, r)
          PROVE  IInv'
      BY <2>1, EmplaceInv
    <2>2. ASSUME NEW id \in Id, Take(t, id)
          PROVE  IInv'
      BY <2>2, TakeForInv DEF Take, At
    <2>3. ASSUME NEW id \in Id, NEW h \in {"close", "duplicate"}, Dispatch(t, id, h)
          PROVE  IInv'
      <3>1. PICK c : c = [pc |-> h, id |-> id, obj |-> object[id.index], rights |-> {}]
        BY Zenon
      <3>2. c \in Call /\ c.pc \notin {"moved", "create"}
        BY Zenon, <1>0, <3>1 DEF Points, Id, TableType
      <3>3. op' = [op EXCEPT ![t] = c] /\ UNCHANGED <<table, closed, granted>>
        BY Zenon, <2>3, <3>1 DEF Dispatch
      <3> QED
        BY Zenon, <3>2, <3>3, OnlyCall
    <2>4. CASE Drop(t)
      BY Zenon, <2>4, IdleIs, OnlyCall DEF Drop, Finish
    <2>5. CASE InsertMoved(t)
      BY <2>5, CarriedCreated DEF InsertMoved, At
    <2>6. CASE Close(t)
      <3>1. op[t].id \in Id /\ op[t].pc = "close" /\ granted' = granted
        BY Zenon, <1>0, <2>6 DEF Close, At, CallType
      <3>2. CASE TakeFor(t, op[t].id)
        BY Zenon, <3>1, <3>2, TakeForInv
      <3>3. CASE Finish(t) /\ UNCHANGED <<table, closed>>
        BY Zenon, <3>1, <3>3, IdleIs, OnlyCall DEF Finish
      <3> QED
        BY Zenon, <2>6, <3>2, <3>3 DEF Close
    <2>7. ASSUME NEW mask \in SUBSET Right, Duplicate(t, mask)
          PROVE  IInv'
      <3>1. PICK id \in Id : id = op[t].id
        BY <1>0 DEF CallType
      <3>2. UNCHANGED <<table, closed, granted>>
        BY <2>7 DEF Duplicate
      <3>3. UNCHANGED <<size, object, rights, generation, next_free, free_head, count>>
        BY <3>2 DEF table
      <3>4. CASE /\ Lookup(id) /\ MayDuplicate(id.index)
                 /\ op' = [op EXCEPT ![t] = [pc |-> "create", id |-> id, obj |-> object[id.index],
                                             rights |-> Narrowed(rights[id.index], mask)]]
        <4>1. id.index \in Slot /\ Live(id.index)
          BY Zenon, <3>4 DEF Lookup, Id
        <4>2. CallInv'
          BY Zenon, <1>0, <3>2, <3>3, <3>4, <4>1, CopiedOut DEF IInv
        <4>3. TableInv'
          BY Zenon, <3>2, <3>3 DEF IInv, TableInv, TableType, Links, Outlived, Buried, CountExact, Live
        <4> QED
          BY Zenon, <4>2, <4>3 DEF IInv
      <3>5. CASE Finish(t)
        BY Zenon, <3>2, <3>5, IdleIs, OnlyCall DEF Finish
      <3> QED
        BY <2>7, <3>1, <3>4, <3>5 DEF Duplicate
    <2>8. CASE DuplicateCreate(t)
      BY <2>8, CarriedCreated DEF DuplicateCreate, At
    <2>9. CASE ClearBegin(t)
      <3>1. PICK c : c = [Idle EXCEPT !.pc = "clear"]
        BY Zenon
      <3>2. c \in Call /\ c.pc = "clear"
        BY <3>1, IdleIs DEF Points
      <3> QED
        BY Zenon, <2>9, <3>1, <3>2, OnlyCall DEF ClearBegin
    <2>10. CASE ClearEntry(t)
      BY <2>10, ClearEntryInv
    <2>11. CASE ClearScanned(t)
      <3>1. PICK c : c = [op[t] EXCEPT !.pc = "rebuild"]
        BY Zenon
      <3>2. c \in Call /\ c.pc = "rebuild"
        BY <1>0, <3>1 DEF Points, CallType
      <3>3. op' = [op EXCEPT ![t] = c] /\ UNCHANGED <<table, closed, granted>>
        BY <1>0, <2>11, <3>1 DEF ClearScanned, CallType
      <3> QED
        BY Zenon, <3>2, <3>3, OnlyCall
    <2>12. CASE ClearRebuild(t)
      BY <2>12, ClearRebuildInv
    <2> QED
      BY <1>2, <2>1, <2>2, <2>3, <2>4, <2>5, <2>6, <2>7, <2>8, <2>9, <2>10, <2>11, <2>12 DEF Step
  <1> QED
    BY <1>1, <1>2 DEF Next

----------------------------------------------------------------------------
(* The free list.                                                          *)

\* A step that changes no link and no free slot keeps the list.
LEMMA ChainKept ==
    ASSUME Chain, UNCHANGED <<next_free, free_head>>, FreeSet' = FreeSet,
           unlinked' \subseteq {i \in Slot : i < size' /\ object'[i] = none}
    PROVE  Chain'
  <1>1. unlinked' \subseteq {i \in Slot : i < size /\ ~Live(i)}'
    BY Zenon DEF Live
  <1> QED
    BY Zenon, <1>1 DEF Chain

\* create_handle pops the head.
LEMMA PopChain ==
    ASSUME Sane, TableInv, Chain, NEW o \in Object, NEW r, Create(o, r), free_head # -1
    PROVE  Chain'
  <1> DEFINE s == free_head
  <1>1. /\ size' = size /\ object' = [object EXCEPT ![s] = o] /\ unlinked' = unlinked
        /\ free_head' = next_free[s] /\ next_free' = [next_free EXCEPT ![s] = -1]
    BY Zenon DEF Create
  <1>2. TableType /\ Links /\ s \in FreeSet /\ s \in Slot
    BY DEF TableInv, Chain, TableType
  <1>3. \A i \in Slot : next_free'[i] = IF i = s THEN -1 ELSE next_free[i]
    BY Zenon, <1>1, <1>2 DEF TableType
  <1>4. \A i \in Slot : object'[i] = none <=> object[i] = none /\ i # s
    BY Zenon, <1>1, <1>2 DEF TableType, Sane
  <1>5. FreeSet' = FreeSet \ {s}
    BY Zenon, <1>1, <1>4 DEF FreeSet, Live
  <1>6. unlinked' \subseteq {i \in Slot : i < size' /\ object'[i] = none}
    BY Zenon, <1>1, <1>2, <1>4 DEF Chain, Live, FreeSet
  <1>7. FreeSet \subseteq Slot /\ \A i \in Slot : next_free[i] # -1 => next_free[i] # s
    BY <1>2 DEF FreeSet, Links
  <1>8. PICK rank \in [Slot -> Nat] : \A i \in FreeSet : next_free[i] # -1 =>
            next_free[i] \in FreeSet /\ rank[next_free[i]] < rank[i]
    BY Zenon DEF Chain
  <1>9. \A i \in FreeSet' : next_free'[i] # -1 =>
            next_free'[i] \in FreeSet' /\ rank[next_free'[i]] < rank[i]
    BY Zenon, <1>3, <1>5, <1>7, <1>8
  <1>10. free_head' # -1 => free_head' \in FreeSet'
    BY Zenon, <1>1, <1>2, <1>5, <1>7, <1>8
  <1>11. \A i \in FreeSet' : i = free_head' \/ \E j \in FreeSet' : next_free'[j] = i
    BY Zenon, <1>1, <1>3, <1>5, <1>7 DEF Chain
  <1> QED
    BY Zenon, <1>6, <1>9, <1>10, <1>11 DEF Chain, Live

\* grow() chains the new slots, and create_handle takes the first of them.
LEMMA GrowChain ==
    ASSUME Sane, TableInv, Chain, NEW o \in Object, NEW r, Create(o, r), free_head = -1
    PROVE  Chain'
  <1> DEFINE s == size
             e == size + GROW_BATCH
             new == {i \in Slot : s < i /\ i < e}
  <1>1. /\ CanGrow /\ size' = e /\ object' = [object EXCEPT ![s] = o] /\ unlinked' = unlinked
        /\ free_head' = GrownLinks[s] /\ next_free' = [GrownLinks EXCEPT ![s] = -1]
    BY Zenon DEF Create
  <1>2. /\ TableType /\ Links /\ s \in Slot /\ s \in Int /\ e \in Int /\ s < e /\ e <= MaxSlots
        /\ MaxSlots \in Int /\ s >= 0
    BY <1>1 DEF TableInv, TableType, CanGrow, Sane, Slot
  <1>3. ASSUME NEW i \in Slot
        PROVE  GrownLinks[i] = IF s <= i /\ i < e THEN IF i = e - 1 THEN -1 ELSE i + 1 ELSE next_free[i]
    <2>1. i \in size..(size + GROW_BATCH - 1) <=> s <= i /\ i < e
      BY <1>2, SlotFacts DEF Sane
    <2>2. GrownLinks[i] = IF i \in size..(size + GROW_BATCH - 1)
                          THEN IF i = size + GROW_BATCH - 1 THEN -1 ELSE i + 1 ELSE next_free[i]
      BY Zenon DEF GrownLinks
    <2> QED
      BY <1>2, <2>1, <2>2, SlotFacts DEF Sane
  <1>4. ASSUME NEW i \in Slot
        PROVE  next_free'[i] = IF s < i /\ i < e - 1 THEN i + 1
                               ELSE IF s <= i /\ i < e THEN -1 ELSE next_free[i]
    <2>1. next_free'[i] = IF i = s THEN -1 ELSE GrownLinks[i]
      BY <1>1 DEF GrownLinks
    <2> QED
      BY <1>2, <1>3, <2>1, SlotFacts
  <1>5. free_head' = IF s = e - 1 THEN -1 ELSE s + 1
    BY <1>1, <1>2, <1>3
  <1>6. \A i \in Slot : object'[i] = none <=> object[i] = none /\ i # s
    BY Zenon, <1>1, <1>2 DEF TableType, Sane
  <1>7. \A i \in Slot : i >= s => object[i] = none /\ i \notin unlinked
    BY <1>2, SlotFacts DEF Links, Live, Chain
  <1>8. FreeSet' = FreeSet \cup new
    <2>1. ASSUME NEW i \in Slot
          PROVE  i \in FreeSet' <=> i \in FreeSet \/ i \in new
      <3>1. i \in FreeSet' <=> i < e /\ object[i] = none /\ i # s /\ i \notin unlinked
        BY <1>1, <1>6 DEF FreeSet, Live
      <3>2. i \in FreeSet <=> i < s /\ object[i] = none /\ i \notin unlinked
        BY DEF FreeSet, Live
      <3> QED
        BY <1>2, <1>7, <3>1, <3>2, SlotFacts
    <2> QED
      BY <2>1 DEF FreeSet
  <1>9. unlinked' \subseteq {i \in Slot : i < size' /\ object'[i] = none}
    <2>1. ASSUME NEW i \in unlinked
          PROVE  i \in Slot /\ i < s /\ object[i] = none
      BY <2>1 DEF Chain, Live
    <2>2. ASSUME NEW i \in unlinked
          PROVE  i < e /\ object'[i] = none
      <3>1. i \in Slot /\ i < s /\ object[i] = none /\ i \in Int
        BY <2>1, SlotFacts
      <3> QED
        BY <1>2, <1>6, <3>1
    <2> QED
      BY <1>1, <2>1, <2>2
  <1>10. PICK rank \in [Slot -> Nat] : \A i \in FreeSet : next_free[i] # -1 =>
            next_free[i] \in FreeSet /\ rank[next_free[i]] < rank[i]
    BY Zenon DEF Chain
  <1>11. \A i \in FreeSet : i \in Slot /\ i < s /\ next_free'[i] = next_free[i]
    <2>1. \A i \in FreeSet : i \in Slot /\ i < s
      BY DEF FreeSet
    <2>2. ASSUME NEW i \in Slot, i < s
          PROVE  next_free'[i] = next_free[i]
      BY <1>2, <1>4, <2>2, SlotFacts
    <2> QED
      BY <2>1, <2>2
  <1> DEFINE rank2 == [i \in Slot |-> IF i < s THEN rank[i] ELSE MaxSlots - i]
  <1>12. rank2 \in [Slot -> Nat]
    BY <1>2, <1>10 DEF Slot, Sane
  <1>13. ASSUME NEW i \in FreeSet', next_free'[i] # -1
         PROVE  next_free'[i] \in FreeSet' /\ rank2[next_free'[i]] < rank2[i]
    <2>1. CASE i \in FreeSet
      <3>1. next_free'[i] = next_free[i] /\ i \in Slot
        BY <1>11, <2>1
      <3>2. next_free[i] \in FreeSet /\ rank[next_free[i]] < rank[i]
        BY Zenon, <1>10, <1>13, <2>1, <3>1
      <3> QED
        BY Zenon, <1>8, <1>11, <2>1, <3>1, <3>2
    <2>2. CASE i \in new
      <3>1. i \in Slot /\ s < i /\ i < e - 1 /\ next_free'[i] = i + 1
        BY <1>2, <1>4, <1>13, <2>2, SlotFacts
      <3>2. i + 1 \in new /\ i + 1 \in Slot
        BY <1>2, <3>1 DEF Slot
      <3>3. rank2[i + 1] = MaxSlots - (i + 1) /\ rank2[i] = MaxSlots - i
        BY <1>2, <3>1, <3>2, SlotFacts
      <3>4. MaxSlots - (i + 1) < MaxSlots - i
        BY <1>2, <3>1, SlotFacts
      <3> QED
        BY Zenon, <1>8, <3>1, <3>2, <3>3, <3>4
    <2> QED
      BY Zenon, <1>8, <2>1, <2>2
  <1>14. free_head' # -1 => free_head' \in FreeSet'
    <2>1. s # e - 1 => s + 1 \in new
      BY <1>2 DEF Slot
    <2> QED
      BY Zenon, <1>5, <1>8, <2>1
  <1>15. ASSUME NEW i \in FreeSet'
         PROVE  i = free_head' \/ \E j \in FreeSet' : next_free'[j] = i
    <2>1. CASE i \in FreeSet
      <3>1. i # free_head
        BY Zenon, <1>11, <2>1, SlotFacts
      <3>2. PICK j \in FreeSet : next_free[j] = i
        BY <2>1, <3>1 DEF Chain
      <3> QED
        BY Zenon, <1>8, <1>11, <3>2
    <2>2. CASE i \in new
      <3>1. CASE i = s + 1
        BY <1>2, <1>5, <2>2, <3>1
      <3>2. CASE i # s + 1
        <4>1. PICK k \in Slot : s < k /\ k < e - 1 /\ k + 1 = i
          BY <1>2, <2>2, <3>2 DEF Slot
        <4>2. next_free'[k] = i
          BY Zenon, <1>4, <4>1
        <4>3. k \in new
          BY <1>2, <4>1, SlotFacts
        <4> QED
          BY Zenon, <1>8, <4>2, <4>3
      <3> QED
        BY <3>1, <3>2
    <2> QED
      BY Zenon, <1>8, <1>15, <2>1, <2>2
  <1> HIDE DEF rank2
  <1> QED
    BY Zenon, <1>9, <1>12, <1>13, <1>14, <1>15 DEF Chain, Live

\* A growth that failed leaves its slots off the list.
LEMMA OomChain ==
    ASSUME Sane, TableInv, Chain, CreateOom
    PROVE  Chain'
  <1>1. PICK n \in Nat : /\ size' = size + n /\ unlinked' = unlinked \cup (size..(size + n - 1))
                         /\ size + n <= MaxSlots
    BY DEF CreateOom, Sane
  <1>2. UNCHANGED <<object, next_free, free_head>> /\ TableType /\ Links
    BY Zenon DEF CreateOom, TableInv
  <1>3. size \in Int /\ n \in Int /\ MaxSlots \in Int
    BY <1>2 DEF TableType, Sane
  <1>4. \A i \in Slot : i \in size..(size + n - 1) <=> size <= i /\ i < size + n
    BY <1>3, SlotFacts
  <1>5. size..(size + n - 1) \subseteq Slot
    BY <1>1, <1>2, <1>3 DEF Slot, TableType
  <1>6. FreeSet' = FreeSet
    <2>1. ASSUME NEW i \in Slot
          PROVE  i \in FreeSet' <=> i \in FreeSet
      <3>1. i \in FreeSet' <=> i < size + n /\ object[i] = none /\ i \notin unlinked /\ ~(size <= i /\ i < size + n)
        BY <1>1, <1>2, <1>4 DEF FreeSet, Live
      <3>2. i \in FreeSet <=> i < size /\ object[i] = none /\ i \notin unlinked
        BY Zenon DEF FreeSet, Live
      <3> QED
        BY <1>3, <3>1, <3>2, SlotFacts
    <2> QED
      BY Zenon, <2>1 DEF FreeSet
  <1>7. unlinked' \subseteq {i \in Slot : i < size' /\ object'[i] = none}
    <2>1. ASSUME NEW i \in unlinked
          PROVE  i \in Slot /\ i < size + n /\ object[i] = none
      <3>1. i \in Slot /\ i < size /\ object[i] = none
        BY Zenon, <2>1 DEF Chain, Live
      <3> QED
        BY <1>3, <3>1, SlotFacts
    <2>2. ASSUME NEW i \in size..(size + n - 1)
          PROVE  i \in Slot /\ i < size + n /\ object[i] = none
      <3>1. i \in Slot /\ i >= size /\ i < size + n
        BY <1>3, <1>5
      <3> QED
        BY <1>2, <3>1 DEF Links, Live
    <2> QED
      BY Zenon, <1>1, <1>2, <2>1, <2>2
  <1> QED
    BY Zenon, <1>2, <1>6, <1>7, ChainKept

\* take() pushes its slot on the list, or leaves a retired one off it.
LEMMA TakeChain ==
    ASSUME Sane, TableInv, Chain, NEW s \in Slot, Live(s), TakeEntry(s)
    PROVE  Chain'
  <1>1. size' = size /\ object' = [object EXCEPT ![s] = none] /\ TableType /\ Links
    BY DEF TakeEntry, Emptied, TableInv
  <1>2. \A i \in Slot : object'[i] = none <=> object[i] = none \/ i = s
    BY Zenon, <1>1 DEF TableType
  <1>3. s < size /\ s \notin unlinked /\ s \notin FreeSet /\ s # -1
    BY <1>1, SlotFacts DEF Links, Chain, FreeSet, TableType
  <1>4. \A i \in unlinked : i \in Slot /\ i < size /\ object'[i] = none
    BY Zenon, <1>2 DEF Chain, Live
  <1>5. CASE Retired(s)
    <2>1. unlinked' = unlinked \cup {s} /\ free_head' = free_head /\ next_free' = [next_free EXCEPT ![s] = -1]
      BY Zenon, <1>5 DEF TakeEntry, Retired
    <2>2. FreeSet' = FreeSet
      BY Zenon, <1>1, <1>2, <1>3, <2>1 DEF FreeSet, Live
    <2>3. unlinked' \subseteq {i \in Slot : i < size' /\ object'[i] = none}
      BY Zenon, <1>1, <1>2, <1>3, <1>4, <2>1
    <2>4. \A i \in FreeSet : next_free'[i] = next_free[i]
      BY Zenon, <1>1, <1>3, <2>1 DEF FreeSet, TableType
    <2>5. PICK rank \in [Slot -> Nat] : \A i \in FreeSet : next_free[i] # -1 =>
            next_free[i] \in FreeSet /\ rank[next_free[i]] < rank[i]
      BY DEF Chain
    <2>6. \A i \in FreeSet' : next_free'[i] # -1 =>
            next_free'[i] \in FreeSet' /\ rank[next_free'[i]] < rank[i]
      BY Zenon, <2>2, <2>4, <2>5
    <2>7. \A i \in FreeSet' : i = free_head' \/ \E j \in FreeSet' : next_free'[j] = i
      BY Zenon, <2>1, <2>2, <2>4 DEF Chain
    <2>8. free_head' # -1 => free_head' \in FreeSet'
      BY Zenon, <2>1, <2>2 DEF Chain
    <2> QED
      BY Zenon, <2>3, <2>6, <2>7, <2>8 DEF Chain, Live
  <1>6. CASE ~Retired(s)
    <2>1. unlinked' = unlinked /\ free_head' = s /\ next_free' = [next_free EXCEPT ![s] = free_head]
      BY Zenon, <1>6 DEF TakeEntry, Retired
    <2>2. FreeSet' = FreeSet \cup {s}
      BY Zenon, <1>1, <1>2, <1>3, <2>1 DEF FreeSet, Live
    <2>3. \A i \in FreeSet : i \in Slot /\ i # s /\ next_free'[i] = next_free[i]
      BY Zenon, <1>1, <1>3, <2>1 DEF FreeSet, TableType
    <2>4. next_free'[s] = free_head
      BY Zenon, <1>1, <2>1 DEF TableType
    <2>5. PICK rank \in [Slot -> Nat] : \A i \in FreeSet : next_free[i] # -1 =>
            next_free[i] \in FreeSet /\ rank[next_free[i]] < rank[i]
      BY DEF Chain
    <2>6. PICK top \in Nat : free_head # -1 => rank[free_head] < top
      <3>1. CASE free_head = -1
        BY <3>1
      <3>2. CASE free_head # -1
        <4>1. rank[free_head] \in Nat
          BY <1>1, <2>5, <3>2 DEF TableType
        <4>2. rank[free_head] + 1 \in Nat /\ rank[free_head] < rank[free_head] + 1
          BY <4>1
        <4> QED
          BY Zenon, <4>2
      <3> QED
        BY Zenon, <3>1, <3>2
    <2>7. PICK rank2 \in [Slot -> Nat] : rank2 = [rank EXCEPT ![s] = top]
      BY Zenon, <2>5, <2>6
    <2>8. rank2[s] = top /\ \A i \in FreeSet : rank2[i] = rank[i]
      BY <2>3, <2>5, <2>7
    <2>9. free_head # -1 => free_head \in FreeSet
      BY DEF Chain
    <2>10. ASSUME NEW i \in FreeSet', next_free'[i] # -1
           PROVE  next_free'[i] \in FreeSet' /\ rank2[next_free'[i]] < rank2[i]
      <3>1. CASE i = s
        BY Zenon, <2>2, <2>4, <2>6, <2>8, <2>9, <2>10, <3>1
      <3>2. CASE i \in FreeSet
        BY Zenon, <2>2, <2>3, <2>5, <2>8, <2>10, <3>2
      <3> QED
        BY <2>2, <3>1, <3>2
    <2>11. \A i \in FreeSet' : i = free_head' \/ \E j \in FreeSet' : next_free'[j] = i
      <3>1. \A i \in FreeSet : i = free_head \/ \E j \in FreeSet : next_free[j] = i
        BY Zenon DEF Chain
      <3> QED
        BY Zenon, <2>1, <2>2, <2>3, <2>4, <3>1
    <2>12. free_head' # -1 => free_head' \in FreeSet'
      BY Zenon, <2>1, <2>2
    <2>13. unlinked' \subseteq {i \in Slot : i < size' /\ object'[i] = none}
      BY Zenon, <1>1, <1>4, <2>1
    <2> QED
      BY Zenon, <2>10, <2>11, <2>12, <2>13 DEF Chain, Live
  <1> QED
    BY Zenon, <1>5, <1>6

\* An entry clear() empties stays off the list until the list is rebuilt.
LEMMA ClearChain ==
    ASSUME Sane, TableInv, Chain, NEW t \in Thread, ClearEntry(t)
    PROVE  Chain'
  <1>1. PICK s \in Slot : /\ Live(s) /\ object' = [object EXCEPT ![s] = none]
                          /\ unlinked' = unlinked \cup {s}
    BY Zenon DEF ClearEntry, LiveFrom
  <1>2. UNCHANGED <<size, next_free, free_head>> /\ TableType /\ Links
    BY Zenon DEF ClearEntry, TableInv
  <1>3. \A i \in Slot : object'[i] = none <=> object[i] = none \/ i = s
    BY Zenon, <1>1, <1>2 DEF TableType
  <1>4. s < size /\ s \notin unlinked
    BY <1>1, <1>2, SlotFacts DEF Links, Chain, TableType
  <1>5. FreeSet' = FreeSet
    BY Zenon, <1>1, <1>2, <1>3, <1>4 DEF FreeSet, Live
  <1>6. \A i \in unlinked : i \in Slot /\ i < size /\ object'[i] = none
    BY Zenon, <1>3 DEF Chain, Live
  <1>7. unlinked' \subseteq {i \in Slot : i < size' /\ object'[i] = none}
    BY Zenon, <1>1, <1>2, <1>3, <1>4, <1>6
  <1> QED
    BY Zenon, <1>2, <1>5, <1>7, ChainKept

\* The rebuilt list links each slot to the next higher one.
LEMMA RebuildChain ==
    ASSUME Sane, TableInv, Chain, NEW t \in Thread, ClearRebuild(t)
    PROVE  Chain'
  <1> DEFINE low(n) == LowestFrom(Rebuilt, n)
  <1>1. /\ free_head' = low(0)
        /\ next_free' = [i \in Slot |-> IF i \in Rebuilt THEN low(i + 1) ELSE -1]
        /\ unlinked' = {i \in Slot : i < size /\ ~Live(i) /\ generation[i] = MAX_GENERATION}
        /\ UNCHANGED <<size, object, generation>>
    BY DEF ClearRebuild
  <1>2. Rebuilt \in SUBSET Slot /\ \A i \in Slot : i \in Int /\ i + 1 \in Int /\ i >= 0 /\ i < MaxSlots
    BY SlotFacts DEF Rebuilt
  <1>3. \A n \in Int : \/ low(n) = -1 /\ \A j \in Rebuilt : j < n
                       \/ low(n) \in Rebuilt /\ low(n) >= n /\ \A j \in Rebuilt : j >= n => low(n) <= j
    BY Zenon, <1>2, LowestIs
  <1> HIDE DEF low
  <1>4. FreeSet' = Rebuilt
    BY <1>1 DEF FreeSet, Rebuilt, Live
  <1>5. unlinked' \subseteq {i \in Slot : i < size' /\ object'[i] = none}
    BY <1>1 DEF Live
  <1>6. \A i \in Rebuilt : next_free'[i] = low(i + 1)
    BY <1>1, <1>2
  <1> DEFINE rank == [i \in Slot |-> MaxSlots - i]
  <1>7. rank \in [Slot -> Nat] /\ \A i, j \in Slot : i < j => rank[j] < rank[i]
    BY <1>2 DEF Sane
  <1> HIDE DEF rank
  <1>8. ASSUME NEW i \in Rebuilt, next_free'[i] # -1
        PROVE  next_free'[i] \in Rebuilt /\ rank[next_free'[i]] < rank[i]
    <2>1. next_free'[i] \in Rebuilt /\ next_free'[i] >= i + 1
      BY Zenon, <1>2, <1>3, <1>6, <1>8
    <2> QED
      BY <1>2, <1>7, <2>1
  <1>9. free_head' # -1 => free_head' \in Rebuilt
    BY <1>1, <1>3
  <1>10. ASSUME NEW i \in Rebuilt, i # free_head'
         PROVE  \E j \in Rebuilt : next_free'[j] = i
    <2> DEFINE below == {j \in Rebuilt : j < i}
               T == {MaxSlots - j : j \in below}
    <2>1. low(0) \in below
      BY <1>1, <1>2, <1>3, <1>10
    <2>2. T \in SUBSET Nat /\ T # {}
      BY <1>2, <2>1 DEF Sane
    <2>3. PICK m \in T : \A k \in T : m <= k
      BY Zenon, <2>2, Least
    <2>4. PICK j \in below : m = MaxSlots - j
      BY <2>3
    <2>5. ASSUME NEW k \in below
          PROVE  k <= j
      <3>1. MaxSlots - k \in T
        OBVIOUS
      <3>2. MaxSlots - j <= MaxSlots - k
        BY Zenon, <2>3, <2>4, <3>1
      <3> QED
        BY <1>2, <3>2 DEF Sane
    <2>6. low(j + 1) = i
      <3>1. j \in Int /\ i \in Int /\ j + 1 \in Int /\ i >= j + 1
        BY <1>2, <2>4
      <3>2. ~(i < j + 1)
        BY <3>1
      <3>3. PICK v \in Rebuilt : v = low(j + 1) /\ v >= j + 1 /\ v <= i
        BY Zenon, <1>3, <3>1, <3>2
      <3>4. v \in Int
        BY <1>2
      <3>5. ~(v < i)
        <4>1. SUFFICES ASSUME v < i
                       PROVE  FALSE
          OBVIOUS
        <4>2. v <= j
          BY <2>5, <4>1
        <4> QED
          BY <3>1, <3>3, <3>4, <4>2
      <3> QED
        BY <3>1, <3>3, <3>4, <3>5
    <2> QED
      BY Zenon, <1>6, <2>4, <2>6
  <1> QED
    BY Zenon, <1>4, <1>5, <1>7, <1>8, <1>9, <1>10 DEF Chain, Live

\* Every step of the table keeps the list.
LEMMA NextChain ==
    ASSUME Sane, IInv, Chain, [Next]_vars
    PROVE  Chain'
  <1>1. TableInv /\ TableType /\ CallType /\ CarriedInv
    BY DEF IInv, TableInv, CallInv
  <1>2. ASSUME UNCHANGED <<table, unlinked>>
        PROVE  Chain'
    <2>1. UNCHANGED <<size, object, next_free, free_head, unlinked>>
      BY Zenon, <1>2 DEF table
    <2>2. FreeSet' = FreeSet /\ unlinked' \subseteq {i \in Slot : i < size' /\ object'[i] = none}
      BY <2>1 DEF FreeSet, Live, Chain
    <2> QED
      BY <2>1, <2>2, ChainKept
  <1>3. ASSUME NEW o \in Object, NEW r, Create(o, r)
        PROVE  Chain'
    BY <1>1, <1>3, PopChain, GrowChain
  <1>4. ASSUME CreateOom
        PROVE  Chain'
    BY <1>1, <1>4, OomChain
  <1>5. ASSUME NEW t \in Thread, NEW id \in Id, TakeFor(t, id)
        PROVE  Chain'
    <2>1. id.index \in Slot /\ Live(id.index) /\ TakeEntry(id.index)
      BY <1>5 DEF TakeFor, Lookup, Id
    <2> QED
      BY Zenon, <1>1, <2>1, TakeChain
  <1>6. CASE UNCHANGED vars
    BY Zenon, <1>2, <1>6 DEF vars
  <1>7. ASSUME NEW t \in Thread, Step(t)
        PROVE  Chain'
    <2>1. ASSUME NEW o \in Object, NEW r \in SUBSET Right, Emplace(t, o, r)
          PROVE  Chain'
      BY <1>3, <1>4, <2>1 DEF Emplace
    <2>2. ASSUME NEW id \in Id, Take(t, id)
          PROVE  Chain'
      BY Zenon, <1>5, <2>2 DEF Take
    <2>3. ASSUME NEW id, NEW h, Dispatch(t, id, h)
          PROVE  Chain'
      BY Zenon, <1>2, <2>3 DEF Dispatch
    <2>4. CASE Drop(t) \/ ClearBegin(t) \/ ClearScanned(t)
      BY <1>2, <2>4 DEF Drop, ClearBegin, ClearScanned
    <2>5. CASE InsertMoved(t)
      <3>1. op[t].obj \in Object
        BY Zenon, <1>1, <2>5 DEF InsertMoved, At, CarriedInv
      <3> QED
        BY Zenon, <1>3, <1>4, <2>5, <3>1 DEF InsertMoved
    <2>6. CASE Close(t)
      <3>1. op[t].id \in Id
        BY Zenon, <1>1 DEF CallType
      <3> QED
        BY Zenon, <1>2, <1>5, <2>6, <3>1 DEF Close
    <2>7. ASSUME NEW mask, Duplicate(t, mask)
          PROVE  Chain'
      BY Zenon, <1>2, <2>7 DEF Duplicate
    <2>8. CASE DuplicateCreate(t)
      <3>1. op[t].obj \in Object
        BY Zenon, <1>1, <2>8 DEF DuplicateCreate, At, CarriedInv
      <3> QED
        BY Zenon, <1>3, <1>4, <2>8, <3>1 DEF DuplicateCreate
    <2>9. CASE ClearEntry(t)
      BY <1>1, <2>9, ClearChain
    <2>10. CASE ClearRebuild(t)
      BY Zenon, <1>1, <2>10, RebuildChain
    <2> QED
      BY Zenon, <1>7, <2>1, <2>2, <2>3, <2>4, <2>5, <2>6, <2>7, <2>8, <2>9, <2>10 DEF Step
  <1> QED
    BY <1>6, <1>7 DEF Next

\* The walk along the free list is what its recursive definition says: there is such a
\* function for every number of steps, or a least number for which there is none.
LEMMA WalkIs ==
    ASSUME Sane, TableType
    PROVE  /\ Walk[0] = free_head
           /\ \A n \in 1..MaxSlots : Walk[n] = IF Walk[n - 1] = -1 THEN -1 ELSE next_free[Walk[n - 1]]
  <1> DEFINE After(v) == IF v = -1 THEN -1 ELSE next_free[v]
             Walks(g, m) == g[0] = free_head /\ \A n \in 1..m : g[n] = After(g[n - 1])
             Bad == {m \in Nat : ~\E g \in [0..m -> Slot \cup {-1}] : Walks(g, m)}
  <1>1. \A v \in Slot \cup {-1} : After(v) \in Slot \cup {-1}
    BY SlotFacts DEF TableType
  <1> HIDE DEF After
  <1>2. 0 \notin Bad
    <2>1. [n \in 0..0 |-> free_head] \in [0..0 -> Slot \cup {-1}]
      BY DEF TableType
    <2>2. Walks([n \in 0..0 |-> free_head], 0)
      OBVIOUS
    <2> QED
      BY Zenon, <2>1, <2>2
  <1>3. ASSUME NEW m \in Nat, m \notin Bad
        PROVE  m + 1 \notin Bad
    <2>1. PICK g \in [0..m -> Slot \cup {-1}] : Walks(g, m)
      BY <1>3
    <2>2. PICK h : h = [n \in 0..(m + 1) |-> IF n = m + 1 THEN After(g[m]) ELSE g[n]]
      BY Zenon
    <2>3. h \in [0..(m + 1) -> Slot \cup {-1}]
      BY <1>1, <2>2
    <2>4. h[0] = free_head /\ h[m + 1] = After(h[m])
      BY <2>1, <2>2
    <2>5. \A n \in 1..m : h[n] = After(h[n - 1])
      BY <2>1, <2>2
    <2>6. Walks(h, m + 1)
      BY <2>4, <2>5
    <2> QED
      BY Zenon, <2>3, <2>6
  <1>4. Bad = {}
    <2> SUFFICES ASSUME Bad # {}
                 PROVE  FALSE
      OBVIOUS
    <2> HIDE DEF Bad
    <2>1. Bad \in SUBSET Nat
      BY DEF Bad
    <2>2. PICK m \in Bad : \A k \in Bad : m <= k
      BY <2>1, Least
    <2>3. m \in Nat /\ m # 0 /\ m - 1 \in Nat /\ m - 1 + 1 = m
      BY <1>2, <2>1
    <2>4. m - 1 \notin Bad
      BY <2>2, <2>3
    <2> QED
      BY Zenon, <1>3, <2>3, <2>4
  <1>5. PICK g \in [0..MaxSlots -> Slot \cup {-1}] : Walks(g, MaxSlots)
    BY Zenon, <1>4 DEF Sane
  <1> DEFINE Body(f) == [n \in 0..MaxSlots |-> IF n = 0 THEN free_head
                             ELSE IF f[n - 1] = -1 THEN -1 ELSE next_free[f[n - 1]]]
  <1>6. g = Body(g)
    <2>1. \A n \in 0..MaxSlots : n # 0 => n \in 1..MaxSlots
      BY DEF Sane
    <2>2. \A n \in 0..MaxSlots : g[n] = IF n = 0 THEN free_head
                             ELSE IF g[n - 1] = -1 THEN -1 ELSE next_free[g[n - 1]]
      BY <1>5, <2>1 DEF After
    <2> QED
      BY <2>2
  <1>7. Walk = CHOOSE f : f = Body(f)
    BY Zenon DEF Walk
  <1> HIDE DEF Body
  <1>8. Walk = Body(Walk)
    BY Zenon, <1>6, <1>7
  <1> QED
    BY <1>8 DEF Body, Sane

\* So the walk ends, and visits exactly the free slots. It stays among them; were it not
\* over after MaxSlots links it would visit a slot twice, though the rank decreases; and
\* were some free slots missed, each would have another one before it, hence, as they are
\* finitely many, another one after it, and the one of least rank could not exist.
LEMMA WalkExact ==
    ASSUME Sane, TableType, Links, Chain
    PROVE  FreeListExact
  <1> DEFINE W == Walk
             Visited == {W[n] : n \in 0..MaxSlots} \ {-1}
  <1>1. MaxSlots \in Nat /\ MaxSlots # 0 /\ FreeSet \subseteq Slot /\ -1 \notin FreeSet
    BY SlotFacts DEF Sane, FreeSet
  <1>2. PICK rank \in [Slot -> Nat] : \A i \in FreeSet : next_free[i] # -1 =>
            next_free[i] \in FreeSet /\ rank[next_free[i]] < rank[i]
    BY DEF Chain
  <1>3. W[0] = free_head /\ \A n \in 1..MaxSlots : W[n] = IF W[n - 1] = -1 THEN -1 ELSE next_free[W[n - 1]]
    BY Zenon, WalkIs
  <1> HIDE DEF W
  <1>4. \A n \in 0..MaxSlots : W[n] \in FreeSet \cup {-1}
    <2> DEFINE Bad == {n \in 0..MaxSlots : W[n] \notin FreeSet \cup {-1}}
    <2> SUFFICES ASSUME Bad # {}
                 PROVE  FALSE
      OBVIOUS
    <2>1. PICK m \in Bad : \A k \in Bad : m <= k
      <3>1. Bad \in SUBSET Nat
        BY <1>1
      <3> QED
        BY Zenon, <3>1, Least
    <2>2. m # 0
      BY <1>3, <2>1 DEF Chain
    <2>3. m \in 1..MaxSlots /\ m - 1 \in 0..MaxSlots /\ m - 1 < m
      BY <1>1, <2>1, <2>2
    <2>4. W[m - 1] \in FreeSet \cup {-1}
      BY <1>1, <2>1, <2>3
    <2>5. W[m] \in FreeSet \cup {-1}
      BY Zenon, <1>2, <1>3, <2>3, <2>4
    <2> QED
      BY <2>1, <2>5
  <1>5. ASSUME NEW n \in 0..MaxSlots, NEW m \in 0..MaxSlots, n < m, W[m] # -1
        PROVE  W[n] # -1 /\ rank[W[m]] < rank[W[n]]
    <2> DEFINE Holds2(k) == W[k] # -1 => W[n] # -1 /\ rank[W[k]] < rank[W[n]]
               Bad == {k \in 0..MaxSlots : n < k /\ ~Holds2(k)}
    <2> SUFFICES Bad = {}
      BY <1>5
    <2> SUFFICES ASSUME Bad # {}
                 PROVE  FALSE
      OBVIOUS
    <2>1. PICK k \in Bad : \A j \in Bad : k <= j
      <3>1. Bad \in SUBSET Nat
        BY <1>1
      <3> QED
        BY Zenon, <3>1, Least
    <2>2. k \in 1..MaxSlots /\ k - 1 \in 0..MaxSlots /\ k - 1 < k /\ n <= k - 1
      BY <1>1, <2>1
    <2>3. W[k] # -1 /\ W[k - 1] # -1 /\ W[k] = next_free[W[k - 1]]
      BY Zenon, <1>3, <2>1, <2>2
    <2>4. W[k - 1] \in FreeSet
      BY Zenon, <1>4, <2>2, <2>3
    <2>5. rank[W[k]] < rank[W[k - 1]]
      BY Zenon, <1>2, <2>3, <2>4
    <2>6. CASE n = k - 1
      BY Zenon, <2>1, <2>3, <2>5, <2>6
    <2>7. CASE n < k - 1
      <3>1. k - 1 \notin Bad
        BY <1>1, <2>1, <2>2
      <3>2. W[n] # -1 /\ rank[W[k - 1]] < rank[W[n]]
        BY Zenon, <2>2, <2>3, <2>7, <3>1
      <3>3. W[n] \in Slot /\ W[k] \in Slot /\ W[k - 1] \in Slot
        BY Zenon, <1>1, <1>4, <2>1, <2>3, <2>4, <3>2
      <3>4. rank[W[k]] < rank[W[n]]
        BY <1>2, <2>5, <3>2, <3>3
      <3> QED
        BY Zenon, <2>1, <3>2, <3>4
    <2> QED
      BY <1>1, <2>2, <2>6, <2>7
  <1>6. W[MaxSlots] = -1
    <2> SUFFICES ASSUME W[MaxSlots] # -1
                 PROVE  FALSE
      OBVIOUS
    <2>1. \A n \in 0..MaxSlots : W[n] \in Slot
      <3>1. MaxSlots \in 0..MaxSlots
        BY <1>1
      <3>2. \A n \in 0..MaxSlots : n < MaxSlots \/ n = MaxSlots
        BY <1>1
      <3>3. \A n \in 0..MaxSlots : W[n] # -1
        BY Zenon, <1>5, <3>1, <3>2
      <3> QED
        BY <1>1, <1>4, <3>3
    <2> DEFINE f == [n \in 0..MaxSlots |-> W[n]]
    <2>2. f \in [0..MaxSlots -> Slot]
      BY <2>1
    <2>3. /\ IsFiniteSet(0..MaxSlots) /\ Cardinality(0..MaxSlots) = MaxSlots + 1
          /\ IsFiniteSet(Slot) /\ Cardinality(Slot) = MaxSlots
      BY <1>1, FS_Interval DEF Slot
    <2>4. Cardinality(Slot) < Cardinality(0..MaxSlots)
      BY <1>1, <2>3
    <2>5. PICK x, y \in 0..MaxSlots : x # y /\ f[x] = f[y]
      <3>1. PICK N : N = 0..MaxSlots
        OBVIOUS
      <3>2. f \in [N -> Slot] /\ IsFiniteSet(N) /\ IsFiniteSet(Slot) /\ Cardinality(Slot) < Cardinality(N)
        BY Zenon, <2>2, <2>3, <2>4, <3>1
      <3> HIDE DEF f
      <3>3. \E x, y \in N : x # y /\ f[x] = f[y]
        BY ONLY Zenon, <3>2, FS_PigeonHole
      <3> QED
        BY <3>1, <3>3
    <2>6. W[x] = W[y] /\ W[x] # -1 /\ W[y] # -1 /\ rank[W[x]] \in Nat
      BY Zenon, <1>2, <2>1, <2>5, SlotFacts
    <2>7. ~(x < y) /\ ~(y < x)
      BY <1>5, <2>6
    <2> QED
      BY <1>1, <2>5, <2>7
  <1>7. Visited \subseteq FreeSet
    BY Zenon, <1>4
  <1>8. ASSUME NEW j \in Visited, next_free[j] # -1
        PROVE  next_free[j] \in Visited
    <2>1. PICK n \in 0..MaxSlots : j = W[n] /\ j # -1
      BY <1>8
    <2>2. n # MaxSlots
      BY <1>6, <2>1
    <2>3. n + 1 \in 1..MaxSlots /\ n + 1 \in 0..MaxSlots /\ n + 1 - 1 = n
      BY <1>1, <2>2
    <2>4. W[n + 1] = next_free[j]
      BY <1>3, <2>1, <2>3
    <2> QED
      BY Zenon, <1>8, <2>3, <2>4
  <1>9. free_head # -1 => free_head \in Visited
    BY <1>1, <1>3
  <1> DEFINE Missed == FreeSet \ Visited
  <1>10. \A i \in Missed : \E j \in Missed : next_free[j] = i
    <2> SUFFICES ASSUME NEW i \in Missed
                 PROVE  \E j \in Missed : next_free[j] = i
      OBVIOUS
    <2>1. i # free_head /\ i # -1
      BY Zenon, <1>1, <1>9
    <2>2. PICK j \in FreeSet : next_free[j] = i
      BY Zenon, <2>1 DEF Chain
    <2>3. j \notin Visited
      BY <1>8, <2>1, <2>2
    <2> QED
      BY Zenon, <2>2, <2>3
  <1> HIDE DEF Visited
  <1>11. \A j \in Missed : next_free[j] \in Missed
    <2> DEFINE before == [i \in Missed |-> CHOOSE j \in Missed : next_free[j] = i]
    <2>1. \A i \in Missed : before[i] \in Missed /\ next_free[before[i]] = i
      BY Zenon, <1>10
    <2>2. before \in [Missed -> Missed]
      BY Zenon, <2>1
    <2>3. \A a, c \in Missed : before[a] = before[c] => a = c
      BY Zenon, <2>1
    <2>4. DOMAIN before = Missed
      OBVIOUS
    <2> HIDE DEF before
    <2>5. before \in Injection(Missed, Missed)
      BY Zenon, <2>2, <2>3, <2>4 DEF Injection, IsInjective
    <2>6. IsFiniteSet(Missed)
      <3>1. Missed \subseteq Slot
        BY <1>1
      <3> QED
        BY <3>1, SlotFacts, FS_Subset
    <2>7. before \in Surjection(Missed, Missed)
      BY <2>5, <2>6, FS_Injection
    <2>8. \A j \in Missed : \E i \in Missed : before[i] = j
      BY Zenon, <2>7 DEF Surjection
    <2> QED
      BY Zenon, <2>1, <2>8
  <1>12. Missed = {}
    <2> DEFINE T == {rank[i] : i \in Missed}
    <2> SUFFICES ASSUME Missed # {}
                 PROVE  FALSE
      OBVIOUS
    <2>1. T \in SUBSET Nat /\ T # {}
      BY Zenon, <1>1, <1>2
    <2>2. PICK m \in T : \A k \in T : m <= k
      BY Zenon, <2>1, Least
    <2>3. PICK i \in Missed : m = rank[i]
      BY <2>2
    <2>4. next_free[i] \in Missed /\ next_free[i] # -1
      BY <1>1, <1>11
    <2>5. rank[next_free[i]] < rank[i]
      BY <1>2, <2>4
    <2>6. rank[i] <= rank[next_free[i]]
      BY Zenon, <2>2, <2>3, <2>4
    <2>7. rank[i] \in Nat /\ rank[next_free[i]] \in Nat
      BY <1>1, <1>2, <2>4
    <2> QED
      BY <2>5, <2>6, <2>7
  <1>13. Visited = FreeSet
    BY Zenon, <1>7, <1>12
  <1> QED
    BY Zenon, <1>6, <1>13 DEF FreeListExact, FreeSet, Visited, W

\* MoveOnly counts the holders that OneHolder compares.
LEMMA OneHolderCounts ==
    ASSUME Sane, TableType, OneHolder
    PROVE  MoveOnly
  <1> SUFFICES ASSUME NEW o \in Object, DUPLICATE \notin granted[o]
               PROVE  Cardinality(Named(o)) + Cardinality({t \in Thread : op[t].obj = o
                                               /\ op[t].pc \in {"moved", "create"}}) <= 1
    BY Zenon DEF MoveOnly
  <1> DEFINE H == {t \in Thread : op[t].obj = o /\ op[t].pc \in {"moved", "create"}}
  <1>1. \A t \in Thread : t \in H <=> Holds(t, o)
    BY Zenon DEF Holds
  <1>2. \A i, j \in Named(o) : i = j
    BY Zenon DEF OneHolder, Named
  <1>3. \A t, u \in H : t = u
    BY Zenon, <1>1 DEF OneHolder
  <1>4. Named(o) = {} \/ H = {}
    BY <1>1 DEF OneHolder, Named
  <1>5. ASSUME NEW S, \A x, y \in S : x = y
        PROVE  Cardinality(S) \in {0, 1}
    <2>1. CASE S = {}
      BY Zenon, <2>1, FS_EmptySet
    <2>2. CASE S # {}
      <3>1. PICK x \in S : S = {x}
        BY Zenon, <1>5, <2>2
      <3> QED
        BY <3>1, FS_Singleton
    <2> QED
      BY Zenon, <2>1, <2>2
  <1>6. Cardinality({}) = 0
    BY Zenon, FS_EmptySet
  <1> HIDE DEF H
  <1>7. Cardinality(H) \in {0, 1} /\ Cardinality(Named(o)) \in {0, 1}
    BY Zenon, <1>2, <1>3, <1>5
  <1>8. Cardinality(H) = 0 \/ Cardinality(Named(o)) = 0
    BY Zenon, <1>4, <1>6
  <1>9. Cardinality(Named(o)) + Cardinality(H) <= 1
    BY <1>7, <1>8
  <1> QED
    BY Zenon, <1>9 DEF H

\* An id is outlived only if it is not found.
LEMMA OutlivedDead ==
    ASSUME Sane, TableType, closed \in SUBSET Id, Outlived
    PROVE  StaleStaysDead
  BY DEF Sane, TableType, Id, Outlived, Buried, Lookup, StaleStaysDead

\* For any threads, objects, rights, growth batch, generation limit and capacity: an id that
\* was closed, taken or cleared names nothing again; rights only narrow; what cannot be
\* duplicated has one holder; the free list holds every dead slot that may be reused and
\* ends; and m_count is right, in the middle of a clear() or a failed growth too.
THEOREM HandlesSound ==
    ASSUME Sane
    PROVE  Spec => []HandlesTrue
  <1>1. Init => IInv /\ Chain
    <2> SUFFICES ASSUME Init
                 PROVE  IInv /\ Chain
      OBVIOUS
    <2>1. FreeSet = {} /\ unlinked = {} /\ free_head = -1
      BY SlotFacts DEF Init, FreeSet
    <2>2. [i \in Slot |-> 0] \in [Slot -> Nat]
      OBVIOUS
    <2>3. Chain
      BY Zenon, <2>1, <2>2 DEF Chain
    <2> QED
      BY <2>3, InitInv
  <1>2. IInv /\ Chain /\ [Next]_vars => (IInv /\ Chain)'
    BY NextInv, NextChain
  <1>3. IInv /\ Chain => HandlesTrue
    <2> SUFFICES ASSUME IInv, Chain
                 PROVE  HandlesTrue
      OBVIOUS
    <2>1. /\ TableType /\ Links /\ Outlived /\ CountExact /\ NoEscalation /\ OneHolder
          /\ closed \in SUBSET Id
      BY DEF IInv, TableInv, CallInv, CallType
    <2> QED
      BY <2>1, OutlivedDead, OneHolderCounts, WalkExact DEF HandlesTrue
  <1> QED
    BY <1>1, <1>2, <1>3, PTL DEF Spec
=============================================================================
