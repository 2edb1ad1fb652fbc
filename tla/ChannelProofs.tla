--------------------------- MODULE ChannelProofs ---------------------------
(***************************************************************************)
(* A channel pair implements the bounded FIFO of ChannelFifo, and its      *)
(* endpoints live exactly as long as something refers to them, for any     *)
(* threads, handles, bodies and queue depth.  The refinement needs to know *)
(* that a call in flight keeps its endpoint open, so both rest on          *)
(* References: who refers to an endpoint, and that its destructor runs     *)
(* when nobody does.                                                       *)
(***************************************************************************)
EXTENDS Channel, SequenceTheorems, FiniteSetTheorems, TLAPS

Inv == TypeOK /\ References

\* The parts of the type invariant, as a step has to establish them.
Places == [Handle -> {"unborn", "table", "escrow", "gone"}]
Records == [pc : Points, side : Side, refs : SUBSET Side,
            msg : Message \cup {NoMessage}, full : BOOLEAN, dying : SUBSET Side]
PairTyped ==
    /\ slots \in [Side -> [0..(QUEUE_DEPTH - 1) -> Message \cup {NoMessage}]]
    /\ head \in [Side -> 0..(QUEUE_DEPTH - 1)]
    /\ count \in [Side -> 0..QUEUE_DEPTH]
    /\ sig \in [Side -> SUBSET {"READABLE", "WRITABLE", "PEER_CLOSED"}]
    /\ lock \in Thread \cup {none}

\* The type invariant, one piece of the state at a time.
LEMMA Typed ==
  TypeOK <=> ends \in [Side -> BOOLEAN] /\ PairTyped /\ place \in Places /\ th \in [Thread -> Records]
BY DEF TypeOK, PairTyped, Places, Records

\* No queued message names an endpoint of the pair.
Foreign == \A s \in Side, i \in 0..(QUEUE_DEPTH - 1) : slots[s][i].cargo \notin Side

\* An endpoint that exists is referred to.
Held(s) == \/ place[s] \in {"table", "escrow"}
           \/ \E t \in Thread : s \in th[t].refs \cup th[t].dying

\* The invariant on references, one thread at a time.
LEMMA Parts ==
  References <=> /\ place[0] = "unborn" => \A s \in Side : place[s] = "unborn" /\ ~ends[s] /\ count[s] = 0
                 /\ \A s \in Side : place[s] \in {"table", "escrow"} => ends[s]
                 /\ \A s \in Side : ends[s] => Held(s)
                 /\ Foreign
                 /\ \A t \in Thread : Refers(t)
BY DEF References, Held, Foreign

\* The two endpoints are handles, and each is the other's peer.
LEMMA Sides == 0 \in Side /\ 1 \in Side /\ Side \subseteq Handle /\ \A s \in Side : Peer(s) \in Side /\ Peer(s) # s
BY DEF Side, Handle, Peer

\* What the invariant says of one thread.
LEMMA OfThread ==
  ASSUME Inv, NEW t \in Thread
  PROVE  /\ Refers(t) /\ th[t] \in Records /\ th[t].side \in Side
         /\ th[t].refs \subseteq Side /\ th[t].dying \subseteq Side
<1>1. th \in [Thread -> Records] /\ Refers(t)
  BY Typed, Parts DEF Inv
<1> QED BY <1>1 DEF Records

----------------------------------------------------------------------------
(* What a step of thread t owes to the others.                             *)

\* What a step of one thread must leave alone for another thread's references to stay good.
LEMMA Others ==
  ASSUME Inv, NEW t \in Thread, NEW u \in Thread, u # t, th'[u] = th[u],
         \A s \in Side : place[s] # "unborn" => place'[s] # "unborn",
         th[u].pc = "second" => place'[1] = "unborn" /\ \A w \in Thread \ {u} : th'[w].pc # "second",
         th[u].pc \in {"pushed", "popped", "hangup"} => lock' = lock,
         \A s \in Side : ends[s] => \/ ends'[s]
                                    \/ s \notin th[u].refs /\ s \notin th[u].dying /\ th[u].pc # "hangup",
         \A s \in th[u].dying : /\ place'[s] = "gone"
                                /\ \A w \in Thread \ {u} : s \notin th'[w].refs /\ s \notin th'[w].dying
  PROVE  Refers(u)'
<1>1. /\ Refers(u) /\ th[u].side \in Side /\ Peer(th[u].side) \in Side
      /\ \A s \in th[u].refs : s \in Side
      /\ \A s \in th[u].dying : s \in Side
  BY OfThread, Sides
<1>2. \A s \in th[u].refs : ends'[s]
  BY <1>1 DEF Refers
<1>3. \A s \in th[u].dying : ends'[s]
  BY <1>1 DEF Refers
<1> QED BY <1>1, <1>2, <1>3, Sides DEF Refers

\* Idle is a record, holds nothing and is in no call.
LEMMA IdleFields ==
  /\ Idle.pc = "idle" /\ Idle.refs = {} /\ Idle.dying = {} /\ Idle.side = 0 /\ Idle \in Records
  /\ "idle" \notin InCall /\ "dtor" \notin InCall /\ "hangup" \notin InCall /\ "second" \notin InCall
BY DEF Idle, Points, Side, Records, InCall

\* The invariant holds before sys_channel_create.
LEMMA InitInv == Init => Inv
<1> SUFFICES ASSUME Init PROVE Inv
  OBVIOUS
<1>1. NoMessage.cargo \notin Side /\ 0 \in 0..(QUEUE_DEPTH - 1) /\ 0 \in 0..QUEUE_DEPTH
  BY ChannelAssumption DEF NoMessage
<1>2. PairTyped
  BY <1>1, ChannelAssumption DEF Init, PairTyped
<1>3. TypeOK
  BY <1>2, IdleFields, Typed DEF Init, Places
<1>4. \A t \in Thread : Refers(t)
  BY IdleFields DEF Init, Refers
<1>5. Foreign
  BY <1>1 DEF Init, Foreign
<1>6. place[0] = "unborn" /\ \A s \in Side : place[s] = "unborn" /\ ~ends[s] /\ count[s] = 0
  BY Sides DEF Init
<1> QED BY <1>3, <1>4, <1>5, <1>6, Parts DEF Inv

----------------------------------------------------------------------------
(* A call goes on, or ends.                                                *)

\* Only t may change what the lock says while another thread is inside it.
LockKept(t) == \A u \in Thread \ {t} : th[u].pc \in {"pushed", "popped", "hangup"} => lock' = lock

\* The end of a system call keeps the invariant, however the handles are placed then.
LEMMA ReturnInv ==
  ASSUME Inv, NEW t \in Thread, NEW where \in Places, Return(t, where),
         ends' = ends, slots' = slots, count' = count, PairTyped', LockKept(t),
         \A s \in Side : /\ place[s] = "gone" => where[s] = "gone"
                         /\ where[s] \in {"table", "escrow"} => ends[s]
                         /\ where[s] = "unborn" => place[s] = "unborn"
                         /\ place[s] = "unborn" => where[s] = "unborn" \/ th[t].pc = "second",
         th[t].pc = "second" => where[1] # "unborn"
  PROVE  Inv'
<1> DEFINE D == Dying(t, where)
<1>1. /\ place' = where
      /\ th' = [th EXCEPT ![t] = IF D = {} THEN Idle ELSE [Idle EXCEPT !.pc = "dtor", !.dying = D]]
  BY DEF Return
<1>2. /\ D \subseteq Side
      /\ \A s \in Side : s \in D <=> /\ ends[s] /\ where[s] = "gone"
                                     /\ \A u \in Thread \ {t} : s \notin th[u].refs \cup th[u].dying
  BY DEF Dying
<1> HIDE DEF D
<1>3. th \in [Thread -> Records]
  BY Typed DEF Inv
<1>4. [Idle EXCEPT !.pc = "dtor", !.dying = D] \in Records
  BY Zenon, <1>2 DEF Idle, Records, Points, Side
<1>5. /\ \A u \in Thread : u # t => th'[u] = th[u]
      /\ th'[t].refs = {} /\ th'[t].dying = D
      /\ th'[t].pc = IF D = {} THEN "idle" ELSE "dtor"
  BY <1>1, <1>3, IdleFields DEF Idle
<1>6. TypeOK'
  <2>1. th' \in [Thread -> Records]
    BY <1>1, <1>3, <1>4, IdleFields
  <2>2. ends' \in [Side -> BOOLEAN]
    BY Typed DEF Inv
  <2>3. TypeOK' <=> ends' \in [Side -> BOOLEAN] /\ PairTyped' /\ place' \in Places' /\ th' \in [Thread -> Records']
    BY DEF TypeOK, PairTyped, Places, Records
  <2>4. Places' = Places /\ Records' = Records
    BY DEF Places, Records
  <2> QED BY <1>1, <2>1, <2>2, <2>3, <2>4
<1>7. ASSUME NEW u \in Thread, u # t PROVE Refers(u)'
  <2>1. Refers(u) /\ Refers(t) /\ \A s \in th[u].dying : s \in Side
    BY OfThread
  <2>2. th[u].pc = "second" => place'[1] = "unborn" /\ \A w \in Thread \ {u} : th'[w].pc # "second"
    BY <2>1, <1>1, <1>5, <1>7, Sides DEF Refers
  <2>3. \A s \in th[u].dying : /\ place'[s] = "gone"
                               /\ \A w \in Thread \ {u} : s \notin th'[w].refs /\ s \notin th'[w].dying
    BY <2>1, <1>1, <1>2, <1>5, <1>7 DEF Refers
  <2>4. \A s \in Side : place[s] # "unborn" => place'[s] # "unborn"
    BY <1>1
  <2> QED BY <1>5, <1>7, <2>2, <2>3, <2>4, Others DEF LockKept
<1>8. place[0] = "unborn" => \A s \in Side : place[s] = "unborn" /\ ~ends[s] /\ count[s] = 0
  BY Parts DEF Inv
<1>9. Refers(t) /\ (th[t].pc = "second" => place[0] # "unborn")
  BY OfThread DEF Refers
<1>10. place'[0] = "unborn" => \A s \in Side : place'[s] = "unborn" /\ ~ends'[s] /\ count'[s] = 0
  BY <1>1, <1>8, <1>9, Sides
<1>11. Refers(t)'
  <2>1. D # {} => place'[0] # "unborn"
    BY <1>2, <1>10
  <2>2. \A s \in D : ends'[s] /\ place'[s] = "gone" /\ \A u \in Thread \ {t} : s \notin th'[u].refs /\ s \notin th'[u].dying
    BY <1>1, <1>2, <1>5
  <2> QED BY <2>1, <2>2, <1>5, IdleFields DEF Refers
<1>12. ASSUME NEW s \in Side, ends'[s] PROVE Held(s)'
  <2>1. CASE where[s] \in {"table", "escrow"}
    BY <2>1, <1>1 DEF Held
  <2>2. CASE where[s] = "gone"
    BY <2>2, <1>2, <1>5, <1>12 DEF Held
  <2>3. CASE where[s] = "unborn"
    <3>1. PICK u \in Thread : s \in th[u].refs \cup th[u].dying
      BY <2>3, <1>12, Parts DEF Inv, Held
    <3>2. s \notin th[u].dying
      BY <2>3, OfThread DEF Refers
    <3>3. u # t
      BY <3>1, <3>2, <1>9, <2>3, Sides DEF Refers, Side
    <3> QED BY <3>1, <3>3, <1>5 DEF Held
  <2> QED BY <2>1, <2>2, <2>3, Sides DEF Places
<1>13. Foreign'
  BY Parts DEF Inv, Foreign
<1>14. \A s \in Side : place'[s] \in {"table", "escrow"} => ends'[s]
  BY <1>1
<1>15. References'
  BY <1>7, <1>10, <1>11, <1>12, <1>13, <1>14 DEF References, Held, Foreign
<1> QED BY <1>6, <1>15 DEF Inv

\* A thread enters a call, or goes on inside it.
LEMMA CallInv ==
  ASSUME Inv, NEW t \in Thread, ends' = ends, PairTyped', Foreign', LockKept(t), place' \in Places,
         \A s \in Side : place'[s] = place[s] \/ (place[s] = "table" /\ place'[s] = "escrow"),
         NEW n \in Records, th' = [th EXCEPT ![t] = n],
         th[t].pc = "idle" \/ (th[t].pc \in InCall /\ n.side = th[t].side),
         n.pc \in InCall, n.refs = {n.side}, n.dying = {},
         ends[n.side], place[n.side] # "unborn", \A u \in Thread : n.side \notin th[u].dying,
         n.pc \in {"check", "take", "write"} => n.msg \in Message,
         n.pc = "write" /\ n.msg.cargo \in Side => place[n.msg.cargo] # "unborn",
         n.pc \in {"popped", "deliver"} => n.msg.cargo \notin Side,
         n.pc \in {"pushed", "popped"} => lock' = t
  PROVE  Inv'
<1>1. th'[t] = n /\ \A u \in Thread : u # t => th'[u] = th[u]
  BY Typed DEF Inv
<1>2. TypeOK'
  <2>1. th' \in [Thread -> Records] /\ ends' \in [Side -> BOOLEAN]
    BY Typed DEF Inv
  <2>2. TypeOK' <=> ends' \in [Side -> BOOLEAN] /\ PairTyped' /\ place' \in Places' /\ th' \in [Thread -> Records']
    BY DEF TypeOK, PairTyped, Places, Records
  <2>3. Places' = Places /\ Records' = Records
    BY DEF Places, Records
  <2> QED BY <2>1, <2>2, <2>3
<1>3. n.side \in Side
  BY DEF Records
<1>4. \A s \in Side : /\ place'[s] = "unborn" <=> place[s] = "unborn"
                      /\ place'[s] = "gone" <=> place[s] = "gone"
                      /\ place'[s] \in {"table", "escrow"} <=> place[s] \in {"table", "escrow"}
  OBVIOUS
<1>5. ASSUME NEW u \in Thread, u # t PROVE Refers(u)'
  <2>1. Refers(u) /\ \A s \in th[u].dying : s \in Side
    BY OfThread
  <2>2. n.pc # "second"
    BY IdleFields
  <2>3. th[u].pc = "second" => place'[1] = "unborn" /\ \A w \in Thread \ {u} : th'[w].pc # "second"
    BY <2>1, <2>2, <1>1, <1>4, Sides DEF Refers
  <2>4. \A s \in th[u].dying : /\ place'[s] = "gone"
                               /\ \A w \in Thread \ {u} : s \notin th'[w].refs /\ s \notin th'[w].dying
    BY <2>1, <1>1, <1>4 DEF Refers
  <2> QED BY <1>1, <1>4, <1>5, <2>3, <2>4, Others DEF LockKept
<1>6. place[0] # "unborn"
  BY <1>3, Parts DEF Inv
<1>7. Refers(t)'
  <2>1. place'[0] # "unborn" /\ place'[n.side] # "unborn"
    BY <1>3, <1>4, <1>6, Sides
  <2>2. n.pc = "write" /\ n.msg.cargo \in Side => place'[n.msg.cargo] # "unborn"
    BY <1>4
  <2> QED BY <1>1, <2>1, <2>2, IdleFields DEF Refers
<1>8. \A s \in Side : place'[s] \in {"table", "escrow"} => ends'[s]
  BY <1>4, Parts DEF Inv
<1>9. ASSUME NEW s \in Side, ends'[s] PROVE Held(s)'
  <2>1. Held(s) /\ Refers(t)
    BY <1>9, Parts DEF Inv
  <2>2. s \in th[t].refs \cup th[t].dying => s = n.side
    BY <2>1, IdleFields DEF Refers
  <2> QED BY <2>1, <2>2, <1>1, <1>4 DEF Held
<1>10. References'
  BY <1>4, <1>5, <1>6, <1>7, <1>8, <1>9, Sides DEF References, Held, Foreign
<1> QED BY <1>2, <1>10 DEF Inv

\* The call the thread is in keeps its endpoint from every destructor.
LEMMA InCallFacts ==
  ASSUME Inv, NEW t \in Thread, th[t].pc \in InCall
  PROVE  /\ th[t].side \in Side /\ th[t].refs = {th[t].side} /\ th[t].dying = {}
         /\ ends[th[t].side] /\ place[th[t].side] # "unborn"
         /\ \A u \in Thread : th[t].side \notin th[u].dying
<1>1. Refers(t) /\ th[t].side \in Side /\ \A u \in Thread : Refers(u)
  BY OfThread
<1>2. th[t].pc \notin {"dtor", "hangup"}
  BY IdleFields
<1> QED BY <1>1, <1>2 DEF Refers

\* A step that leaves the pair alone.
LEMMA PairAlone ==
  ASSUME Inv, NEW t \in Thread, UNCHANGED pair
  PROVE  ends' = ends /\ slots' = slots /\ count' = count /\ PairTyped' /\ Foreign' /\ LockKept(t)
<1>1. PairTyped /\ Foreign
  BY Typed, Parts DEF Inv
<1> QED BY <1>1 DEF pair, PairTyped, Foreign, LockKept

\* A thread inside the lock lets go of it, or one outside takes it, and no other is inside.
LEMMA LockAlone ==
  ASSUME Inv, NEW t \in Thread, lock = none \/ th[t].pc \in {"pushed", "popped", "hangup"}
  PROVE  LockKept(t)
<1>1. \A u \in Thread : th[u].pc \in {"pushed", "popped", "hangup"} => lock = u
  BY OfThread DEF Refers
<1> QED BY <1>1, ChannelAssumption DEF LockKept

\* A call that returns with the handles as they are, or with some of them closed.
LEMMA ReturnClosed ==
  ASSUME Inv, NEW t \in Thread, NEW lost, Return(t, Closed(lost)), th[t].pc # "second",
         \A s \in lost \cap Side : place[s] # "unborn",
         ends' = ends, slots' = slots, count' = count, PairTyped', LockKept(t)
  PROVE  Inv'
<1>1. /\ Closed(lost) \in Places
      /\ \A s \in Side : Closed(lost)[s] = IF s \in lost THEN "gone" ELSE place[s]
  BY Typed, Sides DEF Inv, Closed, Places
<1>2. \A s \in Side : place[s] \in {"table", "escrow"} => ends[s]
  BY Parts DEF Inv
<1> QED BY <1>1, <1>2, ReturnInv

\* A call that returns without moving a handle keeps the invariant.
LEMMA ReturnPlace ==
  ASSUME Inv, NEW t \in Thread, Return(t, place), th[t].pc # "second",
         ends' = ends, slots' = slots, count' = count, PairTyped', LockKept(t)
  PROVE  Inv'
<1>1. place \in Places /\ \A s \in Side : place[s] \in {"table", "escrow"} => ends[s]
  BY Typed, Parts DEF Inv
<1> QED BY <1>1, ReturnInv

----------------------------------------------------------------------------
(* Every action.                                                           *)

\* sys_channel_create keeps the invariant, the failed first insert included.
LEMMA CreateInv ==
  ASSUME Inv, NEW t \in Thread, Create(t)
  PROVE  Inv'
<1>1. /\ \A s \in Side : place[s] = "unborn" /\ ~ends[s] /\ count[s] = 0 /\ ends'[s]
      /\ PairTyped' /\ Foreign' /\ ends' \in [Side -> BOOLEAN] /\ LockKept(t)
  <2>1. PairTyped /\ Foreign /\ (place[0] = "unborn" => \A s \in Side : ~ends[s] /\ count[s] = 0)
    BY Typed, Parts DEF Inv
  <2> QED BY <2>1, Sides DEF Create, PairTyped, Foreign, LockKept
<1>2. \A u \in Thread : th[u].pc = "idle" /\ th[u].refs = {} /\ th[u].dying = {}
  BY <1>1, OfThread, Sides, IdleFields DEF Refers
<1>3. th \in [Thread -> Records] /\ place \in Places
  BY Typed DEF Inv
<1>4. ASSUME NEW n \in Records, th' = [th EXCEPT ![t] = n], place' \in Places, place'[0] # "unborn",
             Refers(t)', \A s \in Side : Held(s)',
             \A s \in Side : place'[s] = "unborn" => s = 1 /\ n.pc = "second"
      PROVE  Inv'
  <2>1. th' \in [Thread -> Records] /\ th'[t] = n /\ \A u \in Thread : u # t => th'[u] = th[u]
    BY <1>3, <1>4
  <2>2. TypeOK' <=> ends' \in [Side -> BOOLEAN] /\ PairTyped' /\ place' \in Places' /\ th' \in [Thread -> Records']
    BY DEF TypeOK, PairTyped, Places, Records
  <2>3. Places' = Places /\ Records' = Records
    BY DEF Places, Records
  <2>4. TypeOK'
    BY <1>1, <1>4, <2>1, <2>2, <2>3
  <2>5. ASSUME NEW u \in Thread, u # t PROVE Refers(u)'
    BY <1>1, <1>2, <2>1, <2>5, Others DEF LockKept
  <2>6. References'
    BY <1>1, <1>4, <2>5 DEF References, Held, Foreign
  <2> QED BY <2>4, <2>6 DEF Inv
<1>5. CASE /\ place' = [place EXCEPT ![0] = "table"]
           /\ th' = [th EXCEPT ![t] = [Idle EXCEPT !.pc = "second", !.refs = Side]]
  <2> DEFINE n == [Idle EXCEPT !.pc = "second", !.refs = Side]
  <2>1. n \in Records /\ n.pc = "second" /\ n.refs = Side /\ n.dying = {}
    BY Zenon DEF Idle, Records, Points, Side
  <2> HIDE DEF n
  <2>2. th'[t] = n /\ (\A u \in Thread : u # t => th'[u] = th[u]) /\ th' = [th EXCEPT ![t] = n]
    BY <1>3, <1>5 DEF n
  <2>3. place' \in Places /\ place'[0] = "table" /\ place'[1] = "unborn"
    BY <1>1, <1>3, <1>5, Sides DEF Places
  <2>4. Refers(t)'
    BY <1>1, <1>2, <2>1, <2>2, <2>3, IdleFields DEF Refers
  <2>5. \A s \in Side : Held(s)'
    BY <2>1, <2>2 DEF Held
  <2> QED BY Zenon, <1>4, <2>1, <2>2, <2>3, <2>4, <2>5 DEF Side
<1>6. CASE /\ place' = Closed(Side)
           /\ th' = [th EXCEPT ![t] = [Idle EXCEPT !.pc = "dtor", !.dying = Side]]
  <2> DEFINE n == [Idle EXCEPT !.pc = "dtor", !.dying = Side]
  <2>1. n \in Records /\ n.pc = "dtor" /\ n.refs = {} /\ n.dying = Side
    BY Zenon DEF Idle, Records, Points, Side
  <2> HIDE DEF n
  <2>2. th'[t] = n /\ (\A u \in Thread : u # t => th'[u] = th[u]) /\ th' = [th EXCEPT ![t] = n]
    BY <1>3, <1>6 DEF n
  <2>3. place' \in Places /\ \A s \in Side : place'[s] = "gone"
    BY <1>3, <1>6, Sides DEF Places, Closed
  <2>4. Refers(t)'
    BY <1>1, <1>2, <2>1, <2>2, <2>3, IdleFields, Sides DEF Refers
  <2>5. \A s \in Side : Held(s)'
    BY <2>1, <2>2 DEF Held
  <2> QED BY Zenon, <1>4, <2>1, <2>2, <2>3, <2>4, <2>5, Sides
<1> QED BY <1>5, <1>6 DEF Create

\* The second insert of sys_channel_create keeps the invariant, its failure included.
LEMMA CreateSecondInv ==
  ASSUME Inv, NEW t \in Thread, CreateSecond(t)
  PROVE  Inv'
<1>1. /\ ends' = ends /\ slots' = slots /\ count' = count /\ PairTyped' /\ LockKept(t)
  BY PairAlone DEF CreateSecond
<1>2. /\ Refers(t) /\ th[t].pc = "second" /\ place[0] # "unborn" /\ place[1] = "unborn"
      /\ \A s \in Side : ends[s]
  BY OfThread DEF CreateSecond, At, Refers
<1>3. place \in Places
  BY Typed DEF Inv
<1>4. CASE Return(t, [place EXCEPT ![1] = "table"])
  <2> DEFINE where == [place EXCEPT ![1] = "table"]
  <2>1. where \in Places /\ \A s \in Side : where[s] = IF s = 1 THEN "table" ELSE place[s]
    BY <1>3, Sides DEF Places
  <2> HIDE DEF where
  <2>2. Return(t, where)
    BY <1>4 DEF where
  <2>3. \A s \in Side : s # 1 /\ place[s] \in {"table", "escrow"} => ends[s]
    BY <1>2
  <2> QED BY <1>1, <1>2, <2>1, <2>2, <2>3, ReturnInv, Sides DEF Side
<1>5. CASE Return(t, Closed({1} \cup (IF place[0] = "table" THEN {0} ELSE {})))
  <2> DEFINE lost == {1} \cup (IF place[0] = "table" THEN {0} ELSE {})
  <2>1. /\ Closed(lost) \in Places
        /\ \A s \in Side : Closed(lost)[s] = IF s \in lost THEN "gone" ELSE place[s]
    BY <1>3, Sides DEF Places, Closed
  <2>2. 1 \in lost
    OBVIOUS
  <2> HIDE DEF lost
  <2>3. Return(t, Closed(lost))
    BY <1>5 DEF lost
  <2> QED BY <1>1, <1>2, <2>1, <2>2, <2>3, ReturnInv, Sides DEF Side
<1> QED BY <1>4, <1>5 DEF CreateSecond

\* Entering sys_channel_send keeps the invariant.
LEMMA SendInv ==
  ASSUME Inv, NEW t \in Thread, NEW s \in Side, NEW b \in Body, NEW h \in Handle \cup {none},
         Send(t, s, b, h)
  PROVE  Inv'
<1> DEFINE n == [Idle EXCEPT !.pc = IF h = none THEN "write" ELSE "check", !.side = s,
                             !.refs = {s}, !.msg = [body |-> b, cargo |-> h]]
<1>1. /\ n \in Records /\ n.side = s /\ n.refs = {s} /\ n.dying = {}
      /\ n.pc = (IF h = none THEN "write" ELSE "check")
      /\ n.msg \in Message /\ n.msg.cargo = h
  BY Zenon DEF Points, Idle, Message, Records
<1>2. th' = [th EXCEPT ![t] = n] /\ place' = place /\ th[t].pc = "idle" /\ place[s] = "table"
  BY DEF Send, At
<1> HIDE DEF n
<1>3. ends[s] /\ \A u \in Thread : s \notin th[u].dying
  BY <1>2, OfThread, Parts DEF Inv, Refers
<1>4. ends' = ends /\ PairTyped' /\ Foreign' /\ LockKept(t)
  BY PairAlone DEF Send
<1>5. none \notin Side /\ place \in Places
  BY ChannelAssumption, Typed DEF Inv
<1>6. n.pc \in InCall /\ n.pc \notin {"popped", "deliver", "pushed"}
  BY <1>1 DEF InCall
<1>7. n.pc = "write" => n.msg.cargo \notin Side
  BY <1>1, <1>5
<1> QED BY Zenon, <1>1, <1>2, <1>3, <1>4, <1>5, <1>6, <1>7, CallInv

\* Entering sys_channel_recv keeps the invariant.
LEMMA RecvInv ==
  ASSUME Inv, NEW t \in Thread, NEW s \in Side, Recv(t, s)
  PROVE  Inv'
<1> DEFINE n == [Idle EXCEPT !.pc = "read", !.side = s, !.refs = {s}]
<1>1. /\ n \in Records /\ n.pc = "read" /\ n.side = s /\ n.refs = {s} /\ n.dying = {} /\ n.pc \in InCall
  BY Zenon DEF Points, Idle, Records, InCall
<1>2. th' = [th EXCEPT ![t] = n] /\ place' = place /\ th[t].pc = "idle" /\ place[s] = "table"
  BY DEF Recv, At
<1> HIDE DEF n
<1>3. ends[s] /\ \A u \in Thread : s \notin th[u].dying
  BY <1>2, OfThread, Parts DEF Inv, Refers
<1>4. ends' = ends /\ PairTyped' /\ Foreign' /\ LockKept(t)
  BY PairAlone DEF Recv
<1>5. place \in Places
  BY Typed DEF Inv
<1> QED BY Zenon, <1>1, <1>2, <1>3, <1>4, <1>5, CallInv

\* A thread that is in a call goes on to another point of it with the same message.
LEMMA GoesOn ==
  ASSUME Inv, NEW t \in Thread, th[t].pc \in InCall, NEW p \in InCall, th' = [th EXCEPT ![t].pc = p],
         ends' = ends, PairTyped', Foreign', LockKept(t), place' \in Places,
         \A s \in Side : place'[s] = place[s] \/ (place[s] = "table" /\ place'[s] = "escrow"),
         p \in {"check", "take", "write"} => th[t].msg \in Message,
         p = "write" /\ th[t].msg.cargo \in Side => place[th[t].msg.cargo] # "unborn",
         p \in {"popped", "deliver"} => th[t].msg.cargo \notin Side,
         p \notin {"pushed", "popped"}
  PROVE  Inv'
<1> DEFINE n == [th[t] EXCEPT !.pc = p]
<1>1. th \in [Thread -> Records] /\ th[t] \in Records /\ InCall \subseteq Points
  BY Typed DEF Inv, InCall, Points
<1>2. /\ n \in Records /\ n.pc = p /\ n.side = th[t].side /\ n.refs = th[t].refs
      /\ n.dying = th[t].dying /\ n.msg = th[t].msg
  BY <1>1 DEF Records
<1>3. th' = [th EXCEPT ![t] = n]
  BY <1>1
<1> HIDE DEF n
<1>4. /\ n.refs = {n.side} /\ n.dying = {} /\ n.side = th[t].side
      /\ ends[n.side] /\ place[n.side] # "unborn" /\ \A u \in Thread : n.side \notin th[u].dying
  BY <1>2, InCallFacts
<1>5. /\ n.pc \in InCall /\ n.pc \notin {"pushed", "popped"}
      /\ n.pc \in {"check", "take", "write"} => n.msg \in Message
      /\ n.pc = "write" /\ n.msg.cargo \in Side => place[n.msg.cargo] # "unborn"
      /\ n.pc \in {"popped", "deliver"} => n.msg.cargo \notin Side
  BY <1>2
<1>6. n \in Records
  BY <1>2
<1> QED BY Zenon, <1>3, <1>4, <1>5, <1>6, CallInv

\* The look at the flow-control signals keeps the invariant.
LEMMA SendCheckInv ==
  ASSUME Inv, NEW t \in Thread, SendCheck(t)
  PROVE  Inv'
<1>1. ends' = ends /\ slots' = slots /\ count' = count /\ PairTyped' /\ Foreign' /\ LockKept(t)
  BY PairAlone DEF SendCheck
<1>2. th[t].pc = "check" /\ th[t].pc \in InCall /\ "take" \in InCall /\ th[t].msg \in Message /\ place \in Places
  BY OfThread, Typed DEF SendCheck, At, InCall, Refers, Inv
<1>3. CASE Return(t, place)
  BY <1>1, <1>2, <1>3, ReturnPlace
<1>4. CASE th' = [th EXCEPT ![t].pc = "take"] /\ place' = place
  BY Zenon, <1>1, <1>2, <1>4, GoesOn
<1> QED BY <1>3, <1>4 DEF SendCheck

\* Taking the cargo out of the table keeps the invariant.
LEMMA SendTakeInv ==
  ASSUME Inv, NEW t \in Thread, SendTake(t)
  PROVE  Inv'
<1> DEFINE h == th[t].msg.cargo
<1>1. ends' = ends /\ slots' = slots /\ count' = count /\ PairTyped' /\ Foreign' /\ LockKept(t)
  BY PairAlone DEF SendTake
<1>2. th[t].pc = "take" /\ th[t].pc \in InCall /\ "write" \in InCall /\ th[t].msg \in Message /\ place \in Places
  BY OfThread, Typed DEF SendTake, At, InCall, Refers, Inv
<1>3. CASE Return(t, place)
  BY <1>1, <1>2, <1>3, ReturnPlace
<1>4. CASE place[h] = "table" /\ Return(t, Closed({h}))
  <2>1. \A s \in {h} \cap Side : place[s] # "unborn"
    BY <1>4
  <2> QED BY <1>1, <1>2, <1>4, <2>1, ReturnClosed
<1>5. CASE /\ place[h] = "table" /\ place' = [place EXCEPT ![h] = "escrow"]
           /\ th' = [th EXCEPT ![t].pc = "write"]
  <2>1. place' \in Places /\ \A s \in Side : place'[s] = IF s = h THEN "escrow" ELSE place[s]
    BY Zenon, <1>2, <1>5, Sides DEF Places
  <2> QED BY Zenon, <1>1, <1>2, <1>5, <2>1, GoesOn
<1> QED BY <1>3, <1>4, <1>5 DEF SendTake

\* A refused write keeps the invariant, and closes its cargo.
LEMMA WriteRejectInv ==
  ASSUME Inv, NEW t \in Thread, WriteReject(t)
  PROVE  Inv'
<1>1. ends' = ends /\ slots' = slots /\ count' = count /\ PairTyped' /\ LockKept(t)
  BY PairAlone DEF WriteReject
<1>2. th[t].pc = "write" /\ Return(t, Closed(Owned(t)))
  BY DEF WriteReject, At
<1>3. \A s \in Owned(t) \cap Side : place[s] # "unborn"
  BY <1>2, OfThread DEF Owned, Refers
<1> QED BY <1>1, <1>2, <1>3, ReturnClosed

\* The end of a write keeps the invariant.
LEMMA WriteDoneInv ==
  ASSUME Inv, NEW t \in Thread, WriteDone(t)
  PROVE  Inv'
<1>1. th[t].pc = "pushed" /\ th[t].side \in Side /\ PairTyped /\ Return(t, place)
  BY OfThread, Typed DEF WriteDone, At, Inv
<1>2. AfterPush(th[t].side) \in SUBSET {"READABLE", "WRITABLE", "PEER_CLOSED"}
  BY <1>1 DEF AfterPush, PairTyped
<1>3. PairTyped' /\ ends' = ends /\ slots' = slots /\ count' = count
  BY <1>1, <1>2 DEF WriteDone, PairTyped
<1>4. LockKept(t)
  BY <1>1, LockAlone
<1> QED BY <1>1, <1>3, <1>4, ReturnPlace

\* A read that finds nothing keeps the invariant.
LEMMA ReadEmptyInv ==
  ASSUME Inv, NEW t \in Thread, ReadEmpty(t)
  PROVE  Inv'
<1>1. ends' = ends /\ slots' = slots /\ count' = count /\ PairTyped' /\ LockKept(t)
  BY PairAlone DEF ReadEmpty
<1>2. th[t].pc = "read" /\ Return(t, place)
  BY DEF ReadEmpty, At
<1> QED BY <1>1, <1>2, ReturnPlace

\* The end of a read keeps the invariant.
LEMMA ReadDoneInv ==
  ASSUME Inv, NEW t \in Thread, ReadDone(t)
  PROVE  Inv'
<1>1. th[t].pc = "popped" /\ Peer(th[t].side) \in Side /\ PairTyped /\ Foreign /\ place \in Places
  BY OfThread, Sides, Typed, Parts DEF ReadDone, At, Inv
<1>2. PairTyped' /\ ends' = ends /\ slots' = slots /\ count' = count
  BY <1>1 DEF ReadDone, PairTyped
<1>3. LockKept(t) /\ Foreign' /\ th[t].msg.cargo \notin Side /\ th[t].pc \in InCall /\ "deliver" \in InCall
  BY <1>1, <1>2, LockAlone, OfThread DEF Refers, Foreign, InCall
<1>4. CASE Return(t, Closed(Owned(t)))
  <2>1. Owned(t) \cap Side = {}
    BY <1>3 DEF Owned
  <2> QED BY <1>1, <1>2, <1>3, <1>4, <2>1, ReturnClosed
<1>5. CASE th' = [th EXCEPT ![t].pc = "deliver"] /\ place' = place
  BY Zenon, <1>1, <1>2, <1>3, <1>5, GoesOn
<1> QED BY <1>4, <1>5 DEF ReadDone

\* Putting the cargo in the reader's table keeps the invariant.
LEMMA DeliverInv ==
  ASSUME Inv, NEW t \in Thread, Deliver(t)
  PROVE  Inv'
<1>1. ends' = ends /\ slots' = slots /\ count' = count /\ PairTyped' /\ LockKept(t)
  BY PairAlone DEF Deliver
<1>2. th[t].pc = "deliver" /\ th[t].msg.cargo \notin Side /\ place \in Places
  BY OfThread, Typed DEF Deliver, At, Refers, Inv
<1>3. CASE Return(t, Closed(Owned(t)))
  <2>1. Owned(t) \cap Side = {}
    BY <1>2 DEF Owned
  <2> QED BY <1>1, <1>2, <1>3, <2>1, ReturnClosed
<1>4. CASE Return(t, [place EXCEPT ![th[t].msg.cargo] = "table"])
  <2> DEFINE where == [place EXCEPT ![th[t].msg.cargo] = "table"]
  <2>1. where \in Places /\ \A s \in Side : where[s] = place[s]
    BY Zenon, <1>2, Sides DEF Places
  <2> HIDE DEF where
  <2>2. Return(t, where)
    BY <1>4 DEF where
  <2>3. \A s \in Side : place[s] \in {"table", "escrow"} => ends[s]
    BY Parts DEF Inv
  <2> QED BY <1>1, <1>2, <2>1, <2>2, <2>3, ReturnInv
<1> QED BY <1>3, <1>4 DEF Deliver

\* Closing a handle keeps the invariant: the endpoint dies with its last reference.
LEMMA CloseHandleInv ==
  ASSUME Inv, NEW t \in Thread, NEW h \in Handle, CloseHandle(t, h)
  PROVE  Inv'
<1>1. ends' = ends /\ slots' = slots /\ count' = count /\ PairTyped' /\ LockKept(t)
  BY PairAlone DEF CloseHandle
<1>2. th[t].pc = "idle" /\ Return(t, Closed({h})) /\ \A s \in {h} \cap Side : place[s] # "unborn"
  BY DEF CloseHandle, At
<1> QED BY <1>1, <1>2, ReturnClosed

\* The places a ring is read from and written to.
LEMMA ModRange == ASSUME NEW x \in Nat PROVE x % QUEUE_DEPTH \in 0..(QUEUE_DEPTH - 1)
BY ChannelAssumption

\* The ring's positions are slots of the ring.
LEMMA Slots ==
  ASSUME Inv, NEW s \in Side
  PROVE  /\ head[s] \in 0..(QUEUE_DEPTH - 1) /\ count[s] \in 0..QUEUE_DEPTH
         /\ slots[s] \in [0..(QUEUE_DEPTH - 1) -> Message \cup {NoMessage}]
         /\ TailSlot(s) \in 0..(QUEUE_DEPTH - 1) /\ (head[s] + 1) % QUEUE_DEPTH \in 0..(QUEUE_DEPTH - 1)
<1>1. /\ head[s] \in 0..(QUEUE_DEPTH - 1) /\ count[s] \in 0..QUEUE_DEPTH
      /\ slots[s] \in [0..(QUEUE_DEPTH - 1) -> Message \cup {NoMessage}]
  BY Typed DEF Inv, PairTyped
<1>2. head[s] + count[s] \in Nat /\ head[s] + 1 \in Nat
  BY <1>1, ChannelAssumption
<1> QED BY Zenon, <1>1, <1>2, ModRange DEF TailSlot

\* Filling the tail slot keeps the invariant.
LEMMA WritePushInv ==
  ASSUME Inv, NEW t \in Thread, WritePush(t)
  PROVE  Inv'
<1> DEFINE p == Peer(th[t].side)
           n == [th[t] EXCEPT !.pc = "pushed", !.msg = NoMessage]
<1>1. th[t].pc = "write" /\ th[t].pc \in InCall /\ "pushed" \in InCall /\ "pushed" \in Points
  BY DEF WritePush, At, InCall, Points
<1>2. p \in Side /\ th[t].msg \in Message /\ th \in [Thread -> Records] /\ PairTyped /\ Foreign /\ place \in Places
  BY <1>1, OfThread, Sides, Typed, Parts DEF Inv, Refers
<1>3. TailSlot(p) \in 0..(QUEUE_DEPTH - 1) /\ count[p] + 1 \in 0..QUEUE_DEPTH
  BY <1>2, Slots, ChannelAssumption DEF WritePush, Full
<1>4. /\ n \in Records /\ n.pc = "pushed" /\ n.side = th[t].side /\ n.refs = th[t].refs /\ n.dying = th[t].dying
  BY Zenon, <1>1, <1>2 DEF Records
<1>5. th' = [th EXCEPT ![t] = n] /\ lock' = t /\ lock = none /\ ends' = ends /\ place' = place
  BY Zenon, <1>2 DEF WritePush
<1> HIDE DEF n
<1>6. PairTyped'
  BY <1>2, <1>3 DEF WritePush, PairTyped
<1>7. Foreign'
  BY <1>2, <1>3 DEF WritePush, PairTyped, Foreign, CarriesOwnPair
<1>8. LockKept(t)
  BY <1>5, LockAlone
<1>9. /\ n.refs = {n.side} /\ n.dying = {} /\ n.side = th[t].side
      /\ ends[n.side] /\ place[n.side] # "unborn" /\ \A u \in Thread : n.side \notin th[u].dying
  BY <1>1, <1>4, InCallFacts
<1> QED BY Zenon, <1>1, <1>2, <1>4, <1>5, <1>6, <1>7, <1>8, <1>9, CallInv

\* Emptying the head slot keeps the invariant.
LEMMA ReadPopInv ==
  ASSUME Inv, NEW t \in Thread, ReadPop(t)
  PROVE  Inv'
<1> DEFINE s == th[t].side
           m == slots[s][head[s]]
           n == [th[t] EXCEPT !.pc = "popped", !.msg = m, !.full = Full(s)]
<1>1. th[t].pc = "read" /\ th[t].pc \in InCall /\ "popped" \in InCall /\ "popped" \in Points
  BY DEF ReadPop, At, InCall, Points
<1>2. s \in Side /\ th \in [Thread -> Records] /\ PairTyped /\ Foreign /\ place \in Places
  BY OfThread, Typed, Parts DEF Inv
<1>3. /\ head[s] \in 0..(QUEUE_DEPTH - 1) /\ (head[s] + 1) % QUEUE_DEPTH \in 0..(QUEUE_DEPTH - 1)
      /\ count[s] - 1 \in 0..QUEUE_DEPTH /\ Full(s) \in BOOLEAN
  <2>1. /\ head[s] \in 0..(QUEUE_DEPTH - 1) /\ count[s] \in 0..QUEUE_DEPTH
        /\ (head[s] + 1) % QUEUE_DEPTH \in 0..(QUEUE_DEPTH - 1)
    BY Zenon, <1>2, Slots
  <2>2. count[s] > 0
    BY Zenon DEF ReadPop
  <2>3. count[s] - 1 \in 0..QUEUE_DEPTH
    BY <2>1, <2>2, ChannelAssumption
  <2> QED BY Zenon, <2>1, <2>3 DEF Full
<1>4. m \in Message \cup {NoMessage} /\ m.cargo \notin Side /\ NoMessage.cargo \notin Side
  BY <1>2, <1>3, ChannelAssumption DEF PairTyped, Foreign, NoMessage
<1>5. th' = [th EXCEPT ![t] = n] /\ lock' = t /\ lock = none /\ ends' = ends /\ place' = place
  BY Zenon, <1>2 DEF ReadPop
<1> HIDE DEF m
<1>6. /\ n \in Records /\ n.pc = "popped" /\ n.side = th[t].side /\ n.refs = th[t].refs /\ n.dying = th[t].dying
      /\ n.msg = m
  BY Zenon, <1>1, <1>2, <1>3, <1>4 DEF Records
<1> HIDE DEF n
<1>7. /\ slots' = [slots EXCEPT ![s] = [@ EXCEPT ![head[s]] = NoMessage]]
      /\ head' = [head EXCEPT ![s] = (@ + 1) % QUEUE_DEPTH]
      /\ count' = [count EXCEPT ![s] = @ - 1]
      /\ sig' = [sig EXCEPT ![s] = IF count[s] = 1 THEN @ \ {"READABLE"} ELSE @]
  BY <1>2 DEF ReadPop, MovedOut, PairTyped
<1>8. PairTyped'
  BY <1>2, <1>3, <1>5, <1>7 DEF PairTyped
<1>9. Foreign'
  BY <1>2, <1>4, <1>7 DEF PairTyped, Foreign
<1>10. LockKept(t)
  BY <1>5, LockAlone
<1>11. /\ n.refs = {n.side} /\ n.dying = {} /\ n.side = th[t].side
       /\ ends[n.side] /\ place[n.side] # "unborn" /\ \A u \in Thread : n.side \notin th[u].dying
  BY <1>1, <1>6, InCallFacts
<1> QED BY Zenon, <1>1, <1>2, <1>4, <1>5, <1>6, <1>8, <1>9, <1>10, <1>11, CallInv

\* A thread that destroys endpoints refers to none.
LEMMA InDtor ==
  ASSUME Inv, NEW t \in Thread, th[t].pc \in {"dtor", "hangup"}
  PROVE  /\ th \in [Thread -> Records] /\ PairTyped /\ Foreign /\ place \in Places /\ ends \in [Side -> BOOLEAN]
         /\ th[t].refs = {}
<1>1. th \in [Thread -> Records] /\ PairTyped /\ Foreign /\ place \in Places /\ ends \in [Side -> BOOLEAN]
  BY Zenon, Typed, Parts DEF Inv
<1>2. Refers(t) /\ th[t].pc \notin InCall \cup {"second"}
  BY Zenon, OfThread, IdleFields
<1>3. th[t].refs = {}
  BY Zenon, <1>2 DEF Refers
<1> QED BY Zenon, <1>1, <1>3

\* A step of a destructor: it may unlink endpoints only this thread still knows.
LEMMA DtorInv ==
  ASSUME Inv, NEW t \in Thread, th[t].pc \in {"dtor", "hangup"}, PairTyped', Foreign', LockKept(t),
         place' \in Places, \A s \in Side : place'[s] = place[s],
         NEW n \in Records, th' = [th EXCEPT ![t] = n],
         n.pc \in {"idle", "dtor", "hangup"}, n.refs = {}, n.dying \subseteq th[t].dying,
         n.pc = "idle" => n.dying = {}, n.pc = "hangup" => lock' = t /\ ends'[Peer(n.side)],
         ends' \in [Side -> BOOLEAN], \A s \in Side : ends'[s] <=> ends[s] /\ s \notin th[t].dying \ n.dying,
         lock = none \/ ends' = ends
  PROVE  Inv'
<1>1. th'[t] = n /\ \A u \in Thread : u # t => th'[u] = th[u]
  BY Typed DEF Inv
<1>2. TypeOK'
  <2>1. th' \in [Thread -> Records]
    BY Typed DEF Inv
  <2>2. TypeOK' <=> ends' \in [Side -> BOOLEAN] /\ PairTyped' /\ place' \in Places' /\ th' \in [Thread -> Records']
    BY DEF TypeOK, PairTyped, Places, Records
  <2>3. Places' = Places /\ Records' = Records
    BY DEF Places, Records
  <2> QED BY <2>1, <2>2, <2>3
<1>3. /\ Refers(t) /\ place[0] # "unborn" /\ th[t].refs = {} /\ \A s \in th[t].dying : s \in Side
  <2>1. Refers(t) /\ \A s \in th[t].dying : s \in Side
    BY Zenon, OfThread
  <2>2. th[t].refs = {}
    BY Zenon, InDtor
  <2>3. place[0] # "unborn"
    BY Zenon, <2>1 DEF Refers
  <2> QED BY Zenon, <2>1, <2>2, <2>3
<1>4. ASSUME NEW u \in Thread, u # t PROVE Refers(u)'
  <2>1. Refers(u) /\ \A s \in th[u].dying : s \in Side
    BY Zenon, OfThread
  <2>2. th[u].pc = "second" => place'[1] = "unborn" /\ \A w \in Thread \ {u} : th'[w].pc # "second"
    BY <2>1, <1>1, <1>4, Sides DEF Refers
  <2>3. \A s \in th[u].dying : /\ place'[s] = "gone"
                               /\ \A w \in Thread \ {u} : s \notin th'[w].refs /\ s \notin th'[w].dying
    BY <2>1, <1>1 DEF Refers
  <2>4. lock = none => th[u].pc # "hangup"
    BY <2>1, ChannelAssumption DEF Refers
  <2>5. \A s \in Side : ends[s] => \/ ends'[s]
                                   \/ s \notin th[u].refs /\ s \notin th[u].dying /\ th[u].pc # "hangup"
    BY <1>3, <1>4, <2>4 DEF Refers
  <2> QED BY <1>1, <1>4, <2>2, <2>3, <2>5, Others DEF LockKept
<1>5. Refers(t)'
  <2>1. place'[0] # "unborn" /\ n.pc \notin InCall
    BY <1>3, Sides, IdleFields
  <2>2. \A s \in n.dying : /\ ends'[s] /\ place'[s] = "gone"
                           /\ \A u \in Thread \ {t} : s \notin th'[u].refs /\ s \notin th'[u].dying
    BY <1>1, <1>3 DEF Refers
  <2> QED BY <1>1, <2>1, <2>2 DEF Refers
<1>6. \A s \in Side : place'[s] \in {"table", "escrow"} => ends'[s]
  <2>1. \A s \in Side : place[s] \in {"table", "escrow"} => ends[s]
    BY Parts DEF Inv
  <2> QED BY <1>3, <2>1 DEF Refers
<1>7. ASSUME NEW s \in Side, ends'[s] PROVE Held(s)'
  <2>1. Held(s)
    BY <1>7, Parts DEF Inv
  <2> QED BY Zenon, <2>1, <1>1, <1>3, <1>7 DEF Held
<1>8. References'
  BY <1>3, <1>4, <1>5, <1>6, <1>7, Sides DEF References, Held, Foreign
<1> QED BY <1>2, <1>8 DEF Inv

\* A destructor that unlinks its endpoint keeps the invariant.
LEMMA DtorUnlinkInv ==
  ASSUME Inv, NEW t \in Thread, NEW s \in Side, DtorUnlink(t, s)
  PROVE  Inv'
<1> DEFINE n == [th[t] EXCEPT !.pc = "hangup", !.side = s, !.dying = @ \ {s}]
<1>1. th[t].pc = "dtor" /\ s \in th[t].dying /\ lock = none /\ lock' = t /\ place' = place
  BY DEF DtorUnlink, At
<1>2. /\ th \in [Thread -> Records] /\ PairTyped /\ Foreign /\ place \in Places /\ ends \in [Side -> BOOLEAN]
      /\ th[t].refs = {}
  BY Zenon, <1>1, InDtor
<1>3. /\ n \in Records /\ n.pc = "hangup" /\ n.side = s /\ n.refs = {} /\ n.dying = th[t].dying \ {s}
  BY Zenon, <1>2 DEF Records, Points
<1>4. th' = [th EXCEPT ![t] = n]
  BY Zenon, <1>2 DEF DtorUnlink
<1> HIDE DEF n
<1>5. /\ ends' \in [Side -> BOOLEAN] /\ ends'[Peer(n.side)]
      /\ \A r \in Side : ends'[r] <=> ends[r] /\ r \notin th[t].dying \ n.dying
  BY <1>1, <1>2, <1>3, Sides DEF DtorUnlink
<1>6. PairTyped' /\ Foreign'
  BY <1>2, Sides DEF DtorUnlink, PairTyped, Foreign, Hangup
<1>7. LockKept(t)
  BY <1>1, LockAlone
<1> QED BY Zenon, <1>1, <1>2, <1>3, <1>4, <1>5, <1>6, <1>7, DtorInv

\* The hangup keeps the invariant.
LEMMA DtorHangupInv ==
  ASSUME Inv, NEW t \in Thread, DtorHangup(t)
  PROVE  Inv'
<1> DEFINE n == IF th[t].dying = {} THEN Idle ELSE [th[t] EXCEPT !.pc = "dtor"]
<1>1. th[t].pc = "hangup" /\ place' = place /\ ends' = ends
  BY DEF DtorHangup, At
<1>2. /\ th \in [Thread -> Records] /\ PairTyped /\ Foreign /\ place \in Places /\ ends \in [Side -> BOOLEAN]
      /\ th[t].refs = {} /\ Peer(th[t].side) \in Side
  BY Zenon, <1>1, InDtor, OfThread, Sides
<1>3. /\ n \in Records /\ n.pc \in {"idle", "dtor"} /\ n.refs = {} /\ n.dying = th[t].dying
      /\ n.pc = "idle" => n.dying = {}
  BY Zenon, <1>2, IdleFields DEF Records, Points
<1>4. th' = [th EXCEPT ![t] = n]
  BY <1>2 DEF DtorHangup
<1> HIDE DEF n
<1>5. PairTyped' /\ Foreign'
  BY <1>2 DEF DtorHangup, PairTyped, Foreign
<1>6. LockKept(t)
  BY <1>1, LockAlone
<1> QED BY Zenon, <1>1, <1>2, <1>3, <1>4, <1>5, <1>6, DtorInv

\* The destructor that goes last keeps the invariant.
LEMMA DtorLastInv ==
  ASSUME Inv, NEW t \in Thread, NEW s \in Side, DtorLast(t, s)
  PROVE  Inv'
<1> DEFINE n == IF th[t].dying = {s} THEN Idle ELSE [th[t] EXCEPT !.dying = @ \ {s}]
<1>1. th[t].pc = "dtor" /\ s \in th[t].dying /\ lock = none
  BY DEF DtorLast, At
<1>2. /\ th \in [Thread -> Records] /\ PairTyped /\ Foreign /\ place \in Places /\ ends \in [Side -> BOOLEAN]
      /\ th[t].refs = {}
  BY Zenon, <1>1, InDtor
<1>3. /\ n \in Records /\ n.pc \in {"idle", "dtor"} /\ n.refs = {} /\ n.dying = th[t].dying \ {s}
      /\ n.pc = "idle" => n.dying = {}
  BY <1>1, <1>2, IdleFields DEF Records, Points
<1>4. th' = [th EXCEPT ![t] = n]
  BY <1>2 DEF DtorLast
<1> HIDE DEF n
<1>5. /\ ends' \in [Side -> BOOLEAN]
      /\ \A r \in Side : ends'[r] <=> ends[r] /\ r \notin th[t].dying \ n.dying
  BY <1>1, <1>2, <1>3 DEF DtorLast
<1>6. NoMessage.cargo \notin Side /\ 0 \in 0..QUEUE_DEPTH
  BY ChannelAssumption DEF NoMessage
<1>7. PairTyped' /\ Foreign'
  BY <1>2, <1>6 DEF DtorLast, PairTyped, Foreign
<1>8. QueuedCargo \cap Side = {}
  BY <1>2 DEF QueuedCargo, Foreign
<1>9. place' \in Places /\ \A r \in Side : place'[r] = place[r]
  BY <1>2, <1>8, Sides DEF DtorLast, Places
<1>10. LockKept(t)
  BY <1>1, LockAlone
<1> QED BY Zenon, <1>1, <1>2, <1>3, <1>4, <1>5, <1>7, <1>9, <1>10, DtorInv

\* Every step of the channel keeps the invariant.
LEMMA NextInv ==
  ASSUME Inv, [Next]_vars
  PROVE  Inv'
<1>1. CASE UNCHANGED vars
  <2>1. TypeOK'
    BY Zenon, <1>1 DEF Inv, TypeOK, vars, pair
  <2>2. ends' = ends /\ slots' = slots /\ count' = count /\ lock' = lock /\ place' = place /\ th' = th
    BY Zenon, <1>1 DEF vars, pair
  <2>3. ASSUME NEW u \in Thread PROVE Refers(u)'
    <3>1. Refers(u)
      BY Zenon, OfThread
    <3> QED BY ONLY Zenon, <2>2, <3>1 DEF Refers
  <2>4. References'
    BY Zenon, <2>2, <2>3 DEF Inv, References
  <2> QED BY Zenon, <2>1, <2>4 DEF Inv
<1>2. CASE Next
  <2>1. PICK t \in Thread : Step(t)
    BY <1>2 DEF Next
  <2> QED BY <2>1, CreateInv, CreateSecondInv, RecvInv, DtorUnlinkInv, DtorLastInv, SendInv, SendCheckInv,
             SendTakeInv, WriteRejectInv, WritePushInv, WriteDoneInv, ReadEmptyInv, ReadPopInv, ReadDoneInv,
             DeliverInv, CloseHandleInv, DtorHangupInv DEF Step
<1> QED BY <1>1, <1>2

----------------------------------------------------------------------------
(* The safety theorems.                                                    *)

\* References is inductive: it holds of every state of the channel.
THEOREM Invariance == Spec => []Inv
BY InitInv, NextInv, PTL DEF Spec

\* Endpoints, rings, signals, handles and threads keep their types.
THEOREM TypeCorrect == Spec => []TypeOK
<1>1. Inv => TypeOK
  BY DEF Inv
<1> QED BY <1>1, Invariance, PTL

\* An endpoint exists exactly as long as a handle, a call in flight or its destructor refers
\* to it, and a destructor under the lock finds the peer it signals alive (~Channel, ktl::ref).
THEOREM EndpointsLive == Spec => []PeerSafe
<1>1. ASSUME Inv PROVE PeerSafe
  <2>1. ASSUME NEW s \in Side PROVE ends[s] <=> \/ place[s] \in {"table", "escrow"}
                                               \/ \E t \in Thread : s \in th[t].refs \cup th[t].dying
    BY Zenon, <1>1, <2>1, Parts, OfThread DEF Inv, Held, Refers
  <2>2. ASSUME NEW t \in Thread, th[t].pc = "hangup" PROVE ends[Peer(th[t].side)]
    BY <1>1, <2>2, OfThread DEF Refers
  <2> QED BY <2>1, <2>2 DEF PeerSafe
<1> QED BY <1>1, Invariance, PTL

\* No endpoint is queued on its own pair, where it would keep itself alive
\* (carries_endpoint_from_pair).
THEOREM NotSelfOwned == Spec => []NoSelfOwnership
<1>1. ASSUME Inv PROVE NoSelfOwnership
  BY <1>1, Parts DEF Inv, NoSelfOwnership, Queued, Foreign
<1> QED BY <1>1, Invariance, PTL

----------------------------------------------------------------------------
(* The ring as a sequence.                                                 *)

\* A position advanced by less than the depth wraps at most once.
LEMMA ModWrap ==
  ASSUME NEW x \in 0..(2 * QUEUE_DEPTH - 1)
  PROVE  x % QUEUE_DEPTH = IF x < QUEUE_DEPTH THEN x ELSE x - QUEUE_DEPTH
<1>1. QUEUE_DEPTH \in Nat \ {0}
  BY ChannelAssumption
<1>2. CASE x < QUEUE_DEPTH
  BY <1>1, <1>2
<1>3. CASE x >= QUEUE_DEPTH
  BY <1>1, <1>3
<1> QED BY <1>1, <1>2, <1>3

\* The slot behind the last message is none of the slots in use.
LEMMA SlotsApart ==
  ASSUME NEW h \in 0..(QUEUE_DEPTH - 1), NEW c \in 0..(QUEUE_DEPTH - 1), NEW i \in 1..c
  PROVE  (h + i - 1) % QUEUE_DEPTH # (h + c) % QUEUE_DEPTH
<1>1. QUEUE_DEPTH \in Nat \ {0}
  BY ChannelAssumption
<1>2. h + i - 1 \in 0..(2 * QUEUE_DEPTH - 1) /\ h + c \in 0..(2 * QUEUE_DEPTH - 1)
  BY <1>1
<1>3. h + i - 1 < h + c /\ h + c - (h + i - 1) < QUEUE_DEPTH
  BY <1>1
<1> QED BY <1>1, <1>2, <1>3, ModWrap

\* Counting on from the next slot, and none of the others is the slot just left.
LEMMA SlotsShift ==
  ASSUME NEW h \in 0..(QUEUE_DEPTH - 1), NEW i \in 1..(QUEUE_DEPTH - 1)
  PROVE  (((h + 1) % QUEUE_DEPTH) + i - 1) % QUEUE_DEPTH = (h + i) % QUEUE_DEPTH /\ (h + i) % QUEUE_DEPTH # h
<1>1. QUEUE_DEPTH \in Nat \ {0}
  BY ChannelAssumption
<1>2. h + 1 \in 0..(2 * QUEUE_DEPTH - 1) /\ h + i \in 0..(2 * QUEUE_DEPTH - 1)
  BY <1>1
<1>3. (h + 1) % QUEUE_DEPTH = IF h + 1 < QUEUE_DEPTH THEN h + 1 ELSE 0
  BY <1>1, <1>2, ModWrap
<1>4. (h + i) % QUEUE_DEPTH = IF h + i < QUEUE_DEPTH THEN h + i ELSE h + i - QUEUE_DEPTH
  BY <1>1, <1>2, ModWrap
<1>5. CASE h + 1 < QUEUE_DEPTH
  BY <1>1, <1>3, <1>4, <1>5
<1>6. CASE h + 1 >= QUEUE_DEPTH
  <2>1. h + 1 = QUEUE_DEPTH /\ (h + 1) % QUEUE_DEPTH = 0 /\ (h + i) % QUEUE_DEPTH = i - 1
    BY <1>1, <1>3, <1>4, <1>6
  <2>2. 0 + i - 1 = i - 1 /\ i - 1 \in 0..(2 * QUEUE_DEPTH - 1) /\ i - 1 < QUEUE_DEPTH
    BY <1>1
  <2>3. (0 + i - 1) % QUEUE_DEPTH = i - 1
    BY <2>2, ModWrap
  <2> QED BY <1>1, <2>1, <2>3
<1> QED BY <1>1, <1>5, <1>6

\* A function on 1..n is a sequence of length n.
LEMMA FunctionSeq ==
  ASSUME NEW S, NEW n \in Nat, NEW f \in [1..n -> S]
  PROVE  f \in Seq(S) /\ Len(f) = n
<1>1. f \in Seq(S)
  BY SeqDef
<1>2. Len(f) \in Nat /\ 1..Len(f) = 1..n
  BY <1>1, LenProperties
<1> QED BY <1>1, <1>2

\* What is queued is a sequence of as many messages as are counted.
LEMMA QueueSeq ==
  ASSUME Inv, NEW s \in Side
  PROVE  /\ Queue(s) \in Seq(Message \cup {NoMessage}) /\ Len(Queue(s)) = count[s] /\ count[s] \in Nat
         /\ \A i \in 1..count[s] : /\ Queue(s)[i] = slots[s][(head[s] + i - 1) % QUEUE_DEPTH]
                                   /\ (head[s] + i - 1) % QUEUE_DEPTH \in 0..(QUEUE_DEPTH - 1)
<1>1. /\ head[s] \in 0..(QUEUE_DEPTH - 1) /\ count[s] \in 0..QUEUE_DEPTH
      /\ slots[s] \in [0..(QUEUE_DEPTH - 1) -> Message \cup {NoMessage}]
  BY Slots
<1>2. ASSUME NEW i \in 1..count[s]
      PROVE  (head[s] + i - 1) % QUEUE_DEPTH \in 0..(QUEUE_DEPTH - 1)
  <2>1. head[s] + i - 1 \in Nat
    BY <1>1, ChannelAssumption
  <2> QED BY <2>1, ModRange
<1>3. Queue(s) \in [1..count[s] -> Message \cup {NoMessage}]
  BY Zenon, <1>1, <1>2 DEF Queue
<1>4. count[s] \in Nat
  BY <1>1, ChannelAssumption
<1>5. Queue(s) \in Seq(Message \cup {NoMessage}) /\ Len(Queue(s)) = count[s]
  BY <1>3, <1>4, FunctionSeq
<1>6. \A i \in 1..count[s] : Queue(s)[i] = slots[s][(head[s] + i - 1) % QUEUE_DEPTH]
  BY DEF Queue
<1> QED BY <1>2, <1>4, <1>5, <1>6

\* Writing the tail slot appends to the queue.
LEMMA QueuePush ==
  ASSUME Inv, NEW p \in Side, NEW m \in Message, count[p] < QUEUE_DEPTH,
         head' = head, count' = [count EXCEPT ![p] = @ + 1],
         slots' = [slots EXCEPT ![p][TailSlot(p)] = m]
  PROVE  Queue(p)' = Append(Queue(p), m) /\ \A r \in Side : r # p => Queue(r)' = Queue(r)
<1> DEFINE M == Message \cup {NoMessage}
           c == count[p]
           h == head[p]
<1>1. /\ h \in 0..(QUEUE_DEPTH - 1) /\ c \in 0..QUEUE_DEPTH /\ QUEUE_DEPTH \in Nat \ {0}
      /\ slots[p] \in [0..(QUEUE_DEPTH - 1) -> M] /\ TailSlot(p) \in 0..(QUEUE_DEPTH - 1) /\ PairTyped
  BY Slots, ChannelAssumption, Typed DEF Inv
<1>2. count'[p] = c + 1 /\ slots'[p] = [slots[p] EXCEPT ![TailSlot(p)] = m] /\ head'[p] = h
  BY <1>1 DEF PairTyped
<1>3. \A i \in 1..c : (h + i - 1) % QUEUE_DEPTH # TailSlot(p)
  <2>1. c \in 0..(QUEUE_DEPTH - 1)
    BY <1>1
  <2> QED BY Zenon, <1>1, <2>1, SlotsApart DEF TailSlot
<1>4. /\ Queue(p) \in Seq(M) /\ Len(Queue(p)) = c
      /\ \A i \in 1..c : /\ Queue(p)[i] = slots[p][(h + i - 1) % QUEUE_DEPTH]
                         /\ (h + i - 1) % QUEUE_DEPTH \in 0..(QUEUE_DEPTH - 1)
  BY QueueSeq
<1>5. Queue(p)' = [i \in 1..(c + 1) |-> slots'[p][(h + i - 1) % QUEUE_DEPTH]]
  BY <1>2 DEF Queue
<1>6. c + 1 \in Nat /\ (h + (c + 1) - 1) % QUEUE_DEPTH = TailSlot(p)
  <2>1. h + (c + 1) - 1 = h + c
    BY <1>1
  <2> QED BY <1>1, <2>1 DEF TailSlot
<1>7. ASSUME NEW i \in 1..(c + 1)
      PROVE  slots'[p][(h + i - 1) % QUEUE_DEPTH] = IF i = c + 1 THEN m ELSE Queue(p)[i]
  <2>1. CASE i = c + 1
    BY <2>1, <1>1, <1>2, <1>6
  <2>2. CASE i # c + 1
    <3>1. i \in 1..c
      BY <1>1, <1>7, <2>2
    <3> QED BY Zenon, <3>1, <2>2, <1>1, <1>2, <1>3, <1>4
  <2> QED BY <2>1, <2>2
<1>8. /\ Append(Queue(p), m) \in Seq(M) /\ Len(Append(Queue(p), m)) = c + 1
      /\ \A i \in 1..(c + 1) : Append(Queue(p), m)[i] = IF i = c + 1 THEN m ELSE Queue(p)[i]
  BY <1>1, <1>4, AppendProperties
<1> HIDE DEF c, h, M
<1>9. Queue(p)' = Append(Queue(p), m)
  <2>1. Append(Queue(p), m) = [i \in 1..(c + 1) |-> Append(Queue(p), m)[i]]
    BY Zenon, <1>8, LenProperties
  <2> QED BY Zenon, <1>5, <1>7, <1>8, <2>1
<1>10. \A r \in Side : r # p => Queue(r)' = Queue(r)
  BY <1>1 DEF Queue, PairTyped
<1> QED BY <1>9, <1>10

\* Moving the head past its slot takes the front off the queue.
LEMMA QueuePop ==
  ASSUME Inv, NEW s \in Side, count[s] > 0,
         slots' = [slots EXCEPT ![s] = MovedOut(s)],
         head' = [head EXCEPT ![s] = (@ + 1) % QUEUE_DEPTH],
         count' = [count EXCEPT ![s] = @ - 1]
  PROVE  Queue(s) # <<>> /\ Queue(s)' = Tail(Queue(s)) /\ \A r \in Side : r # s => Queue(r)' = Queue(r)
<1> DEFINE M == Message \cup {NoMessage}
           c == count[s]
           h == head[s]
<1>1. /\ h \in 0..(QUEUE_DEPTH - 1) /\ c \in 0..QUEUE_DEPTH /\ QUEUE_DEPTH \in Nat \ {0}
      /\ slots[s] \in [0..(QUEUE_DEPTH - 1) -> M] /\ PairTyped
  BY Slots, ChannelAssumption, Typed DEF Inv
<1>2. /\ count'[s] = c - 1 /\ slots'[s] = [slots[s] EXCEPT ![h] = NoMessage]
      /\ head'[s] = (h + 1) % QUEUE_DEPTH
  BY <1>1 DEF PairTyped, MovedOut
<1>3. /\ Queue(s) \in Seq(M) /\ Len(Queue(s)) = c
      /\ \A i \in 1..c : /\ Queue(s)[i] = slots[s][(h + i - 1) % QUEUE_DEPTH]
                         /\ (h + i - 1) % QUEUE_DEPTH \in 0..(QUEUE_DEPTH - 1)
  BY QueueSeq
<1>4. Queue(s)' = [i \in 1..(c - 1) |-> slots'[s][(((h + 1) % QUEUE_DEPTH) + i - 1) % QUEUE_DEPTH]]
  BY <1>2 DEF Queue
<1>5. Queue(s) # <<>>
  BY <1>1, <1>3, EmptySeq
<1>6. ASSUME NEW i \in 1..(c - 1)
      PROVE  slots'[s][(((h + 1) % QUEUE_DEPTH) + i - 1) % QUEUE_DEPTH] = Queue(s)[i + 1]
  <2>1. i \in 1..(QUEUE_DEPTH - 1) /\ i + 1 \in 1..c /\ h + (i + 1) - 1 = h + i
    BY <1>1
  <2>2. (((h + 1) % QUEUE_DEPTH) + i - 1) % QUEUE_DEPTH = (h + i) % QUEUE_DEPTH /\ (h + i) % QUEUE_DEPTH # h
    BY <1>1, <2>1, SlotsShift
  <2>3. Queue(s)[i + 1] = slots[s][(h + i) % QUEUE_DEPTH] /\ (h + i) % QUEUE_DEPTH \in 0..(QUEUE_DEPTH - 1)
    BY <1>3, <2>1
  <2> QED BY Zenon, <1>1, <1>2, <2>2, <2>3
<1>7. /\ Tail(Queue(s)) \in Seq(M) /\ Len(Tail(Queue(s))) = c - 1
      /\ \A i \in 1..(c - 1) : Tail(Queue(s))[i] = Queue(s)[i + 1]
  BY <1>3, <1>5, HeadTailProperties
<1> HIDE DEF c, h, M
<1>8. Queue(s)' = Tail(Queue(s))
  <2>1. Tail(Queue(s)) = [i \in 1..(c - 1) |-> Tail(Queue(s))[i]]
    BY Zenon, <1>7, LenProperties
  <2> QED BY <1>4, <1>6, <1>7, <2>1
<1>9. \A r \in Side : r # s => Queue(r)' = Queue(r)
  BY <1>1 DEF Queue, PairTyped
<1> QED BY <1>5, <1>8, <1>9

\* A step that leaves the rings alone leaves the queues alone.
LEMMA QueueKept ==
  ASSUME slots' = slots, head' = head, count' = count
  PROVE  [s \in Side |-> Queue(s)]' = [s \in Side |-> Queue(s)]
BY DEF Queue

\* An empty ring is the empty queue.
LEMMA QueueEmpty ==
  ASSUME NEW s \in Side, count[s] = 0
  PROVE  Queue(s) = <<>>
<1>1. 1..count[s] = {}
  OBVIOUS
<1> QED BY <1>1 DEF Queue

----------------------------------------------------------------------------
(* The refinement.                                                         *)

\* The initial ring maps to an initial queue.
LEMMA InitFifo == Init => Fifo!Init
<1> SUFFICES ASSUME Init PROVE Fifo!Init
  OBVIOUS
<1>1. \A s \in Side : Queue(s) = <<>>
  BY QueueEmpty DEF Init
<1> QED BY <1>1 DEF Init, Fifo!Init, Fifo!Side, Side

\* Every step of the ring maps to a step of the queue, or to none.
LEMMA StepFifo ==
  ASSUME Inv, [Next]_vars
  PROVE  [Fifo!Next]_(Fifo!vars)
<1> DEFINE q == [s \in Side |-> Queue(s)]
<1>1. ASSUME slots' = slots, head' = head, count' = count, ends' = ends PROVE UNCHANGED Fifo!vars
  BY <1>1, QueueKept DEF Fifo!vars
<1>2. CASE UNCHANGED vars
  BY <1>1, <1>2 DEF vars, pair
<1>3. ASSUME NEW t \in Thread, Step(t) PROVE [Fifo!Next]_(Fifo!vars)
  <2>1. CASE \/ CreateSecond(t) \/ SendCheck(t) \/ SendTake(t) \/ WriteReject(t) \/ WriteDone(t)
             \/ ReadEmpty(t) \/ ReadDone(t) \/ Deliver(t) \/ DtorHangup(t)
    BY <2>1, <1>1 DEF CreateSecond, SendCheck, SendTake, WriteReject, WriteDone, ReadEmpty, ReadDone, Deliver,
                      DtorHangup, pair
  <2>2. CASE \/ \E s \in Side : Recv(t, s) \/ \E b \in Body, h \in Handle \cup {none} : Send(t, s, b, h)
             \/ \E h \in Handle : CloseHandle(t, h)
    BY Zenon, <2>2, <1>1 DEF Recv, Send, CloseHandle, pair
  <2>3. CASE Create(t)
    <3>1. \A s \in Side : ~ends[s] /\ count[s] = 0
      BY <2>3, Parts, Sides DEF Create, Inv
    <3>2. q' = q /\ \A s \in Side : q[s] = <<>>
      BY <2>3, <3>1, QueueKept, QueueEmpty DEF Create
    <3>3. Fifo!Create
      BY <2>3, <3>1, <3>2 DEF Create, Fifo!Create, Fifo!Side, Side
    <3> QED BY <3>3 DEF Fifo!Next
  <2>4. CASE WritePush(t)
    <3>1. PICK s \in Side, p \in Side, m \in Message : s = th[t].side /\ p = Peer(s) /\ m = th[t].msg
      BY <2>4, OfThread, Sides DEF WritePush, At, Refers
    <3>2. ends[s] /\ ends[p] /\ count[p] \in 0..QUEUE_DEPTH
      BY <2>4, <3>1, InCallFacts, Slots DEF WritePush, At, InCall
    <3>3. /\ count[p] < QUEUE_DEPTH /\ ends' = ends /\ head' = head /\ count' = [count EXCEPT ![p] = @ + 1]
          /\ slots' = [slots EXCEPT ![p][TailSlot(p)] = m]
      BY <2>4, <3>1, <3>2, ChannelAssumption DEF WritePush, Full
    <3>4. Queue(p)' = Append(Queue(p), m) /\ \A r \in Side : r # p => Queue(r)' = Queue(r)
      BY Zenon, <3>3, QueuePush
    <3>5. q' = [q EXCEPT ![p] = Append(@, m)] /\ Len(q[p]) < QUEUE_DEPTH
      BY Zenon, <3>3, <3>4, QueueSeq
    <3>6. Fifo!Write(s, m)
      BY <3>1, <3>2, <3>3, <3>5 DEF Fifo!Write, Fifo!Peer, Peer
    <3> QED BY <3>6 DEF Fifo!Next, Fifo!Side, Side
  <2>5. CASE ReadPop(t)
    <3>1. PICK s \in Side : s = th[t].side
      BY OfThread
    <3>2. /\ ends[s] /\ count[s] > 0 /\ ends' = ends /\ slots' = [slots EXCEPT ![s] = MovedOut(s)]
          /\ head' = [head EXCEPT ![s] = (@ + 1) % QUEUE_DEPTH] /\ count' = [count EXCEPT ![s] = @ - 1]
      BY <2>5, <3>1, InCallFacts DEF ReadPop, At, InCall
    <3>3. Queue(s) # <<>> /\ Queue(s)' = Tail(Queue(s)) /\ \A r \in Side : r # s => Queue(r)' = Queue(r)
      BY Zenon, <3>2, QueuePop
    <3>4. q' = [q EXCEPT ![s] = Tail(@)] /\ q[s] # <<>>
      BY Zenon, <3>3
    <3>5. Fifo!Read(s)
      BY <3>2, <3>4 DEF Fifo!Read
    <3> QED BY <3>5 DEF Fifo!Next, Fifo!Side, Side
  <2>6. ASSUME NEW s \in Side, DtorUnlink(t, s) PROVE [Fifo!Next]_(Fifo!vars)
    <3>1. ends[s] /\ q' = q
      BY <2>6, OfThread, QueueKept DEF DtorUnlink, Refers
    <3>2. Fifo!Close(s)
      BY <2>6, <3>1 DEF DtorUnlink, Fifo!Close, Fifo!Peer, Peer
    <3> QED BY <3>2 DEF Fifo!Next, Fifo!Side, Side
  <2>7. ASSUME NEW s \in Side, DtorLast(t, s) PROVE [Fifo!Next]_(Fifo!vars)
    <3>1. ends[s]
      BY <2>7, OfThread DEF DtorLast, Refers
    <3>2. \A r \in Side : Queue(r)' = <<>>
      BY <2>7 DEF DtorLast, Queue
    <3>3. Fifo!Close(s)
      BY <2>7, <3>1, <3>2 DEF DtorLast, Fifo!Close, Fifo!Peer, Peer, Fifo!Side, Side
    <3> QED BY <3>3 DEF Fifo!Next, Fifo!Side, Side
  <2> QED BY <1>3, <2>1, <2>2, <2>3, <2>4, <2>5, <2>6, <2>7 DEF Step
<1> QED BY <1>2, <1>3 DEF Next

\* The ring of slots with its head and count, shared by the threads of a pair, is the
\* bounded first-in first-out queue channel.h promises: every write that succeeds appends
\* to the peer's queue, every read takes the oldest message, and what is queued goes only
\* with the second endpoint (Channel::write, Channel::read, ~Channel).
THEOREM Implements == Spec => FifoSpec
<1>1. Init => Fifo!Init
  BY InitFifo
<1>2. Inv /\ [Next]_vars => [Fifo!Next]_(Fifo!vars)
  BY StepFifo
<1> QED BY <1>1, <1>2, Invariance, PTL DEF Spec, FifoSpec, Fifo!Spec
=============================================================================
