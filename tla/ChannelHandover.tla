-------------------------- MODULE ChannelHandover --------------------------
(***************************************************************************)
(* What a channel pair hands over, for any threads, handles, bodies and    *)
(* queue depth: the signals of its ends tell the truth (SignalsInv adds    *)
(* what the call that holds the lock has yet to set), and a handle in      *)
(* flight belongs to one message (EscrowInv adds that a slot outside the   *)
(* queue names none).                                                      *)
(***************************************************************************)
EXTENDS ChannelProofs

----------------------------------------------------------------------------
(* Signals.  While a thread is inside the lock they may be behind.         *)

Inside(t) == th[t].pc \in {"pushed", "popped", "hangup"}

Readable(s) == "READABLE" \in sig[s] <=> count[s] > 0

\* The signals of side s say what its next read, its next write and its peer would.
Agrees(s) ==
    /\ Readable(s)
    /\ "WRITABLE" \in sig[s] <=> ends[Peer(s)] /\ ~Full(Peer(s))
    /\ "PEER_CLOSED" \in sig[s] <=> ~ends[Peer(s)]

\* Side s has pushed a message and not yet looked whether the queue is full.
MidPush(s) ==
    /\ ends[Peer(s)] /\ Agrees(Peer(s)) /\ Readable(s)
    /\ "WRITABLE" \in sig[s] /\ "PEER_CLOSED" \notin sig[s]

\* Side s has popped a message; when the queue was full its peer does not know yet.
MidPop(s, full) ==
    /\ Agrees(s) /\ ~Full(s)
    /\ ends[Peer(s)] => /\ Readable(Peer(s)) /\ "PEER_CLOSED" \notin sig[Peer(s)]
                        /\ "WRITABLE" \in sig[Peer(s)] <=> ~full

\* Side s is gone and its peer has not been told.
MidHangup(s) == ~ends[s] /\ Readable(Peer(s)) /\ "WRITABLE" \notin sig[Peer(s)]

Midway(t) ==
    /\ th[t].pc = "pushed" => MidPush(th[t].side)
    /\ th[t].pc = "popped" => MidPop(th[t].side, th[t].full)
    /\ th[t].pc = "hangup" => MidHangup(th[t].side)

\* The signals agree when nobody is inside the lock, and are behind by what is still to be
\* done when somebody is.
SignalsInv ==
    /\ (\A t \in Thread : ~Inside(t)) => \A s \in Side : ends[s] => Agrees(s)
    /\ \A t \in Thread : Midway(t)

\* Nobody else is inside the lock when t is, or when it is free.
LEMMA InsideAlone ==
  ASSUME Inv, NEW t \in Thread, lock = none \/ Inside(t)
  PROVE  /\ \A u \in Thread : u # t => ~Inside(u)
         /\ lock = none => ~Inside(t)
<1>1. \A u \in Thread : Inside(u) => lock = u
  BY OfThread DEF Refers, Inside
<1> QED BY <1>1, ChannelAssumption

\* A step outside the lock leaves the signals alone.
LEMMA SignalsQuiet ==
  ASSUME SignalsInv, NEW t \in Thread, UNCHANGED pair, ~Inside(t), ~Inside(t)',
         \A u \in Thread : u # t => th'[u] = th[u]
  PROVE  SignalsInv'
<1>1. \A u \in Thread : Inside(u)' <=> Inside(u)
  BY DEF Inside
<1>2. \A s : /\ Agrees(s)' <=> Agrees(s)
             /\ MidPush(s)' <=> MidPush(s)
             /\ MidHangup(s)' <=> MidHangup(s)
             /\ \A f : MidPop(s, f)' <=> MidPop(s, f)
  BY DEF pair, Agrees, MidPush, MidPop, MidHangup, Readable, Full
<1>3. \A u \in Thread : Midway(u)'
  BY <1>2 DEF SignalsInv, Midway, Inside
<1>4. (\A u \in Thread : ~Inside(u)) => \A s \in Side : ends[s] => Agrees(s)
  BY DEF SignalsInv
<1>5. ends' = ends
  BY DEF pair
<1> QED BY <1>1, <1>2, <1>3, <1>4, <1>5 DEF SignalsInv

\* A step of a thread that goes into the lock or comes out of it.
LEMMA SignalsStep ==
  ASSUME Inv, NEW t \in Thread, lock = none \/ Inside(t),
         \A u \in Thread : u # t => th'[u] = th[u],
         Midway(t)', Inside(t)' \/ \A s \in Side : ends'[s] => Agrees(s)'
  PROVE  SignalsInv'
<1>1. \A u \in Thread : u # t => ~Inside(u)'
  BY InsideAlone DEF Inside
<1>2. \A u \in Thread : Midway(u)'
  BY <1>1 DEF Midway, Inside
<1> QED BY <1>1, <1>2 DEF SignalsInv

\* A call that returns is not inside the lock.
LEMMA ReturnOutside ==
  ASSUME Inv, NEW t \in Thread, NEW where, Return(t, where)
  PROVE  /\ th'[t].pc \in {"idle", "dtor"} /\ \A u \in Thread : u # t => th'[u] = th[u]
         /\ ~Inside(t)' /\ Midway(t)'
<1> DEFINE D == Dying(t, where)
<1>1. th' = [th EXCEPT ![t] = IF D = {} THEN Idle ELSE [Idle EXCEPT !.pc = "dtor", !.dying = D]]
  BY DEF Return
<1> HIDE DEF D
<1>2. th \in [Thread -> Records]
  BY Typed DEF Inv
<1>3. th'[t].pc \in {"idle", "dtor"} /\ \A u \in Thread : u # t => th'[u] = th[u]
  BY <1>1, <1>2 DEF Idle
<1> QED BY <1>3 DEF Inside, Midway

\* The signals of a pair nobody is changing.
LEMMA SignalsFree ==
  ASSUME Inv, SignalsInv, lock = none
  PROVE  \A s \in Side : ends[s] => Agrees(s)
<1>1. \A t \in Thread : ~Inside(t)
  BY InsideAlone
<1> QED BY <1>1 DEF SignalsInv

\* Before sys_channel_create no endpoint is alive, and nobody is inside the lock.
LEMMA InitSignals == Init => SignalsInv
BY DEF Init, SignalsInv, Midway, Idle

\* Steps of calls and of handles that do not touch the pair.
LEMMA OutsideSignals ==
  ASSUME Inv, SignalsInv, NEW t \in Thread, UNCHANGED pair,
         th[t].pc \notin {"pushed", "popped", "hangup"},
         \/ \E where : Return(t, where)
         \/ \E n \in Records : /\ th' = [th EXCEPT ![t] = n]
                               /\ n.pc \notin {"pushed", "popped", "hangup"}
         \/ \E p \in Points : /\ th' = [th EXCEPT ![t].pc = p]
                              /\ p \notin {"pushed", "popped", "hangup"}
  PROVE  SignalsInv'
<1>1. th \in [Thread -> Records]
  BY Typed DEF Inv
<1>2. ~Inside(t)' /\ \A u \in Thread : u # t => th'[u] = th[u]
  <2>1. CASE \E where : Return(t, where)
    BY <2>1, ReturnOutside
  <2>2. CASE \E n \in Records : /\ th' = [th EXCEPT ![t] = n]
                                /\ n.pc \notin {"pushed", "popped", "hangup"}
    BY <2>2, <1>1 DEF Inside
  <2>3. CASE \E p \in Points : /\ th' = [th EXCEPT ![t].pc = p]
                               /\ p \notin {"pushed", "popped", "hangup"}
    BY <2>3, <1>1 DEF Inside, Records
  <2> QED BY <2>1, <2>2, <2>3
<1> QED BY <1>2, SignalsQuiet DEF Inside

\* The steps that touch neither a queue nor the life of an endpoint leave the signals right.
LEMMA QuietSignals ==
  ASSUME Inv, SignalsInv, NEW t \in Thread,
         \/ CreateSecond(t) \/ SendCheck(t) \/ SendTake(t) \/ WriteReject(t) \/ ReadEmpty(t)
         \/ Deliver(t) \/ \E h \in Handle : CloseHandle(t, h)
  PROVE  SignalsInv'
<1>1. "take" \in Points /\ "write" \in Points
  BY DEF Points
<1>2. CASE CreateSecond(t)
  BY <1>2, OutsideSignals DEF CreateSecond, At
<1>3. CASE SendCheck(t)
  BY <1>1, <1>3, OutsideSignals DEF SendCheck, At
<1>4. CASE SendTake(t)
  BY <1>1, <1>4, OutsideSignals DEF SendTake, At
<1>5. CASE WriteReject(t)
  BY <1>5, OutsideSignals DEF WriteReject, At
<1>6. CASE ReadEmpty(t)
  BY <1>6, OutsideSignals DEF ReadEmpty, At
<1>7. CASE Deliver(t)
  BY <1>7, OutsideSignals DEF Deliver, At
<1>8. CASE \E h \in Handle : CloseHandle(t, h)
  BY <1>8, OutsideSignals DEF CloseHandle, At
<1> QED BY <1>2, <1>3, <1>4, <1>5, <1>6, <1>7, <1>8

\* A call that has only begun owes no signal.
LEMMA CallSignals ==
  ASSUME Inv, SignalsInv, NEW t \in Thread, NEW s \in Side,
         Recv(t, s) \/ \E b \in Body, h \in Handle \cup {none} : Send(t, s, b, h)
  PROVE  SignalsInv'
<1>1. CASE Recv(t, s)
  <2>1. [Idle EXCEPT !.pc = "read", !.side = s, !.refs = {s}] \in Records
    BY DEF Points, Idle, Records
  <2>2. [Idle EXCEPT !.pc = "read", !.side = s, !.refs = {s}].pc = "read"
    BY DEF Idle
  <2> QED BY <1>1, <2>1, <2>2, OutsideSignals DEF Recv, At
<1>2. ASSUME NEW b \in Body, NEW h \in Handle \cup {none}, Send(t, s, b, h) PROVE SignalsInv'
  <2> DEFINE n == [Idle EXCEPT !.pc = IF h = none THEN "write" ELSE "check", !.side = s,
                               !.refs = {s}, !.msg = [body |-> b, cargo |-> h]]
  <2>1. n \in Records /\ n.pc \in {"write", "check"}
    BY DEF Points, Idle, Message, Records
  <2>2. th' = [th EXCEPT ![t] = n] /\ UNCHANGED pair /\ th[t].pc = "idle"
    BY <1>2 DEF Send, At
  <2> HIDE DEF n
  <2> QED BY <2>1, <2>2, OutsideSignals
<1> QED BY <1>1, <1>2

\* sys_channel_create makes both ends alive, writable and not readable.
LEMMA CreateSignals ==
  ASSUME Inv, NEW t \in Thread, Create(t)
  PROVE  SignalsInv'
<1>1. \A s \in Side : count[s] = 0 /\ place[s] = "unborn"
  BY Parts, Sides DEF Create, Inv
<1>2. th \in [Thread -> Records] /\ \A u \in Thread : th[u].pc = "idle"
  BY <1>1, Typed, OfThread, Sides DEF Inv, Refers
<1>3. \A u \in Thread : th'[u].pc \in {"idle", "second", "dtor"}
  BY <1>2 DEF Create, Idle
<1>4. \A s \in Side : Agrees(s)'
  BY <1>1, Sides, ChannelAssumption DEF Create, Agrees, Readable, Full
<1> QED BY <1>3, <1>4 DEF SignalsInv, Midway, Inside

\* A write makes its peer readable, and holds the lock while its own WRITABLE is still to settle.
LEMMA WritePushSignals ==
  ASSUME Inv, SignalsInv, NEW t \in Thread, WritePush(t)
  PROVE  SignalsInv'
<1>1. PICK s \in Side, p \in Side : s = th[t].side /\ p = Peer(s) /\ s = Peer(p) /\ s # p
  BY OfThread, Sides DEF Side, Peer
<1>2. /\ lock = none /\ ends[s] /\ ends[p] /\ ends' = ends /\ ~Full(p) /\ th \in [Thread -> Records] /\ PairTyped
      /\ sig' = [sig EXCEPT ![p] = @ \cup {"READABLE"}] /\ count' = [count EXCEPT ![p] = @ + 1]
  BY <1>1, InCallFacts, Typed DEF WritePush, At, InCall, Inv
<1>3. Agrees(s) /\ Agrees(p)
  BY <1>2, SignalsFree
<1>4. /\ sig'[s] = sig[s] /\ sig'[p] = sig[p] \cup {"READABLE"}
      /\ count'[s] = count[s] /\ count'[p] = count[p] + 1 /\ count[p] \in Nat
  <2>1. sig'[s] = sig[s] /\ sig'[p] = sig[p] \cup {"READABLE"}
    BY <1>1, <1>2 DEF PairTyped
  <2>2. count'[s] = count[s] /\ count'[p] = count[p] + 1
    BY <1>1, <1>2 DEF PairTyped
  <2>3. count[p] \in Nat
    BY Slots, ChannelAssumption
  <2> QED BY <2>1, <2>2, <2>3
<1>5. MidPush(s)'
  BY <1>1, <1>2, <1>3, <1>4 DEF MidPush, Agrees, Readable, Full
<1>6. /\ th'[t].pc = "pushed" /\ th'[t].side = s /\ \A u \in Thread : u # t => th'[u] = th[u]
  <2>1. /\ th'[t] = [th[t] EXCEPT !.pc = "pushed", !.msg = NoMessage] /\ th[t] \in Records
        /\ \A u \in Thread : u # t => th'[u] = th[u]
    BY <1>2 DEF WritePush
  <2> QED BY <2>1, <1>1 DEF Records
<1>7. Midway(t)' /\ Inside(t)'
  BY <1>5, <1>6 DEF Midway, Inside
<1> QED BY <1>2, <1>6, <1>7, SignalsStep

\* A write that filled the queue clears its own WRITABLE before it leaves the lock.
LEMMA WriteDoneSignals ==
  ASSUME Inv, SignalsInv, NEW t \in Thread, WriteDone(t)
  PROVE  SignalsInv'
<1>1. PICK s \in Side, p \in Side : s = th[t].side /\ p = Peer(s) /\ s = Peer(p) /\ s # p
  BY OfThread, Sides DEF Side, Peer
<1>2. /\ th[t].pc = "pushed" /\ ends' = ends /\ count' = count /\ PairTyped /\ Return(t, place) /\ Inside(t)
      /\ sig' = [sig EXCEPT ![s] = IF Full(p) THEN sig[s] \ {"WRITABLE"} ELSE sig[s]]
  BY <1>1, Typed DEF WriteDone, At, Inv, AfterPush, Inside
<1>3. MidPush(s)
  BY <1>1, <1>2 DEF SignalsInv, Midway
<1>4. sig'[p] = sig[p] /\ sig'[s] = IF Full(p) THEN sig[s] \ {"WRITABLE"} ELSE sig[s]
  BY <1>1, <1>2 DEF PairTyped
<1>5. Agrees(s)' /\ Agrees(p)'
  BY <1>1, <1>2, <1>3, <1>4 DEF MidPush, Agrees, Readable, Full
<1>6. \A r \in Side : r = s \/ r = p
  BY <1>1 DEF Side
<1> QED BY <1>2, <1>5, <1>6, ReturnOutside, SignalsStep

\* A read that empties the queue clears READABLE under the lock that took the message.
LEMMA ReadPopSignals ==
  ASSUME Inv, SignalsInv, NEW t \in Thread, ReadPop(t)
  PROVE  SignalsInv'
<1>1. PICK s \in Side, p \in Side : s = th[t].side /\ p = Peer(s) /\ s = Peer(p) /\ s # p
  BY OfThread, Sides DEF Side, Peer
<1>2. /\ lock = none /\ ends[s] /\ ends' = ends /\ count[s] > 0 /\ th \in [Thread -> Records] /\ PairTyped
      /\ sig' = [sig EXCEPT ![s] = IF count[s] = 1 THEN @ \ {"READABLE"} ELSE @]
      /\ count' = [count EXCEPT ![s] = @ - 1]
  BY <1>1, InCallFacts, Typed DEF ReadPop, At, InCall, Inv
<1>3. Agrees(s) /\ (ends[p] => Agrees(p))
  BY <1>2, SignalsFree
<1>4. /\ sig'[p] = sig[p] /\ sig'[s] = (IF count[s] = 1 THEN sig[s] \ {"READABLE"} ELSE sig[s])
      /\ count'[p] = count[p] /\ count'[s] = count[s] - 1 /\ count[s] \in 0..QUEUE_DEPTH
  BY <1>1, <1>2 DEF PairTyped
<1>5. /\ th'[t].pc = "popped" /\ th'[t].side = s /\ th'[t].full = Full(s)
      /\ \A u \in Thread : u # t => th'[u] = th[u]
  <2>1. /\ th'[t] = [th[t] EXCEPT !.pc = "popped", !.msg = slots[s][head[s]], !.full = Full(s)]
        /\ th[t] \in Records /\ \A u \in Thread : u # t => th'[u] = th[u]
    BY <1>1, <1>2 DEF ReadPop
  <2> QED BY <2>1, <1>1 DEF Records
<1>6. Agrees(s)' /\ ~Full(s)'
  BY <1>1, <1>2, <1>3, <1>4, ChannelAssumption DEF Agrees, Readable, Full
<1>7. MidPop(s, th[t].full)'
  BY <1>1, <1>2, <1>3, <1>4, <1>5, <1>6 DEF MidPop, Agrees, Readable
<1>8. Midway(t)' /\ Inside(t)'
  BY <1>5, <1>7 DEF Midway, Inside
<1> QED BY <1>2, <1>5, <1>8, SignalsStep

\* A read of a full queue makes the writer writable before it leaves the lock.
LEMMA ReadDoneSignals ==
  ASSUME Inv, SignalsInv, NEW t \in Thread, ReadDone(t)
  PROVE  SignalsInv'
<1>1. PICK s \in Side, p \in Side : s = th[t].side /\ p = Peer(s) /\ s = Peer(p) /\ s # p
  BY OfThread, Sides DEF Side, Peer
<1>2. /\ th[t].pc = "popped" /\ ends' = ends /\ count' = count /\ PairTyped /\ Inside(t) /\ ends[s]
      /\ sig' = [sig EXCEPT ![p] = IF th[t].full /\ ends[p] THEN @ \cup {"WRITABLE"} ELSE @]
  BY <1>1, InCallFacts, Typed DEF ReadDone, At, InCall, Inv, Inside
<1>3. MidPop(s, th[t].full)
  BY <1>1, <1>2 DEF SignalsInv, Midway
<1>4. sig'[s] = sig[s] /\ sig'[p] = IF th[t].full /\ ends[p] THEN sig[p] \cup {"WRITABLE"} ELSE sig[p]
  BY <1>1, <1>2 DEF PairTyped
<1>5. Agrees(s)' /\ (ends[p] => Agrees(p)')
  <2>1. Agrees(s)'
    BY <1>1, <1>2, <1>3, <1>4 DEF MidPop, Agrees, Readable, Full
  <2>2. CASE ends[p] /\ th[t].full
    BY <2>2, <1>1, <1>2, <1>3, <1>4 DEF MidPop, Agrees, Readable, Full
  <2>3. CASE ends[p] /\ ~th[t].full
    BY <2>3, <1>1, <1>2, <1>3, <1>4 DEF MidPop, Agrees, Readable, Full
  <2> QED BY <2>1, <2>2, <2>3
<1>6. \A r \in Side : ends'[r] => Agrees(r)'
  BY <1>1, <1>2, <1>5 DEF Side
<1>7. Midway(t)' /\ \A u \in Thread : u # t => th'[u] = th[u]
  <2>1. CASE Return(t, Closed(Owned(t)))
    BY <2>1, ReturnOutside
  <2>2. CASE th' = [th EXCEPT ![t].pc = "deliver"]
    BY <2>2, Typed DEF Inv, Records, Midway
  <2> QED BY <2>1, <2>2 DEF ReadDone
<1> QED BY <1>2, <1>6, <1>7, SignalsStep

\* A destructor clears its peer's WRITABLE and keeps the lock until the hangup; the last one has no peer.
LEMMA DtorSignals ==
  ASSUME Inv, SignalsInv, NEW t \in Thread, NEW s \in Side, DtorUnlink(t, s) \/ DtorLast(t, s)
  PROVE  SignalsInv'
<1>1. PICK p \in Side : p = Peer(s) /\ s = Peer(p) /\ s # p /\ \A r \in Side : r = s \/ r = p
  BY Sides DEF Side, Peer
<1>2. /\ th[t].pc = "dtor" /\ lock = none /\ th \in [Thread -> Records] /\ PairTyped
      /\ ends \in [Side -> BOOLEAN] /\ ends' = [ends EXCEPT ![s] = FALSE]
  BY Typed DEF DtorUnlink, DtorLast, At, Inv
<1>3. CASE DtorUnlink(t, s)
  <2>1. ends[p] /\ Agrees(p) /\ ~ends'[s] /\ count' = count /\ sig'[p] = sig[p] \ {"WRITABLE"}
    BY <1>1, <1>2, <1>3, SignalsFree DEF DtorUnlink, Hangup, PairTyped
  <2>2. MidHangup(s)'
    BY <1>1, <2>1 DEF MidHangup, Agrees, Readable
  <2>3. th'[t].pc = "hangup" /\ th'[t].side = s /\ \A u \in Thread : u # t => th'[u] = th[u]
    BY <1>2, <1>3 DEF DtorUnlink, Records
  <2>4. Midway(t)' /\ Inside(t)'
    BY <2>2, <2>3 DEF Midway, Inside
  <2> QED BY <1>2, <2>3, <2>4, SignalsStep
<1>4. CASE DtorLast(t, s)
  <2>1. \A r \in Side : ~ends'[r]
    BY <1>1, <1>2, <1>4 DEF DtorLast
  <2>2. th'[t].pc \in {"idle", "dtor"} /\ \A u \in Thread : u # t => th'[u] = th[u]
    BY <1>2, <1>4 DEF DtorLast, Records, Idle
  <2>3. Midway(t)'
    BY <2>2 DEF Midway
  <2> QED BY <1>2, <2>1, <2>2, <2>3, SignalsStep
<1> QED BY <1>3, <1>4

\* The hangup sets PEER_CLOSED on the peer that the destructor found alive.
LEMMA DtorHangupSignals ==
  ASSUME Inv, SignalsInv, NEW t \in Thread, DtorHangup(t)
  PROVE  SignalsInv'
<1>1. PICK s \in Side, p \in Side : s = th[t].side /\ p = Peer(s) /\ s = Peer(p) /\ s # p
  BY OfThread, Sides DEF Side, Peer
<1>2. /\ th[t].pc = "hangup" /\ ends' = ends /\ count' = count /\ PairTyped /\ Inside(t)
      /\ th \in [Thread -> Records] /\ sig' = [sig EXCEPT ![p] = @ \cup {"PEER_CLOSED"}]
  BY <1>1, Typed DEF DtorHangup, At, Inv, Inside
<1>3. MidHangup(s) /\ sig'[p] = sig[p] \cup {"PEER_CLOSED"}
  BY <1>1, <1>2 DEF SignalsInv, Midway, PairTyped
<1>4. Agrees(p)' /\ ~ends'[s]
  BY <1>1, <1>2, <1>3 DEF MidHangup, Agrees, Readable, Full
<1>5. \A r \in Side : ends'[r] => Agrees(r)'
  BY <1>1, <1>4 DEF Side
<1>6. th'[t].pc \in {"idle", "dtor"} /\ \A u \in Thread : u # t => th'[u] = th[u]
  BY <1>2 DEF DtorHangup, Records, Idle
<1>7. Midway(t)'
  BY <1>6 DEF Midway
<1> QED BY <1>2, <1>5, <1>6, <1>7, SignalsStep

\* Every step of the channel keeps the signals true to the queues.
LEMMA NextSignals ==
  ASSUME Inv, SignalsInv, [Next]_vars
  PROVE  SignalsInv'
<1>1. CASE UNCHANGED vars
  BY <1>1 DEF vars, pair, SignalsInv, Inside, Midway, MidPush, MidPop, MidHangup, Agrees, Readable, Full
<1>2. ASSUME NEW t \in Thread, Step(t) PROVE SignalsInv'
  BY <1>2, CreateSignals, QuietSignals, CallSignals, WritePushSignals, WriteDoneSignals, ReadPopSignals,
     ReadDoneSignals, DtorSignals, DtorHangupSignals DEF Step
<1> QED BY <1>1, <1>2 DEF Next

\* Whenever the lock of the pair is free the signals of a live endpoint say what its next read
\* and write would find and whether its peer is gone, so nobody waits for a signal on a queue it
\* could use (write, read and ~Channel, each of which sets them in steps under the lock).
THEOREM SignalsTrue == Spec => []SignalsAgree
<1>1. ASSUME Inv, SignalsInv PROVE SignalsAgree
  BY <1>1, SignalsFree DEF SignalsAgree, Agrees, Readable
<1>2. Spec => []SignalsInv
  BY InitSignals, NextSignals, Invariance, PTL DEF Spec
<1> QED BY <1>1, <1>2, Invariance, PTL

----------------------------------------------------------------------------
(* Handles in escrow.                                                      *)

\* Handle h is named by the message in slot i of side s, or by the message thread t holds.
InSlot(h, s, i) == slots[s][i].cargo = h
InHand(h, t) == th[t].pc \in {"write", "popped", "deliver"} /\ th[t].msg.cargo = h

\* Slots behind the last message are empty, so a push overwrites nothing.
Cleared ==
    \A s \in Side, j \in 0..(QUEUE_DEPTH - 1) :
        count[s] <= j => slots[s][(head[s] + j) % QUEUE_DEPTH] = NoMessage

\* A handle is named once if it is in escrow, and not at all otherwise.
NamedOnce(h) ==
    /\ \A s \in Side, i \in 0..(QUEUE_DEPTH - 1) : InSlot(h, s, i) => place[h] = "escrow"
    /\ \A t \in Thread : InHand(h, t) => place[h] = "escrow"
    /\ place[h] = "escrow" => \/ \E s \in Side, i \in 0..(QUEUE_DEPTH - 1) : InSlot(h, s, i)
                              \/ \E t \in Thread : InHand(h, t)
    /\ \A s \in Side, i \in 0..(QUEUE_DEPTH - 1) : InSlot(h, s, i) =>
          /\ \A t \in Thread : ~InHand(h, t)
          /\ \A r \in Side, j \in 0..(QUEUE_DEPTH - 1) : InSlot(h, r, j) => r = s /\ j = i
    /\ \A t, u \in Thread : InHand(h, t) /\ InHand(h, u) => t = u

EscrowInv == Cleared /\ \A h \in Handle : NamedOnce(h)

\* No handle is also the absence of one.
LEMMA NoneCargo == NoMessage.cargo \notin Handle /\ none \notin Handle
BY ChannelAssumption DEF NoMessage, Handle

\* Before sys_channel_create nothing is in escrow.
LEMMA InitEscrow == Init => EscrowInv
<1> SUFFICES ASSUME Init PROVE EscrowInv
  OBVIOUS
<1>1. \A s \in Side, i \in 0..(QUEUE_DEPTH - 1) : slots[s][i] = NoMessage
  BY DEF Init
<1>2. Cleared
  <2>1. ASSUME NEW s \in Side, NEW j \in 0..(QUEUE_DEPTH - 1)
        PROVE  slots[s][(head[s] + j) % QUEUE_DEPTH] = NoMessage
    <3>1. head[s] + j \in Nat
      BY ChannelAssumption DEF Init
    <3> QED BY <3>1, <1>1, ModRange
  <2> QED BY <2>1 DEF Cleared
<1>3. \A h \in Handle : place[h] # "escrow" /\ \A t \in Thread : ~InHand(h, t)
  BY DEF Init, InHand, Idle
<1>4. \A h \in Handle, s \in Side, i \in 0..(QUEUE_DEPTH - 1) : ~InSlot(h, s, i)
  BY <1>1, NoneCargo DEF InSlot
<1> QED BY <1>2, <1>3, <1>4 DEF EscrowInv, NamedOnce

\* A step that leaves the rings, the messages in hand and what is in escrow alone.
LEMMA EscrowKept ==
  ASSUME EscrowInv, slots' = slots, head' = head, count' = count,
         \A h \in Handle : place'[h] = "escrow" <=> place[h] = "escrow",
         \A h \in Handle, u \in Thread : InHand(h, u)' <=> InHand(h, u)
  PROVE  EscrowInv'
<1>1. Cleared'
  BY DEF EscrowInv, Cleared
<1>2. ASSUME NEW h \in Handle PROVE NamedOnce(h)'
  <2>1. NamedOnce(h) /\ \A s, i : InSlot(h, s, i)' <=> InSlot(h, s, i)
    BY DEF EscrowInv, InSlot
  <2> QED BY <2>1 DEF NamedOnce
<1> QED BY <1>1, <1>2 DEF EscrowInv

\* A call ends: the handle of the message it holds leaves escrow, the others stay as they are.
LEMMA EscrowReturn ==
  ASSUME Inv, EscrowInv, NEW t \in Thread, NEW where, Return(t, where),
         slots' = slots, head' = head, count' = count,
         \A h \in Handle : InHand(h, t) => where[h] # "escrow",
         \A h \in Handle : ~InHand(h, t) => (where[h] = "escrow" <=> place[h] = "escrow")
  PROVE  EscrowInv'
<1>1. place' = where
  BY DEF Return
<1>2. \A h : ~InHand(h, t)' /\ \A u \in Thread : u # t => (InHand(h, u)' <=> InHand(h, u))
  BY ReturnOutside DEF InHand
<1>3. Cleared'
  BY DEF EscrowInv, Cleared
<1>4. ASSUME NEW h \in Handle PROVE NamedOnce(h)'
  <2>1. NamedOnce(h) /\ \A s, i : InSlot(h, s, i)' <=> InSlot(h, s, i)
    BY DEF EscrowInv, InSlot
  <2>2. CASE InHand(h, t)
    <3>1. /\ \A s \in Side, i \in 0..(QUEUE_DEPTH - 1) : ~InSlot(h, s, i)'
          /\ \A u \in Thread : ~InHand(h, u)'
      BY <1>2, <2>1, <2>2 DEF NamedOnce
    <3> QED BY <3>1, <1>1, <2>2 DEF NamedOnce
  <2>3. CASE ~InHand(h, t)
    <3>1. /\ place'[h] = "escrow" <=> place[h] = "escrow"
          /\ \A u \in Thread : InHand(h, u)' <=> InHand(h, u)
      BY <1>1, <1>2, <2>3
    <3> QED BY <3>1, <2>1 DEF NamedOnce
  <2> QED BY <2>2, <2>3
<1> QED BY <1>3, <1>4 DEF EscrowInv

\* What closing a set of handles does to the place of one.
LEMMA ClosedPlace == ASSUME NEW lost, NEW h \in Handle
                     PROVE  Closed(lost)[h] = IF h \in lost THEN "gone" ELSE place[h]
BY DEF Closed

\* The handle sys_channel_create puts in the table is in no message.
LEMMA CreateEscrow ==
  ASSUME Inv, EscrowInv, NEW t \in Thread, Create(t)
  PROVE  EscrowInv'
<1>1. \A s \in Side : place[s] = "unborn"
  BY DEF Create
<1>2. th \in [Thread -> Records] /\ place \in Places /\ \A u \in Thread : th[u].pc = "idle"
  BY <1>1, Typed, OfThread, Sides DEF Inv, Refers
<1>3. \A u \in Thread : th'[u].pc \in {"idle", "second", "dtor"}
  BY <1>2 DEF Create, Idle
<1>4. \A h \in Handle, u \in Thread : InHand(h, u)' <=> InHand(h, u)
  BY <1>2, <1>3 DEF InHand
<1>5. \A h \in Handle : place'[h] = "escrow" <=> place[h] = "escrow"
  <2>1. CASE place' = [place EXCEPT ![0] = "table"]
    BY <2>1, <1>1, <1>2, Sides DEF Places
  <2>2. CASE place' = Closed(Side)
    BY <2>2, <1>1, ClosedPlace
  <2> QED BY <2>1, <2>2 DEF Create
<1> QED BY <1>4, <1>5, EscrowKept DEF Create

\* Nor is the second one; a failed insert closes both.
LEMMA CreateSecondEscrow ==
  ASSUME Inv, EscrowInv, NEW t \in Thread, CreateSecond(t)
  PROVE  EscrowInv'
<1>1. place[1] = "unborn" /\ place \in Places /\ \A h : ~InHand(h, t)
  BY OfThread, Typed DEF CreateSecond, At, Refers, Inv, InHand
<1>2. slots' = slots /\ head' = head /\ count' = count
  BY DEF CreateSecond, pair
<1>3. CASE Return(t, [place EXCEPT ![1] = "table"])
  <2>1. \A h \in Handle : [place EXCEPT ![1] = "table"][h] = "escrow" <=> place[h] = "escrow"
    BY <1>1 DEF Places
  <2> QED BY <1>1, <1>2, <1>3, <2>1, EscrowReturn
<1>4. CASE Return(t, Closed({1} \cup (IF place[0] = "table" THEN {0} ELSE {})))
  <2> DEFINE lost == {1} \cup (IF place[0] = "table" THEN {0} ELSE {})
  <2>1. \A h \in lost : place[h] # "escrow"
    BY <1>1
  <2> HIDE DEF lost
  <2>2. \A h \in Handle : Closed(lost)[h] = "escrow" <=> place[h] = "escrow"
    BY <2>1, ClosedPlace
  <2>3. Return(t, Closed(lost))
    BY <1>4 DEF lost
  <2> QED BY <1>1, <1>2, <2>2, <2>3, EscrowReturn
<1> QED BY <1>3, <1>4 DEF CreateSecond

\* A call that holds no message ends with the handles as they are.
LEMMA PlainEscrow ==
  ASSUME Inv, EscrowInv, NEW t \in Thread, Return(t, place), th[t].pc \notin {"write", "popped", "deliver"},
         slots' = slots, head' = head, count' = count
  PROVE  EscrowInv'
<1>1. \A h : ~InHand(h, t)
  BY DEF InHand
<1> QED BY <1>1, EscrowReturn

\* A call that holds a message closes its handle.
LEMMA DiscardEscrow ==
  ASSUME Inv, EscrowInv, NEW t \in Thread, Return(t, Closed(Owned(t))), th[t].pc \in {"write", "popped", "deliver"},
         slots' = slots, head' = head, count' = count
  PROVE  EscrowInv'
<1>1. \A h \in Handle : InHand(h, t) <=> h \in Owned(t)
  BY NoneCargo DEF InHand, Owned
<1>2. \A h \in Handle : Closed(Owned(t))[h] = IF h \in Owned(t) THEN "gone" ELSE place[h]
  BY ClosedPlace
<1> QED BY <1>1, <1>2, EscrowReturn

\* A thread that holds no message and then holds none that names a handle.
LEMMA EmptyHands ==
  ASSUME Inv, EscrowInv, NEW t \in Thread, NEW n \in Records, th' = [th EXCEPT ![t] = n],
         \A h \in Handle : ~InHand(h, t) /\ ~(n.pc \in {"write", "popped", "deliver"} /\ n.msg.cargo = h),
         slots' = slots, head' = head, count' = count, place' = place
  PROVE  EscrowInv'
<1>1. th'[t] = n /\ \A u \in Thread : u # t => th'[u] = th[u]
  BY Typed DEF Inv
<1>2. \A h \in Handle, u \in Thread : InHand(h, u)' <=> InHand(h, u)
  BY <1>1 DEF InHand
<1> QED BY <1>2, EscrowKept

\* A call that has only begun has taken nothing.
LEMMA CallEscrow ==
  ASSUME Inv, EscrowInv, NEW t \in Thread, NEW s \in Side,
         Recv(t, s) \/ \E b \in Body, h \in Handle \cup {none} : Send(t, s, b, h)
  PROVE  EscrowInv'
<1>1. CASE Recv(t, s)
  <2> DEFINE n == [Idle EXCEPT !.pc = "read", !.side = s, !.refs = {s}]
  <2>1. n \in Records /\ n.pc = "read"
    BY DEF Points, Idle, Records
  <2>2. \A h : ~InHand(h, t)
    BY <1>1 DEF Recv, At, InHand
  <2>3. /\ th' = [th EXCEPT ![t] = n]
        /\ slots' = slots /\ head' = head /\ count' = count /\ place' = place
    BY <1>1 DEF Recv, pair
  <2> HIDE DEF n
  <2> QED BY <2>1, <2>2, <2>3, EmptyHands
<1>2. ASSUME NEW b \in Body, NEW g \in Handle \cup {none}, Send(t, s, b, g) PROVE EscrowInv'
  <2> DEFINE n == [Idle EXCEPT !.pc = IF g = none THEN "write" ELSE "check", !.side = s,
                               !.refs = {s}, !.msg = [body |-> b, cargo |-> g]]
  <2>1. n \in Records /\ n.pc = (IF g = none THEN "write" ELSE "check") /\ n.msg.cargo = g
    BY DEF Points, Idle, Message, Records
  <2>2. /\ th' = [th EXCEPT ![t] = n]
        /\ slots' = slots /\ head' = head /\ count' = count /\ place' = place
    BY <1>2 DEF Send, pair
  <2> HIDE DEF n
  <2>3. \A h : ~InHand(h, t)
    BY <1>2 DEF Send, At, InHand
  <2>4. \A h \in Handle : ~(n.pc \in {"write", "popped", "deliver"} /\ n.msg.cargo = h)
    BY <2>1, NoneCargo
  <2> QED BY <2>1, <2>2, <2>3, <2>4, EmptyHands
<1> QED BY <1>1, <1>2

\* sys_channel_send moves a handle out of the table into its own hands alone.
LEMMA SendTakeEscrow ==
  ASSUME Inv, EscrowInv, NEW t \in Thread, SendTake(t)
  PROVE  EscrowInv'
<1> DEFINE g == th[t].msg.cargo
<1>1. /\ th[t].pc = "take" /\ slots' = slots /\ head' = head /\ count' = count
      /\ th \in [Thread -> Records] /\ place \in Places /\ g \in Handle \cup {none}
  BY OfThread, Typed DEF SendTake, At, pair, Inv, Refers, Message
<1>2. \A h : ~InHand(h, t)
  BY <1>1 DEF InHand
<1>3. CASE Return(t, place)
  BY <1>1, <1>3, PlainEscrow
<1>4. CASE place[g] = "table" /\ Return(t, Closed({g}))
  <2>1. \A h \in Handle : Closed({g})[h] = "escrow" <=> place[h] = "escrow"
    BY <1>4, ClosedPlace
  <2> QED BY <1>1, <1>2, <1>4, <2>1, EscrowReturn
<1>5. CASE /\ place[g] = "table" /\ place' = [place EXCEPT ![g] = "escrow"]
           /\ th' = [th EXCEPT ![t].pc = "write"]
  <2>1. \A h \in Handle : place'[h] = IF h = g THEN "escrow" ELSE place[h]
    BY <1>1, <1>5 DEF Places
  <2>2. /\ th'[t].pc = "write" /\ th'[t].msg.cargo = g
        /\ \A u \in Thread : u # t => th'[u] = th[u]
    BY <1>1, <1>5 DEF Records
  <2>3. \A h : /\ InHand(h, t)' <=> h = g
               /\ \A u \in Thread : u # t => (InHand(h, u)' <=> InHand(h, u))
    BY <2>2 DEF InHand
  <2>4. Cleared'
    BY <1>1 DEF EscrowInv, Cleared
  <2>5. ASSUME NEW h \in Handle PROVE NamedOnce(h)'
    <3>1. NamedOnce(h) /\ \A s, i : InSlot(h, s, i)' <=> InSlot(h, s, i)
      BY <1>1 DEF EscrowInv, InSlot
    <3>2. CASE h = g
      <4>1. place[h] = "table" /\ place'[h] = "escrow"
        BY <1>5, <2>1, <3>2
      <4>2. /\ \A s \in Side, i \in 0..(QUEUE_DEPTH - 1) : ~InSlot(h, s, i)
            /\ \A u \in Thread : ~InHand(h, u)
        BY <4>1, <3>1 DEF NamedOnce
      <4>3. /\ \A s \in Side, i \in 0..(QUEUE_DEPTH - 1) : ~InSlot(h, s, i)'
            /\ \A u \in Thread : InHand(h, u)' <=> u = t
        BY <4>2, <2>3, <3>1, <3>2
      <4> QED BY <4>1, <4>3 DEF NamedOnce
    <3>3. CASE h # g
      <4>1. place'[h] = place[h] /\ \A u \in Thread : InHand(h, u)' <=> InHand(h, u)
        BY <1>2, <2>1, <2>3, <3>3
      <4> QED BY <4>1, <3>1 DEF NamedOnce
    <3> QED BY <3>2, <3>3
  <2> QED BY <2>4, <2>5 DEF EscrowInv
<1> QED BY <1>3, <1>4, <1>5 DEF SendTake

\* The steps that move no handle leave every handle with its owner.
LEMMA QuietEscrow ==
  ASSUME Inv, EscrowInv, NEW t \in Thread,
         \/ SendCheck(t) \/ WriteReject(t) \/ WriteDone(t) \/ ReadEmpty(t) \/ ReadDone(t)
         \/ \E h \in Handle : CloseHandle(t, h)
  PROVE  EscrowInv'
<1>1. th \in [Thread -> Records]
  BY Typed DEF Inv
<1>2. slots' = slots /\ head' = head /\ count' = count
  BY DEF SendCheck, WriteReject, WriteDone, ReadEmpty, ReadDone, CloseHandle, pair
<1>3. CASE SendCheck(t)
  <2>1. CASE Return(t, place)
    BY <1>2, <1>3, <2>1, PlainEscrow DEF SendCheck, At
  <2>2. CASE th' = [th EXCEPT ![t].pc = "take"] /\ place' = place
    <3>1. th[t].pc = "check" /\ th'[t].pc = "take" /\ \A u \in Thread : u # t => th'[u] = th[u]
      BY <1>1, <1>3, <2>2 DEF SendCheck, At, Records
    <3>2. \A h \in Handle, u \in Thread : InHand(h, u)' <=> InHand(h, u)
      BY <3>1 DEF InHand
    <3> QED BY <1>2, <2>2, <3>2, EscrowKept
  <2> QED BY <1>3, <2>1, <2>2 DEF SendCheck
<1>4. CASE WriteReject(t)
  BY <1>2, <1>4, DiscardEscrow DEF WriteReject, At
<1>5. CASE WriteDone(t)
  BY <1>2, <1>5, PlainEscrow DEF WriteDone, At
<1>6. CASE ReadEmpty(t)
  BY <1>2, <1>6, PlainEscrow DEF ReadEmpty, At
<1>7. CASE ReadDone(t)
  <2>1. CASE Return(t, Closed(Owned(t)))
    BY <1>2, <1>7, <2>1, DiscardEscrow DEF ReadDone, At
  <2>2. CASE th' = [th EXCEPT ![t].pc = "deliver"] /\ place' = place
    <3>1. /\ th[t].pc = "popped" /\ th'[t].pc = "deliver" /\ th'[t].msg = th[t].msg
          /\ \A u \in Thread : u # t => th'[u] = th[u]
      BY <1>1, <1>7, <2>2 DEF ReadDone, At, Records
    <3>2. \A h \in Handle, u \in Thread : InHand(h, u)' <=> InHand(h, u)
      BY <3>1 DEF InHand
    <3> QED BY <1>2, <2>2, <3>2, EscrowKept
  <2> QED BY <1>7, <2>1, <2>2 DEF ReadDone
<1>8. ASSUME NEW g \in Handle, CloseHandle(t, g) PROVE EscrowInv'
  <2>1. th[t].pc = "idle" /\ place[g] = "table" /\ Return(t, Closed({g}))
    BY <1>8 DEF CloseHandle, At
  <2>2. \A h : ~InHand(h, t)
    BY <2>1 DEF InHand
  <2>3. \A h \in Handle : Closed({g})[h] = "escrow" <=> place[h] = "escrow"
    BY <2>1, ClosedPlace
  <2> QED BY <1>2, <2>1, <2>2, <2>3, EscrowReturn
<1> QED BY <1>3, <1>4, <1>5, <1>6, <1>7, <1>8

\* sys_channel_recv puts the handle of the message it holds into the table, or closes it.
LEMMA DeliverEscrow ==
  ASSUME Inv, EscrowInv, NEW t \in Thread, Deliver(t)
  PROVE  EscrowInv'
<1> DEFINE g == th[t].msg.cargo
<1>1. /\ th[t].pc = "deliver" /\ slots' = slots /\ head' = head /\ count' = count /\ place \in Places
  BY Typed DEF Deliver, At, pair, Inv
<1>2. CASE Return(t, Closed(Owned(t)))
  BY <1>1, <1>2, DiscardEscrow
<1>3. CASE Return(t, [place EXCEPT ![g] = "table"])
  <2> DEFINE where == [place EXCEPT ![g] = "table"]
  <2>1. \A h \in Handle : where[h] = IF h = g THEN "table" ELSE place[h]
    BY <1>1 DEF Places
  <2>2. \A h \in Handle : InHand(h, t) <=> h = g
    BY <1>1 DEF InHand
  <2>3. Return(t, where)
    BY <1>3
  <2> HIDE DEF where, g
  <2> QED BY <1>1, <2>1, <2>2, <2>3, EscrowReturn
<1> QED BY <1>2, <1>3 DEF Deliver

\* A write hands its cargo to the slot it fills, and to no other.
LEMMA WritePushEscrow ==
  ASSUME Inv, EscrowInv, NEW t \in Thread, WritePush(t)
  PROVE  EscrowInv'
<1>1. PICK p \in Side, m \in Message : p = Peer(th[t].side) /\ m = th[t].msg
  BY OfThread, Sides DEF WritePush, At, Refers
<1>2. /\ th[t].pc = "write" /\ ~Full(p) /\ head' = head /\ place' = place
      /\ count' = [count EXCEPT ![p] = @ + 1] /\ slots' = [slots EXCEPT ![p][TailSlot(p)] = m]
      /\ th \in [Thread -> Records] /\ PairTyped
  BY <1>1, Typed DEF WritePush, At, Inv
<1>3. /\ TailSlot(p) \in 0..(QUEUE_DEPTH - 1) /\ count[p] \in 0..(QUEUE_DEPTH - 1) /\ QUEUE_DEPTH \in Nat \ {0}
      /\ head[p] \in 0..(QUEUE_DEPTH - 1)
  BY <1>2, Slots, ChannelAssumption DEF Full
<1>4. slots[p][TailSlot(p)] = NoMessage
  BY <1>3 DEF EscrowInv, Cleared, TailSlot
<1>5. \A s \in Side, i \in 0..(QUEUE_DEPTH - 1) :
         slots'[s][i] = IF s = p /\ i = TailSlot(p) THEN m ELSE slots[s][i]
  BY <1>2, <1>3 DEF PairTyped
<1>6. Cleared'
  <2>1. ASSUME NEW s \in Side, NEW j \in 0..(QUEUE_DEPTH - 1), count'[s] <= j
        PROVE  slots'[s][(head[s] + j) % QUEUE_DEPTH] = NoMessage
    <3>1. head[s] \in 0..(QUEUE_DEPTH - 1) /\ count[s] \in 0..QUEUE_DEPTH
      BY Slots
    <3>2. (head[s] + j) % QUEUE_DEPTH \in 0..(QUEUE_DEPTH - 1)
      <4>1. head[s] + j \in Nat
        BY <3>1, <1>3
      <4> QED BY <4>1, ModRange
    <3>3. count'[s] = IF s = p THEN count[s] + 1 ELSE count[s]
      BY <1>2 DEF PairTyped
    <3>4. count[s] <= j
      BY <2>1, <3>1, <3>3, <1>3
    <3>5. slots[s][(head[s] + j) % QUEUE_DEPTH] = NoMessage
      BY <3>4 DEF EscrowInv, Cleared
    <3>6. s = p => (head[s] + j) % QUEUE_DEPTH # TailSlot(p)
      <4>1. SUFFICES ASSUME s = p PROVE (head[p] + j) % QUEUE_DEPTH # TailSlot(p)
        OBVIOUS
      <4>2. count[p] + 1 \in 1..j /\ head[p] + (count[p] + 1) - 1 = head[p] + count[p]
        BY <4>1, <2>1, <3>3, <1>3
      <4>3. (head[p] + (count[p] + 1) - 1) % QUEUE_DEPTH # (head[p] + j) % QUEUE_DEPTH
        BY <4>2, <1>3, SlotsApart
      <4> QED BY <4>2, <4>3 DEF TailSlot
    <3> QED BY <1>5, <3>2, <3>5, <3>6
  <2> QED BY <1>2, <2>1 DEF Cleared
<1>7. th'[t].pc = "pushed" /\ \A u \in Thread : u # t => th'[u] = th[u]
  BY <1>2 DEF WritePush, Records
<1>8. \A h : ~InHand(h, t)' /\ \A u \in Thread : u # t => (InHand(h, u)' <=> InHand(h, u))
  BY <1>7 DEF InHand
<1>9. ASSUME NEW h \in Handle PROVE NamedOnce(h)'
  <2>1. NamedOnce(h) /\ ~InSlot(h, p, TailSlot(p)) /\ (InHand(h, t) <=> m.cargo = h)
    BY <1>1, <1>2, <1>4, NoneCargo DEF EscrowInv, InSlot, InHand
  <2>2. \A s \in Side, i \in 0..(QUEUE_DEPTH - 1) :
           InSlot(h, s, i)' <=> IF s = p /\ i = TailSlot(p) THEN m.cargo = h ELSE InSlot(h, s, i)
    BY <1>5 DEF InSlot
  <2>3. CASE m.cargo = h
    <3>1. /\ place[h] = "escrow"
          /\ \A s \in Side, i \in 0..(QUEUE_DEPTH - 1) : InSlot(h, s, i)' <=> s = p /\ i = TailSlot(p)
      BY <2>1, <2>2, <2>3 DEF NamedOnce
    <3>2. \A u \in Thread : ~InHand(h, u)'
      BY <1>8, <2>1, <2>3 DEF NamedOnce
    <3> QED BY <1>2, <1>3, <3>1, <3>2 DEF NamedOnce
  <2>4. CASE m.cargo # h
    <3>1. /\ \A s \in Side, i \in 0..(QUEUE_DEPTH - 1) : InSlot(h, s, i)' <=> InSlot(h, s, i)
          /\ \A u \in Thread : InHand(h, u)' <=> InHand(h, u)
      BY <1>8, <2>1, <2>2, <2>4
    <3> QED BY <1>2, <2>1, <3>1 DEF NamedOnce
  <2> QED BY <2>3, <2>4
<1> QED BY <1>6, <1>9 DEF EscrowInv

\* The slot just left is the last one of a ring that starts at the next.
LEMMA SlotsLast ==
  ASSUME NEW h \in 0..(QUEUE_DEPTH - 1)
  PROVE  (((h + 1) % QUEUE_DEPTH) + (QUEUE_DEPTH - 1)) % QUEUE_DEPTH = h
<1>1. QUEUE_DEPTH \in Nat \ {0}
  BY ChannelAssumption
<1>2. h + 1 \in 0..(2 * QUEUE_DEPTH - 1)
  BY <1>1
<1>3. (h + 1) % QUEUE_DEPTH = IF h + 1 < QUEUE_DEPTH THEN h + 1 ELSE 0
  BY <1>1, <1>2, ModWrap
<1>4. CASE h + 1 < QUEUE_DEPTH
  <2>1. (h + 1) + (QUEUE_DEPTH - 1) = h + QUEUE_DEPTH /\ h + QUEUE_DEPTH \in 0..(2 * QUEUE_DEPTH - 1)
        /\ ~(h + QUEUE_DEPTH < QUEUE_DEPTH) /\ h + QUEUE_DEPTH - QUEUE_DEPTH = h
    BY <1>1
  <2>2. (h + QUEUE_DEPTH) % QUEUE_DEPTH = h
    BY <1>1, <2>1, ModWrap
  <2> QED BY <1>3, <1>4, <2>1, <2>2
<1>5. CASE ~(h + 1 < QUEUE_DEPTH)
  <2>1. h = QUEUE_DEPTH - 1 /\ 0 + (QUEUE_DEPTH - 1) = h /\ h \in 0..(2 * QUEUE_DEPTH - 1) /\ h < QUEUE_DEPTH
    BY <1>1, <1>5
  <2>2. h % QUEUE_DEPTH = h
    BY <2>1, ModWrap
  <2> QED BY <1>3, <1>5, <2>1, <2>2
<1> QED BY <1>4, <1>5

\* A read takes the message, and the handle with it, out of the slot.
LEMMA ReadPopEscrow ==
  ASSUME Inv, EscrowInv, NEW t \in Thread, ReadPop(t)
  PROVE  EscrowInv'
<1>0. PICK s \in Side : s = th[t].side
  BY OfThread
<1>1. PICK m : s = th[t].side /\ m = slots[s][head[s]]
  BY <1>0
<1>2. /\ th[t].pc = "read" /\ count[s] > 0 /\ place' = place
      /\ head' = [head EXCEPT ![s] = (@ + 1) % QUEUE_DEPTH] /\ count' = [count EXCEPT ![s] = @ - 1]
      /\ slots' = [slots EXCEPT ![s] = [@ EXCEPT ![head[s]] = NoMessage]]
      /\ th \in [Thread -> Records] /\ PairTyped
  BY <1>1, Typed DEF ReadPop, At, Inv, MovedOut, PairTyped
<1>3. /\ head[s] \in 0..(QUEUE_DEPTH - 1) /\ count[s] \in 0..QUEUE_DEPTH /\ QUEUE_DEPTH \in Nat \ {0}
  BY Slots, ChannelAssumption
<1>4. \A r \in Side, i \in 0..(QUEUE_DEPTH - 1) :
         slots'[r][i] = IF r = s /\ i = head[s] THEN NoMessage ELSE slots[r][i]
  BY <1>2, <1>3 DEF PairTyped
<1>5. /\ \A r \in Side : r # s => head'[r] = head[r] /\ count'[r] = count[r]
      /\ head'[s] = (head[s] + 1) % QUEUE_DEPTH /\ count'[s] = count[s] - 1
  BY <1>2 DEF PairTyped
<1>6. Cleared'
  <2>1. ASSUME NEW r \in Side, r # s, NEW j \in 0..(QUEUE_DEPTH - 1), count'[r] <= j
        PROVE  slots'[r][(head'[r] + j) % QUEUE_DEPTH] = NoMessage
    <3>0. head[r] \in Nat /\ count[r] \in Nat
      BY Slots, ChannelAssumption
    <3>1. head[r] + j \in Nat /\ count[r] <= j
      BY <2>1, <1>3, <1>5, <3>0
    <3>2. (head[r] + j) % QUEUE_DEPTH \in 0..(QUEUE_DEPTH - 1)
      BY <3>1, ModRange
    <3>3. slots[r][(head[r] + j) % QUEUE_DEPTH] = NoMessage
      BY <3>1 DEF EscrowInv, Cleared
    <3> QED BY <2>1, <1>4, <1>5, <3>2, <3>3
  <2>2. ASSUME NEW j \in 0..(QUEUE_DEPTH - 1), count'[s] <= j
        PROVE  slots'[s][(head'[s] + j) % QUEUE_DEPTH] = NoMessage
    <3>1. CASE j = QUEUE_DEPTH - 1
      <4>1. (head'[s] + j) % QUEUE_DEPTH = head[s]
        BY <3>1, <1>3, <1>5, SlotsLast
      <4> QED BY <4>1, <1>3, <1>4
    <3>2. CASE j # QUEUE_DEPTH - 1
      <4>1. j + 1 \in 1..(QUEUE_DEPTH - 1) /\ j + 1 \in 0..(QUEUE_DEPTH - 1) /\ count[s] <= j + 1
            /\ head[s] + (j + 1) \in Nat
        BY <2>2, <3>2, <1>3, <1>5
      <4>2. /\ (((head[s] + 1) % QUEUE_DEPTH) + (j + 1) - 1) % QUEUE_DEPTH = (head[s] + (j + 1)) % QUEUE_DEPTH
            /\ (head[s] + (j + 1)) % QUEUE_DEPTH # head[s]
        BY <4>1, <1>3, SlotsShift
      <4>3. ((head[s] + 1) % QUEUE_DEPTH) + (j + 1) - 1 = ((head[s] + 1) % QUEUE_DEPTH) + j
        <5>1. (head[s] + 1) % QUEUE_DEPTH \in Nat
          BY <1>3, Slots
        <5> QED BY <5>1
      <4>4. slots[s][(head[s] + (j + 1)) % QUEUE_DEPTH] = NoMessage
        BY <4>1 DEF EscrowInv, Cleared
      <4>5. (head[s] + (j + 1)) % QUEUE_DEPTH \in 0..(QUEUE_DEPTH - 1)
        BY <4>1, ModRange
      <4> QED BY <1>4, <1>5, <4>2, <4>3, <4>4, <4>5
    <3> QED BY <3>1, <3>2
  <2> QED BY <2>1, <2>2 DEF Cleared
<1>7. th'[t].pc = "popped" /\ th'[t].msg = m /\ \A u \in Thread : u # t => th'[u] = th[u]
  <2>1. /\ th'[t] = [th[t] EXCEPT !.pc = "popped", !.msg = m, !.full = Full(s)]
        /\ th[t] \in Records /\ \A u \in Thread : u # t => th'[u] = th[u]
    BY <1>1, <1>2 DEF ReadPop
  <2> QED BY <2>1 DEF Records
<1>8. \A h : /\ InHand(h, t)' <=> m.cargo = h
             /\ ~InHand(h, t)
             /\ \A u \in Thread : u # t => (InHand(h, u)' <=> InHand(h, u))
  BY <1>2, <1>7 DEF InHand
<1>9. ASSUME NEW h \in Handle PROVE NamedOnce(h)'
  <2>1. NamedOnce(h) /\ (InSlot(h, s, head[s]) <=> m.cargo = h)
    BY <1>1 DEF EscrowInv, InSlot
  <2>2. \A r \in Side, i \in 0..(QUEUE_DEPTH - 1) :
           InSlot(h, r, i)' <=> InSlot(h, r, i) /\ ~(r = s /\ i = head[s])
    BY <1>4, NoneCargo DEF InSlot
  <2>3. CASE m.cargo = h
    <3>1. /\ place[h] = "escrow"
          /\ \A r \in Side, i \in 0..(QUEUE_DEPTH - 1) : ~InSlot(h, r, i)'
      BY <1>3, <2>1, <2>2, <2>3 DEF NamedOnce
    <3>2. \A u \in Thread : InHand(h, u)' <=> u = t
      BY <1>3, <1>8, <2>1, <2>3 DEF NamedOnce
    <3> QED BY <1>2, <3>1, <3>2 DEF NamedOnce
  <2>4. CASE m.cargo # h
    <3>1. /\ \A r \in Side, i \in 0..(QUEUE_DEPTH - 1) : InSlot(h, r, i)' <=> InSlot(h, r, i)
          /\ \A u \in Thread : InHand(h, u)' <=> InHand(h, u)
      BY <1>8, <2>1, <2>2, <2>4
    <3> QED BY <1>2, <2>1, <3>1 DEF NamedOnce
  <2> QED BY <2>3, <2>4
<1> QED BY <1>6, <1>9 DEF EscrowInv

\* A destructor that is not the last leaves the queues alone.
LEMMA DtorEscrow ==
  ASSUME Inv, EscrowInv, NEW t \in Thread, NEW s \in Side, DtorUnlink(t, s) \/ DtorHangup(t)
  PROVE  EscrowInv'
<1>1. th \in [Thread -> Records] /\ th[t].pc \in {"dtor", "hangup"}
  BY Typed DEF Inv, DtorUnlink, DtorHangup, At
<1>2. th'[t].pc \in {"dtor", "hangup", "idle"} /\ \A u \in Thread : u # t => th'[u] = th[u]
  BY <1>1 DEF DtorUnlink, DtorHangup, Records, Idle
<1>3. \A h \in Handle, u \in Thread : InHand(h, u)' <=> InHand(h, u)
  BY <1>1, <1>2 DEF InHand
<1> QED BY <1>3, EscrowKept DEF DtorUnlink, DtorHangup

\* The last destructor drops the queues, and what they carried is closed with them.
LEMMA DtorLastEscrow ==
  ASSUME Inv, EscrowInv, NEW t \in Thread, NEW s \in Side, DtorLast(t, s)
  PROVE  EscrowInv'
<1>1. /\ th \in [Thread -> Records] /\ th[t].pc = "dtor"
      /\ \A r \in Side, i \in 0..(QUEUE_DEPTH - 1) : slots'[r][i] = NoMessage
      /\ \A h \in Handle : place'[h] = IF h \in QueuedCargo THEN "gone" ELSE place[h]
      /\ head' = head
  BY Typed DEF Inv, DtorLast, At
<1>2. th'[t].pc \in {"dtor", "idle"} /\ \A u \in Thread : u # t => th'[u] = th[u]
  BY <1>1 DEF DtorLast, Records, Idle
<1>3. \A h \in Handle, u \in Thread : InHand(h, u)' <=> InHand(h, u)
  BY <1>1, <1>2 DEF InHand
<1>4. Cleared'
  <2>1. ASSUME NEW r \in Side, NEW j \in 0..(QUEUE_DEPTH - 1)
        PROVE  slots'[r][(head'[r] + j) % QUEUE_DEPTH] = NoMessage
    <3>1. head'[r] + j \in Nat
      BY <1>1, Slots, ChannelAssumption
    <3> QED BY <3>1, <1>1, ModRange
  <2> QED BY <2>1 DEF Cleared
<1>5. ASSUME NEW h \in Handle PROVE NamedOnce(h)'
  <2>1. NamedOnce(h) /\ \A r \in Side, i \in 0..(QUEUE_DEPTH - 1) : ~InSlot(h, r, i)'
    BY <1>1, NoneCargo DEF EscrowInv, InSlot
  <2>2. h \in QueuedCargo <=> \E r \in Side, i \in 0..(QUEUE_DEPTH - 1) : InSlot(h, r, i)
    BY NoneCargo DEF QueuedCargo, InSlot
  <2>3. CASE h \in QueuedCargo
    <3>1. place'[h] = "gone" /\ \A u \in Thread : ~InHand(h, u)'
      BY <1>1, <1>3, <2>1, <2>2, <2>3 DEF NamedOnce
    <3> QED BY <3>1, <2>1 DEF NamedOnce
  <2>4. CASE h \notin QueuedCargo
    <3>1. /\ place'[h] = place[h] /\ \A u \in Thread : InHand(h, u)' <=> InHand(h, u)
          /\ \A r \in Side, i \in 0..(QUEUE_DEPTH - 1) : ~InSlot(h, r, i)
      BY <1>1, <1>3, <2>2, <2>4
    <3> QED BY <3>1, <2>1 DEF NamedOnce
  <2> QED BY <2>3, <2>4
<1> QED BY <1>4, <1>5 DEF EscrowInv

\* Every step leaves each handle in transit with exactly one owner.
LEMMA NextEscrow ==
  ASSUME Inv, EscrowInv, [Next]_vars
  PROVE  EscrowInv'
<1>1. CASE UNCHANGED vars
  <2>1. \A h \in Handle, u \in Thread : InHand(h, u)' <=> InHand(h, u)
    BY <1>1 DEF vars, InHand
  <2> QED BY <1>1, <2>1, EscrowKept DEF vars, pair
<1>2. ASSUME NEW t \in Thread, Step(t) PROVE EscrowInv'
  <2>1. CASE DtorHangup(t)
    BY <2>1, Sides, DtorEscrow
  <2> QED BY <1>2, <2>1, CreateEscrow, CreateSecondEscrow, CallEscrow, SendTakeEscrow, QuietEscrow,
             DeliverEscrow, WritePushEscrow, ReadPopEscrow, DtorEscrow, DtorLastEscrow DEF Step
<1> QED BY <1>1, <1>2 DEF Next

\* A handle in escrow is named by exactly one message, queued or in the hands of a call, and no
\* message names another: whatever step send, recv, close or a destructor is at, and whichever of
\* them fails, no handle is lost, doubled or left behind (sys_channel_send, release_handles).
THEOREM HandlesOwned == Spec => []EscrowOwned
<1>1. ASSUME Inv, EscrowInv PROVE EscrowOwned
  <2>1. NoSelfOwnership
    BY <1>1, Parts DEF Inv, NoSelfOwnership, Queued, Foreign
  <2>2. ASSUME NEW h \in Handle
        PROVE  Cardinality(Queued(h)) + Cardinality(Carrying(h)) = IF place[h] = "escrow" THEN 1 ELSE 0
    <3>1. NamedOnce(h)
      BY <1>1 DEF EscrowInv
    <3>2. Carrying(h) = {t \in Thread : InHand(h, t)}
      BY DEF Carrying, InHand
    <3>3. Queued(h) = {si \in Side \X (0..(QUEUE_DEPTH - 1)) : InSlot(h, si[1], si[2])}
      BY DEF Queued, InSlot
    <3>4. CASE place[h] # "escrow"
      <4>1. Carrying(h) = {} /\ Queued(h) = {}
        BY <3>1, <3>2, <3>3, <3>4 DEF NamedOnce
      <4> QED BY <4>1, <3>4, FS_EmptySet
    <3>5. CASE \E t \in Thread : InHand(h, t)
      <4>1. PICK t \in Thread : InHand(h, t)
        BY <3>5
      <4>2. Carrying(h) = {t} /\ Queued(h) = {} /\ place[h] = "escrow"
        BY <4>1, <3>1, <3>2, <3>3 DEF NamedOnce
      <4> QED BY <4>2, FS_EmptySet, FS_Singleton
    <3>6. CASE \E s \in Side, i \in 0..(QUEUE_DEPTH - 1) : InSlot(h, s, i)
      <4>1. PICK s \in Side, i \in 0..(QUEUE_DEPTH - 1) : InSlot(h, s, i)
        BY <3>6
      <4>2. Carrying(h) = {} /\ place[h] = "escrow"
        BY <4>1, <3>1, <3>2 DEF NamedOnce
      <4>3. Queued(h) = {<<s, i>>}
        <5>1. <<s, i>> \in Queued(h)
          BY <4>1, <3>3
        <5>2. ASSUME NEW x \in Queued(h) PROVE x = <<s, i>>
          <6>1. x \in Side \X (0..(QUEUE_DEPTH - 1)) /\ InSlot(h, x[1], x[2])
            BY <5>2, <3>3
          <6>2. x[1] \in Side /\ x[2] \in 0..(QUEUE_DEPTH - 1) /\ x = <<x[1], x[2]>>
            BY <6>1
          <6>3. x[1] = s /\ x[2] = i
            BY <4>1, <6>1, <6>2, <3>1 DEF NamedOnce
          <6> QED BY <6>2, <6>3
        <5> QED BY <5>1, <5>2
      <4>4. Cardinality(Queued(h)) = 1
        BY <4>3, FS_Singleton
      <4> QED BY <4>2, <4>4, FS_EmptySet
    <3> QED BY <3>1, <3>4, <3>5, <3>6 DEF NamedOnce
  <2> QED BY <2>1, <2>2 DEF EscrowOwned
<1>2. Spec => []EscrowInv
  BY InitEscrow, NextEscrow, Invariance, PTL DEF Spec
<1> QED BY <1>1, <1>2, Invariance, PTL
=============================================================================
