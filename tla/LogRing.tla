------------------------------- MODULE LogRing -------------------------------
(***************************************************************************)
(* The kernel log (log_ring.h, log.h): producers on several cores reserve, *)
(* fill and publish slots of a ring without locks, each then tries to      *)
(* drain it to the console; a reader scans the retained history, for       *)
(* `log show` or during a crash, while they go on.                         *)
(*                                                                         *)
(* One step is one atomic access, or the copy of one payload.  A payload   *)
(* is the sequence number of its message, or Torn while it is written.     *)
(***************************************************************************)
EXTENDS Integers, Sequences, FiniteSets, FiniteSetsExt

CONSTANTS
    Producer,    \* cores, or a core and the interrupts nested on it
    CALLS,       \* bound: calls of log() each producer makes
    Capacity,
    WORD,        \* the sequence counters are WORD-valued; larger than all calls together
    Scan         \* "show" or "crash": which scan the reader makes
\* Sequence numbers do not wrap: 2^64 messages are never logged.
Sane == WORD > Cardinality(Producer) * CALLS /\ Capacity < WORD

VARIABLES
    m_write, m_read, m_dropped, m_flushing,
    slots,       \* m_slots: [state, seq, value]
    pr,          \* [Producer -> [at, calls, w, r]]
    rd,          \* the reader: [at, seq, w, seen, due]
    emitted      \* payloads put on the console, in order

ring == <<m_write, m_read, m_dropped, m_flushing, slots>>
vars == <<m_write, m_read, m_dropped, m_flushing, slots, pr, rd, emitted>>

Torn == WORD

\* Unsigned subtraction.
Minus(a, b) == (a - b + WORD) % WORD

Init ==
    /\ m_write = 0 /\ m_read = 0 /\ m_dropped = 0 /\ m_flushing = FALSE
    /\ slots = [i \in 0..(Capacity - 1) |-> [state |-> "FREE", seq |-> 0, value |-> Torn]]
    /\ pr = [p \in Producer |-> [at |-> "idle", calls |-> 0, w |-> 0, r |-> 0]]
    /\ rd = [at |-> "idle", seq |-> 0, w |-> 0, seen |-> {}, due |-> {}]
    /\ emitted = <<>>

At(p, at) == pr[p].at = at
Goto(p, at) == pr' = [pr EXCEPT ![p].at = at]
SlotOf(seq) == seq % Capacity

----------------------------------------------------------------------------
(* reserve and publish                                                     *)

LoadWrite(p) ==
    /\ \/ At(p, "idle") /\ pr[p].calls < CALLS /\ pr' = [pr EXCEPT ![p] =
                [at |-> "full", calls |-> @.calls + 1, w |-> m_write, r |-> 0]]
       \/ At(p, "retry") /\ pr' = [pr EXCEPT ![p].at = "full", ![p].w = m_write]
    /\ UNCHANGED <<ring, rd, emitted>>

\* w - r >= Capacity
IsFull(w, r) == Minus(w, r) >= Capacity

\* m_read is loaded after m_write; a full ring drops the message.
LoadRead(p) ==
    /\ At(p, "full")
    /\ IF IsFull(pr[p].w, m_read)
       THEN /\ m_dropped' = m_dropped + 1
            /\ Goto(p, "idle")
       ELSE Goto(p, "cas") /\ UNCHANGED m_dropped
    /\ UNCHANGED <<m_write, m_read, m_flushing, slots, rd, emitted>>

\* Mutant: a load, a test and a store.
CasBlind(w) == TRUE
\* The compare-exchange finds the value that was loaded.
Cas(w) == m_write = w

Claim(p) ==
    /\ At(p, "cas")
    /\ IF Cas(pr[p].w)
       THEN /\ m_write' = pr[p].w + 1 /\ Goto(p, "seq")
            /\ rd' = [rd EXCEPT !.due = @ \ {pr[p].w - Capacity}]
       ELSE Goto(p, "retry") /\ UNCHANGED <<m_write, rd>>
    /\ UNCHANGED <<m_read, m_dropped, m_flushing, slots, emitted>>

StoreSeq(p) ==
    /\ At(p, "seq")
    /\ slots' = [slots EXCEPT ![SlotOf(pr[p].w)].seq = pr[p].w]
    /\ Goto(p, "state")
    /\ UNCHANGED <<m_write, m_read, m_dropped, m_flushing, rd, emitted>>

StoreWriting(p) ==
    /\ At(p, "state")
    /\ slots' = [slots EXCEPT ![SlotOf(pr[p].w)].state = "WRITING"]
    /\ Goto(p, "begin")
    /\ UNCHANGED <<m_write, m_read, m_dropped, m_flushing, rd, emitted>>

\* log() formats the message into the slot.
Format(p) ==
    /\ \/ At(p, "begin") /\ Goto(p, "format")
          /\ slots' = [slots EXCEPT ![SlotOf(pr[p].w)].value = Torn]
       \/ At(p, "format") /\ Goto(p, "publish")
          /\ slots' = [slots EXCEPT ![SlotOf(pr[p].w)].value = pr[p].w]
    /\ UNCHANGED <<m_write, m_read, m_dropped, m_flushing, rd, emitted>>

publish(p) ==
    /\ At(p, "publish")
    /\ slots' = [slots EXCEPT ![SlotOf(pr[p].w)].state = "READY"]
    /\ Goto(p, "drain")
    /\ UNCHANGED <<m_write, m_read, m_dropped, m_flushing, rd, emitted>>

----------------------------------------------------------------------------
(* drain: the flush that ends every call of log()                          *)

TryFlush(p) ==
    /\ At(p, "drain")
    /\ m_flushing' = TRUE
    /\ IF m_flushing THEN Goto(p, "idle") ELSE pr' = [pr EXCEPT ![p].at = "scan", ![p].r = m_read]
    /\ UNCHANGED <<m_write, m_read, m_dropped, slots, rd, emitted>>

\* The scan goes on while the next slot is READY.
Drainable(s) == s.state = "READY"

Check(p) ==
    /\ At(p, "scan")
    /\ Goto(p, IF Drainable(slots[SlotOf(pr[p].r)]) THEN "emit" ELSE "done")
    /\ UNCHANGED <<ring, rd, emitted>>

Emit(p) ==
    /\ At(p, "emit")
    /\ emitted' = Append(emitted, slots[SlotOf(pr[p].r)].value)
    /\ Goto(p, "flushed")
    /\ UNCHANGED <<ring, rd>>

\* The state of a slot that has been emitted.
AfterEmit == "FLUSHED"

StoreFlushed(p) ==
    /\ At(p, "flushed")
    /\ slots' = [slots EXCEPT ![SlotOf(pr[p].r)].state = AfterEmit]
    /\ pr' = [pr EXCEPT ![p].at = "read", ![p].r = @ + 1]
    /\ UNCHANGED <<m_write, m_read, m_dropped, m_flushing, rd, emitted>>

StoreRead(p) ==
    /\ At(p, "read")
    /\ m_read' = pr[p].r
    /\ Goto(p, "scan")
    /\ UNCHANGED <<m_write, m_dropped, m_flushing, slots, rd, emitted>>

Unflush(p) ==
    /\ At(p, "done")
    /\ m_flushing' = FALSE
    /\ Goto(p, "idle")
    /\ UNCHANGED <<m_write, m_read, m_dropped, slots, rd, emitted>>

----------------------------------------------------------------------------
(* for_each and crash_scan                                                 *)

Committed(i) == slots[i].state \in {"READY", "FLUSHED"}

\* The oldest sequence number that may still be in the ring.
Start(w) == IF w > Capacity THEN w - Capacity ELSE 0

\* The window is read; a crash first takes the flag, held or not.
ScanBegin ==
    /\ rd.at = "idle"
    /\ m_flushing' = (m_flushing \/ Scan = "crash")
    /\ rd' = [at |-> "state", seq |-> Start(m_write), w |-> m_write, seen |-> {},
              due |-> {s \in 0..(m_write - 1) : s + Capacity >= m_write /\
                         Committed(SlotOf(s)) /\ slots[SlotOf(s)].value = s
                         /\ slots[SlotOf(s)].seq = s}]
    /\ UNCHANGED <<m_write, m_read, m_dropped, slots, pr, emitted>>

Skip == [rd EXCEPT !.at = "state", !.seq = @ + 1]

\* A slot being written is shown by a crash as such, and skipped by `log show`.
ScanState ==
    /\ rd.at = "state" /\ rd.seq < rd.w
    /\ rd' = IF Committed(SlotOf(rd.seq)) THEN [rd EXCEPT !.at = "seq"] ELSE Skip
    /\ UNCHANGED <<ring, pr, emitted>>

ScanSeq ==
    /\ rd.at = "seq"
    /\ rd' = IF slots[SlotOf(rd.seq)].seq = rd.seq THEN [rd EXCEPT !.at = "visit"] ELSE Skip
    /\ UNCHANGED <<ring, pr, emitted>>

ScanVisit ==
    /\ rd.at = "visit"
    /\ rd' = [Skip EXCEPT !.seen = @ \cup {<<rd.seq, slots[SlotOf(rd.seq)].value>>}]
    /\ UNCHANGED <<ring, pr, emitted>>

ScanEnd ==
    /\ rd.at = "state" /\ rd.seq >= rd.w
    /\ rd' = [rd EXCEPT !.at = IF Scan = "crash" THEN "halt" ELSE "end"]
    /\ UNCHANGED <<ring, pr, emitted>>

----------------------------------------------------------------------------
Log(p) == LoadWrite(p) \/ LoadRead(p) \/ Claim(p) \/ StoreSeq(p) \/ StoreWriting(p) \/ Format(p)
          \/ publish(p) \/ TryFlush(p) \/ Check(p) \/ Emit(p) \/ StoreFlushed(p) \/ StoreRead(p)
          \/ Unflush(p)
Read == ScanBegin \/ ScanState \/ ScanSeq \/ ScanVisit \/ ScanEnd
Next == (\E p \in Producer : Log(p)) \/ Read
Spec == Init /\ [][Next]_vars

----------------------------------------------------------------------------
(* Properties.                                                             *)

\* The console shows every message once, whole and in the order of the sequence
\* numbers, although producers and flushers share the slots without locks.
EmittedInOrder == \A i \in DOMAIN emitted : emitted[i] = i - 1

Filling == {p \in Producer : pr[p].at \in {"seq", "state", "begin", "format", "publish"}}

\* A reserved slot belongs to one producer, and no flusher is reading it.
SlotsExclusive ==
    /\ \A p, q \in Filling : SlotOf(pr[p].w) = SlotOf(pr[q].w) => p = q
    /\ \A p \in Filling, q \in Producer :
          pr[q].at \in {"emit", "flushed"} => SlotOf(pr[p].w) # SlotOf(pr[q].r)

\* The occupancy never exceeds the capacity, and everything reserved is still there
\* or has been emitted.
NothingOverrun == m_write - m_read <= Capacity /\ Len(emitted) - m_read \in {0, 1}

\* A scan visits every message that was committed in its window when it began and
\* whose slot no producer has reclaimed since.
ScanComplete == rd.at \in {"end", "halt"} => rd.due \subseteq {v[1] : v \in rd.seen}
==============================================================================
