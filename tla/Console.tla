------------------------------- MODULE Console -------------------------------
(***************************************************************************)
(* Text output (core/console.cpp): writers on several cores hold the       *)
(* console for a line, send each string to the UART and queue it in a ring *)
(* of bytes; the painter thread drains the ring into the terminal and      *)
(* flushes the terminal to the panel.                                      *)
(***************************************************************************)
EXTENDS Terminal

CONSTANTS
    Core,        \* cores with a writer
    Strings,     \* what a writer may write at once: sequences of bytes
    LINES,       \* bound: lines each core writes
    PIECES,      \* bound: strings of a line
    Framebuffers,\* what the boot protocol may hand over: [width, height, pitch, bpp]
    GLYPH,       \* GLYPH_W and GLYPH_H
    SIZE_MAX,    \* the largest size_t and uint64_t
    RING_SIZE, BATCH, FLUSH_BYTES,
    None

VARIABLES
    owner, depth,          \* g_line_owner, g_line_depth
    wr,                    \* [Core -> [at, lines, pieces]]
    wire,                  \* the UART: <<core, line>> for every string
    ring, head, tail,      \* g_ring, g_head, g_tail; a byte remembers its index
    fb,                    \* the framebuffer in use, or None while not g_ready
    t,                     \* the terminal
    painter                \* [at, n, batch, since]

line == <<owner, depth>>
queue == <<ring, head, tail>>
vars == <<owner, depth, wr, wire, ring, head, tail, fb, t, painter>>

Off == [at |-> "off", n |-> 0, batch |-> <<>>, since |-> 0]

Init ==
    /\ owner = None /\ depth = 0 /\ wire = <<>>
    /\ wr = [c \in Core |-> [at |-> "idle", lines |-> 0, pieces |-> 0]]
    /\ ring = [i \in 0..(RING_SIZE - 1) |-> None] /\ head = 0 /\ tail = 0
    /\ fb = None /\ t = NewTerm(1, 1) /\ painter = Off

----------------------------------------------------------------------------
(* init                                                                    *)

\* A scanline does not fit its pitch.
PitchShort(f) == f.pitch < (f.width * 4) % (SIZE_MAX + 1)

\* The geometry init() refuses.
Invalid(f) ==
    \/ f.width = 0 \/ f.height = 0
    \/ f.width > SIZE_MAX \div 4
    \/ PitchShort(f)
    \/ f.height > SIZE_MAX \div f.pitch

\* The terminal is set up and the painter started; refused or out of memory, nothing.
Start(f) ==
    /\ painter.at = "off"
    /\ f.bpp = 32 /\ ~Invalid(f) /\ f.width \div GLYPH > 0 /\ f.height \div GLYPH > 0
    /\ fb' = f
    /\ t' = NewTerm(f.width \div GLYPH, f.height \div GLYPH)
    /\ painter' = [Off EXCEPT !.at = "pop"]
    /\ UNCHANGED <<line, wr, wire, queue>>

----------------------------------------------------------------------------
(* line_guard, write_string and write_byte.                                *)

At(c, at) == wr[c].at = at
Step(c, at) == wr' = [wr EXCEPT ![c].at = at]

\* The line's guard: wait for the console to be free.
Acquire(c) ==
    /\ At(c, "idle") /\ wr[c].lines < LINES
    /\ owner = None
    /\ owner' = c /\ depth' = 1
    /\ wr' = [wr EXCEPT ![c] = [at |-> "line", lines |-> @.lines + 1, pieces |-> 0]]
    /\ UNCHANGED <<wire, queue, fb, t, painter>>

\* ShellOutput::write takes the guard again inside the line.
Enter(c) ==
    /\ At(c, "line") /\ wr[c].pieces < PIECES
    /\ owner \in {c, None}
    /\ owner' = c /\ depth' = IF owner = c THEN depth + 1 ELSE 1
    /\ wr' = [wr EXCEPT ![c].at = "uart", ![c].pieces = @ + 1]
    /\ UNCHANGED <<wire, queue, fb, t, painter>>

\* The UART is written first; a core that does not see g_ready stops there.
WriteUart(c) ==
    /\ At(c, "uart")
    /\ wire' = Append(wire, <<c, wr[c].lines>>)
    /\ Step(c, IF fb = None THEN "leave" ELSE "push")
    /\ UNCHANGED <<line, queue, fb, t, painter>>

\* The ring has no room.
Full(h) == h - tail >= RING_SIZE

\* The bytes of a string that still fit, pushed under the lock; the newest are dropped.
Push(c, s) ==
    LET fits == {k \in 0..Len(s) : k = 0 \/ ~Full(head + k - 1)}
        n == Max(fits)
    IN  /\ At(c, "push")
        /\ ring' = [i \in DOMAIN ring |->
                      LET new == {k \in 1..n : (head + k - 1) % RING_SIZE = i}
                      IN  IF new = {} THEN ring[i] ELSE <<head + Max(new) - 1, s[Max(new)]>>]
        /\ head' = head + n
        /\ Step(c, "leave")
        /\ UNCHANGED <<line, wire, tail, fb, t, painter>>

\* Mutant: the inner guard gives the console away.
FreedAlways(d) == TRUE
\* The last guard frees the console.
Freed(d) == d = 0

Leave(c) ==
    /\ At(c, "leave")
    /\ depth' = depth - 1
    /\ owner' = IF Freed(depth - 1) THEN None ELSE owner
    /\ Step(c, "line")
    /\ UNCHANGED <<wire, queue, fb, t, painter>>

Release(c) ==
    /\ At(c, "line") /\ wr[c].pieces = PIECES
    /\ depth' = depth - 1
    /\ owner' = IF Freed(depth - 1) THEN None ELSE owner
    /\ Step(c, "idle")
    /\ UNCHANGED <<wire, queue, fb, t, painter>>

----------------------------------------------------------------------------
(* painter_thread                                                          *)

PainterAt(at) == painter.at = at

Pop ==
    /\ PainterAt("pop")
    /\ LET n == Min({BATCH, head - tail}) IN
       /\ tail' = tail + n
       /\ painter' = [painter EXCEPT !.at = "render", !.n = n, !.since = @ + n,
                        !.batch = [i \in 1..n |-> ring[(tail + i - 1) % RING_SIZE][2]]]
    /\ UNCHANGED <<line, wr, wire, ring, head, fb, t>>

Render ==
    /\ PainterAt("render") /\ painter.batch # <<>> /\ ~Tabbing(t)
    /\ t' = render([t EXCEPT !.tab = 0], Head(painter.batch))
    /\ painter' = [painter EXCEPT !.batch = Tail(@)]
    /\ UNCHANGED <<line, wr, wire, queue, fb>>

RenderTab ==
    /\ PainterAt("render") /\ Tabbing(t)
    /\ t' = TabStep(t)
    /\ UNCHANGED <<line, wr, wire, queue, fb, painter>>

\* A synchronized frame is open and the flood cap not reached.
Held == t.hold /\ painter.since < FLUSH_BYTES

\* Flush when the ring drains or a flood crosses the cap, if something changed.
Due == t.dirty /\ ~Held /\ (painter.n < BATCH \/ painter.since >= FLUSH_BYTES)

Decide ==
    /\ PainterAt("render") /\ painter.batch = <<>> /\ ~Tabbing(t)
    /\ IF Due
       THEN /\ t' = [flush(t) EXCEPT !.dirty = FALSE]
            /\ painter' = [painter EXCEPT !.at = "sleep", !.since = 0, !.n = 0]
       ELSE /\ UNCHANGED t
            /\ painter' = [painter EXCEPT !.at = IF painter.n = 0 THEN "sleep" ELSE "pop", !.n = 0]
    /\ UNCHANGED <<line, wr, wire, queue, fb>>

\* sleep_ticks ends.
Wake ==
    /\ PainterAt("sleep")
    /\ painter' = [painter EXCEPT !.at = "pop"]
    /\ UNCHANGED <<line, wr, wire, queue, fb, t>>

Paint == Pop \/ Render \/ RenderTab \/ Decide \/ Wake

Write(c) == Acquire(c) \/ Enter(c) \/ WriteUart(c) \/ (\E s \in Strings : Push(c, s))
            \/ Leave(c) \/ Release(c)

Next == (\E f \in Framebuffers : Start(f)) \/ (\E c \in Core : Write(c)) \/ Paint

\* The painter is a thread the scheduler runs and its sleep ends; a guard is held with
\* interrupts off, so a line that was begun goes on.
Spec == Init /\ [][Next]_vars /\ WF_vars(Paint)
             /\ \A c \in Core : WF_vars(Write(c) /\ ~At(c, "idle"))

----------------------------------------------------------------------------
(* Properties.                                                             *)

\* The cursor is a cell of the grid and the parser stays inside its array, whatever
\* bytes arrive: put and erase_cells index the grid unchecked.
CursorInGrid ==
    /\ t.cx \in 0..(t.cols - 1) /\ t.cy \in 0..(t.rows - 1)
    /\ Len(t.params) <= PARAMS

\* A clean terminal is on the panel: every path that changes a cell marks the grid, and
\* flush blits and writes back every cell that changed.
PanelExact == ~t.dirty => t.panel = t.grid /\ t.shadow = t.grid

\* The bytes between tail and head are the ones pushed at those indices: nothing the
\* painter has not taken is overwritten when the ring is full.
RingIntact == \A k \in tail..(head - 1) : ring[k % RING_SIZE] # None /\ ring[k % RING_SIZE][1] = k

\* No string of one core's line comes between two of another's.
Unspliced ==
    \A i, j \in DOMAIN wire : wire[i] = wire[j] =>
        \A k \in i..j : wire[k] = wire[i]

\* Every glyph's bytes lie in its own scanlines and in the memory handed over, for
\* every framebuffer init() accepts.
BlitInside ==
    fb # None =>
      \A x \in 0..(t.cols - 1), y \in 0..(t.rows - 1) :
          /\ (x + 1) * GLYPH * 4 <= fb.pitch
          /\ ((y + 1) * GLYPH - 1) * fb.pitch + (x + 1) * GLYPH * 4 <= fb.pitch * fb.height
          /\ fb.pitch * fb.height <= SIZE_MAX

\* Frames are bounded: bytes drained since the last flush of a changed grid stay below
\* the flood cap and a batch, also when a synchronized frame is left open.
FloodBounded == t.dirty /\ PainterAt("pop") => painter.since < FLUSH_BYTES

Written == \A c \in Core : At(c, "idle")
Shown == tail = head /\ painter.batch = <<>> /\ (t.panel = t.grid \/ t.hold)

\* What has been written gets on the panel once the writers pause, unless a tab set out from
\* the last stop of a line.
CatchesUp == fb # None /\ Written ~> Shown \/ ~Written \/ EndlessTab(t)
==============================================================================
