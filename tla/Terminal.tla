------------------------------- MODULE Terminal -------------------------------
(***************************************************************************)
(* The framebuffer terminal of core/console.cpp: a grid of cells, a cursor,*)
(* a pen and a parser of escape sequences.  A terminal is a record; every  *)
(* operator returns the terminal after one byte or one part of it.  Bytes  *)
(* are one-character strings, with "ESC", "NL", "CR", "BS", "TAB" and "CTL"*)
(* (another control character) for those that have no glyph.               *)
(***************************************************************************)
EXTENDS Integers, Sequences, FiniteSetsExt

CONSTANTS
    PARAMS,      \* the length of term::params
    TAB,         \* the distance of tab stops
    INT_MAX      \* the largest int: 2^31 - 1, less in an instance

DEFAULT_FG == 7
DEFAULT_BG == 0

Blank(bg) == [ch |-> " ", fg |-> DEFAULT_FG, bg |-> bg]
blank_cell(t) == Blank(t.bg)

\* What the targets' adds and multiplies leave of a sum or product that overflows an int.
Int32(v) == ((v + INT_MAX + 1) % (2 * (INT_MAX + 1))) - (INT_MAX + 1)

clampi(v, lo, hi) == IF v < lo THEN lo ELSE IF v > hi THEN hi ELSE v

\* The terminal init() sets up.
NewTerm(cols, rows) ==
    LET cells == [i \in 0..(cols * rows - 1) |-> Blank(DEFAULT_BG)] IN
    [cols |-> cols, rows |-> rows, cx |-> 0, cy |-> 0, grid |-> cells, shadow |-> cells,
     panel |-> cells, dirty |-> FALSE, hold |-> FALSE, fg |-> DEFAULT_FG, bg |-> DEFAULT_BG, bold |-> FALSE,
     reverse |-> FALSE, esc |-> 0, params |-> <<>>, cur |-> 0, have_cur |-> FALSE, priv |-> "",
     tab |-> 0]

\* The mark scroll leaves.
ScrollDirty(t) == TRUE

scroll(t) ==
    [t EXCEPT !.grid = [i \in DOMAIN t.grid |->
                           IF i + t.cols \in DOMAIN t.grid THEN t.grid[i + t.cols] ELSE blank_cell(t)],
              !.dirty = ScrollDirty(t)]

\* Mutant: the line below the last is allowed.
PastEndLate(cy, rows) == cy > rows
\* The line is past the last.
PastEnd(cy, rows) == cy >= rows

newline(t) ==
    LET down == [t EXCEPT !.cx = 0, !.cy = @ + 1] IN
    IF PastEnd(down.cy, t.rows) THEN [scroll(down) EXCEPT !.cy = t.rows - 1] ELSE down

put(t, ch) ==
    LET fg == IF t.bold /\ t.fg < 8 THEN t.fg + 8 ELSE t.fg
        cell == IF t.reverse THEN [ch |-> ch, fg |-> t.bg, bg |-> fg]
                             ELSE [ch |-> ch, fg |-> fg, bg |-> t.bg]
        u == [t EXCEPT !.grid[t.cy * t.cols + t.cx] = cell, !.dirty = TRUE, !.cx = @ + 1]
    IN  IF u.cx >= t.cols THEN newline(u) ELSE u

\* [from, to)
erase_cells(t, from, to) ==
    [t EXCEPT !.grid = [i \in DOMAIN t.grid |->
                           IF i \in from..(to - 1) THEN blank_cell(t) ELSE t.grid[i]],
              !.dirty = TRUE]

----------------------------------------------------------------------------
param(t, i, def) == IF i < Len(t.params) THEN t.params[i + 1] ELSE def

\* A count or position that is absent or 0 means 1.
one(t, i) == IF param(t, i, 1) = 0 THEN 1 ELSE param(t, i, 1)

\* The level of a colour component in the 6x6x6 cube, and the cube's index.
q(v) == LET n == Int32(Int32(v * 5) + 127) IN IF n < 0 THEN -((-n) \div 255) ELSE n \div 255
rgb_to_256(r, g, b) == (16 + 36 * q(r) + 6 * q(g) + q(b)) % 256

Pen(t, n, colour) == IF n = 38 THEN [t EXCEPT !.fg = colour] ELSE [t EXCEPT !.bg = colour]
PlainPen(t) == [t EXCEPT !.fg = DEFAULT_FG, !.bg = DEFAULT_BG, !.bold = FALSE, !.reverse = FALSE]

\* One parameter that stands alone.
Attribute(t, n) ==
    CASE n = 0          -> PlainPen(t)
      [] n \in {1, 22}  -> [t EXCEPT !.bold = (n = 1)]
      [] n \in {7, 27}  -> [t EXCEPT !.reverse = (n = 7)]
      [] n \in 30..37   -> [t EXCEPT !.fg = n - 30]
      [] n = 39         -> [t EXCEPT !.fg = DEFAULT_FG]
      [] n \in 40..47   -> [t EXCEPT !.bg = n - 40]
      [] n = 49         -> [t EXCEPT !.bg = DEFAULT_BG]
      [] n \in 90..97   -> [t EXCEPT !.fg = n - 90 + 8]
      [] n \in 100..107 -> [t EXCEPT !.bg = n - 100 + 8]
      [] OTHER          -> t

RECURSIVE sgr_from(_, _)
\* The parameters from the i-th on (from 0); 38 and 48 take the ones after them along.
sgr_from(t, i) ==
    LET n == t.params[i + 1] IN
    IF i >= Len(t.params) THEN t
    ELSE IF n \in {38, 48} /\ i + 2 < Len(t.params) /\ t.params[i + 2] = 5
         THEN sgr_from(Pen(t, n, t.params[i + 3] % 256), i + 3)
    ELSE IF n \in {38, 48} /\ i + 4 < Len(t.params) /\ t.params[i + 2] = 2
         THEN sgr_from(Pen(t, n, rgb_to_256(t.params[i + 3], t.params[i + 4], t.params[i + 5])), i + 5)
    ELSE sgr_from(Attribute(t, n), i + 1)

do_sgr(t) == IF t.params = <<>> THEN PlainPen(t) ELSE sgr_from(t, 0)

Row(t, v) == clampi(Int32(v), 0, t.rows - 1)
Col(t, v) == clampi(Int32(v), 0, t.cols - 1)

\* The cells J and K erase: from the cursor, up to and with it, or all of the span.
Erase(t, from, to) ==
    LET cursor == t.cy * t.cols + t.cx IN
    CASE param(t, 0, 0) = 0 -> erase_cells(t, cursor, to)
      [] param(t, 0, 0) = 1 -> erase_cells(t, from, cursor + 1)
      [] OTHER              -> erase_cells(t, from, to)

\* Whether ?2026 opens or closes a frame.
Holds(final) == final = "h"

dispatch(t, final) ==
    IF t.priv # ""
    THEN IF t.priv = "?" /\ param(t, 0, 0) = 2026 /\ final \in {"h", "l"}
         THEN [t EXCEPT !.hold = Holds(final)] ELSE t
    ELSE CASE final \in {"H", "f"} -> [t EXCEPT !.cy = Row(t, one(t, 0) - 1), !.cx = Col(t, one(t, 1) - 1)]
           [] final = "A" -> [t EXCEPT !.cy = Row(t, @ - one(t, 0))]
           [] final = "B" -> [t EXCEPT !.cy = Row(t, @ + one(t, 0))]
           [] final = "C" -> [t EXCEPT !.cx = Col(t, @ + one(t, 0))]
           [] final = "D" -> [t EXCEPT !.cx = Col(t, @ - one(t, 0))]
           [] final = "G" -> [t EXCEPT !.cx = Col(t, one(t, 0) - 1)]
           [] final = "d" -> [t EXCEPT !.cy = Row(t, one(t, 0) - 1)]
           [] final = "J" -> Erase(t, 0, t.rows * t.cols)
           [] final = "K" -> Erase(t, t.cy * t.cols, (t.cy + 1) * t.cols)
           [] final = "m" -> do_sgr(t)
           [] OTHER       -> t

----------------------------------------------------------------------------
Digits == <<"0", "1", "2", "3", "4", "5", "6", "7", "8", "9">>
Digit(c) == CHOOSE d \in 0..9 : Digits[d + 1] = c
IsDigit(c) == \E i \in DOMAIN Digits : Digits[i] = c
Private == {"?", ">", "=", "<"}
Final == {"H", "f", "A", "B", "C", "D", "G", "d", "J", "K", "m", "h", "l", "z"}

\* The parameters with the one just read; those past the array are dropped.
Stored(t) == IF Len(t.params) < PARAMS THEN Append(t.params, t.cur) ELSE t.params

csi_byte(t, c) ==
    CASE t.params = <<>> /\ ~t.have_cur /\ c \in Private -> [t EXCEPT !.priv = c]
      [] IsDigit(c) -> [t EXCEPT !.cur = Int32(Int32(@ * 10) + Digit(c)), !.have_cur = TRUE]
      [] c = ";" -> [t EXCEPT !.params = Stored(t), !.cur = 0, !.have_cur = FALSE]
      [] c \in Final ->
            LET u == IF t.have_cur THEN [t EXCEPT !.params = Stored(t)] ELSE t
            IN  [dispatch(u, c) EXCEPT !.esc = 0]
      [] OTHER -> t

\* A tab sets out for the next stop; TabStep takes it there.
render(t, c) ==
    CASE t.esc = 1 /\ c = "["  -> [t EXCEPT !.esc = 2, !.params = <<>>, !.cur = 0,
                                            !.have_cur = FALSE, !.priv = ""]
      [] t.esc = 1 /\ c # "["  -> [t EXCEPT !.esc = 0]
      [] t.esc = 2             -> csi_byte(t, c)
      [] t.esc = 0 /\ c = "ESC" -> [t EXCEPT !.esc = 1]
      [] t.esc = 0 /\ c = "NL"  -> newline(t)
      [] t.esc = 0 /\ c = "CR"  -> [t EXCEPT !.cx = 0]
      [] t.esc = 0 /\ c = "BS"  -> [t EXCEPT !.cx = IF @ > 0 THEN @ - 1 ELSE @]
      [] t.esc = 0 /\ c = "TAB" -> [t EXCEPT !.tab = (t.cx \div TAB) * TAB + TAB]
      [] t.esc = 0 /\ c = "CTL" -> t
      [] OTHER                 -> put(t, c)

Tabbing(t) == t.cx < t.tab /\ t.cx < t.cols
TabStep(t) == put(t, " ")
\* put wraps the cursor to the next line before it can reach a stop that is not on the line:
\* the loop of such a tab never ends.
EndlessTab(t) == Tabbing(t) /\ t.tab >= t.cols

\* The cells flush blits.
Changed(t) == {i \in DOMAIN t.grid : t.grid[i] # t.shadow[i]}

\* The last changed cell of a row.
High(cells) == Max(cells)

\* The cells written back out of cache: in each row, from the first to the last change.
Cleaned(t) ==
    LET in(y) == Changed(t) \cap ((y * t.cols)..((y + 1) * t.cols - 1))
    IN  UNION {Min(in(y))..High(in(y)) : y \in {y \in 0..(t.rows - 1) : in(y) # {}}}

\* Every changed cell is blitted, and the display sees what was written back.
flush(t) ==
    [t EXCEPT !.shadow = t.grid,
              !.panel = [i \in DOMAIN t.grid |-> IF i \in Cleaned(t) THEN t.grid[i] ELSE t.panel[i]]]

==============================================================================
