------------------------------- MODULE Symbols -------------------------------
(***************************************************************************)
(* The kernel's own symbol table for backtraces (crash/symbols.cpp): init  *)
(* ingests the function symbols of the kernel image into a bounded table   *)
(* and string pool and sorts them, lookup searches the table by bisection. *)
(*                                                                         *)
(* The blob is [at, size, ident, shoff, shentsize, sh]; a section is       *)
(* [type, offset, size, entsize, link, cells, chars], cells and chars what *)
(* an array of symbols, [func, name, value, size], or of characters, 0 for *)
(* NUL, at its offset holds.                                               *)
(***************************************************************************)
EXTENDS ElfFormat, FiniteSets, SequencesExt

CONSTANTS
    Blobs,
    SHDR, SYM,                \* sizeof(Elf64_Shdr), sizeof(Elf64_Sym)
    kMaxSymbols, kStringPoolBytes,
    SIZE,                     \* 2^32, the width of func_entry::size
    Addresses,                \* what lookup is asked for
    None

VARIABLES
    blob,
    at,            \* "init", "ingest", "sort", "ready"
    next,          \* the loop's index into the symbols
    g_entries,     \* sequence of [addr, size, name_off, sym], sym the cell it came from
    g_string_pool, \* sequence of characters; its length is g_string_used
    g_initialized,
    found          \* the last lookup: [addr, entry], entry None or an index

vars == <<blob, at, next, g_entries, g_string_pool, g_initialized, found>>

Init ==
    /\ blob \in Blobs
    /\ at = "init" /\ next = 1 /\ g_entries = <<>> /\ g_string_pool = <<>> /\ g_initialized = FALSE
    /\ found = None

----------------------------------------------------------------------------
(* locate_symbol_tables                                                    *)

SectionsLocated ==
    /\ has_header(blob)
    /\ blob.shoff # 0 /\ blob.shentsize >= SHDR
    /\ region_in_bounds(blob.shoff, Len(blob.sh) * blob.shentsize, blob.size)
    /\ (blob.at + blob.shoff) % ALIGN = 0

Symtabs == {i \in DOMAIN blob.sh : blob.sh[i].type = "SYMTAB"}
sym_sh == blob.sh[CHOOSE i \in Symtabs : \A j \in Symtabs : i <= j]
str_sh == blob.sh[sym_sh.link + 1]

located ==
    /\ SectionsLocated /\ Symtabs # {}
    /\ sym_sh.entsize >= SYM
    /\ region_in_bounds(sym_sh.offset, sym_sh.size, blob.size)
    /\ sym_sh.link < Len(blob.sh)
    /\ (blob.at + sym_sh.offset) % ALIGN = 0
    /\ region_in_bounds(str_sh.offset, str_sh.size, blob.size)

\* symbol_tables::count
Count == sym_sh.size \div sym_sh.entsize

strtab == str_sh.chars

----------------------------------------------------------------------------
(* init                                                                    *)

is_function_symbol(s) == s.func /\ s.size # 0 /\ s.name < Len(strtab)

\* The characters from `name` to the first NUL, or to the table's end.
bounded_view(name) ==
    LET nuls == {i \in (name + 1)..Len(strtab) : strtab[i] = 0}
        last == IF nuls = {} THEN Len(strtab) ELSE (CHOOSE i \in nuls : \A j \in nuls : i <= j) - 1
    IN  SubSeq(strtab, name + 1, last)

\* What intern appends to the pool.
Stored(name) == Append(name, 0)

PoolFull(name) == Len(g_string_pool) + Len(name) + 1 > kStringPoolBytes

Locate ==
    /\ at = "init" /\ ~g_initialized
    /\ at' = IF located THEN "ingest" ELSE "ready"
    /\ UNCHANGED <<blob, next, g_entries, g_string_pool, g_initialized, found>>

\* One turn of the loop, which a full table or pool ends.
Ingest ==
    LET s == sym_sh.cells[next]
        name == bounded_view(s.name)
        usable == is_function_symbol(s)
        full == usable /\ (Len(g_entries) >= kMaxSymbols \/ (name # <<>> /\ PoolFull(name)))
    IN  /\ at = "ingest" /\ next <= Count
        /\ \/ full /\ at' = "sort" /\ UNCHANGED <<next, g_entries, g_string_pool>>
           \/ /\ ~full /\ next' = next + 1 /\ UNCHANGED at
              /\ IF usable /\ name # <<>>
                 THEN /\ g_string_pool' = g_string_pool \o Stored(name)
                      /\ g_entries' = Append(g_entries, [addr |-> s.value, size |-> s.size % SIZE,
                                                         name_off |-> Len(g_string_pool), sym |-> s])
                 ELSE UNCHANGED <<g_entries, g_string_pool>>
        /\ UNCHANGED <<blob, g_initialized, found>>

IngestEnd ==
    /\ at = "ingest" /\ next > Count
    /\ at' = "sort"
    /\ UNCHANGED <<blob, next, g_entries, g_string_pool, g_initialized, found>>

\* The sort moves x in front of y.
Passes(y, x) == y.addr > x.addr

\* Insert the last of s among the sorted others: in front of the run that x passes.
Insert(s, x) ==
    LET ends == {k \in 0..Len(s) : \A i \in (k + 1)..Len(s) : Passes(s[i], x)}
        k == CHOOSE k \in ends : \A l \in ends : k <= l
    IN  InsertAt(s, k + 1, x)

\* Insertion sort.
sort_entries ==
    /\ at = "sort"
    /\ g_entries' = FoldLeft(Insert, <<>>, g_entries)
    /\ g_initialized' = (Len(g_entries) > 0)
    /\ at' = "ready"
    /\ UNCHANGED <<blob, next, g_string_pool, found>>

----------------------------------------------------------------------------
(* lookup                                                                  *)

\* Mutant: the bisection looks for a start below the address.
StartsBelow(e, addr) == e.addr < addr
StartsBy(e, addr) == e.addr <= addr

\* The bisection over [lo, hi): the number of entries that start at or before addr.
bisect[p \in (0..kMaxSymbols) \X (0..kMaxSymbols) \X Addresses] ==
    LET lo == p[1]
        hi == p[2]
        mid == lo + ((hi - lo) \div 2)
    IN  IF lo >= hi THEN lo
        ELSE IF StartsBy(g_entries[mid + 1], p[3]) THEN bisect[<<mid + 1, hi, p[3]>>]
        ELSE bisect[<<lo, mid, p[3]>>]

\* The index of the entry found, or None.
find_entry(addr) ==
    LET lo == bisect[<<0, Len(g_entries), addr>>]
    IN  IF lo = 0 \/ addr >= (g_entries[lo].addr + g_entries[lo].size) % WORD THEN None ELSE lo

lookup(addr) ==
    /\ at = "ready"
    /\ found' = [addr |-> addr, entry |-> IF g_initialized THEN find_entry(addr) ELSE None]
    /\ UNCHANGED <<blob, at, next, g_entries, g_string_pool, g_initialized>>

Next == Locate \/ Ingest \/ IngestEnd \/ sort_entries \/ \E a \in Addresses : lookup(a)

Spec == Init /\ [][Next]_vars

----------------------------------------------------------------------------
(* Properties.                                                             *)

\* Every symbol init reads is one of the table the image declares, and the pool is
\* never written past its end.
TablesBounded ==
    /\ at = "ingest" => next <= sym_sh.size \div sym_sh.entsize + 1
    /\ Len(g_string_pool) <= kStringPoolBytes

\* The name a backtrace prints for an entry, read from its offset to the next NUL, is the
\* name of the symbol it came from: names neither run together nor overwrite one another.
NamesIntact ==
    \A i \in DOMAIN g_entries :
        LET e == g_entries[i]
            name == bounded_view(e.sym.name)
        IN  /\ e.name_off + Len(name) < Len(g_string_pool)
            /\ SubSeq(g_string_pool, e.name_off + 1, e.name_off + Len(name) + 1) = Append(name, 0)

\* Usable: function symbols with a name that ends inside the string table.
Usable == SelectSeq(SubSeq(sym_sh.cells, 1, sym_sh.size \div sym_sh.entsize),
                    LAMBDA s : is_function_symbol(s) /\ bounded_view(s.name) # <<>>)

\* The sorted table is the usable symbols in order of address, those at one address in
\* the order of the image: a stable permutation of the prefix that fits.
TableSorted ==
    at = "ready" /\ g_initialized =>
        /\ {g_entries[i].sym : i \in DOMAIN g_entries} = {Usable[i] : i \in DOMAIN g_entries}
        /\ \A i, j \in DOMAIN g_entries : i < j =>
              \/ g_entries[i].addr < g_entries[j].addr
              \/ g_entries[i].addr = g_entries[j].addr /\ g_entries[i].name_off < g_entries[j].name_off

\* Both by the ranges themselves, without the table's order or bisection.
Covering(addr) == {i \in DOMAIN g_entries : g_entries[i].addr <= addr /\ addr < g_entries[i].addr + g_entries[i].size}
Extent(e) == e.addr..(e.addr + e.size - 1)
Disjoint == \A i, j \in DOMAIN g_entries :
                Extent(g_entries[i]) = Extent(g_entries[j]) \/ Extent(g_entries[i]) \cap Extent(g_entries[j]) = {}

\* An address is attributed to an entry that covers it and to none that starts before
\* another covering one; where no symbol overlaps another, no covered address is missed.
LookupRight ==
    found # None =>
        /\ found.entry # None =>
              /\ found.entry \in Covering(found.addr)
              /\ \A i \in Covering(found.addr) : g_entries[i].addr <= g_entries[found.entry].addr
        /\ found.entry = None /\ Disjoint => Covering(found.addr) = {}
==============================================================================
