------------------------------ MODULE ElfFormat ------------------------------
(***************************************************************************)
(* What every reader of an ELF image shares (includes/kernel/elf.h).  A    *)
(* blob is [at, size, ident, ...]: its address, its size in bytes, whether *)
(* its identification is that of a little-endian ELF64 file, and its       *)
(* tables.  Words have WORD values; sizes and offsets are below WORD.      *)
(***************************************************************************)
EXTENDS Naturals, Sequences

CONSTANTS
    WORD,   \* 2^64
    ALIGN,  \* alignof of the Elf64 structs
    EHDR    \* sizeof(Elf64_Ehdr)

\* What the bounds arithmetic relies on.
Sane == WORD \in Nat \ {0} /\ ALIGN \in Nat \ {0} /\ EHDR \in Nat

\* [offset, offset + size) lies inside the blob, computed without overflow.
region_in_bounds(offset, size, elf_size) == offset <= elf_size /\ size <= elf_size - offset

\* header_of is not null.
has_header(blob) == blob.size >= EHDR /\ blob.at % ALIGN = 0 /\ blob.ident
==============================================================================
