--------------------------------- MODULE Elf ---------------------------------
(***************************************************************************)
(* The loader of user binaries: parse_image (elf/elf_parse.cpp), which     *)
(* validates an image, and map_image (elf/elf_loader.cpp), which backs     *)
(* every segment with committed pages and binds them into a new address    *)
(* space.  The caller discards the address space when either fails.        *)
(***************************************************************************)
EXTENDS ElfFormat, Integers, FiniteSets, SequencesExt

CONSTANTS
    Blobs,            \* images: [at, size, ident, native, exec, phoff, phentsize, entry, ph]
    PHDR,             \* sizeof(Elf64_Phdr)
    PAGE,
    MAX_SEGMENTS, MAX_IMAGE_BYTES,
    UserLo, UserHi    \* the root region is [UserLo, UserHi)

VARIABLES
    blob,
    at,       \* "parse", "segments", "entry", "map", "done", "failed"
    error,    \* elf_error or errc of the failure, "none" before one
    img,      \* img.segments, a sequence of program headers
    total,
    next,     \* the loop's index, in parse_image and then in map_image
    aspace,   \* bindings: a sequence of [vaddr, bytes, flags, data]
    copied    \* file offsets the loader has read

vars == <<blob, at, error, img, total, next, aspace, copied>>

Init ==
    /\ blob \in Blobs
    /\ at = "parse" /\ error = "none" /\ img = <<>> /\ total = 0 /\ next = 1
    /\ aspace = <<>> /\ copied = {}

Overflows == -1

\* The bytes of a segment once mapped, Overflows when rounding does.
mapped_bytes(memsz) ==
    LET rounded == (memsz + PAGE - 1) % WORD
    IN  IF rounded < memsz THEN Overflows ELSE rounded - (rounded % PAGE)

extent_wraps(vaddr, memsz) ==
    mapped_bytes(memsz) = Overflows \/ (vaddr + mapped_bytes(memsz)) % WORD < vaddr

check_segment(ph) ==
    CASE {"W", "X"} \subseteq ph.flags -> "wx_segment"
      [] ph.vaddr % PAGE # 0 -> "unaligned_segment"
      [] ph.filesz > ph.memsz \/ extent_wraps(ph.vaddr, ph.memsz) -> "bad_segment"
      [] ~region_in_bounds(ph.offset, ph.filesz, blob.size) -> "truncated"
      [] OTHER -> "none"

\* The address lies in the segment.
Inside(entry, s) == entry >= s.vaddr /\ entry - s.vaddr < s.memsz

entry_covered == \E i \in DOMAIN img : Inside(blob.entry, img[i])

Fail(e) ==
    /\ at' = "failed" /\ error' = e
    /\ UNCHANGED <<blob, img, total, next>>

\* Why the headers are refused, in the order of the tests.
header_error ==
    CASE ~has_header(blob) -> "not_elf"
      [] ~blob.native -> "wrong_machine"
      [] ~blob.exec -> "not_executable"
      [] \/ blob.phoff = 0 \/ blob.phentsize < PHDR
         \/ ~region_in_bounds(blob.phoff, Len(blob.ph) * blob.phentsize, blob.size)
         \/ (blob.at + blob.phoff) % ALIGN # 0 -> "truncated"
      [] OTHER -> "none"

ParseHeader ==
    /\ at = "parse"
    /\ \/ header_error # "none" /\ Fail(header_error)
       \/ /\ header_error = "none" /\ at' = "segments"
          /\ UNCHANGED <<blob, error, img, total, next>>
    /\ UNCHANGED <<aspace, copied>>

\* The segment, or the image with it, exceeds the ceiling.
TooLarge(bytes) == bytes > MAX_IMAGE_BYTES \/ (total + bytes) % WORD > MAX_IMAGE_BYTES

\* Why this program header ends the parse.
segment_error(ph) ==
    CASE ph.type \in {"INTERP", "DYNAMIC"} -> "dynamic"
      [] ph.type # "LOAD" \/ ph.memsz = 0 -> "none"
      [] check_segment(ph) # "none" -> check_segment(ph)
      [] Len(img) = MAX_SEGMENTS -> "too_many_segments"
      [] TooLarge(mapped_bytes(ph.memsz)) -> "image_too_large"
      [] OTHER -> "none"

\* One turn of parse_image's loop.
ParseSegment ==
    /\ at = "segments" /\ next <= Len(blob.ph)
    /\ LET ph == blob.ph[next]
           kept == ph.type = "LOAD" /\ ph.memsz # 0
       IN  \/ segment_error(ph) # "none" /\ Fail(segment_error(ph))
           \/ /\ segment_error(ph) = "none"
              /\ next' = next + 1
              /\ img' = IF kept THEN Append(img, ph) ELSE img
              /\ total' = IF kept THEN (total + mapped_bytes(ph.memsz)) % WORD ELSE total
              /\ UNCHANGED <<blob, at, error>>
    /\ UNCHANGED <<aspace, copied>>

ParseEnd ==
    /\ at = "segments" /\ next > Len(blob.ph)
    /\ \/ img = <<>> /\ Fail("no_segments")
       \/ img # <<>> /\ ~entry_covered /\ Fail("bad_entry")
       \/ /\ img # <<>> /\ entry_covered
          /\ at' = "map" /\ next' = 1
          /\ UNCHANGED <<blob, error, img, total>>
    /\ UNCHANGED <<aspace, copied>>

----------------------------------------------------------------------------
(* map_image                                                               *)

pages_for(bytes) == (bytes + PAGE - 1) \div PAGE

\* Mutant: the partial last page is not copied.
ChunkFull(filesz, page) == IF filesz - page * PAGE < PAGE THEN 0 ELSE PAGE
\* Bytes of the file copied to a page.
Chunk(filesz, page) == IF filesz - page * PAGE < PAGE THEN filesz - page * PAGE ELSE PAGE

\* fill_segment: the file offset each byte of the zero-filled frames was copied from, -1 for zero.
fill_segment(s) ==
    [k \in 0..(pages_for(s.memsz) * PAGE - 1) |->
        LET page == k \div PAGE
        IN  IF page < pages_for(s.filesz) /\ k % PAGE < Chunk(s.filesz, page) THEN s.offset + k ELSE -1]

\* Region::map refuses what leaves the root region or overlaps a binding.
Overlaps(b, vaddr, bytes) == vaddr < b.vaddr + b.bytes /\ b.vaddr < vaddr + bytes
Mappable(vaddr, bytes) ==
    /\ vaddr >= UserLo /\ vaddr + bytes <= UserHi
    /\ \A i \in DOMAIN aspace : ~Overlaps(aspace[i], vaddr, bytes)

\* Why the segment cannot be bound.
map_error(s, bytes) ==
    CASE ~region_in_bounds(s.offset, s.filesz, blob.size) -> "out_of_range"
      [] ~Mappable(s.vaddr, bytes) -> "region"
      [] OTHER -> "none"

\* One turn of map_image's loop: the backing, its frames, the copy, the binding.
MapSegment ==
    /\ at = "map" /\ next <= Len(img)
    /\ LET s == img[next]
           bytes == pages_for(s.memsz) * PAGE
           data == fill_segment(s)
           refusal == map_error(s, bytes)
       IN  \/ Fail("oom") /\ UNCHANGED <<aspace, copied>>
           \/ /\ copied' = copied \cup IF refusal = "out_of_range" THEN {}
                                      ELSE {data[k] : k \in DOMAIN data} \ {-1}
              /\ \/ refusal # "none" /\ Fail(refusal) /\ UNCHANGED aspace
                 \/ /\ refusal = "none"
                    /\ aspace' = Append(aspace, [vaddr |-> s.vaddr, bytes |-> bytes,
                                                 flags |-> s.flags, data |-> data])
                    /\ next' = next + 1
                    /\ UNCHANGED <<blob, at, error, img, total>>

MapEnd ==
    /\ at = "map" /\ next > Len(img)
    /\ at' = "done"
    /\ UNCHANGED <<blob, error, img, total, next, aspace, copied>>

\* The caller discards the address space of a failed load.
Discard ==
    /\ at = "failed" /\ aspace # <<>>
    /\ aspace' = <<>>
    /\ UNCHANGED <<blob, at, error, img, total, next, copied>>

Next == ParseHeader \/ ParseSegment \/ ParseEnd \/ MapSegment \/ MapEnd \/ Discard

Spec == Init /\ [][Next]_vars

----------------------------------------------------------------------------
(* Properties.                                                             *)

Loads == SelectSeq(blob.ph, LAMBDA ph : ph.type = "LOAD" /\ ph.memsz > 0)

\* A loaded image is what its program headers describe: each address of a loadable
\* segment holds its file byte, or zero past the file's part up to the end of the page, under the
\* segment's own protection, and no binding is both writable and executable.
LoadedExact ==
    at = "done" =>
        /\ Len(aspace) = Len(Loads)
        /\ \A i \in DOMAIN Loads : LET s == Loads[i] IN
              /\ aspace[i].vaddr = s.vaddr /\ s.vaddr + s.memsz <= s.vaddr + aspace[i].bytes
              /\ aspace[i].flags = s.flags /\ ~({"W", "X"} \subseteq aspace[i].flags)
              /\ \A k \in DOMAIN aspace[i].data :
                    aspace[i].data[k] = IF k < s.filesz THEN s.offset + k ELSE -1

\* The loader reads no byte outside the image, whatever its offsets and sizes overflow to.
ReadsInside == \A k \in copied : k < blob.size

\* No accepted segment wraps the address space, computed in unbounded integers.
NoWrap == \A i \in DOMAIN img : img[i].vaddr + pages_for(img[i].memsz) * PAGE < WORD

Sum(s) == FoldSeq(LAMBDA b, n : n + b.bytes, 0, s)

\* A small file cannot take more memory than the ceiling allows.
CeilingKept == Sum(aspace) <= MAX_IMAGE_BYTES

\* The first instruction of a loaded image lies in one of its bindings.
EntryMapped ==
    at = "done" => \E i \in DOMAIN aspace :
                      blob.entry >= aspace[i].vaddr /\ blob.entry < aspace[i].vaddr + aspace[i].bytes
==============================================================================
