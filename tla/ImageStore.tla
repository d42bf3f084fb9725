----------------------------- MODULE ImageStore ------------------------------
(***************************************************************************)
(* The native byte stores behind CHI memories, and the map of the image    *)
(* loader onto them: chi_memory.cc, image_memory.h and the beat access of  *)
(* chi_dpi_memory_dpi.cc.  A store is the function of its allocated pages, *)
(* a page that of its bytes; a byte no page holds is zero.                 *)
(***************************************************************************)
EXTENDS Integers, Sequences, FiniteSetsExt

CONSTANTS PageSize, BeatBytes  \* page_size and data_bytes

ASSUME StoreAssumption == PageSize \in Nat \ {0} /\ BeatBytes \in Nat \ {0}

PageOf(offset) == offset \div PageSize
InPage == 0 .. PageSize - 1

EmptyStore == [p \in {} |-> 0]

ByteAt(pages, offset) ==
  IF PageOf(offset) \in DOMAIN pages THEN pages[PageOf(offset)][offset % PageSize] ELSE 0

ReadBytes(pages, offset, length) == [i \in 1 .. length |-> ByteAt(pages, offset + i - 1)]

\* Memory::write allocates every page it touches.
WriteBytes(pages, offset, bytes) ==
  LET range   == offset .. offset + Len(bytes) - 1
      touched == {PageOf(o) : o \in range}
  IN [p \in DOMAIN pages \cup touched |->
        [b \in InPage |-> LET o == p * PageSize + b
                          IN IF o \in range THEN bytes[o - offset + 1] ELSE ByteAt(pages, o)]]

\* The part [begin, end) of page p that Memory::zero clears.
ZeroBegin(p, offset) == Max({offset - p * PageSize, 0})
ZeroEnd(p, last)     == IF p = PageOf(last) THEN (last % PageSize) + 1 ELSE PageSize

\* Mutant: a page the range only touches is dropped whole.
ZeroBytesWholePages(pages, offset, length) ==
  LET last == offset + length - 1
  IN [p \in {q \in DOMAIN pages : q \notin PageOf(offset) .. PageOf(last)} |-> pages[p]]

\* Memory::zero visits the allocated pages only: it erases those it covers
\* and fills its part of the others.
ZeroBytes(pages, offset, length) ==
  LET last   == offset + length - 1
      inside == {p \in DOMAIN pages : p \in PageOf(offset) .. PageOf(last)}
      erased == {p \in inside : ZeroBegin(p, offset) = 0 /\ ZeroEnd(p, last) = PageSize}
  IN IF length = 0 THEN pages
     ELSE [p \in DOMAIN pages \ erased |->
             [b \in InPage |->
                IF p \in inside /\ ZeroBegin(p, offset) <= b /\ b < ZeroEnd(p, last)
                THEN 0 ELSE pages[p][b]]]

\* A CHI beat is read whole; the enabled bytes of a write, the domain of
\* data, replace theirs and the whole beat is written back.
WriteBeat(pages, offset, data) ==
  LET beat == offset - (offset % BeatBytes)
  IN WriteBytes(pages, beat,
       [i \in 1 .. BeatBytes |-> LET o == beat + i - 1
                                 IN IF o \in DOMAIN data THEN data[o] ELSE ByteAt(pages, o)])

------------------------------------------------------------------------------
(* register_memory: what the memories of the design are, found at reset.   *)

NoRegistry == [memories |-> {}, error |-> FALSE, frozen |-> FALSE]

Overlap(a, b) == a.base <= b.base + b.size - 1 /\ b.base <= a.base + a.size - 1

\* Two memories with one identity, one owner or a common address.
Conflict(e, m) == e # m /\ (e.id = m.id \/ e.owner = m.owner \/ Overlap(e, m))

\* A conflict, or a new memory after loading has begun, is an error for good.
Registered(registry, m) ==
  LET bad == \/ registry.error
             \/ \E e \in registry.memories : Conflict(e, m)
             \/ registry.frozen /\ m \notin registry.memories
  IN IF bad THEN [registry EXCEPT !.error = TRUE]
     ELSE [registry EXCEPT !.memories = @ \cup {m}]

\* ImageMemoryMap::segment over the regions, which are sorted and disjoint:
\* the part of [address, address + length) in the region that holds address,
\* or outside every region up to the next one.
NoRegion == [id |-> 0, offset |-> 0]

Segment(regions, address, length) ==
  LET holding == {r \in regions : r.base <= address /\ address < r.base + r.size}
      above   == {r.base : r \in {s \in regions : s.base > address}}
  IN IF holding # {}
     THEN LET r == CHOOSE s \in holding : TRUE
          IN [region |-> [id |-> r.id, offset |-> address - r.base],
              length |-> Min({length, r.base + r.size - address})]
     ELSE [region |-> NoRegion,
           length |-> IF above = {} THEN length ELSE Min({length, Min(above) - address})]
=============================================================================
