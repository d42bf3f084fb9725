----------------------------- MODULE MCHostLoad ------------------------------
(* An instance of HostLoad for TLC: two native memories of two pages, one   *)
(* memory that is not registered, the boot-address register above them, a   *)
(* ROM and a device.                                                        *)
EXTENDS HostLoad

W(id, base) == [id |-> id, owner |-> id, base |-> base, size |-> 4]
MCWindows   == {W(1, 0), W(2, 4), W(3, 8), W(4, 12)}

\* The second design has two memories at overlapping addresses.
MCDesigns == {{W(1, 0), W(2, 4)}, {W(1, 0), W(2, 2)}}

\* A range can be read, and written, if its Home takes a size of the opcode.
Service(first, last, cacheable, reads, writes) ==
  [first |-> first, last |-> last, cacheable |-> cacheable,
   readable |-> reads # {}, writable |-> writes # {}, reads |-> reads, writes |-> writes]

\* The native memories; the RAM, which is written by less than a word; the
\* boot-address register, read whole; the ROM; and a device that is only written.
MCServices == {Service(0, 7, TRUE, {1, 2, 4}, {1, 2, 4}), Service(8, 11, TRUE, {1, 2, 4}, {1, 2}),
               Service(12, 15, FALSE, {4}, {2, 4}), Service(16, 16, TRUE, {1}, {}),
               Service(20, 20, FALSE, {}, {1})}

\* Chunks within a page, a memory and a word; across pages, memories, the
\* end of the native memories and of the RAM; onto the boot-address register,
\* into the ROM and to the device.
Ranges == {<<5, 1>>, <<1, 3>>, <<0, 4>>, <<3, 2>>, <<1, 6>>, <<6, 4>>, <<9, 3>>}
Chunk(kind, range) == [kind |-> kind, address |-> range[1], length |-> range[2]]
MCOps == {Chunk(k, r) : k \in {"write", "clear"}, r \in Ranges}
           \cup {Chunk("read", <<1, 3>>), Chunk("read", <<2, 5>>), Chunk("read", <<7, 2>>)}
           \cup {Chunk("clear", <<11, 2>>), Chunk("write", <<14, 2>>), Chunk("read", <<10, 4>>)}
           \cup {Chunk("write", <<16, 1>>), Chunk("write", <<20, 1>>)}
           \cup {Chunk("read", <<8, 4>>), Chunk("read", <<14, 2>>), Chunk("read", <<20, 1>>)}
=============================================================================
