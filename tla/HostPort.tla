------------------------------ MODULE HostPort -------------------------------
(***************************************************************************)
(* The host's port into the memory system: FesvrCHIAccess of               *)
(* direct-memory-htif.rhdl, which carries out one request at a time as     *)
(* aligned CHI transfers, with the coherent memory behind it.  The memory  *)
(* (external: the Homes, the memories and the harts' caches) answers when  *)
(* it likes, or with an error.                                             *)
(***************************************************************************)
EXTENDS ImageStore

CONSTANTS
  MaxBytes,   \* kMaxBytes, the width of a request
  Services,   \* the mapped ranges, a Home each: their attributes [first, last, cacheable,
              \* readable, writable] and the sizes [reads, writes] their opcodes take
  Windows     \* the memories: [id, owner, base, size], boot-address register included

ASSUME PortAssumption == MaxBytes \in Nat \ {0} /\ MaxBytes <= BeatBytes

InWindow(a, w) == w.base <= a /\ a < w.base + w.size

\* What is not in the map is a device.
InMap(a) == \E w \in Windows : InWindow(a, w)

\* The memories are disjoint and have a store each; an identity is never the
\* one of NoRegion.
ASSUME WindowAssumption ==
  /\ \A w \in Windows : w.base \in Nat /\ w.size \in Nat \ {0} /\ w.id # NoRegion.id
  /\ \A w \in Windows : \A x \in Windows \ {w} : w.id # x.id /\ ~ Overlap(w, x)

\* A transfer that a service supports is of one memory and within a beat of
\* it, or of none: sizes are powers of two up to the beat, and a memory is
\* aligned to its size.
ASSUME ServiceAssumption ==
  \A s \in Services :
    /\ s.first \in Nat /\ s.last \in Nat
    /\ \A n \in s.reads \cup s.writes, a \in s.first .. s.last : a % n = 0 /\ a + n - 1 <= s.last =>
         \A w \in Windows : (\E x \in a .. a + n - 1 : InWindow(x, w)) =>
           /\ InWindow(a, w) /\ InWindow(a + n - 1, w)
           /\ ((a - w.base) % BeatBytes) + n <= BeatBytes

VARIABLES
  access,     \* the registers of FesvrCHIAccess
  channel,    \* the response flit that waits at the port, NoFlit if none
  performed,  \* memory: the write of the current transfer has been carried out
  stores,     \* memory: the native store of each window
  dirty       \* memory: bytes whose only copy is in the hart's cache

portVars == <<access, channel, performed, stores, dirty>>

Lanes  == 0 .. MaxBytes - 1
NoData == [i \in Lanes |-> 0]
NoFlit == [opcode |-> "none", outcome |-> "ok", data |-> NoData]

\* FesvrMemoryStatus.
Success       == 0
AccessFault   == 1
SlaveError    == 2
ProtocolError == 3

PortInit ==
  /\ access = [state |-> "Idle", write |-> FALSE, address |-> 0, data |-> NoData, remaining |-> 0,
               offset |-> 0, size |-> 0, result |-> NoData, status |-> Success]
  /\ channel = NoFlit /\ performed = FALSE
  /\ stores = [w \in {x.id : x \in Windows} |-> EmptyStore]
  /\ dirty = [a \in {} |-> 0]

------------------------------------------------------------------------------
(* The coherent view of memory.                                            *)

WindowOf(a) == CHOOSE w \in Windows : InWindow(a, w)
MemoryAt(a) == ByteAt(stores[WindowOf(a).id], a - WindowOf(a).base)
CoherentAt(a) == IF a \in DOMAIN dirty THEN dirty[a] ELSE MemoryAt(a)

------------------------------------------------------------------------------
(* What a request may do.                                                  *)

ServiceOf(a) == {s \in Services : s.first <= a /\ a <= s.last}
Mapped(a)    == ServiceOf(a) # {}
Cacheable(a) == \E s \in ServiceOf(a) : s.cacheable
Allowed(a, write) == \E s \in ServiceOf(a) : IF write THEN s.writable ELSE s.readable

\* The sizes a service takes of the opcode a transfer is requested with.
SizesOf(s, write) == IF write THEN s.writes ELSE s.reads

\* fesvr_service_support: one service holds the whole transfer, at a size of
\* its opcode.
Supported(address, bytes, write) ==
  \E s \in ServiceOf(address) :
    address + bytes - 1 <= s.last /\ bytes \in SizesOf(s, write)

Aligned(address, bytes) == address % bytes = 0

\* The complete chunk is validated before any CHI traffic; only cacheable
\* memory can be fragmented.
CommandSupported(r) ==
  /\ r.length \in 1 .. MaxBytes
  /\ \A a \in r.address .. r.address + r.length - 1 :
       Mapped(a) /\ Cacheable(a) = Cacheable(r.address) /\ Allowed(a, r.write)
  /\ Cacheable(r.address) \/ (Aligned(r.address, r.length) /\ Supported(r.address, r.length, r.write))

\* The transfers the rest of the request may begin with.
Fragments ==
  {n \in 1 .. access.remaining :
     Aligned(access.address, n) /\ Supported(access.address, n, access.write)}

------------------------------------------------------------------------------
(* One clock edge, given what the transport drove into it.                 *)

Accept(valid, r) ==
  /\ access.state = "Idle" /\ valid
  /\ access' = [state |-> IF CommandSupported(r) THEN "Request" ELSE "Response",
                write |-> r.write, address |-> r.address, data |-> r.data, remaining |-> r.length,
                offset |-> 0, size |-> access.size, result |-> NoData,
                status |-> IF CommandSupported(r) THEN Success ELSE AccessFault]
  /\ UNCHANGED <<channel, performed>>

\* The largest supported transfer is requested of its Home.
Issue ==
  /\ access.state = "Request"
  /\ access' = IF Fragments = {} THEN [access EXCEPT !.state = "Response", !.status = AccessFault]
               ELSE [access EXCEPT !.size = Max(Fragments),
                       !.state = IF access.write THEN "WriteAwaitDBID" ELSE "ReadPending"]
  /\ UNCHANGED <<channel, performed>>

SendData ==
  /\ access.state = "WriteData"
  /\ access' = [access EXCEPT !.state = "WriteAwaitComp"]
  /\ UNCHANGED <<channel, performed>>

Transferred == access.offset .. access.offset + access.size - 1

\* What the transfer leaves of the request.
Advanced ==
  [access EXCEPT !.address = @ + access.size, !.offset = @ + access.size,
                 !.remaining = @ - access.size,
                 !.state = IF access.remaining = access.size THEN "Response" ELSE "Request"]

\* A response flit ends the transfer, or the request when it is an error.
Receive ==
  /\ channel # NoFlit /\ channel' = NoFlit /\ performed' = FALSE
  /\ access' =
       IF channel.outcome # "ok"
       THEN [access EXCEPT !.state = "Response",
               !.status = IF channel.outcome = "protocol" THEN ProtocolError ELSE SlaveError]
       ELSE IF channel.opcode = "DBIDResp" THEN [access EXCEPT !.state = "WriteData"]
       ELSE IF channel.opcode = "Comp" THEN Advanced
       ELSE [Advanced EXCEPT !.result =
               [i \in Lanes |-> IF i \in Transferred THEN channel.data[i - access.offset]
                                ELSE access.result[i]]]

Answer(ready) ==
  /\ access.state = "Response" /\ ready
  /\ access' = [access EXCEPT !.state = "Idle"]
  /\ UNCHANGED <<channel, performed>>

\* Nothing to do before the transport or the memory has moved.
Wait(valid, ready) ==
  /\ \/ access.state = "Idle" /\ ~ valid
     \/ access.state = "Response" /\ ~ ready
     \/ access.state \in {"ReadPending", "WriteAwaitDBID", "WriteAwaitComp"} /\ channel = NoFlit
  /\ UNCHANGED <<access, channel, performed>>

AccessEdge(valid, request, ready) ==
  \/ Accept(valid, request) \/ Issue \/ SendData \/ Receive \/ Answer(ready) \/ Wait(valid, ready)

------------------------------------------------------------------------------
(* The memory (external).                                                  *)

Outcomes == {"ok", "slave", "protocol"}
Flit(opcode, outcome, data) == [opcode |-> opcode, outcome |-> outcome, data |-> data]

MemoryReads ==
  /\ access.state = "ReadPending" /\ channel = NoFlit
  /\ \E o \in Outcomes :
       channel' = Flit("CompData", o,
                    [i \in Lanes |-> IF i < access.size THEN CoherentAt(access.address + i) ELSE 0])
  /\ UNCHANGED <<access, performed, stores, dirty>>

MemoryGrants ==
  /\ access.state = "WriteAwaitDBID" /\ channel = NoFlit
  /\ \E o \in Outcomes : channel' = Flit("DBIDResp", o, NoData)
  /\ UNCHANGED <<access, performed, stores, dirty>>

\* The byte that goes to an address: the request's data, shifted by the
\* offset of the transfer and placed in the lane of its address.
DataFor(a) == access.data[access.offset + (a - access.address)]

\* WriteUniquePtl takes the line away from the caches; the written bytes
\* replace theirs.  A device keeps what is written to it to itself.
MemoryWrites ==
  /\ access.state = "WriteAwaitComp" /\ ~ performed /\ channel = NoFlit
  /\ LET w       == WindowOf(access.address)
         written == access.address .. access.address + access.size - 1
     IN /\ stores' = IF ~ InMap(access.address) THEN stores ELSE [stores EXCEPT ![w.id] =
             WriteBeat(@, access.address - w.base,
                       [o \in {a - w.base : a \in written} |-> DataFor(o + w.base)])]
        /\ dirty' = [a \in DOMAIN dirty \ written |-> dirty[a]]
  /\ performed' = TRUE
  /\ UNCHANGED <<access, channel>>

MemoryCompletes ==
  /\ access.state = "WriteAwaitComp" /\ channel = NoFlit
  /\ \E o \in Outcomes : (performed \/ o # "ok") /\ channel' = Flit("Comp", o, NoData)
  /\ UNCHANGED <<access, performed, stores, dirty>>

MemoryStep == MemoryReads \/ MemoryGrants \/ MemoryWrites \/ MemoryCompletes
=============================================================================
