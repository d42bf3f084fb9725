------------------------------ MODULE HostLoad -------------------------------
(***************************************************************************)
(* Loading and starting a program: DirectMemoryHtif (the transport under   *)
(* FESVR), the rhodium_htif_tick shell that calls it at every clock edge,  *)
(* and HostPort.  FESVR runs in a coroutine of the tick: turn says who     *)
(* runs.  FESVR itself and the hart are external.  The outputs of a tick   *)
(* are registers, and nothing changes them before the next edge.           *)
(***************************************************************************)
EXTENDS HostPort

CONSTANTS
  Designs,      \* the memories that register at reset, in some design
  Ops,          \* chunks FESVR may ask for: [kind, address, length]
  MaxOps,       \* chunks of a program's image
  Entries,      \* entry points FESVR may report
  NativeChunk,  \* the 64 KiB chunk of native loading
  BootRegister, \* address of the boot-address register
  ToHost,       \* address of the program's tohost word
  Command, Exit \* what a program may write there

ASSUME LoadAssumption ==
  /\ BootRegister % MaxBytes = 0
  /\ \A op \in Ops : op.kind \in {"read", "write", "clear"} /\ op.address \in Nat /\ op.length \in Nat
  /\ NativeChunk \in Nat

\* The boot-address register has a window of its own, and a design whose
\* memories do not conflict is part of the memory map.
ASSUME DesignAssumption ==
  /\ \E w \in Windows : w.base = BootRegister /\ w.size >= MaxBytes
  /\ \A d \in Designs :
       d \subseteq Windows \/ \E e, m \in d : Conflict(e, m)

VARIABLES
  \* the simulation
  reset, saw_reset, startup_failed,
  design, registry,
  registering,  \* memories whose registration at this edge is still to come
  through_chi,  \* +load-through-chi
  entry,
  turn,         \* "target" between clock edges, "host" while FESVR runs
  \* DirectMemoryHtif
  phase,        \* "off" before it is constructed; then what FESVR is doing
  failed_, loading_, image_memories,
  request_, request_pending_, request_exposed_, request_accepted_,
  response_,    \* response_data_ and response_status_
  waiting,      \* a call of transact has not returned
  job,          \* the chunk being carried out, NoJob if none
  exitcode,
  \* the hart
  hart,
  \* history
  ops,          \* chunks FESVR has asked for
  image,        \* the memory those chunks describe
  seen,         \* the last chunk read: what was returned, what it should be
  served        \* requests the port has taken since transact posted one

shellVars   == <<reset, saw_reset, startup_failed, design, registry, registering, through_chi, entry>>
requestVars == <<request_, request_pending_, request_exposed_, request_accepted_, response_, served>>
hostVars    == <<phase, failed_, loading_, image_memories, waiting, job, exitcode, ops, image, seen>>
vars        == <<portVars, shellVars, turn, hostVars, requestVars, hart>>

NoJob     == [kind |-> "none", address |-> 0, bytes |-> <<>>, got |-> <<>>]
NoRequest == [write |-> FALSE, address |-> 0, data |-> NoData, length |-> 0]
NothingSeen == [got |-> <<>>, expected |-> <<>>]

Memory == UNION {w.base .. w.base + w.size - 1 : w \in {x \in Windows : x.base # BootRegister}}

ASSUME ProgramAssumption == ToHost \in Memory /\ Exit # 0 /\ Command # Exit

LoadInit ==
  /\ PortInit
  /\ reset = TRUE /\ saw_reset = FALSE /\ startup_failed = FALSE
  /\ design \in Designs /\ registry = NoRegistry /\ registering = {}
  /\ through_chi \in BOOLEAN /\ entry \in Entries
  /\ turn = "target" /\ phase = "off" /\ failed_ = FALSE /\ loading_ = TRUE /\ image_memories = {}
  /\ request_ = NoRequest /\ request_pending_ = FALSE
  /\ request_exposed_ = FALSE /\ request_accepted_ = FALSE
  /\ response_ = [data |-> NoData, status |-> Success]
  /\ waiting = FALSE /\ job = NoJob /\ exitcode = 0 /\ hart = "rom"
  /\ ops = 0 /\ image = [a \in Memory |-> 0] /\ seen = NothingSeen /\ served = 0

------------------------------------------------------------------------------
(* The clock edge: the port and the tick see what was before it.           *)

request_valid  == request_pending_ /\ request_exposed_ /\ ~ request_accepted_
response_ready == request_pending_ /\ request_accepted_

\* exit_word, as the last tick returned it.
exit_word == IF startup_failed \/ failed_ THEN 3
             ELSE IF phase = "done" THEN exitcode * 2 + 1 ELSE 0

\* TestDriver ends the simulation as soon as the exit word is not zero.
Clocked == turn = "target" /\ exit_word = 0 /\ registering = {}

\* Every memory registers at every edge under reset, in any order.
ResetEdge ==
  /\ Clocked /\ reset
  /\ saw_reset' = TRUE /\ registering' = design
  /\ UNCHANGED <<portVars, reset, startup_failed, design, registry, through_chi, entry, turn, hostVars,
                 requestVars, hart>>

Register ==
  /\ \E m \in registering :
       registry' = Registered(registry, m) /\ registering' = registering \ {m}
  /\ UNCHANGED <<portVars, reset, saw_reset, startup_failed, design, through_chi, entry, turn, hostVars,
                 requestVars, hart>>

ReleaseReset ==
  /\ reset /\ reset' = FALSE
  /\ UNCHANGED <<portVars, saw_reset, startup_failed, design, registry, registering, through_chi, entry,
                 turn, hostVars, requestVars, hart>>

\* Mutant: a request counts as answered as soon as the port is ready for it.
TickPosted(ready, valid, data, status) ==
  LET answered == request_pending_ /\ request_exposed_ /\ ready
  IN /\ request_pending_'  = (request_pending_ /\ ~ answered)
     /\ request_exposed_'  = (request_pending_ /\ ~ answered)
     /\ request_accepted_' = FALSE
     /\ response_' = IF answered THEN [data |-> data, status |-> status] ELSE response_
     /\ turn' = "host"

\* DirectMemoryHtif::tick up to the switch into FESVR.  A request is shown
\* for an edge before its ready counts, and its answer counts once it has
\* been accepted.
Tick(ready, valid, data, status) ==
  LET accepted == request_pending_ /\ request_exposed_ /\ (request_accepted_ \/ ready)
      answered == accepted /\ valid
  IN /\ request_pending_'  = (request_pending_ /\ ~ answered)
     /\ request_exposed_'  = (request_pending_ /\ ~ answered)
     /\ request_accepted_' = (accepted /\ ~ answered)
     /\ response_' = IF answered THEN [data |-> data, status |-> status] ELSE response_
     /\ turn' = "host"

\* The port and a tick move together.
Edge ==
  /\ Clocked /\ ~ reset /\ phase # "off"
  /\ AccessEdge(request_valid, request_, response_ready)
  /\ Tick(access.state = "Idle", access.state = "Response", access.result, access.status)
  /\ served' = IF access.state = "Idle" /\ request_valid THEN served + 1 ELSE served
  /\ UNCHANGED <<request_, stores, dirty, shellVars, hostVars, hart>>

\* The first edge after reset constructs the transport, which freezes the
\* registrations; it fails without a clocked reset or after an error.  With
\* nothing pending its tick only lets FESVR run.
Construct ==
  /\ Clocked /\ ~ reset /\ phase = "off" /\ saw_reset /\ ~ registry.error
  /\ registry' = [registry EXCEPT !.frozen = TRUE]
  /\ image_memories' = IF through_chi THEN {} ELSE registry.memories
  /\ phase' = "load" /\ turn' = "host"
  /\ UNCHANGED <<portVars, reset, saw_reset, startup_failed, design, registering, through_chi, entry, failed_,
                 loading_, waiting, job, exitcode, ops, image, seen, requestVars, hart>>

StartupFails ==
  /\ Clocked /\ ~ reset /\ phase = "off" /\ (~ saw_reset \/ registry.error)
  /\ startup_failed' = TRUE
  /\ UNCHANGED <<portVars, reset, saw_reset, design, registry, registering, through_chi, entry, turn,
                 hostVars, requestVars, hart>>

------------------------------------------------------------------------------
(* The host: DirectMemoryHtif under FESVR, until it switches back.         *)

HostRuns == turn = "host" /\ ~ failed_

\* An exception ends FESVR; the transport reports it from then on.
Throws ==
  /\ failed_' = TRUE /\ waiting' = FALSE /\ job' = NoJob
  /\ UNCHANGED <<phase, loading_, image_memories, exitcode, ops, image, seen, request_,
                 request_pending_, request_exposed_, request_accepted_, response_, served>>

\* transact waits, FESVR is idle, has ended or has failed.
SwitchToTarget ==
  /\ turn = "host" /\ (request_pending_ \/ failed_ \/ phase = "done")
  /\ turn' = "target"
  /\ UNCHANGED <<portVars, shellVars, hostVars, requestVars, hart>>

\* transact, up to the wait.
Post(write, address, data, length) ==
  /\ request_' = [write |-> write, address |-> address, data |-> data, length |-> length]
  /\ request_pending_' = TRUE /\ request_exposed_' = FALSE /\ request_accepted_' = FALSE
  /\ waiting' = TRUE /\ served' = 0
  /\ UNCHANGED response_

chunk_max_size == IF loading_ /\ image_memories # {} THEN NativeChunk ELSE MaxBytes

\* Mutant: only the first byte of the boot register is guarded.
ReservedFirst(kind, address, length) ==
  /\ loading_ /\ kind # "read"
  /\ address <= BootRegister /\ address + length - 1 >= BootRegister

\* require_loading_write.
Reserved(kind, address, length) ==
  /\ loading_ /\ kind # "read"
  /\ address <= BootRegister + MaxBytes - 1 /\ address + length - 1 >= BootRegister

\* The bytes of the k-th chunk are its own; a program's tohost is zero.
Payload(op, k) ==
  [i \in 1 .. op.length |->
     IF op.kind = "write" /\ op.address + i - 1 # ToHost THEN k * NativeChunk + i ELSE 0]

Covered(op) == op.address .. op.address + op.length - 1

\* read_chunk, write_chunk, clear_chunk: what FESVR asks for next.
StartChunk ==
  /\ HostRuns /\ phase = "load" /\ job = NoJob /\ ops < MaxOps
  /\ \E op \in Ops :
       /\ op.length <= chunk_max_size
       /\ IF Reserved(op.kind, op.address, op.length) THEN Throws
          ELSE /\ job' = [kind |-> op.kind, address |-> op.address,
                          bytes |-> Payload(op, ops + 1), got |-> <<>>]
               /\ ops' = ops + 1 /\ seen' = NothingSeen
               /\ image' = IF op.kind = "read" THEN image
                           ELSE [a \in Memory |-> IF a \in Covered(op)
                                   THEN Payload(op, ops + 1)[a - op.address + 1] ELSE image[a]]
               /\ UNCHANGED <<phase, failed_, loading_, image_memories, waiting, exitcode, requestVars>>
  /\ UNCHANGED <<portVars, shellVars, turn, hart>>

Working == HostRuns /\ job # NoJob /\ job.bytes # <<>> /\ ~ waiting

\* Mutant: native access goes on after the boot address is published.
SegmentWarm == Segment(image_memories, job.address, Len(job.bytes))

\* Native access ends before the boot address is published.
NextSegment ==
  IF loading_ THEN Segment(image_memories, job.address, Len(job.bytes))
  ELSE [region |-> NoRegion, length |-> Len(job.bytes)]

\* What remains of the chunk after n bytes, and what has been read.
Rest(n, read) == [job EXCEPT !.address = @ + n, !.bytes = SubSeq(@, n + 1, Len(@)), !.got = @ \o read]

NativeSegment ==
  /\ Working /\ NextSegment.region # NoRegion
  /\ LET n == NextSegment.length
         region == NextSegment.region
         store  == stores[region.id]
     IN /\ stores' = [stores EXCEPT ![region.id] =
             CASE job.kind = "write" -> WriteBytes(@, region.offset, SubSeq(job.bytes, 1, n))
               [] job.kind = "clear" -> ZeroBytes(@, region.offset, n)
               [] job.kind = "read"  -> @]
        /\ job' = Rest(n, IF job.kind = "read" THEN ReadBytes(store, region.offset, n) ELSE <<>>)
  /\ UNCHANGED <<access, channel, performed, dirty, shellVars, turn, phase, failed_, loading_,
                 image_memories, waiting, exitcode, ops, image, seen, requestVars, hart>>

TransferLength == Min({NextSegment.length, MaxBytes})

PostSegment ==
  /\ Working /\ NextSegment.region = NoRegion
  /\ Post(job.kind # "read", job.address,
          [i \in Lanes |-> IF i < TransferLength THEN job.bytes[i + 1] ELSE 0], TransferLength)
  /\ UNCHANGED <<portVars, shellVars, turn, phase, failed_, loading_, image_memories, job, exitcode,
                 ops, image, seen, hart>>

\* transact returns, or throws on any status but Success.
Answered == HostRuns /\ waiting /\ ~ request_pending_

TransactFails ==
  /\ Answered /\ response_.status # Success /\ Throws
  /\ UNCHANGED <<portVars, shellVars, turn, hart>>

SegmentAnswered ==
  /\ Answered /\ response_.status = Success /\ job # NoJob
  /\ waiting' = FALSE
  /\ job' = Rest(request_.length, IF job.kind = "read"
               THEN [i \in 1 .. request_.length |-> response_.data[i - 1]] ELSE <<>>)
  /\ UNCHANGED <<portVars, shellVars, turn, phase, failed_, loading_, image_memories, exitcode, ops,
                 image, seen, requestVars, hart>>

Finished(kinds) == HostRuns /\ job # NoJob /\ job.bytes = <<>> /\ ~ waiting /\ job.kind \in kinds

\* A chunk of the image is done.
ChunkDone ==
  /\ Finished({"read", "write", "clear"}) /\ phase = "load"
  /\ job' = NoJob
  /\ seen' = IF job.kind # "read" THEN seen
             ELSE [got |-> job.got, expected |->
                     [i \in 1 .. Len(job.got) |->
                        LET a == job.address - Len(job.got) + i - 1
                        IN IF a \in Memory THEN image[a] ELSE job.got[i]]]
  /\ UNCHANGED <<portVars, shellVars, turn, phase, failed_, loading_, image_memories, waiting,
                 exitcode, ops, image, requestVars, hart>>

BootWord == [i \in Lanes |-> IF i = 0 THEN entry ELSE 0]

\* reset(): FESVR has loaded the image and publishes the entry point.
Publish ==
  /\ HostRuns /\ phase = "load" /\ job = NoJob
  /\ IF entry = 0 THEN Throws
     ELSE /\ phase' = "publish" /\ loading_' = FALSE
          /\ Post(TRUE, BootRegister, BootWord, MaxBytes)
          /\ UNCHANGED <<failed_, image_memories, job, exitcode, ops, image, seen>>
  /\ UNCHANGED <<portVars, shellVars, turn, hart>>

Published ==
  /\ Answered /\ response_.status = Success /\ phase = "publish"
  /\ phase' = "poll" /\ waiting' = FALSE
  /\ UNCHANGED <<portVars, shellVars, turn, failed_, loading_, image_memories, job, exitcode, ops,
                 image, seen, requestVars, hart>>

\* FESVR's loop (external): read tohost; clear it when the program has
\* written there, and end at its exit; be idle otherwise.
PollToHost ==
  /\ HostRuns /\ phase = "poll" /\ job = NoJob
  /\ job' = [kind |-> "read", address |-> ToHost, bytes |-> <<0>>, got |-> <<>>]
  /\ UNCHANGED <<portVars, shellVars, turn, phase, failed_, loading_, image_memories, waiting,
                 exitcode, ops, image, seen, requestVars, hart>>

Idle ==
  /\ Finished({"read"}) /\ phase = "poll" /\ job.got = <<0>>
  /\ job' = NoJob /\ turn' = "target"
  /\ UNCHANGED <<portVars, shellVars, phase, failed_, loading_, image_memories, waiting, exitcode,
                 ops, image, seen, requestVars, hart>>

ClearToHost ==
  /\ Finished({"read"}) /\ phase = "poll" /\ job.got # <<0>>
  /\ job' = [kind |-> "write", address |-> ToHost, bytes |-> <<0>>, got |-> job.got]
  /\ UNCHANGED <<portVars, shellVars, turn, phase, failed_, loading_, image_memories, waiting,
                 exitcode, ops, image, seen, requestVars, hart>>

Handle ==
  /\ Finished({"write"}) /\ phase = "poll"
  /\ IF job.got = <<Exit>> THEN phase' = "done" /\ exitcode' = Exit
     ELSE UNCHANGED <<phase, exitcode>>
  /\ job' = NoJob
  /\ UNCHANGED <<portVars, shellVars, turn, failed_, loading_, image_memories, waiting, ops, image,
                 seen, requestVars, hart>>

HostStep ==
  \/ SwitchToTarget \/ StartChunk \/ NativeSegment \/ PostSegment \/ TransactFails
  \/ SegmentAnswered \/ ChunkDone \/ Publish \/ Published
  \/ PollToHost \/ Idle \/ ClearToHost \/ Handle

------------------------------------------------------------------------------
(* The hart (external): it polls the boot-address register in the ROM,     *)
(* then runs a program that asks the host for one command and exits.       *)

Booted == \E i \in Lanes : CoherentAt(BootRegister + i) # 0

StoresToHost(value, next) ==
  /\ dirty' = [a \in DOMAIN dirty \cup {ToHost} |-> IF a = ToHost THEN value ELSE dirty[a]]
  /\ hart' = next

HartStep ==
  /\ ~ reset
  /\ \/ hart = "rom" /\ Booted /\ StoresToHost(Command, "asking")
     \/ hart = "asking" /\ CoherentAt(ToHost) = 0 /\ StoresToHost(Exit, "exiting")
  /\ UNCHANGED <<access, channel, performed, stores, shellVars, turn, hostVars, requestVars>>

Memories == MemoryStep /\ UNCHANGED <<shellVars, turn, hostVars, requestVars, hart>>

Next ==
  \/ ResetEdge \/ Register \/ ReleaseReset \/ Construct \/ StartupFails \/ Edge
  \/ HostStep \/ Memories \/ HartStep

\* The clock runs, reset ends, a coroutine that has the turn proceeds, and
\* the memory and the hart take the steps they can.
Clock == Register \/ Construct \/ StartupFails \/ Edge

Spec == LoadInit /\ [][Next]_vars /\ WF_vars(ReleaseReset) /\ WF_vars(Clock) /\ WF_vars(HostStep)
          /\ WF_vars(Memories) /\ WF_vars(HartStep)

------------------------------------------------------------------------------
(* Properties.                                                             *)

\* Between two chunks the memory the harts will see is, byte for byte, the
\* one the chunks so far describe, whether they went into a native store or
\* through the port, split at a region, into words and into transfers; and
\* what FESVR reads back is that memory.
LoadedExactly ==
  /\ job = NoJob /\ ~ failed_ /\ hart = "rom" => \A a \in Memory : CoherentAt(a) = image[a]
  /\ seen.got = seen.expected

\* The coroutine, the transport and the port stay in step: each request is
\* carried out once, the port works on the one that is pending, and transact
\* returns with its answer.
AnsweredOnce ==
  /\ served <= 1
  /\ waiting /\ ~ request_pending_ => served = 1 /\ access.state = "Idle"
  /\ access.state # "Idle" =>
       /\ request_pending_ /\ request_accepted_ /\ served = 1
       /\ access.write = request_.write /\ access.data = request_.data

\* A hart leaves the ROM only with the whole image in memory, native access
\* closed and no error while loading; and the simulation passes only when
\* the program has exited.
BootAfterLoad ==
  /\ Booted \/ hart # "rom" =>
       /\ ~ loading_ /\ phase # "load"
       /\ \A a \in Memory \ {ToHost} : CoherentAt(a) = image[a]
  /\ phase = "done" => hart = "exiting"

\* Loading ends, by an error or by the program's exit: no handshake waits
\* for the other side, and the host sees what the hart has in its cache.
SimulationEnds == <>(exit_word # 0)
=============================================================================
