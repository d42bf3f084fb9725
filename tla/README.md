# TLA+ models of Rhodium

Rhodium is a hardware language (`rhodium/`, `rfpl/`) with the hardware written in
it: an AMBA-CHI coherence fabric (`chi/`), an in-order RISC-V core with CHI caches
(`cores/rv5stage/`), a ready-valid and credit library (`flow/`), a NoC (`noc/`),
devices, SoCs assembled from them, and the C++ that surrounds their simulation: the
event collector and its trace writer (`rheg/`), the host transport and image loader
(`sims/fesvr/`, `chi/subordinate/dpi/`) and the UART's pseudo-terminal (`devices/dpi/`).

What is modelled is where correctness depends on the order in which several parties
move: the memory system (the Home, the L1 data caches, their transaction engines, the
memory behind them); the event stream (callbacks of the design, the driver, the
consumers of the trace); the host port (FESVR's coroutine, the clock edge, the port, the
hart); and the PTY (the terminal, the kernel, two queues, the serial engines).  TLC checks
the modules on small instances; TLAPS proves theorems about five of these systems, and about the
abstract memory, for every value of their constants.

Contents: [inventory](#1-inventory), [modules](#2-modules-and-the-code),
[abstractions](#3-abstractions), [runs](#4-runs), [fairness](#5-fairness),
[proofs](#6-proofs), [findings](#7-findings), [plan](#8-plan),
[not modelled](#9-not-modelled), [running](#10-running-the-checks).

## 1. Inventory

Status: **M** modelled, **P** partly, **-** not modelled (yet, where section 8 names it).

| Component | State | Operations | Hard behaviour | What makes it correct |
|---|---|---|---|---|
| **M** inclusive Home, `chi/home/inclusive-home.rhdl` | `phase`, the transaction's registers, LLC tags/valid/dirty/data, directory `resident_lines`, replacement pointers | accept, DBID, data, lookup, probe, fill, victim write, merge, complete, CompAck | stale directory bits, late copybacks, a failed step in the middle of several, requests queued behind the blocking engine | one writer, no lost data, the directory covers every copy, its own assertions |
| **P** L1D and its engines, `cores/rv5stage/dcache/`, `cores/rv5stage/chi/` | tag/state/data arrays, eviction registers, refill, writeback, maintenance and snoop engines | store hit, miss, upgrade, copyback, installation, maintenance, probe | a probe between grant and install, or between gather and copyback; gates that may deadlock | fresh copies, no stale copyback, every miss completes |
| **P** uncached requesters, `chi/line-read.rhdl`, `chi/write-unique.rhdl` of the core | one line buffer, one transaction | ReadOnce, WriteUniquePtl | a snapshot collected while stores go on | no version older than the request |
| **M** cache maintenance, `chi/transactions/cache-maintenance.rhdl` | one transaction | CleanShared, CleanInvalid, MakeInvalid | the issuer is probed as well | a dropped entry is settled |
| **M** retryable transaction control, `chi/transactions/retryable-transaction.rhdl` | attempt, milestones, refusal, credit | start, attempt, RetryAck, PCrdGrant, progress, finish | refusal and credit in either order, late refusals | credited repeats, accepted once, completion |
| **P** memory controller, `chi/subordinate/` | slots, operation queues, backing lines | ReadNoSnp, WriteNoSnpFull | overlapping operations, a refused or failed write | a write is whole, a read sees older writes |
| **P** CHI vocabulary, `chi/protocol/` | none | opcode and state classifiers | | agreement of both ends on states |
| **-** broadcast Home, `chi/home/coherent-home.rhdl` | transaction slot, probe set, collected data | as the inclusive Home, without an array | probes of all peers, data forwarded from a peer | the same cluster properties |
| **-** HN-I, `chi/home/home.rhdl` | tracked transactions | ReadNoSnp, WriteNoSnp | identifiers reused too early | every answer returns to its requester |
| **-** single-beat subordinate, `chi/subordinate/single-beat-subordinate.rhdl` | five phases | one MMIO access | | once per request |
| **-** transfer fragmenter, `chi/adapters/` | pieces left, merged error | split, merge | a failed piece | one answer, with the first error |
| **-** link layer, `chi/protocol/link.rhdl` | activation state, L-credits | activate, send, return credits | deactivation with credits out | no flit without a credit, none lost |
| **-** flow library, `flow/` | queues, credits, tickets, arbiters | push, pop, return | full and empty at the same cycle | order, bounds, no starvation |
| **-** NoC, `noc/`, `chi/noc/` | virtual channels, allocations | route, allocate, forward | wormhole cycles | deadlock freedom, packet integrity |
| **-** pending stores, I/O MSHR, `dcache/pending-stores.rhdl`, `dcache/io-mshr.rhdl` | store FIFO, one device access | commit, drain | a probe of a line with a store pending | program order |
| **-** core, CSRs, MMU, fetch | pipeline | instructions | | the RISC-V ISA; out of scope |
| **-** platform devices, `devices/` | gateways, timers | claim, complete | claim races completion | one claim per interrupt |
| **M** event collection, `rheg/runtime/`, `rheg/perfetto/`, `rheg/dpi/` | graph, pending sets, stream watermark; interned strings, open stall runs, flow ids | record node, payload and edge, reset, bind, clear, begin, finish cycle, end; write, finish | callbacks in any order; a call that throws; batches that cut a run; an output error half-way | what is streamed is a valid, append-only graph; the trace is the graph |
| **P** host port, `sims/fesvr/`, `sims/verilator/direct_mem_htif_dpi.cc` | coroutine, request handshake, `FesvrCHIAccess` state machine | read, write and clear chunks, publish, poll | outputs registered by a DPI call; errors at each transfer | each request once, the program ends |
| **M** image loading, `chi/subordinate/dpi/`, `sims/fesvr/` | sparse pages, registrations | register, segment, read, write, zero, beat | chunks over pages, regions and words; native and CHI paths | the image is exact before a hart leaves the ROM |
| **M** UART PTY, `devices/dpi/uart_dpi.cc` | two queues, registered outputs | tick | short reads and writes, resets, failures; a ready sampled one edge early | byte transparency |
| **-** compilers, floating point, ISA tables, SoC assembly | none at run time | | | translation; outside a state model |

How they meet.  An L1D sends REQ flits to the Home and answers the SNP flits the Home
sends it; the Home answers with RSP and DAT flits and reads and writes the subordinate
behind it with ReadNoSnp and WriteNoSnp.  The Home is blocking: it works on one
transaction while the requests of the others wait in front of a round-robin merge.  An
L1D is not: its snoop engine runs beside its refill or writeback, and the gates
between them (`snoop.cache_ready`, `can_complete`, `snoop_pending` in
`dcache/cache.rhdl`) decide which interleavings exist.  Almost every hazard in
`PROJECT.json` is a pair of these: a probe that crosses a grant, a copyback, a store
or a failure.

Around a simulated SoC.  At every clock edge the simulator evaluates the design and calls
its DPI functions; each sees the values before the edge, and what it returns is a register
seen after it.  The probes compiled into the design call the collector; the test driver
closes each cycle (`rheg_sim_cycle`), which takes the settled batch from the collector and
hands it to the Perfetto writer.  `rhodium_htif_tick` runs FESVR in a coroutine until FESVR
waits for a memory access, drives that access into `FesvrCHIAccess`, and resumes FESVR with
the answer; while the image is loaded, chunks that fall into a registered memory go to its
pages directly instead.  `uart_pty_tick` moves bytes between the serial engines and a
pseudo-terminal.

## 2. Modules and the code

`PROJECT.json` ("map") names the lines behind every definition.

| Module | Models | Correspondence |
|---|---|---|
| `CHICoherence` | `chi/protocol/coherence.rhdl`, `home/home-common.rhdl`, `chi/foundation.rhdl` of the core | the classifiers; states and opcodes as strings |
| `CHILinks` | the flits and channels of `chi/protocol/` | one set of flits per channel; a line is a function from its packets to *versions* (the n-th store writes version n); history `latest` |
| `InclusiveHome` | `CHIInclusiveHNF` | one action per phase; registers keep their names in camel case; `validLines`, `dirtyLines`, `residentLines`, `tags`, `lineRam` are the arrays |
| `CacheNode` | L1D, refill, writeback, maintenance and snoop engines | `l1[n][w]` one set of the arrays, `engine[n]` the one transaction `engines_idle` allows, `snoop[n]` the snoop engine |
| `IONode` | line read and single-packet write | `io[i]` the engine's registers |
| `BackingMemory` | the memory controller seen at its port; with faults, another subordinate | one read or one write at a time, which is all a blocking Home asks for |
| `InclusiveSystem` | the cluster | composes the five above: every step is a step of one agent; adds the history `window` and all cluster properties |
| `CoherentMemory` | no code: the abstract specification | permissions (None, Read, Write) and one value per line |
| `RetryableTransaction` | `CHIRetryableTransactionControl` and the profiles of the four engines around it | registers as variables, the handshakes as actions; the completer is external |
| `EventSchema` | `rheg.h`, `validate_entries` of `rheg.cc` | occurrences, edges and the manifest they are validated against |
| `EventGraph` | `rheg::Graph`, `rheg.cc` | one action per member that changes the graph; `started_`, `epoch_active_`, `streaming_` and the pending sets under their names |
| `EventLog` | no code: the abstract specification | an append-only log; `EventGraph` implements it |
| `PerfettoWriter` | `rheg_perfetto.cc` | the writer as a record, `Encode` and `Finish` as functions of it and a batch; `Poisoned` is an output error after any packet |
| `EventStream` | `rheg_dpi.cc`, the driver's calls in `TestDriver.v` | composes the collector and the writer; the instrumented design is external |
| `ImageStore` | `chi_memory.cc`, `image_memory.h`, `chi_dpi_memory_dpi.cc` | pure: pages, ranges, registrations, segments |
| `HostPort` | `FesvrCHIAccess` of `direct-memory-htif.rhdl` | one disjunct of `AccessEdge` per state; the coherent memory behind it is external |
| `HostLoad` | `direct_mem_htif.cc`, `direct_mem_htif_dpi.cc` | composes port, transport and host; a reset edge opens one `Register` per memory, in any order; `turn` is the coroutine switch; FESVR's loop and the hart are external |
| `UartPty` | `uart_dpi.cc`, `uart-dpi.rhdl`, the transmitter of `uart.rhdl` | one action per outcome of a tick; the amounts read and written are the operating system's choice |
| `ClusterInvariant` | no code: the inductive invariant of the cluster | one named part per agent and link; checked by TLC, proved in the modules below |
| `ClusterData` | no code: its two extensions, to data and to snapshots | one named part per place where data of a line can be; checked by TLC, proved below |
| `MC...` | | constants, symmetry and view for TLC |
| `InclusiveSystemProofs`, `ClusterCoherenceProofs`, `ClusterDataProofs` | | the theorems about the cluster, each module on those before it: types and messages, coherence and refinement, data |
| `CoherentMemoryProofs`, `RetryableTransactionProofs`, `EventStreamProofs`, `HostLoadProofs`, `UartPtyProofs` | | the other theorems |

`RetryableTransaction` is separate from the cluster on purpose: no Home of the
repository sends RetryAck, so inside the cluster an attempt is always the first and only
one, and the control reduces to "send the request".

## 3. Abstractions

* **Data.** Byte enables are whole packets; a line is `PacketCount` packets.  Two writers
  of different bytes of one packet are therefore two writers of that packet.
  Transaction ids are the requester and its packet set, because each engine has one
  transaction.  Widths and encodings are left out; `pcrd_type` is a set of values.
* **Links.** A channel is a set: a flit may be overtaken by any later one.  That covers
  every buffer, arbiter and NoC route between the agents and allows more than any of
  them does.  Two equal flits cannot be in flight together in the cluster, because each agent
  awaits the answer to one before it can send the other.
* **One L1 set.** Lines of different sets do not compete; here every line competes for the
  same ways.  The replacement way of the L1D is any way.
* **The core.** A store is the moment its bytes reach the array, which the code does with
  the engines idle and no probe of that line (`StoreHit`).  The pending store buffer, the
  LR/SC reservation, the service timers of `protect_core` and DVM probes are not
  modelled; the timers only delay probes, which the interleavings already do.
  Gather and installation are one step each: the gates keep stores and probes out while they run.
* **`snoop_pending`.** In the source it is also true while a probe waits at the port.
  The model tests only a probe already accepted, since an unaccepted one may as well
  be still on the link.  This is a weaker guard, so it allows more behaviours.  It hides no deadlock:
  what delays acceptance while a miss is active (the refill window, a copyback of
  the same line) does not wait for `snoop_pending` in turn, and the store buffer is empty
  when a miss or maintenance starts.
* **Faults.** `Faults` lets a fill, a probe or a backing write fail.  RV5Stage's own agents never
  fail: a requester that takes an error is another one
  (RV5Stage asserts that no refill fails), and it completes without installing.  A failing
  agent does not fail SnpMakeInvalid.
* **Requesters.** WriteUniquePtl is issued by an agent without a copy.  ReadNoSnp and WriteNoSnp go to another
  Home.  Directory bits that are set without a copy
  arise from bypassing loads and from silent replacement of clean lines.
* **Snoop order.** The Home issues probes in index order; the model picks any pending one.

The event stream.

* **Packets.** A packet is what an importer resolves of it: kind, time, track, flow id
  and strings.  A trace is a sequence of packets.  Protobuf and gzip framing, JSON, the
  field codecs and instruction rendering are pure functions and left out; the captured
  fields of an occurrence are one string, its words.
* **The manifest** is a valid one, as the descriptor's own validation leaves it.
* **Exceptions.** A callback that throws is not an action, because none of them changes
  the graph.  `record_node`, `record_payload` and `reset` set flags before they
  may throw; that this matters to nobody is what `ActivityIsRecorded` says.
* **The design** records an occurrence in its own cycle and numbers it in sequence in
  `EventStream`; in `EventGraph` callbacks carry any identity and cycle, in any order.

The host port.

* **Words** are functions of their byte lanes, addresses do not wrap, and the ranges that
  register are valid, so the argument checks of these files are left out.
* **The memory behind the port** answers when it likes, with the coherent data, or fails with
  either error at every step of a transfer.  What a hart's cache holds is `dirty`.
* **FESVR** asks for at most `MaxOps` chunks of any kind, then reports its entry point and
  polls `tohost`.  A program's `tohost` word is zero in its image.  `+max-cycles` is left out.
* `FesvrSnoopResponder`, which answers every snoop Invalid, is left out: the memory
  behind the port is not a directory here.

The PTY.  A byte is its position in its stream, so that a lost or repeated one shows.  A serial
frame is `FrameCycles` edges.  How much a read or a write moves, and whether it or
opening the PTY fails, is the operating system's choice.

Histories.  In the cluster, `latest[line][packet]` is what a load must see, `stores` numbers the
stores, `window[i][p]` collects the versions a pending snapshot may return.  No guard of
the code's actions reads `latest` or `window`; `stores` appears in guards only as the bound
`MaxStores`.  A write by WriteUnique becomes newest when the Home merges
it (`HomeOrdersWrite`); MakeInvalid, which discards dirty data by definition, makes memory's
version newest (`HomeOrdersMaintenance`).  These two actions are the code's step with its
effect on the history beside it.  `image`, `seen` and `served` of `HostLoad`, and
`typedAhead`, `accepted` and `faulted` of `UartPty`, are read by properties only.

## 4. Runs

All runs of the cluster have one L1 set and one LLC set.  The two blocks that matter
are *how many agents can interfere* and *how many lines fight for a way*.

| Run | Instance | Question | States |
|---|---|---|---|
| `coherence` | 2 L1Ds of one way, 2 lines, LLC of one way, 1 packet, 2 stores, no faults | do misses, upgrades, copybacks, maintenance and probes, in every order, keep `SingleWriter`, `NoStaleCopy`, `DirectoryCoversCopies`, `NothingLost`, `CleanMatchesMemory`, and implement `CoherentMemory`? | 0.7 million |
| `snapshots` | 2 L1Ds and an uncached requester, 1 line of 2 packets, 1 store, every fault | does a snapshot return versions of its window, does an error leave coherence and data alone, and do `ClusterInv`, `DataInv` and `WindowInv` hold under faults? | 1.5 million |
| `replacement` | 1 L1D of 2 ways, 3 lines of 2 packets, LLC of 2 ways | do back-invalidation, victims and late copybacks keep the Home's assertions, `ClusterInv` and `DataInv`, and does a dropped entry leave nothing behind? | 1.4 million |
| `progress` | 1 L1D, 1 uncached requester, 2 lines, LLC of one way | does every engine and every uncached transaction complete? | 197,850 |
| `contention` | 2 L1Ds, 1 line | do the windows in which probes are held off ever wait for each other? | 78,970 |
| `retry` | all four engine profiles, 16 credit types, 2 data packets | the control's assertions, credited repeats, one acceptance, completion | 353 |
| `lost_victim` | 1 L1D, 2 lines, failing backing writes | the first finding of section 7 (violated) | 32-state trace |
| `event_graph` | 2 sites, 3 occurrences, 3 edges (one the manifest forbids), cycles 0-2, 2 epochs, words that overflow their width | does incremental validation of settled batches add up to a valid graph, in every order of callbacks, and is the stream an append-only log? | 0.67 million |
| `event_stream` | a source, a transfer and the stall site that observes it; 6 occurrences, 4 cycles | is the live trace the replay of the snapshot, importable at every prefix, and does it show the graph? | 0.46 million |
| `uart_pty` | 3 bytes each way, frames of 2 edges, 1 further reset | are bytes lost, repeated or kept by short reads and writes, resets or failures? | 16,833 |
| `uart_input` | 3 bytes typed, no further reset | the second finding (violated) | 12-state trace |
| `host_load` | 3 out of 25 chunks over two native memories, RAM, ROM, a device and the boot register; pages of 2 bytes, words of 4; 2 designs, with and without `+load-through-chi` | is the image exact, each request carried out once, no hart early, and does the simulation end? | 991,484 |

Why these bounds are enough for the cases they claim.  The LLC of one way under two
lines makes every miss on the other line replace an entry that an L1D still holds, so
back-invalidation, late copybacks and stale bits happen in almost every
behaviour of `coherence`.  Two stores distinguish a newest, an older and an initial version.
Two packets are the least that let an intervention or a fill be partly received or
partly failed.  Two ways of the LLC with three lines give a choice of victim and a wrapping
replacement pointer; a way count that is no power of two is covered by the proof of
`ClusterTypeOK`, whose `WayCount` is arbitrary.  Two L1Ds suffice for a probe of a
peer; a third would add only a second probe of the same transaction, which the
maintenance of a shared line already has with two (the issuer is probed as well).

`event_graph` has words that arrive before their node and after their cycle, complete and
out-of-range payloads, and an epoch identity that runs out.  In `event_stream` three stalls of
one site let a run begin, go on and be cut by a change of parents, of words or of cycle, over
batches; the fourth name exceeds the interning limit, `MaxStrings`.  `host_load` has chunks inside a
page, across pages, memories, words and the end of the native memories, and some on the
boot register, the ROM and a device that cannot be read.  The RAM and the boot register take
different sizes of a read and of a write, so a chunk is split, or refused, according to its
direction.  A chunk of one kind over another of a different kind needs
two chunks, and reading the result back a third.  In `uart_pty` three bytes are
the least that can be lost, repeated and reordered.

The properties, each with a mutant of the code that violates it:

* `SingleWriter`: a copy that allows silent stores excludes every other copy.
* `NoStaleCopy`: whatever a load can hit, or be answered from, is newest.
* `DirectoryCoversCopies`: "a zero bit proves absence", and inclusion with it.
* `NothingLost`: between two transactions, the dirty copy, else the LLC, else memory, is newest.
* `CleanMatchesMemory`: a clean entry may be dropped without a write.
* `ClusterInv`: the inductive invariant of section 6.  It implies `SingleWriter`,
  `DirectoryCoversCopies` and the two assertion invariants.
* `DataInv`, `WindowInv`: its extensions.  `DataInv` implies `NoStaleCopy`, `NothingLost` and
  `CleanMatchesMemory`, `WindowInv` implies `SnapshotInWindow`.
* `SnapshotInWindow`: ReadOnce is per packet no older than its request.
* `DirectoryAssertions`, `ArrivalAssertions`: the assertions of `inclusive-home.rhdl` on
  its directory and on the flits it takes.
* `DroppedEntryIsSettled`: an action property; dropping an entry leaves no L1D copy and
  nothing unwritten.
* `ImplementsCoherentMemory`: the refinement.  A copy's permission comes from its state,
  the line's value is `latest`.  Loads, probes and messages are stutters, an
  installation is an acquisition (with the lines it displaces), a probe's retirement or a copyback is a yield,
  and a value may change from outside only while no cache has permission.
* `EngineCompletes`, `UncachedCompletes`, `TransactionCompletes`: liveness.
* Event graph: `StreamedIsValid` (what has been streamed is a graph that validates as a
  whole, closed under parents, although only batches are validated), `ActivityIsRecorded`,
  and `LogSpec`, the refinement of the append-only log.
* Event stream: `ReplayMatchesLive` (streaming and replay give the same packets),
  `PrefixImportable` (strings are defined once and before use, slices nest, for every
  prefix and for a torn trace), `DisplayIsGraph` (one slice per stall run, one arrow per
  edge from its original source), `WriterFollowsGraph` (the two validators agree).
* PTY: `OutputTransparent`, `PacedInput` (transparent for a terminal that awaits each byte),
  `QueuesDrain`.
* Host: `LoadedExactly` (the memory a hart will see is byte for byte what the chunks
  describe), `AnsweredOnce` (coroutine, transport and port agree on the pending
  request), `BootAfterLoad` (no hart leaves the ROM with a part of the image, native access
  open or an error), `SimulationEnds`.
* Retry: `ControlAssertions`, `RepeatIsCredited`, `AcceptedOnce`, `ProgressBarsRetry`.

Deadlock is checked in the cluster's, the control's and `event_graph`'s runs: a state in which no
agent can move is an error.  It is not in `event_stream`, the `uart_` runs and `host_load`,
where a closed or stopped trace, the assertion on the PTY's status and the exit word end the
simulation.

Symmetry permutes L1Ds (and in `coherence` the lines, which share one set); the initial
state and every action treat them alike, and it is used with safety properties only.
`CHOOSE` occurs where its set has one element, or over packets, which are not permuted.
`VIEW` leaves out the Home's transaction registers, but not `completionError`, while the
Home is Idle: every one of them is written before it is read in the next transaction (`HomeAcceptRequest`,
`HomeReceiveData`, `HomeLookup` and `HomeSendSnoop` write them in that order).
`pendingSnoops`, which a copyback does not load, is read in the snoop phases only, which a
copyback does not enter.  Which values of these registers are met first differs from one
multi-worker search to the next, so the counts of the runs with a view are rounded.  The
liveness runs use neither.

## 5. Fairness

`FairSpec` of the cluster assumes what the clocked hardware gives:

* weak fairness of the Home, the memory, every L1D's engines (`EngineDuty`), its snoop
  engine (`SnoopDuty`) and every uncached engine: a state machine whose guard stays true takes its step;
* strong fairness of `AcceptFrom(r)`: requests of all requesters meet in a round-robin arbiter in front
  of the Home (`flow/rr-arbiter.rhdl`), which serves each in turn although the Home is ready
  only between transactions;
* nothing makes a core or an uncached requester begin.  A core may begin for ever, so
  completion is shown against a busy peer.

`SnoopDuty` assumes that the timers of `protect_core` run out, which they do by
construction of their counters.  `RetryableTransaction` assumes weak fairness of
the engine's steps and of the completer, which answers every attempt; a repeat forbids
a second refusal, so at most one refusal delays a transaction.

`UartPty` assumes that a reset ends, that the assertion on the status is evaluated, and
`EdgeProgresses`: the clock runs, and infinitely often an edge reads and writes as much as
one byte where there is one.  The latter is the terminal's side: one that never reads fills the kernel's
buffer, and the queue is then kept by design.

`HostLoad` assumes that reset ends, that the clock runs (`Clock`: an edge, or a registration it calls), that a coroutine with the
turn proceeds (`HostStep`; the tick waits for it), that the memory answers (`Memories`: the
Homes' own liveness, `UncachedCompletes` above), and that the hart's program runs
(`HartStep`).  `EventStream` and `EventGraph`
have safety properties only.

## 6. Proofs

TLAPS checks eight modules.  None has an unproved step, and the
only assumptions are those of the constants (`LinkAssumption`, `HomeAssumption`,
`CacheAssumption`, the one of `RetryableTransaction`, `SchemaAssumption`, `GraphAssumption`,
`WriterAssumption`, `StreamAssumption`, `StoreAssumption`, `PortAssumption`, `LoadAssumption`, `UartAssumption`), which TLC evaluates in the runs.

**`InclusiveSystemProofs`: `Spec => []TypeOK`** for any number of L1Ds, uncached
requesters, lines, sets, ways and packets, and any faults.  `TypeOK` is not inductive: a
line address register may hold `NoLine`, and a step that indexes memory or sends
a request with it would leave the type.  The inductive invariant `TypeInv` adds
that it never does when it matters:

* `RequestShape`: a request names at least one packet, only L1Ds refill, and while the
  Home sends cached data it has a packet left to send;
* `ValidWaysHaveTags`, `VictimIsKnown`: a valid LLC way has a tag, and a victim being
  replaced has an address, through `HomeLookup` and the probes that follow;
* `CachesHaveLines` (`WaysHaveLines`, `EngineHasLine`, `ProbeHasLine`): a valid L1 way, a
  busy engine and an active probe have a line, an engine in a copyback has a victim that
  stays in its way unless a probe takes it, a probe that hit finds its line where it
  looked it up, and no probe of a line overlaps the departure of its copyback data;
* `UncachedHasLine`, `WriteHasLine`: the same for uncached engines and the memory.

The proof has one lemma per agent (`HomeQuietType`, `CoreStepType`, `EngineDutyType`,
`SnoopDutyType`, `UncachedStepType`, `MemoryStepType`), each with a step per action,
on lemmas about what a step of one agent leaves alone (`OneNodeChanges`,
`OneIOChanges`), about the lookup (`LookupType`) and the arrays.

**`InclusiveSystemProofs` and `ClusterCoherenceProofs`: the cluster is coherent.**  For any
number of L1Ds, uncached requesters, lines, sets, ways and packets, with any faults and with
links that reorder: `SingleWriter`, `DirectoryCoversCopies`, `DirectoryAssertions`,
`ArrivalAssertions`, and `ImplementsCoherentMemory`.  None of them is inductive: whether a cache
may take a line depends on the probes that were answered before, and whether an answer is the
expected one on everything that is in flight.  The inductive invariant is `TypeInv` with
`ClusterInv` (`ClusterInvariant.tla`), which TLC checks in `snapshots` and `replacement`:

* `MemorySideInv`: one read or one write at a time; each packet of a fill once; the stages of a
  victim's write.
* `RequesterSideInv`: every request, response and datum has one agent that waits for it, at
  that point of its transaction: which requests reach which phase of the Home (`PhaseFits`),
  refills, copybacks, maintenance and uncached transactions.  A requester may begin
  its next transaction before the Home has seen its acknowledgement (`MovedOn`).
* `ProbeInv`: one probe is under way, from the expected responder; a responder that fails says so in
  its first packet.
* `L1Inv`: a line is in one way, and what a probe found stays true until it is answered, although
  refills and copybacks run beside it.
* `DirectoryInv`: a line has one entry, and what the selected entry is in each phase.
* `CoherenceInv`: holders are tracked and owners alone, where a line that has been granted counts as held
  before it is installed; every cache the Home need not probe any more is clear
  (`ProbedInv`), stays clear while the Home works on the strength of it (`SettledInv`), and an
  answer in flight is true (`AnswerInv`).

The second half of `InclusiveSystemProofs` proves the first three, with a lemma per agent and link; no step
there depends on what caches hold.  `ClusterCoherenceProofs` proves the others.  Its argument is
short: only the last packet of a refill makes a cache a holder (`RefillCoherent`), and everything
else an L1D or its engines do takes copies away (`NoNewHolding`); the Home
drops a sharer from the directory only on an answer that is true (`CacheAnswers`, `HomeProbes`), and
answers a request only when the others are clear (`SettledInv`).  An error breaks none of
this because a failed probe proves nothing and leaves the directory as it was.
The refinement follows step by step: an installation is an acquisition with the yields of
what it displaces (`InstallImplements`), a probe or a copyback a yield (`WayYields`), a store a store
(`StoreHitImplements`), the Home's writes change a value only when no cache has
permission (`HomeImplements`), and all else stutters.

**`ClusterDataProofs`: no version is lost and no stale one is read.**  `NoStaleCopy`,
`NothingLost`, `CleanMatchesMemory`, `DroppedEntryIsSettled` and `SnapshotInWindow`, with any
faults but one, for any number of agents, lines, ways and packets.  Each theorem has the hypothesis
`Reliable`: the subordinate never fails a write, or there is one line only and so no victim.
Without it `NothingLost` is false, as the first finding of section 7 shows; the memory
controller of this repository satisfies it.  `DataInv` says of every place where data of a line can
be what it is worth there:

* `FreshInv`, `NodeDataInv`: copies, granted lines and refill data are newest; a transaction
  engine's or a probe's data is still that of its way; what is refilled overwrites nothing dirty.
* `ReturnedDataInv`: dirty data of a copyback stays newest from the cache to the LLC, and no
  other cache holds the line meanwhile, so no store can make it old.
* `BufferInv`, `SentInv`: while the Home probes, either a dirty copy exists or the line buffer, once
  what is in flight is merged into it (`Merges`), is newest.
* `AnswerDataInv`, `WriteBackInv`, `WriteDataFits`, `FillDataInv`: what the Home answers with, writes
  to memory and reads from memory.
* `DiscardInv`: a MakeInvalid cannot fail half-way, after data was given up.
* `LevelsInv`: an LLC entry is newest unless there is a dirty copy or the Home has its data in hand
  (`InHand`); a clean entry equals memory; without an entry memory is newest.

The argument: only an owner's store, an uncached write and a discard change what is newest.  A store
happens when the Home is at work on nothing that rests on the old version (`Undisturbed`,
`OwnerStores`); the other two are the Home's own and come after probes that cleared every copy
(`SettledInv` of `ClusterInv`).  All other steps move data from one of these
places to the next (`SendMerges`, `LevelsStay`, `DataStands` and a lemma per step of the Home).

`WindowInv` extends it to snapshots, which need not be newest when they arrive: an owner that a
ReadOnce has passed is not cleared and may store again.  What holds is that a dirty owner still
owes its data (`Owes`), or the merged buffer is in the window; the packets on their way and those that
have arrived are too, as the window only grows while its reader waits (`ReaderWaits`).

**`RetryableTransactionProofs`**: the type and all four safety properties of the run, for every set of
credit types and every line width.  The inductive invariant `IInv` has, beside
the type, `IdleIsQuiet` (an idle control has nothing in flight), `NothingAnswered`
(before the completer answers, no register but `attemptSent` has moved), `RefusalIsAccountedFor` (after a
refusal each of RetryAck and PCrdGrant is in flight or recorded, with the completer's
credit type), and `AnswersAreDisjoint` (the answers in flight complete
milestones not yet received, once).  The order in which refusal and credit arrive is the whole
difficulty: the third conjunct is what makes both orders come together.

**`CoherentMemoryProofs`**: the abstract memory keeps its type and one writer without a
reader beside it, which the cluster inherits through the refinement.

**`EventStreamProofs`, the collector**: the type, `ActivityIsRecorded`, `StreamedIsValid`, and
`Spec => LogSpec`, the refinement, for any manifest, any identities, cycles, widths and any
callbacks.  The inductive invariant is the conjunction of the two properties and
the type: that a streamed occurrence is complete (`StreamedIsSealed`, `StreamedFrame`)
rests on `Sealed`, which bars every later callback from it, and that a batch contains all
that is new rests on the pending sets, which `ActivityIsRecorded` ties to the graph.  Each
callback has a lemma; `FinishCycleStreams` carries the argument that what a batch adds and what
was there before validate together, and `FinishCycleAppends` turns it into a step of the log.
All other steps are stutters of the log, or `Open` and `Close`.

**`EventStreamProofs`, the writer: `WriterFollowsGraph` and `PrefixImportable`**, for any
manifest, observed sites, dictionary size and number of cycles.  `SystemInv` says per state of the driver what the writer
has seen: nothing before the first cycle, exactly what is streamed while it runs (`Following`), and
at any time a trace that can be imported (`Importable`), which is closed under prefixes
(`PrefixOf`) and therefore survives an output error.

* *The order.*  `Order` is a loop: `Placement` is what holds of it after each step (each occurrence once,
  after its parents, and when it stops early every occurrence left has a parent left).  A complete order
  has no circular lineage, by its least element in the circle; an incomplete one shows the circle
  (`OrderIsComplete`).  That is the only part of the writer's validation that
  is not the collector's, besides shared tracks (`AcceptsIs`).
* *The packets.*  `Dictionaries` ties the strings defined so far to the writer's
  dictionaries; `Balance` counts slices on a track, and `Open` says that the tracks
  with an open slice are those with a run.  `Sound` is both, and every packet keeps it
  (`EmitIs`).
* *The slices.*  A slice may begin only on a free track.  The reason is not local: `StartCycle` leaves
  open only runs that this cycle extends, so a busy track has a stall in this cycle (`Busy`), and
  any other occurrence on it would be a collision, which `Accepts` has excluded
  (`EncodeNodeIs`).  `CloseStallsIs`, `ParentArrowsIs` and `EncodeIs` carry this through the loops.

**`EventStreamProofs`, the replay: `ReplayMatchesLive`.**  Two encodings of the same graph are
compared, batch by batch and all at once.

* *The order* of the whole is the orders of the batches one after the other (`OrderFollows`): a batch holds
  one cycle, so Kahn's algorithm has an occurrence of an earlier cycle to place as long as one is left
  (`PlaceEarlier`), and what is left after that is ordered as it is alone (`PlaceLater`).
* *The state* in between is the same but for the watermark (`Same`, kept by each operation:
  `SameEmit` to `SameEncodeNode`) and for one difference that has to be carried along: a live
  writer ends the runs that ended before a batch's cycle with that batch, a replay only when a
  later cycle starts or at the end.  `Mirrors` says just that: the live writer is the
  replay's with its past runs ended.
* *Ending runs* is in the order of their last cycles, so ending those of the past first and the others
  later ends all of them in the same order (`CloseStallsTwice`, `PastFirst`).  With it the first occurrence of a
  batch brings the two writers together again (`EncodeBetween`: a cycle never extends a past run), and
  the others go in step (`EncodeEarlier`, `EncodeLater`); `EncodeFollows` is the induction
  over both loops, `MirrorsFinish` the end of the trace.
* *The system*: what has been streamed is closed under parents and lies before the cycle under
  way (`SnapshotIs`), so each batch `Follows` the snapshot.  `ReplayInv` adds `Mirroring`
  to `SystemInv`.

**`EventStreamProofs`, the display: `DisplayIsGraph`.**  An importer sees packets, the graph has
occurrences and edges.  Because a live writer mirrors a replay, it is enough to follow one
batch that holds all parents (`Whole`), and to allow for the runs that are not ended yet.

* *What packets show* (`Slices`, `Sources`, `Arrows`): one begin for each of a set of heads, one
  start of arrows for each of a set of sources, one end of an arrow for each of a set of pairs and
  after its start, and every end of a slice at the time its run ends.  An arrow or an end belongs to the last
  slice begun on its track (`Begun`), which no later packet of another track changes
  (`BegunStep`); `ShowsStep` is one more packet, `BeginShows` to `FlowStartShows` each kind of it.
* *What has been encoded* (`Drawn`): after the occurrences `R` of the order the packets show the heads,
  sources and lineage within `R`, the flow identities are distinct (`Numbered`), an open run is a run of
  the graph under the slice its track last began (`IsRun`), nothing in `R` extends it, and whatever in the rest of
  the batch extends an occurrence in `R` extends one that ends an open run.  The last part makes coalescing
  complete: a stall that goes on always finds its run.
* *Why it is kept.*  The next occurrence is the earliest of what is left and has its parents in `R` (`Due`,
  `OrderIsDue`).  A run that the cycle of the next occurrence does not extend is extended by nothing, since what extends
  it lies in the cycle after its last (`StartCycleDraws`); one that it does extend waits for the one
  occurrence that a shared track has in this cycle (`RunTrack`, `OneOnTrack`); any other occurrence is a
  head (`EncodeNodeDraws`).  `EncodeAllDraws` is the induction over the loop.
* *The end.*  When `R` is the whole batch nothing extends an open run, so ending any of them is
  right (`ClosedDisplays`): those in the past, as a live writer has, or all of them, as `Finish` does.  `DisplaysSuffices` reads the
  property off the packets; `DisplayInv` adds to `ReplayInv` that a closed trace displays what was written.

The loops of the writer are recursive functions on `0 .. n`.  No induction theorem of the library
can be used (they take an operator), so `UpToBound` gives induction up to a bound from
well-foundedness, for a property given as a set; each loop first shows that its function exists.

**`HostLoadProofs`: `AnsweredOnce`, `LoadedExactly` and `BootAfterLoad`**, for any program, memory
map, page size, widths and designs.

*The handshake* (`IInv`) says what each party believes of the request under way: `Posted` (shown,
not taken: the port is idle), `Taken` (the port works on this request, with its data), `Returned`
(nothing pending: the port is idle and the count is in), `FlitExpected` (a flit is at the
port only while the port waits for one) and `OneCaller` (`transact` is called for a chunk or for the
boot address, never for both).  The edge, where port and tick move on each other's old values, is
the lemma `EdgeStep`.

*The data* (`LInv`) follows a byte of the image from the chunk to memory.  `MemoryInv` is the
property with its exception: memory is the image but for what the chunk under way has left
to do, or after an error.  To keep it when a segment ends, one needs what `transact` was called
for (`RequestInv`), where in the request the port is (`ProgressInv`: offset and remainder make up
the length, and the transfer is one the Home supports), which flit answers it (`FlitInv`: a
write completes without an error only if it was performed), and that what the port has carried out
so far is in memory (`WrittenInv`) or was there (`ReadInv`).  `ChunkInv` and `LoopInv` tie a chunk to
the image or to `tohost`; `RegistryInv` and `PhaseInv` say which stores the loader may use and when.
That no hart starts early rests on the boot register being zero until `Publish`
(`MemoryInv`), for which the loader's refusal of writes there (`ChunkInv`) and the
confinement of a transfer to one memory (`WindowIs`, `WriteInWindow`) are needed; the hart's cache
(`HartInv`) holds `tohost` alone.  The lemmas on the stores say what byte is at an offset after
`WriteBytes`, `ZeroBytes` and `WriteBeat`, and what `Segment` and `ReadBytes` return; those
on arithmetic are about pages and beats.

The assumptions on the constants are what the code checks when a design is elaborated or started.
`WindowAssumption`: memories do not overlap and have a store each
(`register_memory`, `chi_memory.cc:28-37`; identity 0 is the model's `NoRegion`).  `ServiceAssumption`:
a transfer a Home supports is within a beat of one memory, since sizes are powers of two up to the beat
and a memory is aligned to its size (`memory-controller.rhdl:105`, and `:130` for the range).
`DesignAssumption`: the boot register has a window of its own, and a design
whose memories conflict may be given, but fails.  `ProgramAssumption`: `tohost` is in
memory, and an exit is told from a command and from zero.  TLC evaluates all of them in `host_load`.

**`UartPtyProofs`: `OutputTransparent` and `PacedInput`**, for any frame length.  Both speak of the
bytes spread over several places as of one sequence: a tick moves the cuts
(`MoveTheCut`), and only a completed frame or a typed byte makes it longer.  `OutputInv` adds
that no byte is greater than the last sent, which keeps the order after a byte was
lost to a failure.  `PacedInv` adds that paced input is one byte at a time, so that a byte
presented is taken at the very next edge: the transmitter is idle and nothing else waits.

Every invariant, action property and refinement that a passing run checks is proved.  Only
model-checked: the liveness properties (`EngineCompletes`, `UncachedCompletes`,
`TransactionCompletes`, `QueuesDrain`, `SimulationEnds`); fairness and ENABLED are out of TLAPS's reach.

## 7. Findings

**A dirty victim lost.** `lost_victim` violates `NothingLost`.  When the Home replaces an entry whose
dirty copy is in an L1D, the probe's data goes into `line_buffer` only:
`write_line_after_snoops` (`chi/home/inclusive-home.rhdl:436`) keeps a successful victim out of the
lines RAM, since it is about to leave.  If the subordinate then fails the write, the entry
stays valid and dirty (lines 564-573) but the RAM has the data from before the
probe, and the L1D has given its copy up: the newest data is gone, and a later hit returns
the old one without an error.  `chi/README.md:655-656` says that dirty intervention
transfers responsibility to the Home, and `:695-697` that dirty obligations complete before an
entry is reused.  The existing testbench covers a failed victim write whose
dirty data was in the LLC, not in an L1D.  The subordinate of this repository never
fails a write, so the loss needs another one behind the Home.

This is also why `snapshots`, with every fault, has one line and so no victim, and the other
passing runs of the cluster have no faults.

**Typed-ahead input lost.** `uart_input` violates `InputTransparent`.  `uart_pty_tick` pops its queue
whenever `pty_to_uart_ready` is high before the edge (`devices/dpi/uart_dpi.cc:207`).  Its outputs are
registers, so in the cycle in which byte A is presented the transmitter is still idle and
ready: at the edge at which it takes A, the tick pops B, presents it for one cycle to a
transmitter that is now busy, and replaces it at the next edge.  With a backlog every second
byte is lost.  `sims/README.md:101` says that the PTY is raw and byte-transparent.  The tests
type one byte at a time, for which `PacedInput` shows the input to be transparent.

## 8. Plan

Done: the inclusive cluster, the retry control, the abstract memory; the event stream; the
host port with image loading; the PTY; and the theorems above.

1. `BroadcastHome` and a cluster of it (`coherent-home.rhdl`) over the same `CHILinks`,
   `CacheNode`, `IONode`, `BackingMemory`, under the same properties and refinement.
2. `SubordinateSlots` (`memory-controller.rhdl`, `subordinate-slots.rhdl`) and `NonCoherentHome`
   (`home.rhdl`): overlapping transactions, identifier reuse, arbitration of two queues
   (the hazard at `memory-controller.rhdl:286` that no property covers yet).
3. `PendingStores` with the LR/SC reservation and `protect_core`: a refinement of `StoreHit`,
   and the bound on how long probes are held off (the hazards at `cache.rhdl:516` and `:839`).
4. `ChiLink` (`link.rhdl`) with `flow`'s credits: activation, no flit without a credit, none
   lost at deactivation; `CompletionQueue`, `PacketArbiter`; `TransferFragmenter`.
5. `HostPort` in the cluster, as a requester that answers snoops without ever holding a copy;
   `PlicGateway` with the single-beat subordinate.
6. NoC: wormhole allocation; the routing validation's graph algorithms against reference
   definitions.

Proofs, with their modules: that credits never exceed their bound and the identifier discipline
of slots.

## 9. Not modelled

* **The language, its compiler and the CIRCT passes** (`rhodium/`, `rfpl/`,
  `sram/circt/MemorySitePass.cpp`): translations of programs, without state that outlives a run.
* **Instruction semantics, the MMU and floating point**: functions of their inputs, whose
  specification is the RISC-V ISA.
* **Pure functions beside the event stream**: JSON, schema validation, field codecs,
  instruction rendering, gzip.
* **Resets after loading**: `sims/README.md:211` excludes warm reloads, and
  `sims/README.md:171` reset epochs after the first from a trace.
* The components with a dash in section 1 that section 8 names are not modelled yet.

## 10. Running the checks

In this directory: `tlc -workers 2 -config coherence.cfg MCInclusiveSystem` (and likewise for
the other configurations of the cluster; `retry.cfg` goes with `MCRetryableTransaction`,
`event_graph.cfg` with `MCEventGraph`, `event_stream.cfg` with `MCEventStream`, `host_load.cfg`
with `MCHostLoad`, `uart_pty.cfg` and `uart_input.cfg` with `UartPty`), and
`tlapm InclusiveSystemProofs.tla` (and the other modules of section 6).  A definition whose comment begins with "Mutant" is a plausible
bug: `PROJECT.json` ("mutants") says which definition it replaces and which property notices.
