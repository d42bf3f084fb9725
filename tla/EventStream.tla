---------------------------- MODULE EventStream -----------------------------
(***************************************************************************)
(* A traced simulation: TestDriver, the rheg_sim_open/cycle/close adapter, *)
(* the collector and the writer.  In each cycle the instrumented design    *)
(* (external) makes its callbacks; the driver then closes the cycle, and   *)
(* any error ends the simulation.                                          *)
(***************************************************************************)
EXTENDS EventGraph, PerfettoWriter

CONSTANT LastCycle  \* the cycle after which the driver gives up: max_cycles

\* The design's cycles and payloads are among those a callback may carry.
ASSUME StreamAssumption ==
  /\ LastCycle \in Nat /\ 0 .. LastCycle \subseteq Cycles
  /\ \A s \in DOMAIN PayloadWidth : PayloadWidth[s] \in Widths

VARIABLES driver,  \* "unopened", "reset", "running", "closed", or "stopped" by $fatal
          cycle,   \* event_cycle
          writer   \* the adapter's PerfettoWriter

systemVars == <<vars, driver, cycle, writer>>

SystemInit ==
  /\ Init
  /\ driver = "unopened" /\ cycle = 0 /\ writer = NewWriter

\* rheg_sim_open: bind the descriptor and the timing, begin the stream, and
\* construct the writer from the header.
OpenTrace ==
  /\ driver = "unopened" /\ ~ started /\ Empty
  /\ manifest' = TRUE /\ timing' = 0
  /\ streaming' = TRUE /\ started' = TRUE /\ finishedCycle' = NoCycle
  /\ driver' = "reset" /\ writer' = NewWriter
  /\ UNCHANGED <<nodes, edges, epochActive, pendingNodes, pendingEdges, cycle>>

\* Sampled resets before the first traced cycle; then reset is released.
SampleReset   == driver = "reset" /\ ResetAsserted /\ UNCHANGED <<driver, cycle, writer>>
LeaveReset ==
  /\ driver = "reset" /\ driver' = "running"
  /\ UNCHANGED <<vars, cycle, writer>>

Cycling == driver = "running" /\ cycle <= LastCycle

\* A site fires at most once in a cycle and counts its occurrences.
NextRef(s) == <<s, Cardinality({r \in Keys : r[1] = s /\ nodes[r].present})>>
Firing     == {r \in pendingNodes : nodes[r].present}

SiteFires ==
  /\ Cycling
  /\ \E s \in DOMAIN PayloadWidth :
       /\ \A r \in Firing : r[1] # s
       /\ NextRef(s) \in Refs
       /\ RecordNode(NextRef(s), cycle, PayloadWidth[s])
  /\ UNCHANGED <<driver, cycle, writer>>

SiteCaptures ==
  /\ Cycling
  /\ \E r \in Firing, index \in WordIndexes, word \in WordValues :
       /\ index * WordBits < PayloadWidth[r[1]]
       /\ RecordPayload(r, index, word)
  /\ UNCHANGED <<driver, cycle, writer>>

SiteDepends ==
  /\ Cycling
  /\ \E e \in EdgeInputs :
       /\ e[1] \in Keys /\ e[2] \in Firing /\ e \notin edges
       /\ <<e[1][1], e[2][1]>> \in Dependencies
       /\ RecordEdge(e)
  /\ UNCHANGED <<driver, cycle, writer>>

\* rheg_sim_cycle at the end of a cycle.  The batch leaves the collector
\* before the writer sees it, so one that the writer refuses is in neither.
CycleWritten ==
  /\ Cycling /\ FinishCycle(cycle) /\ Accepts(writer, Batch(cycle))
  /\ writer' = Encode(writer, Batch(cycle))
  /\ cycle' = cycle + 1
  /\ UNCHANGED driver

CycleRefused ==
  /\ Cycling /\ FinishCycle(cycle) /\ ~ Accepts(writer, Batch(cycle))
  /\ driver' = "stopped"
  /\ UNCHANGED <<cycle, writer>>

OutputFails ==
  /\ Cycling /\ FinishCycle(cycle) /\ Accepts(writer, Batch(cycle))
  /\ writer' \in Poisoned(writer, Encode(writer, Batch(cycle)))
  /\ driver' = "stopped"
  /\ UNCHANGED cycle

\* rheg_sim_close: on the target's exit, or at the cycle limit.
CloseTrace ==
  /\ driver = "running" /\ cycle > 0 /\ EndStream
  /\ writer' = Finish(writer) /\ driver' = "closed"
  /\ UNCHANGED cycle

CloseFails ==
  /\ driver = "running" /\ cycle > 0 /\ EndStream
  /\ writer' \in Poisoned(writer, Finish(writer))
  /\ driver' = "stopped"
  /\ UNCHANGED cycle

DesignStep == SiteFires \/ SiteCaptures \/ SiteDepends
DriverStep ==
  \/ OpenTrace \/ SampleReset \/ LeaveReset
  \/ CycleWritten \/ CycleRefused \/ OutputFails
  \/ CloseTrace \/ CloseFails

SystemNext ==
  \/ DesignStep
  \/ DriverStep

SystemSpec == SystemInit /\ [][SystemNext]_systemVars

------------------------------------------------------------------------------
(* Properties.                                                             *)

WrittenNodes == [r \in DOMAIN writer.known |-> nodes[r]]
WrittenEdges == {e \in edges : e[2] \in DOMAIN writer.known}
Intact        == driver \in {"running", "closed"}

\* README: streaming and replay use identical ordering and encoding.  Whatever
\* the batches, the packets written cycle by cycle are those of one replay of
\* the snapshot, once the stalls that are still open are ended.
ReplayMatchesLive ==
  Intact => Finish(writer).out = Replay(WrittenNodes, WrittenEdges).out

Packets(type)  == {i \in DOMAIN writer.out : writer.out[i].type = type}
UpTo(n, t)     == {i \in 1 .. n : writer.out[i].track = t}
Defines(i, u)  == \E d \in writer.out[i].defs : d.kind = u.kind /\ d.iid = u.iid

\* Every prefix of the trace can be imported, one torn by an output error
\* included: a string is defined once, no later than the first packet that
\* uses it, and a track never holds two open slices or ends one it did not
\* begin.
PrefixImportable ==
  \A n \in DOMAIN writer.out :
    LET p == writer.out[n]
        open == Cardinality(UpTo(n, p.track) \cap Packets("begin"))
                  - Cardinality(UpTo(n, p.track) \cap Packets("end"))
    IN  /\ \A u \in DOMAIN p.uses :
             p.uses[u].iid > 0 => \E i \in 1 .. n : \A j \in DOMAIN writer.out :
                                     Defines(j, p.uses[u]) <=> i = j
        /\ open \in {0, 1}

\* The occurrences one slice stands for: a maximal run of consecutive stalls
\* of one site that captured the same words under the same parents.
ParentsOf(r) == {e[1] : e \in {f \in WrittenEdges : f[2] = r}}
Extends(r) ==
  LET before == <<r[1], r[2] - 1>>
  IN  /\ IsStall(r[1]) /\ before \in DOMAIN writer.known
      /\ nodes[before].cycle + 1 = nodes[r].cycle
      /\ nodes[before].words = nodes[r].words
      /\ ParentsOf(before) = ParentsOf(r)
Run(h) ==
  {r \in DOMAIN writer.known :
     r[1] = h[1] /\ r[2] >= h[2] /\ \A k \in h[2] + 1 .. r[2] : Extends(<<h[1], k>>)}
Heads == {r \in DOMAIN writer.known : ~ Extends(r)}

SliceOf(i) ==  \* the slice an arrow or an end belongs to
  LET begun == UpTo(i, writer.out[i].track) \cap Packets("begin")
  IN  writer.out[CHOOSE j \in begun : \A k \in begun : k <= j].ref

\* What an importer shows is the graph, whatever was interned, coalesced or
\* split over batches: one slice per run, ending when the run does, and
\* exactly the arrows of the edges, each from its original source.
DisplayIsGraph ==
  Intact =>
    /\ Cardinality(Packets("begin")) = Cardinality(Heads)
    /\ {writer.out[i].ref : i \in Packets("begin")} = Heads
    /\ \A i \in Packets("end") :
         \E r \in Run(SliceOf(i)) :
           /\ writer.out[i].at = nodes[r].cycle + 1
           /\ \A q \in Run(SliceOf(i)) : nodes[q].cycle <= nodes[r].cycle
    /\ {<<SliceOf(a[1]), SliceOf(a[2])>> : a \in
          {p \in Packets("s") \X Packets("f") : writer.out[p[1]].id = writer.out[p[2]].id}}
         = {<<a[1][1], a[2]>> : a \in {p \in WrittenEdges \X Heads : p[1][2] \in Run(p[2])}}
    /\ \A j \in Packets("f") :
         Cardinality({i \in Packets("s") : i < j /\ writer.out[i].id = writer.out[j].id}) = 1

\* Same-cycle lineage that goes round, and two occurrences at one place.
Circular(b) ==
  \E S \in SUBSET DOMAIN b.nodes : S # {} /\ \A r \in S : Parents(b, r) \cap S # {}
Collides(b) ==
  \E r, s \in DOMAIN b.nodes :
    /\ r # s /\ b.nodes[r].cycle = b.nodes[s].cycle
    /\ TrackOf(r[1]) = TrackOf(s[1]) /\ SharedTrack(TrackOf(r[1]))

\* The two validators agree: the writer knows exactly what has been streamed,
\* and refuses a settled batch only for what the collector does not look at.
WriterFollowsGraph ==
  Cycling =>
    /\ DOMAIN writer.known = Streamed /\ writer.watermark = finishedCycle
    /\ Settled(cycle) =>
         (Accepts(writer, Batch(cycle)) <=> ~ Circular(Batch(cycle)) /\ ~ Collides(Batch(cycle)))
=============================================================================
