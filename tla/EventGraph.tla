----------------------------- MODULE EventGraph -----------------------------
(***************************************************************************)
(* rheg::Graph: the collector behind the four DPI callbacks, and the       *)
(* stream of settled batches a harness takes from it.  Callbacks arrive in *)
(* any order.  A call the code answers with an exception is not an action: *)
(* none of them changes the graph (ActivityIsRecorded is the reason for    *)
(* record_node, record_payload and reset, which set flags before they      *)
(* throw).                                                                 *)
(***************************************************************************)
EXTENDS EventSchema

CONSTANTS EdgeInputs,  \* the <<parent, child>> references a callback may carry
          MaxEpoch     \* the largest epoch identity: UINT64_MAX

ASSUME GraphAssumption == EdgeInputs \subseteq Refs \X Refs /\ MaxEpoch \in Nat

VARIABLES
  nodes,          \* NoNode where the map has no entry
  edges,
  manifest,       \* a descriptor is bound
  timing,         \* the epoch identity, NoEpoch before bind_timing
  started, epochActive, streaming,
  finishedCycle,  \* finished_cycle_, NoCycle when it has no value
  pendingNodes, pendingEdges

vars == <<nodes, edges, manifest, timing, started, epochActive, streaming,
          finishedCycle, pendingNodes, pendingEdges>>
streamVars == <<streaming, finishedCycle, pendingNodes, pendingEdges>>
bindings   == <<manifest, timing>>

NoEpoch == -1

Keys  == {r \in Refs : nodes[r] # NoNode}
Empty == Keys = {} /\ edges = {}

TypeOK ==
  /\ nodes \in [Refs -> Node]
  /\ edges \subseteq EdgeInputs /\ pendingEdges \subseteq EdgeInputs
  /\ manifest \in BOOLEAN /\ started \in BOOLEAN
  /\ epochActive \in BOOLEAN /\ streaming \in BOOLEAN
  /\ timing \in {NoEpoch} \cup 0 .. MaxEpoch
  /\ finishedCycle \in {NoCycle} \cup Cycles
  /\ pendingNodes \subseteq Refs

Init ==
  /\ nodes = [r \in Refs |-> NoNode] /\ edges = {}
  /\ manifest = FALSE /\ timing = NoEpoch
  /\ started = FALSE /\ epochActive = FALSE /\ streaming = FALSE
  /\ finishedCycle = NoCycle /\ pendingNodes = {} /\ pendingEdges = {}

------------------------------------------------------------------------------
(* Binding and clearing.                                                   *)

BindManifest ==
  /\ ~ manifest /\ ~ started /\ Empty
  /\ manifest' = TRUE
  /\ UNCHANGED <<nodes, edges, timing, started, epochActive, streamVars>>

BindTiming(epoch) ==
  /\ timing = NoEpoch /\ ~ started /\ Empty
  /\ timing' = epoch
  /\ UNCHANGED <<nodes, edges, manifest, started, epochActive, streamVars>>

Clear ==
  /\ ~ streaming
  /\ nodes' = [r \in Refs |-> NoNode] /\ edges' = {}
  /\ UNCHANGED <<bindings, started, epochActive, streamVars>>

\* reset(false): a deasserted reset makes even an empty epoch count.
ResetReleased ==
  /\ started' = TRUE /\ epochActive' = TRUE
  /\ UNCHANGED <<nodes, edges, bindings, streamVars>>

\* reset(true): refused while a stream has anything to lose, and when the
\* epoch identity is exhausted.
ResetAsserted ==
  /\ ~ (streaming /\ (epochActive \/ finishedCycle # NoCycle \/ pendingNodes # {} \/ pendingEdges # {}))
  /\ ~ (epochActive /\ timing = MaxEpoch)
  /\ timing' = IF epochActive /\ timing # NoEpoch THEN timing + 1 ELSE timing
  /\ nodes' = [r \in Refs |-> NoNode] /\ edges' = {}
  /\ started' = TRUE /\ epochActive' = FALSE
  /\ UNCHANGED <<manifest, streamVars>>

------------------------------------------------------------------------------
(* The occurrence callbacks.                                               *)

Activity == started' = TRUE /\ epochActive' = TRUE

\* An occurrence a finished cycle has already handed to the consumer.
Sealed(r) == streaming /\ nodes[r].present /\ r \notin pendingNodes

Present(n, cycle, width) ==
  [present |-> TRUE, cycle |-> cycle, width |-> width, words |-> n.words]
WithWord(n, index, word) ==
  [present |-> n.present, cycle |-> n.cycle, width |-> n.width,
   words |-> n.words \cup {<<index, word>>}]

RecordNode(r, cycle, width) ==
  /\ ~ (streaming /\ cycle <= finishedCycle)
  /\ ~ nodes[r].present
  /\ nodes' = [nodes EXCEPT ![r] = Present(nodes[r], cycle, width)]
  /\ pendingNodes' = IF streaming THEN pendingNodes \cup {r} ELSE pendingNodes
  /\ Activity
  /\ UNCHANGED <<edges, bindings, streaming, finishedCycle, pendingEdges>>

\* Mutant: a payload word may arrive after its cycle has been streamed.
RecordPayloadUnsealed(r, index, word) ==
  /\ \A w \in nodes[r].words : w[1] # index
  /\ nodes' = [nodes EXCEPT ![r] = WithWord(nodes[r], index, word)]
  /\ pendingNodes' = IF streaming THEN pendingNodes \cup {r} ELSE pendingNodes
  /\ Activity
  /\ UNCHANGED <<edges, bindings, streaming, finishedCycle, pendingEdges>>

RecordPayload(r, index, word) ==
  /\ ~ Sealed(r)
  /\ \A w \in nodes[r].words : w[1] # index
  /\ nodes' = [nodes EXCEPT ![r] = WithWord(nodes[r], index, word)]
  /\ pendingNodes' = IF streaming THEN pendingNodes \cup {r} ELSE pendingNodes
  /\ Activity
  /\ UNCHANGED <<edges, bindings, streaming, finishedCycle, pendingEdges>>

\* Mutant: an edge may be recorded after its child's cycle has been streamed.
RecordEdgeUnsealed(e) ==
  /\ edges' = edges \cup {e}
  /\ pendingEdges' = IF streaming THEN pendingEdges \cup {e} ELSE pendingEdges
  /\ Activity
  /\ UNCHANGED <<nodes, bindings, streaming, finishedCycle, pendingNodes>>

RecordEdge(e) ==
  /\ ~ Sealed(e[2])
  /\ edges' = edges \cup {e}
  /\ pendingEdges' = IF streaming THEN pendingEdges \cup {e} ELSE pendingEdges
  /\ Activity
  /\ UNCHANGED <<nodes, bindings, streaming, finishedCycle, pendingNodes>>

------------------------------------------------------------------------------
(* Snapshots and streams.                                                  *)

\* Mutant: validation looks at the child of an edge and not at its parent.
ValidEntriesChildOnly(N, E) ==
  /\ \A r \in N : ValidNode(r, nodes[r])
  /\ \A e \in E : e[2] \in Keys /\ ValidEdge(e, nodes)

\* validate_entries(N, E, nodes): new entries against everything retained.
ValidEntries(N, E) ==
  /\ \A r \in N : ValidNode(r, nodes[r])
  /\ \A e \in E : {e[1], e[2]} \subseteq Keys /\ ValidEdge(e, nodes)

\* snapshot() returns a copy of the graph, or throws.
SnapshotTaken == manifest /\ ValidEntries(Keys, edges)

BeginStream ==
  /\ ~ streaming /\ Empty /\ timing # NoEpoch /\ SnapshotTaken
  /\ streaming' = TRUE /\ started' = TRUE /\ finishedCycle' = NoCycle
  /\ UNCHANGED <<nodes, edges, bindings, epochActive, pendingNodes, pendingEdges>>

\* What finish_cycle demands of the entries of a batch before it hands it over.
Settled(cycle) ==
  /\ \A r \in pendingNodes : nodes[r].present /\ nodes[r].cycle \in (finishedCycle + 1) .. cycle
  /\ \A e \in pendingEdges : e[2] \in pendingNodes
  /\ ValidEntries(pendingNodes, pendingEdges)

\* The batch it returns.
Batch(cycle) ==
  [cycle |-> cycle, nodes |-> [r \in pendingNodes |-> nodes[r]], edges |-> pendingEdges]

FinishCycle(cycle) ==
  /\ streaming /\ cycle > finishedCycle
  /\ Settled(cycle)
  /\ pendingNodes' = {} /\ pendingEdges' = {} /\ finishedCycle' = cycle
  /\ UNCHANGED <<nodes, edges, bindings, started, epochActive, streaming>>

EndStream ==
  /\ streaming /\ pendingNodes = {} /\ pendingEdges = {}
  /\ streaming' = FALSE /\ finishedCycle' = NoCycle
  /\ UNCHANGED <<nodes, edges, bindings, started, epochActive, pendingNodes, pendingEdges>>

------------------------------------------------------------------------------
Callback ==
  \/ ResetAsserted \/ ResetReleased
  \/ \E r \in Refs, cycle \in Cycles, width \in Widths : RecordNode(r, cycle, width)
  \/ \E r \in Refs, index \in WordIndexes, word \in WordValues : RecordPayload(r, index, word)
  \/ \E e \in EdgeInputs : RecordEdge(e)

Query ==
  \/ BindManifest \/ Clear \/ BeginStream \/ EndStream
  \/ \E epoch \in 0 .. MaxEpoch : BindTiming(epoch)
  \/ \E cycle \in Cycles : FinishCycle(cycle)

Next == Callback \/ Query

Spec == Init /\ [][Next]_vars

------------------------------------------------------------------------------
(* Properties.                                                             *)

Streamed      == IF streaming THEN Keys \ pendingNodes ELSE {}
StreamedEdges == IF streaming THEN edges \ pendingEdges ELSE {}

\* Validation is incremental: finish_cycle checks only what is new, against
\* whatever the map holds at that moment.  Yet what has been streamed is a
\* valid graph by itself: complete, within the watermark, and with every
\* parent of a streamed occurrence streamed too.  So snapshot() succeeds at
\* every settled boundary of a stream.
StreamedIsValid ==
  /\ \A r \in Streamed : ValidNode(r, nodes[r]) /\ nodes[r].cycle <= finishedCycle
  /\ \A e \in StreamedEdges : {e[1], e[2]} \subseteq Streamed /\ ValidEdge(e, nodes)
  /\ streaming /\ pendingNodes = {} /\ pendingEdges = {} => SnapshotTaken

\* Why a call that throws leaves the graph as it was: entries exist only in an
\* epoch that is already marked active, pending references name entries (so
\* clear and reset cannot leave them dangling), and the two conditions of finish_cycle that look at
\* streamed occurrences ("outside unfinished cycle interval", "child already
\* streamed") are never the reason it refuses a batch.
ActivityIsRecorded ==
  /\ ~ Empty => started /\ epochActive
  /\ epochActive => started
  /\ streaming => manifest
  /\ pendingNodes \subseteq Keys /\ pendingEdges \subseteq edges
  /\ ~ streaming => pendingNodes = {} /\ pendingEdges = {} /\ finishedCycle = NoCycle
  /\ \A r \in pendingNodes : nodes[r].present => nodes[r].cycle > finishedCycle
  /\ \A e \in pendingEdges : e[2] \notin Streamed

\* The graph implements the log its consumers rely on: what finish_cycle has
\* handed over is never changed, extended or left without its parents.
StreamedNodes == [r \in Refs |-> IF r \in Streamed THEN nodes[r] ELSE NoNode]

Log == INSTANCE EventLog WITH
  open      <- streaming,
  log       <- StreamedNodes,
  logEdges  <- StreamedEdges,
  watermark <- finishedCycle

LogSpec == Log!Spec
=============================================================================
