------------------------- MODULE EventStreamProofs -------------------------
(***************************************************************************)
(* The event collection runtime, for any manifest, any identities and any  *)
(* callbacks: the collector's invariants, its refinement of the event log, *)
(* and what the writer of a traced simulation makes of the batches.        *)
(***************************************************************************)
EXTENDS EventStream, SequenceTheorems, FiniteSetTheorems, WellFoundedInduction, TLAPS

\* The inductive invariant.
IInv == TypeOK /\ ActivityIsRecorded /\ StreamedIsValid

------------------------------------------------------------------------------
(* Facts about entries.                                                    *)

\* A valid node is present, so it is an entry of the map.
LEMMA ValidIsPresent ==
  ASSUME NEW r, NEW n, ValidNode(r, n)
  PROVE  n.present /\ n # NoNode
BY DEF ValidNode, NoNode

\* Edges look only at the cycles of their two ends.
LEMMA EdgeFrame ==
  ASSUME NEW e, NEW f, NEW g, f[e[1]] = g[e[1]], f[e[2]] = g[e[2]], ValidEdge(e, f)
  PROVE  ValidEdge(e, g)
BY DEF ValidEdge

\* What was streamed is present, and sealed against callbacks.
LEMMA StreamedIsSealed ==
  ASSUME IInv, NEW r \in Streamed
  PROVE  streaming /\ r \in Refs /\ nodes[r].present /\ Sealed(r)
<1>1. streaming /\ r \in Keys /\ r \notin pendingNodes
  BY DEF Streamed
<1>2. ValidNode(r, nodes[r])
  BY DEF IInv, StreamedIsValid
<1>3. nodes[r].present
  BY <1>2, ValidIsPresent
<1> QED BY <1>1, <1>3 DEF Sealed, Keys

\* A step that leaves every streamed occurrence and edge alone keeps them valid.
LEMMA StreamedFrame ==
  ASSUME IInv, Streamed' = Streamed, StreamedEdges' = StreamedEdges,
         finishedCycle' = finishedCycle,
         \A r \in Streamed : nodes'[r] = nodes[r]
  PROVE  /\ \A r \in Streamed' : ValidNode(r, nodes'[r]) /\ nodes'[r].cycle <= finishedCycle'
         /\ \A e \in StreamedEdges' : {e[1], e[2]} \subseteq Streamed' /\ ValidEdge(e, nodes')
<1>1. \A r \in Streamed : ValidNode(r, nodes[r]) /\ nodes[r].cycle <= finishedCycle
  BY DEF IInv, StreamedIsValid
<1>2. \A r \in Streamed' : ValidNode(r, nodes'[r]) /\ nodes'[r].cycle <= finishedCycle'
  <2> SUFFICES ASSUME NEW r \in Streamed
               PROVE  ValidNode(r, nodes'[r]) /\ nodes'[r].cycle <= finishedCycle
    OBVIOUS
  <2>1. nodes'[r] = nodes[r]
    OBVIOUS
  <2> QED BY <1>1, <2>1
<1>3. ASSUME NEW e \in StreamedEdges
      PROVE  {e[1], e[2]} \subseteq Streamed /\ ValidEdge(e, nodes')
  <2>1. {e[1], e[2]} \subseteq Streamed /\ ValidEdge(e, nodes)
    BY DEF IInv, StreamedIsValid
  <2>2. nodes'[e[1]] = nodes[e[1]] /\ nodes'[e[2]] = nodes[e[2]]
    BY <2>1
  <2>3. ValidEdge(e, nodes')
    BY <2>1, <2>2 DEF ValidEdge
  <2> QED BY <2>1, <2>3
<1> QED BY <1>2, <1>3

\* With nothing pending, what is streamed is the whole graph.
LEMMA SettledSnapshot ==
  ASSUME manifest, streaming, pendingNodes = {}, pendingEdges = {},
         \A r \in Streamed : ValidNode(r, nodes[r]),
         \A e \in StreamedEdges : {e[1], e[2]} \subseteq Streamed /\ ValidEdge(e, nodes)
  PROVE  SnapshotTaken
BY DEF SnapshotTaken, ValidEntries, Streamed, StreamedEdges

\* A cycle number is at most the watermark or above it.
LEMMA CycleNumbers ==
  ASSUME TypeOK
  PROVE  /\ finishedCycle \in Int /\ finishedCycle >= NoCycle
         /\ \A r \in Refs : nodes[r].cycle \in Nat
         /\ \A x \in Cycles : x \in Nat
<1>1. \A x \in Cycles : x \in Nat
  BY SchemaAssumption
<1>2. finishedCycle \in {NoCycle} \cup Cycles
  BY DEF TypeOK
<1>3. ASSUME NEW r \in Refs
      PROVE  nodes[r].cycle \in Nat
  <2>1. nodes[r] \in Node
    BY DEF TypeOK
  <2>2. nodes[r].cycle \in Cycles \cup {0}
    BY <2>1 DEF Node
  <2> DEFINE c == nodes[r].cycle
  <2> HIDE DEF c
  <2>3. c \in Cycles \/ c = 0
    BY <2>2 DEF c
  <2>4. c \in Nat
    BY <2>3, <1>1
  <2> QED BY <2>4 DEF c
<1> QED BY <1>1, <1>2, <1>3 DEF NoCycle

------------------------------------------------------------------------------
(* Types.                                                                  *)

\* The invariant holds of a new collector.
LEMMA GraphInit == Init => IInv
<1> SUFFICES ASSUME Init PROVE IInv
  OBVIOUS
<1>1. NoNode \in Node
  BY DEF NoNode, Node, Words
<1>2. TypeOK
  BY <1>1 DEF Init, TypeOK
<1>3. Keys = {}
  BY DEF Init, Keys
<1>4. Streamed = {} /\ StreamedEdges = {}
  BY DEF Init, Streamed, StreamedEdges
<1> QED BY <1>2, <1>3, <1>4 DEF Init, IInv, ActivityIsRecorded, StreamedIsValid, Empty

\* Every operation keeps the types.
LEMMA GraphTypeStep == TypeOK /\ [Next]_vars => TypeOK'
<1> SUFFICES ASSUME TypeOK, [Next]_vars PROVE TypeOK'
  OBVIOUS
<1> USE DEF TypeOK
<1>1. NoNode \in Node
  BY DEF NoNode, Node, Words
<1>2. [r \in Refs |-> NoNode] \in [Refs -> Node]
  BY <1>1
<1>3. CASE UNCHANGED vars
  BY <1>3 DEF vars
<1>4. CASE BindManifest
  BY <1>4 DEF BindManifest, streamVars
<1>5. CASE \E epoch \in 0 .. MaxEpoch : BindTiming(epoch)
  BY <1>5 DEF BindTiming, streamVars
<1>6. CASE Clear
  BY <1>6, <1>2 DEF Clear, streamVars, bindings
<1>7. CASE ResetReleased
  BY <1>7 DEF ResetReleased, streamVars, bindings
<1>8. CASE ResetAsserted
  <2>1. timing' \in {NoEpoch} \cup 0 .. MaxEpoch
    BY <1>8, GraphAssumption DEF ResetAsserted, NoEpoch
  <2>2. nodes' = [r \in Refs |-> NoNode] /\ edges' = {}
        /\ started' = TRUE /\ epochActive' = FALSE
        /\ UNCHANGED <<manifest, streaming, finishedCycle, pendingNodes, pendingEdges>>
    BY <1>8 DEF ResetAsserted, streamVars
  <2> QED BY <1>2, <2>1, <2>2
<1>9. ASSUME NEW r \in Refs, NEW c \in Cycles, NEW width \in Widths, RecordNode(r, c, width)
      PROVE  TypeOK'
  <2>1. nodes[r] \in Node
    OBVIOUS
  <2>2. Present(nodes[r], c, width) \in Node
    BY <2>1 DEF Node, Present
  <2> QED BY <1>9, <2>2 DEF RecordNode, Activity, bindings
<1>10. ASSUME NEW r \in Refs, NEW index \in WordIndexes, NEW word \in WordValues,
              RecordPayload(r, index, word)
       PROVE  TypeOK'
  <2>1. nodes[r] \in Node
    OBVIOUS
  <2>2. nodes[r].words \cup {<<index, word>>} \in Words
    BY <2>1 DEF Node, Words
  <2>3. WithWord(nodes[r], index, word) \in Node
    BY <2>1, <2>2 DEF Node, WithWord
  <2> QED BY <1>10, <2>3 DEF RecordPayload, Activity, bindings
<1>11. CASE \E e \in EdgeInputs : RecordEdge(e)
  BY <1>11 DEF RecordEdge, Activity, bindings
<1>12. CASE BeginStream
  BY <1>12 DEF BeginStream, bindings
<1>13. CASE EndStream
  BY <1>13 DEF EndStream, bindings
<1>14. CASE \E c \in Cycles : FinishCycle(c)
  BY <1>14 DEF FinishCycle, bindings
<1> QED
  BY <1>3, <1>4, <1>5, <1>6, <1>7, <1>8, <1>9, <1>10, <1>11, <1>12, <1>13, <1>14
  DEF Next, Callback, Query

\* Every register, entry and pending reference keeps its type.
THEOREM GraphTypeOK == Spec => []TypeOK
<1>1. Init => TypeOK
  BY GraphInit DEF IInv
<1> QED BY <1>1, GraphTypeStep, PTL DEF Spec

------------------------------------------------------------------------------
(* Callbacks never touch what has been streamed.                           *)

\* A callback about r changes no entry but r, and r is not streamed.
LEMMA CallbackFrame ==
  ASSUME IInv, NEW r \in Refs, r \notin Streamed, NEW n, n # NoNode,
         nodes' = [nodes EXCEPT ![r] = n],
         pendingNodes' = IF streaming THEN pendingNodes \cup {r} ELSE pendingNodes,
         UNCHANGED <<edges, streaming, finishedCycle, pendingEdges>>
  PROVE  /\ Keys' = Keys \cup {r} /\ nodes'[r] = n
         /\ Streamed' = Streamed /\ StreamedEdges' = StreamedEdges
         /\ \A q \in Refs : q # r => nodes'[q] = nodes[q]
<1>1. nodes \in [Refs -> Node]
  BY DEF IInv, TypeOK
<1>2. nodes'[r] = n /\ \A q \in Refs : q # r => nodes'[q] = nodes[q]
  BY <1>1
<1>3. Keys' = Keys \cup {r}
  BY <1>2 DEF Keys
<1>4. ~ streaming => pendingNodes = {}
  BY DEF IInv, ActivityIsRecorded
<1>5. Streamed' = Streamed
  BY <1>3 DEF Streamed
<1> QED BY <1>2, <1>3, <1>5 DEF StreamedEdges

\* An occurrence arrives: it is new and its cycle is open.
LEMMA RecordNodeStep ==
  ASSUME IInv, TypeOK', NEW r \in Refs, NEW c \in Cycles, NEW width \in Widths,
         RecordNode(r, c, width)
  PROVE  IInv'
<1>1. r \notin Streamed
  BY StreamedIsSealed DEF RecordNode
<1>2. Present(nodes[r], c, width).present /\ Present(nodes[r], c, width).cycle = c
      /\ Present(nodes[r], c, width) # NoNode
  BY DEF Present, NoNode
<1>3. /\ Keys' = Keys \cup {r} /\ nodes'[r] = Present(nodes[r], c, width)
      /\ Streamed' = Streamed /\ StreamedEdges' = StreamedEdges
      /\ \A q \in Refs : q # r => nodes'[q] = nodes[q]
  BY <1>1, <1>2, CallbackFrame DEF RecordNode
<1>4. /\ UNCHANGED <<edges, manifest, streaming, finishedCycle, pendingEdges>>
      /\ pendingNodes' = IF streaming THEN pendingNodes \cup {r} ELSE pendingNodes
      /\ started' /\ epochActive'
      /\ streaming => ~ c <= finishedCycle
  BY DEF RecordNode, Activity, bindings
<1>5. ActivityIsRecorded'
  <2>1. \A q \in pendingNodes' : nodes'[q].present => nodes'[q].cycle > finishedCycle'
    <3> SUFFICES ASSUME NEW q \in pendingNodes', nodes'[q].present
                 PROVE  nodes'[q].cycle > finishedCycle
      BY <1>4
    <3>1. CASE q = r
      <4>1. streaming
        BY <1>4, <3>1 DEF IInv, ActivityIsRecorded
      <4>2. finishedCycle \in Int /\ c \in Nat
        BY CycleNumbers DEF IInv
      <4> QED BY <1>2, <1>3, <1>4, <3>1, <4>1, <4>2
    <3>2. CASE q # r
      <4>1. q \in pendingNodes /\ q \in Refs
        BY <1>4, <3>2 DEF IInv, TypeOK
      <4> QED BY <1>3, <3>2, <4>1 DEF IInv, ActivityIsRecorded
    <3> QED BY <3>1, <3>2
  <2>2. \A e \in pendingEdges' : e[2] \notin Streamed'
    BY <1>3, <1>4 DEF IInv, ActivityIsRecorded
  <2> QED BY <1>3, <1>4, <2>1, <2>2 DEF IInv, ActivityIsRecorded
<1>6. StreamedIsValid'
  <2>1. \A q \in Streamed : nodes'[q] = nodes[q]
    BY <1>1, <1>3 DEF Streamed, Keys
  <2>2. ~ (streaming' /\ pendingNodes' = {})
    BY <1>4
  <2> QED BY <1>3, <1>4, <2>1, <2>2, StreamedFrame DEF StreamedIsValid
<1> QED BY <1>5, <1>6 DEF IInv

\* A payload word arrives, before or after its occurrence.
LEMMA RecordPayloadStep ==
  ASSUME IInv, TypeOK', NEW r \in Refs, NEW index \in WordIndexes, NEW word \in WordValues,
         RecordPayload(r, index, word)
  PROVE  IInv'
<1> DEFINE n == WithWord(nodes[r], index, word)
<1>1. r \notin Streamed
  BY StreamedIsSealed DEF RecordPayload
<1>2. n.present = nodes[r].present /\ n.cycle = nodes[r].cycle /\ n # NoNode
  BY DEF WithWord, NoNode
<1> HIDE DEF n
<1>3. /\ Keys' = Keys \cup {r} /\ nodes'[r] = n
      /\ Streamed' = Streamed /\ StreamedEdges' = StreamedEdges
      /\ \A q \in Refs : q # r => nodes'[q] = nodes[q]
  BY <1>1, <1>2, CallbackFrame DEF RecordPayload, n
<1>4. /\ UNCHANGED <<edges, manifest, streaming, finishedCycle, pendingEdges>>
      /\ pendingNodes' = IF streaming THEN pendingNodes \cup {r} ELSE pendingNodes
      /\ started' /\ epochActive'
      /\ ~ Sealed(r)
  BY DEF RecordPayload, Activity, bindings
<1>5. ActivityIsRecorded'
  <2>1. \A q \in pendingNodes' : nodes'[q].present => nodes'[q].cycle > finishedCycle'
    <3> SUFFICES ASSUME NEW q \in pendingNodes', nodes'[q].present
                 PROVE  nodes'[q].cycle > finishedCycle
      BY <1>4
    <3>1. q \in Refs /\ nodes'[q].present = nodes[q].present /\ nodes'[q].cycle = nodes[q].cycle
      BY <1>2, <1>3, <1>4 DEF IInv, TypeOK
    <3>2. q \in pendingNodes
      BY <1>4, <3>1 DEF Sealed
    <3> QED BY <3>1, <3>2 DEF IInv, ActivityIsRecorded
  <2>2. \A e \in pendingEdges' : e[2] \notin Streamed'
    BY <1>3, <1>4 DEF IInv, ActivityIsRecorded
  <2> QED BY <1>3, <1>4, <2>1, <2>2 DEF IInv, ActivityIsRecorded
<1>6. StreamedIsValid'
  <2>1. \A q \in Streamed : nodes'[q] = nodes[q]
    BY <1>1, <1>3 DEF Streamed, Keys
  <2>2. ~ (streaming' /\ pendingNodes' = {})
    BY <1>4
  <2> QED BY <1>3, <1>4, <2>1, <2>2, StreamedFrame DEF StreamedIsValid
<1> QED BY <1>5, <1>6 DEF IInv

\* An edge arrives, and its child has not been streamed.
LEMMA RecordEdgeStep ==
  ASSUME IInv, TypeOK', NEW e \in EdgeInputs, RecordEdge(e)
  PROVE  IInv'
<1>1. e[2] \notin Streamed
  BY StreamedIsSealed DEF RecordEdge
<1>2. /\ UNCHANGED <<nodes, manifest, streaming, finishedCycle, pendingNodes>>
      /\ edges' = edges \cup {e}
      /\ pendingEdges' = IF streaming THEN pendingEdges \cup {e} ELSE pendingEdges
      /\ started' /\ epochActive'
  BY DEF RecordEdge, Activity, bindings
<1>3. Keys' = Keys /\ Streamed' = Streamed
  BY <1>2 DEF Keys, Streamed
<1>4. streaming => e \notin StreamedEdges
  <2> SUFFICES ASSUME streaming, e \in StreamedEdges PROVE FALSE
    OBVIOUS
  <2> QED BY <1>1 DEF IInv, StreamedIsValid
<1>5. StreamedEdges' = StreamedEdges
  BY <1>2, <1>4 DEF StreamedEdges, IInv, ActivityIsRecorded
<1>6. ActivityIsRecorded'
  BY <1>1, <1>2, <1>3 DEF IInv, ActivityIsRecorded
<1>7. StreamedIsValid'
  <2>1. \A q \in Streamed : nodes'[q] = nodes[q]
    BY <1>2
  <2>2. ~ (streaming' /\ pendingEdges' = {})
    BY <1>2
  <2> QED BY <1>2, <1>3, <1>5, <2>1, <2>2, StreamedFrame DEF StreamedIsValid
<1> QED BY <1>6, <1>7 DEF IInv

------------------------------------------------------------------------------
(* Streams and resets.                                                     *)

\* The batch a finished cycle hands over, and what it leaves streamed.
LEMMA FinishCycleStreams ==
  ASSUME IInv, NEW c \in Cycles, FinishCycle(c)
  PROVE  /\ Keys' = Keys /\ nodes' = nodes /\ streaming /\ streaming' /\ finishedCycle' = c
         /\ Streamed' = Keys /\ StreamedEdges' = edges
         /\ \A r \in Keys : ValidNode(r, nodes[r]) /\ nodes[r].cycle <= c
         /\ \A e \in edges : {e[1], e[2]} \subseteq Keys /\ ValidEdge(e, nodes)
         /\ \A r \in pendingNodes : nodes[r].cycle \in (finishedCycle + 1) .. c
         /\ \A e \in pendingEdges : e[2] \in pendingNodes
<1>1. /\ UNCHANGED <<nodes, edges, streaming>> /\ streaming
      /\ pendingNodes' = {} /\ pendingEdges' = {} /\ finishedCycle' = c
      /\ c > finishedCycle
  BY DEF FinishCycle
<1>2. Keys' = Keys /\ Streamed' = Keys /\ StreamedEdges' = edges
  BY <1>1 DEF Keys, Streamed, StreamedEdges
<1>3. /\ \A r \in pendingNodes : nodes[r].cycle \in (finishedCycle + 1) .. c
      /\ \A e \in pendingEdges : e[2] \in pendingNodes
      /\ \A r \in pendingNodes : ValidNode(r, nodes[r])
      /\ \A e \in pendingEdges : {e[1], e[2]} \subseteq Keys /\ ValidEdge(e, nodes)
  BY DEF FinishCycle, Settled, ValidEntries
<1>4. finishedCycle \in Int /\ c \in Nat /\ \A r \in Refs : nodes[r].cycle \in Nat
  BY CycleNumbers DEF IInv
<1>5. ASSUME NEW r \in Keys
      PROVE  ValidNode(r, nodes[r]) /\ nodes[r].cycle <= c
  <2>1. CASE r \in pendingNodes
    BY <1>3, <1>4, <2>1
  <2>2. CASE r \notin pendingNodes
    <3>1. r \in Streamed /\ r \in Refs
      BY <1>1, <2>2 DEF Streamed, Keys
    <3>2. ValidNode(r, nodes[r]) /\ nodes[r].cycle <= finishedCycle
      BY <3>1 DEF IInv, StreamedIsValid
    <3> QED BY <1>1, <1>4, <3>1, <3>2
  <2> QED BY <2>1, <2>2
<1>6. ASSUME NEW e \in edges
      PROVE  {e[1], e[2]} \subseteq Keys /\ ValidEdge(e, nodes)
  <2>1. CASE e \in pendingEdges
    BY <1>3, <2>1
  <2>2. CASE e \notin pendingEdges
    <3>1. e \in StreamedEdges
      BY <1>1, <2>2 DEF StreamedEdges
    <3>2. {e[1], e[2]} \subseteq Streamed /\ ValidEdge(e, nodes)
      BY <3>1 DEF IInv, StreamedIsValid
    <3> QED BY <1>1, <3>2 DEF Streamed
  <2> QED BY <2>1, <2>2
<1> QED BY <1>1, <1>2, <1>3, <1>5, <1>6

\* A cycle is finished: what it hands over was validated against the whole map.
LEMMA FinishCycleStep ==
  ASSUME IInv, TypeOK', NEW c \in Cycles, FinishCycle(c)
  PROVE  IInv'
<1>1. /\ Keys' = Keys /\ nodes' = nodes /\ streaming /\ streaming' /\ finishedCycle' = c
      /\ Streamed' = Keys /\ StreamedEdges' = edges
      /\ \A r \in Keys : ValidNode(r, nodes[r]) /\ nodes[r].cycle <= c
      /\ \A e \in edges : {e[1], e[2]} \subseteq Keys /\ ValidEdge(e, nodes)
  BY FinishCycleStreams
<1>2. /\ UNCHANGED <<edges, manifest, timing, started, epochActive>>
      /\ pendingNodes' = {} /\ pendingEdges' = {}
  BY DEF FinishCycle, bindings
<1>3. ActivityIsRecorded'
  BY <1>1, <1>2 DEF IInv, ActivityIsRecorded, Empty
<1>4. manifest'
  BY <1>1, <1>2 DEF IInv, ActivityIsRecorded
<1>5. SnapshotTaken'
  BY <1>1, <1>2, <1>4 DEF SnapshotTaken, ValidEntries
<1>6. StreamedIsValid'
  BY <1>1, <1>5 DEF StreamedIsValid
<1> QED BY <1>3, <1>6 DEF IInv

\* A graph that is emptied outside a stream, or before anything was streamed.
LEMMA EmptiedGraph ==
  ASSUME IInv, TypeOK', nodes' = [r \in Refs |-> NoNode], edges' = {},
         UNCHANGED <<manifest, streaming, finishedCycle, pendingNodes, pendingEdges>>,
         pendingNodes = {}, pendingEdges = {},
         epochActive' => started'
  PROVE  IInv'
<1>1. Keys' = {}
  BY DEF Keys
<1>2. Streamed' = {} /\ StreamedEdges' = {}
  BY <1>1 DEF Streamed, StreamedEdges
<1>3. ActivityIsRecorded'
  BY <1>1, <1>2 DEF IInv, ActivityIsRecorded, Empty
<1>4. streaming' => SnapshotTaken'
  BY <1>1 DEF SnapshotTaken, ValidEntries, IInv, ActivityIsRecorded
<1>5. StreamedIsValid'
  BY <1>2, <1>4 DEF StreamedIsValid
<1> QED BY <1>3, <1>5 DEF IInv

\* A step that only binds, releases reset or stutters.
LEMMA GraphUntouched ==
  ASSUME IInv, TypeOK', UNCHANGED <<nodes, edges, streamVars>>,
         manifest => manifest', started => started', epochActive => epochActive',
         epochActive' => started'
  PROVE  IInv'
<1>1. UNCHANGED <<nodes, edges, streaming, finishedCycle, pendingNodes, pendingEdges>>
  BY DEF streamVars
<1>2. Keys' = Keys /\ Streamed' = Streamed /\ StreamedEdges' = StreamedEdges
  BY <1>1 DEF Keys, Streamed, StreamedEdges
<1>3. ActivityIsRecorded'
  BY <1>1, <1>2 DEF IInv, ActivityIsRecorded, Empty
<1>4. streaming' /\ pendingNodes' = {} /\ pendingEdges' = {} => SnapshotTaken'
  <2>1. streaming' /\ pendingNodes' = {} /\ pendingEdges' = {} => SnapshotTaken /\ manifest'
    BY <1>1 DEF IInv, StreamedIsValid, ActivityIsRecorded
  <2> QED BY <2>1, <1>1, <1>2 DEF SnapshotTaken, ValidEntries
<1>5. StreamedIsValid'
  BY <1>1, <1>2, <1>4 DEF IInv, StreamedIsValid
<1> QED BY <1>3, <1>5 DEF IInv

\* A stream begins with an empty graph.
LEMMA BeginStreamStep ==
  ASSUME IInv, TypeOK', BeginStream
  PROVE  IInv'
<1>1. /\ ~ streaming /\ streaming' /\ Empty /\ SnapshotTaken /\ started' /\ finishedCycle' = NoCycle
      /\ UNCHANGED <<nodes, edges, manifest, epochActive, pendingNodes, pendingEdges>>
  BY DEF BeginStream, bindings
<1>2. Keys' = {} /\ edges' = {}
  BY <1>1 DEF Keys, Empty
<1>3. pendingNodes' = {} /\ pendingEdges' = {} /\ manifest'
  BY <1>1 DEF IInv, ActivityIsRecorded, SnapshotTaken
<1>4. Streamed' = {} /\ StreamedEdges' = {}
  BY <1>2 DEF Streamed, StreamedEdges
<1>5. ActivityIsRecorded'
  BY <1>1, <1>2, <1>3, <1>4 DEF ActivityIsRecorded, Empty
<1>6. StreamedIsValid'
  BY <1>2, <1>3, <1>4 DEF StreamedIsValid, SnapshotTaken, ValidEntries
<1> QED BY <1>5, <1>6 DEF IInv

\* A stream ends when nothing is pending.
LEMMA EndStreamStep ==
  ASSUME IInv, TypeOK', EndStream
  PROVE  IInv'
<1>1. /\ ~ streaming' /\ finishedCycle' = NoCycle /\ pendingNodes' = {} /\ pendingEdges' = {}
      /\ UNCHANGED <<nodes, edges, manifest, started, epochActive>>
  BY DEF EndStream, bindings
<1>2. Keys' = Keys /\ Streamed' = {} /\ StreamedEdges' = {}
  BY <1>1 DEF Keys, Streamed, StreamedEdges
<1>3. ActivityIsRecorded'
  BY <1>1, <1>2 DEF IInv, ActivityIsRecorded, Empty
<1>4. StreamedIsValid'
  BY <1>1, <1>2 DEF StreamedIsValid
<1> QED BY <1>3, <1>4 DEF IInv

\* Every operation keeps the invariant.
LEMMA GraphStep == IInv /\ [Next]_vars => IInv'
<1> SUFFICES ASSUME IInv, [Next]_vars PROVE IInv'
  OBVIOUS
<1>t. TypeOK'
  BY GraphTypeStep DEF IInv
<1>a. epochActive => started
  BY DEF IInv, ActivityIsRecorded
<1>1. CASE UNCHANGED vars
  BY <1>1, <1>t, <1>a, GraphUntouched DEF vars, streamVars
<1>2. CASE BindManifest
  BY <1>2, <1>t, <1>a, GraphUntouched DEF BindManifest, streamVars
<1>3. CASE \E epoch \in 0 .. MaxEpoch : BindTiming(epoch)
  BY <1>3, <1>t, <1>a, GraphUntouched DEF BindTiming, streamVars
<1>4. CASE ResetReleased
  BY <1>4, <1>t, GraphUntouched DEF ResetReleased, streamVars, bindings
<1>5. CASE Clear
  <2>1. pendingNodes = {} /\ pendingEdges = {}
    BY <1>5 DEF Clear, IInv, ActivityIsRecorded
  <2> QED BY <1>5, <2>1, <1>t, <1>a, EmptiedGraph DEF Clear, streamVars, bindings
<1>6. CASE ResetAsserted
  <2>1. pendingNodes = {} /\ pendingEdges = {}
    BY <1>6 DEF ResetAsserted, IInv, ActivityIsRecorded
  <2> QED BY <1>6, <2>1, <1>t, EmptiedGraph DEF ResetAsserted, streamVars
<1>7. ASSUME NEW r \in Refs, NEW c \in Cycles, NEW width \in Widths, RecordNode(r, c, width)
      PROVE  IInv'
  BY <1>7, <1>t, RecordNodeStep
<1>8. ASSUME NEW r \in Refs, NEW index \in WordIndexes, NEW word \in WordValues,
             RecordPayload(r, index, word)
      PROVE  IInv'
  BY <1>8, <1>t, RecordPayloadStep
<1>9. CASE \E e \in EdgeInputs : RecordEdge(e)
  BY <1>9, <1>t, RecordEdgeStep
<1>10. CASE BeginStream
  BY <1>10, <1>t, BeginStreamStep
<1>11. CASE EndStream
  BY <1>11, <1>t, EndStreamStep
<1>12. CASE \E c \in Cycles : FinishCycle(c)
  BY <1>12, <1>t, FinishCycleStep
<1> QED
  BY <1>1, <1>2, <1>3, <1>4, <1>5, <1>6, <1>7, <1>8, <1>9, <1>10, <1>11, <1>12
  DEF Next, Callback, Query

\* The invariant holds throughout.
LEMMA GraphInductive == Spec => []IInv
BY GraphInit, GraphStep, PTL DEF Spec

\* Calls that throw change nothing, and the collector never refuses a batch
\* because of an occurrence it has already streamed.
THEOREM GraphActivityIsRecorded == Spec => []ActivityIsRecorded
<1>1. IInv => ActivityIsRecorded
  BY DEF IInv
<1> QED BY <1>1, GraphInductive, PTL

\* Incremental validation adds up: what has been streamed is a valid graph,
\* closed under parents, and a settled boundary can be snapshot.
THEOREM GraphStreamedIsValid == Spec => []StreamedIsValid
<1>1. IInv => StreamedIsValid
  BY DEF IInv
<1> QED BY <1>1, GraphInductive, PTL

------------------------------------------------------------------------------
(* The refinement of the event log.                                        *)

\* The log speaks of the same data as the graph.
LEMMA LogData ==
  /\ Log!NoNode = NoNode /\ Log!NoCycle = NoCycle /\ Log!Node = Node
  /\ \A r, n : Log!ValidNode(r, n) <=> ValidNode(r, n)
  /\ \A e, f : Log!ValidEdge(e, f) <=> ValidEdge(e, f)
<1>1. Log!NoNode = NoNode /\ Log!NoCycle = NoCycle
  BY DEF Log!NoNode, NoNode, Log!NoCycle, NoCycle
<1>2. Log!Node = Node
  BY DEF Log!Node, Node, Log!Words, Words
<1>3. \A n : Log!CompletePayload(n) <=> CompletePayload(n)
  BY Zenon DEF Log!CompletePayload, CompletePayload
<1>4. \A r, n : Log!ValidNode(r, n) <=> ValidNode(r, n)
  BY <1>3 DEF Log!ValidNode, ValidNode
<1>5. \A e, f : Log!ValidEdge(e, f) <=> ValidEdge(e, f)
  BY Zenon DEF Log!ValidEdge, ValidEdge
<1> QED BY <1>1, <1>2, <1>4, <1>5

\* A new collector is an empty log.
LEMMA LogInit == Init => Log!Init
<1> SUFFICES ASSUME Init PROVE Log!Init
  OBVIOUS
<1>1. Streamed = {} /\ StreamedEdges = {}
  BY DEF Init, Streamed, StreamedEdges
<1>2. StreamedNodes = Log!EmptyLog
  BY <1>1, LogData DEF StreamedNodes, Log!EmptyLog
<1> QED BY <1>1, <1>2, LogData DEF Init, Log!Init

\* A step that leaves what is streamed alone leaves the log alone.
LEMMA LogUntouched ==
  ASSUME Streamed' = Streamed, StreamedEdges' = StreamedEdges,
         \A r \in Streamed : nodes'[r] = nodes[r],
         UNCHANGED <<streaming, finishedCycle>>
  PROVE  UNCHANGED Log!logVars
<1>1. StreamedNodes' = StreamedNodes
  BY DEF StreamedNodes
<1> QED BY <1>1 DEF Log!logVars

\* The entries of the log are exactly the streamed occurrences.
LEMMA LoggedIsStreamed ==
  ASSUME IInv
  PROVE  /\ Log!Logged(StreamedNodes) = Streamed
         /\ \A r \in Streamed : StreamedNodes[r] = nodes[r]
         /\ Streamed \subseteq Refs
<1>1. \A r \in Streamed : r \in Refs /\ nodes[r] # NoNode
  BY DEF Streamed, Keys
<1>2. \A r \in Streamed : StreamedNodes[r] = nodes[r]
  BY <1>1 DEF StreamedNodes
<1>3. \A r \in Refs \ Streamed : StreamedNodes[r] = NoNode
  BY DEF StreamedNodes
<1> QED BY <1>1, <1>2, <1>3, LogData DEF Log!Logged

\* Finishing a cycle appends to the log.
LEMMA FinishCycleAppends ==
  ASSUME IInv, TypeOK', NEW c \in Cycles, FinishCycle(c)
  PROVE  Log!Append(c)
<1>1. /\ Keys' = Keys /\ nodes' = nodes /\ streaming /\ streaming' /\ finishedCycle' = c
      /\ Streamed' = Keys /\ StreamedEdges' = edges
      /\ \A r \in Keys : ValidNode(r, nodes[r]) /\ nodes[r].cycle <= c
      /\ \A e \in edges : {e[1], e[2]} \subseteq Keys /\ ValidEdge(e, nodes)
      /\ \A r \in pendingNodes : nodes[r].cycle \in (finishedCycle + 1) .. c
      /\ \A e \in pendingEdges : e[2] \in pendingNodes
  BY FinishCycleStreams
<1>2. IInv'
  BY FinishCycleStep
<1>3. /\ Log!Logged(StreamedNodes) = Streamed
      /\ \A r \in Streamed : StreamedNodes[r] = nodes[r]
      /\ Streamed \subseteq Refs
  BY LoggedIsStreamed
<1>4. \A r \in Keys : r \in Refs /\ nodes[r] # NoNode
  BY DEF Keys
<1>5. \A r \in Refs : StreamedNodes'[r] = IF r \in Keys THEN nodes[r] ELSE NoNode
  BY <1>1 DEF StreamedNodes
<1>6. Log!Logged(StreamedNodes') = Keys
  BY <1>4, <1>5, LogData DEF Log!Logged
<1>7. Streamed \subseteq Keys /\ Keys \ Streamed \subseteq pendingNodes
  BY <1>1 DEF Streamed
<1>8. StreamedNodes' \in [Refs -> Node]
  <2>1. NoNode \in Node /\ nodes \in [Refs -> Node]
    BY DEF NoNode, Node, Words, IInv, TypeOK
  <2> QED BY <1>1, <2>1 DEF StreamedNodes
<1>9. \A r \in Log!Logged(StreamedNodes) : StreamedNodes'[r] = StreamedNodes[r]
  BY <1>3, <1>4, <1>5, <1>7
<1>10. \A r \in Log!Logged(StreamedNodes') \ Log!Logged(StreamedNodes) :
         /\ ValidNode(r, StreamedNodes'[r])
         /\ StreamedNodes'[r].cycle \in (finishedCycle + 1) .. c
  <2> SUFFICES ASSUME NEW r \in Keys \ Streamed
               PROVE  /\ ValidNode(r, StreamedNodes'[r])
                      /\ StreamedNodes'[r].cycle \in (finishedCycle + 1) .. c
    BY <1>3, <1>6
  <2>1. StreamedNodes'[r] = nodes[r] /\ r \in pendingNodes
    BY <1>4, <1>5, <1>7
  <2>2. ValidNode(r, nodes[r]) /\ nodes[r].cycle \in (finishedCycle + 1) .. c
    BY <1>1, <2>1
  <2> QED BY <2>1, <2>2
<1>11. StreamedEdges \subseteq edges /\ edges \ StreamedEdges \subseteq pendingEdges
  BY <1>1 DEF StreamedEdges
<1>12. \A e \in edges \ StreamedEdges :
         /\ e[1] \in Keys /\ e[2] \in Keys \ Streamed
         /\ ValidEdge(e, StreamedNodes')
  <2> SUFFICES ASSUME NEW e \in edges \ StreamedEdges
               PROVE  e[1] \in Keys /\ e[2] \in Keys \ Streamed /\ ValidEdge(e, StreamedNodes')
    OBVIOUS
  <2>1. e \in pendingEdges /\ e[1] \in Keys /\ e[2] \in Keys /\ ValidEdge(e, nodes)
    BY <1>1, <1>11
  <2>2. e[2] \notin Streamed
    BY <1>1, <2>1 DEF Streamed
  <2>3. StreamedNodes'[e[1]] = nodes[e[1]] /\ StreamedNodes'[e[2]] = nodes[e[2]]
    BY <1>4, <1>5, <2>1
  <2>4. ValidEdge(e, StreamedNodes')
    BY <2>1, <2>3 DEF ValidEdge
  <2> QED BY <2>1, <2>2, <2>4
<1>13. c > finishedCycle
  BY DEF FinishCycle
<1> QED
  BY <1>1, <1>3, <1>6, <1>8, <1>9, <1>10, <1>11, <1>12, <1>13, LogData DEF Log!Append

\* Every operation is a step of the log or leaves it alone.
LEMMA LogStep == IInv /\ [Next]_vars => [Log!Next]_(Log!logVars)
<1> SUFFICES ASSUME IInv, [Next]_vars PROVE [Log!Next]_(Log!logVars)
  OBVIOUS
<1>t. TypeOK'
  BY GraphTypeStep DEF IInv
<1>1. ASSUME UNCHANGED <<nodes, edges, streaming, finishedCycle, pendingNodes, pendingEdges>>
      PROVE  UNCHANGED Log!logVars
  <2>1. Keys' = Keys /\ Streamed' = Streamed /\ StreamedEdges' = StreamedEdges
    BY <1>1 DEF Keys, Streamed, StreamedEdges
  <2> QED BY <1>1, <2>1, LogUntouched
<1>2. ASSUME NEW r \in Refs, r \notin Streamed, NEW n, n # NoNode,
             nodes' = [nodes EXCEPT ![r] = n],
             pendingNodes' = IF streaming THEN pendingNodes \cup {r} ELSE pendingNodes,
             UNCHANGED <<edges, streaming, finishedCycle, pendingEdges>>
      PROVE  UNCHANGED Log!logVars
  <2>1. /\ Streamed' = Streamed /\ StreamedEdges' = StreamedEdges
        /\ \A q \in Refs : q # r => nodes'[q] = nodes[q]
    BY <1>2, CallbackFrame
  <2>2. \A q \in Streamed : nodes'[q] = nodes[q]
    BY <1>2, <2>1 DEF Streamed, Keys
  <2> QED BY <1>2, <2>1, <2>2, LogUntouched
<1>3. ASSUME Streamed = {}, StreamedEdges = {}, nodes' = [r \in Refs |-> NoNode], edges' = {},
             UNCHANGED <<streaming, finishedCycle>>
      PROVE  UNCHANGED Log!logVars
  <2>1. Keys' = {} /\ Streamed' = {} /\ StreamedEdges' = {}
    BY <1>3 DEF Keys, Streamed, StreamedEdges
  <2> QED BY <1>3, <2>1, LogUntouched
<1>4. CASE UNCHANGED vars
  BY <1>1, <1>4 DEF vars
<1>5. CASE BindManifest \/ ResetReleased \/ \E epoch \in 0 .. MaxEpoch : BindTiming(epoch)
  BY <1>1, <1>5 DEF BindManifest, ResetReleased, BindTiming, streamVars
<1>6. CASE Clear
  BY <1>3, <1>6 DEF Clear, streamVars, Streamed, StreamedEdges
<1>7. CASE ResetAsserted
  <2>1. streaming => ~ epochActive
    BY <1>7 DEF ResetAsserted
  <2>2. Streamed = {} /\ StreamedEdges = {}
    BY <2>1 DEF IInv, ActivityIsRecorded, Empty, Streamed, StreamedEdges
  <2> QED BY <1>3, <1>7, <2>2 DEF ResetAsserted, streamVars
<1>8. ASSUME NEW r \in Refs, NEW c \in Cycles, NEW width \in Widths, RecordNode(r, c, width)
      PROVE  UNCHANGED Log!logVars
  <2>1. r \notin Streamed
    BY <1>8, StreamedIsSealed DEF RecordNode
  <2>2. Present(nodes[r], c, width) # NoNode
    BY DEF Present, NoNode
  <2> QED BY <1>2, <1>8, <2>1, <2>2 DEF RecordNode
<1>9. ASSUME NEW r \in Refs, NEW index \in WordIndexes, NEW word \in WordValues,
             RecordPayload(r, index, word)
      PROVE  UNCHANGED Log!logVars
  <2>1. r \notin Streamed
    BY <1>9, StreamedIsSealed DEF RecordPayload
  <2>2. WithWord(nodes[r], index, word) # NoNode
    BY DEF WithWord, NoNode
  <2> QED BY <1>2, <1>9, <2>1, <2>2 DEF RecordPayload
<1>10. ASSUME NEW e \in EdgeInputs, RecordEdge(e)
       PROVE  UNCHANGED Log!logVars
  <2>1. e[2] \notin Streamed
    BY <1>10, StreamedIsSealed DEF RecordEdge
  <2>2. e \notin StreamedEdges
    BY <2>1 DEF IInv, StreamedIsValid
  <2>3. Keys' = Keys /\ Streamed' = Streamed
    BY <1>10 DEF RecordEdge, Keys, Streamed
  <2>4. StreamedEdges' = StreamedEdges
    BY <1>10, <2>2 DEF RecordEdge, StreamedEdges
  <2> QED BY <1>10, <2>3, <2>4, LogUntouched DEF RecordEdge
<1>11. CASE BeginStream
  <2>1. Keys = {} /\ edges = {} /\ ~ streaming /\ streaming' /\ nodes' = nodes /\ edges' = edges
        /\ finishedCycle' = NoCycle
    BY <1>11 DEF BeginStream, Empty
  <2>2. finishedCycle = NoCycle
    BY <2>1 DEF IInv, ActivityIsRecorded
  <2>3. Streamed = {} /\ StreamedEdges = {} /\ Streamed' = {} /\ StreamedEdges' = {}
    BY <2>1 DEF Streamed, StreamedEdges, Keys
  <2>4. StreamedNodes' = StreamedNodes
    BY <2>3 DEF StreamedNodes
  <2>5. Log!Open
    BY <2>1, <2>2, <2>3, <2>4 DEF Log!Open
  <2> QED BY <2>5 DEF Log!Next
<1>12. CASE EndStream
  <2>1. streaming /\ streaming' = FALSE /\ finishedCycle' = NoCycle
    BY <1>12 DEF EndStream
  <2>2. Streamed' = {} /\ StreamedEdges' = {}
    BY <2>1 DEF Streamed, StreamedEdges
  <2>3. StreamedNodes' = Log!EmptyLog
    BY <2>2, LogData DEF StreamedNodes, Log!EmptyLog
  <2>4. Log!Close
    BY <2>1, <2>2, <2>3, LogData DEF Log!Close
  <2> QED BY <2>4 DEF Log!Next
<1>13. ASSUME NEW c \in Cycles, FinishCycle(c)
       PROVE  Log!Next
  BY <1>13, <1>t, FinishCycleAppends DEF Log!Next
<1> QED
  BY <1>4, <1>5, <1>6, <1>7, <1>8, <1>9, <1>10, <1>11, <1>12, <1>13 DEF Next, Callback, Query

\* The collector implements the event log: a consumer of finish_cycle gets an
\* append-only, complete and parent-closed account of the run, for any manifest
\* and any order of callbacks.
THEOREM GraphImplementsLog == Spec => LogSpec
<1>1. Spec => []IInv
  BY GraphInductive
<1> QED BY <1>1, LogInit, LogStep, PTL DEF Spec, LogSpec, Log!Spec

------------------------------------------------------------------------------
(* Numbers and loops.                                                      *)

\* A set of numbers has a least one.
LEMMA LeastNumber ==
  ASSUME NEW S, S \subseteq Nat, S # {}
  PROVE  \E x \in S : \A y \in S : x <= y
<1> DEFINE below == {p \in Nat \X Nat : p[1] < p[2]}
<1>1. IsWellFoundedOn(below, Nat)
  BY NatLessThanWellFounded DEF OpToRel
<1>2. PICK x \in S : \A y \in S : <<y, x>> \notin below
  <2> HIDE DEF below
  <2> QED BY <1>1, WFMin
<1>3. \A y \in S : x <= y
  <2> SUFFICES ASSUME NEW y \in S, y < x PROVE FALSE
    OBVIOUS
  <2>1. <<y, x>> \in below
    OBVIOUS
  <2> QED BY <1>2, <2>1
<1> QED BY <1>3

\* Induction up to a bound, for a property given as the set that has it.
LEMMA UpToBound ==
  ASSUME NEW n \in Nat, NEW S, 0 \in S, \A k \in 0 .. n - 1 : k \in S => k + 1 \in S
  PROVE  \A k \in 0 .. n : k \in S
<1> SUFFICES ASSUME NEW k \in 0 .. n, k \notin S PROVE FALSE
  OBVIOUS
<1> DEFINE bad == {i \in 0 .. n : i \notin S}
<1>1. PICK m \in bad : \A y \in bad : m <= y
  <2>1. bad \subseteq Nat /\ bad # {}
    OBVIOUS
  <2> HIDE DEF bad
  <2> QED BY <2>1, LeastNumber
<1>2. m - 1 \in 0 .. n - 1 /\ m - 1 \in S /\ (m - 1) + 1 = m
  BY <1>1
<1> QED BY <1>2

------------------------------------------------------------------------------
(* The order of a batch.                                                   *)

\* The loop of the order, unfolded.
LEMMA PlacedIs ==
  ASSUME NEW b, NEW n \in Nat, n = Cardinality(DOMAIN b.nodes)
  PROVE  \E f : /\ f[0] = <<>> /\ \A i \in 0 .. n - 1 : f[i + 1] = PlaceNext(b, f[i])
                /\ Order(b) = f[n]
<1> DEFINE IsLoop(f, m) == f = [i \in 0 .. m |-> IF i = 0 THEN <<>> ELSE PlaceNext(b, f[i - 1])]
           built == {m \in Nat : \E f : IsLoop(f, m)}
<1>1. 0 \in built
  <2>1. IsLoop([i \in 0 .. 0 |-> <<>>], 0)
    OBVIOUS
  <2> QED BY <2>1
<1>2. ASSUME NEW m \in 0 .. n - 1, m \in built PROVE m + 1 \in built
  <2>1. PICK f : IsLoop(f, m)
    BY <1>2
  <2> DEFINE g == [i \in 0 .. m + 1 |-> IF i <= m THEN f[i] ELSE PlaceNext(b, f[m])]
  <2>2. \A i \in 0 .. m + 1 : g[i] = IF i = 0 THEN <<>> ELSE PlaceNext(b, g[i - 1])
    BY <2>1
  <2>3. IsLoop(g, m + 1)
    BY <2>2
  <2> HIDE DEF IsLoop
  <2> QED BY <2>3
<1>3. PICK f : IsLoop(f, n)
  <2> HIDE DEF built
  <2>1. n \in built
    BY <1>1, <1>2, UpToBound
  <2> QED BY <2>1 DEF built
<1> DEFINE placed == CHOOSE g : IsLoop(g, n)
<1>4. Order(b) = placed[n]
  BY DEF Order
<1>5. IsLoop(placed, n)
  <2> HIDE DEF IsLoop
  <2> QED BY <1>3
<1> HIDE DEF placed
<1>6. placed[0] = <<>> /\ \A i \in 0 .. n - 1 : placed[i + 1] = PlaceNext(b, placed[i])
  BY <1>5
<1> QED BY <1>4, <1>6

------------------------------------------------------------------------------
\* The batches a settled graph hands over.
BatchTyped(b) ==
  /\ IsFiniteSet(DOMAIN b.nodes) /\ IsFiniteSet(b.edges)
  /\ \A r \in DOMAIN b.nodes :
       r \in (DOMAIN PayloadWidth) \X Nat /\ b.nodes[r].cycle \in Nat

\* Among occurrences one is the earliest.
LEMMA EarliestIs ==
  ASSUME NEW b, BatchTyped(b), NEW S, S \subseteq DOMAIN b.nodes, S # {}
  PROVE  /\ Earliest(b, S) \in S
         /\ \A s \in S \ {Earliest(b, S)} : Earlier(b, Earliest(b, S), s)
<1> DEFINE at(r) == b.nodes[r].cycle
<1>0. \A r \in S : r = <<r[1], r[2]>> /\ r[1] \in Nat /\ r[2] \in Nat /\ at(r) \in Nat
  <2> SUFFICES ASSUME NEW r \in S
               PROVE  r = <<r[1], r[2]>> /\ r[1] \in Nat /\ r[2] \in Nat /\ at(r) \in Nat
    OBVIOUS
  <2>1. r \in (DOMAIN PayloadWidth) \X Nat /\ at(r) \in Nat
    BY DEF BatchTyped
  <2>2. DOMAIN PayloadWidth \subseteq Nat
    BY SchemaAssumption
  <2> HIDE DEF at
  <2> QED BY <2>1, <2>2
<1>1. PICK c \in {at(r) : r \in S} : \A d \in {at(r) : r \in S} : c <= d
  <2> HIDE DEF at
  <2> DEFINE C == {at(r) : r \in S}
  <2>1. C \subseteq Nat /\ C # {}
    BY <1>0
  <2> HIDE DEF C
  <2>2. \E c \in C : \A d \in C : c <= d
    BY <2>1, LeastNumber
  <2> QED BY <2>2 DEF C
<1> HIDE DEF at
<1> DEFINE S1 == {r \in S : at(r) = c}
<1>2. PICK x \in {r[1] : r \in S1} : \A y \in {r[1] : r \in S1} : x <= y
  <2> DEFINE C == {r[1] : r \in S1}
  <2>1. C \subseteq Nat /\ C # {}
    BY <1>0, <1>1
  <2> HIDE DEF C
  <2>2. \E c1 \in C : \A d \in C : c1 <= d
    BY <2>1, LeastNumber
  <2> QED BY <2>2 DEF C
<1> DEFINE S2 == {r \in S1 : r[1] = x}
<1>3. PICK n \in {r[2] : r \in S2} : \A y \in {r[2] : r \in S2} : n <= y
  <2> DEFINE C == {r[2] : r \in S2}
  <2>1. C \subseteq Nat /\ C # {}
    BY <1>0, <1>2
  <2> HIDE DEF C
  <2>2. \E c1 \in C : \A d \in C : c1 <= d
    BY <2>1, LeastNumber
  <2> QED BY <2>2 DEF C
<1>4. PICK m \in S2 : m[2] = n
  BY <1>3
<1>5. ASSUME NEW s \in S \ {m} PROVE Earlier(b, m, s)
  <2>1. at(m) <= at(s) /\ at(m) \in Nat /\ at(s) \in Nat
    BY <1>0, <1>1, <1>4
  <2>2. at(s) = at(m) => m[1] <= s[1]
    BY <1>2, <1>4
  <2>3. at(s) = at(m) /\ m[1] = s[1] => m[2] <= s[2]
    BY <1>3, <1>4
  <2>4. m = <<m[1], m[2]>> /\ s = <<s[1], s[2]>> /\ m # s
    BY <1>0
  <2>5. m[1] \in Nat /\ m[2] \in Nat /\ s[1] \in Nat /\ s[2] \in Nat
    BY <1>0
  <2> QED BY <2>1, <2>2, <2>3, <2>4, <2>5 DEF Earlier, Before, at
<1>6. \E r \in S : \A s \in S \ {r} : Earlier(b, r, s)
  BY <1>4, <1>5
<1> QED BY <1>6 DEF Earliest

\* What has been placed: occurrences of the batch, each once and after its
\* parents; and when nothing could be added, why.
Placement(b, s, i) ==
  /\ s \in Seq(DOMAIN b.nodes) /\ Len(s) <= i
  /\ \A j, k \in 1 .. Len(s) : j # k => s[j] # s[k]
  /\ \A k \in 1 .. Len(s) : \A p \in Parents(b, s[k]) \cap DOMAIN b.nodes :
       \E j \in 1 .. k - 1 : s[j] = p
  /\ Len(s) < i =>
       LET left == DOMAIN b.nodes \ ToSet(s) IN \A r \in left : Parents(b, r) \cap left # {}

\* Placing one more occurrence.
LEMMA PlacementStep ==
  ASSUME NEW b, BatchTyped(b), NEW i \in Nat, NEW s, Placement(b, s, i)
  PROVE  Placement(b, PlaceNext(b, s), i + 1)
<1> DEFINE left  == DOMAIN b.nodes \ ToSet(s)
           ready == {r \in left : Parents(b, r) \cap left = {}}
           m     == Earliest(b, ready)
<1>1. CASE ready = {}
  <2>1. PlaceNext(b, s) = s
    BY <1>1 DEF PlaceNext
  <2> QED BY <1>1, <2>1 DEF Placement
<1>2. CASE ready # {}
  <2>1. PlaceNext(b, s) = Append(s, m)
    BY <1>2 DEF PlaceNext
  <2>2. m \in ready
    BY <1>2, EarliestIs
  <2> DEFINE t == Append(s, m)
  <2>3. t \in Seq(DOMAIN b.nodes) /\ Len(t) = Len(s) + 1 /\ t[Len(s) + 1] = m
        /\ \A k \in 1 .. Len(s) : t[k] = s[k]
    BY <2>2 DEF Placement
  <2>4. ToSet(s) = {s[k] : k \in 1 .. Len(s)}
    BY DEF Placement, ToSet
  <2>5. Len(s) = i
    BY <2>2 DEF Placement
  <2> HIDE DEF t, m
  <2>6. \A j, k \in 1 .. Len(t) : j # k => t[j] # t[k]
    BY <2>2, <2>3, <2>4 DEF Placement
  <2>7. ASSUME NEW k \in 1 .. Len(t), NEW p \in Parents(b, t[k]) \cap DOMAIN b.nodes
        PROVE  \E j \in 1 .. k - 1 : t[j] = p
    <3>1. CASE k = Len(s) + 1
      <4>1. p \in ToSet(s)
        BY <2>2, <2>3, <2>7, <3>1
      <4> QED BY <2>3, <2>4, <3>1, <4>1
    <3>2. CASE k \in 1 .. Len(s)
      BY <2>3, <2>7, <3>2 DEF Placement
    <3> QED BY <2>3, <3>1, <3>2
  <2> QED BY <2>1, <2>3, <2>5, <2>6, <2>7 DEF Placement, t
<1> QED BY <1>1, <1>2

\* The loop of the order, with what it has placed in between.
PlacingLoop(f, b, n) ==
  /\ f[0] = <<>> /\ f[n] = Order(b)
  /\ \A i \in 0 .. n : Placement(b, f[i], i)
  /\ \A i \in 0 .. n - 1 : f[i + 1] = PlaceNext(b, f[i])

\* The loop of the order.
LEMMA OrderLoop ==
  ASSUME NEW b, BatchTyped(b), NEW n, n = Cardinality(DOMAIN b.nodes)
  PROVE  n \in Nat /\ \E f : PlacingLoop(f, b, n)
<1>1. n \in Nat
  BY FS_CardinalityType DEF BatchTyped
<1>2. PICK f : /\ f[0] = <<>> /\ \A i \in 0 .. n - 1 : f[i + 1] = PlaceNext(b, f[i])
               /\ Order(b) = f[n]
  BY <1>1, PlacedIs
<1> DEFINE S == {i \in Nat : Placement(b, f[i], i)}
<1>3. 0 \in S
  <2>1. f[0] \in Seq(DOMAIN b.nodes) /\ Len(f[0]) = 0 /\ 1 .. 0 = {}
    BY <1>2
  <2> QED BY <2>1 DEF Placement
<1>4. ASSUME NEW k \in 0 .. n - 1, k \in S PROVE k + 1 \in S
  <2>1. f[k + 1] = PlaceNext(b, f[k])
    BY <1>1, <1>2
  <2> QED BY <1>4, <2>1, PlacementStep
<1>5. \A i \in 0 .. n : i \in S
  <2> HIDE DEF S
  <2> QED BY <1>1, <1>3, <1>4, UpToBound
<1>6. PlacingLoop(f, b, n)
  BY <1>2, <1>5 DEF PlacingLoop
<1> QED BY <1>1, <1>6

\* The order is what the loop has placed in the end.
LEMMA OrderPlaces ==
  ASSUME NEW b, BatchTyped(b)
  PROVE  Placement(b, Order(b), Cardinality(DOMAIN b.nodes))
<1> DEFINE n == Cardinality(DOMAIN b.nodes)
<1> HIDE DEF n
<1>1. n \in Nat /\ \E f : PlacingLoop(f, b, n)
  BY OrderLoop DEF n
<1>2. n \in 0 .. n
  BY <1>1
<1> QED BY <1>1, <1>2 DEF n, PlacingLoop

\* As many occurrences have been placed as the sequence is long.
LEMMA PlacementSize ==
  ASSUME NEW b, NEW s, NEW i, Placement(b, s, i)
  PROVE  /\ ToSet(s) \subseteq DOMAIN b.nodes /\ IsFiniteSet(ToSet(s))
         /\ Cardinality(ToSet(s)) = Len(s) /\ ToSet(s) = {s[k] : k \in 1 .. Len(s)}
<1>2. s \in Seq(DOMAIN b.nodes) /\ Len(s) \in Nat /\ ToSet(s) = {s[k] : k \in 1 .. Len(s)}
  BY DEF Placement, ToSet
<1>3. ToSet(s) \subseteq DOMAIN b.nodes /\ IsFiniteSet(ToSet(s)) /\ Cardinality(ToSet(s)) = Len(s)
  <2>1. s \in [1 .. Len(s) -> ToSet(s)]
    BY <1>2
  <2>2. s \in Injection(1 .. Len(s), ToSet(s)) /\ s \in Surjection(1 .. Len(s), ToSet(s))
    BY <1>2, <2>1 DEF Placement, Injection, Surjection, IsInjective
  <2>3. IsFiniteSet(1 .. Len(s)) /\ Cardinality(1 .. Len(s)) = Len(s)
    <3> DEFINE l == Len(s)
    <3>1. l \in Int /\ l >= 0
      BY <1>2
    <3> HIDE DEF l
    <3>2. IsFiniteSet(1 .. l) /\ Cardinality(1 .. l) = IF 1 > l THEN 0 ELSE l - 1 + 1
      BY <3>1, FS_Interval
    <3>3. Cardinality(1 .. l) = l
      BY <3>1, <3>2
    <3> QED BY <3>2, <3>3 DEF l
  <2>4. ExistsBijection(1 .. Len(s), ToSet(s))
    BY <2>2 DEF ExistsBijection, Bijection
  <2> QED BY <1>2, <2>3, <2>4, FS_Bijection
<1> QED BY <1>2, <1>3

\* The order has all occurrences of a batch exactly when no lineage in it goes
\* round.
LEMMA OrderIsComplete ==
  ASSUME NEW b, BatchTyped(b)
  PROVE  /\ Order(b) \in Seq(DOMAIN b.nodes)
         /\ Len(Order(b)) = Cardinality(DOMAIN b.nodes) <=> ~ Circular(b)
         /\ Len(Order(b)) = Cardinality(DOMAIN b.nodes) => ToSet(Order(b)) = DOMAIN b.nodes
<1> DEFINE s == Order(b)
           D == DOMAIN b.nodes
           n == Cardinality(D)
<1>1. Placement(b, s, n) /\ n \in Nat /\ IsFiniteSet(D)
  BY OrderPlaces, FS_CardinalityType DEF BatchTyped
<1> HIDE DEF s, n
<1>2. s \in Seq(D) /\ Len(s) \in Nat /\ Len(s) <= n /\ ToSet(s) = {s[k] : k \in 1 .. Len(s)}
  BY <1>1 DEF Placement, ToSet
<1>3. ToSet(s) \subseteq D /\ IsFiniteSet(ToSet(s)) /\ Cardinality(ToSet(s)) = Len(s)
  BY <1>1, PlacementSize
<1>4. Len(s) = n => ToSet(s) = D
  BY <1>1, <1>3, FS_Subset DEF n
<1>5. ASSUME Len(s) = n, Circular(b) PROVE FALSE
  <2>1. PICK S \in SUBSET D : S # {} /\ \A r \in S : Parents(b, r) \cap S # {}
    BY <1>5 DEF Circular
  <2> DEFINE K == {k \in 1 .. n : s[k] \in S}
  <2>2. K \subseteq Nat /\ K # {}
    BY <1>2, <1>4, <1>5, <2>1
  <2> HIDE DEF K
  <2>3. PICK k \in K : \A j \in K : k <= j
    BY <2>2, LeastNumber
  <2>4. k \in 1 .. n /\ s[k] \in S
    BY DEF K
  <2>5. PICK p \in Parents(b, s[k]) : p \in S
    BY <2>1, <2>4
  <2>6. PICK j \in 1 .. k - 1 : s[j] = p
    BY <1>1, <1>5, <2>1, <2>4, <2>5 DEF Placement
  <2>7. j \in K
    BY <1>1, <2>4, <2>5, <2>6 DEF K
  <2> QED BY <2>3, <2>4, <2>6, <2>7
<1>6. ASSUME Len(s) # n PROVE Circular(b)
  <2> DEFINE left == D \ ToSet(s)
  <2>1. left # {}
    <3>1. ToSet(s) # D
      BY <1>3, <1>6 DEF n
    <3> QED BY <1>3, <3>1
  <2>2. \A r \in left : Parents(b, r) \cap left # {}
    BY <1>1, <1>2, <1>6 DEF Placement
  <2> QED BY <2>1, <2>2 DEF Circular
<1> QED BY <1>2, <1>4, <1>5, <1>6 DEF s, n

------------------------------------------------------------------------------
(* Sequences.                                                              *)

IsSeq(s) == \E S : s \in Seq(S)

\* The domain of a sequence.
LEMMA SeqFacts ==
  ASSUME NEW s, IsSeq(s)
  PROVE  Len(s) \in Nat /\ DOMAIN s = 1 .. Len(s)
BY LenProperties DEF IsSeq

\* A sequence with one more element.
LEMMA AppendIs ==
  ASSUME NEW s, IsSeq(s), NEW e
  PROVE  /\ IsSeq(Append(s, e)) /\ Len(Append(s, e)) = Len(s) + 1
         /\ \A i \in 1 .. Len(s) : Append(s, e)[i] = s[i]
         /\ Append(s, e)[Len(s) + 1] = e
<1>1. PICK S : s \in Seq(S)
  BY DEF IsSeq
<1>2. s \in Seq(S \cup {e}) /\ e \in S \cup {e}
  BY <1>1, SeqMonotonic
<1> HIDE DEF IsSeq
<1>3. /\ Append(s, e) \in Seq(S \cup {e}) /\ Len(Append(s, e)) = Len(s) + 1
      /\ \A i \in 1 .. Len(s) : Append(s, e)[i] = s[i]
      /\ Append(s, e)[Len(s) + 1] = e
  BY <1>2
<1> QED BY <1>3 DEF IsSeq

\* The empty sequence.
LEMMA EmptyIsSeq == IsSeq(<<>>) /\ Len(<<>>) = 0
<1>1. <<>> \in Seq({})
  OBVIOUS
<1> QED BY <1>1 DEF IsSeq

------------------------------------------------------------------------------
(* Strings.                                                                *)

\* Some definition, or use, of an entry.
DefinesIn(defs, kind, iid) == \E d \in defs : d.kind = kind /\ d.iid = iid

\* What a packet has added to the dictionaries, and what it refers to.
Interning(acc, strings) ==
  /\ DOMAIN acc = {"strings", "uses", "defs"} /\ DOMAIN acc.strings = Kinds
  /\ \A k \in Kinds : IsSeq(acc.strings[k]) /\ Len(strings[k]) <= Len(acc.strings[k])
  /\ \A d \in acc.defs :
       d.kind \in Kinds /\ d.iid \in Len(strings[d.kind]) + 1 .. Len(acc.strings[d.kind])
  /\ \A k \in Kinds : \A n \in Len(strings[k]) + 1 .. Len(acc.strings[k]) :
       DefinesIn(acc.defs, k, n)
  /\ IsSeq(acc.uses)
  /\ \A i \in DOMAIN acc.uses :
       acc.uses[i].kind \in Kinds /\ acc.uses[i].iid \in 0 .. Len(acc.strings[acc.uses[i].kind])

\* A string is referred to: found, entered, or written inline.
LEMMA ReferStep ==
  ASSUME NEW strings, DOMAIN strings = Kinds, \A k \in Kinds : IsSeq(strings[k]),
         NEW acc, Interning(acc, strings), NEW key, key[1] \in Kinds
  PROVE  Interning(Refer(acc, key), strings)
<1> DEFINE dict == acc.strings[key[1]]
           v    == Refer(acc, key)
           use(iid, text) == [kind |-> key[1], iid |-> iid, text |-> text]
<1>1. IsSeq(dict) /\ Len(dict) \in Nat /\ DOMAIN dict = 1 .. Len(dict)
  BY SeqFacts DEF Interning
<1>2. \A k \in Kinds : Len(acc.strings[k]) \in Nat /\ Len(strings[k]) \in Nat
  BY SeqFacts DEF Interning
<1>u. ASSUME NEW iid, NEW text
      PROVE  /\ IsSeq(Append(acc.uses, use(iid, text)))
             /\ \A i \in DOMAIN Append(acc.uses, use(iid, text)) :
                  \/ i \in DOMAIN acc.uses /\ Append(acc.uses, use(iid, text))[i] = acc.uses[i]
                  \/ /\ Append(acc.uses, use(iid, text))[i].kind = key[1]
                     /\ Append(acc.uses, use(iid, text))[i].iid = iid
  <2> DEFINE e == use(iid, text)
             s == Append(acc.uses, e)
  <2>e. e.kind = key[1] /\ e.iid = iid
    OBVIOUS
  <2> HIDE DEF e
  <2>1. IsSeq(acc.uses)
    BY DEF Interning
  <2>2. /\ IsSeq(s) /\ Len(s) = Len(acc.uses) + 1 /\ s[Len(acc.uses) + 1] = e
        /\ \A i \in 1 .. Len(acc.uses) : s[i] = acc.uses[i]
    BY <2>1, AppendIs
  <2>3. Len(acc.uses) \in Nat /\ DOMAIN acc.uses = 1 .. Len(acc.uses) /\ DOMAIN s = 1 .. Len(s)
    BY <2>1, <2>2, SeqFacts
  <2> HIDE DEF s
  <2>4. \A i \in DOMAIN s : (i \in DOMAIN acc.uses /\ s[i] = acc.uses[i]) \/ (s[i].kind = key[1] /\ s[i].iid = iid)
    BY <2>2, <2>3, <2>e
  <2> QED BY <2>2, <2>4 DEF s, e
<1>3. ASSUME NEW iid \in 0 .. Len(dict), NEW text,
             v = [acc EXCEPT !.uses = Append(@, use(iid, text))]
      PROVE  Interning(v, strings)
  <2> DEFINE s == Append(acc.uses, use(iid, text))
  <2>1. /\ v.uses = s /\ v.strings = acc.strings /\ v.defs = acc.defs
        /\ DOMAIN v = {"strings", "uses", "defs"}
    BY <1>3 DEF Interning
  <2>2. IsSeq(s) /\ \A i \in DOMAIN s :
          \/ i \in DOMAIN acc.uses /\ s[i] = acc.uses[i]
          \/ s[i].kind = key[1] /\ s[i].iid = iid
    BY <1>u
  <2> HIDE DEF s, v
  <2>3. \A i \in DOMAIN s : s[i].kind \in Kinds /\ s[i].iid \in 0 .. Len(acc.strings[s[i].kind])
    BY <2>2, <1>3 DEF Interning
  <2> QED BY <2>1, <2>2, <2>3 DEF Interning
<1>4. CASE Contains(dict, key[2])
  <2> DEFINE i == CHOOSE j \in DOMAIN dict : dict[j] = key[2]
  <2>1. i \in DOMAIN dict
    BY <1>1, <1>4 DEF Contains
  <2>2. i \in 0 .. Len(dict)
    BY <1>1, <2>1
  <2>3. v = [acc EXCEPT !.uses = Append(@, use(i, ""))]
    BY <1>4 DEF Refer
  <2> QED BY <1>3, <2>2, <2>3
<1>5. CASE ~ Contains(dict, key[2]) /\ Len(dict) >= MaxStrings
  <2>1. v = [acc EXCEPT !.uses = Append(@, use(0, key[2]))]
    BY <1>5 DEF Refer
  <2>2. 0 \in 0 .. Len(dict)
    BY <1>1
  <2> QED BY <1>3, <2>1, <2>2
<1>6. CASE ~ Contains(dict, key[2]) /\ ~ (Len(dict) >= MaxStrings)
  <2> DEFINE n  == Len(dict) + 1
             s  == Append(acc.uses, use(n, ""))
             df == [kind |-> key[1], iid |-> n, text |-> key[2]]
             d2 == Append(dict, key[2])
  <2>1. /\ v.uses = s /\ v.strings = [acc.strings EXCEPT ![key[1]] = d2]
        /\ v.defs = acc.defs \cup {df}
        /\ DOMAIN v = {"strings", "uses", "defs"}
    BY <1>6 DEF Refer, Interning
  <2>2. IsSeq(s) /\ \A i \in DOMAIN s :
          \/ i \in DOMAIN acc.uses /\ s[i] = acc.uses[i]
          \/ s[i].kind = key[1] /\ s[i].iid = n
    <3> HIDE DEF n, use, d2, df
    <3> QED BY <1>u
  <2>3. IsSeq(d2) /\ Len(d2) = n
    BY <1>1, AppendIs
  <2>4. n \in Nat /\ df.kind = key[1] /\ df.iid = n
    BY <1>1
  <2>4a. \A k \in Kinds : v.strings[k] = IF k = key[1] THEN d2 ELSE acc.strings[k]
    BY <2>1 DEF Interning
  <2>4b. DOMAIN v.strings = Kinds
    BY <2>1 DEF Interning
  <2> HIDE DEF s, v, d2, df, n
  <2>5. \A k \in Kinds : /\ IsSeq(v.strings[k]) /\ Len(v.strings[k]) \in Nat
                         /\ Len(acc.strings[k]) <= Len(v.strings[k])
                         /\ Len(v.strings[k]) = IF k = key[1] THEN n ELSE Len(acc.strings[k])
    BY <1>1, <1>2, <2>3, <2>4, <2>4a DEF Interning, n
  <2>6. \A i \in DOMAIN s : s[i].kind \in Kinds /\ s[i].iid \in 0 .. Len(v.strings[s[i].kind])
    <3> SUFFICES ASSUME NEW i \in DOMAIN s
                 PROVE  s[i].kind \in Kinds /\ s[i].iid \in 0 .. Len(v.strings[s[i].kind])
      OBVIOUS
    <3>1. CASE s[i].kind = key[1] /\ s[i].iid = n
      BY <2>4, <2>5, <3>1
    <3>2. CASE i \in DOMAIN acc.uses /\ s[i] = acc.uses[i]
      <4>1. s[i].kind \in Kinds /\ s[i].iid \in 0 .. Len(acc.strings[s[i].kind])
        BY <3>2 DEF Interning
      <4> QED BY <1>2, <2>5, <4>1
    <3> QED BY <2>2, <3>1, <3>2
  <2>7. \A d \in v.defs : d.kind \in Kinds /\ d.iid \in Len(strings[d.kind]) + 1 .. Len(v.strings[d.kind])
    <3> SUFFICES ASSUME NEW d \in v.defs
                 PROVE  d.kind \in Kinds /\ d.iid \in Len(strings[d.kind]) + 1 .. Len(v.strings[d.kind])
      OBVIOUS
    <3>1. CASE d = df
      <4>1. Len(strings[key[1]]) <= Len(dict)
        BY DEF Interning
      <4>2. d.kind = key[1] /\ d.iid = n
        BY <2>4, <3>1
      <4>3. n \in Len(strings[key[1]]) + 1 .. n
        BY <1>1, <1>2, <2>5, <4>1 DEF n
      <4>4. Len(v.strings[key[1]]) = n
        BY <1>1, <2>5
      <4> QED BY <1>1, <4>2, <4>3, <4>4
    <3>2. CASE d \in acc.defs
      <4>1. d.kind \in Kinds /\ d.iid \in Len(strings[d.kind]) + 1 .. Len(acc.strings[d.kind])
        BY <3>2 DEF Interning
      <4> QED BY <1>2, <2>5, <4>1
    <3> QED BY <2>1, <3>1, <3>2
  <2>8. \A k \in Kinds : \A m \in Len(strings[k]) + 1 .. Len(v.strings[k]) : DefinesIn(v.defs, k, m)
    <3> SUFFICES ASSUME NEW k \in Kinds, NEW m \in Len(strings[k]) + 1 .. Len(v.strings[k])
                 PROVE  DefinesIn(v.defs, k, m)
      OBVIOUS
    <3>1. CASE k = key[1] /\ m = n
      BY <2>1, <2>4, <3>1 DEF DefinesIn
    <3>2. CASE ~ (k = key[1] /\ m = n)
      <4>1. m \in Len(strings[k]) + 1 .. Len(acc.strings[k])
        BY <1>1, <1>2, <2>5, <3>2 DEF n
      <4>2. DefinesIn(acc.defs, k, m)
        BY <4>1 DEF Interning
      <4> QED BY <2>1, <4>2 DEF DefinesIn
    <3> QED BY <3>1, <3>2
  <2>9. \A k \in Kinds : Len(strings[k]) <= Len(v.strings[k])
    BY <1>2, <2>5 DEF Interning
  <2>10. /\ IsSeq(v.uses)
         /\ \A i \in DOMAIN v.uses :
              v.uses[i].kind \in Kinds /\ v.uses[i].iid \in 0 .. Len(v.strings[v.uses[i].kind])
    BY <2>1, <2>2, <2>6
  <2>11. DOMAIN v = {"strings", "uses", "defs"} /\ \A k \in Kinds : IsSeq(v.strings[k])
    BY <2>1, <2>5
  <2> HIDE DEF dict, use
  <2>12. Interning(v, strings)
    BY <2>4b, <2>7, <2>8, <2>9, <2>10, <2>11 DEF Interning
  <2> QED BY <2>12 DEF v
<1> QED BY <1>4, <1>5, <1>6

\* Keys name a dictionary.
IsKeys(keys) == IsSeq(keys) /\ \A i \in 1 .. Len(keys) : keys[i][1] \in Kinds

\* What the strings of one packet do to the dictionaries.
LEMMA InternedIs ==
  ASSUME NEW strings, DOMAIN strings = Kinds, \A k \in Kinds : IsSeq(strings[k]),
         NEW keys, IsKeys(keys)
  PROVE  Interning(Interned(strings, keys), strings)
<1> DEFINE n == Len(keys)
           start == [strings |-> strings, uses |-> <<>>, defs |-> {}]
           IsLoop(f, m) == f = [i \in 0 .. m |-> IF i = 0 THEN start ELSE Refer(f[i - 1], keys[i])]
           built == {m \in Nat : \E f : IsLoop(f, m)}
           acc == CHOOSE f : IsLoop(f, n)
<1>0. n \in Nat
  BY SeqFacts DEF IsKeys
<1>s. Interning(start, strings)
  <2>1. \A k \in Kinds : Len(strings[k]) \in Nat
    BY SeqFacts
  <2>2. DOMAIN <<>> = {}
    OBVIOUS
  <2> QED BY <2>1, <2>2, EmptyIsSeq DEF Interning
<1>i. Interned(strings, keys) = acc[n]
  BY DEF Interned
<1> HIDE DEF n, start
<1>1. 0 \in built
  <2>1. IsLoop([i \in 0 .. 0 |-> start], 0)
    OBVIOUS
  <2> QED BY <2>1
<1>2. ASSUME NEW m \in 0 .. n - 1, m \in built PROVE m + 1 \in built
  <2>1. PICK f : IsLoop(f, m)
    BY <1>2
  <2> DEFINE g == [i \in 0 .. m + 1 |-> IF i <= m THEN f[i] ELSE Refer(f[m], keys[m + 1])]
  <2>2. \A i \in 0 .. m + 1 : g[i] = IF i = 0 THEN start ELSE Refer(g[i - 1], keys[i])
    BY <2>1
  <2>3. IsLoop(g, m + 1)
    BY <2>2
  <2> HIDE DEF IsLoop
  <2> QED BY <2>3
<1>3. PICK f : IsLoop(f, n)
  <2> HIDE DEF built
  <2>1. n \in built
    BY <1>0, <1>1, <1>2, UpToBound
  <2> QED BY <2>1 DEF built
<1>5. IsLoop(acc, n)
  <2> HIDE DEF IsLoop
  <2> QED BY <1>3
<1> HIDE DEF acc
<1>6. acc[0] = start /\ \A i \in 0 .. n - 1 : acc[i + 1] = Refer(acc[i], keys[i + 1])
  BY <1>0, <1>5
<1> DEFINE S == {i \in Nat : Interning(acc[i], strings)}
<1>7. 0 \in S
  BY <1>6, <1>s
<1>8. ASSUME NEW k \in 0 .. n - 1, k \in S PROVE k + 1 \in S
  <2>1. keys[k + 1][1] \in Kinds
    BY <1>0 DEF IsKeys, n
  <2> QED BY <1>6, <1>8, <2>1, ReferStep
<1>9. n \in S
  <2> HIDE DEF S
  <2> QED BY <1>0, <1>7, <1>8, UpToBound
<1> QED BY <1>9, <1>i

\* Every string is defined once, and no later than the first packet that uses it.
Defined(out, n, kind, iid) == \E i \in 1 .. n : DefinesIn(out[i].defs, kind, iid)
DefinedOnce(out) ==
  \A i, j \in DOMAIN out : \A d \in out[i].defs, e \in out[j].defs :
    d.kind = e.kind /\ d.iid = e.iid => i = j
DefinedEarly(out) ==
  \A n \in DOMAIN out : \A u \in DOMAIN out[n].uses :
    out[n].uses[u].iid > 0 => Defined(out, n, out[n].uses[u].kind, out[n].uses[u].iid)

Dictionaries(out, strings) ==
  /\ IsSeq(out) /\ DOMAIN strings = Kinds /\ \A k \in Kinds : IsSeq(strings[k])
  /\ \A i \in DOMAIN out : \A d \in out[i].defs :
       d.kind \in Kinds /\ d.iid \in 1 .. Len(strings[d.kind])
  /\ \A k \in Kinds : \A n \in 1 .. Len(strings[k]) : Defined(out, Len(out), k, n)
  /\ DefinedOnce(out) /\ DefinedEarly(out)

\* A packet with its definitions keeps the dictionaries of the trace.
LEMMA DictionariesStep ==
  ASSUME NEW out, NEW strings, Dictionaries(out, strings),
         NEW acc, Interning(acc, strings), NEW p, p.uses = acc.uses, p.defs = acc.defs
  PROVE  Dictionaries(Append(out, p), acc.strings)
<1> DEFINE o == Append(out, p)
           n == Len(out)
<1>1. /\ IsSeq(out) /\ n \in Nat /\ DOMAIN out = 1 .. n
      /\ IsSeq(o) /\ Len(o) = n + 1 /\ DOMAIN o = 1 .. n + 1
      /\ o[n + 1] = p /\ \A i \in 1 .. n : o[i] = out[i]
  BY SeqFacts, AppendIs DEF Dictionaries
<1>2. \A k \in Kinds : /\ IsSeq(acc.strings[k]) /\ Len(acc.strings[k]) \in Nat
                       /\ Len(strings[k]) \in Nat /\ Len(strings[k]) <= Len(acc.strings[k])
  BY SeqFacts DEF Dictionaries, Interning
<1>3. \A i \in DOMAIN o : i = n + 1 \/ i \in 1 .. n
  BY <1>1
<1> HIDE DEF o, n
<1>4. \A i \in 1 .. n : \A d \in o[i].defs : d.kind \in Kinds /\ d.iid \in 1 .. Len(strings[d.kind])
  BY <1>1 DEF Dictionaries
<1>5. \A d \in p.defs :
        d.kind \in Kinds /\ d.iid \in Len(strings[d.kind]) + 1 .. Len(acc.strings[d.kind])
  BY DEF Interning
<1>6. \A i \in DOMAIN o : \A d \in o[i].defs : d.kind \in Kinds /\ d.iid \in 1 .. Len(acc.strings[d.kind])
  <2> SUFFICES ASSUME NEW i \in DOMAIN o, NEW d \in o[i].defs
               PROVE  d.kind \in Kinds /\ d.iid \in 1 .. Len(acc.strings[d.kind])
    OBVIOUS
  <2>1. CASE i = n + 1
    BY <1>1, <1>2, <1>5, <2>1
  <2>2. CASE i \in 1 .. n
    <3>1. d.kind \in Kinds /\ d.iid \in 1 .. Len(strings[d.kind])
      BY <1>4, <2>2
    <3> QED BY <1>2, <3>1
  <2> QED BY <1>3, <2>1, <2>2
<1>7. ASSUME NEW m \in 1 .. n, NEW k, NEW x, Defined(out, m, k, x) PROVE Defined(o, m, k, x)
  BY <1>1, <1>7 DEF Defined
<1>8. ASSUME NEW k \in Kinds, NEW x \in 1 .. Len(acc.strings[k]) PROVE Defined(o, n + 1, k, x)
  <2>1. CASE x \in 1 .. Len(strings[k])
    <3>1. PICK i \in 1 .. n : DefinesIn(out[i].defs, k, x)
      BY <2>1 DEF Dictionaries, Defined, n
    <3> QED BY <1>1, <3>1 DEF Defined
  <2>2. CASE x \in Len(strings[k]) + 1 .. Len(acc.strings[k])
    <3>1. DefinesIn(p.defs, k, x)
      BY <2>2 DEF Interning
    <3>2. n + 1 \in 1 .. n + 1
      BY <1>1
    <3> QED BY <1>1, <3>1, <3>2 DEF Defined
  <2> QED BY <1>2, <2>1, <2>2
<1>9. DefinedOnce(o)
  <2> SUFFICES ASSUME NEW i \in DOMAIN o, NEW j \in DOMAIN o, NEW d \in o[i].defs, NEW e \in o[j].defs,
                      d.kind = e.kind, d.iid = e.iid
               PROVE  i = j
    BY DEF DefinedOnce
  <2>1. CASE i \in 1 .. n /\ j \in 1 .. n
    BY <1>1, <2>1 DEF Dictionaries, DefinedOnce
  <2>2. ASSUME NEW x, NEW y, x.kind = y.kind, x.iid = y.iid, NEW l \in 1 .. n, x \in p.defs, y \in o[l].defs
        PROVE  FALSE
    <3>1. x.iid \in Len(strings[x.kind]) + 1 .. Len(acc.strings[x.kind])
      BY <1>5, <2>2
    <3>2. y.kind \in Kinds /\ y.iid \in 1 .. Len(strings[y.kind])
      BY <1>4, <2>2
    <3> QED BY <1>2, <2>2, <3>1, <3>2
  <2>3. CASE i = n + 1 /\ j = n + 1
    BY <2>3
  <2>4. CASE i = n + 1 /\ j \in 1 .. n
    BY <1>1, <2>2, <2>4
  <2>5. CASE i \in 1 .. n /\ j = n + 1
    BY <1>1, <2>2, <2>5
  <2> QED BY <1>3, <2>1, <2>3, <2>4, <2>5
<1>10. DefinedEarly(o)
  <2> SUFFICES ASSUME NEW m \in DOMAIN o, NEW u \in DOMAIN o[m].uses, o[m].uses[u].iid > 0
               PROVE  Defined(o, m, o[m].uses[u].kind, o[m].uses[u].iid)
    BY DEF DefinedEarly
  <2>1. CASE m \in 1 .. n
    <3>1. o[m] = out[m] /\ m \in DOMAIN out
      BY <1>1, <2>1
    <3>2. Defined(out, m, o[m].uses[u].kind, o[m].uses[u].iid)
      BY <3>1 DEF Dictionaries, DefinedEarly
    <3> QED BY <1>7, <2>1, <3>2
  <2>2. CASE m = n + 1
    <3>1. o[m].uses = acc.uses
      BY <1>1, <2>2
    <3>2. /\ acc.uses[u].kind \in Kinds
          /\ acc.uses[u].iid \in 0 .. Len(acc.strings[acc.uses[u].kind])
      BY <3>1 DEF Interning
    <3>3. acc.uses[u].iid \in 1 .. Len(acc.strings[acc.uses[u].kind])
      BY <1>2, <3>1, <3>2
    <3> QED BY <1>8, <2>2, <3>1, <3>2, <3>3
  <2> QED BY <1>3, <2>1, <2>2
<1>11. DOMAIN acc.strings = Kinds
  BY DEF Interning
<1>12. Dictionaries(o, acc.strings)
  BY <1>1, <1>2, <1>6, <1>8, <1>9, <1>10, <1>11 DEF Dictionaries
<1> QED BY <1>12 DEF o

------------------------------------------------------------------------------
(* Slices.                                                                 *)

\* Slices begun less slices ended on a track, by the first n packets.
OnTrack(out, n, t, type) == {i \in 1 .. n : out[i].track = t /\ out[i].type = type}
Balance(out, n, t) == Cardinality(OnTrack(out, n, t, "begin")) - Cardinality(OnTrack(out, n, t, "end"))

\* Slices nest at every prefix, and these are the tracks where one is open.
Nested(out) == \A n \in DOMAIN out : Balance(out, n, out[n].track) \in {0, 1}
Open(out, T) == \A t : Balance(out, Len(out), t) = IF t \in T THEN 1 ELSE 0

\* What a packet does to the set of open tracks.
Opens(p, T, U) ==
  \/ p.type = "begin" /\ p.track \notin T /\ U = T \cup {p.track}
  \/ p.type = "end" /\ p.track \in T /\ U = T \ {p.track}
  \/ p.type \notin {"begin", "end"} /\ U = T

\* One more packet, counted on a track.
LEMMA OnTrackStep ==
  ASSUME NEW out, IsSeq(out), NEW p, NEW t, NEW type
  PROVE  /\ \A n \in 1 .. Len(out) : OnTrack(Append(out, p), n, t, type) = OnTrack(out, n, t, type)
         /\ Cardinality(OnTrack(Append(out, p), Len(out) + 1, t, type)) =
              Cardinality(OnTrack(out, Len(out), t, type))
                + (IF p.track = t /\ p.type = type THEN 1 ELSE 0)
         /\ Cardinality(OnTrack(out, Len(out), t, type)) \in Nat
<1> DEFINE o == Append(out, p)
           n == Len(out)
           A == OnTrack(out, n, t, type)
           B == OnTrack(o, n + 1, t, type)
<1>1. /\ n \in Nat /\ o[n + 1] = p /\ \A i \in 1 .. n : o[i] = out[i]
  BY SeqFacts, AppendIs
<1>2. A \subseteq 1 .. n /\ IsFiniteSet(A) /\ n + 1 \notin A
  <2>1. A \subseteq 1 .. n
    BY DEF OnTrack
  <2>2. IsFiniteSet(1 .. n)
    BY <1>1, FS_Interval
  <2> HIDE DEF A
  <2>3. IsFiniteSet(A)
    BY <2>1, <2>2, FS_Subset
  <2> HIDE DEF o
  <2>4. n + 1 \notin A
    BY <1>1, <2>1
  <2> QED BY <2>1, <2>3, <2>4
<1> HIDE DEF o, n
<1>3. \A m \in 1 .. n : OnTrack(o, m, t, type) = OnTrack(out, m, t, type)
  BY <1>1 DEF OnTrack
<1>4. B = IF p.track = t /\ p.type = type THEN A \cup {n + 1} ELSE A
  BY <1>1 DEF OnTrack
<1> HIDE DEF A, B
<1>5. Cardinality(A) \in Nat
  BY <1>2, FS_CardinalityType
<1>6. Cardinality(B) = Cardinality(A) + (IF p.track = t /\ p.type = type THEN 1 ELSE 0)
  <2>1. CASE p.track = t /\ p.type = type
    BY <1>2, <1>4, <1>5, <2>1, FS_AddElement
  <2>2. CASE ~ (p.track = t /\ p.type = type)
    BY <1>4, <1>5, <2>2
  <2> QED BY <2>1, <2>2
<1> QED BY <1>3, <1>5, <1>6 DEF A, B, o, n

\* One more packet, and the slices that are open then.
LEMMA TracksStep ==
  ASSUME NEW out, IsSeq(out), Nested(out), NEW T, Open(out, T), NEW p, NEW U, Opens(p, T, U)
  PROVE  Nested(Append(out, p)) /\ Open(Append(out, p), U)
<1> DEFINE o == Append(out, p)
           n == Len(out)
           plus(t) == IF p.track = t /\ p.type = "begin" THEN 1 ELSE 0
           less(t) == IF p.track = t /\ p.type = "end" THEN 1 ELSE 0
<1>1. /\ n \in Nat /\ DOMAIN out = 1 .. n /\ Len(o) = n + 1 /\ DOMAIN o = 1 .. n + 1
      /\ o[n + 1] = p /\ \A i \in 1 .. n : o[i] = out[i]
  BY SeqFacts, AppendIs
<1>2. ASSUME NEW t PROVE Balance(o, n + 1, t) = Balance(out, n, t) + plus(t) - less(t)
                         /\ Balance(out, n, t) \in Int
  <2>1. /\ Cardinality(OnTrack(o, n + 1, t, "begin")) = Cardinality(OnTrack(out, n, t, "begin")) + plus(t)
        /\ Cardinality(OnTrack(out, n, t, "begin")) \in Nat
    BY OnTrackStep
  <2>2. /\ Cardinality(OnTrack(o, n + 1, t, "end")) = Cardinality(OnTrack(out, n, t, "end")) + less(t)
        /\ Cardinality(OnTrack(out, n, t, "end")) \in Nat
    BY OnTrackStep
  <2> HIDE DEF o, n
  <2>3. plus(t) \in Int /\ less(t) \in Int
    OBVIOUS
  <2> HIDE DEF plus, less
  <2> QED BY <2>1, <2>2, <2>3 DEF Balance
<1>3. ASSUME NEW m \in 1 .. n, NEW t PROVE Balance(o, m, t) = Balance(out, m, t)
  <2>1. \A type : OnTrack(o, m, t, type) = OnTrack(out, m, t, type)
    BY OnTrackStep
  <2> QED BY <2>1 DEF Balance
<1>4. ASSUME NEW t PROVE Balance(o, n + 1, t) = IF t \in U THEN 1 ELSE 0
  <2>1. Balance(out, n, t) = IF t \in T THEN 1 ELSE 0
    BY DEF Open
  <2> HIDE DEF o, n
  <2> QED BY <1>2, <2>1 DEF Opens
<1> HIDE DEF o, n, plus, less
<1>5. ASSUME NEW m \in DOMAIN o PROVE Balance(o, m, o[m].track) \in {0, 1}
  <2>1. CASE m = n + 1
    BY <1>4, <2>1
  <2>2. CASE m \in 1 .. n
    BY <1>1, <1>3, <2>2 DEF Nested
  <2> QED BY <1>1, <2>1, <2>2
<1> QED BY <1>1, <1>4, <1>5 DEF Nested, Open, o

------------------------------------------------------------------------------
(* Writers.                                                                *)

\* The open runs: their tracks are those of the stall sites.
Runs(stalls) ==
  /\ IsFiniteSet(DOMAIN stalls)
  /\ \A t \in DOMAIN stalls :
       /\ t \in Nat /\ SharedTrack(t)
       /\ DOMAIN stalls[t] = {"last", "cycle", "words", "parents"}
       /\ stalls[t].cycle \in Nat
       /\ IsStall(stalls[t].last[1]) /\ TrackOf(stalls[t].last[1]) = t

Fields == {"stalls", "strings", "known", "watermark", "failed", "finished", "out"}

\* A writer whose packets can be imported, with slices open on some tracks.
Wellformed(w, T) ==
  /\ DOMAIN w = Fields
  /\ Dictionaries(w.out, w.strings) /\ Nested(w.out) /\ Open(w.out, T)

\* Encoding is a matter of stalls, strings and packets.
Steady(v, w) == v.watermark = w.watermark /\ v.failed = w.failed /\ v.finished = w.finished

\* Emitting a packet opens or closes its track.
LEMMA EmitIs ==
  ASSUME NEW w, NEW T, Wellformed(w, T), NEW type, NEW r, NEW at, NEW id, NEW keys, IsKeys(keys),
         NEW U, Opens([type |-> type, track |-> TrackOf(r[1])], T, U)
  PROVE  LET v == Emit(w, type, r, at, id, keys)
         IN  Wellformed(v, U) /\ Steady(v, w) /\ v.stalls = w.stalls /\ v.known = w.known
<1> DEFINE acc == Interned(w.strings, keys)
           p == [type |-> type, track |-> TrackOf(r[1]), at |-> at, id |-> id,
                 ref |-> IF type = "begin" THEN r ELSE <<>>, uses |-> acc.uses, defs |-> acc.defs]
           v == Emit(w, type, r, at, id, keys)
<1>1. Interning(acc, w.strings)
  BY InternedIs DEF Wellformed, Dictionaries
<1>2. v = [w EXCEPT !.strings = acc.strings, !.out = Append(w.out, p)]
  BY DEF Emit
<1>3. p.uses = acc.uses /\ p.defs = acc.defs /\ p.type = type /\ p.track = TrackOf(r[1])
  OBVIOUS
<1> HIDE DEF acc, p
<1>4. /\ DOMAIN v = Fields /\ v.strings = acc.strings /\ v.out = Append(w.out, p)
      /\ v.stalls = w.stalls /\ v.known = w.known /\ Steady(v, w)
  BY <1>2 DEF Wellformed, Fields, Steady
<1>5. Dictionaries(v.out, v.strings)
  BY <1>1, <1>3, <1>4, DictionariesStep DEF Wellformed
<1>6. Opens(p, T, U)
  BY <1>3 DEF Opens
<1>7. Nested(v.out) /\ Open(v.out, U)
  BY <1>4, <1>6, TracksStep DEF Wellformed, Dictionaries
<1> QED BY <1>4, <1>5, <1>7 DEF Wellformed

\* The keys of the writer's packets.
LEMMA OneKey ==
  ASSUME NEW k \in Kinds, NEW x
  PROVE  IsKeys(<<<<k, x>>>>)
<1> DEFINE e == <<k, x>>
<1>1. e[1] \in Kinds
  OBVIOUS
<1> HIDE DEF e
<1>2. <<e>> \in Seq({e}) /\ Len(<<e>>) = 1 /\ <<e>>[1] = e
  OBVIOUS
<1>3. IsSeq(<<e>>)
  BY <1>2 DEF IsSeq
<1>4. IsKeys(<<e>>)
  BY <1>1, <1>2, <1>3 DEF IsKeys
<1> QED BY <1>4 DEF e

\* Keys after keys.
LEMMA MoreKeys ==
  ASSUME NEW s, IsKeys(s), NEW t, IsKeys(t)
  PROVE  IsKeys(s \o t)
<1>1. PICK S, T : s \in Seq(S) /\ t \in Seq(T)
  BY DEF IsKeys, IsSeq
<1> DEFINE W == S \cup T
<1>2. s \in Seq(W) /\ t \in Seq(W)
  BY <1>1, SeqMonotonic
<1> HIDE DEF W
<1>3. /\ s \o t \in Seq(W) /\ Len(s \o t) = Len(s) + Len(t)
      /\ Len(s) \in Nat /\ Len(t) \in Nat
      /\ \A i \in 1 .. Len(s) + Len(t) :
           (s \o t)[i] = IF i <= Len(s) THEN s[i] ELSE t[i - Len(s)]
  BY <1>2
<1>4. \A i \in 1 .. Len(s \o t) : (s \o t)[i][1] \in Kinds
  BY <1>3 DEF IsKeys
<1> QED BY <1>3, <1>4 DEF IsKeys, IsSeq

\* The keys of slices and of arrows.
LEMMA PacketKeys ==
  ASSUME NEW r, NEW n
  PROVE  IsKeys(SliceStrings(r, n)) /\ IsKeys(FlowStrings) /\ IsKeys(<<>>)
<1>1. "Category" \in Kinds /\ "Name" \in Kinds /\ "Value" \in Kinds
  BY DEF Kinds
<1>2. IsKeys(<<>>)
  BY EmptyIsSeq DEF IsKeys
<1>3. ASSUME NEW x, NEW y PROVE IsKeys(<<<<"Category", x>>>>) /\ IsKeys(<<<<"Name", y>>>>) /\ IsKeys(<<<<"Value", x>>>>)
  BY <1>1, OneKey
<1>4. IsKeys(SliceStrings(r, n))
  <2> DEFINE value == ToString(n.words)
             name  == IF IsStall(r[1]) THEN "stall" ELSE ToString(r[1])
             first == <<<<"Category", "rhodium.event">>>>
             words == IF n.words = {} THEN <<>> ELSE <<<<"Value", value>>>>
             last  == <<<<"Name", name>>>>
  <2>0. SliceStrings(r, n) = (first \o words) \o last
    BY DEF SliceStrings
  <2> HIDE DEF value, name
  <2>1. IsKeys(first) /\ IsKeys(words) /\ IsKeys(last)
    BY <1>2, <1>3
  <2> HIDE DEF first, words, last
  <2>2. IsKeys(first \o words)
    BY <2>1, MoreKeys
  <2>3. IsKeys((first \o words) \o last)
    BY <2>1, <2>2, MoreKeys
  <2> QED BY <2>0, <2>3
<1>5. IsKeys(FlowStrings)
  <2> DEFINE first == <<<<"Name", "dependency">>>>
             last  == <<<<"Category", "rhodium.flow">>>>
  <2>1. FlowStrings = first \o last
    BY DEF FlowStrings
  <2>2. IsKeys(first) /\ IsKeys(last)
    BY <1>3
  <2> HIDE DEF first, last
  <2> QED BY <2>1, <2>2, MoreKeys
<1> QED BY <1>2, <1>4, <1>5

------------------------------------------------------------------------------
(* Ending runs.                                                            *)

\* A writer whose open slices are its runs.
Sound(w) == Wellformed(w, DOMAIN w.stalls) /\ Runs(w.stalls)

\* Ending one run closes its track.
LEMMA CloseStallIs ==
  ASSUME NEW w, Sound(w), NEW t \in DOMAIN w.stalls
  PROVE  LET v == CloseStall(w, t)
         IN  /\ Sound(v) /\ Steady(v, w) /\ v.known = w.known
             /\ v.stalls = [u \in DOMAIN w.stalls \ {t} |-> w.stalls[u]]
<1> DEFINE T == DOMAIN w.stalls
           last == w.stalls[t].last
           at == w.stalls[t].cycle + 1
           e == EndSlice(w, last, at)
           stalls == [u \in T \ {t} |-> w.stalls[u]]
           v == CloseStall(w, t)
<1>1. TrackOf(last[1]) = t /\ IsKeys(<<>>)
  BY PacketKeys DEF Sound, Runs
<1>2. e = Emit(w, "end", last, at, 0, <<>>)
  BY DEF EndSlice
<1> HIDE DEF last, at
<1>3. Opens([type |-> "end", track |-> TrackOf(last[1])], T, T \ {t})
  BY <1>1 DEF Opens
<1> HIDE DEF e, T
<1>4. Wellformed(e, T \ {t}) /\ Steady(e, w) /\ e.stalls = w.stalls /\ e.known = w.known
  BY <1>1, <1>2, <1>3, EmitIs DEF Sound, T
<1>5. v = [e EXCEPT !.stalls = stalls]
  BY DEF CloseStall, e, last, at, T
<1>6. DOMAIN stalls = T \ {t} /\ \A u \in T \ {t} : stalls[u] = w.stalls[u]
  OBVIOUS
<1> HIDE DEF stalls, v
<1>7. /\ DOMAIN v = Fields /\ v.stalls = stalls /\ v.strings = e.strings /\ v.out = e.out
      /\ v.known = e.known /\ Steady(v, e)
  BY <1>4, <1>5 DEF Wellformed, Fields, Steady
<1>8. Wellformed(v, T \ {t})
  BY <1>4, <1>7 DEF Wellformed
<1>9. Runs(stalls)
  <2>1. IsFiniteSet(T \ {t})
    BY FS_RemoveElement DEF Sound, Runs, T
  <2> QED BY <1>6, <2>1 DEF Sound, Runs, T
<1>10. Sound(v) /\ Steady(v, w) /\ v.known = w.known /\ v.stalls = stalls
  BY <1>4, <1>6, <1>7, <1>8, <1>9 DEF Sound, Steady
<1> QED BY <1>10 DEF v, stalls, T

\* Among open runs one ends first.
EndsBefore(w, t, u) ==
  \/ w.stalls[t].cycle < w.stalls[u].cycle
  \/ w.stalls[t].cycle = w.stalls[u].cycle /\ t < u

\* The run that ends first.
LEMMA FirstEndingIs ==
  ASSUME NEW w, Sound(w), NEW S, S \subseteq DOMAIN w.stalls, S # {}
  PROVE  /\ FirstEnding(w, S) \in S
         /\ \A u \in S \ {FirstEnding(w, S)} : EndsBefore(w, FirstEnding(w, S), u)
<1> DEFINE at(t) == w.stalls[t].cycle
<1>1. \A t \in S : t \in Nat /\ at(t) \in Nat
  BY DEF Sound, Runs
<1>2. PICK c \in {at(t) : t \in S} : \A d \in {at(t) : t \in S} : c <= d
  <2> HIDE DEF at
  <2> DEFINE C == {at(t) : t \in S}
  <2>1. C \subseteq Nat /\ C # {}
    BY <1>1
  <2> HIDE DEF C
  <2>2. \E c \in C : \A d \in C : c <= d
    BY <2>1, LeastNumber
  <2> QED BY <2>2 DEF C
<1> HIDE DEF at
<1> DEFINE S1 == {t \in S : at(t) = c}
<1>3. PICK m \in S1 : \A u \in S1 : m <= u
  <2>1. S1 \subseteq Nat /\ S1 # {}
    BY <1>1, <1>2
  <2> HIDE DEF S1
  <2> QED BY <2>1, LeastNumber
<1>4. ASSUME NEW u \in S \ {m}
      PROVE  at(m) < at(u) \/ (at(m) = at(u) /\ m < u)
  BY <1>1, <1>2, <1>3
<1>5. \E t \in S : \A u \in S \ {t} : EndsBefore(w, t, u)
  BY <1>3, <1>4 DEF at, EndsBefore
<1>6. FirstEnding(w, S) = CHOOSE t \in S : \A u \in S \ {t} : EndsBefore(w, t, u)
  BY DEF FirstEnding, EndsBefore
<1> QED BY <1>5, <1>6

\* Some of the runs have been ended, i of those chosen.
Closing(v, w, tracks, i) ==
  /\ Sound(v) /\ Steady(v, w) /\ v.known = w.known
  /\ DOMAIN v.stalls \subseteq DOMAIN w.stalls /\ DOMAIN w.stalls \ tracks \subseteq DOMAIN v.stalls
  /\ \A t \in DOMAIN v.stalls : v.stalls[t] = w.stalls[t]
  /\ Cardinality(tracks \cap DOMAIN v.stalls) + i = Cardinality(tracks)

\* Ending the next of the chosen runs.
LEMMA ClosingStep ==
  ASSUME NEW w, NEW tracks, tracks \subseteq DOMAIN w.stalls, IsFiniteSet(tracks),
         NEW i \in 0 .. Cardinality(tracks) - 1, NEW v, Closing(v, w, tracks, i)
  PROVE  Closing(CloseStall(v, FirstEnding(v, tracks \cap DOMAIN v.stalls)), w, tracks, i + 1)
<1> DEFINE S == tracks \cap DOMAIN v.stalls
           t == FirstEnding(v, S)
           u == CloseStall(v, t)
<1>1. Cardinality(tracks) \in Nat /\ IsFiniteSet(S) /\ Cardinality(S) \in Nat
  BY FS_CardinalityType, FS_Intersection
<1>2. S # {}
  <2>1. Cardinality(S) # 0
    <3>1. Cardinality(S) + i = Cardinality(tracks)
      BY DEF Closing
    <3> QED BY <1>1, <3>1
  <2> HIDE DEF S
  <2> QED BY <2>1, FS_EmptySet
<1> HIDE DEF S
<1>3. t \in S
  <2>1. S \subseteq DOMAIN v.stalls
    BY DEF S
  <2> QED BY <1>2, <2>1, FirstEndingIs DEF Closing
<1> HIDE DEF t
<1>4. /\ Sound(u) /\ Steady(u, v) /\ u.known = v.known
      /\ u.stalls = [x \in DOMAIN v.stalls \ {t} |-> v.stalls[x]]
  BY <1>3, CloseStallIs DEF Closing, S
<1> HIDE DEF u
<1>5. /\ DOMAIN u.stalls = DOMAIN v.stalls \ {t}
      /\ \A x \in DOMAIN u.stalls : u.stalls[x] = v.stalls[x]
  BY <1>4
<1>6. tracks \cap DOMAIN u.stalls = S \ {t}
  BY <1>5 DEF S
<1>7. Cardinality(S \ {t}) = Cardinality(S) - 1
  BY <1>1, <1>3, FS_RemoveElement
<1>8. Cardinality(tracks \cap DOMAIN u.stalls) + (i + 1) = Cardinality(tracks)
  <2>1. Cardinality(S) + i = Cardinality(tracks)
    BY DEF Closing, S
  <2> DEFINE x == Cardinality(S)
             y == Cardinality(S \ {t})
             z == Cardinality(tracks)
  <2>2. i \in Int /\ x \in Int /\ z \in Int /\ y = x - 1 /\ x + i = z
    BY <1>1, <1>7, <2>1
  <2> HIDE DEF x, y, z
  <2>3. y + (i + 1) = z
    BY <2>2
  <2> QED BY <1>6, <2>3 DEF y, z
<1>9. Closing(u, w, tracks, i + 1)
  BY <1>3, <1>4, <1>5, <1>8 DEF Closing, Steady, S
<1> QED BY <1>9 DEF u, t, S

\* The loop of close_stalls.
ClosingLoop(f, w, tracks, n) ==
  /\ f[0] = w /\ f[n] = CloseStalls(w, tracks)
  /\ \A i \in 0 .. n : Closing(f[i], w, tracks, i)
  /\ \A i \in 0 .. n - 1 :
       f[i + 1] = CloseStall(f[i], FirstEnding(f[i], tracks \cap DOMAIN f[i].stalls))

\* The loop over the runs that end has as many steps as there are runs.
LEMMA CloseStallsLoop ==
  ASSUME NEW w, Sound(w), NEW tracks, tracks \subseteq DOMAIN w.stalls,
         NEW n, n = Cardinality(tracks)
  PROVE  n \in Nat /\ IsFiniteSet(tracks) /\ \E f : ClosingLoop(f, w, tracks, n)
<1> DEFINE step(v) == CloseStall(v, FirstEnding(v, tracks \cap DOMAIN v.stalls))
           IsLoop(f, m) == f = [i \in 0 .. m |-> IF i = 0 THEN w ELSE step(f[i - 1])]
           built == {m \in Nat : \E f : IsLoop(f, m)}
           closed == CHOOSE g : IsLoop(g, n)
<1>0. IsFiniteSet(tracks) /\ n \in Nat
  BY FS_CardinalityType, FS_Subset DEF Sound, Runs
<1>i. CloseStalls(w, tracks) = closed[n]
  BY DEF CloseStalls
<1> HIDE DEF step
<1>1. 0 \in built
  <2>1. IsLoop([i \in 0 .. 0 |-> w], 0)
    OBVIOUS
  <2> QED BY <2>1
<1>2. ASSUME NEW m \in 0 .. n - 1, m \in built PROVE m + 1 \in built
  <2>1. PICK f : IsLoop(f, m)
    BY <1>2
  <2> DEFINE g == [i \in 0 .. m + 1 |-> IF i <= m THEN f[i] ELSE step(f[m])]
  <2>2. \A i \in 0 .. m + 1 : g[i] = IF i = 0 THEN w ELSE step(g[i - 1])
    BY <2>1
  <2>3. IsLoop(g, m + 1)
    BY <2>2
  <2> HIDE DEF IsLoop
  <2> QED BY <2>3
<1>3. \E f : IsLoop(f, n)
  <2> HIDE DEF built
  <2>1. n \in built
    BY <1>0, <1>1, <1>2, UpToBound
  <2> QED BY <2>1 DEF built
<1>5. IsLoop(closed, n)
  <2> HIDE DEF IsLoop
  <2> QED BY <1>3
<1> HIDE DEF closed
<1>6. closed[0] = w /\ \A i \in 0 .. n - 1 : closed[i + 1] = step(closed[i])
  BY <1>0, <1>5
<1> DEFINE S == {i \in Nat : Closing(closed[i], w, tracks, i)}
<1>7. 0 \in S
  <2>1. Closing(w, w, tracks, 0)
    <3>1. tracks \cap DOMAIN w.stalls = tracks
      OBVIOUS
    <3> QED BY <1>0, <3>1 DEF Closing, Steady
  <2> QED BY <1>6, <2>1
<1>8. ASSUME NEW k \in 0 .. n - 1, k \in S PROVE k + 1 \in S
  <2>1. Closing(step(closed[k]), w, tracks, k + 1)
    BY <1>0, <1>8, ClosingStep DEF step
  <2> QED BY <1>6, <2>1
<1>9. \A i \in 0 .. n : i \in S
  <2> HIDE DEF S
  <2> QED BY <1>0, <1>7, <1>8, UpToBound
<1>10. ClosingLoop(closed, w, tracks, n)
  BY <1>i, <1>6, <1>9 DEF step, ClosingLoop
<1> QED BY <1>0, <1>10

\* close_stalls ends the chosen runs and leaves the others open.
LEMMA CloseStallsIs ==
  ASSUME NEW w, Sound(w), NEW tracks, tracks \subseteq DOMAIN w.stalls
  PROVE  LET v == CloseStalls(w, tracks)
         IN  /\ Sound(v) /\ Steady(v, w) /\ v.known = w.known
             /\ DOMAIN v.stalls = DOMAIN w.stalls \ tracks
             /\ \A t \in DOMAIN v.stalls : v.stalls[t] = w.stalls[t]
<1> DEFINE n == Cardinality(tracks)
           v == CloseStalls(w, tracks)
<1>0. n = Cardinality(tracks) /\ v = CloseStalls(w, tracks)
  OBVIOUS
<1> HIDE DEF n, v
<1>1. /\ n \in Nat /\ IsFiniteSet(tracks)
      /\ \E f : ClosingLoop(f, w, tracks, n)
  BY <1>0, CloseStallsLoop
<1>2. n \in 0 .. n
  BY <1>1
<1>3. Closing(v, w, tracks, n)
  BY <1>0, <1>1, <1>2 DEF ClosingLoop
<1>4. tracks \cap DOMAIN v.stalls = {}
  <2> DEFINE R == tracks \cap DOMAIN v.stalls
  <2>1. IsFiniteSet(R) /\ Cardinality(R) \in Nat
    BY <1>1, FS_CardinalityType, FS_Intersection
  <2>2. Cardinality(R) = 0
    BY <1>1, <1>3, <2>1 DEF Closing, n
  <2> HIDE DEF R
  <2>3. R = {}
    BY <2>1, <2>2, FS_EmptySet
  <2> QED BY <2>3 DEF R
<1> QED BY <1>3, <1>4 DEF Closing, v

\* An occurrence of a batch has finitely many parents.
LEMMA ParentsFinite ==
  ASSUME NEW b, BatchTyped(b), NEW r
  PROVE  IsFiniteSet(Parents(b, r)) /\ Cardinality(Parents(b, r)) \in Nat
<1> DEFINE F == {f \in b.edges : f[2] = r}
<1>1. IsFiniteSet(F)
  BY FS_Subset DEF BatchTyped
<1> HIDE DEF F
<1> DEFINE P == {e[1] : e \in F}
<1>2. IsFiniteSet(P)
  <2> DEFINE g == [e \in F |-> e[1]]
  <2>1. g \in Surjection(F, P)
    BY DEF Surjection
  <2> HIDE DEF g, P
  <2> QED BY <1>1, <2>1, FS_Surjection
<1>3. P = Parents(b, r)
  BY DEF Parents, F
<1> HIDE DEF P
<1> QED BY <1>2, <1>3, FS_CardinalityType

\* After the runs that a cycle does not extend have ended, the tracks of those
\* that remain have a stall in that cycle.
Busy(w, b, c) ==
  \A t \in DOMAIN w.stalls : \E q \in DOMAIN b.nodes :
    IsStall(q[1]) /\ TrackOf(q[1]) = t /\ b.nodes[q].cycle = c

\* The first occurrence of a cycle ends the runs that the cycle does not
\* extend.
LEMMA StartCycleIs ==
  ASSUME NEW w, Sound(w), NEW b, NEW c
  PROVE  LET v == StartCycle(w, b, c)
         IN  Sound(v) /\ Steady(v, w) /\ v.known = w.known /\ Busy(v, b, c)
<1> DEFINE tracks == {t \in DOMAIN w.stalls : ~ Continues(b, w.stalls[t], c)}
           v == CloseStalls(w, tracks)
<1>1. StartCycle(w, b, c) = v
  BY DEF StartCycle
<1>2. tracks \subseteq DOMAIN w.stalls
  OBVIOUS
<1> HIDE DEF tracks
<1>3. /\ Sound(v) /\ Steady(v, w) /\ v.known = w.known
      /\ DOMAIN v.stalls = DOMAIN w.stalls \ tracks
      /\ \A t \in DOMAIN v.stalls : v.stalls[t] = w.stalls[t]
  BY <1>2, CloseStallsIs
<1> HIDE DEF v
<1>4. ASSUME NEW t \in DOMAIN v.stalls
      PROVE  \E q \in DOMAIN b.nodes :
               IsStall(q[1]) /\ TrackOf(q[1]) = t /\ b.nodes[q].cycle = c
  <2> DEFINE last == w.stalls[t].last
             q == <<last[1], last[2] + 1>>
  <2>1. Continues(b, w.stalls[t], c)
    BY <1>3 DEF tracks
  <2>2. IsStall(last[1]) /\ TrackOf(last[1]) = t
    BY <1>3 DEF Sound, Runs
  <2>3. q \in DOMAIN b.nodes /\ b.nodes[q].cycle = c /\ q[1] = last[1]
    BY <2>1 DEF Continues
  <2> HIDE DEF q
  <2> QED BY <2>2, <2>3
<1> QED BY <1>1, <1>3, <1>4 DEF Busy

------------------------------------------------------------------------------
(* Encoding an occurrence.                                                 *)

\* An arrow opens and closes nothing.
LEMMA FlowIs ==
  ASSUME NEW w, NEW T, Wellformed(w, T), NEW r, NEW n, NEW id
  PROVE  /\ LET v == FlowEnd(w, r, n, id)
            IN  Wellformed(v, T) /\ Steady(v, w) /\ v.stalls = w.stalls /\ v.known = w.known
         /\ LET v == FlowStart(w, r, n, id)
            IN  Wellformed(v, T) /\ Steady(v, w) /\ v.stalls = w.stalls /\ v.known = w.known
<1>1. IsKeys(FlowStrings)
  BY PacketKeys
<1>2. /\ Opens([type |-> "f", track |-> TrackOf(r[1])], T, T)
      /\ Opens([type |-> "s", track |-> TrackOf(r[1])], T, T)
  BY DEF Opens
<1>3. /\ FlowEnd(w, r, n, id) = Emit(w, "f", r, n.cycle, id, FlowStrings)
      /\ FlowStart(w, r, n, id) = Emit(w, "s", r, n.cycle, id, FlowStrings)
  BY DEF FlowEnd, FlowStart
<1> QED BY <1>1, <1>2, <1>3, EmitIs

\* The loop of the arrows from the parents.
ArrowsLoop(f, w, b, r, n) ==
  /\ f[0] = w /\ f[n] = ParentArrows(w, b, r)
  /\ \A i \in 0 .. n - 1 :
       f[i + 1] = FlowEnd(f[i], r, b.nodes[r], f[i].known[NthParent(b, r, i + 1)].id)

\* The loop over the parents has as many steps as there are parents.
LEMMA ParentArrowsLoop ==
  ASSUME NEW w, NEW b, NEW r, NEW n \in Nat, n = Cardinality(Parents(b, r))
  PROVE  \E f : ArrowsLoop(f, w, b, r, n)
<1> DEFINE step(v, k) == FlowEnd(v, r, b.nodes[r], v.known[NthParent(b, r, k)].id)
           IsLoop(f, m) == f = [i \in 0 .. m |-> IF i = 0 THEN w ELSE step(f[i - 1], i)]
           built == {m \in Nat : \E f : IsLoop(f, m)}
           ends == CHOOSE g : IsLoop(g, n)
<1>i. ParentArrows(w, b, r) = ends[n]
  BY DEF ParentArrows
<1> HIDE DEF step
<1>1. 0 \in built
  <2>1. IsLoop([i \in 0 .. 0 |-> w], 0)
    OBVIOUS
  <2> QED BY <2>1
<1>2. ASSUME NEW m \in 0 .. n - 1, m \in built PROVE m + 1 \in built
  <2>1. PICK f : IsLoop(f, m)
    BY <1>2
  <2> DEFINE g == [i \in 0 .. m + 1 |-> IF i <= m THEN f[i] ELSE step(f[m], m + 1)]
  <2>2. \A i \in 0 .. m + 1 : g[i] = IF i = 0 THEN w ELSE step(g[i - 1], i)
    BY <2>1
  <2>3. IsLoop(g, m + 1)
    BY <2>2
  <2> HIDE DEF IsLoop
  <2> QED BY <2>3
<1>3. \E f : IsLoop(f, n)
  <2> HIDE DEF built
  <2>1. n \in built
    BY <1>1, <1>2, UpToBound
  <2> QED BY <2>1 DEF built
<1>5. IsLoop(ends, n)
  <2> HIDE DEF IsLoop
  <2> QED BY <1>3
<1> HIDE DEF ends
<1>6. ends[0] = w /\ \A i \in 0 .. n - 1 : ends[i + 1] = step(ends[i], i + 1)
  BY <1>5
<1>7. ArrowsLoop(ends, w, b, r, n)
  BY <1>i, <1>6 DEF step, ArrowsLoop
<1> QED BY <1>7

\* The arrows from the parents open and close nothing.
LEMMA ParentArrowsIs ==
  ASSUME NEW w, NEW T, Wellformed(w, T), NEW b, BatchTyped(b), NEW r
  PROVE  LET v == ParentArrows(w, b, r)
         IN  Wellformed(v, T) /\ Steady(v, w) /\ v.stalls = w.stalls /\ v.known = w.known
<1> DEFINE n == Cardinality(Parents(b, r))
           Kept(v) == Wellformed(v, T) /\ Steady(v, w) /\ v.stalls = w.stalls /\ v.known = w.known
<1>1. n \in Nat /\ n = Cardinality(Parents(b, r))
  BY ParentsFinite
<1> HIDE DEF n
<1>2. PICK ends : ArrowsLoop(ends, w, b, r, n)
  BY <1>1, ParentArrowsLoop
<1>3. ASSUME NEW v, NEW id, Kept(v) PROVE Kept(FlowEnd(v, r, b.nodes[r], id))
  BY <1>3, FlowIs DEF Steady
<1>4. Kept(w)
  BY DEF Steady
<1> HIDE DEF Kept
<1> DEFINE S == {i \in Nat : Kept(ends[i])}
<1>5. 0 \in S
  BY <1>2, <1>4 DEF ArrowsLoop
<1>6. ASSUME NEW k \in 0 .. n - 1, k \in S PROVE k + 1 \in S
  BY <1>2, <1>3, <1>6 DEF ArrowsLoop
<1>7. n \in S
  <2> HIDE DEF S
  <2> QED BY <1>1, <1>5, <1>6, UpToBound
<1> QED BY <1>2, <1>7 DEF Kept, ArrowsLoop

\* The track of an occurrence is a site of the manifest, and the track of a
\* stall is shared.
LEMMA TrackIs ==
  ASSUME NEW b, BatchTyped(b), NEW r \in DOMAIN b.nodes
  PROVE  /\ TrackOf(r[1]) \in Nat /\ b.nodes[r].cycle \in Nat
         /\ IsStall(r[1]) => SharedTrack(TrackOf(r[1]))
<1>1. r[1] \in DOMAIN PayloadWidth /\ b.nodes[r].cycle \in Nat
  BY DEF BatchTyped
<1>2. DOMAIN PayloadWidth \subseteq Nat
  BY SchemaAssumption
<1>3. IsStall(r[1]) => ObservationOf[r[1]] \in DOMAIN PayloadWidth
  BY WriterAssumption DEF IsStall
<1> QED BY <1>1, <1>2, <1>3 DEF TrackOf, SharedTrack, IsStall

\* The slice of an occurrence whose track is free: a stall stays open, a
\* transfer ends.
LEMMA EncodeSliceIs ==
  ASSUME NEW w, Sound(w), NEW b, BatchTyped(b), NEW r \in DOMAIN b.nodes,
         TrackOf(r[1]) \notin DOMAIN w.stalls
  PROVE  LET v == EncodeSlice(w, b, r)
         IN  /\ Sound(v) /\ Steady(v, w) /\ v.known = w.known
             /\ DOMAIN v.stalls = IF IsStall(r[1]) THEN DOMAIN w.stalls \cup {TrackOf(r[1])}
                                  ELSE DOMAIN w.stalls
<1> DEFINE n == b.nodes[r]
           t == TrackOf(r[1])
           T == DOMAIN w.stalls
           U == T \cup {t}
           Kept(v) == Wellformed(v, U) /\ Steady(v, w) /\ v.stalls = w.stalls /\ v.known = w.known
           begun  == BeginSlice(w, r, n)
           ends   == ParentArrows(begun, b, r)
           arrows == IF CanParent(r[1]) THEN FlowStart(ends, r, n, w.known[r].id) ELSE ends
           run == [last |-> r, cycle |-> n.cycle, words |-> n.words, parents |-> Parents(b, r)]
           v == EncodeSlice(w, b, r)
<1>1. Kept(begun)
  <2>1. begun = Emit(w, "begin", r, n.cycle, 0, SliceStrings(r, n)) /\ IsKeys(SliceStrings(r, n))
    BY PacketKeys DEF BeginSlice
  <2>2. Opens([type |-> "begin", track |-> TrackOf(r[1])], T, U)
    BY DEF Opens
  <2> HIDE DEF n, begun, U, T
  <2> QED BY <2>1, <2>2, EmitIs DEF Sound, T
<1> HIDE DEF begun
<1>2. Kept(ends)
  BY <1>1, ParentArrowsIs DEF Steady
<1> HIDE DEF ends
<1>3. Kept(arrows)
  BY <1>2, FlowIs DEF Steady
<1>4. v = IF IsStall(r[1]) THEN [arrows EXCEPT !.stalls = With(@, t, run)] ELSE EndSlice(arrows, r, n.cycle + 1)
  BY DEF EncodeSlice, arrows, ends, begun
<1> HIDE DEF arrows, v
<1>5. CASE IsStall(r[1])
  <2> DEFINE stalls == With(w.stalls, t, run)
  <2>1. v = [arrows EXCEPT !.stalls = stalls]
    BY <1>3, <1>4, <1>5
  <2>2. /\ DOMAIN stalls = U /\ stalls[t] = run
        /\ \A u \in T : u # t => stalls[u] = w.stalls[u]
    <3> HIDE DEF run, t, T
    <3>1. stalls = [u \in DOMAIN w.stalls \cup {t} |-> IF u = t THEN run ELSE w.stalls[u]]
      BY DEF With
    <3> HIDE DEF stalls
    <3> QED BY <3>1 DEF T
  <2>3. Runs(stalls)
    <3>1. IsFiniteSet(U)
      BY FS_AddElement DEF Sound, Runs
    <3>2. t \in Nat /\ SharedTrack(t) /\ n.cycle \in Nat
      BY <1>5, TrackIs
    <3>3. \A u \in T : /\ u \in Nat /\ SharedTrack(u)
                       /\ DOMAIN w.stalls[u] = {"last", "cycle", "words", "parents"}
                       /\ w.stalls[u].cycle \in Nat
                       /\ IsStall(w.stalls[u].last[1]) /\ TrackOf(w.stalls[u].last[1]) = u
      BY DEF Sound, Runs
    <3>4. /\ DOMAIN run = {"last", "cycle", "words", "parents"}
          /\ run.cycle = n.cycle /\ run.last = r
      OBVIOUS
    <3> HIDE DEF stalls, run, n
    <3>5. \A u \in U : /\ u \in Nat /\ SharedTrack(u)
                       /\ DOMAIN stalls[u] = {"last", "cycle", "words", "parents"}
                       /\ stalls[u].cycle \in Nat
                       /\ IsStall(stalls[u].last[1]) /\ TrackOf(stalls[u].last[1]) = u
      <4> SUFFICES ASSUME NEW u \in U
                   PROVE  /\ u \in Nat /\ SharedTrack(u)
                          /\ DOMAIN stalls[u] = {"last", "cycle", "words", "parents"}
                          /\ stalls[u].cycle \in Nat
                          /\ IsStall(stalls[u].last[1]) /\ TrackOf(stalls[u].last[1]) = u
        OBVIOUS
      <4>1. CASE u = t
        BY <1>5, <2>2, <3>2, <3>4, <4>1
      <4>2. CASE u # t
        <5>1. u \in T /\ stalls[u] = w.stalls[u]
          BY <2>2, <4>2
        <5> QED BY <3>3, <5>1
      <4> QED BY <4>1, <4>2
    <3> QED BY <2>2, <3>1, <3>5 DEF Runs
  <2> HIDE DEF stalls
  <2>4. /\ DOMAIN v = Fields /\ v.stalls = stalls /\ v.strings = arrows.strings /\ v.out = arrows.out
        /\ v.known = w.known /\ Steady(v, w)
    BY <1>3, <2>1 DEF Wellformed, Fields, Steady
  <2>5. Sound(v)
    BY <1>3, <2>2, <2>3, <2>4 DEF Sound, Wellformed
  <2> QED BY <1>5, <2>2, <2>4, <2>5 DEF v
<1>6. CASE ~ IsStall(r[1])
  <2>1. v = Emit(arrows, "end", r, n.cycle + 1, 0, <<>>) /\ IsKeys(<<>>)
    BY <1>4, <1>6, PacketKeys DEF EndSlice
  <2>2. Opens([type |-> "end", track |-> TrackOf(r[1])], U, T)
    BY DEF Opens
  <2> HIDE DEF n, U
  <2>3. Wellformed(v, T) /\ Steady(v, arrows) /\ v.stalls = arrows.stalls /\ v.known = arrows.known
    BY <1>3, <2>1, <2>2, EmitIs
  <2>4. /\ Sound(v) /\ Steady(v, w) /\ v.known = w.known /\ DOMAIN v.stalls = T
    BY <1>3, <2>3 DEF Sound, Steady
  <2> QED BY <1>6, <2>4 DEF v
<1> QED BY <1>5, <1>6

\* What the writer knows after one more occurrence.
Knows(v, w, b, R) ==
  /\ DOMAIN v.known = DOMAIN w.known \cup R
  /\ \A q \in R : v.known[q].cycle = b.nodes[q].cycle
  /\ \A q \in DOMAIN w.known \ R : v.known[q].cycle = w.known[q].cycle

\* An occurrence is encoded: its track is free, or its run goes on.
LEMMA EncodeNodeIs ==
  ASSUME NEW w, Sound(w), NEW b, BatchTyped(b), ~ Collides(b), NEW r \in DOMAIN b.nodes,
         Busy(w, b, b.nodes[r].cycle)
  PROVE  LET v == EncodeNode(w, b, r)
         IN  Sound(v) /\ Steady(v, w) /\ Knows(v, w, b, {r}) /\ Busy(v, b, b.nodes[r].cycle)
<1> DEFINE n == b.nodes[r]
           t == TrackOf(r[1])
           entry == [id |-> Cardinality(DOMAIN w.known) + 1, cycle |-> n.cycle]
           known == With(w.known, r, entry)
           u == [w EXCEPT !.known = known]
           v == EncodeNode(w, b, r)
<1>1. /\ DOMAIN u = Fields /\ u.stalls = w.stalls /\ u.strings = w.strings /\ u.out = w.out
      /\ u.known = known /\ Steady(u, w)
  <2> HIDE DEF known
  <2> QED BY DEF Sound, Wellformed, Fields, Steady
<1>2. /\ DOMAIN known = DOMAIN w.known \cup {r} /\ known[r] = entry
      /\ \A q \in DOMAIN w.known : q # r => known[q] = w.known[q]
  <2> HIDE DEF entry
  <2>1. known = [y \in DOMAIN w.known \cup {r} |-> IF y = r THEN entry ELSE w.known[y]]
    BY DEF With
  <2> HIDE DEF known
  <2> QED BY <2>1
<1>3. entry.cycle = n.cycle
  OBVIOUS
<1>4. v = IF IsStall(r[1]) /\ t \in DOMAIN u.stalls
          THEN [u EXCEPT !.stalls[t].last = r, !.stalls[t].cycle = n.cycle]
          ELSE EncodeSlice(u, b, r)
  BY DEF EncodeNode
<1> HIDE DEF entry, known, u, v
<1>5. Sound(u)
  BY <1>1 DEF Sound, Wellformed
<1>6. ASSUME v.known = known PROVE Knows(v, w, b, {r})
  BY <1>2, <1>3, <1>6 DEF Knows
<1>7. CASE IsStall(r[1]) /\ t \in DOMAIN u.stalls
  <2> DEFINE run == [w.stalls[t] EXCEPT !.last = r, !.cycle = n.cycle]
             stalls == [w.stalls EXCEPT ![t] = run]
  <2>0. t \in DOMAIN w.stalls
    BY <1>1, <1>7
  <2>1. v = [u EXCEPT !.stalls = stalls]
    BY <1>1, <1>4, <1>7, <2>0 DEF Fields
  <2>2. DOMAIN w.stalls[t] = {"last", "cycle", "words", "parents"}
    BY <2>0 DEF Sound, Runs
  <2>3. DOMAIN run = {"last", "cycle", "words", "parents"} /\ run.last = r /\ run.cycle = n.cycle
    BY <2>2
  <2> HIDE DEF run
  <2>4. /\ DOMAIN stalls = DOMAIN w.stalls /\ stalls[t] = run
        /\ \A x \in DOMAIN w.stalls : x # t => stalls[x] = w.stalls[x]
    BY <2>0
  <2> HIDE DEF stalls
  <2>5. t \in Nat /\ SharedTrack(t) /\ n.cycle \in Nat
    BY <1>7, TrackIs
  <2>6. Runs(stalls)
    BY <1>7, <2>3, <2>4, <2>5 DEF Sound, Runs
  <2>7. /\ DOMAIN v = Fields /\ v.stalls = stalls /\ v.strings = w.strings /\ v.out = w.out
        /\ v.known = known /\ Steady(v, w)
    BY <1>1, <2>1 DEF Fields, Steady
  <2>8. Sound(v)
    BY <2>4, <2>6, <2>7 DEF Sound, Wellformed
  <2>9. Busy(v, b, n.cycle)
    BY <2>4, <2>7 DEF Busy
  <2> QED BY <1>6, <2>7, <2>8, <2>9 DEF v
<1>8. CASE ~ (IsStall(r[1]) /\ t \in DOMAIN u.stalls)
  <2>1. t \notin DOMAIN w.stalls
    <3> SUFFICES ASSUME t \in DOMAIN w.stalls PROVE FALSE
      OBVIOUS
    <3>1. ~ IsStall(r[1]) /\ SharedTrack(t)
      BY <1>1, <1>8 DEF Sound, Runs
    <3>2. PICK q \in DOMAIN b.nodes : IsStall(q[1]) /\ TrackOf(q[1]) = t /\ b.nodes[q].cycle = n.cycle
      BY DEF Busy
    <3> QED BY <3>1, <3>2 DEF Collides
  <2>2. v = EncodeSlice(u, b, r)
    BY <1>4, <1>8
  <2>3. /\ Sound(v) /\ Steady(v, u) /\ v.known = known
        /\ DOMAIN v.stalls = IF IsStall(r[1]) THEN DOMAIN w.stalls \cup {t} ELSE DOMAIN w.stalls
    <3>1. u.stalls = w.stalls /\ u.known = known
      BY <1>1
    <3> HIDE DEF n, t
    <3>2. /\ Sound(v) /\ Steady(v, u) /\ v.known = u.known
          /\ DOMAIN v.stalls = IF IsStall(r[1]) THEN DOMAIN u.stalls \cup {TrackOf(r[1])} ELSE DOMAIN u.stalls
      BY <1>5, <2>1, <2>2, <3>1, EncodeSliceIs DEF t
    <3> QED BY <3>1, <3>2 DEF t
  <2>4. Busy(v, b, n.cycle)
    BY <2>3 DEF Busy
  <2>5. Steady(v, w)
    BY <1>1, <2>3 DEF Steady
  <2> QED BY <1>6, <2>3, <2>4, <2>5 DEF v
<1> QED BY <1>7, <1>8

------------------------------------------------------------------------------
(* Encoding a batch.                                                       *)

\* What is encoded of a batch after i occurrences.
Encoding(v, w, b, order, i) ==
  /\ Sound(v) /\ Steady(v, w)
  /\ Knows(v, w, b, {order[j] : j \in 1 .. i})
  /\ i > 0 => Busy(v, b, b.nodes[order[i]].cycle)

\* Encoding the next occurrence of the order.
LEMMA EncodingStep ==
  ASSUME NEW w, NEW b, BatchTyped(b), ~ Collides(b),
         NEW order, order \in Seq(DOMAIN b.nodes), NEW i \in 0 .. Len(order) - 1,
         NEW v, Encoding(v, w, b, order, i)
  PROVE  Encoding(EncodeNext(v, b, order, i + 1), w, b, order, i + 1)
<1> DEFINE r == order[i + 1]
           c == b.nodes[r].cycle
           first == i + 1 = 1 \/ b.nodes[order[i]].cycle # c
           u == IF first THEN StartCycle(v, b, c) ELSE v
           x == EncodeNext(v, b, order, i + 1)
           R == {order[j] : j \in 1 .. i}
<1>0. i \in Nat /\ (i + 1) - 1 = i /\ i + 1 \in 1 .. Len(order)
  OBVIOUS
<1>1. r \in DOMAIN b.nodes
  BY <1>0
<1>2. x = EncodeNode(u, b, r)
  BY <1>0 DEF EncodeNext
<1>3. {order[j] : j \in 1 .. i + 1} = R \cup {r}
  BY <1>0
<1>4. /\ Sound(v) /\ Steady(v, w) /\ Knows(v, w, b, R)
      /\ i > 0 => Busy(v, b, b.nodes[order[i]].cycle)
  BY DEF Encoding
<1> HIDE DEF x, R, r
<1>5. Sound(u) /\ Steady(u, v) /\ u.known = v.known /\ Busy(u, b, c)
  <2>1. CASE first
    BY <1>4, <2>1, StartCycleIs
  <2>2. CASE ~ first
    <3>1. i > 0 /\ b.nodes[order[i]].cycle = c
      BY <1>0, <2>2
    <3> QED BY <1>4, <2>2, <3>1 DEF Steady
  <2> QED BY <2>1, <2>2
<1> HIDE DEF u
<1>6. Sound(x) /\ Steady(x, u) /\ Knows(x, u, b, {r}) /\ Busy(x, b, c)
  BY <1>1, <1>2, <1>5, EncodeNodeIs
<1>7. Steady(x, w)
  BY <1>4, <1>5, <1>6 DEF Steady
<1>8. Knows(x, w, b, R \cup {r})
  BY <1>4, <1>5, <1>6 DEF Knows
<1>9. Encoding(x, w, b, order, i + 1)
  BY <1>3, <1>6, <1>7, <1>8 DEF Encoding, r
<1> QED BY <1>9 DEF x

\* The loop over a batch.
EncodingLoop(f, w, b, n) ==
  /\ f[0] = w /\ f[n] = EncodeAll(w, b)
  /\ \A i \in 0 .. n : Encoding(f[i], w, b, Order(b), i)
  /\ \A i \in 0 .. n - 1 : f[i + 1] = EncodeNext(f[i], b, Order(b), i + 1)

\* The loop over a batch has as many steps as its order is long.
LEMMA EncodeAllLoop ==
  ASSUME NEW w, Sound(w), NEW b, BatchTyped(b), ~ Circular(b), ~ Collides(b), NEW n, n = Len(Order(b))
  PROVE  n \in Nat /\ \E f : EncodingLoop(f, w, b, n)
<1> DEFINE order == Order(b)
           IsLoop(f, m) == f = [i \in 0 .. m |-> IF i = 0 THEN w ELSE EncodeNext(f[i - 1], b, order, i)]
           built == {m \in Nat : \E f : IsLoop(f, m)}
           encoded == CHOOSE g : IsLoop(g, n)
<1>0. order \in Seq(DOMAIN b.nodes)
  BY OrderIsComplete
<1>i. EncodeAll(w, b) = encoded[n]
  BY DEF EncodeAll
<1>o. n = Len(order) /\ order = Order(b)
  OBVIOUS
<1> HIDE DEF order
<1>n. n \in Nat
  BY <1>0, <1>o
<1>1. 0 \in built
  <2>1. IsLoop([i \in 0 .. 0 |-> w], 0)
    OBVIOUS
  <2> QED BY <2>1
<1>2. ASSUME NEW m \in 0 .. n - 1, m \in built PROVE m + 1 \in built
  <2>1. PICK f : IsLoop(f, m)
    BY <1>2
  <2> DEFINE g == [i \in 0 .. m + 1 |-> IF i <= m THEN f[i] ELSE EncodeNext(f[m], b, order, m + 1)]
  <2>2. \A i \in 0 .. m + 1 : g[i] = IF i = 0 THEN w ELSE EncodeNext(g[i - 1], b, order, i)
    BY <2>1
  <2>3. IsLoop(g, m + 1)
    BY <2>2
  <2> HIDE DEF IsLoop
  <2> QED BY <2>3
<1>3. \E f : IsLoop(f, n)
  <2> HIDE DEF built
  <2>1. n \in built
    BY <1>n, <1>1, <1>2, UpToBound
  <2> QED BY <2>1 DEF built
<1>5. IsLoop(encoded, n)
  <2> HIDE DEF IsLoop
  <2> QED BY <1>3
<1> HIDE DEF encoded
<1>6. encoded[0] = w /\ \A i \in 0 .. n - 1 : encoded[i + 1] = EncodeNext(encoded[i], b, order, i + 1)
  BY <1>n, <1>5
<1> DEFINE S == {i \in Nat : Encoding(encoded[i], w, b, order, i)}
<1>7. 0 \in S
  <2>1. {order[j] : j \in 1 .. 0} = {}
    OBVIOUS
  <2>2. Knows(w, w, b, {order[j] : j \in 1 .. 0})
    BY <2>1 DEF Knows
  <2>3. Encoding(w, w, b, order, 0)
    BY <2>2 DEF Encoding, Steady
  <2> QED BY <1>6, <2>3
<1>8. ASSUME NEW k \in 0 .. n - 1, k \in S PROVE k + 1 \in S
  <2>1. Encoding(EncodeNext(encoded[k], b, order, k + 1), w, b, order, k + 1)
    BY <1>0, <1>o, <1>8, EncodingStep
  <2> QED BY <1>6, <2>1
<1>9. \A i \in 0 .. n : i \in S
  <2> HIDE DEF S
  <2> QED BY <1>n, <1>7, <1>8, UpToBound
<1>10. EncodingLoop(encoded, w, b, n)
  BY <1>i, <1>o, <1>6, <1>9 DEF EncodingLoop
<1> QED BY <1>n, <1>10

\* All occurrences of a batch have been encoded.
LEMMA EncodeAllIs ==
  ASSUME NEW w, Sound(w), NEW b, BatchTyped(b), ~ Circular(b), ~ Collides(b)
  PROVE  LET v == EncodeAll(w, b)
         IN  Sound(v) /\ Steady(v, w) /\ Knows(v, w, b, DOMAIN b.nodes)
<1> DEFINE order == Order(b)
           n == Len(order)
<1>1. order \in Seq(DOMAIN b.nodes) /\ {order[j] : j \in 1 .. n} = DOMAIN b.nodes
  <2>1. order \in Seq(DOMAIN b.nodes) /\ ToSet(order) = DOMAIN b.nodes
    BY OrderIsComplete
  <2> HIDE DEF order
  <2> QED BY <2>1 DEF ToSet
<1>2. n \in Nat /\ \E f : EncodingLoop(f, w, b, n)
  BY EncodeAllLoop
<1> HIDE DEF n
<1>3. n \in 0 .. n
  BY <1>2
<1>4. Encoding(EncodeAll(w, b), w, b, order, n)
  BY <1>2, <1>3 DEF EncodingLoop
<1> HIDE DEF order
<1> QED BY <1>1, <1>4 DEF Encoding

\* The writer after a batch it accepts.
LEMMA EncodeIs ==
  ASSUME NEW w, Sound(w), NEW b, BatchTyped(b), ~ Circular(b), ~ Collides(b)
  PROVE  LET v == Encode(w, b)
         IN  /\ Sound(v) /\ v.watermark = b.cycle /\ v.failed = w.failed /\ v.finished = w.finished
             /\ Knows(v, w, b, DOMAIN b.nodes)
<1> DEFINE all == EncodeAll(w, b)
           closed == CloseStalls(all, EndedBy(all, b))
           v == Encode(w, b)
<1>10. v = [closed EXCEPT !.watermark = b.cycle]
  BY DEF Encode
<1>11. Sound(all) /\ Steady(all, w) /\ Knows(all, w, b, DOMAIN b.nodes)
  BY EncodeAllIs
<1> HIDE DEF all
<1>12. EndedBy(all, b) \subseteq DOMAIN all.stalls
  BY DEF EndedBy
<1>13. Sound(closed) /\ Steady(closed, all) /\ closed.known = all.known
  BY <1>11, <1>12, CloseStallsIs
<1> HIDE DEF closed
<1>14. /\ DOMAIN v = Fields /\ v.stalls = closed.stalls /\ v.strings = closed.strings
       /\ v.out = closed.out /\ v.known = closed.known /\ v.watermark = b.cycle
       /\ v.failed = closed.failed /\ v.finished = closed.finished
  BY <1>10, <1>13 DEF Sound, Wellformed, Fields
<1> HIDE DEF v
<1>15. Sound(v)
  BY <1>13, <1>14 DEF Sound, Wellformed
<1>16. Knows(v, w, b, DOMAIN b.nodes)
  BY <1>11, <1>13, <1>14 DEF Knows
<1>17. v.failed = w.failed /\ v.finished = w.finished
  BY <1>11, <1>13, <1>14 DEF Steady
<1> QED BY <1>14, <1>15, <1>16, <1>17 DEF v

\* finish() ends what is open.
LEMMA FinishIs ==
  ASSUME NEW w, Sound(w)
  PROVE  Sound(Finish(w))
<1> DEFINE v == CloseStalls(w, DOMAIN w.stalls)
           x == [v EXCEPT !.finished = TRUE]
<1>1. Sound(v)
  BY CloseStallsIs
<1> HIDE DEF v
<1>2. DOMAIN x = Fields /\ x.stalls = v.stalls /\ x.strings = v.strings /\ x.out = v.out
  BY <1>1 DEF Sound, Wellformed, Fields
<1> HIDE DEF x
<1>3. Sound(x)
  BY <1>1, <1>2 DEF Sound, Wellformed
<1> QED BY <1>3 DEF Finish, x, v

------------------------------------------------------------------------------
(* Prefixes of a trace.                                                    *)

Importable(out) == IsSeq(out) /\ DefinedOnce(out) /\ DefinedEarly(out) /\ Nested(out)

\* What a sound writer has written can be imported.
LEMMA SoundIsImportable ==
  ASSUME NEW w, Sound(w)
  PROVE  Importable(w.out)
BY DEF Sound, Wellformed, Dictionaries, Importable

\* A prefix of a trace can be imported if the trace can be.
LEMMA PrefixOf ==
  ASSUME NEW out, Importable(out), NEW n \in 0 .. Len(out)
  PROVE  Importable(SubSeq(out, 1, n))
<1> DEFINE o == SubSeq(out, 1, n)
<1>1. Len(out) \in Nat /\ DOMAIN out = 1 .. Len(out) /\ n \in Nat /\ n <= Len(out)
  BY SeqFacts DEF Importable
<1>2. IsSeq(o) /\ DOMAIN o = 1 .. n /\ \A i \in 1 .. n : o[i] = out[i] /\ i \in DOMAIN out
  <2>1. PICK S : out \in Seq(S)
    BY DEF Importable, IsSeq
  <2>2. /\ o \in Seq(S) /\ Len(o) = n - 1 + 1
        /\ \A i \in 1 .. n - 1 + 1 : o[i] = out[1 + i - 1]
    BY <1>1, <2>1, SubSeqProperties
  <2> HIDE DEF o
  <2>3. Len(o) = n /\ \A i \in 1 .. n : o[i] = out[i]
    BY <1>1, <2>2
  <2> QED BY <1>1, <2>2, <2>3 DEF IsSeq
<1> HIDE DEF o
<1>3. DefinedOnce(o)
  BY <1>2 DEF Importable, DefinedOnce
<1>4. DefinedEarly(o)
  <2> SUFFICES ASSUME NEW m \in DOMAIN o, NEW u \in DOMAIN o[m].uses, o[m].uses[u].iid > 0
               PROVE  Defined(o, m, o[m].uses[u].kind, o[m].uses[u].iid)
    BY DEF DefinedEarly
  <2>1. o[m] = out[m] /\ m \in DOMAIN out /\ m \in 1 .. n
    BY <1>2
  <2>2. Defined(out, m, o[m].uses[u].kind, o[m].uses[u].iid)
    BY <2>1 DEF Importable, DefinedEarly
  <2>3. \A i \in 1 .. m : o[i] = out[i]
    BY <1>1, <1>2, <2>1
  <2> QED BY <2>2, <2>3 DEF Defined
<1>5. Nested(o)
  <2> SUFFICES ASSUME NEW m \in DOMAIN o PROVE Balance(o, m, o[m].track) \in {0, 1}
    BY DEF Nested
  <2>1. o[m] = out[m] /\ m \in DOMAIN out /\ m \in 1 .. n
    BY <1>2
  <2>2. \A i \in 1 .. m : o[i] = out[i]
    BY <1>1, <1>2, <2>1
  <2>3. \A t, type : OnTrack(o, m, t, type) = OnTrack(out, m, t, type)
    BY <2>2 DEF OnTrack
  <2>4. Balance(o, m, o[m].track) = Balance(out, m, out[m].track)
    BY <2>1, <2>3 DEF Balance
  <2> QED BY <2>1, <2>4 DEF Importable, Nested
<1>6. Importable(o)
  BY <1>2, <1>3, <1>4, <1>5 DEF Importable
<1> QED BY <1>6 DEF o

\* An output error leaves a prefix of what was attempted.
LEMMA PoisonedIsImportable ==
  ASSUME NEW w, DOMAIN w = Fields, IsSeq(w.out), NEW v, Importable(v.out), NEW x \in Poisoned(w, v)
  PROVE  Importable(x.out)
<1>1. Len(w.out) \in Nat /\ Len(v.out) \in Nat
  BY SeqFacts DEF Importable
<1>2. PICK n \in Len(w.out) .. Len(v.out) :
        x = [w EXCEPT !.failed = TRUE, !.out = SubSeq(v.out, 1, n)]
  BY DEF Poisoned
<1>3. n \in 0 .. Len(v.out)
  BY <1>1
<1>4. x.out = SubSeq(v.out, 1, n)
  BY <1>2 DEF Fields
<1> QED BY <1>3, <1>4, PrefixOf

\* The property of the runs, in the terms of the proof.
LEMMA ImportableSuffices == Importable(writer.out) => PrefixImportable
<1> SUFFICES ASSUME Importable(writer.out), NEW n \in DOMAIN writer.out
             PROVE  LET p == writer.out[n]
                        open == Cardinality(UpTo(n, p.track) \cap Packets("begin"))
                                  - Cardinality(UpTo(n, p.track) \cap Packets("end"))
                    IN  /\ \A u \in DOMAIN p.uses :
                             p.uses[u].iid > 0 => \E i \in 1 .. n : \A j \in DOMAIN writer.out :
                                                     Defines(j, p.uses[u]) <=> i = j
                        /\ open \in {0, 1}
  BY DEF PrefixImportable
<1> DEFINE out == writer.out
           p == out[n]
<1>1. Len(out) \in Nat /\ DOMAIN out = 1 .. Len(out) /\ n \in 1 .. Len(out)
  BY SeqFacts DEF Importable
<1>2. ASSUME NEW u \in DOMAIN p.uses, p.uses[u].iid > 0
      PROVE  \E i \in 1 .. n : \A j \in DOMAIN out : Defines(j, p.uses[u]) <=> i = j
  <2> DEFINE use == p.uses[u]
  <2>1. Defined(out, n, use.kind, use.iid)
    BY <1>2 DEF Importable, DefinedEarly
  <2> HIDE DEF use
  <2>2. PICK i \in 1 .. n : DefinesIn(out[i].defs, use.kind, use.iid)
    BY <2>1 DEF Defined
  <2>3. i \in DOMAIN out
    BY <1>1
  <2>4. \A j \in DOMAIN out : Defines(j, use) <=> DefinesIn(out[j].defs, use.kind, use.iid)
    BY DEF Defines, DefinesIn
  <2>5. ASSUME NEW j \in DOMAIN out, DefinesIn(out[j].defs, use.kind, use.iid) PROVE i = j
    BY <2>2, <2>3, <2>5 DEF DefinesIn, Importable, DefinedOnce
  <2>6. \A j \in DOMAIN out : Defines(j, use) <=> i = j
    BY <2>2, <2>4, <2>5
  <2> QED BY <2>6 DEF use
<1>3. ASSUME NEW type PROVE UpTo(n, p.track) \cap Packets(type) = OnTrack(out, n, p.track, type)
  BY <1>1 DEF UpTo, Packets, OnTrack
<1>4. Balance(out, n, p.track) \in {0, 1}
  BY DEF Importable, Nested
<1>5. Cardinality(UpTo(n, p.track) \cap Packets("begin"))
        - Cardinality(UpTo(n, p.track) \cap Packets("end")) \in {0, 1}
  BY <1>3, <1>4 DEF Balance
<1> QED BY <1>2, <1>5

\* The writer before the first batch.
LEMMA NewWriterIs ==
  /\ Sound(NewWriter) /\ ~ NewWriter.failed /\ ~ NewWriter.finished
  /\ NewWriter.watermark = NoCycle /\ DOMAIN NewWriter.known = {}
<1> DEFINE w == NewWriter
<1>1. /\ DOMAIN w = Fields /\ w.stalls = <<>> /\ w.strings = [k \in Kinds |-> <<>>]
      /\ w.known = <<>> /\ w.watermark = NoCycle /\ w.failed = FALSE /\ w.finished = FALSE
      /\ w.out = <<>>
  BY DEF NewWriter, Fields
<1> HIDE DEF w
<1>2. IsSeq(w.out) /\ Len(w.out) = 0 /\ DOMAIN w.out = {} /\ DOMAIN w.stalls = {} /\ DOMAIN w.known = {}
  BY <1>1, EmptyIsSeq
<1>3. Dictionaries(w.out, w.strings)
  <2>1. \A k \in Kinds : IsSeq(w.strings[k]) /\ 1 .. Len(w.strings[k]) = {}
    BY <1>1, EmptyIsSeq
  <2> QED BY <1>1, <1>2, <2>1 DEF Dictionaries, DefinedOnce, DefinedEarly
<1>4. Open(w.out, {})
  <2>1. \A t, type : OnTrack(w.out, Len(w.out), t, type) = {}
    BY <1>2 DEF OnTrack
  <2>2. Cardinality({}) = 0
    BY FS_EmptySet
  <2>3. ASSUME NEW t PROVE Balance(w.out, Len(w.out), t) = 0
    <3>1. OnTrack(w.out, Len(w.out), t, "begin") = {} /\ OnTrack(w.out, Len(w.out), t, "end") = {}
      BY <2>1
    <3>2. Balance(w.out, Len(w.out), t) = Cardinality({}) - Cardinality({})
      BY <3>1 DEF Balance
    <3> QED BY <2>2, <3>2
  <2> QED BY <2>3 DEF Open
<1>5. Runs(w.stalls)
  BY <1>2, FS_EmptySet DEF Runs
<1>6. Sound(w)
  BY <1>1, <1>2, <1>3, <1>4, <1>5 DEF Sound, Wellformed, Nested
<1> QED BY <1>1, <1>2, <1>6 DEF w

------------------------------------------------------------------------------
(* Writers that differ in their watermark only.                            *)

Same(v, w) ==
  /\ DOMAIN v = Fields /\ DOMAIN w = Fields
  /\ v.stalls = w.stalls /\ v.strings = w.strings /\ v.known = w.known /\ v.out = w.out

\* Sameness is an equivalence, and a writer that is the same is as sound.
LEMMA SameIs ==
  /\ \A w : Sound(w) => Same(w, w)
  /\ \A v, w : Same(v, w) => Same(w, v) /\ (Sound(w) => Sound(v))
  /\ \A u, v, w : Same(u, v) /\ Same(v, w) => Same(u, w)
<1>1. ASSUME NEW w, Sound(w) PROVE Same(w, w)
  BY <1>1 DEF Same, Sound, Wellformed
<1>2. ASSUME NEW v, NEW w, Same(v, w) PROVE Same(w, v) /\ (Sound(w) => Sound(v))
  BY <1>2 DEF Same, Sound, Wellformed
<1>3. ASSUME NEW u, NEW v, NEW w, Same(u, v), Same(v, w) PROVE Same(u, w)
  BY <1>3 DEF Same
<1> QED BY <1>1, <1>2, <1>3

\* They emit the same packets.
LEMMA SameEmit ==
  ASSUME NEW v, NEW w, Same(v, w), NEW type, NEW r, NEW at, NEW id, NEW keys
  PROVE  Same(Emit(v, type, r, at, id, keys), Emit(w, type, r, at, id, keys))
<1> DEFINE acc == Interned(w.strings, keys)
           p == [type |-> type, track |-> TrackOf(r[1]), at |-> at, id |-> id,
                 ref |-> IF type = "begin" THEN r ELSE <<>>, uses |-> acc.uses, defs |-> acc.defs]
           x == Emit(v, type, r, at, id, keys)
           y == Emit(w, type, r, at, id, keys)
<1>1. v.strings = w.strings /\ v.out = w.out
  BY DEF Same
<1>2. /\ x = [v EXCEPT !.strings = acc.strings, !.out = Append(w.out, p)]
      /\ y = [w EXCEPT !.strings = acc.strings, !.out = Append(w.out, p)]
  BY <1>1 DEF Emit
<1> HIDE DEF acc, p, x, y
<1>3. Same(x, y)
  BY <1>2 DEF Same, Fields
<1> QED BY <1>3 DEF x, y

\* They end their runs in the same order.
LEMMA SameFirstEnding ==
  ASSUME NEW v, NEW w, v.stalls = w.stalls, NEW S
  PROVE  FirstEnding(v, S) = FirstEnding(w, S)
<1> DEFINE first(stalls) ==
             CHOOSE t \in S : \A u \in S \ {t} :
               \/ stalls[t].cycle < stalls[u].cycle
               \/ stalls[t].cycle = stalls[u].cycle /\ t < u
<1>1. FirstEnding(v, S) = first(v.stalls) /\ FirstEnding(w, S) = first(w.stalls)
  BY DEF FirstEnding
<1> HIDE DEF first
<1> QED BY <1>1

\* They end a run in the same way.
LEMMA SameCloseStall ==
  ASSUME NEW v, NEW w, Same(v, w), NEW t
  PROVE  Same(CloseStall(v, t), CloseStall(w, t))
<1> DEFINE last == w.stalls[t].last
           at == w.stalls[t].cycle + 1
           e == EndSlice(v, last, at)
           f == EndSlice(w, last, at)
           stalls == [u \in DOMAIN w.stalls \ {t} |-> w.stalls[u]]
           x == CloseStall(v, t)
           y == CloseStall(w, t)
<1>1. v.stalls = w.stalls
  BY DEF Same
<1>2. Same(e, f)
  BY SameEmit DEF EndSlice
<1>3. x = [e EXCEPT !.stalls = stalls] /\ y = [f EXCEPT !.stalls = stalls]
  BY <1>1 DEF CloseStall
<1> HIDE DEF e, f, stalls, x, y
<1>4. Same(x, y)
  BY <1>2, <1>3 DEF Same, Fields
<1> QED BY <1>4 DEF x, y

\* They end several runs in the same way.
LEMMA SameCloseStalls ==
  ASSUME NEW v, NEW w, Same(v, w), Sound(w), NEW tracks, tracks \subseteq DOMAIN w.stalls
  PROVE  Same(CloseStalls(v, tracks), CloseStalls(w, tracks))
<1> DEFINE n == Cardinality(tracks)
<1>0. n = Cardinality(tracks)
  OBVIOUS
<1> HIDE DEF n
<1>1. Sound(v) /\ v.stalls = w.stalls
  BY SameIs DEF Same
<1>2. n \in Nat /\ \E f : ClosingLoop(f, w, tracks, n)
  BY <1>0, CloseStallsLoop
<1>3. \E f : ClosingLoop(f, v, tracks, n)
  BY <1>0, <1>1, CloseStallsLoop
<1>4. PICK f : ClosingLoop(f, w, tracks, n)
  BY <1>2
<1>5. PICK g : ClosingLoop(g, v, tracks, n)
  BY <1>3
<1>6. ASSUME NEW i \in 0 .. n - 1, Same(g[i], f[i]) PROVE Same(g[i + 1], f[i + 1])
  <2> DEFINE S == tracks \cap DOMAIN f[i].stalls
  <2>1. g[i].stalls = f[i].stalls
    BY <1>6 DEF Same
  <2>2. FirstEnding(g[i], S) = FirstEnding(f[i], S)
    BY <2>1, SameFirstEnding
  <2>3. /\ f[i + 1] = CloseStall(f[i], FirstEnding(f[i], S))
        /\ g[i + 1] = CloseStall(g[i], FirstEnding(f[i], S))
    BY <1>4, <1>5, <2>1, <2>2 DEF ClosingLoop
  <2> HIDE DEF S
  <2> QED BY <1>6, <2>3, SameCloseStall
<1> DEFINE S == {i \in Nat : Same(g[i], f[i])}
<1>7. 0 \in S
  BY <1>4, <1>5 DEF ClosingLoop
<1>8. ASSUME NEW k \in 0 .. n - 1, k \in S PROVE k + 1 \in S
  BY <1>6, <1>8
<1>9. n \in S
  <2> HIDE DEF S
  <2>1. n \in Nat
    BY <1>2
  <2> QED BY <1>7, <1>8, <2>1, UpToBound
<1> QED BY <1>4, <1>5, <1>9 DEF ClosingLoop

\* What encoding an occurrence looks at in its batch.
Agree(b, c, r) == b.nodes[r] = c.nodes[r] /\ Parents(b, r) = Parents(c, r)

\* They draw the same arrows.
LEMMA SameParentArrows ==
  ASSUME NEW v, NEW w, Same(v, w), NEW b, NEW c, NEW r, Agree(b, c, r),
         Cardinality(Parents(c, r)) \in Nat
  PROVE  Same(ParentArrows(v, b, r), ParentArrows(w, c, r))
<1> DEFINE n == Cardinality(Parents(c, r))
<1>0. n = Cardinality(Parents(c, r)) /\ n = Cardinality(Parents(b, r)) /\ b.nodes[r] = c.nodes[r]
  BY DEF Agree
<1>n. n \in Nat
  OBVIOUS
<1> HIDE DEF n
<1>1. PICK f : ArrowsLoop(f, w, c, r, n)
  BY <1>0, <1>n, ParentArrowsLoop
<1>2. PICK g : ArrowsLoop(g, v, b, r, n)
  BY <1>0, <1>n, ParentArrowsLoop
<1>3. ASSUME NEW i PROVE NthParent(b, r, i) = NthParent(c, r, i)
  <2> DEFINE nth(P) == CHOOSE p \in P : Cardinality({q \in P : Before(q, p)}) = i - 1
  <2>1. NthParent(b, r, i) = nth(Parents(b, r)) /\ NthParent(c, r, i) = nth(Parents(c, r))
    BY DEF NthParent
  <2> HIDE DEF nth
  <2> QED BY <2>1 DEF Agree
<1>4. ASSUME NEW i \in 0 .. n - 1, Same(g[i], f[i]) PROVE Same(g[i + 1], f[i + 1])
  <2> DEFINE id == f[i].known[NthParent(c, r, i + 1)].id
  <2>1. g[i].known = f[i].known
    BY <1>4 DEF Same
  <2>2. f[i + 1] = FlowEnd(f[i], r, c.nodes[r], id) /\ g[i + 1] = FlowEnd(g[i], r, c.nodes[r], id)
    BY <1>0, <1>1, <1>2, <1>3, <2>1 DEF ArrowsLoop
  <2> HIDE DEF id
  <2> QED BY <1>4, <2>2, SameEmit DEF FlowEnd
<1> DEFINE S == {i \in Nat : Same(g[i], f[i])}
<1>5. 0 \in S
  BY <1>1, <1>2 DEF ArrowsLoop
<1>6. ASSUME NEW k \in 0 .. n - 1, k \in S PROVE k + 1 \in S
  BY <1>4, <1>6
<1>7. n \in S
  <2> HIDE DEF S
  <2> QED BY <1>n, <1>5, <1>6, UpToBound
<1> QED BY <1>1, <1>2, <1>7 DEF ArrowsLoop

\* They encode a slice in the same way.
LEMMA SameEncodeSlice ==
  ASSUME NEW v, NEW w, Same(v, w), NEW b, NEW c, NEW r, Agree(b, c, r),
         Cardinality(Parents(c, r)) \in Nat
  PROVE  Same(EncodeSlice(v, b, r), EncodeSlice(w, c, r))
<1> DEFINE n == c.nodes[r]
           begunV  == BeginSlice(v, r, n)
           begunW  == BeginSlice(w, r, n)
           endsV   == ParentArrows(begunV, b, r)
           endsW   == ParentArrows(begunW, c, r)
           arrowsV == IF CanParent(r[1]) THEN FlowStart(endsV, r, n, v.known[r].id) ELSE endsV
           arrowsW == IF CanParent(r[1]) THEN FlowStart(endsW, r, n, w.known[r].id) ELSE endsW
           run == [last |-> r, cycle |-> n.cycle, words |-> n.words, parents |-> Parents(c, r)]
           x == EncodeSlice(v, b, r)
           y == EncodeSlice(w, c, r)
<1>0. b.nodes[r] = n /\ Parents(b, r) = Parents(c, r) /\ v.known = w.known
  BY DEF Agree, Same
<1>1. Same(begunV, begunW)
  BY SameEmit DEF BeginSlice
<1>5. /\ x = IF IsStall(r[1]) THEN [arrowsV EXCEPT !.stalls = With(@, TrackOf(r[1]), run)]
             ELSE EndSlice(arrowsV, r, n.cycle + 1)
      /\ y = IF IsStall(r[1]) THEN [arrowsW EXCEPT !.stalls = With(@, TrackOf(r[1]), run)]
             ELSE EndSlice(arrowsW, r, n.cycle + 1)
  BY <1>0 DEF EncodeSlice
<1> HIDE DEF begunV, begunW
<1>2. Same(endsV, endsW)
  BY <1>1, SameParentArrows
<1> HIDE DEF endsV, endsW
<1>3. Same(arrowsV, arrowsW)
  BY <1>0, <1>2, SameEmit DEF FlowStart
<1> HIDE DEF arrowsV, arrowsW, run, x, y
<1>6. CASE IsStall(r[1])
  <2> DEFINE stalls == With(arrowsW.stalls, TrackOf(r[1]), run)
  <2>1. x = [arrowsV EXCEPT !.stalls = stalls] /\ y = [arrowsW EXCEPT !.stalls = stalls]
    BY <1>3, <1>5, <1>6 DEF Same
  <2> HIDE DEF stalls
  <2>2. Same(x, y)
    BY <1>3, <2>1 DEF Same, Fields
  <2> QED BY <2>2 DEF x, y
<1>7. CASE ~ IsStall(r[1])
  <2>1. Same(x, y)
    BY <1>3, <1>5, <1>7, SameEmit DEF EndSlice
  <2> QED BY <2>1 DEF x, y
<1> QED BY <1>6, <1>7

\* They encode an occurrence in the same way.
LEMMA SameEncodeNode ==
  ASSUME NEW v, NEW w, Same(v, w), NEW b, NEW c, NEW r, Agree(b, c, r),
         Cardinality(Parents(c, r)) \in Nat
  PROVE  Same(EncodeNode(v, b, r), EncodeNode(w, c, r))
<1> DEFINE n == c.nodes[r]
           t == TrackOf(r[1])
           known == With(w.known, r, [id |-> Cardinality(DOMAIN w.known) + 1, cycle |-> n.cycle])
           v1 == [v EXCEPT !.known = known]
           w1 == [w EXCEPT !.known = known]
           x == EncodeNode(v, b, r)
           y == EncodeNode(w, c, r)
<1>0. b.nodes[r] = n /\ v.known = w.known
  BY DEF Agree, Same
<1>1. /\ x = IF IsStall(r[1]) /\ t \in DOMAIN v1.stalls
             THEN [v1 EXCEPT !.stalls[t].last = r, !.stalls[t].cycle = n.cycle]
             ELSE EncodeSlice(v1, b, r)
      /\ y = IF IsStall(r[1]) /\ t \in DOMAIN w1.stalls
             THEN [w1 EXCEPT !.stalls[t].last = r, !.stalls[t].cycle = n.cycle]
             ELSE EncodeSlice(w1, c, r)
  BY <1>0 DEF EncodeNode
<1>2. Same(v1, w1)
  <2> HIDE DEF known
  <2> QED BY DEF Same, Fields
<1> HIDE DEF v1, w1, x, y
<1>3. v1.stalls = w1.stalls
  BY <1>2 DEF Same
<1>4. CASE IsStall(r[1]) /\ t \in DOMAIN w1.stalls
  <2> DEFINE stalls == [w1.stalls EXCEPT ![t] = [w1.stalls[t] EXCEPT !.last = r, !.cycle = n.cycle]]
  <2>1. x = [v1 EXCEPT !.stalls = stalls] /\ y = [w1 EXCEPT !.stalls = stalls]
    BY <1>1, <1>2, <1>3, <1>4 DEF Same, Fields
  <2> HIDE DEF stalls
  <2>2. Same(x, y)
    BY <1>2, <2>1 DEF Same, Fields
  <2> QED BY <2>2 DEF x, y
<1>5. CASE ~ (IsStall(r[1]) /\ t \in DOMAIN w1.stalls)
  <2>1. x = EncodeSlice(v1, b, r) /\ y = EncodeSlice(w1, c, r)
    BY <1>1, <1>3, <1>5
  <2>2. Same(x, y)
    BY <1>2, <2>1, SameEncodeSlice
  <2> QED BY <2>2 DEF x, y
<1> QED BY <1>4, <1>5

\* They start a cycle in the same way, if it extends the same runs.
LEMMA SameStartCycle ==
  ASSUME NEW v, NEW w, Same(v, w), Sound(w), NEW b, NEW c, NEW k,
         \A t \in DOMAIN w.stalls : Continues(b, w.stalls[t], k) <=> Continues(c, w.stalls[t], k)
  PROVE  Same(StartCycle(v, b, k), StartCycle(w, c, k))
<1> DEFINE tracks == {t \in DOMAIN w.stalls : ~ Continues(c, w.stalls[t], k)}
<1>1. tracks = {t \in DOMAIN v.stalls : ~ Continues(b, v.stalls[t], k)} /\ tracks \subseteq DOMAIN w.stalls
  BY DEF Same
<1>2. StartCycle(v, b, k) = CloseStalls(v, tracks) /\ StartCycle(w, c, k) = CloseStalls(w, tracks)
  BY <1>1 DEF StartCycle
<1> HIDE DEF tracks
<1> QED BY <1>1, <1>2, SameCloseStalls

\* Of the open runs, the one that ends before the others is the first.
LEMMA FirstEndingUnique ==
  ASSUME NEW w, Sound(w), NEW S, S \subseteq DOMAIN w.stalls, NEW t \in S,
         \A u \in S \ {t} : EndsBefore(w, t, u)
  PROVE  FirstEnding(w, S) = t
<1> DEFINE m == FirstEnding(w, S)
<1>1. m \in S /\ \A u \in S \ {m} : EndsBefore(w, m, u)
  BY FirstEndingIs
<1> HIDE DEF m
<1>2. SUFFICES ASSUME m # t PROVE FALSE
  BY DEF m
<1>3. EndsBefore(w, m, t) /\ EndsBefore(w, t, m)
  BY <1>1, <1>2
<1>4. m \in Nat /\ t \in Nat /\ w.stalls[m].cycle \in Nat /\ w.stalls[t].cycle \in Nat
  BY <1>1 DEF Sound, Runs
<1> QED BY <1>3, <1>4 DEF EndsBefore

\* Ending runs and then others that end later is ending them all.
LEMMA CloseStallsTwice ==
  ASSUME NEW w, Sound(w), NEW S, NEW T, S \subseteq DOMAIN w.stalls, T \subseteq DOMAIN w.stalls,
         S \cap T = {}, \A s \in S, t \in T : w.stalls[s].cycle < w.stalls[t].cycle
  PROVE  CloseStalls(CloseStalls(w, S), T) = CloseStalls(w, S \cup T)
<1> DEFINE R == S \cup T
           n == Cardinality(S)
           m == Cardinality(T)
           v == CloseStalls(w, S)
<1>n. n = Cardinality(S) /\ m = Cardinality(T)
  OBVIOUS
<1>1. Sound(v) /\ DOMAIN v.stalls = DOMAIN w.stalls \ S
  BY CloseStallsIs
<1>v. v = CloseStalls(w, S) /\ T \subseteq DOMAIN v.stalls
  BY <1>1
<1> HIDE DEF v
<1>2. n \in Nat /\ IsFiniteSet(S) /\ \E f : ClosingLoop(f, w, S, n)
  BY CloseStallsLoop
<1>3. m \in Nat /\ IsFiniteSet(T) /\ \E f : ClosingLoop(f, v, T, m)
  BY <1>1, <1>v, CloseStallsLoop
<1>4. n + m = Cardinality(R)
  <2>1. Cardinality(R) = Cardinality(S) + Cardinality(T) - Cardinality(S \cap T)
    BY <1>2, <1>3, FS_Union
  <2>2. Cardinality(S \cap T) = 0
    BY FS_EmptySet
  <2> QED BY <1>2, <1>3, <2>1, <2>2
<1> HIDE DEF n, m
<1>5. R \subseteq DOMAIN w.stalls
  OBVIOUS
<1>6. \E f : ClosingLoop(f, w, R, n + m)
  <2> HIDE DEF R
  <2> QED BY <1>4, <1>5, CloseStallsLoop
<1>7. PICK f : ClosingLoop(f, w, R, n + m)
  BY <1>6
<1>f. ASSUME NEW i \in 0 .. n + m - 1
      PROVE  f[i + 1] = CloseStall(f[i], FirstEnding(f[i], R \cap DOMAIN f[i].stalls))
  <2>1. n \in Nat /\ m \in Nat
    BY <1>2, <1>3
  <2> HIDE DEF R
  <2> QED BY <1>7, <2>1 DEF ClosingLoop
<1>8. PICK g : ClosingLoop(g, w, S, n)
  BY <1>2
<1>9. PICK h : ClosingLoop(h, v, T, m)
  BY <1>3
<1>a. ASSUME NEW i \in 0 .. n - 1, f[i] = g[i] PROVE f[i + 1] = g[i + 1]
  <2> DEFINE x == g[i]
             A == S \cap DOMAIN x.stalls
             B == R \cap DOMAIN x.stalls
             t == FirstEnding(x, A)
  <2>1. Closing(x, w, S, i)
    BY <1>2, <1>8 DEF ClosingLoop
  <2> HIDE DEF x
  <2>2. Sound(x) /\ DOMAIN x.stalls \subseteq DOMAIN w.stalls
        /\ \A q \in DOMAIN x.stalls : x.stalls[q] = w.stalls[q]
    BY <2>1 DEF Closing
  <2>3. A # {} /\ A \subseteq DOMAIN x.stalls /\ B \subseteq DOMAIN x.stalls
    <3>1. Cardinality(A) + i = n
      BY <1>n, <2>1 DEF Closing
    <3>2. CASE A = {}
      <4>1. Cardinality(A) = 0
        BY <3>2, FS_EmptySet
      <4> QED BY <1>2, <3>1, <4>1
    <3> QED BY <3>2
  <2>4. t \in A /\ \A u \in A \ {t} : EndsBefore(x, t, u)
    <3> HIDE DEF A
    <3> QED BY <2>2, <2>3, FirstEndingIs
  <2> HIDE DEF t
  <2>5. ASSUME NEW u \in B \ {t} PROVE EndsBefore(x, t, u)
    <3>1. CASE u \in A
      BY <2>4, <2>5, <3>1
    <3>2. CASE u \in T
      BY <2>2, <2>4, <2>5, <3>2 DEF EndsBefore
    <3> QED BY <2>5, <3>1, <3>2
  <2>6. FirstEnding(x, B) = t
    <3>1. t \in B
      BY <2>4
    <3> HIDE DEF B
    <3> QED BY <2>2, <2>3, <2>5, <3>1, FirstEndingUnique
  <2>7. f[i + 1] = CloseStall(x, t) /\ g[i + 1] = CloseStall(x, t)
    <3>1. i \in 0 .. n + m - 1
      BY <1>2, <1>3
    <3>2. f[i + 1] = CloseStall(x, FirstEnding(x, B))
      <4>1. f[i] = x
        BY <1>a DEF x
      <4> HIDE DEF R
      <4>2. f[i + 1] = CloseStall(f[i], FirstEnding(f[i], R \cap DOMAIN f[i].stalls))
        BY <1>f, <3>1
      <4> QED BY <4>1, <4>2
    <3>3. g[i + 1] = CloseStall(x, FirstEnding(x, A))
      BY <1>8 DEF ClosingLoop, x
    <3> QED BY <2>6, <3>2, <3>3 DEF t
  <2> QED BY <2>7
<1>b. f[n] = g[n]
  <2> DEFINE I == {i \in Nat : f[i] = g[i]}
  <2>1. 0 \in I
    BY <1>7, <1>8 DEF ClosingLoop
  <2>2. ASSUME NEW k \in 0 .. n - 1, k \in I PROVE k + 1 \in I
    BY <1>a, <2>2
  <2>3. n \in I
    <3>1. n \in Nat
      BY <1>2
    <3> HIDE DEF I
    <3> QED BY <2>1, <2>2, <3>1, UpToBound
  <2> QED BY <2>3
<1>c. ASSUME NEW j \in 0 .. m - 1, f[n + j] = h[j] PROVE f[n + (j + 1)] = h[j + 1]
  <2> DEFINE x == h[j]
  <2>1. Closing(x, v, T, j)
    BY <1>3, <1>9 DEF ClosingLoop
  <2>2. R \cap DOMAIN x.stalls = T \cap DOMAIN x.stalls
    BY <1>1, <2>1 DEF Closing
  <2>3. n + j \in 0 .. n + m - 1 /\ n + (j + 1) = (n + j) + 1
    BY <1>2, <1>3
  <2>4. f[n + (j + 1)] = CloseStall(x, FirstEnding(x, R \cap DOMAIN x.stalls))
    <3>1. f[n + j] = x
      BY <1>c
    <3> HIDE DEF R, x
    <3>2. f[(n + j) + 1] = CloseStall(f[n + j], FirstEnding(f[n + j], R \cap DOMAIN f[n + j].stalls))
      BY <1>f, <2>3
    <3> QED BY <2>3, <3>1, <3>2
  <2>5. h[j + 1] = CloseStall(x, FirstEnding(x, T \cap DOMAIN x.stalls))
    BY <1>9 DEF ClosingLoop
  <2> QED BY <2>2, <2>4, <2>5
<1>d. f[n + m] = h[m]
  <2> DEFINE J == {j \in Nat : f[n + j] = h[j]}
  <2>1. 0 \in J
    BY <1>2, <1>8, <1>9, <1>b, <1>v DEF ClosingLoop
  <2>2. ASSUME NEW k \in 0 .. m - 1, k \in J PROVE k + 1 \in J
    BY <1>c, <2>2
  <2>3. m \in J
    <3>1. m \in Nat
      BY <1>3
    <3> HIDE DEF J
    <3> QED BY <2>1, <2>2, <3>1, UpToBound
  <2> QED BY <2>3
<1> QED BY <1>7, <1>9, <1>d, <1>v DEF ClosingLoop

------------------------------------------------------------------------------
(* A batch after others.                                                   *)

\* The batch b, of cycle k, follows all that is in a; c has both.
Follows(a, b, c, k) ==
  /\ k \in Nat /\ BatchTyped(a) /\ BatchTyped(b)
  /\ ~ Circular(a) /\ ~ Collides(a) /\ ~ Circular(b) /\ ~ Collides(b)
  /\ DOMAIN a.nodes \cap DOMAIN b.nodes = {}
  /\ \A r \in DOMAIN a.nodes : a.nodes[r].cycle < k
  /\ \A r \in DOMAIN b.nodes : b.nodes[r].cycle = k
  /\ \A e \in a.edges : {e[1], e[2]} \subseteq DOMAIN a.nodes
  /\ \A e \in b.edges : e[2] \in DOMAIN b.nodes
  /\ DOMAIN c.nodes = DOMAIN a.nodes \cup DOMAIN b.nodes
  /\ \A r \in DOMAIN a.nodes : c.nodes[r] = a.nodes[r]
  /\ \A r \in DOMAIN b.nodes : c.nodes[r] = b.nodes[r]
  /\ c.edges = a.edges \cup b.edges

\* An occurrence keeps its parents, and what was in order still is.
LEMMA FollowsIs ==
  ASSUME NEW a, NEW b, NEW c, NEW k, Follows(a, b, c, k)
  PROVE  /\ BatchTyped(c) /\ ~ Circular(c) /\ ~ Collides(c)
         /\ \A r \in DOMAIN a.nodes : Agree(c, a, r) /\ Parents(a, r) \subseteq DOMAIN a.nodes
         /\ \A r \in DOMAIN b.nodes : Agree(c, b, r)
<1>1. ASSUME NEW r \in DOMAIN a.nodes
      PROVE  Parents(c, r) = Parents(a, r) /\ Parents(a, r) \subseteq DOMAIN a.nodes
  BY DEF Follows, Parents
<1>2. ASSUME NEW r \in DOMAIN b.nodes
      PROVE  Parents(c, r) = Parents(b, r)
  BY DEF Follows, Parents
<1>3. BatchTyped(c)
  <2>1. IsFiniteSet(DOMAIN a.nodes \cup DOMAIN b.nodes) /\ IsFiniteSet(a.edges \cup b.edges)
    BY FS_Union DEF Follows, BatchTyped
  <2> QED BY <2>1 DEF Follows, BatchTyped
<1>4. ASSUME Circular(c) PROVE FALSE
  <2>1. PICK S \in SUBSET DOMAIN c.nodes : S # {} /\ \A r \in S : Parents(c, r) \cap S # {}
    BY <1>4 DEF Circular
  <2>2. CASE S \cap DOMAIN a.nodes # {}
    <3> DEFINE S1 == S \cap DOMAIN a.nodes
    <3>1. \A r \in S1 : Parents(a, r) \cap S1 # {}
      BY <1>1, <2>1
    <3> QED BY <2>2, <3>1 DEF Follows, Circular
  <2>3. CASE S \cap DOMAIN a.nodes = {}
    <3>1. S \subseteq DOMAIN b.nodes
      BY <2>3 DEF Follows
    <3>2. \A r \in S : Parents(b, r) \cap S # {}
      BY <1>2, <2>1, <3>1
    <3> QED BY <2>1, <3>1, <3>2 DEF Follows, Circular
  <2> QED BY <2>2, <2>3
<1>5. ASSUME Collides(c) PROVE FALSE
  <2>1. PICK r \in DOMAIN c.nodes, s \in DOMAIN c.nodes :
          /\ r # s /\ c.nodes[r].cycle = c.nodes[s].cycle
          /\ TrackOf(r[1]) = TrackOf(s[1]) /\ SharedTrack(TrackOf(r[1]))
    BY <1>5 DEF Collides
  <2>2. CASE r \in DOMAIN a.nodes /\ s \in DOMAIN a.nodes
    <3>1. a.nodes[r].cycle = a.nodes[s].cycle
      BY <2>1, <2>2 DEF Follows
    <3> QED BY <2>1, <2>2, <3>1 DEF Follows, Collides
  <2>3. CASE r \in DOMAIN b.nodes /\ s \in DOMAIN b.nodes
    <3>1. b.nodes[r].cycle = b.nodes[s].cycle
      BY <2>1, <2>3 DEF Follows
    <3> QED BY <2>1, <2>3, <3>1 DEF Follows, Collides
  <2>4. ASSUME NEW q \in DOMAIN a.nodes, NEW p \in DOMAIN b.nodes
        PROVE  c.nodes[q].cycle # c.nodes[p].cycle
    <3>1. c.nodes[q].cycle < k /\ c.nodes[p].cycle = k /\ c.nodes[q].cycle \in Nat /\ k \in Nat
      BY DEF Follows, BatchTyped
    <3> QED BY <3>1
  <2> QED BY <2>1, <2>2, <2>3, <2>4 DEF Follows
<1> QED BY <1>1, <1>2, <1>3, <1>4, <1>5 DEF Agree, Follows

\* Of some occurrences, the one that is earlier than the others is the first.
LEMMA EarliestUnique ==
  ASSUME NEW b, BatchTyped(b), NEW S, S \subseteq DOMAIN b.nodes, NEW r \in S,
         \A s \in S \ {r} : Earlier(b, r, s)
  PROVE  Earliest(b, S) = r
<1> DEFINE m == Earliest(b, S)
<1>1. m \in S /\ \A s \in S \ {m} : Earlier(b, m, s)
  BY EarliestIs
<1> HIDE DEF m
<1>2. SUFFICES ASSUME m # r PROVE FALSE
  BY DEF m
<1>3. Earlier(b, m, r) /\ Earlier(b, r, m)
  BY <1>1, <1>2
<1>4. ASSUME NEW q \in S
      PROVE  q[1] \in Nat /\ q[2] \in Nat /\ b.nodes[q].cycle \in Nat
  <2>1. q \in (DOMAIN PayloadWidth) \X Nat /\ b.nodes[q].cycle \in Nat
    BY DEF BatchTyped
  <2>2. DOMAIN PayloadWidth \subseteq Nat
    BY SchemaAssumption
  <2> QED BY <2>1, <2>2
<1>5. /\ m[1] \in Nat /\ m[2] \in Nat /\ b.nodes[m].cycle \in Nat
      /\ r[1] \in Nat /\ r[2] \in Nat /\ b.nodes[r].cycle \in Nat
  BY <1>1, <1>4
<1> QED BY <1>3, <1>5 DEF Earlier, Before

\* While occurrences of earlier batches are left, one of those is placed.
LEMMA PlaceEarlier ==
  ASSUME NEW a, NEW b, NEW c, NEW k, Follows(a, b, c, k),
         NEW s, s \in Seq(DOMAIN a.nodes), NEW r \in DOMAIN a.nodes \ ToSet(s)
  PROVE  PlaceNext(c, s) = PlaceNext(a, s)
<1> DEFINE left   == DOMAIN a.nodes \ ToSet(s)
           ready  == {q \in left : Parents(a, q) \cap left = {}}
           leftC  == DOMAIN c.nodes \ ToSet(s)
           readyC == {q \in leftC : Parents(c, q) \cap leftC = {}}
           m == Earliest(a, ready)
<1>0. BatchTyped(a) /\ BatchTyped(c)
  BY FollowsIs DEF Follows
<1>1. ready # {}
  <2> SUFFICES ASSUME \A q \in left : Parents(a, q) \cap left # {} PROVE FALSE
    OBVIOUS
  <2>1. left \in SUBSET DOMAIN a.nodes /\ left # {}
    OBVIOUS
  <2>2. ~ Circular(a)
    BY DEF Follows
  <2> HIDE DEF left
  <2> QED BY <2>1, <2>2 DEF Circular
<1>2. PlaceNext(a, s) = Append(s, m)
  BY <1>1 DEF PlaceNext
<1>3. ready \subseteq DOMAIN a.nodes /\ readyC \subseteq DOMAIN c.nodes
  OBVIOUS
<1>4. \A q \in DOMAIN a.nodes : q \in readyC <=> q \in ready
  <2>1. \A q \in DOMAIN a.nodes : Parents(c, q) = Parents(a, q) /\ Parents(a, q) \subseteq DOMAIN a.nodes
    BY FollowsIs DEF Agree
  <2>2. DOMAIN a.nodes \subseteq DOMAIN c.nodes
    BY DEF Follows
  <2> QED BY <2>1, <2>2
<1> HIDE DEF ready, readyC
<1>5. m \in ready /\ \A q \in ready \ {m} : Earlier(a, m, q)
  BY <1>0, <1>1, <1>3, EarliestIs
<1> HIDE DEF m
<1>6. m \in DOMAIN a.nodes /\ m \in readyC
  BY <1>3, <1>4, <1>5
<1>7. ASSUME NEW q \in readyC \ {m} PROVE Earlier(c, m, q)
  <2>1. CASE q \in DOMAIN a.nodes
    <3>1. Earlier(a, m, q)
      BY <1>4, <1>5, <1>7, <2>1
    <3>2. c.nodes[m] = a.nodes[m] /\ c.nodes[q] = a.nodes[q]
      BY <1>6, <2>1 DEF Follows
    <3> QED BY <3>1, <3>2 DEF Earlier
  <2>2. CASE q \in DOMAIN b.nodes
    <3>1. c.nodes[m].cycle < k /\ c.nodes[q].cycle = k
      BY <1>6, <2>2 DEF Follows
    <3> QED BY <3>1 DEF Earlier
  <2> QED BY <1>3, <1>7, <2>1, <2>2 DEF Follows
<1>8. Earliest(c, readyC) = m
  BY <1>0, <1>3, <1>6, <1>7, EarliestUnique
<1>9. PlaceNext(c, s) = Append(s, m)
  <2>1. readyC # {}
    BY <1>6
  <2>2. PlaceNext(c, s) = IF readyC = {} THEN s ELSE Append(s, Earliest(c, readyC))
    BY DEF PlaceNext, readyC
  <2> QED BY <1>8, <2>1, <2>2
<1> QED BY <1>2, <1>9

\* When they have all been placed, the batch is placed as it would be alone.
LEMMA PlaceLater ==
  ASSUME NEW a, NEW b, NEW c, NEW k, Follows(a, b, c, k),
         NEW o, o \in Seq(DOMAIN a.nodes), ToSet(o) = DOMAIN a.nodes,
         NEW s, s \in Seq(DOMAIN b.nodes)
  PROVE  PlaceNext(c, o \o s) = o \o PlaceNext(b, s)
<1> DEFINE left  == DOMAIN b.nodes \ ToSet(s)
           ready == {q \in left : Parents(b, q) \cap left = {}}
           m == Earliest(b, ready)
           leftC  == DOMAIN c.nodes \ ToSet(o \o s)
           readyC == {q \in leftC : Parents(c, q) \cap leftC = {}}
<1>0. BatchTyped(b) /\ BatchTyped(c)
  BY FollowsIs DEF Follows
<1>1. leftC = left
  <2> DEFINE D == DOMAIN a.nodes \cup DOMAIN b.nodes
  <2>1. o \in Seq(D) /\ s \in Seq(D)
    BY SeqMonotonic
  <2> HIDE DEF D
  <2>2. ToSet(o \o s) = ToSet(o) \cup ToSet(s)
    <3>1. /\ o \o s \in Seq(D) /\ Len(o \o s) = Len(o) + Len(s)
          /\ Len(o) \in Nat /\ Len(s) \in Nat
          /\ \A i \in 1 .. Len(o) + Len(s) : (o \o s)[i] = IF i <= Len(o) THEN o[i] ELSE s[i - Len(o)]
      BY <2>1
    <3>2. /\ ToSet(o) = {o[i] : i \in 1 .. Len(o)} /\ ToSet(s) = {s[i] : i \in 1 .. Len(s)}
          /\ ToSet(o \o s) = {(o \o s)[i] : i \in 1 .. Len(o) + Len(s)}
      <4> DEFINE t == o \o s
      <4>1. DOMAIN o = 1 .. Len(o) /\ DOMAIN s = 1 .. Len(s)
        BY <2>1
      <4>2. DOMAIN t = 1 .. Len(o) + Len(s)
        BY <3>1
      <4> HIDE DEF t
      <4> QED BY <4>1, <4>2 DEF ToSet, t
    <3>3. \A i \in 1 .. Len(o) : (o \o s)[i] = o[i] /\ i \in 1 .. Len(o) + Len(s)
      BY <3>1
    <3>4. \A i \in 1 .. Len(s) : (o \o s)[Len(o) + i] = s[i] /\ Len(o) + i \in 1 .. Len(o) + Len(s)
      BY <3>1
    <3>5. \A i \in 1 .. Len(o) + Len(s) : (o \o s)[i] \in ToSet(o) \cup ToSet(s)
      BY <3>1, <3>2
    <3>6. ToSet(o) \cup ToSet(s) \subseteq ToSet(o \o s)
      BY <3>2, <3>3, <3>4
    <3> QED BY <3>2, <3>5, <3>6
  <2> QED BY <2>2 DEF Follows
<1>2. readyC = ready
  <2>1. \A q \in DOMAIN b.nodes : Parents(c, q) = Parents(b, q)
    BY FollowsIs DEF Agree
  <2> HIDE DEF leftC
  <2> QED BY <1>1, <2>1
<1>3. ready \subseteq DOMAIN b.nodes /\ ready \subseteq DOMAIN c.nodes
  BY DEF Follows
<1>4. /\ PlaceNext(c, o \o s) = IF ready = {} THEN o \o s ELSE Append(o \o s, Earliest(c, ready))
      /\ PlaceNext(b, s) = IF ready = {} THEN s ELSE Append(s, m)
  <2>1. PlaceNext(c, o \o s) = IF readyC = {} THEN o \o s ELSE Append(o \o s, Earliest(c, readyC))
    BY DEF PlaceNext
  <2>2. PlaceNext(b, s) = IF ready = {} THEN s ELSE Append(s, m)
    BY DEF PlaceNext
  <2> HIDE DEF ready, readyC
  <2> QED BY <1>2, <2>1, <2>2
<1> HIDE DEF ready, m
<1>5. CASE ready = {}
  BY <1>4, <1>5
<1>6. CASE ready # {}
  <2>1. m \in ready /\ \A q \in ready \ {m} : Earlier(b, m, q)
    BY <1>0, <1>3, <1>6, EarliestIs DEF m
  <2>2. ASSUME NEW q \in ready \ {m} PROVE Earlier(c, m, q)
    <3>1. Earlier(b, m, q)
      BY <2>1
    <3>2. c.nodes[m] = b.nodes[m] /\ c.nodes[q] = b.nodes[q]
      BY <1>3, <2>1 DEF Follows
    <3> QED BY <3>1, <3>2 DEF Earlier
  <2>3. Earliest(c, ready) = m
    BY <1>0, <1>3, <2>1, <2>2, EarliestUnique
  <2>4. Append(o \o s, m) = o \o Append(s, m)
    <3> DEFINE D == DOMAIN c.nodes
    <3>1. o \in Seq(D) /\ s \in Seq(D) /\ m \in D
      BY <1>3, <2>1, SeqMonotonic DEF Follows
    <3> HIDE DEF D
    <3> QED BY <3>1
  <2> QED BY <1>4, <1>6, <2>3, <2>4
<1> QED BY <1>5, <1>6

\* The order of both is the one order after the other.
LEMMA OrderFollows ==
  ASSUME NEW a, NEW b, NEW c, NEW k, Follows(a, b, c, k)
  PROVE  /\ Order(a) \in Seq(DOMAIN a.nodes) /\ Order(b) \in Seq(DOMAIN b.nodes)
         /\ Order(c) = Order(a) \o Order(b)
<1> DEFINE n == Cardinality(DOMAIN a.nodes)
           m == Cardinality(DOMAIN b.nodes)
<1>0. /\ BatchTyped(a) /\ BatchTyped(b) /\ BatchTyped(c) /\ ~ Circular(a)
      /\ DOMAIN c.nodes = DOMAIN a.nodes \cup DOMAIN b.nodes
      /\ DOMAIN a.nodes \cap DOMAIN b.nodes = {}
  BY FollowsIs DEF Follows
<1>1. n = Cardinality(DOMAIN a.nodes) /\ m = Cardinality(DOMAIN b.nodes)
  OBVIOUS
<1>2. n \in Nat /\ m \in Nat /\ n + m = Cardinality(DOMAIN c.nodes)
  <2>1. /\ n \in Nat /\ m \in Nat
        /\ Cardinality(DOMAIN c.nodes) = n + m - Cardinality({})
    BY <1>0, FS_CardinalityType, FS_Union DEF BatchTyped
  <2>2. Cardinality({}) = 0
    BY FS_EmptySet
  <2> QED BY <2>1, <2>2
<1> HIDE DEF n, m
<1>3. PICK f : PlacingLoop(f, c, n + m)
  <2>1. \E f : PlacingLoop(f, c, n + m)
    BY <1>0, <1>2, OrderLoop
  <2> QED BY <2>1
<1>4. PICK g : PlacingLoop(g, a, n)
  BY <1>0, <1>1, OrderLoop
<1>5. PICK h : PlacingLoop(h, b, m)
  BY <1>0, <1>1, OrderLoop
<1>6. ASSUME NEW i \in 0 .. n + m - 1 PROVE f[i + 1] = PlaceNext(c, f[i])
  BY <1>2, <1>3 DEF PlacingLoop
<1>7. ASSUME NEW i \in 0 .. n - 1, f[i] = g[i] PROVE f[i + 1] = g[i + 1]
  <2> DEFINE s == g[i]
  <2>1. Placement(a, s, i)
    BY <1>2, <1>4 DEF PlacingLoop
  <2> HIDE DEF s
  <2>2. s \in Seq(DOMAIN a.nodes) /\ Len(s) < n
    BY <1>2, <2>1 DEF Placement
  <2>3. ToSet(s) \subseteq DOMAIN a.nodes /\ Cardinality(ToSet(s)) # n
    BY <1>2, <2>1, <2>2, PlacementSize
  <2>4. PICK r \in DOMAIN a.nodes : r \notin ToSet(s)
    BY <1>1, <2>3
  <2>5. PlaceNext(c, s) = PlaceNext(a, s)
    BY <2>2, <2>4, PlaceEarlier
  <2>6. i \in 0 .. n + m - 1
    BY <1>2
  <2>7. f[i + 1] = PlaceNext(c, s)
    BY <1>6, <1>7, <2>6 DEF s
  <2>8. g[i + 1] = PlaceNext(a, s)
    BY <1>4 DEF PlacingLoop, s
  <2> QED BY <2>5, <2>7, <2>8
<1>8. f[n] = g[n]
  <2> DEFINE I == {i \in Nat : f[i] = g[i]}
  <2>1. 0 \in I
    BY <1>3, <1>4 DEF PlacingLoop
  <2>2. ASSUME NEW j \in 0 .. n - 1, j \in I PROVE j + 1 \in I
    BY <1>7, <2>2
  <2>3. n \in I
    <3>1. n \in Nat
      BY <1>2
    <3> HIDE DEF I
    <3> QED BY <2>1, <2>2, <3>1, UpToBound
  <2> QED BY <2>3
<1> DEFINE o == Order(a)
<1>9. o \in Seq(DOMAIN a.nodes) /\ ToSet(o) = DOMAIN a.nodes /\ f[n] = o
  BY <1>0, <1>4, <1>8, OrderIsComplete DEF PlacingLoop
<1>o. o = Order(a)
  OBVIOUS
<1> HIDE DEF o
<1>10. ASSUME NEW i \in 0 .. m PROVE h[i] \in Seq(DOMAIN b.nodes)
  BY <1>5 DEF PlacingLoop, Placement
<1>11. ASSUME NEW j \in 0 .. m - 1, f[n + j] = o \o h[j] PROVE f[n + (j + 1)] = o \o h[j + 1]
  <2>1. n + j \in 0 .. n + m - 1 /\ n + (j + 1) = (n + j) + 1 /\ j \in 0 .. m
    BY <1>2
  <2>2. f[n + (j + 1)] = PlaceNext(c, o \o h[j])
    BY <1>6, <1>11, <2>1
  <2>3. h[j + 1] = PlaceNext(b, h[j])
    BY <1>5 DEF PlacingLoop
  <2>4. PlaceNext(c, o \o h[j]) = o \o PlaceNext(b, h[j])
    BY <1>9, <1>10, <2>1, PlaceLater
  <2> QED BY <2>2, <2>3, <2>4
<1>12. f[n + m] = o \o h[m]
  <2> DEFINE J == {j \in Nat : f[n + j] = o \o h[j]}
  <2>1. 0 \in J
    <3>1. h[0] = <<>> /\ o \o <<>> = o /\ n + 0 = n
      BY <1>2, <1>5, <1>9 DEF PlacingLoop
    <3> QED BY <1>9, <3>1
  <2>2. ASSUME NEW j \in 0 .. m - 1, j \in J PROVE j + 1 \in J
    BY <1>11, <2>2
  <2>3. m \in J
    <3>1. m \in Nat
      BY <1>2
    <3> HIDE DEF J
    <3> QED BY <2>1, <2>2, <3>1, UpToBound
  <2> QED BY <2>3
<1>13. f[n + m] = Order(c) /\ h[m] = Order(b)
  BY <1>3, <1>5 DEF PlacingLoop
<1>14. Order(b) \in Seq(DOMAIN b.nodes)
  BY <1>0, OrderIsComplete
<1> QED BY <1>9, <1>12, <1>13, <1>14, <1>o

------------------------------------------------------------------------------
(* A live trace mirrors a replay.                                          *)

\* Runs that ended before a cycle.
Past(w, k) == {t \in DOMAIN w.stalls : w.stalls[t].cycle < k}

\* Ending runs of the past first makes no difference.
LEMMA PastFirst ==
  ASSUME NEW w, Sound(w), NEW k \in Int, NEW S, Past(w, k) \subseteq S, S \subseteq DOMAIN w.stalls
  PROVE  LET v == CloseStalls(w, Past(w, k))
         IN  /\ Sound(v) /\ DOMAIN v.stalls = DOMAIN w.stalls \ Past(w, k)
             /\ \A t \in DOMAIN v.stalls : v.stalls[t] = w.stalls[t]
             /\ CloseStalls(v, S \ Past(w, k)) = CloseStalls(w, S)
<1> DEFINE P == Past(w, k)
           T == S \ P
<1>1. P \subseteq DOMAIN w.stalls /\ T \subseteq DOMAIN w.stalls /\ P \cap T = {} /\ P \cup T = S
  BY DEF Past
<1>2. ASSUME NEW s \in P, NEW t \in T PROVE w.stalls[s].cycle < w.stalls[t].cycle
  <2>1. w.stalls[s].cycle < k /\ ~ (w.stalls[t].cycle < k)
    BY DEF Past
  <2>2. w.stalls[s].cycle \in Nat /\ w.stalls[t].cycle \in Nat
    BY <1>1 DEF Sound, Runs
  <2> QED BY <2>1, <2>2
<1> HIDE DEF P, T
<1>3. CloseStalls(CloseStalls(w, P), T) = CloseStalls(w, P \cup T)
  BY <1>1, <1>2, CloseStallsTwice
<1>4. /\ Sound(CloseStalls(w, P)) /\ DOMAIN CloseStalls(w, P).stalls = DOMAIN w.stalls \ P
      /\ \A t \in DOMAIN CloseStalls(w, P).stalls : CloseStalls(w, P).stalls[t] = w.stalls[t]
  BY <1>1, CloseStallsIs
<1> QED BY <1>1, <1>3, <1>4 DEF P, T

\* A cycle before the last batch extends the runs it extended without the batch.
LEMMA ContinuesEarlier ==
  ASSUME NEW a, NEW b, NEW c, NEW k, Follows(a, b, c, k), NEW i \in Nat, i < k, NEW run
  PROVE  Continues(c, run, i) <=> Continues(a, run, i)
<1> DEFINE q == <<run.last[1], run.last[2] + 1>>
<1>1. q \in DOMAIN a.nodes => Agree(c, a, q)
  BY FollowsIs
<1>2. q \in DOMAIN b.nodes => c.nodes[q].cycle # i
  BY DEF Follows
<1>3. DOMAIN c.nodes = DOMAIN a.nodes \cup DOMAIN b.nodes
  BY DEF Follows
<1> HIDE DEF q
<1>4. ASSUME NEW x PROVE Continues(x, run, i) <=>
        /\ q \in DOMAIN x.nodes /\ x.nodes[q].cycle = i /\ run.cycle + 1 = i
        /\ x.nodes[q].words = run.words /\ Parents(x, q) = run.parents
  BY DEF Continues, q
<1> QED BY <1>1, <1>2, <1>3, <1>4 DEF Agree

\* The cycle of the last batch extends what the batch extends.
LEMMA ContinuesLater ==
  ASSUME NEW a, NEW b, NEW c, NEW k, Follows(a, b, c, k), NEW run
  PROVE  Continues(c, run, k) <=> Continues(b, run, k)
<1> DEFINE q == <<run.last[1], run.last[2] + 1>>
<1>1. q \in DOMAIN b.nodes => Agree(c, b, q)
  BY FollowsIs
<1>2. q \in DOMAIN a.nodes => c.nodes[q].cycle # k
  <2> SUFFICES ASSUME q \in DOMAIN a.nodes PROVE c.nodes[q].cycle # k
    OBVIOUS
  <2> HIDE DEF q
  <2>1. c.nodes[q].cycle < k /\ c.nodes[q].cycle \in Nat /\ k \in Nat
    BY DEF Follows, BatchTyped
  <2> QED BY <2>1
<1>3. DOMAIN c.nodes = DOMAIN a.nodes \cup DOMAIN b.nodes
  BY DEF Follows
<1> HIDE DEF q
<1>4. ASSUME NEW x PROVE Continues(x, run, k) <=>
        /\ q \in DOMAIN x.nodes /\ x.nodes[q].cycle = k /\ run.cycle + 1 = k
        /\ x.nodes[q].words = run.words /\ Parents(x, q) = run.parents
  BY DEF Continues, q
<1> QED BY <1>1, <1>2, <1>3, <1>4 DEF Agree

\* Whether an occurrence of the order is the first of its cycle.
Leads(b, order, i) == i = 1 \/ b.nodes[order[i - 1]].cycle # b.nodes[order[i]].cycle

\* Encoding the occurrences of earlier batches is not affected by a later one.
LEMMA EncodeEarlier ==
  ASSUME NEW a, NEW b, NEW c, NEW k, Follows(a, b, c, k),
         NEW o, o \in Seq(DOMAIN a.nodes), NEW p, NEW i \in 0 .. Len(o) - 1,
         \A j \in 1 .. Len(o) : p[j] = o[j],
         NEW v, NEW w, Same(v, w), Sound(w)
  PROVE  Same(EncodeNext(v, c, p, i + 1), EncodeNext(w, a, o, i + 1))
<1> DEFINE r == o[i + 1]
           at == a.nodes[r].cycle
           x == IF Leads(a, o, i + 1) THEN StartCycle(v, c, at) ELSE v
           y == IF Leads(a, o, i + 1) THEN StartCycle(w, a, at) ELSE w
<1>1. i \in Nat /\ i + 1 \in 1 .. Len(o) /\ (i + 1) - 1 = i /\ (i + 1 # 1 => i \in 1 .. Len(o))
  OBVIOUS
<1>2. r \in DOMAIN a.nodes /\ p[i + 1] = r /\ (i + 1 # 1 => p[i] = o[i] /\ o[i] \in DOMAIN a.nodes)
  BY <1>1
<1>3. at \in Nat /\ at < k
  BY <1>2 DEF Follows, BatchTyped
<1>4. Agree(c, a, r) /\ Cardinality(Parents(a, r)) \in Nat
  <2>1. BatchTyped(a)
    BY DEF Follows
  <2>2. Cardinality(Parents(a, r)) \in Nat
    BY <2>1, ParentsFinite
  <2> QED BY <1>2, <2>2, FollowsIs
<1>5. c.nodes[r].cycle = at /\ (Leads(c, p, i + 1) <=> Leads(a, o, i + 1))
  <2>1. c.nodes[r] = a.nodes[r]
    BY <1>4 DEF Agree
  <2>2. i + 1 # 1 => c.nodes[o[i]] = a.nodes[o[i]]
    BY <1>2 DEF Follows
  <2> HIDE DEF r
  <2> QED BY <1>1, <1>2, <2>1, <2>2 DEF Leads, r
<1> HIDE DEF r, at
<1>6. EncodeNext(v, c, p, i + 1) = EncodeNode(x, c, r)
  <2>1. EncodeNext(v, c, p, i + 1) =
          EncodeNode(IF Leads(c, p, i + 1) THEN StartCycle(v, c, c.nodes[p[i + 1]].cycle) ELSE v, c, p[i + 1])
    BY DEF EncodeNext, Leads
  <2> QED BY <1>2, <1>5, <2>1
<1>7. EncodeNext(w, a, o, i + 1) = EncodeNode(y, a, r)
  BY DEF EncodeNext, Leads, r, at
<1>8. Same(x, y)
  <2>1. CASE Leads(a, o, i + 1)
    <3>1. \A t \in DOMAIN w.stalls : Continues(c, w.stalls[t], at) <=> Continues(a, w.stalls[t], at)
      BY <1>3, ContinuesEarlier
    <3>2. Same(StartCycle(v, c, at), StartCycle(w, a, at))
      BY <3>1, SameStartCycle
    <3> QED BY <2>1, <3>2
  <2>2. CASE ~ Leads(a, o, i + 1)
    BY <2>2
  <2> QED BY <2>1, <2>2
<1> HIDE DEF x, y
<1> QED BY <1>4, <1>6, <1>7, <1>8, SameEncodeNode

\* The rest of the last batch is encoded as it would be alone.
LEMMA EncodeLater ==
  ASSUME NEW a, NEW b, NEW c, NEW k, Follows(a, b, c, k),
         NEW o, o \in Seq(DOMAIN b.nodes), NEW p, NEW n \in Nat, NEW i \in 1 .. Len(o) - 1,
         \A j \in 1 .. Len(o) : p[n + j] = o[j],
         NEW v, NEW w, Same(v, w)
  PROVE  Same(EncodeNext(v, c, p, n + (i + 1)), EncodeNext(w, b, o, i + 1))
<1> DEFINE r == o[i + 1]
           q == o[i]
<1>1. /\ i \in Nat /\ i + 1 \in 1 .. Len(o) /\ i \in 1 .. Len(o) /\ (i + 1) - 1 = i /\ i + 1 # 1
      /\ (n + (i + 1)) - 1 = n + i /\ n + (i + 1) # 1
  OBVIOUS
<1>2. r \in DOMAIN b.nodes /\ p[n + (i + 1)] = r /\ q \in DOMAIN b.nodes /\ p[n + i] = q
  BY <1>1
<1>3. b.nodes[r].cycle = k /\ b.nodes[q].cycle = k /\ c.nodes[r].cycle = k /\ c.nodes[q].cycle = k
  BY <1>2 DEF Follows
<1>4. Agree(c, b, r) /\ Cardinality(Parents(b, r)) \in Nat
  <2>1. BatchTyped(b)
    BY DEF Follows
  <2>2. Cardinality(Parents(b, r)) \in Nat
    BY <2>1, ParentsFinite
  <2> QED BY <1>2, <2>2, FollowsIs
<1>5. EncodeNext(w, b, o, i + 1) = EncodeNode(w, b, r)
  BY <1>1, <1>3 DEF EncodeNext
<1> HIDE DEF r, q
<1>6. EncodeNext(v, c, p, n + (i + 1)) = EncodeNode(v, c, r)
  <2> DEFINE j == n + (i + 1)
  <2>1. j - 1 = n + i /\ j # 1 /\ p[j] = r /\ p[j - 1] = q
    BY <1>1, <1>2
  <2> HIDE DEF j
  <2>2. EncodeNext(v, c, p, j) = EncodeNode(v, c, r)
    BY <1>3, <2>1 DEF EncodeNext
  <2> QED BY <2>2 DEF j
<1> QED BY <1>4, <1>5, <1>6, SameEncodeNode

\* The first occurrence of the last batch ends the runs of the past, whether
\* they are still open or have been ended already.
LEMMA EncodeBetween ==
  ASSUME NEW a, NEW b, NEW c, NEW k, Follows(a, b, c, k),
         NEW d \in Int, d < k, NEW w, Sound(w), NEW v, Same(v, w),
         NEW u, Same(u, CloseStalls(w, Past(w, d)))
  PROVE  Same(StartCycle(v, c, k), StartCycle(u, b, k))
<1> DEFINE P == Past(w, d)
           x == CloseStalls(w, P)
           S == {t \in DOMAIN w.stalls : ~ Continues(c, w.stalls[t], k)}
<1>0. k \in Nat
  BY DEF Follows
<1>1. P \subseteq S
  <2> SUFFICES ASSUME NEW t \in DOMAIN w.stalls, w.stalls[t].cycle < d,
                      Continues(c, w.stalls[t], k)
               PROVE  FALSE
    BY DEF Past
  <2>1. w.stalls[t].cycle \in Nat
    BY DEF Sound, Runs
  <2>2. w.stalls[t].cycle + 1 = k
    BY DEF Continues
  <2> QED BY <1>0, <2>1, <2>2
<1>2. /\ Sound(x) /\ DOMAIN x.stalls = DOMAIN w.stalls \ P
      /\ \A t \in DOMAIN x.stalls : x.stalls[t] = w.stalls[t]
      /\ CloseStalls(x, S \ P) = CloseStalls(w, S)
  <2>1. S \subseteq DOMAIN w.stalls
    OBVIOUS
  <2> HIDE DEF S
  <2> QED BY <1>1, <2>1, PastFirst
<1> HIDE DEF x, P
<1>3. S \ P = {t \in DOMAIN x.stalls : ~ Continues(b, x.stalls[t], k)}
  <2>1. \A t \in DOMAIN x.stalls : Continues(b, x.stalls[t], k) <=> Continues(c, w.stalls[t], k)
    BY <1>2, ContinuesLater
  <2> QED BY <1>2, <2>1
<1>4. StartCycle(x, b, k) = StartCycle(w, c, k)
  BY <1>2, <1>3 DEF StartCycle
<1>5. Same(StartCycle(v, c, k), StartCycle(w, c, k))
  BY SameStartCycle
<1>6. Same(StartCycle(u, b, k), StartCycle(x, b, k))
  BY <1>2, SameStartCycle DEF x, P
<1> QED BY <1>4, <1>5, <1>6, SameIs

\* All of the batches encoded at once, and the last one encoded after runs of
\* the past have been ended: the same packets, once the runs that ended before
\* the last cycle have been ended.
LEMMA EncodeFollows ==
  ASSUME NEW a, NEW b, NEW c, NEW k, Follows(a, b, c, k), NEW d \in Int, d < k,
         NEW new, Sound(new), NEW w, NEW all, all = EncodeAll(new, a),
         Same(w, CloseStalls(all, Past(all, d)))
  PROVE  LET x == EncodeAll(w, b)
             y == EncodeAll(new, c)
         IN  Same(CloseStalls(x, Past(x, k)), CloseStalls(y, Past(y, k)))
<1> DEFINE n == Len(Order(a))
           m == Len(Order(b))
           o == Order(a)
           p == Order(b)
           q == Order(c)
           x == EncodeAll(w, b)
           y == EncodeAll(new, c)
           P == Past(all, d)
           closed == CloseStalls(all, P)
<1>0. /\ BatchTyped(a) /\ ~ Circular(a) /\ ~ Collides(a)
      /\ BatchTyped(b) /\ ~ Circular(b) /\ ~ Collides(b)
      /\ BatchTyped(c) /\ ~ Circular(c) /\ ~ Collides(c) /\ k \in Nat
  BY FollowsIs DEF Follows
<1>1. Sound(all)
  BY <1>0, EncodeAllIs
<1>2. /\ Sound(closed) /\ DOMAIN closed.stalls = DOMAIN all.stalls \ P
      /\ \A t \in DOMAIN closed.stalls : closed.stalls[t] = all.stalls[t]
  BY <1>1, CloseStallsIs DEF Past
<1>3. Sound(w) /\ w.stalls = closed.stalls /\ Same(w, closed)
  BY <1>2, SameIs DEF Same
<1>c. P = Past(all, d) /\ closed = CloseStalls(all, P)
  OBVIOUS
<1> HIDE DEF closed, P
<1>4. Sound(x) /\ Sound(y)
  BY <1>0, <1>3, EncodeAllIs
<1>5. /\ o \in Seq(DOMAIN a.nodes) /\ p \in Seq(DOMAIN b.nodes) /\ q = o \o p
      /\ n \in Nat /\ m \in Nat
  BY OrderFollows
<1>6. /\ n = Len(o) /\ m = Len(p)
      /\ Len(q) = n + m /\ \A j \in 1 .. n : q[j] = o[j]
      /\ \A j \in 1 .. m : q[n + j] = p[j]
  <2> DEFINE D == DOMAIN a.nodes \cup DOMAIN b.nodes
  <2>1. o \in Seq(D) /\ p \in Seq(D) /\ n = Len(o) /\ m = Len(p)
    BY <1>5, SeqMonotonic
  <2> HIDE DEF D, o, p, n, m, q
  <2>2. /\ Len(o \o p) = n + m
        /\ \A j \in 1 .. n + m : (o \o p)[j] = IF j <= n THEN o[j] ELSE p[j - n]
    BY <2>1
  <2>3. \A j \in 1 .. n : j \in 1 .. n + m /\ j <= n
    BY <1>5
  <2>4. \A j \in 1 .. m : n + j \in 1 .. n + m /\ ~ (n + j <= n) /\ (n + j) - n = j
    BY <1>5
  <2> QED BY <1>5, <2>1, <2>2, <2>3, <2>4
<1>7. PICK f : EncodingLoop(f, new, c, n + m)
  <2>1. n + m = Len(Order(c))
    BY <1>6
  <2> HIDE DEF n, m
  <2> QED BY <1>0, <2>1, EncodeAllLoop
<1>8. PICK g : EncodingLoop(g, new, a, n)
  BY <1>0, EncodeAllLoop
<1>9. PICK h : EncodingLoop(h, w, b, m)
  BY <1>0, <1>3, EncodeAllLoop
<1>o. o = Order(a) /\ p = Order(b) /\ q = Order(c)
  OBVIOUS
<1> HIDE DEF n, m, o, p, q
<1>f. /\ f[0] = new /\ f[n + m] = EncodeAll(new, c)
      /\ \A i \in 0 .. n + m - 1 : f[i + 1] = EncodeNext(f[i], c, q, i + 1)
  <2> DEFINE s == n + m
  <2>1. EncodingLoop(f, new, c, s)
    BY <1>7
  <2> HIDE DEF s
  <2>2. /\ f[0] = new /\ f[s] = EncodeAll(new, c)
        /\ \A i \in 0 .. s - 1 : f[i + 1] = EncodeNext(f[i], c, Order(c), i + 1)
    BY <2>1 DEF EncodingLoop
  <2>3. q = Order(c)
    BY <1>o
  <2>4. \A i \in 0 .. s - 1 : f[i + 1] = EncodeNext(f[i], c, q, i + 1)
    BY <2>2, <2>3
  <2>5. s = n + m
    BY DEF s
  <2>6. f[n + m] = EncodeAll(new, c)
    BY <2>2, <2>5
  <2>7. ASSUME NEW i \in 0 .. n + m - 1 PROVE f[i + 1] = EncodeNext(f[i], c, q, i + 1)
    <3>1. i \in 0 .. s - 1
      BY <1>5, <2>5
    <3> QED BY <2>4, <3>1
  <2> QED BY <2>2, <2>6, <2>7
<1>10. f[n + m] = y /\ g[n] = all /\ h[m] = x /\ f[0] = new /\ g[0] = new /\ h[0] = w
  BY <1>f, <1>8, <1>9 DEF EncodingLoop
<1> HIDE DEF x, y
<1>11. ASSUME NEW i \in 0 .. n - 1, Same(f[i], g[i]) PROVE Same(f[i + 1], g[i + 1])
  <2>1. Sound(g[i]) /\ g[i + 1] = EncodeNext(g[i], a, o, i + 1)
    <3>1. i \in 0 .. n
      BY <1>5
    <3> QED BY <1>8, <1>o, <3>1 DEF EncodingLoop, Encoding
  <2>2. f[i + 1] = EncodeNext(f[i], c, q, i + 1)
    <3>1. i \in 0 .. n + m - 1
      BY <1>5
    <3> QED BY <1>f, <3>1
  <2>3. \A j \in 1 .. Len(o) : q[j] = o[j]
    BY <1>6
  <2>4. i \in 0 .. Len(o) - 1
    BY <1>6
  <2> QED BY <1>5, <1>11, <2>1, <2>2, <2>3, <2>4, EncodeEarlier
<1>12. Same(f[n], all)
  <2> DEFINE I == {i \in Nat : Same(f[i], g[i])}
  <2>1. 0 \in I
    BY <1>10, SameIs
  <2>2. ASSUME NEW i \in 0 .. n - 1, i \in I PROVE i + 1 \in I
    BY <1>11, <2>2
  <2>3. n \in I
    <3>1. n \in Nat
      BY <1>5
    <3> HIDE DEF I
    <3> QED BY <2>1, <2>2, <3>1, UpToBound
  <2> QED BY <1>10, <2>3
<1>13. CASE m = 0
  <2>1. y = f[n] /\ x = w
    BY <1>5, <1>10, <1>13
  <2> DEFINE S == Past(all, k)
  <2>2. S \subseteq DOMAIN all.stalls /\ P \subseteq S
    <3> SUFFICES ASSUME NEW t \in DOMAIN all.stalls, all.stalls[t].cycle < d
                 PROVE  all.stalls[t].cycle < k
      BY <1>c DEF Past
    <3>1. all.stalls[t].cycle \in Nat
      BY <1>1 DEF Sound, Runs
    <3> QED BY <1>0, <3>1
  <2>3. Past(y, k) = S
    BY <1>12, <2>1 DEF Past, Same
  <2>4. Past(x, k) = S \ P
    BY <1>2, <1>3, <2>1 DEF Past
  <2> HIDE DEF S
  <2>5. CloseStalls(closed, S \ P) = CloseStalls(all, S)
    BY <1>1, <1>c, <2>2, PastFirst
  <2>6. Same(CloseStalls(y, S), CloseStalls(all, S))
    BY <1>1, <1>12, <2>1, <2>2, SameCloseStalls
  <2>7. Same(CloseStalls(x, S \ P), CloseStalls(closed, S \ P))
    <3>1. S \ P \subseteq DOMAIN closed.stalls
      BY <1>2, <2>2
    <3> QED BY <1>2, <1>3, <2>1, <3>1, SameCloseStalls
  <2> QED BY <2>3, <2>4, <2>5, <2>6, <2>7, SameIs DEF x, y
<1>14. CASE m # 0
  <2>1. 1 \in 1 .. m /\ m - 1 \in Nat
    BY <1>5, <1>14
  <2>2. Same(f[n + 1], h[1])
    <3> DEFINE r == p[1]
    <3>1. r \in DOMAIN b.nodes /\ q[n + 1] = r /\ b.nodes[r].cycle = k /\ c.nodes[r].cycle = k
      <4>1. r \in DOMAIN b.nodes
        BY <1>5, <1>6, <2>1
      <4> QED BY <1>6, <2>1, <4>1 DEF Follows
    <3> HIDE DEF r
    <3>2. h[1] = EncodeNode(StartCycle(w, b, k), b, r)
      <4>1. h[0 + 1] = EncodeNext(h[0], b, p, 0 + 1)
        BY <1>9, <1>o, <2>1 DEF EncodingLoop
      <4> QED BY <1>10, <3>1, <4>1 DEF EncodeNext, r
    <3>3. f[n + 1] = EncodeNode(StartCycle(f[n], c, k), c, r)
      <4>1. f[n + 1] = EncodeNext(f[n], c, q, n + 1)
        <5>1. n \in 0 .. n + m - 1
          BY <1>5, <2>1
        <5> QED BY <1>f, <5>1
      <4>2. n + 1 # 1 => c.nodes[q[n]].cycle # k
        <5> SUFFICES ASSUME n + 1 # 1 PROVE c.nodes[q[n]].cycle # k
          OBVIOUS
        <5>1. n \in 1 .. n
          BY <1>5
        <5>2. q[n] \in DOMAIN a.nodes
          BY <1>5, <1>6, <5>1
        <5>3. c.nodes[q[n]].cycle < k /\ c.nodes[q[n]].cycle \in Nat
          BY <5>2 DEF Follows, BatchTyped
        <5> QED BY <1>0, <5>3
      <4>3. (n + 1) - 1 = n
        BY <1>5
      <4> QED BY <3>1, <4>1, <4>2, <4>3 DEF EncodeNext
    <3>4. Same(StartCycle(f[n], c, k), StartCycle(w, b, k))
      BY <1>1, <1>3, <1>12, <1>c, EncodeBetween
    <3>5. Agree(c, b, r) /\ Cardinality(Parents(b, r)) \in Nat
      BY <1>0, <3>1, FollowsIs, ParentsFinite
    <3> QED BY <3>2, <3>3, <3>4, <3>5, SameEncodeNode
  <2>3. ASSUME NEW i \in 1 .. m - 1, Same(f[n + i], h[i]) PROVE Same(f[n + (i + 1)], h[i + 1])
    <3>1. h[i + 1] = EncodeNext(h[i], b, p, i + 1)
      BY <1>5, <1>9, <1>o DEF EncodingLoop
    <3>2. f[n + (i + 1)] = EncodeNext(f[n + i], c, q, n + (i + 1))
      <4>1. n + i \in 0 .. n + m - 1 /\ (n + i) + 1 = n + (i + 1)
        BY <1>5
      <4> QED BY <1>f, <4>1
    <3>3. i \in 1 .. Len(p) - 1 /\ \A j \in 1 .. Len(p) : q[n + j] = p[j]
      BY <1>6
    <3>4. Same(EncodeNext(f[n + i], c, q, n + (i + 1)), EncodeNext(h[i], b, p, i + 1))
      <4> DEFINE v == f[n + i]
                 u == h[i]
      <4>1. Same(v, u) /\ n \in Nat /\ p \in Seq(DOMAIN b.nodes)
        BY <1>5, <2>3
      <4> HIDE DEF v, u
      <4>2. Same(EncodeNext(v, c, q, n + (i + 1)), EncodeNext(u, b, p, i + 1))
        BY <3>3, <4>1, EncodeLater
      <4> QED BY <4>2 DEF v, u
    <3> QED BY <3>1, <3>2, <3>4
  <2>4. Same(y, x)
    <3> DEFINE J == {j \in Nat : j = 0 \/ Same(f[n + j], h[j])}
    <3>1. 0 \in J
      OBVIOUS
    <3>2. ASSUME NEW j \in 0 .. m - 1, j \in J PROVE j + 1 \in J
      <4>1. CASE j = 0
        BY <2>2, <4>1
      <4>2. CASE j # 0
        <5>1. j \in 1 .. m - 1 /\ Same(f[n + j], h[j])
          BY <3>2, <4>2
        <5> QED BY <2>3, <5>1
      <4> QED BY <4>1, <4>2
    <3>3. m \in J
      <4>1. m \in Nat
        BY <1>5
      <4> HIDE DEF J
      <4> QED BY <3>1, <3>2, <4>1, UpToBound
    <3> QED BY <1>10, <1>14, <3>3
  <2>5. Past(x, k) = Past(y, k) /\ Past(y, k) \subseteq DOMAIN x.stalls
    BY <2>4 DEF Past, Same
  <2>6. Same(CloseStalls(y, Past(y, k)), CloseStalls(x, Past(y, k)))
    BY <1>4, <2>4, <2>5, SameCloseStalls
  <2> QED BY <2>5, <2>6, SameIs DEF x, y
<1> QED BY <1>13, <1>14

\* A writer in which a replay of the batches so far is under way: what differs
\* are the runs it has ended because they are past.
Mirrors(w, a) ==
  LET all == EncodeAll(NewWriter, a) IN Same(w, CloseStalls(all, Past(all, w.watermark)))

\* Before the first batch.
LEMMA MirrorsStart ==
  ASSUME NEW a, DOMAIN a.nodes = {}, a.edges = {}
  PROVE  Mirrors(NewWriter, a) /\ BatchTyped(a) /\ ~ Circular(a) /\ ~ Collides(a)
<1> DEFINE w == NewWriter
<1>1. BatchTyped(a) /\ ~ Circular(a) /\ ~ Collides(a)
  BY FS_EmptySet DEF BatchTyped, Circular, Collides
<1>2. Sound(w) /\ DOMAIN w.stalls = {}
  <2>1. Sound(w)
    BY NewWriterIs
  <2>2. w.stalls = <<>>
    BY DEF NewWriter
  <2> QED BY <2>1, <2>2
<1>3. Len(Order(a)) = 0
  BY <1>1, OrderIsComplete, FS_EmptySet
<1> HIDE DEF w
<1>4. EncodeAll(w, a) = w
  <2> DEFINE n == Len(Order(a))
  <2>1. \E f : EncodingLoop(f, w, a, n)
    BY <1>1, <1>2, EncodeAllLoop
  <2>2. n = 0
    BY <1>3
  <2> HIDE DEF n
  <2> QED BY <2>1, <2>2 DEF EncodingLoop
<1>5. Past(w, w.watermark) = {}
  BY <1>2 DEF Past
<1>6. CloseStalls(w, {}) = w
  <2> DEFINE n == Cardinality({})
  <2>1. {} \subseteq DOMAIN w.stalls /\ n = 0 /\ n = Cardinality({})
    BY FS_EmptySet
  <2> HIDE DEF n
  <2>2. \E f : ClosingLoop(f, w, {}, n)
    BY <1>2, <2>1, CloseStallsLoop
  <2> QED BY <2>1, <2>2 DEF ClosingLoop
<1>7. Same(w, w)
  BY <1>2, SameIs
<1> QED BY <1>1, <1>4, <1>5, <1>6, <1>7 DEF Mirrors, w

\* With each batch.
LEMMA MirrorsStep ==
  ASSUME NEW a, NEW b, NEW c, NEW k, Follows(a, b, c, k), b.cycle = k,
         NEW w, Mirrors(w, a), w.watermark \in Int, w.watermark < k
  PROVE  Mirrors(Encode(w, b), c)
<1> DEFINE x == EncodeAll(w, b)
           y == EncodeAll(NewWriter, c)
           all == EncodeAll(NewWriter, a)
           d == w.watermark
           v == CloseStalls(x, Past(x, k))
           z == CloseStalls(y, Past(y, k))
           e == Encode(w, b)
<1>1. all = EncodeAll(NewWriter, a) /\ Same(w, CloseStalls(all, Past(all, d))) /\ d \in Int /\ d < k
      /\ Sound(NewWriter)
  BY NewWriterIs DEF Mirrors
<1> HIDE DEF all, d
<1>2. Same(v, z)
  BY <1>1, EncodeFollows
<1>3. e = [v EXCEPT !.watermark = k]
  BY DEF Encode, EndedBy, Past
<1> HIDE DEF v, z, e, x, y
<1>4. Same(e, z) /\ e.watermark = k
  BY <1>2, <1>3 DEF Same, Fields
<1> QED BY <1>4 DEF Mirrors, e, z, y

\* At the end the packets are those of the replay.
LEMMA MirrorsFinish ==
  ASSUME NEW a, BatchTyped(a), ~ Circular(a), ~ Collides(a), a.cycle \in Int,
         NEW w, Mirrors(w, a), w.watermark \in Int, ~ w.finished
  PROVE  LET all == EncodeAll(NewWriter, a)
         IN  /\ Finish(w).out = Finish(Encode(NewWriter, a)).out
             /\ Finish(w).out = CloseStalls(all, DOMAIN all.stalls).out
<1> DEFINE all == EncodeAll(NewWriter, a)
           S == DOMAIN all.stalls
           end == CloseStalls(all, S)
           v == CloseStalls(all, Past(all, w.watermark))
           u == CloseStalls(all, Past(all, a.cycle))
           e == Encode(NewWriter, a)
<1>1. Sound(all)
  BY NewWriterIs, EncodeAllIs
<1>2. Same(w, v)
  BY DEF Mirrors
<1>3. ASSUME NEW k \in Int
      PROVE  LET x == CloseStalls(all, Past(all, k))
             IN  Sound(x) /\ CloseStalls(x, DOMAIN x.stalls) = CloseStalls(all, DOMAIN all.stalls)
  <2> DEFINE P == Past(all, k)
             x == CloseStalls(all, P)
             T == DOMAIN all.stalls
  <2>1. P \subseteq T
    BY DEF Past
  <2> HIDE DEF all
  <2>2. Sound(x) /\ DOMAIN x.stalls = T \ P /\ CloseStalls(x, T \ P) = CloseStalls(all, T)
    <3>1. T \subseteq DOMAIN all.stalls
      OBVIOUS
    <3> QED BY <1>1, <2>1, <3>1, PastFirst
  <2>3. CloseStalls(x, DOMAIN x.stalls) = CloseStalls(x, T \ P)
    BY <2>2
  <2> QED BY <2>2, <2>3
<1>4. Sound(v) /\ CloseStalls(v, DOMAIN v.stalls) = end
  BY <1>3
<1>5. Sound(u) /\ CloseStalls(u, DOMAIN u.stalls) = end
  BY <1>3
<1>6. e = [u EXCEPT !.watermark = a.cycle]
  BY DEF Encode, EndedBy, Past
<1>7. e.finished = FALSE
  <2>1. Sound(NewWriter) /\ NewWriter.finished = FALSE
    BY NewWriterIs DEF NewWriter
  <2>2. e.finished = NewWriter.finished
    BY <2>1, EncodeIs
  <2> QED BY <2>1, <2>2
<1> HIDE DEF v, u, e, end, all
<1>8. Same(e, u)
  BY <1>5, <1>6 DEF Same, Sound, Wellformed, Fields
<1>9. ASSUME NEW x, NEW y, Same(x, y), Sound(y), ~ x.finished
      PROVE  Finish(x).out = CloseStalls(y, DOMAIN y.stalls).out
  <2> DEFINE T == DOMAIN y.stalls
             z == CloseStalls(x, T)
  <2>1. Same(z, CloseStalls(y, T)) /\ DOMAIN x.stalls = T
    BY <1>9, SameCloseStalls DEF Same
  <2>2. Finish(x) = [z EXCEPT !.finished = TRUE]
    BY <1>9, <2>1 DEF Finish
  <2> HIDE DEF z
  <2> QED BY <2>1, <2>2 DEF Same, Fields
<1>10. Finish(w).out = end.out
  BY <1>2, <1>4, <1>9
<1>11. Finish(e).out = end.out
  BY <1>5, <1>7, <1>8, <1>9
<1> QED BY <1>10, <1>11 DEF e, end, all

------------------------------------------------------------------------------
(* The writer and the graph.                                               *)

\* What the writer has seen is what has been streamed.
Following ==
  /\ streaming /\ finishedCycle = cycle - 1
  /\ Sound(writer) /\ ~ writer.failed /\ ~ writer.finished
  /\ writer.watermark = finishedCycle
  /\ DOMAIN writer.known = Streamed
  /\ \A r \in Streamed : writer.known[r].cycle = nodes[r].cycle

\* The inductive invariant of a traced simulation.
SystemInv ==
  /\ IInv /\ IsFiniteSet(pendingNodes) /\ IsFiniteSet(pendingEdges) /\ cycle \in Nat
  /\ driver \in {"unopened", "reset", "running", "closed", "stopped"}
  /\ driver = "unopened" => ~ streaming /\ cycle = 0 /\ writer = NewWriter
  /\ driver = "reset" =>
       streaming /\ cycle = 0 /\ finishedCycle = NoCycle /\ writer = NewWriter /\ Empty
  /\ driver = "running" => Following
  /\ Importable(writer.out)

\* A settled batch is one the writer can order.
LEMMA SettledBatch ==
  ASSUME IInv, IsFiniteSet(pendingNodes), IsFiniteSet(pendingEdges), NEW c, Settled(c)
  PROVE  LET b == Batch(c)
         IN  /\ BatchTyped(b) /\ b.cycle = c /\ DOMAIN b.nodes = pendingNodes /\ b.edges = pendingEdges
             /\ \A r \in pendingNodes : b.nodes[r] = nodes[r]
<1> DEFINE b == Batch(c)
<1>1. /\ b.cycle = c /\ DOMAIN b.nodes = pendingNodes /\ b.edges = pendingEdges
      /\ \A r \in pendingNodes : b.nodes[r] = nodes[r]
  BY DEF Batch
<1> HIDE DEF b
<1>2. ASSUME NEW r \in pendingNodes
      PROVE  r \in (DOMAIN PayloadWidth) \X Nat /\ nodes[r].cycle \in Nat
  <2>1. r \in Refs
    BY DEF IInv, TypeOK
  <2>2. r \in Sites \X Nat
    BY <2>1, SchemaAssumption
  <2>3. r[1] \in DOMAIN PayloadWidth
    BY DEF Settled, ValidEntries, ValidNode
  <2>4. nodes[r].cycle \in Nat
    BY <2>1, CycleNumbers DEF IInv
  <2> QED BY <2>2, <2>3, <2>4
<1>3. BatchTyped(b)
  BY <1>1, <1>2 DEF BatchTyped
<1> QED BY <1>1, <1>3 DEF b

\* The writer's own validation of a settled batch comes down to what the
\* collector does not look at.
LEMMA AcceptsIs ==
  ASSUME IInv, IsFiniteSet(pendingNodes), IsFiniteSet(pendingEdges), cycle \in Nat,
         Following, Settled(cycle)
  PROVE  Accepts(writer, Batch(cycle)) <=> ~ Circular(Batch(cycle)) /\ ~ Collides(Batch(cycle))
<1> DEFINE b == Batch(cycle)
           w == writer
<1>1. /\ BatchTyped(b) /\ b.cycle = cycle /\ DOMAIN b.nodes = pendingNodes /\ b.edges = pendingEdges
      /\ \A r \in pendingNodes : b.nodes[r] = nodes[r]
  BY SettledBatch
<1> HIDE DEF b
<1>2. Len(Order(b)) = Cardinality(DOMAIN b.nodes) <=> ~ Circular(b)
  BY <1>1, OrderIsComplete
<1>3. /\ ~ w.failed /\ ~ w.finished /\ w.watermark = cycle - 1 /\ finishedCycle = cycle - 1
      /\ DOMAIN w.known = Streamed /\ \A r \in Streamed : w.known[r].cycle = nodes[r].cycle
      /\ streaming
  BY DEF Following
<1> HIDE DEF w
<1>4. b.cycle > w.watermark
  BY <1>1, <1>3
<1>5. ASSUME NEW r \in DOMAIN b.nodes
      PROVE  /\ r \notin DOMAIN w.known /\ ValidNode(r, b.nodes[r])
             /\ b.nodes[r].cycle \in (w.watermark + 1) .. b.cycle
  <2>1. r \in pendingNodes /\ b.nodes[r] = nodes[r]
    BY <1>1
  <2>2. ValidNode(r, nodes[r]) /\ nodes[r].cycle \in (finishedCycle + 1) .. cycle
    BY <2>1 DEF Settled, ValidEntries
  <2>3. r \notin Streamed
    BY <2>1 DEF Streamed
  <2> QED BY <1>1, <1>3, <2>1, <2>2, <2>3
<1>6. ASSUME NEW e \in b.edges
      PROVE  /\ e[2] \in DOMAIN b.nodes
             /\ e[1] \in DOMAIN b.nodes \cup DOMAIN w.known
             /\ <<e[1][1], e[2][1]>> \in Dependencies
             /\ (IF e[1] \in DOMAIN b.nodes THEN b.nodes[e[1]].cycle ELSE w.known[e[1]].cycle)
                  <= b.nodes[e[2]].cycle
  <2>1. e[2] \in pendingNodes /\ {e[1], e[2]} \subseteq Keys /\ ValidEdge(e, nodes)
    BY <1>1 DEF Settled, ValidEntries
  <2>2. e[1] \in pendingNodes \/ e[1] \in Streamed
    BY <1>3, <2>1 DEF Streamed
  <2>3. <<e[1][1], e[2][1]>> \in Dependencies /\ nodes[e[1]].cycle <= nodes[e[2]].cycle
    BY <2>1 DEF ValidEdge
  <2>4. (IF e[1] \in DOMAIN b.nodes THEN b.nodes[e[1]].cycle ELSE w.known[e[1]].cycle) = nodes[e[1]].cycle
    BY <1>1, <1>3, <2>2
  <2> QED BY <1>1, <1>3, <2>1, <2>2, <2>3, <2>4
<1>7. ~ Collides(b) <=>
        \A r \in DOMAIN b.nodes : \A s \in DOMAIN b.nodes \ {r} :
          ~ (/\ SharedTrack(TrackOf(r[1])) /\ TrackOf(r[1]) = TrackOf(s[1])
             /\ b.nodes[r].cycle = b.nodes[s].cycle)
  BY DEF Collides
<1>8. Accepts(w, b) <=> ~ Circular(b) /\ ~ Collides(b)
  BY <1>2, <1>3, <1>4, <1>5, <1>6, <1>7 DEF Accepts
<1> QED BY <1>8 DEF w, b

------------------------------------------------------------------------------
(* Steps.                                                                  *)

\* The invariant holds before a trace is opened.
LEMMA SystemStart == SystemInit => SystemInv
<1> SUFFICES ASSUME SystemInit PROVE SystemInv
  OBVIOUS
<1>1. IInv
  BY GraphInit DEF SystemInit
<1>2. Importable(writer.out)
  BY NewWriterIs, SoundIsImportable DEF SystemInit
<1> QED BY <1>1, <1>2, FS_EmptySet DEF SystemInit, Init, SystemInv

\* Opening a trace begins a stream of an empty graph.
LEMMA OpenTraceStep ==
  ASSUME SystemInv, OpenTrace
  PROVE  SystemInv'
<1>1. /\ driver = "unopened" /\ ~ streaming /\ cycle = 0 /\ writer' = writer /\ Empty
      /\ pendingNodes = {} /\ pendingEdges = {}
  BY DEF OpenTrace, SystemInv, IInv, ActivityIsRecorded
<1>2. /\ UNCHANGED <<nodes, edges, epochActive, pendingNodes, pendingEdges, cycle>>
      /\ manifest' = TRUE /\ timing' = 0 /\ streaming' = TRUE /\ started' = TRUE
      /\ finishedCycle' = NoCycle /\ driver' = "reset" /\ writer' = NewWriter
  BY DEF OpenTrace
<1>3. Keys' = {} /\ edges' = {} /\ Empty'
  BY <1>1, <1>2 DEF Keys, Empty
<1>4. Streamed' = {} /\ StreamedEdges' = {}
  BY <1>1, <1>2, <1>3 DEF Streamed, StreamedEdges
<1>5. TypeOK'
  <2>1. 0 \in 0 .. MaxEpoch
    BY GraphAssumption
  <2> QED BY <1>2, <2>1 DEF SystemInv, IInv, TypeOK
<1>6. ActivityIsRecorded'
  BY <1>1, <1>2, <1>3, <1>4 DEF ActivityIsRecorded
<1>7. StreamedIsValid'
  BY <1>1, <1>2, <1>3, <1>4 DEF StreamedIsValid, SnapshotTaken, ValidEntries
<1>8. IInv'
  BY <1>5, <1>6, <1>7 DEF IInv
<1> QED BY <1>1, <1>2, <1>3, <1>8 DEF SystemInv

\* A reset that is sampled before the first cycle empties an empty graph.
LEMMA SampleResetStep ==
  ASSUME SystemInv, SampleReset
  PROVE  SystemInv'
<1>1. driver = "reset" /\ ResetAsserted /\ UNCHANGED <<driver, cycle, writer>>
  BY DEF SampleReset
<1>2. IInv'
  BY <1>1, GraphStep DEF SystemInv, Next, Callback
<1>3. Empty'
  BY <1>1 DEF ResetAsserted, Empty, Keys
<1>4. UNCHANGED <<streaming, finishedCycle, pendingNodes, pendingEdges>>
  BY <1>1 DEF ResetAsserted, streamVars
<1> QED BY <1>1, <1>2, <1>3, <1>4 DEF SystemInv

\* Reset is released with nothing recorded and nothing written.
LEMMA LeaveResetStep ==
  ASSUME SystemInv, LeaveReset
  PROVE  SystemInv'
<1>1. /\ driver = "reset" /\ driver' = "running" /\ UNCHANGED <<cycle, writer>>
      /\ UNCHANGED <<nodes, edges, manifest, timing, started, epochActive, streaming,
                     finishedCycle, pendingNodes, pendingEdges>>
  BY DEF LeaveReset, vars
<1>2. IInv'
  BY GraphStep DEF SystemInv, LeaveReset
<1>3. Streamed' = {}
  BY <1>1 DEF SystemInv, Streamed, Empty, Keys
<1>4. Following'
  BY <1>1, <1>3, NewWriterIs DEF SystemInv, Following, NoCycle
<1> QED BY <1>1, <1>2, <1>4 DEF SystemInv

\* The design's callbacks never touch what has been streamed.
LEMMA DesignStepFrame ==
  ASSUME SystemInv, DesignStep
  PROVE  /\ Next /\ UNCHANGED <<driver, cycle, writer, streaming, finishedCycle>>
         /\ Streamed' = Streamed /\ \A r \in Streamed : nodes'[r] = nodes[r]
         /\ IsFiniteSet(pendingNodes') /\ IsFiniteSet(pendingEdges')
<1>a. IInv /\ IsFiniteSet(pendingNodes) /\ IsFiniteSet(pendingEdges) /\ Cycling
  BY DEF SystemInv, DesignStep, SiteFires, SiteCaptures, SiteDepends
<1>b. ASSUME NEW r \in Refs, r \notin Streamed, NEW n, n # NoNode,
             nodes' = [nodes EXCEPT ![r] = n],
             pendingNodes' = IF streaming THEN pendingNodes \cup {r} ELSE pendingNodes,
             UNCHANGED <<edges, streaming, finishedCycle, pendingEdges>>
      PROVE  /\ Streamed' = Streamed /\ \A q \in Streamed : nodes'[q] = nodes[q]
             /\ IsFiniteSet(pendingNodes') /\ IsFiniteSet(pendingEdges')
  <2>1. Streamed' = Streamed /\ \A q \in Refs : q # r => nodes'[q] = nodes[q]
    BY <1>a, <1>b, CallbackFrame
  <2>2. IsFiniteSet(pendingNodes \cup {r})
    BY <1>a, FS_AddElement
  <2> QED BY <1>a, <1>b, <2>1, <2>2 DEF Streamed, Keys
<1>1. CASE SiteFires
  <2>1. PICK s \in DOMAIN PayloadWidth :
          NextRef(s) \in Refs /\ RecordNode(NextRef(s), cycle, PayloadWidth[s])
    BY <1>1 DEF SiteFires
  <2> DEFINE r == NextRef(s)
             n == Present(nodes[r], cycle, PayloadWidth[s])
  <2>2. cycle \in Cycles /\ PayloadWidth[s] \in Widths
    BY <1>a, StreamAssumption DEF Cycling, SystemInv
  <2>3. Next
    BY <2>1, <2>2 DEF Next, Callback
  <2>4. r \notin Streamed
    BY <1>a, <2>1, StreamedIsSealed DEF RecordNode
  <2>5. n # NoNode
    BY DEF Present, NoNode
  <2>6. /\ r \in Refs /\ nodes' = [nodes EXCEPT ![r] = n]
        /\ pendingNodes' = IF streaming THEN pendingNodes \cup {r} ELSE pendingNodes
        /\ UNCHANGED <<edges, streaming, finishedCycle, pendingEdges>>
    BY <2>1 DEF RecordNode
  <2> HIDE DEF r, n
  <2>7. UNCHANGED <<driver, cycle, writer>>
    BY <1>1 DEF SiteFires
  <2> QED BY <1>b, <2>3, <2>4, <2>5, <2>6, <2>7
<1>2. CASE SiteCaptures
  <2>1. PICK r \in Firing, index \in WordIndexes, word \in WordValues : RecordPayload(r, index, word)
    BY <1>2 DEF SiteCaptures
  <2> DEFINE n == WithWord(nodes[r], index, word)
  <2>2. r \in Refs
    BY <1>a, <2>1 DEF Firing, IInv, TypeOK
  <2>3. Next
    BY <2>1, <2>2 DEF Next, Callback
  <2>4. r \notin Streamed
    BY <1>a, <2>1, StreamedIsSealed DEF RecordPayload
  <2>5. n # NoNode
    BY DEF WithWord, NoNode
  <2>6. /\ nodes' = [nodes EXCEPT ![r] = n]
        /\ pendingNodes' = IF streaming THEN pendingNodes \cup {r} ELSE pendingNodes
        /\ UNCHANGED <<edges, streaming, finishedCycle, pendingEdges>>
    BY <2>1 DEF RecordPayload
  <2> HIDE DEF n
  <2>7. UNCHANGED <<driver, cycle, writer>>
    BY <1>2 DEF SiteCaptures
  <2> QED BY <1>b, <2>2, <2>3, <2>4, <2>5, <2>6, <2>7
<1>3. CASE SiteDepends
  <2>1. PICK e \in EdgeInputs : RecordEdge(e)
    BY <1>3 DEF SiteDepends
  <2>2. Next
    BY <2>1 DEF Next, Callback
  <2>3. /\ UNCHANGED <<nodes, streaming, finishedCycle, pendingNodes>>
        /\ pendingEdges' = IF streaming THEN pendingEdges \cup {e} ELSE pendingEdges
    BY <2>1 DEF RecordEdge
  <2>4. Streamed' = Streamed
    BY <2>3 DEF Streamed, Keys
  <2>5. IsFiniteSet(pendingEdges')
    BY <1>a, <2>3, FS_AddElement
  <2>6. UNCHANGED <<driver, cycle, writer>>
    BY <1>3 DEF SiteDepends
  <2> QED BY <1>a, <2>2, <2>3, <2>4, <2>5, <2>6
<1> QED BY <1>1, <1>2, <1>3 DEF DesignStep

\* The design's callbacks keep the invariant.
LEMMA DesignStepKeeps ==
  ASSUME SystemInv, DesignStep
  PROVE  SystemInv'
<1>1. /\ Next /\ UNCHANGED <<driver, cycle, writer, streaming, finishedCycle>>
      /\ Streamed' = Streamed /\ \A r \in Streamed : nodes'[r] = nodes[r]
      /\ IsFiniteSet(pendingNodes') /\ IsFiniteSet(pendingEdges')
  BY DesignStepFrame
<1>2. driver = "running"
  BY DEF DesignStep, SiteFires, SiteCaptures, SiteDepends, Cycling
<1>3. IInv'
  BY <1>1, GraphStep DEF SystemInv
<1>4. Following
  BY <1>2 DEF SystemInv
<1>5. Following'
  BY <1>1, <1>4 DEF Following
<1> QED BY <1>1, <1>2, <1>3, <1>5 DEF SystemInv

\* What the collector hands over at the end of a cycle.
LEMMA HandedOver ==
  ASSUME SystemInv, Cycling, FinishCycle(cycle)
  PROVE  /\ IInv' /\ driver = "running" /\ Following /\ Settled(cycle)
         /\ pendingNodes' = {} /\ pendingEdges' = {} /\ IsFiniteSet({})
         /\ finishedCycle' = cycle /\ streaming' = streaming /\ nodes' = nodes
         /\ Streamed' = Streamed \cup pendingNodes /\ Streamed \cap pendingNodes = {}
<1>1. driver = "running" /\ cycle \in Cycles
  BY StreamAssumption DEF Cycling, SystemInv
<1>2. Next
  BY <1>1 DEF Next, Query
<1>3. IInv'
  BY <1>2, GraphStep DEF SystemInv
<1>4. /\ pendingNodes' = {} /\ pendingEdges' = {} /\ finishedCycle' = cycle
      /\ streaming' = streaming /\ nodes' = nodes /\ Settled(cycle) /\ streaming
  BY DEF FinishCycle
<1>5. Keys' = Keys /\ pendingNodes \subseteq Keys
  BY <1>4 DEF Keys, SystemInv, IInv, ActivityIsRecorded
<1>6. Streamed' = Streamed \cup pendingNodes /\ Streamed \cap pendingNodes = {}
  BY <1>4, <1>5 DEF Streamed
<1>7. IsFiniteSet({})
  BY FS_EmptySet
<1> QED BY <1>1, <1>3, <1>4, <1>6, <1>7 DEF SystemInv

\* A batch the writer accepts is one it can encode.
LEMMA AcceptedIs ==
  ASSUME SystemInv, driver = "running", Settled(cycle), Accepts(writer, Batch(cycle))
  PROVE  LET v == Encode(writer, Batch(cycle))
         IN  /\ Sound(v) /\ v.watermark = cycle /\ ~ v.failed /\ ~ v.finished
             /\ DOMAIN v.known = Streamed \cup pendingNodes
             /\ \A r \in Streamed \cup pendingNodes : v.known[r].cycle = nodes[r].cycle
<1> DEFINE b == Batch(cycle)
           v == Encode(writer, b)
<1>1. /\ IInv /\ IsFiniteSet(pendingNodes) /\ IsFiniteSet(pendingEdges) /\ cycle \in Nat /\ Following
  BY DEF SystemInv
<1>2. ~ Circular(b) /\ ~ Collides(b)
  BY <1>1, AcceptsIs
<1>3. /\ BatchTyped(b) /\ b.cycle = cycle /\ DOMAIN b.nodes = pendingNodes
      /\ \A r \in pendingNodes : b.nodes[r] = nodes[r]
  BY <1>1, SettledBatch
<1> HIDE DEF b
<1>4. Sound(writer)
  BY <1>1 DEF Following
<1>5. /\ Sound(v) /\ v.watermark = b.cycle /\ v.failed = writer.failed /\ v.finished = writer.finished
      /\ Knows(v, writer, b, DOMAIN b.nodes)
  BY <1>2, <1>3, <1>4, EncodeIs
<1> HIDE DEF v
<1>6. /\ DOMAIN v.known = Streamed \cup pendingNodes
      /\ \A r \in Streamed \cup pendingNodes : v.known[r].cycle = nodes[r].cycle
  BY <1>1, <1>3, <1>5 DEF Knows, Following
<1>7. /\ Sound(v) /\ v.watermark = cycle /\ ~ v.failed /\ ~ v.finished
  BY <1>1, <1>3, <1>5 DEF Following
<1> QED BY <1>6, <1>7 DEF v, b

\* A cycle is finished and written.
LEMMA CycleWrittenStep ==
  ASSUME SystemInv, CycleWritten
  PROVE  SystemInv'
<1> DEFINE v == Encode(writer, Batch(cycle))
<1>1. /\ Cycling /\ FinishCycle(cycle) /\ Accepts(writer, Batch(cycle))
      /\ writer' = v /\ cycle' = cycle + 1 /\ driver' = driver
  BY DEF CycleWritten
<1>2. /\ IInv' /\ driver = "running" /\ Following /\ Settled(cycle)
      /\ pendingNodes' = {} /\ pendingEdges' = {} /\ IsFiniteSet({})
      /\ finishedCycle' = cycle /\ streaming' = streaming /\ nodes' = nodes
      /\ Streamed' = Streamed \cup pendingNodes
  BY <1>1, HandedOver
<1>3. /\ Sound(v) /\ v.watermark = cycle /\ ~ v.failed /\ ~ v.finished
      /\ DOMAIN v.known = Streamed \cup pendingNodes
      /\ \A r \in Streamed \cup pendingNodes : v.known[r].cycle = nodes[r].cycle
  BY <1>1, <1>2, AcceptedIs
<1> HIDE DEF v
<1>4. cycle' \in Nat /\ cycle = cycle' - 1
  BY <1>1 DEF SystemInv
<1>5. Following'
  BY <1>1, <1>2, <1>3, <1>4 DEF Following
<1>6. Importable(writer'.out)
  BY <1>1, <1>3, SoundIsImportable
<1> QED BY <1>1, <1>2, <1>4, <1>5, <1>6 DEF SystemInv

\* The steps that end the simulation.
LEMMA StoppingStep ==
  ASSUME SystemInv, CycleRefused \/ OutputFails \/ CloseTrace \/ CloseFails
  PROVE  SystemInv'
<1>0. driver = "running" /\ Sound(writer) /\ Importable(writer.out) /\ cycle' = cycle /\ cycle \in Nat
  BY DEF SystemInv, Following, CycleRefused, OutputFails, CloseTrace, CloseFails, Cycling
<1>1. DOMAIN writer = Fields /\ IsSeq(writer.out)
  BY <1>0 DEF Sound, Wellformed, Importable
<1>2. ASSUME IInv', IsFiniteSet(pendingNodes'), IsFiniteSet(pendingEdges'),
             driver' \in {"closed", "stopped"}, Importable(writer'.out)
      PROVE  SystemInv'
  BY <1>0, <1>2 DEF SystemInv
<1>3. CASE CycleRefused
  <2>1. IInv' /\ pendingNodes' = {} /\ pendingEdges' = {} /\ IsFiniteSet({})
    BY <1>3, HandedOver DEF CycleRefused
  <2> QED BY <1>0, <1>2, <1>3, <2>1 DEF CycleRefused
<1>4. CASE OutputFails
  <2>1. /\ IInv' /\ pendingNodes' = {} /\ pendingEdges' = {} /\ IsFiniteSet({}) /\ Settled(cycle)
    BY <1>4, HandedOver DEF OutputFails
  <2> DEFINE v == Encode(writer, Batch(cycle))
  <2>2. Sound(v)
    BY <1>0, <1>4, <2>1, AcceptedIs DEF OutputFails
  <2>3. writer' \in Poisoned(writer, v) /\ driver' = "stopped"
    BY <1>4 DEF OutputFails
  <2> HIDE DEF v
  <2>4. Importable(writer'.out)
    BY <1>1, <2>2, <2>3, SoundIsImportable, PoisonedIsImportable
  <2> QED BY <1>2, <2>1, <2>3, <2>4
<1>5. CASE CloseTrace \/ CloseFails
  <2>1. EndStream
    BY <1>5 DEF CloseTrace, CloseFails
  <2>2. IInv'
    BY <2>1, GraphStep DEF SystemInv, Next, Query
  <2>3. IsFiniteSet(pendingNodes') /\ IsFiniteSet(pendingEdges')
    BY <2>1 DEF EndStream, SystemInv
  <2> DEFINE v == Finish(writer)
  <2>4. Sound(v)
    BY <1>0, FinishIs
  <2>5. /\ writer' = v \/ writer' \in Poisoned(writer, v)
        /\ driver' \in {"closed", "stopped"}
    BY <1>5 DEF CloseTrace, CloseFails
  <2> HIDE DEF v
  <2>6. Importable(writer'.out)
    BY <1>1, <2>4, <2>5, SoundIsImportable, PoisonedIsImportable
  <2> QED BY <1>2, <2>2, <2>3, <2>5, <2>6
<1> QED BY <1>3, <1>4, <1>5

\* Steps that change nothing.
LEMMA SystemUnchanged ==
  ASSUME SystemInv, UNCHANGED systemVars
  PROVE  SystemInv'
<1>1. UNCHANGED <<nodes, edges, manifest, timing, started, epochActive, streaming,
                  finishedCycle, pendingNodes, pendingEdges, driver, cycle, writer>>
  BY DEF systemVars, vars
<1>2. UNCHANGED vars
  BY DEF systemVars
<1>3. IInv'
  BY <1>2, GraphStep DEF SystemInv
<1>4. Empty' = Empty /\ Streamed' = Streamed
  BY <1>1 DEF Empty, Keys, Streamed
<1>5. Following' = Following
  BY <1>1, <1>4 DEF Following
<1> QED BY <1>1, <1>3, <1>4, <1>5 DEF SystemInv

\* Every step of the simulation keeps the invariant.
LEMMA SystemStep == SystemInv /\ [SystemNext]_systemVars => SystemInv'
BY OpenTraceStep, SampleResetStep, LeaveResetStep, DesignStepKeeps, CycleWrittenStep, StoppingStep,
   SystemUnchanged
DEF SystemNext, DriverStep

\* The invariant holds throughout.
LEMMA SystemInductive == SystemSpec => []SystemInv
BY SystemStart, SystemStep, PTL DEF SystemSpec

\* The writer knows what has been streamed, and refuses a settled batch only
\* for circular lineage or two occurrences at one place of a shared track.
THEOREM StreamWriterFollowsGraph == SystemSpec => []WriterFollowsGraph
<1>1. SystemInv => WriterFollowsGraph
  <2> SUFFICES ASSUME SystemInv, Cycling
               PROVE  /\ DOMAIN writer.known = Streamed /\ writer.watermark = finishedCycle
                      /\ Settled(cycle) =>
                           (Accepts(writer, Batch(cycle)) <=>
                              ~ Circular(Batch(cycle)) /\ ~ Collides(Batch(cycle)))
    BY DEF WriterFollowsGraph
  <2>1. /\ IInv /\ IsFiniteSet(pendingNodes) /\ IsFiniteSet(pendingEdges) /\ cycle \in Nat
        /\ Following
    BY DEF SystemInv, Cycling
  <2>2. DOMAIN writer.known = Streamed /\ writer.watermark = finishedCycle
    BY <2>1 DEF Following
  <2>3. Settled(cycle) =>
          (Accepts(writer, Batch(cycle)) <=> ~ Circular(Batch(cycle)) /\ ~ Collides(Batch(cycle)))
    BY <2>1, AcceptsIs
  <2> QED BY <2>2, <2>3
<1> QED BY <1>1, SystemInductive, PTL

\* Whatever is written of a trace can be imported, also when the output failed
\* in the middle of a batch: strings are defined once and in time, and slices
\* nest on every track.
THEOREM StreamPrefixImportable == SystemSpec => []PrefixImportable
<1>1. SystemInv => PrefixImportable
  BY ImportableSuffices DEF SystemInv
<1> QED BY <1>1, SystemInductive, PTL

------------------------------------------------------------------------------
(* Replaying a live trace.                                                 *)

\* The largest cycle of a snapshot is the one its batch closes.
LEMMA SnapshotBatchIs ==
  ASSUME NEW N, NEW E, IsFiniteSet(DOMAIN N), IsFiniteSet(E), NEW k \in Nat,
         \A r \in DOMAIN N : /\ r \in (DOMAIN PayloadWidth) \X Nat
                             /\ N[r].cycle \in Nat /\ N[r].cycle <= k
  PROVE  LET a == SnapshotBatch(N, E)
         IN  BatchTyped(a) /\ a.nodes = N /\ a.edges = E /\ a.cycle \in Int
<1> DEFINE a == SnapshotBatch(N, E)
           cycles == {N[r].cycle : r \in DOMAIN N}
           top == CHOOSE m \in cycles : \A r \in DOMAIN N : N[r].cycle <= m
<1>1. a.nodes = N /\ a.edges = E
  BY DEF SnapshotBatch
<1>2. a.cycle = IF DOMAIN N = {} THEN 0 ELSE top
  BY DEF SnapshotBatch
<1> HIDE DEF a, top
<1>3. ASSUME DOMAIN N = {} PROVE a.cycle \in Int
  BY <1>2, <1>3
<1>4. ASSUME DOMAIN N # {} PROVE a.cycle \in Int
  <2> DEFINE gaps == {k - N[r].cycle : r \in DOMAIN N}
  <2>1. gaps \subseteq Nat /\ gaps # {}
    BY <1>4
  <2>2. PICK g \in gaps : \A y \in gaps : g <= y
    <3> HIDE DEF gaps
    <3> QED BY <2>1, LeastNumber
  <2>3. PICK q \in DOMAIN N : g = k - N[q].cycle
    BY <2>2
  <2>4. \A r \in DOMAIN N : N[r].cycle <= N[q].cycle
    <3> SUFFICES ASSUME NEW r \in DOMAIN N PROVE N[r].cycle <= N[q].cycle
      OBVIOUS
    <3>1. g <= k - N[r].cycle
      BY <2>2
    <3> QED BY <2>3, <3>1
  <2>5. \E m \in cycles : \A r \in DOMAIN N : N[r].cycle <= m
    BY <2>4
  <2>6. top \in cycles
    <3> HIDE DEF cycles
    <3> QED BY <2>5 DEF top
  <2>7. cycles \subseteq Int
    OBVIOUS
  <2> HIDE DEF cycles
  <2> QED BY <1>2, <1>4, <2>6, <2>7
<1>5. a.cycle \in Int
  BY <1>3, <1>4
<1>6. BatchTyped(a)
  BY <1>1 DEF BatchTyped
<1> QED BY <1>1, <1>5, <1>6 DEF a

\* What a replay at this moment would be given.
Snapshot == SnapshotBatch(WrittenNodes, WrittenEdges)

\* The batches so far make one batch the writer would accept, and the writer
\* is in the middle of its replay.
Mirroring ==
  /\ IsFiniteSet(DOMAIN writer.known) /\ IsFiniteSet(WrittenEdges)
  /\ ~ Circular(Snapshot) /\ ~ Collides(Snapshot)
  /\ Mirrors(writer, Snapshot)

\* The snapshot holds what has been streamed: occurrences of earlier cycles,
\* with all their parents.
LEMMA SnapshotIs ==
  ASSUME SystemInv, driver = "running", Mirroring
  PROVE  /\ BatchTyped(Snapshot) /\ Snapshot.cycle \in Int
         /\ DOMAIN Snapshot.nodes = Streamed
         /\ \A r \in Streamed : Snapshot.nodes[r] = nodes[r] /\ nodes[r].cycle < cycle
         /\ Snapshot.edges = WrittenEdges /\ WrittenEdges = StreamedEdges
         /\ \A e \in StreamedEdges : {e[1], e[2]} \subseteq Streamed
<1>1. /\ IInv /\ Following /\ cycle \in Nat /\ streaming /\ finishedCycle = cycle - 1
      /\ DOMAIN writer.known = Streamed
  BY DEF SystemInv, Following
<1>2. /\ \A r \in Streamed : ValidNode(r, nodes[r]) /\ nodes[r].cycle <= finishedCycle
      /\ \A e \in StreamedEdges : {e[1], e[2]} \subseteq Streamed
  BY <1>1 DEF IInv, StreamedIsValid
<1>3. ASSUME NEW r \in Streamed
      PROVE  /\ r \in (DOMAIN PayloadWidth) \X Nat /\ nodes[r].cycle \in Nat
             /\ nodes[r].cycle <= cycle /\ nodes[r].cycle < cycle
  <2>1. r \in Refs
    BY <1>1, StreamedIsSealed
  <2>2. r \in Sites \X Nat
    BY <2>1, SchemaAssumption
  <2>3. r[1] \in DOMAIN PayloadWidth
    BY <1>2 DEF ValidNode
  <2>4. nodes[r].cycle \in Nat
    BY <1>1, <2>1, CycleNumbers DEF IInv
  <2>5. nodes[r].cycle <= finishedCycle
    BY <1>2
  <2> QED BY <1>1, <2>2, <2>3, <2>4, <2>5
<1>4. WrittenEdges = StreamedEdges
  <2>1. \A e \in pendingEdges : e[2] \notin Streamed
    BY <1>1 DEF IInv, ActivityIsRecorded
  <2>2. StreamedEdges = edges \ pendingEdges /\ WrittenEdges = {e \in edges : e[2] \in Streamed}
    BY <1>1 DEF StreamedEdges, WrittenEdges
  <2> QED BY <1>2, <2>1, <2>2
<1> DEFINE N == WrittenNodes
           E == WrittenEdges
<1>5. DOMAIN N = Streamed /\ \A r \in Streamed : N[r] = nodes[r]
  BY <1>1 DEF WrittenNodes
<1>6. IsFiniteSet(DOMAIN N) /\ IsFiniteSet(E)
  BY <1>1, <1>5 DEF Mirroring
<1>7. Snapshot = SnapshotBatch(N, E)
  BY DEF Snapshot
<1> HIDE DEF N, E
<1>8. /\ BatchTyped(Snapshot) /\ Snapshot.nodes = N /\ Snapshot.edges = E /\ Snapshot.cycle \in Int
  BY <1>1, <1>3, <1>5, <1>6, <1>7, SnapshotBatchIs
<1> QED BY <1>2, <1>3, <1>4, <1>5, <1>8 DEF E

\* Ended now, the live trace has the packets of a replay.
LEMMA MirroringMatches ==
  ASSUME SystemInv, driver = "running", Mirroring
  PROVE  Finish(writer).out = Replay(WrittenNodes, WrittenEdges).out
<1>1. BatchTyped(Snapshot) /\ Snapshot.cycle \in Int
  BY SnapshotIs
<1>2. ~ Circular(Snapshot) /\ ~ Collides(Snapshot) /\ Mirrors(writer, Snapshot)
  BY DEF Mirroring
<1>3. writer.watermark \in Int /\ ~ writer.finished
  BY DEF SystemInv, Following
<1>4. Finish(writer).out = Finish(Encode(NewWriter, Snapshot)).out
  BY <1>1, <1>2, <1>3, MirrorsFinish
<1> QED BY <1>4 DEF Replay, Snapshot

\* Before the first cycle there is nothing to replay.
LEMMA LeaveResetMirrors ==
  ASSUME SystemInv, LeaveReset
  PROVE  Mirroring'
<1>1. /\ writer' = NewWriter /\ edges = {} /\ edges' = edges
  BY DEF LeaveReset, SystemInv, Empty, vars
<1>2. DOMAIN writer'.known = {}
  BY <1>1, NewWriterIs
<1> DEFINE N == WrittenNodes'
           E == WrittenEdges'
           a == SnapshotBatch(N, E)
<1>3. DOMAIN N = {} /\ E = {}
  BY <1>1, <1>2 DEF WrittenNodes, WrittenEdges
<1>4. a.nodes = N /\ a.edges = E
  BY DEF SnapshotBatch
<1>5. Snapshot' = a
  BY DEF Snapshot
<1>6. IsFiniteSet({})
  BY FS_EmptySet
<1> HIDE DEF a
<1>7. Mirrors(NewWriter, a) /\ ~ Circular(a) /\ ~ Collides(a)
  BY <1>3, <1>4, MirrorsStart
<1> QED BY <1>1, <1>2, <1>3, <1>5, <1>6, <1>7 DEF Mirroring

\* A step that changes neither the writer nor what it has been given.
LEMMA MirroringFrame ==
  ASSUME Mirroring, writer' = writer, WrittenNodes' = WrittenNodes, WrittenEdges' = WrittenEdges
  PROVE  Mirroring'
<1>1. Snapshot' = Snapshot
  BY DEF Snapshot
<1> QED BY <1>1 DEF Mirroring

\* The design's callbacks do not change the snapshot.
LEMMA DesignStepMirrors ==
  ASSUME SystemInv, Mirroring, DesignStep
  PROVE  Mirroring'
<1>1. writer' = writer /\ \A r \in Streamed : nodes'[r] = nodes[r]
  BY DesignStepFrame
<1>2. IInv /\ DOMAIN writer.known = Streamed
  BY DEF DesignStep, SiteFires, SiteCaptures, SiteDepends, Cycling, SystemInv, Following
<1>3. WrittenNodes' = WrittenNodes
  BY <1>1, <1>2 DEF WrittenNodes
<1>4. edges' = edges \/ \E e \in EdgeInputs : edges' = edges \cup {e} /\ ~ Sealed(e[2])
  <2>1. CASE SiteFires
    BY <2>1 DEF SiteFires, RecordNode
  <2>2. CASE SiteCaptures
    BY <2>2 DEF SiteCaptures, RecordPayload
  <2>3. CASE SiteDepends
    BY <2>3 DEF SiteDepends, RecordEdge
  <2> QED BY <2>1, <2>2, <2>3 DEF DesignStep
<1>5. WrittenEdges' = WrittenEdges
  <2>1. \A q \in Streamed : Sealed(q)
    BY <1>2, StreamedIsSealed
  <2>2. /\ WrittenEdges = {e \in edges : e[2] \in Streamed}
        /\ WrittenEdges' = {e \in edges' : e[2] \in Streamed}
    BY <1>1, <1>2 DEF WrittenEdges
  <2> QED BY <1>4, <2>1, <2>2
<1> QED BY <1>1, <1>3, <1>5, MirroringFrame

\* With each batch the snapshot grows by it, and the writer goes on mirroring.
LEMMA CycleWrittenMirrors ==
  ASSUME SystemInv, Mirroring, CycleWritten
  PROVE  Mirroring'
<1> DEFINE a == Snapshot
           b == Batch(cycle)
           c == Snapshot'
           v == Encode(writer, b)
<1>1. /\ Cycling /\ FinishCycle(cycle) /\ Accepts(writer, b) /\ writer' = v
  BY DEF CycleWritten
<1>2. /\ driver = "running" /\ Following /\ Settled(cycle) /\ nodes' = nodes /\ edges' = edges
      /\ Streamed \cap pendingNodes = {}
  BY <1>1, HandedOver DEF FinishCycle
<1>3. /\ IInv /\ IsFiniteSet(pendingNodes) /\ IsFiniteSet(pendingEdges) /\ cycle \in Nat
      /\ streaming /\ finishedCycle = cycle - 1 /\ writer.watermark = cycle - 1
      /\ DOMAIN writer.known = Streamed /\ pendingEdges \subseteq edges
  BY <1>2 DEF SystemInv, Following, IInv, ActivityIsRecorded
<1>4. /\ BatchTyped(a) /\ DOMAIN a.nodes = Streamed
      /\ \A r \in Streamed : a.nodes[r] = nodes[r] /\ nodes[r].cycle < cycle
      /\ a.edges = WrittenEdges /\ WrittenEdges = StreamedEdges
      /\ \A e \in StreamedEdges : {e[1], e[2]} \subseteq Streamed
  BY <1>2, SnapshotIs
<1>5. /\ BatchTyped(b) /\ b.cycle = cycle /\ DOMAIN b.nodes = pendingNodes /\ b.edges = pendingEdges
      /\ \A r \in pendingNodes : b.nodes[r] = nodes[r]
  BY <1>2, <1>3, SettledBatch
<1>6. ~ Circular(b) /\ ~ Collides(b)
  BY <1>1, <1>2, <1>3, AcceptsIs
<1>7. DOMAIN v.known = Streamed \cup pendingNodes
  BY <1>1, <1>2, AcceptedIs
<1>8. /\ ~ Circular(a) /\ ~ Collides(a) /\ Mirrors(writer, a)
      /\ IsFiniteSet(Streamed) /\ IsFiniteSet(WrittenEdges)
  BY <1>3 DEF Mirroring
<1> HIDE DEF a, b, v
<1>9. ASSUME NEW r \in pendingNodes PROVE nodes[r].cycle = cycle
  <2>1. nodes[r].cycle \in (finishedCycle + 1) .. cycle
    BY <1>2 DEF Settled
  <2> QED BY <1>3, <2>1
<1> DEFINE N == WrittenNodes'
           E == WrittenEdges'
<1>10. DOMAIN N = Streamed \cup pendingNodes /\ \A r \in DOMAIN N : N[r] = nodes[r]
  BY <1>1, <1>2, <1>7 DEF WrittenNodes
<1>11. E = WrittenEdges \cup pendingEdges
  <2>1. E = {e \in edges : e[2] \in Streamed \cup pendingNodes}
    BY <1>1, <1>2, <1>7 DEF WrittenEdges
  <2>2. WrittenEdges = {e \in edges : e[2] \in Streamed}
    BY <1>3 DEF WrittenEdges
  <2>3. ASSUME NEW e \in edges, e[2] \in pendingNodes PROVE e \in pendingEdges
    <3>1. CASE e \in StreamedEdges
      BY <1>2, <1>4, <2>3, <3>1
    <3>2. CASE e \notin StreamedEdges
      BY <1>3, <3>2 DEF StreamedEdges
    <3> QED BY <3>1, <3>2
  <2>4. \A e \in pendingEdges : e \in edges /\ e[2] \in pendingNodes
    BY <1>2, <1>3 DEF Settled
  <2> HIDE DEF E
  <2> QED BY <2>1, <2>2, <2>3, <2>4
<1>12. c = SnapshotBatch(N, E)
  BY DEF Snapshot
<1>13. c.nodes = N /\ c.edges = E
  <2> HIDE DEF c, N, E
  <2> QED BY <1>12 DEF SnapshotBatch
<1> HIDE DEF c, N, E
<1>14. Follows(a, b, c, cycle)
  <2>1. /\ DOMAIN c.nodes = DOMAIN a.nodes \cup DOMAIN b.nodes
        /\ \A r \in DOMAIN a.nodes : c.nodes[r] = a.nodes[r]
        /\ \A r \in DOMAIN b.nodes : c.nodes[r] = b.nodes[r]
        /\ c.edges = a.edges \cup b.edges
    BY <1>4, <1>5, <1>10, <1>11, <1>13
  <2>2. /\ \A r \in DOMAIN a.nodes : a.nodes[r].cycle < cycle
        /\ \A r \in DOMAIN b.nodes : b.nodes[r].cycle = cycle
        /\ DOMAIN a.nodes \cap DOMAIN b.nodes = {}
    BY <1>2, <1>4, <1>5, <1>9
  <2>3. /\ \A e \in a.edges : {e[1], e[2]} \subseteq DOMAIN a.nodes
        /\ \A e \in b.edges : e[2] \in DOMAIN b.nodes
    BY <1>2, <1>4, <1>5 DEF Settled
  <2> QED BY <1>3, <1>4, <1>5, <1>6, <1>8, <2>1, <2>2, <2>3 DEF Follows
<1>15. ~ Circular(c) /\ ~ Collides(c)
  BY <1>14, FollowsIs
<1>16. Mirrors(v, c)
  <2>1. writer.watermark \in Int /\ writer.watermark < cycle
    BY <1>3
  <2> QED BY <1>5, <1>8, <1>14, <2>1, MirrorsStep DEF v
<1>17. IsFiniteSet(Streamed \cup pendingNodes) /\ IsFiniteSet(E)
  BY <1>3, <1>8, <1>11, FS_Union
<1>18. IsFiniteSet(DOMAIN writer'.known) /\ IsFiniteSet(WrittenEdges') /\ Mirrors(writer', c)
  BY <1>1, <1>7, <1>16, <1>17 DEF E
<1> QED BY <1>15, <1>18 DEF Mirroring, c

\* When the trace is closed it has become the replay.
LEMMA CloseTraceMatches ==
  ASSUME SystemInv, Mirroring, CloseTrace
  PROVE  ReplayMatchesLive'
<1> DEFINE v == Finish(writer)
<1>1. /\ driver = "running" /\ writer' = v /\ nodes' = nodes /\ edges' = edges
  BY DEF CloseTrace, EndStream
<1>2. v.out = Replay(WrittenNodes, WrittenEdges).out
  BY <1>1, MirroringMatches
<1>3. Sound(writer) /\ ~ writer.finished
  BY <1>1 DEF SystemInv, Following
<1> DEFINE z == CloseStalls(writer, DOMAIN writer.stalls)
<1>4. z.known = writer.known /\ Sound(z)
  BY <1>3, CloseStallsIs
<1>5. v = [z EXCEPT !.finished = TRUE]
  BY <1>3 DEF Finish
<1> HIDE DEF v, z
<1>6. v.finished = TRUE /\ v.known = writer.known
  BY <1>4, <1>5 DEF Sound, Wellformed, Fields
<1>7. Finish(v) = v
  BY <1>6 DEF Finish
<1>8. WrittenNodes' = WrittenNodes /\ WrittenEdges' = WrittenEdges
  BY <1>1, <1>6 DEF WrittenNodes, WrittenEdges
<1>9. (Finish(writer).out)' = Finish(writer').out
  OBVIOUS
<1>10. (Replay(WrittenNodes, WrittenEdges).out)' = Replay(WrittenNodes', WrittenEdges').out
  OBVIOUS
<1> QED BY <1>1, <1>2, <1>7, <1>8, <1>9, <1>10 DEF ReplayMatchesLive

\* The writer of a trace under way mirrors a replay; that of a closed trace
\* has written one.
ReplayInv ==
  /\ SystemInv
  /\ driver = "running" => Mirroring
  /\ driver = "closed" => ReplayMatchesLive

\* Before the trace is opened.
LEMMA ReplayStart == SystemInit => ReplayInv
BY SystemStart DEF SystemInit, ReplayInv

\* Every step of the simulation keeps the writer in the replay.
LEMMA ReplayStep == ReplayInv /\ [SystemNext]_systemVars => ReplayInv'
<1> SUFFICES ASSUME ReplayInv, [SystemNext]_systemVars PROVE ReplayInv'
  OBVIOUS
<1>1. SystemInv /\ SystemInv'
  BY SystemStep DEF ReplayInv
<1>2. CASE DesignStep
  <2>1. driver = "running" /\ driver' = driver
    BY <1>2 DEF DesignStep, SiteFires, SiteCaptures, SiteDepends, Cycling
  <2> QED BY <1>1, <1>2, <2>1, DesignStepMirrors DEF ReplayInv
<1>3. CASE OpenTrace \/ SampleReset \/ CycleRefused \/ OutputFails \/ CloseFails
  <2>1. driver' \in {"reset", "stopped"}
    BY <1>3 DEF OpenTrace, SampleReset, CycleRefused, OutputFails, CloseFails
  <2> QED BY <1>1, <2>1 DEF ReplayInv
<1>4. CASE LeaveReset
  <2>1. driver' = "running"
    BY <1>4 DEF LeaveReset
  <2> QED BY <1>1, <1>4, <2>1, LeaveResetMirrors DEF ReplayInv
<1>5. CASE CycleWritten
  <2>1. driver = "running" /\ driver' = driver
    BY <1>5 DEF CycleWritten, Cycling
  <2> QED BY <1>1, <1>5, <2>1, CycleWrittenMirrors DEF ReplayInv
<1>6. CASE CloseTrace
  <2>1. driver = "running" /\ driver' = "closed"
    BY <1>6 DEF CloseTrace
  <2> QED BY <1>1, <1>6, <2>1, CloseTraceMatches DEF ReplayInv
<1>7. CASE UNCHANGED systemVars
  <2>1. driver' = driver /\ writer' = writer /\ nodes' = nodes /\ edges' = edges
    BY <1>7 DEF systemVars, vars
  <2>2. WrittenNodes' = WrittenNodes /\ WrittenEdges' = WrittenEdges
    BY <2>1 DEF WrittenNodes, WrittenEdges
  <2>3. Mirroring => Mirroring'
    BY <2>1, <2>2, MirroringFrame
  <2>4. ReplayMatchesLive => ReplayMatchesLive'
    BY <2>1, <2>2 DEF ReplayMatchesLive, Intact
  <2> QED BY <1>1, <2>1, <2>3, <2>4 DEF ReplayInv
<1> QED BY <1>2, <1>3, <1>4, <1>5, <1>6, <1>7 DEF SystemNext, DriverStep

\* Streaming and replay use identical ordering and encoding: however the
\* occurrences are divided into batches, the packets written cycle by cycle
\* are those of one replay of the snapshot.
THEOREM StreamReplayMatchesLive == SystemSpec => []ReplayMatchesLive
<1>1. SystemSpec => []ReplayInv
  BY ReplayStart, ReplayStep, PTL DEF SystemSpec
<1>2. ReplayInv => ReplayMatchesLive
  BY MirroringMatches DEF ReplayInv, ReplayMatchesLive, Intact
<1> QED BY <1>1, <1>2, PTL

------------------------------------------------------------------------------
(* The order of a replay.                                                  *)

\* Batches with all parents in them, as a snapshot is.
Whole(b) ==
  /\ BatchTyped(b) /\ ~ Circular(b) /\ ~ Collides(b)
  /\ \A e \in b.edges :
       /\ e[1] \in DOMAIN b.nodes /\ e[2] \in DOMAIN b.nodes
       /\ <<e[1][1], e[2][1]>> \in Dependencies
       /\ b.nodes[e[1]].cycle <= b.nodes[e[2]].cycle

\* References and cycles of a whole batch.
LEMMA WholeIs ==
  ASSUME NEW b, Whole(b)
  PROVE  /\ \A r \in DOMAIN b.nodes :
              r = <<r[1], r[2]>> /\ r[1] \in Nat /\ r[2] \in Nat /\ b.nodes[r].cycle \in Nat
         /\ \A r : \A p \in Parents(b, r) :
              /\ p \in DOMAIN b.nodes /\ r \in DOMAIN b.nodes
              /\ b.nodes[p].cycle <= b.nodes[r].cycle
              /\ CanParent(p[1]) /\ ~ IsStall(p[1])
<1>1. ASSUME NEW r \in DOMAIN b.nodes
      PROVE  r = <<r[1], r[2]>> /\ r[1] \in Nat /\ r[2] \in Nat /\ b.nodes[r].cycle \in Nat
  <2>1. r \in (DOMAIN PayloadWidth) \X Nat /\ b.nodes[r].cycle \in Nat
    BY DEF Whole, BatchTyped
  <2>2. DOMAIN PayloadWidth \subseteq Nat
    BY SchemaAssumption
  <2> QED BY <2>1, <2>2
<1>2. ASSUME NEW r, NEW p \in Parents(b, r)
      PROVE  /\ p \in DOMAIN b.nodes /\ r \in DOMAIN b.nodes
             /\ b.nodes[p].cycle <= b.nodes[r].cycle
             /\ CanParent(p[1]) /\ ~ IsStall(p[1])
  <2>1. PICK e \in b.edges : e[2] = r /\ e[1] = p
    BY DEF Parents
  <2>2. /\ p \in DOMAIN b.nodes /\ r \in DOMAIN b.nodes /\ <<p[1], r[1]>> \in Dependencies
        /\ b.nodes[p].cycle <= b.nodes[r].cycle
    BY <2>1 DEF Whole
  <2>3. CanParent(p[1])
    BY <2>2 DEF CanParent
  <2>4. ~ IsStall(p[1])
    BY <2>2, WriterAssumption DEF IsStall
  <2> QED BY <2>2, <2>3, <2>4
<1> QED BY <1>1, <1>2

\* Of a part of the batch in which no lineage goes round, what is ready first
\* is of the least cycle.
LEMMA ReadyIsLeast ==
  ASSUME NEW b, Whole(b), NEW left, left \subseteq DOMAIN b.nodes, left # {},
         NEW ready, ready = {r \in left : Parents(b, r) \cap left = {}}
  PROVE  /\ ready # {} /\ Earliest(b, ready) \in ready
         /\ \A q \in left : b.nodes[Earliest(b, ready)].cycle <= b.nodes[q].cycle
<1> DEFINE at(r) == b.nodes[r].cycle
           m == Earliest(b, ready)
<1>0. \A r \in left : at(r) \in Nat
  BY WholeIs
<1>1. PICK c \in {at(r) : r \in left} : \A d \in {at(r) : r \in left} : c <= d
  <2> HIDE DEF at
  <2> DEFINE C == {at(r) : r \in left}
  <2>1. C \subseteq Nat /\ C # {}
    BY <1>0
  <2> HIDE DEF C
  <2>2. \E c \in C : \A d \in C : c <= d
    BY <2>1, LeastNumber
  <2> QED BY <2>2 DEF C
<1> DEFINE S == {r \in left : at(r) = c}
<1>2. PICK x \in S : Parents(b, x) \cap S = {}
  <2>1. S # {} /\ S \in SUBSET DOMAIN b.nodes
    BY <1>1
  <2>2. ~ Circular(b)
    BY DEF Whole
  <2> HIDE DEF S
  <2> QED BY <2>1, <2>2 DEF Circular
<1>3. Parents(b, x) \cap left = {}
  <2> SUFFICES ASSUME NEW p \in Parents(b, x), p \in left PROVE FALSE
    OBVIOUS
  <2>1. at(p) <= at(x)
    BY WholeIs
  <2>2. c <= at(p) /\ at(x) = c /\ at(p) \in Nat /\ at(x) \in Nat
    BY <1>0, <1>1, <1>2
  <2>3. at(p) = c
    BY <2>1, <2>2
  <2> QED BY <1>2, <2>3
<1>4. x \in ready
  BY <1>2, <1>3
<1>5. m \in ready /\ \A s \in ready \ {m} : Earlier(b, m, s)
  <2>1. ready \subseteq DOMAIN b.nodes /\ ready # {} /\ BatchTyped(b)
    BY <1>4 DEF Whole
  <2> HIDE DEF S, m
  <2> QED BY <2>1, EarliestIs DEF m
<1>6. at(m) <= c
  <2>1. at(m) <= at(x)
    <3>1. CASE x = m
      BY <1>0, <1>2, <3>1
    <3>2. CASE x # m
      <4>1. Earlier(b, m, x) /\ at(m) \in Nat /\ at(x) \in Nat
        BY <1>0, <1>4, <1>5, <3>2
      <4> HIDE DEF m
      <4> QED BY <4>1 DEF Earlier
    <3> QED BY <3>1, <3>2
  <2> QED BY <1>2, <2>1
<1>7. ASSUME NEW q \in left PROVE at(m) <= at(q)
  <2>1. c <= at(q) /\ at(m) \in Nat /\ at(q) \in Nat /\ c \in Nat
    BY <1>0, <1>1, <1>5
  <2> HIDE DEF m, at
  <2> QED BY <1>6, <2>1
<1> QED BY <1>4, <1>5, <1>7

\* An occurrence whose turn it is when those of R have been encoded.
Due(b, R, r) ==
  /\ R \subseteq DOMAIN b.nodes /\ IsFiniteSet(R) /\ r \in DOMAIN b.nodes \ R
  /\ Parents(b, r) \subseteq R /\ \A q \in R : Parents(b, q) \subseteq R
  /\ \A q \in R : b.nodes[q].cycle <= b.nodes[r].cycle
  /\ \A q \in DOMAIN b.nodes \ R : b.nodes[r].cycle <= b.nodes[q].cycle

\* The loop of the order grows a prefix of the order.
LEMMA PlacedPrefix ==
  ASSUME NEW b, Whole(b), NEW n, n = Cardinality(DOMAIN b.nodes), NEW f, PlacingLoop(f, b, n)
  PROVE  \A i \in 0 .. n : Len(f[i]) = i /\ \A x \in 1 .. i : f[i][x] = Order(b)[x]
<1>0. n \in Nat /\ BatchTyped(b) /\ IsFiniteSet(DOMAIN b.nodes)
  BY FS_CardinalityType DEF Whole, BatchTyped
<1>1. ASSUME NEW i \in 0 .. n PROVE Len(f[i]) = i /\ f[i] \in Seq(DOMAIN b.nodes)
  <2>1. Placement(b, f[i], i) /\ i \in Nat
    BY DEF PlacingLoop
  <2>2. f[i] \in Seq(DOMAIN b.nodes) /\ Len(f[i]) \in Nat /\ Len(f[i]) <= i
    BY <2>1 DEF Placement
  <2>3. ASSUME Len(f[i]) < i PROVE FALSE
    <3> DEFINE left == DOMAIN b.nodes \ ToSet(f[i])
    <3>1. \A r \in left : Parents(b, r) \cap left # {}
      BY <2>1, <2>3 DEF Placement
    <3>2. left # {}
      <4>1. /\ ToSet(f[i]) \subseteq DOMAIN b.nodes /\ Cardinality(ToSet(f[i])) = Len(f[i])
        BY <2>1, PlacementSize
      <4>2. Cardinality(ToSet(f[i])) < n
        BY <1>0, <2>1, <2>2, <2>3, <4>1
      <4>3. ToSet(f[i]) # DOMAIN b.nodes
        BY <1>0, <4>2
      <4> QED BY <4>1, <4>3
    <3>3. left \in SUBSET DOMAIN b.nodes /\ ~ Circular(b)
      BY DEF Whole
    <3> HIDE DEF left
    <3> QED BY <3>1, <3>2, <3>3 DEF Circular
  <2> QED BY <2>1, <2>2, <2>3
<1>2. ASSUME NEW i \in 0 .. n - 1 PROVE \A x \in 1 .. i : f[i + 1][x] = f[i][x]
  <2>1. f[i + 1] = PlaceNext(b, f[i]) /\ i \in 0 .. n /\ i \in Nat
    BY <1>0 DEF PlacingLoop
  <2> DEFINE left == DOMAIN b.nodes \ ToSet(f[i])
             ready == {r \in left : Parents(b, r) \cap left = {}}
             m == Earliest(b, ready)
  <2>2. f[i + 1] = f[i] \/ f[i + 1] = Append(f[i], m)
    BY <2>1 DEF PlaceNext
  <2> HIDE DEF m
  <2>3. Len(f[i]) = i /\ IsSeq(f[i])
    BY <1>1, <2>1 DEF IsSeq
  <2>4. \A x \in 1 .. i : Append(f[i], m)[x] = f[i][x]
    BY <2>3, AppendIs
  <2> QED BY <2>2, <2>4
<1> DEFINE S == {j \in Nat : j <= n => \A x \in 1 .. n - j : f[n - j][x] = Order(b)[x]}
<1>3. 0 \in S
  BY <1>0 DEF PlacingLoop
<1>4. ASSUME NEW j \in 0 .. n - 1, j \in S PROVE j + 1 \in S
  <2> DEFINE i == n - (j + 1)
  <2>1. i \in 0 .. n - 1 /\ i + 1 = n - j /\ j <= n /\ j + 1 \in Nat
    BY <1>0
  <2>2. \A x \in 1 .. i + 1 : f[i + 1][x] = Order(b)[x]
    BY <1>4, <2>1
  <2> HIDE DEF i
  <2>3. \A x \in 1 .. i : f[i][x] = Order(b)[x]
    BY <1>2, <2>1, <2>2
  <2> QED BY <2>1, <2>3 DEF i
<1>5. \A j \in 0 .. n : j \in S
  <2> HIDE DEF S
  <2> QED BY <1>0, <1>3, <1>4, UpToBound
<1>6. ASSUME NEW i \in 0 .. n PROVE \A x \in 1 .. i : f[i][x] = Order(b)[x]
  <2>1. n - i \in 0 .. n /\ n - (n - i) = i /\ n - i <= n
    BY <1>0
  <2> QED BY <1>5, <2>1
<1> QED BY <1>1, <1>6

\* The order goes by cycle, and parents come first.
LEMMA OrderIsDue ==
  ASSUME NEW b, Whole(b), NEW i \in 0 .. Len(Order(b)) - 1
  PROVE  Due(b, {Order(b)[j] : j \in 1 .. i}, Order(b)[i + 1])
<1> DEFINE order == Order(b)
           n == Cardinality(DOMAIN b.nodes)
<1>0. order = Order(b) /\ n = Cardinality(DOMAIN b.nodes)
  OBVIOUS
<1>1. /\ BatchTyped(b) /\ order \in Seq(DOMAIN b.nodes) /\ Len(order) = n
      /\ n \in Nat /\ \E f : PlacingLoop(f, b, n)
  BY OrderIsComplete, OrderLoop DEF Whole
<1> HIDE DEF order, n
<1>2. PICK f : PlacingLoop(f, b, n)
  BY <1>1
<1>3. \A j \in 0 .. n : Len(f[j]) = j /\ \A x \in 1 .. j : f[j][x] = order[x]
  BY <1>0, <1>2, PlacedPrefix
<1> DEFINE R(k) == {order[j] : j \in 1 .. k}
<1>4. ASSUME NEW k \in 0 .. n - 1
      PROVE  /\ R(k) \subseteq DOMAIN b.nodes /\ IsFiniteSet(R(k))
             /\ order[k + 1] \in DOMAIN b.nodes \ R(k)
             /\ Parents(b, order[k + 1]) \cap (DOMAIN b.nodes \ R(k)) = {}
             /\ \A q \in DOMAIN b.nodes \ R(k) : b.nodes[order[k + 1]].cycle <= b.nodes[q].cycle
  <2> DEFINE left == DOMAIN b.nodes \ ToSet(f[k])
             ready == {r \in left : Parents(b, r) \cap left = {}}
             m == Earliest(b, ready)
  <2>1. /\ k \in Nat /\ k \in 0 .. n /\ k + 1 \in 0 .. n /\ k + 1 \in 1 .. k + 1
        /\ f[k + 1] = PlaceNext(b, f[k]) /\ Placement(b, f[k], k)
    <3>1. k \in Nat /\ k \in 0 .. n /\ k + 1 \in 0 .. n /\ k + 1 \in 1 .. k + 1
      BY <1>1
    <3> QED BY <1>2, <3>1 DEF PlacingLoop
  <2>2. ToSet(f[k]) = R(k) /\ R(k) \subseteq DOMAIN b.nodes /\ IsFiniteSet(R(k))
    <3>1. /\ ToSet(f[k]) \subseteq DOMAIN b.nodes /\ IsFiniteSet(ToSet(f[k]))
          /\ ToSet(f[k]) = {f[k][j] : j \in 1 .. Len(f[k])} /\ Len(f[k]) = k
      BY <1>3, <2>1, PlacementSize
    <3>2. {f[k][j] : j \in 1 .. k} = R(k)
      BY <1>3, <2>1
    <3> HIDE DEF R
    <3> QED BY <3>1, <3>2
  <2> HIDE DEF R
  <2>3. f[k + 1] = IF ready = {} THEN f[k] ELSE Append(f[k], m)
    BY <2>1 DEF PlaceNext
  <2>4. f[k + 1] = Append(f[k], m)
    <3>1. Len(f[k + 1]) # Len(f[k])
      BY <1>3, <2>1
    <3> HIDE DEF ready, m
    <3> QED BY <2>3, <3>1
  <2>5. order[k + 1] = m
    <3>1. IsSeq(f[k]) /\ Len(f[k]) = k
      BY <1>3, <2>1 DEF Placement, IsSeq
    <3>2. Append(f[k], m)[k + 1] = m
      <4> HIDE DEF m
      <4> QED BY <3>1, AppendIs
    <3>3. f[k + 1][k + 1] = order[k + 1]
      BY <1>3, <2>1
    <3> QED BY <2>4, <3>2, <3>3
  <2>6. left # {}
    <3>1. Cardinality(ToSet(f[k])) = Len(f[k]) /\ Len(f[k]) = k
      BY <1>3, <2>1, PlacementSize
    <3>2. k # n
      BY <1>1
    <3>3. ToSet(f[k]) # DOMAIN b.nodes
      BY <3>1, <3>2 DEF n
    <3> QED BY <2>2, <3>3
  <2>7. /\ m \in ready /\ \A q \in left : b.nodes[m].cycle <= b.nodes[q].cycle
    <3>1. left \subseteq DOMAIN b.nodes
      OBVIOUS
    <3> DEFINE rd == ready
    <3>2. rd = {r \in left : Parents(b, r) \cap left = {}}
      OBVIOUS
    <3> HIDE DEF left, ready, m
    <3> QED BY <2>6, <3>1, <3>2, ReadyIsLeast DEF m
  <2> QED BY <2>2, <2>5, <2>7
<1>5. ASSUME NEW q \in R(i)
      PROVE  b.nodes[q].cycle <= b.nodes[order[i + 1]].cycle /\ Parents(b, q) \subseteq R(i)
  <2>1. PICK j \in 1 .. i : q = order[j]
    BY <1>5
  <2>2. /\ j - 1 \in 0 .. n - 1 /\ (j - 1) + 1 = j /\ i \in 0 .. n - 1
        /\ \A x \in 1 .. j - 1 : x \in 1 .. i
    BY <1>0, <1>1
  <2>3. R(j - 1) \subseteq R(i)
    BY <2>2
  <2>4. order[i + 1] \in DOMAIN b.nodes \ R(j - 1)
    BY <1>4, <2>2, <2>3
  <2>5. Parents(b, q) \subseteq DOMAIN b.nodes
    BY WholeIs
  <2> HIDE DEF R
  <2> QED BY <1>4, <2>1, <2>2, <2>3, <2>4, <2>5
<1>6. i \in 0 .. n - 1
  BY <1>0, <1>1
<1>7. Parents(b, order[i + 1]) \subseteq R(i)
  <2>1. Parents(b, order[i + 1]) \subseteq DOMAIN b.nodes
    BY WholeIs
  <2> HIDE DEF R
  <2> QED BY <1>4, <1>6, <2>1
<1>8. Due(b, R(i), order[i + 1])
  <2> HIDE DEF R
  <2> QED BY <1>4, <1>5, <1>6, <1>7 DEF Due
<1> QED BY <1>8 DEF order

\* The parents of an occurrence, in the order in which they are visited, are
\* all its parents.
LEMMA NthParentIs ==
  ASSUME NEW b, Whole(b), NEW r, NEW n, n = Cardinality(Parents(b, r))
  PROVE  /\ n \in Nat
         /\ \A i \in 1 .. n : NthParent(b, r, i) \in Parents(b, r)
         /\ \A p \in Parents(b, r) : \E i \in 1 .. n : NthParent(b, r, i) = p
<1> DEFINE P == Parents(b, r)
           low(p) == {q \in P : Before(q, p)}
           rank(p) == Cardinality(low(p))
<1>0. P = Parents(b, r) /\ IsFiniteSet(P) /\ n \in Nat /\ n = Cardinality(P)
  BY ParentsFinite DEF Whole
<1>1. \A p \in P : p = <<p[1], p[2]>> /\ p[1] \in Nat /\ p[2] \in Nat
  BY WholeIs
<1>2. \A i : NthParent(b, r, i) = CHOOSE p \in P : rank(p) = i - 1
  BY DEF NthParent
<1> HIDE DEF P
<1>3. \A p, q \in P : p # q => Before(p, q) \/ Before(q, p)
  <2> SUFFICES ASSUME NEW p \in P, NEW q \in P, ~ Before(p, q), ~ Before(q, p) PROVE p = q
    OBVIOUS
  <2>1. p[1] = q[1] /\ p[2] = q[2]
    BY <1>1 DEF Before
  <2> QED BY <1>1, <2>1
<1>4. \A p \in P : ~ Before(p, p)
  BY <1>1 DEF Before
<1>5. \A p, q, s \in P : Before(p, q) /\ Before(q, s) => Before(p, s)
  BY <1>1 DEF Before
<1>6. ASSUME NEW p \in P PROVE IsFiniteSet(low(p)) /\ rank(p) \in 0 .. n - 1
  <2>1. low(p) \subseteq P \ {p}
    BY <1>4
  <2>2. IsFiniteSet(P \ {p}) /\ Cardinality(P \ {p}) = n - 1
    BY <1>0, FS_RemoveElement
  <2> HIDE DEF low
  <2>3. IsFiniteSet(low(p)) /\ Cardinality(low(p)) <= n - 1 /\ Cardinality(low(p)) \in Nat
    BY <2>1, <2>2, FS_Subset, FS_CardinalityType
  <2> QED BY <1>0, <2>3
<1>7. ASSUME NEW p \in P, NEW q \in P, Before(p, q) PROVE rank(p) # rank(q)
  <2>1. low(p) \subseteq low(q) /\ p \in low(q) /\ p \notin low(p)
    BY <1>4, <1>5, <1>7
  <2>2. IsFiniteSet(low(q))
    BY <1>6
  <2> HIDE DEF low
  <2>3. low(p) # low(q)
    BY <2>1
  <2>4. Cardinality(low(q)) # Cardinality(low(p))
    BY <2>1, <2>2, <2>3, FS_Subset
  <2> QED BY <2>4
<1>8. \A p, q \in P : rank(p) = rank(q) => p = q
  BY <1>3, <1>7
<1> HIDE DEF rank
<1> DEFINE f == [p \in P |-> rank(p)]
           D == 0 .. n - 1
<1>9. f \in Injection(P, D)
  BY <1>6, <1>8 DEF Injection, IsInjective
<1>10. IsFiniteSet(D) /\ Cardinality(D) = n
  <2>1. 0 \in Int /\ n - 1 \in Int
    BY <1>0
  <2>2. IsFiniteSet(0 .. n - 1) /\ Cardinality(0 .. n - 1) = IF 0 > n - 1 THEN 0 ELSE (n - 1) - 0 + 1
    BY <2>1, FS_Interval
  <2> HIDE DEF D
  <2> QED BY <1>0, <2>2 DEF D
<1>11. f \in Surjection(P, D)
  <2> HIDE DEF f, D
  <2> QED BY <1>0, <1>9, <1>10, FS_Injection
<1>12. ASSUME NEW i \in 1 .. n PROVE NthParent(b, r, i) \in P
  <2>1. i - 1 \in D
    BY <1>0
  <2>2. PICK p \in P : f[p] = i - 1
    BY <1>11, <2>1 DEF Surjection
  <2>3. rank(p) = i - 1
    BY <2>2
  <2> QED BY <1>2, <2>3
<1>13. ASSUME NEW p \in P PROVE \E i \in 1 .. n : NthParent(b, r, i) = p
  <2>0. rank(p) \in 0 .. n - 1
    BY <1>6
  <2>1. rank(p) + 1 \in 1 .. n /\ (rank(p) + 1) - 1 = rank(p)
    <3> DEFINE k == rank(p)
    <3>1. k \in 0 .. n - 1
      BY <2>0
    <3> HIDE DEF k
    <3>2. k + 1 \in 1 .. n /\ (k + 1) - 1 = k
      BY <1>0, <3>1
    <3> QED BY <3>2 DEF k
  <2> DEFINE i == rank(p) + 1
  <2>2. NthParent(b, r, i) = CHOOSE q \in P : rank(q) = rank(p)
    BY <1>2, <2>1
  <2>3. NthParent(b, r, i) \in P /\ rank(NthParent(b, r, i)) = rank(p)
    <3> HIDE DEF i
    <3> QED BY <2>2
  <2>4. NthParent(b, r, i) = p
    <3> HIDE DEF i
    <3> QED BY <1>8, <2>3
  <2> QED BY <2>1, <2>4
<1> QED BY <1>0, <1>12, <1>13

------------------------------------------------------------------------------
(* Runs of a batch.                                                        *)

\* What one slice stands for, as in DisplayIsGraph but of any batch.
Previous(r) == <<r[1], r[2] - 1>>
ExtendsIn(b, r) ==
  /\ IsStall(r[1]) /\ Previous(r) \in DOMAIN b.nodes
  /\ b.nodes[Previous(r)].cycle + 1 = b.nodes[r].cycle
  /\ b.nodes[Previous(r)].words = b.nodes[r].words
  /\ Parents(b, Previous(r)) = Parents(b, r)
RunIn(b, h) ==
  {r \in DOMAIN b.nodes :
     r[1] = h[1] /\ r[2] >= h[2] /\ \A k \in h[2] + 1 .. r[2] : ExtendsIn(b, <<h[1], k>>)}

\* The slice of an occurrence is still open for its run.
LastOf(b, l) == \A q \in DOMAIN b.nodes : ~ (ExtendsIn(b, q) /\ Previous(q) = l)

\* A run goes on with what extends it.
LEMMA RunGrows ==
  ASSUME NEW b, Whole(b)
  PROVE  /\ \A h \in DOMAIN b.nodes : h \in RunIn(b, h)
         /\ \A h \in DOMAIN b.nodes : \A r \in DOMAIN b.nodes :
              ExtendsIn(b, r) /\ Previous(r) \in RunIn(b, h) => r \in RunIn(b, h)
<1>1. ASSUME NEW h \in DOMAIN b.nodes PROVE h \in RunIn(b, h)
  <2>1. h[2] \in Nat
    BY WholeIs
  <2>2. h[2] + 1 .. h[2] = {} /\ h[2] >= h[2]
    BY <2>1
  <2> QED BY <2>2 DEF RunIn
<1>2. ASSUME NEW h \in DOMAIN b.nodes, NEW r \in DOMAIN b.nodes,
             ExtendsIn(b, r), Previous(r) \in RunIn(b, h)
      PROVE  r \in RunIn(b, h)
  <2>1. h[2] \in Nat /\ r[2] \in Nat /\ r = <<r[1], r[2]>>
    BY WholeIs
  <2>2. /\ r[1] = h[1] /\ r[2] - 1 >= h[2]
        /\ \A k \in h[2] + 1 .. r[2] - 1 : ExtendsIn(b, <<h[1], k>>)
    BY <1>2 DEF RunIn, Previous
  <2>3. ASSUME NEW k \in h[2] + 1 .. r[2] PROVE ExtendsIn(b, <<h[1], k>>)
    <3>1. CASE k = r[2]
      BY <1>2, <2>1, <2>2, <3>1
    <3>2. CASE k # r[2]
      <4>1. k \in h[2] + 1 .. r[2] - 1
        BY <2>1, <3>2
      <4> QED BY <2>2, <4>1
    <3> QED BY <3>1, <3>2
  <2>4. r[2] >= h[2]
    BY <2>1, <2>2
  <2> QED BY <2>2, <2>3, <2>4 DEF RunIn
<1> QED BY <1>1, <1>2

\* In a run the cycles follow each other, and the parents are those of its head.
LEMMA RunIs ==
  ASSUME NEW b, Whole(b), NEW h \in DOMAIN b.nodes, NEW r \in RunIn(b, h)
  PROVE  b.nodes[r].cycle = b.nodes[h].cycle + (r[2] - h[2]) /\ Parents(b, r) = Parents(b, h)
<1>1. /\ h = <<h[1], h[2]>> /\ h[2] \in Nat /\ b.nodes[h].cycle \in Nat
      /\ r = <<r[1], r[2]>> /\ r[2] \in Nat /\ r[1] = h[1] /\ r[2] >= h[2]
      /\ \A k \in h[2] + 1 .. r[2] : ExtendsIn(b, <<h[1], k>>)
  BY WholeIs DEF RunIn
<1> DEFINE n == r[2] - h[2]
           at(k) == <<h[1], h[2] + k>>
           S == {k \in Nat : k <= n => b.nodes[at(k)].cycle = b.nodes[h].cycle + k
                                        /\ Parents(b, at(k)) = Parents(b, h)}
<1>2. n \in Nat
  BY <1>1
<1>3. 0 \in S
  <2>1. at(0) = h
    BY <1>1
  <2> HIDE DEF at
  <2> QED BY <1>1, <2>1
<1>4. ASSUME NEW k \in 0 .. n - 1, k \in S PROVE k + 1 \in S
  <2>1. h[2] + (k + 1) \in h[2] + 1 .. r[2] /\ k <= n /\ k \in Nat /\ k + 1 \in Nat
    BY <1>1, <1>2
  <2>2. ExtendsIn(b, at(k + 1))
    BY <1>1, <2>1
  <2>3. Previous(at(k + 1)) = at(k)
    BY <1>1, <2>1 DEF Previous
  <2> HIDE DEF at, n
  <2>4. b.nodes[at(k)].cycle = b.nodes[h].cycle + k /\ Parents(b, at(k)) = Parents(b, h)
    BY <1>4, <2>1
  <2>5. b.nodes[at(k)].cycle + 1 = b.nodes[at(k + 1)].cycle /\ Parents(b, at(k)) = Parents(b, at(k + 1))
    BY <2>2, <2>3 DEF ExtendsIn
  <2>6. b.nodes[at(k + 1)].cycle = b.nodes[h].cycle + (k + 1)
    BY <1>1, <2>1, <2>4, <2>5
  <2> QED BY <2>1, <2>4, <2>5, <2>6
<1>5. \A k \in 0 .. n : k \in S
  <2> HIDE DEF S, n
  <2> QED BY <1>2, <1>3, <1>4, UpToBound
<1>6. n \in S /\ n <= n
  <2> HIDE DEF S
  <2> QED BY <1>2, <1>5
<1>7. at(n) = r
  BY <1>1
<1> HIDE DEF at
<1> QED BY <1>6, <1>7

\* Where nothing extends it, a run has its last occurrence.
LEMMA RunEnds ==
  ASSUME NEW b, Whole(b), NEW h \in DOMAIN b.nodes, NEW l \in RunIn(b, h), LastOf(b, l)
  PROVE  \A q \in RunIn(b, h) : b.nodes[q].cycle <= b.nodes[l].cycle
<1> SUFFICES ASSUME NEW q \in RunIn(b, h) PROVE b.nodes[q].cycle <= b.nodes[l].cycle
  OBVIOUS
<1>1. /\ b.nodes[q].cycle = b.nodes[h].cycle + (q[2] - h[2])
      /\ b.nodes[l].cycle = b.nodes[h].cycle + (l[2] - h[2])
  BY RunIs
<1>2. /\ h[2] \in Nat /\ b.nodes[h].cycle \in Nat
      /\ l = <<l[1], l[2]>> /\ l[2] \in Nat /\ l[1] = h[1] /\ l[2] >= h[2] /\ l \in DOMAIN b.nodes
      /\ q = <<q[1], q[2]>> /\ q[2] \in Nat /\ q[1] = h[1] /\ q \in DOMAIN b.nodes
      /\ \A k \in h[2] + 1 .. q[2] : ExtendsIn(b, <<h[1], k>>)
  BY WholeIs DEF RunIn
<1>3. ASSUME q[2] > l[2] PROVE FALSE
  <2> DEFINE s == <<h[1], l[2] + 1>>
  <2>1. ExtendsIn(b, s)
    BY <1>2, <1>3
  <2>2. Previous(s) = l
    BY <1>2 DEF Previous
  <2>3. s \in DOMAIN b.nodes
    <3>1. CASE q[2] = l[2] + 1
      BY <1>2, <3>1
    <3>2. CASE q[2] # l[2] + 1
      <4> DEFINE x == <<h[1], l[2] + 2>>
      <4>1. l[2] + 2 \in h[2] + 1 .. q[2]
        BY <1>2, <1>3, <3>2
      <4>2. ExtendsIn(b, x)
        BY <1>2, <4>1
      <4>3. Previous(x) = s
        BY <1>2 DEF Previous
      <4> QED BY <4>2, <4>3 DEF ExtendsIn
    <3> QED BY <3>1, <3>2
  <2> HIDE DEF s
  <2> QED BY <2>1, <2>2, <2>3 DEF LastOf
<1> QED BY <1>1, <1>2, <1>3

------------------------------------------------------------------------------
(* What packets show.                                                      *)

\* The slice that is open on a track, or was the last to be: what SliceOf finds.
Begins(out, i, t)   == out[i].type = "begin" /\ out[i].track = t
Begun(out, n, t, h) ==
  \E j \in 1 .. n : /\ Begins(out, j, t) /\ out[j].ref = h
                    /\ \A k \in j + 1 .. n : ~ Begins(out, k, t)

\* A time at which the slice of a head may end.
EndsRun(b, h, at) ==
  \E r \in RunIn(b, h) : at = b.nodes[r].cycle + 1 /\ \A q \in RunIn(b, h) : b.nodes[q].cycle <= b.nodes[r].cycle

\* One slice for each of H, that ends where its run does.
Slices(out, b, H) ==
  /\ \A i \in 1 .. Len(out) : out[i].type = "begin" => out[i].ref \in H
  /\ \A h \in H : \E i \in 1 .. Len(out) : out[i].type = "begin" /\ out[i].ref = h
  /\ \A i, j \in 1 .. Len(out) :
       out[i].type = "begin" /\ out[j].type = "begin" /\ out[i].ref = out[j].ref => i = j
  /\ \A i \in 1 .. Len(out) : out[i].type = "end" =>
       \E h : Begun(out, i, out[i].track, h) /\ EndsRun(b, h, out[i].at)

\* One start of arrows for each of P, in its own slice.
Sources(out, known, P) ==
  /\ \A i \in 1 .. Len(out) : out[i].type = "s" =>
       \E q \in P : out[i].id = known[q].id /\ Begun(out, i, out[i].track, q)
  /\ \A q \in P : \E i \in 1 .. Len(out) : out[i].type = "s" /\ out[i].id = known[q].id
  /\ \A i, j \in 1 .. Len(out) :
       out[i].type = "s" /\ out[j].type = "s" /\ out[i].id = out[j].id => i = j

\* The ends of arrows are those of A, each after its start.
Arrows(out, known, A) ==
  /\ \A j \in 1 .. Len(out) : out[j].type = "f" =>
       /\ \E a \in A : out[j].id = known[a[1]].id /\ Begun(out, j, out[j].track, a[2])
       /\ \E i \in 1 .. j - 1 : out[i].type = "s" /\ out[i].id = out[j].id
  /\ \A a \in A : \E j \in 1 .. Len(out) :
       out[j].type = "f" /\ out[j].id = known[a[1]].id /\ Begun(out, j, out[j].track, a[2])

\* One more packet.
LEMMA BegunStep ==
  ASSUME NEW out, IsSeq(out), NEW p, NEW t, NEW h
  PROVE  /\ \A n \in 1 .. Len(out) : Begun(Append(out, p), n, t, h) <=> Begun(out, n, t, h)
         /\ Begun(Append(out, p), Len(out) + 1, t, h) <=>
              IF p.type = "begin" /\ p.track = t THEN h = p.ref ELSE Begun(out, Len(out), t, h)
<1> DEFINE o == Append(out, p)
           n == Len(out)
<1>1. n \in Nat /\ o[n + 1] = p /\ \A i \in 1 .. n : o[i] = out[i]
  BY SeqFacts, AppendIs
<1> HIDE DEF o, n
<1>2. ASSUME NEW m \in 0 .. n
      PROVE  /\ \A j \in 1 .. m : Begins(o, j, t) <=> Begins(out, j, t)
             /\ \A j \in 1 .. m : o[j].ref = out[j].ref
             /\ \A j \in 1 .. m : \A k \in j + 1 .. m : Begins(o, k, t) <=> Begins(out, k, t)
  <2>1. \A j \in 1 .. m : j \in 1 .. n
    BY <1>1
  <2>2. \A j \in 1 .. m : \A k \in j + 1 .. m : k \in 1 .. n
    BY <1>1
  <2> QED BY <1>1, <2>1, <2>2 DEF Begins
<1>3. \A m \in 0 .. n : Begun(o, m, t, h) <=> Begun(out, m, t, h)
  BY <1>2 DEF Begun
<1>4. CASE p.type = "begin" /\ p.track = t
  <2>1. Begins(o, n + 1, t) /\ o[n + 1].ref = p.ref
    BY <1>1, <1>4 DEF Begins
  <2>2. n + 1 \in 1 .. n + 1 /\ (n + 1) + 1 .. n + 1 = {}
    BY <1>1
  <2>3. Begun(o, n + 1, t, p.ref)
    BY <2>1, <2>2 DEF Begun
  <2>4. ASSUME Begun(o, n + 1, t, h) PROVE h = p.ref
    <3>1. PICK j \in 1 .. n + 1 : /\ o[j].ref = h /\ \A k \in j + 1 .. n + 1 : ~ Begins(o, k, t)
      BY <2>4 DEF Begun
    <3>2. j = n + 1
      <4>1. j # n + 1 => n + 1 \in j + 1 .. n + 1
        BY <1>1
      <4> QED BY <2>1, <3>1, <4>1
    <3> QED BY <2>1, <3>1, <3>2
  <2>5. Begun(o, n + 1, t, h) <=> h = p.ref
    BY <2>3, <2>4
  <2> QED BY <1>1, <1>3, <1>4, <2>5 DEF o, n
<1>5. CASE ~ (p.type = "begin" /\ p.track = t)
  <2>1. ~ Begins(o, n + 1, t)
    BY <1>1, <1>5 DEF Begins
  <2>2. ASSUME Begun(o, n, t, h) PROVE Begun(o, n + 1, t, h)
    <3>1. PICK j \in 1 .. n : /\ Begins(o, j, t) /\ o[j].ref = h /\ \A k \in j + 1 .. n : ~ Begins(o, k, t)
      BY <2>2 DEF Begun
    <3>2. j \in 1 .. n + 1 /\ \A k \in j + 1 .. n + 1 : k \in j + 1 .. n \/ k = n + 1
      BY <1>1
    <3> QED BY <2>1, <3>1, <3>2 DEF Begun
  <2>3. ASSUME Begun(o, n + 1, t, h) PROVE Begun(o, n, t, h)
    <3>1. PICK j \in 1 .. n + 1 :
            /\ Begins(o, j, t) /\ o[j].ref = h /\ \A k \in j + 1 .. n + 1 : ~ Begins(o, k, t)
      BY <2>3 DEF Begun
    <3>2. j # n + 1
      BY <2>1, <3>1
    <3>3. j \in 1 .. n /\ \A k \in j + 1 .. n : k \in j + 1 .. n + 1
      BY <1>1, <3>2
    <3> QED BY <3>1, <3>3 DEF Begun
  <2>4. n \in 0 .. n
    BY <1>1
  <2>5. Begun(o, n + 1, t, h) <=> Begun(out, n, t, h)
    BY <1>3, <2>2, <2>3, <2>4
  <2> QED BY <1>1, <1>3, <1>5, <2>5 DEF o, n
<1> QED BY <1>4, <1>5

\* A packet that begins a slice adds it; one that ends a slice ends its run.
LEMMA SlicesStep ==
  ASSUME NEW out, IsSeq(out), NEW b, NEW H, Slices(out, b, H), NEW p, NEW K,
         \/ p.type = "begin" /\ p.ref \notin H /\ K = H \cup {p.ref}
         \/ /\ p.type = "end" /\ K = H
            /\ \E h : Begun(out, Len(out), p.track, h) /\ EndsRun(b, h, p.at)
         \/ p.type \notin {"begin", "end"} /\ K = H
  PROVE  Slices(Append(out, p), b, K)
<1> DEFINE o == Append(out, p)
           n == Len(out)
<1>1. n \in Nat /\ Len(o) = n + 1 /\ o[n + 1] = p /\ \A i \in 1 .. n : o[i] = out[i]
  BY SeqFacts, AppendIs
<1>2. /\ \A i \in 1 .. n : \A t, h : Begun(o, i, t, h) <=> Begun(out, i, t, h)
      /\ \A t, h : p.type # "begin" => (Begun(o, n + 1, t, h) <=> Begun(out, n, t, h))
  BY BegunStep
<1>0. /\ \A i \in 1 .. n : out[i].type = "begin" => out[i].ref \in H
      /\ \A h \in H : \E i \in 1 .. n : out[i].type = "begin" /\ out[i].ref = h
      /\ \A i, j \in 1 .. n :
           out[i].type = "begin" /\ out[j].type = "begin" /\ out[i].ref = out[j].ref => i = j
      /\ \A i \in 1 .. n : out[i].type = "end" =>
           \E h : Begun(out, i, out[i].track, h) /\ EndsRun(b, h, out[i].at)
  BY DEF Slices
<1> HIDE DEF o, n
<1>3. \A i \in 1 .. n + 1 : i \in 1 .. n \/ i = n + 1
  BY <1>1
<1>4. n + 1 \in 1 .. n + 1 /\ \A i \in 1 .. n : i \in 1 .. n + 1
  BY <1>1
<1>5. \A i \in 1 .. n + 1 : o[i].type = "begin" => o[i].ref \in K
  BY <1>0, <1>1, <1>3
<1>6. \A h \in K : \E i \in 1 .. n + 1 : o[i].type = "begin" /\ o[i].ref = h
  BY <1>0, <1>1, <1>4
<1>7. \A i, j \in 1 .. n + 1 :
        o[i].type = "begin" /\ o[j].type = "begin" /\ o[i].ref = o[j].ref => i = j
  <2> SUFFICES ASSUME NEW i \in 1 .. n + 1, NEW j \in 1 .. n + 1,
                      o[i].type = "begin", o[j].type = "begin", o[i].ref = o[j].ref
               PROVE  i = j
    OBVIOUS
  <2>1. CASE i \in 1 .. n /\ j \in 1 .. n
    BY <1>0, <1>1, <2>1
  <2>2. CASE i \in 1 .. n /\ j = n + 1
    BY <1>0, <1>1, <2>2
  <2>3. CASE i = n + 1 /\ j \in 1 .. n
    BY <1>0, <1>1, <2>3
  <2> QED BY <1>3, <2>1, <2>2, <2>3
<1>8. ASSUME NEW i \in 1 .. n + 1, o[i].type = "end"
      PROVE  \E h : Begun(o, i, o[i].track, h) /\ EndsRun(b, h, o[i].at)
  <2>1. CASE i \in 1 .. n
    BY <1>0, <1>1, <1>2, <1>8, <2>1
  <2>2. CASE i = n + 1
    <3>1. p.type = "end"
      BY <1>1, <1>8, <2>2
    <3>2. PICK h : Begun(out, n, p.track, h) /\ EndsRun(b, h, p.at)
      BY <3>1 DEF n
    <3> QED BY <1>1, <1>2, <2>2, <3>1, <3>2
  <2> QED BY <1>3, <2>1, <2>2
<1>9. Slices(o, b, K)
  BY <1>1, <1>5, <1>6, <1>7, <1>8 DEF Slices
<1> QED BY <1>9 DEF o

\* A packet that starts arrows adds their source.
LEMMA SourcesStep ==
  ASSUME NEW out, IsSeq(out), NEW known, NEW P, Sources(out, known, P), NEW p, NEW K,
         \/ p.type # "s" /\ K = P
         \/ /\ p.type = "s"
            /\ \E q : /\ K = P \cup {q} /\ p.id = known[q].id /\ Begun(out, Len(out), p.track, q)
                      /\ \A x \in P : known[x].id # known[q].id
  PROVE  Sources(Append(out, p), known, K)
<1> DEFINE o == Append(out, p)
           n == Len(out)
<1>1. n \in Nat /\ Len(o) = n + 1 /\ o[n + 1] = p /\ \A i \in 1 .. n : o[i] = out[i]
  BY SeqFacts, AppendIs
<1>2. /\ \A i \in 1 .. n : \A t, h : Begun(o, i, t, h) <=> Begun(out, i, t, h)
      /\ \A t, h : p.type # "begin" => (Begun(o, n + 1, t, h) <=> Begun(out, n, t, h))
  BY BegunStep
<1>0. /\ \A i \in 1 .. n : out[i].type = "s" =>
           \E q \in P : out[i].id = known[q].id /\ Begun(out, i, out[i].track, q)
      /\ \A q \in P : \E i \in 1 .. n : out[i].type = "s" /\ out[i].id = known[q].id
      /\ \A i, j \in 1 .. n : out[i].type = "s" /\ out[j].type = "s" /\ out[i].id = out[j].id => i = j
  BY DEF Sources
<1> HIDE DEF o, n
<1>3. \A i \in 1 .. n + 1 : i \in 1 .. n \/ i = n + 1
  BY <1>1
<1>4. n + 1 \in 1 .. n + 1 /\ \A i \in 1 .. n : i \in 1 .. n + 1
  BY <1>1
<1>5. P \subseteq K
  OBVIOUS
<1>6. ASSUME NEW i \in 1 .. n, o[i].type = "s"
      PROVE  \E q \in P : o[i].id = known[q].id /\ Begun(o, i, o[i].track, q)
  BY <1>0, <1>1, <1>2, <1>6
<1>7. CASE p.type # "s" /\ K = P
  <2>1. \A i \in 1 .. n + 1 : o[i].type = "s" => i \in 1 .. n
    BY <1>1, <1>3, <1>7
  <2>2. \A q \in K : \E i \in 1 .. n + 1 : o[i].type = "s" /\ o[i].id = known[q].id
    BY <1>0, <1>1, <1>4, <1>7
  <2>3. \A i, j \in 1 .. n + 1 : o[i].type = "s" /\ o[j].type = "s" /\ o[i].id = o[j].id => i = j
    BY <1>0, <1>1, <2>1
  <2>4. \A i \in 1 .. n + 1 : o[i].type = "s" =>
          \E q \in K : o[i].id = known[q].id /\ Begun(o, i, o[i].track, q)
    BY <1>6, <1>7, <2>1
  <2>5. Sources(o, known, K)
    BY <1>1, <2>2, <2>3, <2>4 DEF Sources
  <2> QED BY <2>5 DEF o
<1>8. CASE p.type = "s"
  <2>1. PICK q : /\ K = P \cup {q} /\ p.id = known[q].id /\ Begun(out, n, p.track, q)
                 /\ \A x \in P : known[x].id # known[q].id
    BY <1>8 DEF n
  <2>2. ASSUME NEW i \in 1 .. n + 1, o[i].type = "s"
        PROVE  \E x \in K : o[i].id = known[x].id /\ Begun(o, i, o[i].track, x)
    <3>1. CASE i \in 1 .. n
      BY <1>6, <2>1, <2>2, <3>1
    <3>2. CASE i = n + 1
      BY <1>1, <1>2, <1>8, <2>1, <3>2
    <3> QED BY <1>3, <3>1, <3>2
  <2>3. \A x \in K : \E i \in 1 .. n + 1 : o[i].type = "s" /\ o[i].id = known[x].id
    <3> SUFFICES ASSUME NEW x \in K PROVE \E i \in 1 .. n + 1 : o[i].type = "s" /\ o[i].id = known[x].id
      OBVIOUS
    <3>1. CASE x \in P
      BY <1>0, <1>1, <1>4, <3>1
    <3>2. CASE x = q
      BY <1>1, <1>4, <1>8, <2>1, <3>2
    <3> QED BY <2>1, <3>1, <3>2
  <2>4. ASSUME NEW i \in 1 .. n, o[i].type = "s" PROVE o[i].id # p.id
    BY <1>6, <2>1, <2>4
  <2>5. \A i, j \in 1 .. n + 1 : o[i].type = "s" /\ o[j].type = "s" /\ o[i].id = o[j].id => i = j
    <3> SUFFICES ASSUME NEW i \in 1 .. n + 1, NEW j \in 1 .. n + 1,
                        o[i].type = "s", o[j].type = "s", o[i].id = o[j].id
                 PROVE  i = j
      OBVIOUS
    <3>1. CASE i \in 1 .. n /\ j \in 1 .. n
      BY <1>0, <1>1, <3>1
    <3>2. CASE i \in 1 .. n /\ j = n + 1
      BY <1>1, <2>4, <3>2
    <3>3. CASE i = n + 1 /\ j \in 1 .. n
      BY <1>1, <2>4, <3>3
    <3> QED BY <1>3, <3>1, <3>2, <3>3
  <2>6. Sources(o, known, K)
    BY <1>1, <2>2, <2>3, <2>5 DEF Sources
  <2> QED BY <2>6 DEF o
<1> QED BY <1>7, <1>8

\* A packet that ends an arrow adds it.
LEMMA ArrowsStep ==
  ASSUME NEW out, IsSeq(out), NEW known, NEW A, Arrows(out, known, A), NEW p, NEW K,
         \/ p.type # "f" /\ K = A
         \/ /\ p.type = "f"
            /\ \E a : /\ K = A \cup {a} /\ p.id = known[a[1]].id
                      /\ Begun(out, Len(out), p.track, a[2])
            /\ \E i \in 1 .. Len(out) : out[i].type = "s" /\ out[i].id = p.id
  PROVE  Arrows(Append(out, p), known, K)
<1> DEFINE o == Append(out, p)
           n == Len(out)
<1>1. n \in Nat /\ Len(o) = n + 1 /\ o[n + 1] = p /\ \A i \in 1 .. n : o[i] = out[i]
  BY SeqFacts, AppendIs
<1>2. /\ \A i \in 1 .. n : \A t, h : Begun(o, i, t, h) <=> Begun(out, i, t, h)
      /\ \A t, h : p.type # "begin" => (Begun(o, n + 1, t, h) <=> Begun(out, n, t, h))
  BY BegunStep
<1>0. /\ \A j \in 1 .. n : out[j].type = "f" =>
           /\ \E a \in A : out[j].id = known[a[1]].id /\ Begun(out, j, out[j].track, a[2])
           /\ \E i \in 1 .. j - 1 : out[i].type = "s" /\ out[i].id = out[j].id
      /\ \A a \in A : \E j \in 1 .. n :
           out[j].type = "f" /\ out[j].id = known[a[1]].id /\ Begun(out, j, out[j].track, a[2])
  BY DEF Arrows
<1> HIDE DEF o, n
<1>3. \A i \in 1 .. n + 1 : i \in 1 .. n \/ i = n + 1
  BY <1>1
<1>4. /\ n + 1 \in 1 .. n + 1 /\ (n + 1) - 1 = n /\ \A i \in 1 .. n : i \in 1 .. n + 1
      /\ \A j \in 1 .. n : \A i \in 1 .. j - 1 : i \in 1 .. n
  BY <1>1
<1>6. ASSUME NEW j \in 1 .. n, o[j].type = "f"
      PROVE  /\ \E a \in A : o[j].id = known[a[1]].id /\ Begun(o, j, o[j].track, a[2])
             /\ \E i \in 1 .. j - 1 : o[i].type = "s" /\ o[i].id = o[j].id
  <2>1. o[j] = out[j]
    BY <1>1
  <2>2. PICK i \in 1 .. j - 1 : out[i].type = "s" /\ out[i].id = out[j].id
    BY <1>0, <1>6, <2>1
  <2>3. o[i] = out[i]
    BY <1>1, <1>4, <2>2
  <2>4. PICK a \in A : out[j].id = known[a[1]].id /\ Begun(out, j, out[j].track, a[2])
    BY <1>0, <1>6, <2>1
  <2> QED BY <1>2, <2>1, <2>2, <2>3, <2>4
<1>7. ASSUME NEW a \in A
      PROVE  \E j \in 1 .. n + 1 :
               o[j].type = "f" /\ o[j].id = known[a[1]].id /\ Begun(o, j, o[j].track, a[2])
  <2>1. PICK j \in 1 .. n :
          out[j].type = "f" /\ out[j].id = known[a[1]].id /\ Begun(out, j, out[j].track, a[2])
    BY <1>0
  <2> QED BY <1>1, <1>2, <1>4, <2>1
<1>8. CASE p.type # "f" /\ K = A
  <2>1. \A j \in 1 .. n + 1 : o[j].type = "f" => j \in 1 .. n
    BY <1>1, <1>3, <1>8
  <2>2. Arrows(o, known, K)
    BY <1>1, <1>6, <1>7, <1>8, <2>1 DEF Arrows
  <2> QED BY <2>2 DEF o
<1>9. CASE p.type = "f"
  <2>1. PICK a : K = A \cup {a} /\ p.id = known[a[1]].id /\ Begun(out, n, p.track, a[2])
    BY <1>9 DEF n
  <2>2. PICK i \in 1 .. n : out[i].type = "s" /\ out[i].id = p.id
    BY <1>9 DEF n
  <2>3. Begun(o, n + 1, p.track, a[2]) /\ o[i] = out[i]
    BY <1>1, <1>2, <1>9, <2>1
  <2>4. ASSUME NEW j \in 1 .. n + 1, o[j].type = "f"
        PROVE  /\ \E x \in K : o[j].id = known[x[1]].id /\ Begun(o, j, o[j].track, x[2])
               /\ \E x \in 1 .. j - 1 : o[x].type = "s" /\ o[x].id = o[j].id
    <3>1. CASE j \in 1 .. n
      BY <1>6, <2>1, <2>4, <3>1
    <3>2. CASE j = n + 1
      <4>1. o[j] = p /\ i \in 1 .. j - 1 /\ a \in K
        BY <1>1, <1>4, <2>1, <3>2
      <4> QED BY <2>1, <2>2, <2>3, <3>2, <4>1
    <3> QED BY <1>3, <3>1, <3>2
  <2>5. ASSUME NEW x \in K
        PROVE  \E j \in 1 .. n + 1 :
                 o[j].type = "f" /\ o[j].id = known[x[1]].id /\ Begun(o, j, o[j].track, x[2])
    <3>1. CASE x \in A
      BY <1>7, <3>1
    <3>2. CASE x = a
      BY <1>1, <1>4, <1>9, <2>1, <2>3, <3>2
    <3> QED BY <2>1, <3>1, <3>2
  <2>6. Arrows(o, known, K)
    BY <1>1, <2>4, <2>5 DEF Arrows
  <2> QED BY <2>6 DEF o
<1> QED BY <1>8, <1>9

------------------------------------------------------------------------------
(* What a writer shows.                                                    *)

\* Slices for H, starts of arrows for P and the arrows A.
Shows(w, b, H, P, A) ==
  Slices(w.out, b, H) /\ Sources(w.out, w.known, P) /\ Arrows(w.out, w.known, A)

\* The slice a packet would belong to.
Current(w, t, h) == Begun(w.out, Len(w.out), t, h)
SameCurrent(v, w) == \A t, h : Current(v, t, h) <=> Current(w, t, h)

\* The packet of an event.
LEMMA EmitPacket ==
  ASSUME NEW w, NEW T, Wellformed(w, T), NEW type, NEW r, NEW at, NEW id, NEW keys
  PROVE  \E p : /\ Emit(w, type, r, at, id, keys).out = Append(w.out, p)
                /\ p.type = type /\ p.track = TrackOf(r[1]) /\ p.at = at /\ p.id = id
                /\ type = "begin" => p.ref = r
<1> DEFINE acc == Interned(w.strings, keys)
           p == [type |-> type, track |-> TrackOf(r[1]), at |-> at, id |-> id,
                 ref |-> IF type = "begin" THEN r ELSE <<>>, uses |-> acc.uses, defs |-> acc.defs]
           v == Emit(w, type, r, at, id, keys)
<1>1. v = [w EXCEPT !.strings = acc.strings, !.out = Append(w.out, p)]
  BY DEF Emit
<1>2. p.type = type /\ p.track = TrackOf(r[1]) /\ p.at = at /\ p.id = id /\ (type = "begin" => p.ref = r)
  OBVIOUS
<1> HIDE DEF acc, p, v
<1>3. v.out = Append(w.out, p)
  BY <1>1 DEF Wellformed, Fields
<1> QED BY <1>2, <1>3 DEF v

\* One more packet of each type.
LEMMA ShowsStep ==
  ASSUME NEW w, IsSeq(w.out), NEW b, NEW H, NEW P, NEW A, Shows(w, b, H, P, A),
         NEW v, NEW p, v.out = Append(w.out, p), v.known = w.known
  PROVE  /\ p.type = "begin" /\ p.ref \notin H => Shows(v, b, H \cup {p.ref}, P, A)
         /\ p.type = "end" /\ (\E h : Current(w, p.track, h) /\ EndsRun(b, h, p.at)) => Shows(v, b, H, P, A)
         /\ \A a : /\ p.type = "f" /\ p.id = w.known[a[1]].id /\ Current(w, p.track, a[2]) /\ a[1] \in P
                   => Shows(v, b, H, P, A \cup {a})
         /\ \A q : /\ p.type = "s" /\ p.id = w.known[q].id /\ Current(w, p.track, q)
                   /\ \A x \in P : w.known[x].id # w.known[q].id
                   => Shows(v, b, H, P \cup {q}, A)
         /\ p.type = "begin" => Current(v, p.track, p.ref)
         /\ \A t, h : (p.type # "begin" \/ p.track # t) => (Current(v, t, h) <=> Current(w, t, h))
<1>1. Slices(w.out, b, H) /\ Sources(w.out, w.known, P) /\ Arrows(w.out, w.known, A)
  BY DEF Shows
<1>2. ASSUME p.type = "begin", p.ref \notin H PROVE Shows(v, b, H \cup {p.ref}, P, A)
  <2>1. Slices(v.out, b, H \cup {p.ref})
    BY <1>1, <1>2, SlicesStep
  <2>2. p.type # "s" /\ p.type # "f"
    BY <1>2
  <2>3. Sources(v.out, v.known, P)
    BY <1>1, <2>2, SourcesStep
  <2>4. Arrows(v.out, v.known, A)
    BY <1>1, <2>2, ArrowsStep
  <2> QED BY <2>1, <2>3, <2>4 DEF Shows
<1>3. ASSUME p.type = "end", NEW h, Current(w, p.track, h), EndsRun(b, h, p.at) PROVE Shows(v, b, H, P, A)
  <2>1. Begun(w.out, Len(w.out), p.track, h)
    BY <1>3 DEF Current
  <2>2. Slices(v.out, b, H)
    BY <1>1, <1>3, <2>1, SlicesStep
  <2>3. p.type # "s" /\ p.type # "f"
    BY <1>3
  <2>4. Sources(v.out, v.known, P)
    BY <1>1, <2>3, SourcesStep
  <2>5. Arrows(v.out, v.known, A)
    BY <1>1, <2>3, ArrowsStep
  <2> QED BY <2>2, <2>4, <2>5 DEF Shows
<1>4. ASSUME p.type = "f", NEW a, p.id = w.known[a[1]].id, Current(w, p.track, a[2]), a[1] \in P
      PROVE  Shows(v, b, H, P, A \cup {a})
  <2>1. Begun(w.out, Len(w.out), p.track, a[2])
    BY <1>4 DEF Current
  <2>2. \E i \in 1 .. Len(w.out) : w.out[i].type = "s" /\ w.out[i].id = p.id
    BY <1>1, <1>4 DEF Sources
  <2>3. p.type \notin {"begin", "end"} /\ p.type # "s"
    BY <1>4
  <2>4. Slices(v.out, b, H)
    BY <1>1, <2>3, SlicesStep
  <2>5. Sources(v.out, v.known, P)
    BY <1>1, <2>3, SourcesStep
  <2> DEFINE K == A \cup {a}
  <2>6. \E x : K = A \cup {x} /\ p.id = w.known[x[1]].id /\ Begun(w.out, Len(w.out), p.track, x[2])
    BY <1>4, <2>1
  <2> HIDE DEF K
  <2>7. Arrows(Append(w.out, p), w.known, K)
    BY <1>1, <1>4, <2>2, <2>6, ArrowsStep
  <2> QED BY <2>4, <2>5, <2>7 DEF Shows, K
<1>5. ASSUME p.type = "s", NEW q, p.id = w.known[q].id, Current(w, p.track, q),
             \A x \in P : w.known[x].id # w.known[q].id
      PROVE  Shows(v, b, H, P \cup {q}, A)
  <2>1. Begun(w.out, Len(w.out), p.track, q)
    BY <1>5 DEF Current
  <2>2. p.type \notin {"begin", "end"} /\ p.type # "f"
    BY <1>5
  <2>3. Slices(v.out, b, H)
    BY <1>1, <2>2, SlicesStep
  <2>4. Arrows(v.out, v.known, A)
    BY <1>1, <2>2, ArrowsStep
  <2> DEFINE K == P \cup {q}
  <2>5. \E y : /\ K = P \cup {y} /\ p.id = w.known[y].id /\ Begun(w.out, Len(w.out), p.track, y)
               /\ \A x \in P : w.known[x].id # w.known[y].id
    BY <1>5, <2>1
  <2> HIDE DEF K
  <2>6. Sources(Append(w.out, p), w.known, K)
    BY <1>1, <1>5, <2>5, SourcesStep
  <2> QED BY <2>3, <2>4, <2>6 DEF Shows, K
<1>6. \A t, h : /\ p.type = "begin" /\ p.track = t => (Current(v, t, h) <=> h = p.ref)
                /\ ~ (p.type = "begin" /\ p.track = t) => (Current(v, t, h) <=> Current(w, t, h))
  <2>1. Len(v.out) = Len(w.out) + 1
    BY AppendIs
  <2> QED BY <2>1, BegunStep DEF Current
<1> QED BY <1>2, <1>3, <1>4, <1>5, <1>6

\* The beginning of a slice.
LEMMA BeginShows ==
  ASSUME NEW w, NEW T, Wellformed(w, T), NEW b, NEW H, NEW P, NEW A, Shows(w, b, H, P, A),
         NEW r, r \notin H, TrackOf(r[1]) \notin T, NEW n
  PROVE  LET v == BeginSlice(w, r, n)
             t == TrackOf(r[1])
         IN  /\ Wellformed(v, T \cup {t}) /\ v.stalls = w.stalls /\ v.known = w.known
             /\ Shows(v, b, H \cup {r}, P, A) /\ Current(v, t, r)
             /\ \A u, h : u # t => (Current(v, u, h) <=> Current(w, u, h))
<1> DEFINE v == BeginSlice(w, r, n)
           t == TrackOf(r[1])
           at == n.cycle
           keys == SliceStrings(r, n)
<1>1. v = Emit(w, "begin", r, at, 0, keys) /\ IsKeys(keys)
  BY PacketKeys DEF BeginSlice
<1>2. Opens([type |-> "begin", track |-> TrackOf(r[1])], T, T \cup {t})
  BY DEF Opens
<1> HIDE DEF v, at, keys
<1>3. Wellformed(v, T \cup {t}) /\ v.stalls = w.stalls /\ v.known = w.known
  <2> DEFINE U == T \cup {t}
  <2> HIDE DEF U
  <2>1. Opens([type |-> "begin", track |-> TrackOf(r[1])], T, U)
    BY <1>2 DEF U
  <2>2. Wellformed(v, U) /\ v.stalls = w.stalls /\ v.known = w.known
    BY <1>1, <2>1, EmitIs
  <2> QED BY <2>2 DEF U
<1>4. PICK p : v.out = Append(w.out, p) /\ p.type = "begin" /\ p.track = t /\ p.ref = r
  BY <1>1, EmitPacket
<1>5. IsSeq(w.out)
  BY DEF Wellformed, Dictionaries
<1>6. Shows(v, b, H \cup {r}, P, A) /\ Current(v, t, r)
      /\ \A u, h : u # t => (Current(v, u, h) <=> Current(w, u, h))
  <2>1. p.type = "begin" /\ p.ref \notin H => Shows(v, b, H \cup {p.ref}, P, A)
    BY <1>3, <1>4, <1>5, ShowsStep
  <2>2. p.type = "begin" => Current(v, p.track, p.ref)
    BY <1>3, <1>4, <1>5, ShowsStep
  <2>3. \A u, h : (p.type # "begin" \/ p.track # u) => (Current(v, u, h) <=> Current(w, u, h))
    BY <1>3, <1>4, <1>5, ShowsStep
  <2> QED BY <1>4, <2>1, <2>2, <2>3
<1> QED BY <1>3, <1>6 DEF v

\* The end of a slice.
LEMMA EndShows ==
  ASSUME NEW w, NEW T, Wellformed(w, T), NEW b, NEW H, NEW P, NEW A, Shows(w, b, H, P, A),
         NEW r, NEW h, Current(w, TrackOf(r[1]), h), NEW at, EndsRun(b, h, at), TrackOf(r[1]) \in T
  PROVE  LET v == EndSlice(w, r, at)
         IN  Shows(v, b, H, P, A) /\ SameCurrent(v, w) /\ v.known = w.known /\ v.stalls = w.stalls
<1> DEFINE v == EndSlice(w, r, at)
           U == T \ {TrackOf(r[1])}
<1>1. v = Emit(w, "end", r, at, 0, <<>>) /\ IsKeys(<<>>)
  BY PacketKeys DEF EndSlice
<1>2. Opens([type |-> "end", track |-> TrackOf(r[1])], T, U)
  BY DEF Opens
<1> HIDE DEF v, U
<1>3. v.known = w.known /\ v.stalls = w.stalls
  BY <1>1, <1>2, EmitIs
<1>4. PICK p : v.out = Append(w.out, p) /\ p.type = "end" /\ p.track = TrackOf(r[1]) /\ p.at = at
  BY <1>1, EmitPacket
<1>5. IsSeq(w.out)
  BY DEF Wellformed, Dictionaries
<1>6. Shows(v, b, H, P, A)
  <2>1. p.type = "end" /\ (\E x : Current(w, p.track, x) /\ EndsRun(b, x, p.at)) => Shows(v, b, H, P, A)
    BY <1>3, <1>4, <1>5, ShowsStep
  <2> QED BY <1>4, <2>1
<1>7. \A t, x : Current(v, t, x) <=> Current(w, t, x)
  <2>1. p.type # "begin"
    BY <1>4
  <2> QED BY <1>3, <1>4, <1>5, <2>1, ShowsStep
<1> QED BY <1>3, <1>6, <1>7 DEF v, SameCurrent

\* An arrow from a parent to the current slice.
LEMMA FlowEndShows ==
  ASSUME NEW w, NEW T, Wellformed(w, T), NEW b, NEW H, NEW P, NEW A, Shows(w, b, H, P, A),
         NEW r, Current(w, TrackOf(r[1]), r), NEW q \in P, NEW n
  PROVE  LET v == FlowEnd(w, r, n, w.known[q].id)
         IN  /\ Wellformed(v, T) /\ v.stalls = w.stalls /\ v.known = w.known
             /\ Shows(v, b, H, P, A \cup {<<q, r>>}) /\ SameCurrent(v, w)
<1> DEFINE id == w.known[q].id
           at == n.cycle
           v == FlowEnd(w, r, n, id)
<1>1. v = Emit(w, "f", r, at, id, FlowStrings)
  BY DEF FlowEnd
<1>2. Wellformed(v, T) /\ v.stalls = w.stalls /\ v.known = w.known
  BY FlowIs
<1> HIDE DEF v, at
<1>4. PICK p : v.out = Append(w.out, p) /\ p.type = "f" /\ p.track = TrackOf(r[1]) /\ p.id = id
  <2> HIDE DEF id
  <2> QED BY <1>1, EmitPacket
<1>5. IsSeq(w.out)
  BY DEF Wellformed, Dictionaries
<1> DEFINE a == <<q, r>>
<1>6. a[1] = q /\ a[2] = r
  OBVIOUS
<1> HIDE DEF a
<1>7. Shows(v, b, H, P, A \cup {a})
  <2>1. \A x : /\ p.type = "f" /\ p.id = w.known[x[1]].id /\ Current(w, p.track, x[2]) /\ x[1] \in P
               => Shows(v, b, H, P, A \cup {x})
    BY <1>2, <1>4, <1>5, ShowsStep
  <2>2. p.type = "f" /\ p.id = w.known[a[1]].id /\ Current(w, p.track, a[2]) /\ a[1] \in P
    BY <1>4, <1>6
  <2> QED BY <2>1, <2>2
<1>8. \A t, x : Current(v, t, x) <=> Current(w, t, x)
  <2>1. p.type # "begin"
    BY <1>4
  <2> QED BY <1>2, <1>4, <1>5, <2>1, ShowsStep
<1> QED BY <1>2, <1>7, <1>8 DEF v, a, SameCurrent

\* The start of the arrows of the current slice.
LEMMA FlowStartShows ==
  ASSUME NEW w, NEW T, Wellformed(w, T), NEW b, NEW H, NEW P, NEW A, Shows(w, b, H, P, A),
         NEW r, Current(w, TrackOf(r[1]), r), \A x \in P : w.known[x].id # w.known[r].id, NEW n
  PROVE  LET v == FlowStart(w, r, n, w.known[r].id)
         IN  /\ Wellformed(v, T) /\ v.stalls = w.stalls /\ v.known = w.known
             /\ Shows(v, b, H, P \cup {r}, A) /\ SameCurrent(v, w)
<1> DEFINE id == w.known[r].id
           at == n.cycle
           v == FlowStart(w, r, n, id)
<1>1. v = Emit(w, "s", r, at, id, FlowStrings)
  BY DEF FlowStart
<1>2. Wellformed(v, T) /\ v.stalls = w.stalls /\ v.known = w.known
  BY FlowIs
<1> HIDE DEF v, at
<1>4. PICK p : v.out = Append(w.out, p) /\ p.type = "s" /\ p.track = TrackOf(r[1]) /\ p.id = id
  <2> HIDE DEF id
  <2> QED BY <1>1, EmitPacket
<1>5. IsSeq(w.out)
  BY DEF Wellformed, Dictionaries
<1>7. Shows(v, b, H, P \cup {r}, A)
  <2>1. \A q : /\ p.type = "s" /\ p.id = w.known[q].id /\ Current(w, p.track, q)
               /\ \A x \in P : w.known[x].id # w.known[q].id
               => Shows(v, b, H, P \cup {q}, A)
    BY <1>2, <1>4, <1>5, ShowsStep
  <2> QED BY <1>4, <2>1
<1>8. \A t, x : Current(v, t, x) <=> Current(w, t, x)
  <2>1. p.type # "begin"
    BY <1>4
  <2> QED BY <1>2, <1>4, <1>5, <2>1, ShowsStep
<1> QED BY <1>2, <1>7, <1>8 DEF v, SameCurrent

\* The arrows from the parents are one from each of them.
LEMMA ParentArrowsShow ==
  ASSUME NEW w, NEW T, Wellformed(w, T), NEW b, Whole(b), NEW H, NEW P, NEW A, Shows(w, b, H, P, A),
         NEW r, Current(w, TrackOf(r[1]), r), Parents(b, r) \subseteq P
  PROVE  LET v == ParentArrows(w, b, r)
         IN  /\ Wellformed(v, T) /\ v.stalls = w.stalls /\ v.known = w.known
             /\ Shows(v, b, H, P, A \cup {<<q, r>> : q \in Parents(b, r)}) /\ SameCurrent(v, w)
<1> DEFINE n == Cardinality(Parents(b, r))
           nth(i) == NthParent(b, r, i)
           B(i) == A \cup {<<nth(j), r>> : j \in 1 .. i}
           Kept(v, i) == /\ Wellformed(v, T) /\ v.stalls = w.stalls /\ v.known = w.known
                         /\ Shows(v, b, H, P, B(i)) /\ SameCurrent(v, w)
<1>1. /\ n \in Nat /\ n = Cardinality(Parents(b, r))
      /\ \A i \in 1 .. n : nth(i) \in Parents(b, r)
      /\ \A p \in Parents(b, r) : \E i \in 1 .. n : nth(i) = p
  BY NthParentIs
<1> HIDE DEF n, nth
<1>2. PICK ends : ArrowsLoop(ends, w, b, r, n)
  BY <1>1, ParentArrowsLoop
<1>3. /\ ends[0] = w /\ ends[n] = ParentArrows(w, b, r)
      /\ \A i \in 0 .. n - 1 :
           ends[i + 1] = FlowEnd(ends[i], r, b.nodes[r], ends[i].known[nth(i + 1)].id)
  BY <1>2 DEF ArrowsLoop, nth
<1>4. Kept(w, 0)
  <2>1. B(0) = A
    OBVIOUS
  <2> QED BY <2>1 DEF SameCurrent
<1>5. ASSUME NEW i \in 0 .. n - 1, NEW v, Kept(v, i)
      PROVE  Kept(FlowEnd(v, r, b.nodes[r], v.known[nth(i + 1)].id), i + 1)
  <2> DEFINE q == nth(i + 1)
             x == FlowEnd(v, r, b.nodes[r], v.known[q].id)
  <2>1. i + 1 \in 1 .. n /\ \A j \in 1 .. i + 1 : j \in 1 .. i \/ j = i + 1
    BY <1>1
  <2>2. q \in P
    BY <1>1, <2>1
  <2>3. B(i + 1) = B(i) \cup {<<q, r>>}
    <3>1. i + 1 \in 1 .. i + 1 /\ \A j \in 1 .. i : j \in 1 .. i + 1
      OBVIOUS
    <3> HIDE DEF nth
    <3> QED BY <2>1, <3>1
  <2> HIDE DEF B, q
  <2>4. /\ Wellformed(v, T) /\ Shows(v, b, H, P, B(i)) /\ Current(v, TrackOf(r[1]), r)
    BY <1>5 DEF SameCurrent
  <2>5. /\ Wellformed(x, T) /\ x.stalls = v.stalls /\ x.known = v.known
        /\ Shows(x, b, H, P, B(i) \cup {<<q, r>>}) /\ SameCurrent(x, v)
    <3> DEFINE m == b.nodes[r]
    <3> HIDE DEF m
    <3> QED BY <2>2, <2>4, FlowEndShows DEF m
  <2> HIDE DEF x
  <2>6. SameCurrent(x, w)
    BY <1>5, <2>5 DEF SameCurrent
  <2>7. Kept(x, i + 1)
    BY <1>5, <2>3, <2>5, <2>6
  <2> QED BY <2>7 DEF x, q
<1> HIDE DEF Kept
<1> DEFINE S == {i \in Nat : Kept(ends[i], i)}
<1>6. 0 \in S
  BY <1>3, <1>4
<1>7. ASSUME NEW k \in 0 .. n - 1, k \in S PROVE k + 1 \in S
  <2>1. Kept(ends[k + 1], k + 1)
    BY <1>3, <1>5, <1>7
  <2> QED BY <2>1
<1>8. n \in S
  <2> HIDE DEF S
  <2> QED BY <1>1, <1>6, <1>7, UpToBound
<1>9. Kept(ParentArrows(w, b, r), n)
  BY <1>3, <1>8
<1>10. B(n) = A \cup {<<q, r>> : q \in Parents(b, r)}
  BY <1>1
<1> HIDE DEF B
<1> QED BY <1>9, <1>10 DEF Kept

\* An open run of the writer is one of the batch, up to its last occurrence.
IsRun(w, b, t) ==
  LET run == w.stalls[t]
  IN  /\ run.last \in DOMAIN b.nodes /\ run.cycle = b.nodes[run.last].cycle
      /\ run.words = b.nodes[run.last].words /\ run.parents = Parents(b, run.last)
      /\ \E h \in DOMAIN b.nodes : Current(w, t, h) /\ run.last \in RunIn(b, h)

\* Ending a run that nothing extends.
LEMMA CloseStallShows ==
  ASSUME NEW w, Sound(w), NEW b, Whole(b), NEW H, NEW P, NEW A, Shows(w, b, H, P, A),
         NEW t \in DOMAIN w.stalls, IsRun(w, b, t), LastOf(b, w.stalls[t].last)
  PROVE  LET v == CloseStall(w, t)
         IN  v.known = w.known /\ Shows(v, b, H, P, A) /\ SameCurrent(v, w)
<1> DEFINE last == w.stalls[t].last
           at == w.stalls[t].cycle + 1
           e == EndSlice(w, last, at)
           stalls == [u \in DOMAIN w.stalls \ {t} |-> w.stalls[u]]
           v == CloseStall(w, t)
           T == DOMAIN w.stalls
<1>1. TrackOf(last[1]) = t /\ Wellformed(w, T) /\ t \in T
  BY DEF Sound, Runs
<1>2. PICK h \in DOMAIN b.nodes : Current(w, t, h) /\ last \in RunIn(b, h)
  BY DEF IsRun
<1>3. EndsRun(b, h, at)
  <2>1. w.stalls[t].cycle = b.nodes[last].cycle
    BY DEF IsRun
  <2>2. \A q \in RunIn(b, h) : b.nodes[q].cycle <= b.nodes[last].cycle
    <3> HIDE DEF last
    <3> QED BY <1>2, RunEnds DEF last
  <2> HIDE DEF last
  <2> QED BY <1>2, <2>1, <2>2 DEF EndsRun
<1>4. v = [e EXCEPT !.stalls = stalls]
  BY DEF CloseStall
<1> HIDE DEF last, at, T
<1>5. Shows(e, b, H, P, A) /\ SameCurrent(e, w) /\ e.known = w.known
  BY <1>1, <1>2, <1>3, EndShows
<1>6. DOMAIN e = Fields
  <2>1. /\ e = Emit(w, "end", last, at, 0, <<>>) /\ IsKeys(<<>>)
        /\ Opens([type |-> "end", track |-> TrackOf(last[1])], T, T \ {t})
    BY <1>1, PacketKeys DEF EndSlice, Opens
  <2> DEFINE U == T \ {t}
  <2> HIDE DEF e, U
  <2>2. Opens([type |-> "end", track |-> TrackOf(last[1])], T, U)
    BY <2>1 DEF U
  <2>3. Wellformed(e, U)
    BY <1>1, <2>1, <2>2, EmitIs
  <2> QED BY <2>3 DEF Wellformed
<1> HIDE DEF e, stalls, v
<1>7. v.out = e.out /\ v.known = e.known
  BY <1>4, <1>6 DEF Fields
<1> QED BY <1>5, <1>7 DEF v, Shows, SameCurrent, Current

\* Ending several.
LEMMA CloseStallsShow ==
  ASSUME NEW w, Sound(w), NEW b, Whole(b), NEW H, NEW P, NEW A, Shows(w, b, H, P, A),
         NEW tracks, tracks \subseteq DOMAIN w.stalls,
         \A t \in tracks : IsRun(w, b, t) /\ LastOf(b, w.stalls[t].last)
  PROVE  LET v == CloseStalls(w, tracks)
         IN  v.known = w.known /\ Shows(v, b, H, P, A) /\ SameCurrent(v, w)
<1> DEFINE n == Cardinality(tracks)
<1>0. n = Cardinality(tracks)
  OBVIOUS
<1> HIDE DEF n
<1>1. n \in Nat /\ IsFiniteSet(tracks) /\ \E f : ClosingLoop(f, w, tracks, n)
  BY <1>0, CloseStallsLoop
<1>2. PICK f : ClosingLoop(f, w, tracks, n)
  BY <1>1
<1> DEFINE Kept(v) == v.known = w.known /\ Shows(v, b, H, P, A) /\ SameCurrent(v, w)
           S == {i \in Nat : Kept(f[i])}
<1>3. 0 \in S
  BY <1>2 DEF ClosingLoop, SameCurrent
<1>4. ASSUME NEW i \in 0 .. n - 1, i \in S PROVE i + 1 \in S
  <2> DEFINE v == f[i]
             R == tracks \cap DOMAIN v.stalls
             t == FirstEnding(v, R)
             x == CloseStall(v, t)
  <2>1. /\ i \in 0 .. n /\ i \in Nat /\ i + 1 \in Nat
    BY <1>1
  <2>2. Closing(v, w, tracks, i) /\ f[i + 1] = x
    BY <1>2, <2>1 DEF ClosingLoop
  <2>3. R # {}
    <3>1. IsFiniteSet(R) /\ Cardinality(R) \in Nat
      BY <1>1, FS_CardinalityType, FS_Intersection
    <3>2. Cardinality(R) + i = n
      BY <1>0, <2>2 DEF Closing
    <3>3. Cardinality(R) # 0
      BY <1>1, <3>1, <3>2
    <3> HIDE DEF R
    <3> QED BY <3>3, FS_EmptySet
  <2>4. Sound(v) /\ R \subseteq DOMAIN v.stalls /\ \A u \in DOMAIN v.stalls : v.stalls[u] = w.stalls[u]
    BY <2>2 DEF Closing
  <2>5. Kept(v)
    BY <1>4
  <2> HIDE DEF v, R, x
  <2>6. t \in R
    BY <2>3, <2>4, FirstEndingIs
  <2> HIDE DEF t
  <2>7. t \in tracks /\ t \in DOMAIN v.stalls /\ v.stalls[t] = w.stalls[t]
    BY <2>4, <2>6 DEF R
  <2>8. IsRun(v, b, t) /\ LastOf(b, v.stalls[t].last)
    <3>1. IsRun(w, b, t) /\ LastOf(b, w.stalls[t].last)
      BY <2>7
    <3> QED BY <2>5, <2>7, <3>1 DEF IsRun, SameCurrent
  <2>9. x.known = v.known /\ Shows(x, b, H, P, A) /\ SameCurrent(x, v)
    BY <2>4, <2>5, <2>7, <2>8, CloseStallShows DEF x
  <2>10. Kept(x)
    BY <2>5, <2>9 DEF SameCurrent
  <2> HIDE DEF Kept
  <2> QED BY <2>1, <2>2, <2>10 DEF v
<1>5. n \in S
  <2> HIDE DEF S
  <2> QED BY <1>1, <1>3, <1>4, UpToBound
<1>6. Kept(CloseStalls(w, tracks))
  BY <1>2, <1>5 DEF ClosingLoop
<1> QED BY <1>6

\* The slice of an occurrence, with its arrows.
LEMMA EncodeSliceShows ==
  ASSUME NEW w, Sound(w), NEW b, Whole(b), NEW r \in DOMAIN b.nodes,
         TrackOf(r[1]) \notin DOMAIN w.stalls,
         NEW H, NEW P, NEW A, Shows(w, b, H, P, A), r \notin H, Parents(b, r) \subseteq P,
         CanParent(r[1]) => \A x \in P : w.known[x].id # w.known[r].id
  PROVE  LET v == EncodeSlice(w, b, r)
             t == TrackOf(r[1])
             run == [last |-> r, cycle |-> b.nodes[r].cycle, words |-> b.nodes[r].words,
                     parents |-> Parents(b, r)]
         IN  /\ v.known = w.known /\ Current(v, t, r)
             /\ \A u, h : u # t => (Current(v, u, h) <=> Current(w, u, h))
             /\ v.stalls = IF IsStall(r[1]) THEN With(w.stalls, t, run) ELSE w.stalls
             /\ Shows(v, b, H \cup {r}, P \cup {q \in {r} : CanParent(q[1])},
                      A \cup {<<q, r>> : q \in Parents(b, r)})
<1> DEFINE n == b.nodes[r]
           t == TrackOf(r[1])
           T == DOMAIN w.stalls
           U == T \cup {t}
           J == H \cup {r}
           Q == P \cup {q \in {r} : CanParent(q[1])}
           B == A \cup {<<q, r>> : q \in Parents(b, r)}
           begun  == BeginSlice(w, r, n)
           ends   == ParentArrows(begun, b, r)
           arrows == IF CanParent(r[1]) THEN FlowStart(ends, r, n, w.known[r].id) ELSE ends
           run == [last |-> r, cycle |-> n.cycle, words |-> n.words, parents |-> Parents(b, r)]
           v == EncodeSlice(w, b, r)
           Kept(x, C, D) == /\ Wellformed(x, U) /\ x.stalls = w.stalls /\ x.known = w.known
                            /\ Shows(x, b, J, C, D) /\ Current(x, t, r)
                            /\ \A u, h : u # t => (Current(x, u, h) <=> Current(w, u, h))
<1>1. Kept(begun, P, A)
  <2>1. Wellformed(w, T)
    BY DEF Sound
  <2> HIDE DEF n
  <2> QED BY <2>1, BeginShows DEF n
<1>2. Kept(ends, P, B)
  <2> HIDE DEF begun, U, J
  <2>1. /\ Wellformed(ends, U) /\ ends.stalls = begun.stalls /\ ends.known = begun.known
        /\ Shows(ends, b, J, P, B) /\ SameCurrent(ends, begun)
    BY <1>1, ParentArrowsShow
  <2> HIDE DEF ends, B
  <2> QED BY <1>1, <2>1 DEF SameCurrent
<1>4. v = IF IsStall(r[1]) THEN [arrows EXCEPT !.stalls = With(@, t, run)] ELSE EndSlice(arrows, r, n.cycle + 1)
  <2>1. begun.known = w.known
    BY <1>1
  <2>2. ends.known = w.known
    <3> HIDE DEF ends
    <3> QED BY <1>2
  <2>3. EncodeSlice(w, b, r) =
          LET ar == IF CanParent(r[1]) THEN FlowStart(ends, r, n, w.known[r].id) ELSE ends
          IN  IF IsStall(r[1]) THEN [ar EXCEPT !.stalls = With(@, t, run)] ELSE EndSlice(ar, r, n.cycle + 1)
    BY DEF EncodeSlice
  <2> HIDE DEF begun, ends, run, n
  <2> QED BY <2>3
<1> HIDE DEF begun, ends, B, J, U, n
<1>3. Kept(arrows, Q, B)
  <2>1. CASE CanParent(r[1])
    <3>1. Q = P \cup {r}
      BY <2>1
    <3>2. arrows = FlowStart(ends, r, n, ends.known[r].id)
      BY <1>2, <2>1
    <3> HIDE DEF arrows, Q
    <3>3. /\ Wellformed(arrows, U) /\ arrows.stalls = ends.stalls /\ arrows.known = ends.known
          /\ Shows(arrows, b, J, P \cup {r}, B) /\ SameCurrent(arrows, ends)
      BY <1>2, <2>1, <3>2, FlowStartShows
    <3> QED BY <1>2, <3>1, <3>3 DEF SameCurrent
  <2>2. CASE ~ CanParent(r[1])
    <3>1. Q = P /\ arrows = ends
      BY <2>2
    <3> QED BY <1>2, <3>1
  <2> QED BY <2>1, <2>2
<1> HIDE DEF arrows, Q
<1>5. CASE IsStall(r[1])
  <2> DEFINE stalls == With(w.stalls, t, run)
  <2>1. v = [arrows EXCEPT !.stalls = stalls]
    BY <1>3, <1>4, <1>5
  <2> HIDE DEF stalls, v
  <2>2. v.stalls = stalls /\ v.known = w.known /\ v.out = arrows.out
    BY <1>3, <2>1 DEF Wellformed, Fields
  <2>3. Shows(v, b, J, Q, B) /\ Current(v, t, r) /\ \A u, h : u # t => (Current(v, u, h) <=> Current(w, u, h))
    BY <1>3, <2>2 DEF Shows, Current
  <2> QED BY <1>5, <2>2, <2>3 DEF v, stalls, J, Q, B, n
<1>6. CASE ~ IsStall(r[1])
  <2>1. v = EndSlice(arrows, r, n.cycle + 1)
    BY <1>4, <1>6
  <2>2. EndsRun(b, r, n.cycle + 1)
    <3>1. r \in RunIn(b, r)
      BY RunGrows
    <3>2. ASSUME NEW q \in RunIn(b, r) PROVE b.nodes[q].cycle <= b.nodes[r].cycle
      <4>1. /\ q[2] \in Nat /\ r[2] \in Nat /\ q = <<q[1], q[2]>> /\ r = <<r[1], r[2]>>
            /\ b.nodes[r].cycle \in Nat /\ q[1] = r[1] /\ q[2] >= r[2]
            /\ \A k \in r[2] + 1 .. q[2] : ExtendsIn(b, <<r[1], k>>)
        BY WholeIs DEF RunIn
      <4>2. ASSUME q[2] > r[2] PROVE FALSE
        <5>1. ExtendsIn(b, <<r[1], q[2]>>)
          BY <4>1, <4>2
        <5> QED BY <1>6, <5>1 DEF ExtendsIn
      <4>3. q = r
        BY <4>1, <4>2
      <4> QED BY <4>1, <4>3
    <3> QED BY <3>1, <3>2 DEF EndsRun, n
  <2> DEFINE at == n.cycle + 1
  <2>3. t \in U
    BY DEF U
  <2> HIDE DEF at, v
  <2>4. Shows(v, b, J, Q, B) /\ SameCurrent(v, arrows) /\ v.known = arrows.known /\ v.stalls = arrows.stalls
    BY <1>3, <2>1, <2>2, <2>3, EndShows DEF at
  <2>5. Current(v, t, r) /\ \A u, h : u # t => (Current(v, u, h) <=> Current(w, u, h))
    BY <1>3, <2>4 DEF SameCurrent
  <2> QED BY <1>3, <1>6, <2>4, <2>5 DEF v, J, Q, B
<1> QED BY <1>5, <1>6

------------------------------------------------------------------------------
(* What a part of a batch shows.                                           *)

HeadsOf(b, R) == {h \in R : ~ ExtendsIn(b, h)}
Starts(R)     == {q \in R : CanParent(q[1])}
Lineage(b, R) == {a \in R \X R : ~ ExtendsIn(b, a[2]) /\ a[1] \in Parents(b, a[2])}

\* Flow identities are the places of the occurrences in the trace.
Numbered(w, R) ==
  /\ DOMAIN w.known = R
  /\ \A q \in R : w.known[q].id \in 1 .. Cardinality(R)
  /\ \A p, q \in R : w.known[p].id = w.known[q].id => p = q

\* The occurrences R of a batch have been encoded: their slices and arrows are
\* out, and the open runs are those that another occurrence may extend.
Drawn(w, b, R) ==
  /\ Numbered(w, R)
  /\ Shows(w, b, HeadsOf(b, R), Starts(R), Lineage(b, R))
  /\ \A t \in DOMAIN w.stalls :
       /\ IsRun(w, b, t) /\ w.stalls[t].last \in R
       /\ \A q \in R : ~ (ExtendsIn(b, q) /\ Previous(q) = w.stalls[t].last)
  /\ \A q \in DOMAIN b.nodes \ R : ExtendsIn(b, q) /\ Previous(q) \in R =>
       \E t \in DOMAIN w.stalls : w.stalls[t].last = Previous(q)

\* The open runs go on in a cycle, or have.
Timely(w, b, c) == \A t \in DOMAIN w.stalls : Continues(b, w.stalls[t], c) \/ w.stalls[t].cycle = c

\* What a stall extends goes on in its cycle.
LEMMA ExtendsContinues ==
  ASSUME NEW w, NEW b, Whole(b), NEW t \in DOMAIN w.stalls, IsRun(w, b, t), NEW q \in DOMAIN b.nodes
  PROVE  /\ ExtendsIn(b, q) /\ Previous(q) = w.stalls[t].last
              => b.nodes[q].cycle = w.stalls[t].cycle + 1 /\ Continues(b, w.stalls[t], b.nodes[q].cycle)
         /\ \A c : Continues(b, w.stalls[t], c) /\ q = <<w.stalls[t].last[1], w.stalls[t].last[2] + 1>>
              => /\ Previous(q) = w.stalls[t].last /\ b.nodes[q].cycle = c
                 /\ IsStall(q[1]) => ExtendsIn(b, q)
<1> DEFINE run == w.stalls[t]
           l == run.last
           s == <<l[1], l[2] + 1>>
<1>1. /\ l \in DOMAIN b.nodes /\ run.cycle = b.nodes[l].cycle /\ run.words = b.nodes[l].words
      /\ run.parents = Parents(b, l)
  BY DEF IsRun
<1>2. /\ l = <<l[1], l[2]>> /\ l[2] \in Nat /\ b.nodes[l].cycle \in Nat
      /\ q = <<q[1], q[2]>> /\ q[2] \in Nat /\ b.nodes[q].cycle \in Nat
  BY <1>1, WholeIs
<1>3. \A c : Continues(b, run, c) <=>
        /\ s \in DOMAIN b.nodes /\ b.nodes[s].cycle = c /\ run.cycle + 1 = c
        /\ b.nodes[s].words = run.words /\ Parents(b, s) = run.parents
  BY DEF Continues
<1> HIDE DEF run, l
<1>4. ASSUME ExtendsIn(b, q), Previous(q) = l
      PROVE  b.nodes[q].cycle = run.cycle + 1 /\ Continues(b, run, b.nodes[q].cycle)
  <2>1. q = s
    <3>1. l[1] = q[1] /\ l[2] = q[2] - 1
      BY <1>2, <1>4 DEF Previous
    <3> QED BY <1>2, <3>1
  <2> HIDE DEF s
  <2>2. /\ b.nodes[l].cycle + 1 = b.nodes[q].cycle /\ b.nodes[l].words = b.nodes[q].words
        /\ Parents(b, l) = Parents(b, q)
    BY <1>4 DEF ExtendsIn
  <2> QED BY <1>1, <1>3, <2>1, <2>2
<1>5. ASSUME NEW c, Continues(b, run, c), q = s
      PROVE  Previous(q) = l /\ b.nodes[q].cycle = c /\ (IsStall(q[1]) => ExtendsIn(b, q))
  <2>1. Previous(q) = l
    <3>1. q[1] = l[1] /\ q[2] = l[2] + 1
      BY <1>5
    <3> QED BY <1>2, <3>1 DEF Previous
  <2> HIDE DEF s
  <2> QED BY <1>1, <1>3, <1>5, <2>1 DEF ExtendsIn
<1> QED BY <1>4, <1>5 DEF run, l

\* Before the first occurrence of a cycle, the runs it does not extend end:
\* nothing extends them.
LEMMA StartCycleDraws ==
  ASSUME NEW w, Sound(w), NEW b, Whole(b), NEW R, NEW r, Due(b, R, r), Drawn(w, b, R),
         \A q \in R : b.nodes[q].cycle < b.nodes[r].cycle
  PROVE  LET v == StartCycle(w, b, b.nodes[r].cycle)
         IN  Drawn(v, b, R) /\ Timely(v, b, b.nodes[r].cycle)
<1> DEFINE c == b.nodes[r].cycle
           tracks == {t \in DOMAIN w.stalls : ~ Continues(b, w.stalls[t], c)}
           v == CloseStalls(w, tracks)
<1>0. StartCycle(w, b, c) = v
  BY DEF StartCycle
<1>1. tracks \subseteq DOMAIN w.stalls
  OBVIOUS
<1>2. /\ \A t \in DOMAIN w.stalls :
           /\ IsRun(w, b, t) /\ w.stalls[t].last \in R
           /\ \A q \in R : ~ (ExtendsIn(b, q) /\ Previous(q) = w.stalls[t].last)
      /\ \A q \in DOMAIN b.nodes \ R : ExtendsIn(b, q) /\ Previous(q) \in R =>
           \E t \in DOMAIN w.stalls : w.stalls[t].last = Previous(q)
  BY DEF Drawn
<1>3. ASSUME NEW t \in tracks, NEW q \in DOMAIN b.nodes, ExtendsIn(b, q), Previous(q) = w.stalls[t].last
      PROVE  FALSE
  <2>1. t \in DOMAIN w.stalls /\ IsRun(w, b, t) /\ w.stalls[t].last \in R /\ q \notin R
    BY <1>1, <1>2, <1>3
  <2>2. b.nodes[q].cycle = w.stalls[t].cycle + 1 /\ Continues(b, w.stalls[t], b.nodes[q].cycle)
    BY <1>3, <2>1, ExtendsContinues
  <2>3. w.stalls[t].cycle = b.nodes[w.stalls[t].last].cycle
    BY <2>1 DEF IsRun
  <2>4. w.stalls[t].cycle < c /\ w.stalls[t].cycle \in Nat
    BY <2>1, <2>3, WholeIs DEF Due
  <2>5. c <= b.nodes[q].cycle /\ c \in Nat
    BY <2>1, WholeIs DEF Due
  <2>6. b.nodes[q].cycle = c
    <3> HIDE DEF c
    <3> QED BY <2>2, <2>4, <2>5
  <2> QED BY <1>3, <2>2, <2>6
<1>4. \A t \in tracks : IsRun(w, b, t) /\ LastOf(b, w.stalls[t].last)
  <2> SUFFICES ASSUME NEW t \in tracks PROVE IsRun(w, b, t) /\ LastOf(b, w.stalls[t].last)
    OBVIOUS
  <2>1. IsRun(w, b, t)
    BY <1>1, <1>2
  <2> QED BY <1>3, <2>1 DEF LastOf
<1>5. \A t \in DOMAIN w.stalls \ tracks : Continues(b, w.stalls[t], c)
  OBVIOUS
<1> HIDE DEF tracks, v, c
<1>6. /\ v.known = w.known /\ SameCurrent(v, w)
      /\ Shows(v, b, HeadsOf(b, R), Starts(R), Lineage(b, R))
  BY <1>1, <1>4, CloseStallsShow DEF Drawn, v
<1>7. DOMAIN v.stalls = DOMAIN w.stalls \ tracks /\ \A t \in DOMAIN v.stalls : v.stalls[t] = w.stalls[t]
  BY <1>1, CloseStallsIs DEF v
<1>8. Numbered(v, R)
  BY <1>6 DEF Drawn, Numbered
<1>9. ASSUME NEW t \in DOMAIN v.stalls
      PROVE  /\ IsRun(v, b, t) /\ v.stalls[t].last \in R
             /\ \A q \in R : ~ (ExtendsIn(b, q) /\ Previous(q) = v.stalls[t].last)
  <2>1. t \in DOMAIN w.stalls /\ v.stalls[t] = w.stalls[t]
    BY <1>7
  <2>2. IsRun(w, b, t)
    BY <1>2, <2>1
  <2>3. IsRun(v, b, t)
    BY <1>6, <2>1, <2>2 DEF IsRun, SameCurrent
  <2> QED BY <1>2, <2>1, <2>3
<1>10. ASSUME NEW q \in DOMAIN b.nodes \ R, ExtendsIn(b, q), Previous(q) \in R
       PROVE  \E t \in DOMAIN v.stalls : v.stalls[t].last = Previous(q)
  <2>1. PICK t \in DOMAIN w.stalls : w.stalls[t].last = Previous(q)
    BY <1>2, <1>10
  <2>2. t \notin tracks
    BY <1>3, <1>10, <2>1
  <2> QED BY <1>7, <2>1, <2>2
<1>11. Drawn(v, b, R)
  BY <1>6, <1>8, <1>9, <1>10 DEF Drawn
<1>12. Timely(v, b, c)
  BY <1>5, <1>7 DEF Timely
<1> QED BY <1>0, <1>11, <1>12 DEF c

\* Two occurrences on a shared track have different cycles.
LEMMA OneOnTrack ==
  ASSUME NEW b, Whole(b), NEW q \in DOMAIN b.nodes, NEW r \in DOMAIN b.nodes,
         TrackOf(q[1]) = TrackOf(r[1]), SharedTrack(TrackOf(r[1])), b.nodes[q].cycle = b.nodes[r].cycle
  PROVE  q = r
BY DEF Whole, Collides

\* What an occurrence that begins a slice adds to the sources and the arrows.
Joins(r)   == {q \in {r} : CanParent(q[1])}
Ties(b, r) == {<<q, r>> : q \in Parents(b, r)}

\* An occurrence that is due has all its parents among what is encoded, and is
\* the parent of none of it.
LEMMA DueIsNew ==
  ASSUME NEW b, Whole(b), NEW R, NEW r, Due(b, R, r)
  PROVE  /\ R \subseteq DOMAIN b.nodes /\ r \in DOMAIN b.nodes /\ r \notin R
         /\ Parents(b, r) \subseteq R /\ Parents(b, r) \subseteq Starts(R)
         /\ \A q \in R \cup {r} : r \notin Parents(b, q)
         /\ \A q \in R \cup {r} : ~ (ExtendsIn(b, q) /\ Previous(q) = r)
<1>1. /\ R \subseteq DOMAIN b.nodes /\ r \in DOMAIN b.nodes /\ r \notin R
      /\ Parents(b, r) \subseteq R /\ \A q \in R : Parents(b, q) \subseteq R
      /\ \A q \in R : b.nodes[q].cycle <= b.nodes[r].cycle
  BY DEF Due
<1>2. Parents(b, r) \subseteq Starts(R)
  BY <1>1, WholeIs DEF Starts
<1>3. \A q \in R \cup {r} : r \notin Parents(b, q)
  BY <1>1
<1>4. ASSUME NEW q \in R \cup {r}, ExtendsIn(b, q), Previous(q) = r PROVE FALSE
  <2>1. b.nodes[r].cycle + 1 = b.nodes[q].cycle
    BY <1>4 DEF ExtendsIn
  <2>2. b.nodes[r].cycle \in Nat /\ b.nodes[q].cycle \in Nat /\ b.nodes[q].cycle <= b.nodes[r].cycle
    BY <1>1, WholeIs
  <2> QED BY <2>1, <2>2
<1> QED BY <1>1, <1>2, <1>3, <1>4

\* An occurrence that extends its previous one adds nothing to show.
LEMMA OneMoreExtends ==
  ASSUME NEW b, Whole(b), NEW R, NEW r, Due(b, R, r), ExtendsIn(b, r)
  PROVE  /\ HeadsOf(b, R \cup {r}) = HeadsOf(b, R)
         /\ Starts(R \cup {r}) = Starts(R)
         /\ Lineage(b, R \cup {r}) = Lineage(b, R)
<1>1. \A q \in R \cup {r} : r \notin Parents(b, q)
  BY DueIsNew
<1>2. HeadsOf(b, R \cup {r}) = HeadsOf(b, R)
  BY DEF HeadsOf
<1>3. ~ CanParent(r[1])
  BY WriterAssumption DEF ExtendsIn, IsStall, CanParent
<1>4. Starts(R \cup {r}) = Starts(R)
  BY <1>3 DEF Starts
<1>5. Lineage(b, R \cup {r}) = Lineage(b, R)
  BY <1>1 DEF Lineage
<1> QED BY <1>2, <1>4, <1>5

\* What is shown of R and r is what is shown of R, a slice of r, and its arrows.
AddsSlice(b, R, r) ==
  /\ HeadsOf(b, R \cup {r}) = HeadsOf(b, R) \cup {r}
  /\ Starts(R \cup {r}) = Starts(R) \cup Joins(r)
  /\ Lineage(b, R \cup {r}) = Lineage(b, R) \cup Ties(b, r)

\* An occurrence that begins a slice adds it, and an arrow from each parent.
LEMMA OneMoreBegins ==
  ASSUME NEW b, Whole(b), NEW R, NEW r, Due(b, R, r), ~ ExtendsIn(b, r)
  PROVE  AddsSlice(b, R, r)
<1>1. /\ Parents(b, r) \subseteq R /\ \A q \in R \cup {r} : r \notin Parents(b, q)
  BY DueIsNew
<1>2. HeadsOf(b, R \cup {r}) = HeadsOf(b, R) \cup {r}
  BY DEF HeadsOf
<1>3. Starts(R \cup {r}) = Starts(R) \cup Joins(r)
  BY DEF Starts, Joins
<1>4. Lineage(b, R \cup {r}) = Lineage(b, R) \cup Ties(b, r)
  <2> DEFINE L == Lineage(b, R \cup {r})
  <2>1. ASSUME NEW a \in L PROVE a \in Lineage(b, R) \cup Ties(b, r)
    <3>1. /\ a \in (R \cup {r}) \X (R \cup {r}) /\ ~ ExtendsIn(b, a[2]) /\ a[1] \in Parents(b, a[2])
      BY <2>1 DEF Lineage
    <3>2. a = <<a[1], a[2]>> /\ a[1] \in R \cup {r} /\ a[2] \in R \cup {r}
      BY <3>1
    <3>3. a[1] \in R
      BY <1>1, <3>1, <3>2
    <3>4. CASE a[2] = r
      <4>1. a = <<a[1], r>> /\ a[1] \in Parents(b, r)
        BY <3>1, <3>2, <3>4
      <4> QED BY <4>1 DEF Ties
    <3>5. CASE a[2] \in R
      <4>1. a \in R \X R
        BY <3>2, <3>3, <3>5
      <4> QED BY <3>1, <4>1 DEF Lineage
    <3> QED BY <3>2, <3>4, <3>5
  <2>2. Lineage(b, R) \subseteq L
    BY DEF Lineage
  <2>3. ASSUME NEW q \in Parents(b, r) PROVE <<q, r>> \in L
    BY <1>1 DEF Lineage
  <2> QED BY <2>1, <2>2, <2>3 DEF Ties
<1> QED BY <1>2, <1>3, <1>4 DEF AddsSlice

\* Part of ExtendsContinues, for one run.
LEMMA ContinuesExtends ==
  ASSUME NEW w, NEW b, Whole(b), NEW t \in DOMAIN w.stalls, IsRun(w, b, t), NEW q \in DOMAIN b.nodes,
         NEW c, Continues(b, w.stalls[t], c), q = <<w.stalls[t].last[1], w.stalls[t].last[2] + 1>>
  PROVE  Previous(q) = w.stalls[t].last /\ (IsStall(q[1]) => ExtendsIn(b, q))
BY ExtendsContinues

\* The track of an open run is that of its last occurrence.
LEMMA RunTrack ==
  ASSUME NEW w, Sound(w), NEW b, Whole(b), NEW r \in DOMAIN b.nodes, NEW t \in DOMAIN w.stalls,
         t = TrackOf(r[1]), IsRun(w, b, t), w.stalls[t].last # r, Timely(w, b, b.nodes[r].cycle)
  PROVE  IsStall(r[1]) /\ ExtendsIn(b, r) /\ Previous(r) = w.stalls[t].last
         /\ w.stalls[t].parents = Parents(b, r) /\ w.stalls[t].words = b.nodes[r].words
<1> DEFINE run == w.stalls[t]
           l == run.last
           s == <<l[1], l[2] + 1>>
           c == b.nodes[r].cycle
<1>1. IsStall(l[1]) /\ TrackOf(l[1]) = t /\ SharedTrack(t)
  BY DEF Sound, Runs
<1>2. l \in DOMAIN b.nodes /\ run.cycle = b.nodes[l].cycle
  BY DEF IsRun
<1>3. run.cycle # c
  <2> SUFFICES ASSUME run.cycle = c PROVE FALSE
    OBVIOUS
  <2> HIDE DEF run, l
  <2>1. b.nodes[l].cycle = b.nodes[r].cycle
    BY <1>2 DEF c
  <2>2. l = r
    BY <1>1, <1>2, <2>1, OneOnTrack
  <2> QED BY <2>2 DEF run, l
<1>4. Continues(b, run, c)
  BY <1>3 DEF Timely
<1>5. /\ s \in DOMAIN b.nodes /\ b.nodes[s].cycle = c /\ s[1] = l[1]
      /\ b.nodes[s].words = run.words /\ Parents(b, s) = run.parents
  BY <1>4 DEF Continues
<1> HIDE DEF run, l, s
<1>6. s = r
  <2>1. TrackOf(s[1]) = TrackOf(r[1]) /\ b.nodes[s].cycle = b.nodes[r].cycle
    BY <1>1, <1>5 DEF c
  <2> QED BY <1>1, <1>5, <2>1, OneOnTrack
<1>7. Previous(r) = l /\ (IsStall(r[1]) => ExtendsIn(b, r))
  <2>1. r = <<w.stalls[t].last[1], w.stalls[t].last[2] + 1>>
    BY <1>6 DEF s, l, run
  <2>2. Continues(b, w.stalls[t], c)
    BY <1>4 DEF run
  <2> HIDE DEF c
  <2> QED BY <2>1, <2>2, ContinuesExtends DEF run, l
<1> QED BY <1>1, <1>5, <1>6, <1>7 DEF run, l

\* What a writer shows does not depend on what else it knows.
LEMMA ShowsKnown ==
  ASSUME NEW w, NEW b, NEW H, NEW P, NEW A, Shows(w, b, H, P, A), NEW v, v.out = w.out,
         NEW R, P \subseteq R, \A a \in A : a[1] \in R, \A q \in R : v.known[q] = w.known[q]
  PROVE  Shows(v, b, H, P, A)
<1>1. Slices(v.out, b, H)
  BY DEF Shows
<1>2. Sources(v.out, v.known, P)
  BY DEF Shows, Sources
<1>3. Arrows(v.out, v.known, A)
  <2>1. Arrows(w.out, w.known, A)
    BY DEF Shows
  <2>2. \A a \in A : v.known[a[1]].id = w.known[a[1]].id
    OBVIOUS
  <2>3. ASSUME NEW j \in 1 .. Len(w.out), w.out[j].type = "f"
        PROVE  /\ \E a \in A : w.out[j].id = v.known[a[1]].id /\ Begun(w.out, j, w.out[j].track, a[2])
               /\ \E i \in 1 .. j - 1 : w.out[i].type = "s" /\ w.out[i].id = w.out[j].id
    BY <2>1, <2>2, <2>3 DEF Arrows
  <2>4. ASSUME NEW a \in A
        PROVE  \E j \in 1 .. Len(w.out) :
                 w.out[j].type = "f" /\ w.out[j].id = v.known[a[1]].id /\ Begun(w.out, j, w.out[j].track, a[2])
    BY <2>1, <2>2 DEF Arrows
  <2>5. Arrows(w.out, v.known, A)
    BY <2>3, <2>4 DEF Arrows
  <2> QED BY <2>5
<1> QED BY <1>1, <1>2, <1>3 DEF Shows

\* One more occurrence is encoded.
LEMMA EncodeNodeDraws ==
  ASSUME NEW w, Sound(w), NEW b, Whole(b), NEW R, NEW r, Due(b, R, r), Drawn(w, b, R),
         Timely(w, b, b.nodes[r].cycle)
  PROVE  LET v == EncodeNode(w, b, r)
         IN  Drawn(v, b, R \cup {r}) /\ Timely(v, b, b.nodes[r].cycle)
<1> DEFINE n == b.nodes[r]
           t == TrackOf(r[1])
           entry == [id |-> Cardinality(DOMAIN w.known) + 1, cycle |-> n.cycle]
           known == With(w.known, r, entry)
           u == [w EXCEPT !.known = known]
           v == EncodeNode(w, b, r)
           Q == R \cup {r}
<1>0. /\ R \subseteq DOMAIN b.nodes /\ IsFiniteSet(R) /\ r \in DOMAIN b.nodes /\ r \notin R
      /\ Parents(b, r) \subseteq R
  BY DEF Due
<1>1. /\ DOMAIN u = Fields /\ u.stalls = w.stalls /\ u.strings = w.strings /\ u.out = w.out
      /\ u.known = known
  <2> HIDE DEF known
  <2> QED BY DEF Sound, Wellformed, Fields
<1>2. /\ DOMAIN known = DOMAIN w.known \cup {r} /\ known[r] = entry
      /\ \A q \in DOMAIN w.known : q # r => known[q] = w.known[q]
  <2> HIDE DEF entry
  <2>1. known = [y \in DOMAIN w.known \cup {r} |-> IF y = r THEN entry ELSE w.known[y]]
    BY DEF With
  <2> HIDE DEF known
  <2> QED BY <2>1
<1>3. entry.id = Cardinality(R) + 1 /\ DOMAIN w.known = R
  BY DEF Drawn, Numbered
<1>4. v = IF IsStall(r[1]) /\ t \in DOMAIN u.stalls
          THEN [u EXCEPT !.stalls[t].last = r, !.stalls[t].cycle = n.cycle]
          ELSE EncodeSlice(u, b, r)
  BY DEF EncodeNode
<1> HIDE DEF entry, known, u, v
<1>5. Sound(u)
  BY <1>1 DEF Sound, Wellformed
<1>6. DOMAIN u.known = Q /\ Numbered(u, Q)
  <2>1. Cardinality(R) \in Nat /\ Cardinality(Q) = Cardinality(R) + 1
    BY <1>0, FS_CardinalityType, FS_AddElement
  <2>2. /\ \A q \in R : w.known[q].id \in 1 .. Cardinality(R)
        /\ \A p, q \in R : w.known[p].id = w.known[q].id => p = q
    BY DEF Drawn, Numbered
  <2>3. /\ DOMAIN u.known = Q /\ u.known[r].id = Cardinality(R) + 1
        /\ \A q \in R : u.known[q] = w.known[q]
    BY <1>0, <1>1, <1>2, <1>3
  <2>4. \A q \in R : u.known[q].id \in 1 .. Cardinality(R)
    BY <2>2, <2>3
  <2>5. \A p, q \in R : u.known[p].id = u.known[q].id => p = q
    BY <2>2, <2>3
  <2>6. \A q \in Q : u.known[q].id \in 1 .. Cardinality(Q)
    BY <2>1, <2>3, <2>4
  <2>7. \A p, q \in Q : u.known[p].id = u.known[q].id => p = q
    BY <2>1, <2>3, <2>4, <2>5
  <2> QED BY <2>3, <2>6, <2>7 DEF Numbered
<1>7. Shows(u, b, HeadsOf(b, R), Starts(R), Lineage(b, R))
  <2>1. Starts(R) \subseteq R /\ \A a \in Lineage(b, R) : a[1] \in R
    BY DEF Starts, Lineage
  <2>2. \A q \in R : u.known[q] = w.known[q]
    BY <1>0, <1>1, <1>2, <1>3
  <2> QED BY <1>1, <2>1, <2>2, ShowsKnown DEF Drawn
<1>8. \A x, h : Current(u, x, h) <=> Current(w, x, h)
  BY <1>1 DEF Current
<1>9. /\ \A x \in DOMAIN w.stalls :
           /\ IsRun(w, b, x) /\ w.stalls[x].last \in R
           /\ \A q \in R : ~ (ExtendsIn(b, q) /\ Previous(q) = w.stalls[x].last)
      /\ \A q \in DOMAIN b.nodes \ R : ExtendsIn(b, q) /\ Previous(q) \in R =>
           \E x \in DOMAIN w.stalls : w.stalls[x].last = Previous(q)
  BY DEF Drawn
<1>10. /\ Parents(b, r) \subseteq Starts(R)
       /\ \A q \in Q : ~ (ExtendsIn(b, q) /\ Previous(q) = r)
  BY DueIsNew
<1>11. \A x \in DOMAIN w.stalls : TrackOf(w.stalls[x].last[1]) = x /\ IsStall(w.stalls[x].last[1])
  BY DEF Sound, Runs
<1>12. ASSUME t \in DOMAIN w.stalls
       PROVE  IsStall(r[1]) /\ ExtendsIn(b, r) /\ Previous(r) = w.stalls[t].last
              /\ w.stalls[t].parents = Parents(b, r) /\ w.stalls[t].words = n.words
  <2>1. IsRun(w, b, t) /\ w.stalls[t].last # r
    BY <1>0, <1>9, <1>12
  <2> QED BY <1>0, <1>12, <2>1, RunTrack
<1>13. CASE t \in DOMAIN w.stalls
  <2> DEFINE run == [w.stalls[t] EXCEPT !.last = r, !.cycle = n.cycle]
             stalls == [w.stalls EXCEPT ![t] = run]
  <2>1. v = [u EXCEPT !.stalls = stalls]
    BY <1>1, <1>4, <1>12, <1>13 DEF Fields
  <2>2. DOMAIN w.stalls[t] = {"last", "cycle", "words", "parents"}
    BY <1>13 DEF Sound, Runs
  <2>3. /\ run.last = r /\ run.cycle = n.cycle
        /\ run.words = w.stalls[t].words /\ run.parents = w.stalls[t].parents
    BY <2>2
  <2> HIDE DEF run
  <2>4. /\ DOMAIN stalls = DOMAIN w.stalls /\ stalls[t] = run
        /\ \A x \in DOMAIN w.stalls : x # t => stalls[x] = w.stalls[x]
    BY <1>13
  <2> HIDE DEF stalls
  <2>5. v.stalls = stalls /\ v.out = u.out /\ v.known = u.known
    BY <1>1, <2>1 DEF Fields
  <2>6. Numbered(v, Q)
    BY <1>6, <2>5 DEF Numbered
  <2>7. Shows(v, b, HeadsOf(b, Q), Starts(Q), Lineage(b, Q))
    <3>1. HeadsOf(b, Q) = HeadsOf(b, R) /\ Starts(Q) = Starts(R) /\ Lineage(b, Q) = Lineage(b, R)
      <4>1. ExtendsIn(b, r)
        BY <1>12, <1>13
      <4> HIDE DEF n, t
      <4> QED BY <4>1, OneMoreExtends
    <3> HIDE DEF Q
    <3> QED BY <1>7, <2>5, <3>1 DEF Shows
  <2>8. \A x, h : Current(v, x, h) <=> Current(w, x, h)
    BY <1>8, <2>5 DEF Current
  <2>9. IsRun(v, b, t)
    <3>1. PICK h \in DOMAIN b.nodes : Current(w, t, h) /\ w.stalls[t].last \in RunIn(b, h)
      BY <1>9, <1>13 DEF IsRun
    <3>2. r \in RunIn(b, h)
      BY <1>0, <1>12, <1>13, <3>1, RunGrows
    <3> QED BY <1>0, <1>12, <1>13, <2>3, <2>4, <2>5, <2>8, <3>1, <3>2 DEF IsRun
  <2>10. ASSUME NEW x \in DOMAIN v.stalls
         PROVE  /\ IsRun(v, b, x) /\ v.stalls[x].last \in Q
                /\ \A q \in Q : ~ (ExtendsIn(b, q) /\ Previous(q) = v.stalls[x].last)
    <3>1. CASE x = t
      BY <1>10, <2>3, <2>4, <2>5, <2>9, <3>1
    <3>2. CASE x # t
      <4>1. x \in DOMAIN w.stalls /\ v.stalls[x] = w.stalls[x]
        BY <2>4, <2>5, <3>2
      <4>2. IsRun(w, b, x)
        BY <1>9, <4>1
      <4>3. IsRun(v, b, x)
        BY <2>8, <4>1, <4>2 DEF IsRun
      <4>4. Previous(r) # w.stalls[x].last
        BY <1>11, <1>12, <1>13, <3>2, <4>1
      <4> QED BY <1>9, <4>1, <4>3, <4>4
    <3> QED BY <3>1, <3>2
  <2>11. ASSUME NEW q \in DOMAIN b.nodes \ Q, ExtendsIn(b, q), Previous(q) \in Q
         PROVE  \E x \in DOMAIN v.stalls : v.stalls[x].last = Previous(q)
    <3>1. CASE Previous(q) = r
      BY <1>13, <2>3, <2>4, <2>5, <3>1
    <3>2. CASE Previous(q) \in R
      <4>1. PICK x \in DOMAIN w.stalls : w.stalls[x].last = Previous(q)
        BY <1>9, <2>11, <3>2
      <4>2. x # t
        <5> SUFFICES ASSUME x = t PROVE FALSE
          OBVIOUS
        <5>1. Previous(q) = Previous(r)
          BY <1>12, <1>13, <4>1
        <5>2. q = <<q[1], q[2]>> /\ q[2] \in Nat /\ r = <<r[1], r[2]>> /\ r[2] \in Nat
          BY <1>0, WholeIs
        <5>3. q[1] = r[1] /\ q[2] - 1 = r[2] - 1
          BY <5>1 DEF Previous
        <5>4. q = r
          BY <5>2, <5>3
        <5> QED BY <5>4
      <4> QED BY <2>4, <2>5, <4>1, <4>2
    <3> QED BY <2>11, <3>1, <3>2
  <2>12. Drawn(v, b, Q)
    BY <2>6, <2>7, <2>10, <2>11 DEF Drawn
  <2>13. Timely(v, b, n.cycle)
    BY <2>3, <2>4, <2>5 DEF Timely
  <2> QED BY <2>12, <2>13 DEF v
<1>14. CASE t \notin DOMAIN w.stalls
  <2> DEFINE run == [last |-> r, cycle |-> n.cycle, words |-> n.words, parents |-> Parents(b, r)]
  <2>1. v = EncodeSlice(u, b, r)
    BY <1>1, <1>4, <1>14
  <2>2. ~ ExtendsIn(b, r)
    <3> SUFFICES ASSUME ExtendsIn(b, r) PROVE FALSE
      OBVIOUS
    <3>1. /\ Previous(r) \in DOMAIN b.nodes /\ b.nodes[Previous(r)].cycle + 1 = b.nodes[r].cycle
          /\ Previous(r)[1] = r[1]
      BY DEF ExtendsIn, Previous
    <3>2. b.nodes[Previous(r)].cycle \in Nat
      BY <3>1, WholeIs
    <3>3. Previous(r) \in R
      BY <3>1, <3>2 DEF Due
    <3>4. PICK x \in DOMAIN w.stalls : w.stalls[x].last = Previous(r)
      BY <1>0, <1>9, <3>3
    <3>5. x = t
      BY <1>11, <3>1, <3>4
    <3> QED BY <1>14, <3>5
  <2>3. /\ HeadsOf(b, Q) = HeadsOf(b, R) \cup {r}
        /\ Starts(Q) = Starts(R) \cup Joins(r)
        /\ Lineage(b, Q) = Lineage(b, R) \cup Ties(b, r)
    <3>1. AddsSlice(b, R, r)
      BY <2>2, OneMoreBegins
    <3> QED BY <3>1 DEF AddsSlice
  <2>4. r \notin HeadsOf(b, R) /\ \A x \in Starts(R) : u.known[x].id # u.known[r].id
    BY <1>0, <1>6 DEF HeadsOf, Starts, Numbered
  <2>5. /\ v.known = u.known /\ Current(v, t, r)
        /\ \A x, h : x # t => (Current(v, x, h) <=> Current(u, x, h))
        /\ v.stalls = IF IsStall(r[1]) THEN With(u.stalls, t, run) ELSE u.stalls
        /\ Shows(v, b, HeadsOf(b, R) \cup {r}, Starts(R) \cup Joins(r), Lineage(b, R) \cup Ties(b, r))
    <3>1. TrackOf(r[1]) \notin DOMAIN u.stalls
      BY <1>1, <1>14
    <3> DEFINE H == HeadsOf(b, R)
               P == Starts(R)
               A == Lineage(b, R)
    <3>2. Shows(u, b, H, P, A) /\ r \notin H /\ Parents(b, r) \subseteq P
          /\ \A x \in P : u.known[x].id # u.known[r].id
      BY <1>7, <1>10, <2>4
    <3> HIDE DEF H, P, A
    <3> QED BY <1>0, <1>5, <2>1, <3>1, <3>2, EncodeSliceShows DEF H, P, A, Joins, Ties
  <2>6. run.last = r /\ run.cycle = n.cycle /\ run.words = n.words /\ run.parents = Parents(b, r)
    OBVIOUS
  <2> HIDE DEF run
  <2>7. Numbered(v, Q)
    BY <1>6, <2>5 DEF Numbered
  <2>8. Shows(v, b, HeadsOf(b, Q), Starts(Q), Lineage(b, Q))
    BY <2>3, <2>5
  <2>9. /\ \A x \in DOMAIN v.stalls : x # t => x \in DOMAIN w.stalls /\ v.stalls[x] = w.stalls[x]
        /\ \A x \in DOMAIN w.stalls : x \in DOMAIN v.stalls /\ v.stalls[x] = w.stalls[x]
        /\ t \in DOMAIN v.stalls => IsStall(r[1]) /\ v.stalls[t] = run
        /\ IsStall(r[1]) => t \in DOMAIN v.stalls
    <3>1. CASE IsStall(r[1])
      <4>1. v.stalls = [x \in DOMAIN w.stalls \cup {t} |-> IF x = t THEN run ELSE w.stalls[x]]
        BY <1>1, <2>5, <3>1 DEF With
      <4> QED BY <1>14, <3>1, <4>1
    <3>2. CASE ~ IsStall(r[1])
      BY <1>1, <1>14, <2>5, <3>2
    <3> QED BY <3>1, <3>2
  <2>10. ASSUME NEW x \in DOMAIN v.stalls
         PROVE  /\ IsRun(v, b, x) /\ v.stalls[x].last \in Q
                /\ \A q \in Q : ~ (ExtendsIn(b, q) /\ Previous(q) = v.stalls[x].last)
    <3>1. CASE x = t
      <4>1. r \in RunIn(b, r)
        BY <1>0, RunGrows
      <4>2. IsRun(v, b, t)
        BY <1>0, <2>5, <2>6, <2>9, <3>1, <4>1 DEF IsRun
      <4> QED BY <1>10, <2>6, <2>9, <3>1, <4>2
    <3>2. CASE x # t
      <4>1. x \in DOMAIN w.stalls /\ v.stalls[x] = w.stalls[x]
        BY <2>9, <3>2
      <4>2. IsRun(w, b, x) /\ \A h : Current(v, x, h) <=> Current(w, x, h)
        BY <1>8, <1>9, <2>5, <3>2, <4>1
      <4>3. IsRun(v, b, x)
        BY <4>1, <4>2 DEF IsRun
      <4> QED BY <1>9, <2>2, <4>1, <4>3
    <3> QED BY <3>1, <3>2
  <2>11. ASSUME NEW q \in DOMAIN b.nodes \ Q, ExtendsIn(b, q), Previous(q) \in Q
         PROVE  \E x \in DOMAIN v.stalls : v.stalls[x].last = Previous(q)
    <3>1. CASE Previous(q) = r
      <4>1. IsStall(r[1])
        BY <2>11, <3>1 DEF ExtendsIn, Previous
      <4> QED BY <2>6, <2>9, <3>1, <4>1
    <3>2. CASE Previous(q) \in R
      BY <1>9, <2>9, <2>11, <3>2
    <3> QED BY <2>11, <3>1, <3>2
  <2>12. Drawn(v, b, Q)
    BY <2>7, <2>8, <2>10, <2>11 DEF Drawn
  <2>13. Timely(v, b, n.cycle)
    BY <2>6, <2>9 DEF Timely
  <2> QED BY <2>12, <2>13 DEF v
<1> QED BY <1>13, <1>14

\* Before the first occurrence.
LEMMA NothingDrawn ==
  ASSUME NEW b
  PROVE  Drawn(NewWriter, b, {})
<1> DEFINE w == NewWriter
<1>1. w.stalls = <<>> /\ w.known = <<>> /\ w.out = <<>>
  BY DEF NewWriter
<1> HIDE DEF w
<1>2. DOMAIN w.stalls = {} /\ DOMAIN w.known = {} /\ 1 .. Len(w.out) = {}
  BY <1>1, EmptyIsSeq
<1>3. HeadsOf(b, {}) = {} /\ Starts({}) = {} /\ Lineage(b, {}) = {}
  BY DEF HeadsOf, Starts, Lineage
<1>4. Slices(w.out, b, {}) /\ Sources(w.out, w.known, {}) /\ Arrows(w.out, w.known, {})
  BY <1>2 DEF Slices, Sources, Arrows
<1>5. Shows(w, b, HeadsOf(b, {}), Starts({}), Lineage(b, {}))
  BY <1>3, <1>4 DEF Shows
<1>6. Numbered(w, {})
  BY <1>2 DEF Numbered
<1> QED BY <1>2, <1>5, <1>6 DEF Drawn, w

\* The first i occurrences of the order have been encoded.
DrawnTo(w, b, order, i) ==
  /\ Sound(w) /\ Drawn(w, b, {order[j] : j \in 1 .. i})
  /\ i > 0 => Timely(w, b, b.nodes[order[i]].cycle)

\* The next occurrence of the order, which may be the first of its cycle.
LEMMA EncodeNextDraws ==
  ASSUME NEW b, Whole(b), NEW order, order = Order(b), NEW i \in 0 .. Len(order) - 1,
         NEW w, DrawnTo(w, b, order, i), Sound(EncodeNext(w, b, order, i + 1))
  PROVE  DrawnTo(EncodeNext(w, b, order, i + 1), b, order, i + 1)
<1> DEFINE r == order[i + 1]
           c == b.nodes[r].cycle
           first == i + 1 = 1 \/ b.nodes[order[i]].cycle # c
           u == IF first THEN StartCycle(w, b, c) ELSE w
           R == {order[j] : j \in 1 .. i}
           v == EncodeNext(w, b, order, i + 1)
<1>0. i \in Nat /\ (i + 1) - 1 = i /\ order \in Seq(DOMAIN b.nodes) /\ i + 1 \in 1 .. Len(order)
  BY OrderIsComplete DEF Whole
<1>1. Due(b, R, r)
  BY OrderIsDue
<1>2. v = EncodeNode(u, b, r)
  BY <1>0 DEF EncodeNext
<1>3. {order[j] : j \in 1 .. i + 1} = R \cup {r}
  BY <1>0
<1>4. ASSUME i > 0, b.nodes[order[i]].cycle # c PROVE \A q \in R : b.nodes[q].cycle < c
  <2> DEFINE k == i - 1
             s == order[i]
             Q == {order[j] : j \in 1 .. k}
  <2>1. k \in 0 .. Len(order) - 1 /\ k + 1 = i
    BY <1>0, <1>4
  <2>2. Due(b, {Order(b)[j] : j \in 1 .. k}, Order(b)[k + 1])
    BY <2>1, OrderIsDue
  <2>3. Due(b, Q, s)
    BY <2>1, <2>2
  <2>4. R = Q \cup {s}
    BY <1>0, <2>1
  <2> HIDE DEF R, Q, s, r
  <2>5. s \in DOMAIN b.nodes /\ r \in DOMAIN b.nodes /\ R \subseteq DOMAIN b.nodes
    BY <1>1, <2>3 DEF Due
  <2>6. \A q \in DOMAIN b.nodes : b.nodes[q].cycle \in Nat
    BY WholeIs
  <2>7. (\A q \in Q : b.nodes[q].cycle <= b.nodes[s].cycle) /\ b.nodes[s].cycle <= c
    BY <1>1, <2>3, <2>4 DEF Due
  <2>8. b.nodes[s].cycle # c
    BY <1>4 DEF s
  <2> QED BY <2>4, <2>5, <2>6, <2>7, <2>8
<1>5. Sound(w) /\ Drawn(w, b, R) /\ (i > 0 => Timely(w, b, b.nodes[order[i]].cycle))
  BY DEF DrawnTo
<1>6. ASSUME i = 0 PROVE R = {}
  BY <1>6
<1> HIDE DEF R, v, r
<1>7. Sound(u) /\ Drawn(u, b, R) /\ Timely(u, b, c)
  <2>1. CASE first
    <3>1. \A q \in R : b.nodes[q].cycle < b.nodes[r].cycle
      BY <1>0, <1>4, <1>6, <2>1
    <3>2. u = StartCycle(w, b, c)
      BY <2>1
    <3>3. Sound(StartCycle(w, b, c))
      BY <1>5, StartCycleIs
    <3>4. Drawn(StartCycle(w, b, c), b, R) /\ Timely(StartCycle(w, b, c), b, c)
      BY <1>1, <1>5, <3>1, StartCycleDraws
    <3> QED BY <3>2, <3>3, <3>4
  <2>2. CASE ~ first
    <3>1. u = w /\ i > 0 /\ b.nodes[order[i]].cycle = c
      BY <1>0, <2>2
    <3> QED BY <1>5, <3>1
  <2> QED BY <2>1, <2>2
<1> HIDE DEF u
<1>8. Drawn(v, b, R \cup {r}) /\ Timely(v, b, c)
  BY <1>1, <1>2, <1>7, EncodeNodeDraws
<1> QED BY <1>0, <1>3, <1>8 DEF v, r, DrawnTo

\* A whole batch has been encoded.
LEMMA EncodeAllDraws ==
  ASSUME NEW b, Whole(b)
  PROVE  LET all == EncodeAll(NewWriter, b)
         IN  Sound(all) /\ Drawn(all, b, DOMAIN b.nodes)
<1> DEFINE order == Order(b)
           n == Len(order)
           all == EncodeAll(NewWriter, b)
           R(i) == {order[j] : j \in 1 .. i}
<1>1. /\ order \in Seq(DOMAIN b.nodes) /\ {order[j] : j \in 1 .. n} = DOMAIN b.nodes
      /\ BatchTyped(b) /\ ~ Circular(b) /\ ~ Collides(b) /\ Sound(NewWriter)
  <2>1. BatchTyped(b) /\ ~ Circular(b) /\ ~ Collides(b)
    BY DEF Whole
  <2>2. order \in Seq(DOMAIN b.nodes) /\ ToSet(order) = DOMAIN b.nodes
    BY <2>1, OrderIsComplete
  <2> HIDE DEF order
  <2> QED BY <2>1, <2>2, NewWriterIs DEF ToSet
<1>2. n \in Nat /\ \E f : EncodingLoop(f, NewWriter, b, n)
  BY <1>1, EncodeAllLoop
<1>3. order = Order(b) /\ n = Len(order)
  OBVIOUS
<1> HIDE DEF n
<1>4. PICK f : EncodingLoop(f, NewWriter, b, n)
  BY <1>2
<1>5. /\ f[0] = NewWriter /\ f[n] = all
      /\ \A i \in 0 .. n : Sound(f[i])
      /\ \A i \in 0 .. n - 1 : f[i + 1] = EncodeNext(f[i], b, order, i + 1)
  BY <1>4 DEF EncodingLoop, Encoding
<1> HIDE DEF order, all
<1> DEFINE S == {i \in Nat : DrawnTo(f[i], b, order, i)}
<1>6. 0 \in S
  <2>1. R(0) = {}
    OBVIOUS
  <2>2. Drawn(NewWriter, b, {})
    BY NothingDrawn
  <2>3. Drawn(NewWriter, b, {order[j] : j \in 1 .. 0})
    BY <2>1, <2>2
  <2>4. DrawnTo(NewWriter, b, order, 0)
    BY <1>1, <2>3 DEF DrawnTo
  <2> QED BY <1>5, <2>4
<1>7. ASSUME NEW i \in 0 .. n - 1, i \in S PROVE i + 1 \in S
  <2>1. i \in 0 .. Len(order) - 1 /\ i \in 0 .. n /\ i \in Nat /\ i + 1 \in Nat
    BY <1>2, <1>3
  <2>2. f[i + 1] = EncodeNext(f[i], b, order, i + 1) /\ Sound(EncodeNext(f[i], b, order, i + 1))
    <3>1. i + 1 \in 0 .. n
      BY <1>2
    <3> QED BY <1>5, <3>1
  <2>3. DrawnTo(f[i], b, order, i)
    BY <1>7
  <2>4. DrawnTo(EncodeNext(f[i], b, order, i + 1), b, order, i + 1)
    BY <1>3, <2>1, <2>2, <2>3, EncodeNextDraws
  <2> QED BY <2>1, <2>2, <2>4
<1>8. n \in S
  <2> HIDE DEF S
  <2>1. \A i \in 0 .. n : i \in S
    BY <1>2, <1>6, <1>7, UpToBound
  <2> QED BY <1>2, <2>1
<1>9. Sound(all) /\ Drawn(all, b, R(n))
  BY <1>2, <1>5, <1>8 DEF DrawnTo
<1> QED BY <1>1, <1>9 DEF all

\* A writer that has been given the whole of a batch shows it, whichever runs
\* it has ended.
Displays(w, b) ==
  LET D == DOMAIN b.nodes
  IN  Numbered(w, D) /\ Shows(w, b, HeadsOf(b, D), Starts(D), Lineage(b, D))

\* Ending runs of a batch that has been encoded leaves all of it shown.
LEMMA ClosedDisplays ==
  ASSUME NEW b, Whole(b), NEW all, all = EncodeAll(NewWriter, b), NEW tracks, tracks \subseteq DOMAIN all.stalls
  PROVE  Displays(CloseStalls(all, tracks), b)
<1> DEFINE D == DOMAIN b.nodes
           v == CloseStalls(all, tracks)
           H == HeadsOf(b, D)
           P == Starts(D)
           A == Lineage(b, D)
<1>1. Sound(all) /\ Drawn(all, b, D)
  BY EncodeAllDraws
<1>2. Numbered(all, D) /\ Shows(all, b, H, P, A)
  BY <1>1 DEF Drawn
<1>3. \A t \in tracks : IsRun(all, b, t) /\ LastOf(b, all.stalls[t].last)
  BY <1>1 DEF Drawn, LastOf
<1> HIDE DEF H, P, A
<1>4. v.known = all.known /\ Shows(v, b, H, P, A)
  BY <1>1, <1>2, <1>3, CloseStallsShow
<1>5. Numbered(v, D)
  BY <1>2, <1>4 DEF Numbered
<1> QED BY <1>4, <1>5 DEF Displays, H, P, A

------------------------------------------------------------------------------
(* What an importer shows.                                                 *)

\* The slice an arrow or an end belongs to is that of the last packet that
\* began one on its track.
LEMMA SliceIs ==
  ASSUME IsSeq(writer.out), NEW i \in DOMAIN writer.out, NEW h,
         Begun(writer.out, i, writer.out[i].track, h)
  PROVE  SliceOf(i) = h
<1> DEFINE out == writer.out
           t == out[i].track
           begun == UpTo(i, t) \cap Packets("begin")
           Latest(j) == j \in begun /\ \A k \in begun : k <= j
<1>1. Len(out) \in Nat /\ DOMAIN out = 1 .. Len(out) /\ i \in 1 .. Len(out)
  BY SeqFacts
<1>2. begun = {j \in 1 .. i : Begins(out, j, t)}
  BY <1>1 DEF UpTo, Packets, Begins
<1>3. PICK j \in 1 .. i : /\ Begins(out, j, t) /\ out[j].ref = h
                          /\ \A k \in j + 1 .. i : ~ Begins(out, k, t)
  BY DEF Begun
<1> HIDE DEF begun, t
<1>4. j \in Nat /\ \A k \in begun : k \in Nat
  BY <1>1, <1>2, <1>3
<1>5. Latest(j)
  <2> SUFFICES ASSUME NEW k \in begun, ~ (k <= j) PROVE FALSE
    BY <1>2, <1>3
  <2>1. k \in j + 1 .. i
    BY <1>1, <1>2, <1>3, <1>4
  <2> QED BY <1>2, <1>3, <2>1
<1>6. \A m : Latest(m) => m = j
  BY <1>4, <1>5
<1>7. (CHOOSE m \in begun : \A k \in begun : k <= m) = j
  BY <1>5, <1>6
<1>8. SliceOf(i) = out[CHOOSE m \in begun : \A k \in begun : k <= m].ref
  BY DEF SliceOf, begun, t
<1> QED BY <1>3, <1>7, <1>8

\* One slice for each head.
LEMMA OneSliceEach ==
  ASSUME NEW b, NEW H, IsSeq(writer.out), Slices(writer.out, b, H)
  PROVE  /\ Cardinality(Packets("begin")) = Cardinality(H)
         /\ {writer.out[i].ref : i \in Packets("begin")} = H
<1> DEFINE out == writer.out
           B == Packets("begin")
           f == [i \in B |-> out[i].ref]
<1>1. Len(out) \in Nat /\ DOMAIN out = 1 .. Len(out) /\ B = {i \in 1 .. Len(out) : out[i].type = "begin"}
  BY SeqFacts DEF Packets
<1>2. /\ \A i \in B : out[i].ref \in H
      /\ \A h \in H : \E i \in B : out[i].ref = h
      /\ \A i, j \in B : out[i].ref = out[j].ref => i = j
  BY <1>1 DEF Slices
<1> HIDE DEF B
<1>3. IsFiniteSet(B)
  <2>1. IsFiniteSet(1 .. Len(out)) /\ B \subseteq 1 .. Len(out)
    BY <1>1, FS_Interval
  <2> QED BY <2>1, FS_Subset
<1>4. f \in [B -> H] /\ \A i \in B : f[i] = out[i].ref
  BY <1>2
<1> HIDE DEF f
<1>5. f \in Bijection(B, H)
  <2>1. \A i, j \in B : f[i] = f[j] => i = j
    BY <1>2, <1>4
  <2>2. \A h \in H : \E i \in B : f[i] = h
    BY <1>2, <1>4
  <2> QED BY <1>4, <2>1, <2>2 DEF Bijection, Injection, Surjection, IsInjective
<1>6. Cardinality(H) = Cardinality(B)
  BY <1>3, <1>5, FS_Bijection DEF ExistsBijection
<1> QED BY <1>2, <1>6 DEF B

\* A batch that is what has been written.
Records(b) ==
  /\ DOMAIN b.nodes = DOMAIN writer.known /\ b.edges = WrittenEdges
  /\ \A r \in DOMAIN b.nodes : b.nodes[r] = nodes[r]

\* Its runs are those of the graph.
LEMMA RunsAgree ==
  ASSUME NEW b, Whole(b), Records(b)
  PROVE  /\ \A r : ParentsOf(r) = Parents(b, r)
         /\ \A r \in DOMAIN b.nodes : Extends(r) <=> ExtendsIn(b, r)
         /\ Heads = HeadsOf(b, DOMAIN b.nodes)
         /\ \A h \in DOMAIN b.nodes : Run(h) = RunIn(b, h)
<1> DEFINE D == DOMAIN b.nodes
<1>1. \A r : ParentsOf(r) = Parents(b, r)
  BY DEF ParentsOf, Parents, Records
<1>2. D = DOMAIN writer.known /\ \A r \in D : b.nodes[r] = nodes[r]
  BY DEF Records
<1>3. ASSUME NEW r \in D PROVE Extends(r) <=> ExtendsIn(b, r)
  BY <1>1, <1>2 DEF Extends, ExtendsIn, Previous
<1>4. Heads = HeadsOf(b, D)
  BY <1>2, <1>3 DEF Heads, HeadsOf
<1>5. ASSUME NEW h \in D PROVE Run(h) = RunIn(b, h)
  <2>1. h[2] \in Nat /\ \A r \in D : r[2] \in Nat /\ r = <<r[1], r[2]>>
    BY WholeIs
  <2>2. ASSUME NEW r \in D, r[1] = h[1], r[2] >= h[2]
        PROVE  (\A k \in h[2] + 1 .. r[2] : Extends(<<h[1], k>>))
                 <=> (\A k \in h[2] + 1 .. r[2] : ExtendsIn(b, <<h[1], k>>))
    <3>1. r[2] \in Nat /\ <<h[1], r[2]>> \in D
      BY <2>1, <2>2
    <3>2. \A k \in Nat : Extends(<<h[1], k>>) => <<h[1], k - 1>> \in D
      BY <1>2 DEF Extends
    <3>3. \A k \in Nat : ExtendsIn(b, <<h[1], k>>) => <<h[1], k - 1>> \in D
      BY DEF ExtendsIn, Previous
    <3>4. ASSUME \A k \in h[2] + 1 .. r[2] : Extends(<<h[1], k>>), NEW k \in h[2] + 1 .. r[2]
          PROVE  ExtendsIn(b, <<h[1], k>>)
      <4>1. <<h[1], k>> \in D
        <5>1. CASE k = r[2]
          BY <3>1, <5>1
        <5>2. CASE k # r[2]
          <6>1. k + 1 \in h[2] + 1 .. r[2] /\ k + 1 \in Nat /\ (k + 1) - 1 = k
            BY <2>1, <3>1, <5>2
          <6> QED BY <3>2, <3>4, <6>1
        <5> QED BY <5>1, <5>2
      <4> QED BY <1>3, <3>4, <4>1
    <3>5. ASSUME \A k \in h[2] + 1 .. r[2] : ExtendsIn(b, <<h[1], k>>), NEW k \in h[2] + 1 .. r[2]
          PROVE  Extends(<<h[1], k>>)
      <4>1. <<h[1], k>> \in D
        <5>1. CASE k = r[2]
          BY <3>1, <5>1
        <5>2. CASE k # r[2]
          <6>1. k + 1 \in h[2] + 1 .. r[2] /\ k + 1 \in Nat /\ (k + 1) - 1 = k
            BY <2>1, <3>1, <5>2
          <6> QED BY <3>3, <3>5, <6>1
        <5> QED BY <5>1, <5>2
      <4> QED BY <1>3, <3>5, <4>1
    <3> QED BY <3>4, <3>5
  <2> QED BY <1>2, <2>2 DEF Run, RunIn
<1> QED BY <1>1, <1>3, <1>4, <1>5

\* The arrows of the edges, each from its parent to the head of its run.
LEMMA EdgesAre ==
  ASSUME NEW b, Whole(b), Records(b)
  PROVE  {<<a[1][1], a[2]>> : a \in {p \in WrittenEdges \X Heads : p[1][2] \in Run(p[2])}}
           = Lineage(b, DOMAIN b.nodes)
<1> DEFINE D == DOMAIN b.nodes
           L == Lineage(b, D)
           E == WrittenEdges
           X == {p \in E \X Heads : p[1][2] \in Run(p[2])}
           Y == {<<a[1][1], a[2]>> : a \in X}
<1>1. /\ b.edges = E /\ Heads = HeadsOf(b, D)
      /\ \A h \in D : Run(h) = RunIn(b, h)
  BY RunsAgree DEF Records
<1>2. \A e \in E : e[1] \in D /\ e[2] \in D /\ e[1] \in Parents(b, e[2])
  BY <1>1 DEF Whole, Parents
<1>3. \A h \in Heads : h \in D /\ ~ ExtendsIn(b, h)
  BY <1>1 DEF HeadsOf
<1> HIDE DEF E
<1>4. ASSUME NEW e \in E, NEW h \in Heads, e[2] \in Run(h) PROVE <<e[1], h>> \in L
  <2>1. h \in D /\ e[2] \in RunIn(b, h)
    BY <1>1, <1>3, <1>4
  <2>2. Parents(b, e[2]) = Parents(b, h)
    BY <2>1, RunIs
  <2> QED BY <1>2, <1>3, <2>1, <2>2 DEF Lineage
<1>5. ASSUME NEW a \in L PROVE \E e \in E, h \in Heads : e[2] \in Run(h) /\ a = <<e[1], h>>
  <2>1. a = <<a[1], a[2]>> /\ a[1] \in D /\ a[2] \in D /\ ~ ExtendsIn(b, a[2]) /\ a[1] \in Parents(b, a[2])
    BY DEF Lineage
  <2>2. a[2] \in Heads
    BY <1>1, <2>1 DEF HeadsOf
  <2>3. PICK e \in E : e[2] = a[2] /\ e[1] = a[1]
    BY <1>1, <2>1 DEF Parents
  <2>4. a[2] \in Run(a[2])
    BY <1>1, <2>1, RunGrows
  <2> QED BY <2>1, <2>2, <2>3, <2>4
<1> HIDE DEF L
<1>6. Y \subseteq L
  <2> SUFFICES ASSUME NEW a \in X PROVE <<a[1][1], a[2]>> \in L
    OBVIOUS
  <2>1. a[1] \in E /\ a[2] \in Heads /\ a[1][2] \in Run(a[2])
    OBVIOUS
  <2> QED BY <1>4, <2>1
<1>7. L \subseteq Y
  <2> SUFFICES ASSUME NEW a \in L PROVE a \in Y
    OBVIOUS
  <2>1. PICK e \in E, h \in Heads : e[2] \in Run(h) /\ a = <<e[1], h>>
    BY <1>5
  <2>2. <<e, h>> \in X
    BY <2>1
  <2>3. <<(<<e, h>>)[1][1], (<<e, h>>)[2]>> \in Y
    <3> HIDE DEF X
    <3> QED BY <2>2
  <2> QED BY <2>1, <2>3
<1>8. Y = L
  BY <1>6, <1>7
<1> QED BY <1>8 DEF L, E

\* The arrows of the trace.
LEMMA ArrowsAre ==
  ASSUME NEW D, NEW P, P \subseteq D, NEW A, \A a \in A : a = <<a[1], a[2]>> /\ a[1] \in P,
         IsSeq(writer.out), Sources(writer.out, writer.known, P), Arrows(writer.out, writer.known, A),
         \A p, q \in D : writer.known[p].id = writer.known[q].id => p = q
  PROVE  {<<SliceOf(a[1]), SliceOf(a[2])>> : a \in
            {p \in Packets("s") \X Packets("f") : writer.out[p[1]].id = writer.out[p[2]].id}} = A
<1> DEFINE out == writer.out
           S == Packets("s")
           F == Packets("f")
           X == {p \in S \X F : out[p[1]].id = out[p[2]].id}
           Y == {<<SliceOf(a[1]), SliceOf(a[2])>> : a \in X}
<1>1. /\ Len(out) \in Nat /\ DOMAIN out = 1 .. Len(out)
      /\ S = {i \in 1 .. Len(out) : out[i].type = "s"} /\ F = {i \in 1 .. Len(out) : out[i].type = "f"}
  BY SeqFacts DEF Packets
<1> HIDE DEF S, F
<1>2. ASSUME NEW i \in S PROVE SliceOf(i) \in P /\ out[i].id = writer.known[SliceOf(i)].id
  <2>1. PICK q \in P : out[i].id = writer.known[q].id /\ Begun(out, i, out[i].track, q)
    BY <1>1 DEF Sources
  <2>2. SliceOf(i) = q
    BY <1>1, <2>1, SliceIs
  <2> QED BY <2>1, <2>2
<1>3. ASSUME NEW j \in F
      PROVE  \E a \in A : a[2] = SliceOf(j) /\ out[j].id = writer.known[a[1]].id
  <2>1. PICK a \in A : out[j].id = writer.known[a[1]].id /\ Begun(out, j, out[j].track, a[2])
    BY <1>1 DEF Arrows
  <2>2. SliceOf(j) = a[2]
    BY <1>1, <2>1, SliceIs
  <2> QED BY <2>1, <2>2
<1>4. ASSUME NEW a \in A
      PROVE  \E i \in S, j \in F : out[i].id = out[j].id /\ a = <<SliceOf(i), SliceOf(j)>>
  <2>1. PICK j \in 1 .. Len(out) :
          out[j].type = "f" /\ out[j].id = writer.known[a[1]].id /\ Begun(out, j, out[j].track, a[2])
    BY DEF Arrows
  <2>2. SliceOf(j) = a[2] /\ j \in F
    BY <1>1, <2>1, SliceIs
  <2>3. PICK i \in 1 .. j - 1 : out[i].type = "s" /\ out[i].id = out[j].id
    BY <2>1 DEF Arrows
  <2>4. i \in S
    BY <1>1, <2>3
  <2>5. SliceOf(i) = a[1]
    BY <1>2, <2>1, <2>3, <2>4
  <2> QED BY <2>2, <2>3, <2>4, <2>5
<1>5. ASSUME NEW i \in S, NEW j \in F, out[i].id = out[j].id PROVE <<SliceOf(i), SliceOf(j)>> \in A
  <2>1. PICK a \in A : a[2] = SliceOf(j) /\ out[j].id = writer.known[a[1]].id
    BY <1>3
  <2>2. SliceOf(i) = a[1]
    BY <1>2, <1>5, <2>1
  <2> QED BY <2>1, <2>2
<1>6. Y \subseteq A
  <2> SUFFICES ASSUME NEW a \in X PROVE <<SliceOf(a[1]), SliceOf(a[2])>> \in A
    OBVIOUS
  <2>1. a[1] \in S /\ a[2] \in F /\ out[a[1]].id = out[a[2]].id
    OBVIOUS
  <2> QED BY <1>5, <2>1
<1>7. A \subseteq Y
  <2> SUFFICES ASSUME NEW a \in A PROVE a \in Y
    OBVIOUS
  <2>1. PICK i \in S, j \in F : out[i].id = out[j].id /\ a = <<SliceOf(i), SliceOf(j)>>
    BY <1>4
  <2>2. <<i, j>> \in X
    BY <2>1
  <2>3. <<SliceOf((<<i, j>>)[1]), SliceOf((<<i, j>>)[2])>> \in Y
    <3> HIDE DEF X
    <3> QED BY <2>2
  <2> QED BY <2>1, <2>3
<1>8. Y = A
  BY <1>6, <1>7
<1> QED BY <1>8 DEF S, F

\* A writer that shows what has been written shows the graph.
LEMMA DisplaysSuffices ==
  ASSUME NEW b, Whole(b), Records(b), IsSeq(writer.out), Displays(writer, b)
  PROVE  DisplayIsGraph
<1> DEFINE out == writer.out
           D == DOMAIN b.nodes
           H == HeadsOf(b, D)
           P == Starts(D)
           A == Lineage(b, D)
<1>1. /\ Slices(out, b, H) /\ Sources(out, writer.known, P) /\ Arrows(out, writer.known, A)
      /\ \A p, q \in D : writer.known[p].id = writer.known[q].id => p = q
  BY DEF Displays, Shows, Numbered
<1>2. /\ H \subseteq D /\ P \subseteq D /\ Heads = H
      /\ \A h \in D : Run(h) = RunIn(b, h) /\ RunIn(b, h) \subseteq D
      /\ \A r \in D : b.nodes[r] = nodes[r]
  BY RunsAgree DEF HeadsOf, Starts, RunIn, Records
<1>3. \A a \in A : a = <<a[1], a[2]>> /\ a[1] \in P
  BY WholeIs DEF Lineage, Starts
<1>4. Len(out) \in Nat /\ DOMAIN out = 1 .. Len(out)
  BY SeqFacts
<1> HIDE DEF D, H, P, A
<1>5. Cardinality(Packets("begin")) = Cardinality(Heads) /\ {out[i].ref : i \in Packets("begin")} = Heads
  BY <1>1, <1>2, OneSliceEach
<1>6. ASSUME NEW i \in Packets("end")
      PROVE  \E r \in Run(SliceOf(i)) :
               /\ out[i].at = nodes[r].cycle + 1
               /\ \A q \in Run(SliceOf(i)) : nodes[q].cycle <= nodes[r].cycle
  <2>1. i \in 1 .. Len(out) /\ i \in DOMAIN out /\ out[i].type = "end"
    BY <1>4 DEF Packets
  <2>2. PICK h : Begun(out, i, out[i].track, h) /\ EndsRun(b, h, out[i].at)
    BY <1>1, <2>1 DEF Slices
  <2>3. SliceOf(i) = h
    BY <2>1, <2>2, SliceIs
  <2>4. h \in H
    <3>1. PICK j \in 1 .. i : Begins(out, j, out[i].track) /\ out[j].ref = h
      BY <2>2 DEF Begun
    <3>2. j \in 1 .. Len(out)
      BY <1>4, <2>1
    <3> QED BY <1>1, <3>1, <3>2 DEF Begins, Slices
  <2>5. Run(h) = RunIn(b, h) /\ \A q \in Run(h) : nodes[q] = b.nodes[q]
    BY <1>2, <2>4
  <2> QED BY <2>2, <2>3, <2>5 DEF EndsRun
<1>7. {<<SliceOf(a[1]), SliceOf(a[2])>> : a \in {p \in Packets("s") \X Packets("f") : out[p[1]].id = out[p[2]].id}}
        = A
  BY <1>1, <1>2, <1>3, ArrowsAre
<1>8. {<<a[1][1], a[2]>> : a \in {p \in WrittenEdges \X Heads : p[1][2] \in Run(p[2])}} = A
  BY EdgesAre DEF A, D
<1>9. ASSUME NEW j \in Packets("f")
      PROVE  Cardinality({i \in Packets("s") : i < j /\ out[i].id = out[j].id}) = 1
  <2>1. j \in 1 .. Len(out) /\ out[j].type = "f"
    BY <1>4 DEF Packets
  <2>2. PICK i \in 1 .. j - 1 : out[i].type = "s" /\ out[i].id = out[j].id
    BY <1>1, <2>1 DEF Arrows
  <2>3. i \in Packets("s") /\ i < j
    BY <1>4, <2>1, <2>2 DEF Packets
  <2>4. ASSUME NEW k \in Packets("s"), out[k].id = out[j].id PROVE k = i
    <3>1. k \in 1 .. Len(out) /\ out[k].type = "s" /\ i \in 1 .. Len(out)
      BY <1>4, <2>1, <2>4 DEF Packets
    <3> QED BY <1>1, <2>2, <2>4, <3>1 DEF Sources
  <2>5. {k \in Packets("s") : k < j /\ out[k].id = out[j].id} = {i}
    BY <2>2, <2>3, <2>4
  <2> QED BY <2>5, FS_Singleton
<1>10. {<<SliceOf(a[1]), SliceOf(a[2])>> : a \in {p \in Packets("s") \X Packets("f") : out[p[1]].id = out[p[2]].id}}
         = {<<a[1][1], a[2]>> : a \in {p \in WrittenEdges \X Heads : p[1][2] \in Run(p[2])}}
  BY <1>7, <1>8
<1> QED BY <1>5, <1>6, <1>9, <1>10 DEF DisplayIsGraph

\* While the trace is under way the writer shows what has been streamed.
LEMMA MirroringDisplays ==
  ASSUME SystemInv, driver = "running", Mirroring
  PROVE  /\ Whole(Snapshot) /\ Records(Snapshot) /\ Displays(writer, Snapshot)
         /\ \A v : v.known = writer.known /\ v.out = Finish(writer).out => Displays(v, Snapshot)
<1> DEFINE a == Snapshot
           all == EncodeAll(NewWriter, a)
           T == DOMAIN all.stalls
           K == Past(all, writer.watermark)
<1>1. /\ BatchTyped(a) /\ a.cycle \in Int /\ DOMAIN a.nodes = Streamed
      /\ \A r \in Streamed : a.nodes[r] = nodes[r]
      /\ a.edges = WrittenEdges /\ WrittenEdges = StreamedEdges
      /\ \A e \in StreamedEdges : {e[1], e[2]} \subseteq Streamed
  BY SnapshotIs
<1>2. /\ ~ Circular(a) /\ ~ Collides(a) /\ Mirrors(writer, a)
      /\ DOMAIN writer.known = Streamed /\ writer.watermark \in Int /\ ~ writer.finished
      /\ \A e \in StreamedEdges : ValidEdge(e, nodes)
  BY DEF Mirroring, SystemInv, Following, IInv, StreamedIsValid
<1>3. Records(a)
  BY <1>1, <1>2 DEF Records
<1> HIDE DEF a
<1>4. ASSUME NEW e \in a.edges
      PROVE  /\ e[1] \in DOMAIN a.nodes /\ e[2] \in DOMAIN a.nodes
             /\ <<e[1][1], e[2][1]>> \in Dependencies
             /\ a.nodes[e[1]].cycle <= a.nodes[e[2]].cycle
  BY <1>1, <1>2 DEF ValidEdge
<1>5. Whole(a)
  BY <1>1, <1>2, <1>4 DEF Whole
<1>6. Displays(CloseStalls(all, K), a)
  <2>1. K \subseteq T
    BY DEF Past
  <2> HIDE DEF K, all
  <2> QED BY <1>5, <2>1, ClosedDisplays DEF all
<1>7. Displays(CloseStalls(all, T), a)
  <2>1. T \subseteq DOMAIN all.stalls
    OBVIOUS
  <2> HIDE DEF T, all
  <2> QED BY <1>5, <2>1, ClosedDisplays DEF all
<1>8. Same(writer, CloseStalls(all, K))
  BY <1>2 DEF Mirrors
<1>9. Finish(writer).out = CloseStalls(all, T).out
  BY <1>1, <1>2, MirrorsFinish
<1>10. CloseStalls(all, K).known = all.known /\ CloseStalls(all, T).known = all.known
  <2>1. Sound(all) /\ K \subseteq T
    BY <1>5, EncodeAllDraws DEF Past
  <2> HIDE DEF all, K
  <2> QED BY <2>1, CloseStallsIs
<1> HIDE DEF all, K, T
<1>11. \A v, w : v.known = w.known /\ v.out = w.out /\ Displays(w, a) => Displays(v, a)
  BY DEF Displays, Numbered, Shows
<1>12. Displays(writer, a)
  BY <1>6, <1>8, <1>11 DEF Same
<1>13. \A v : v.known = writer.known /\ v.out = Finish(writer).out => Displays(v, a)
  <2>1. writer.known = CloseStalls(all, T).known
    BY <1>8, <1>10 DEF Same
  <2> QED BY <1>7, <1>9, <1>11, <2>1
<1> QED BY <1>3, <1>5, <1>12, <1>13 DEF a

\* A closed trace shows the graph.
DisplayInv ==
  /\ ReplayInv
  /\ driver = "closed" => \E b : Whole(b) /\ Records(b) /\ Displays(writer, b)

\* The trace that is closed shows all of it.
LEMMA CloseTraceDisplays ==
  ASSUME SystemInv, Mirroring, CloseTrace
  PROVE  (\E b : Whole(b) /\ Records(b) /\ Displays(writer, b))'
<1> DEFINE v == Finish(writer)
           z == CloseStalls(writer, DOMAIN writer.stalls)
           b == Snapshot
<1>1. /\ driver = "running" /\ writer' = v /\ nodes' = nodes /\ edges' = edges
  BY DEF CloseTrace, EndStream
<1>2. Sound(writer) /\ ~ writer.finished
  BY <1>1 DEF SystemInv, Following
<1>3. z.known = writer.known /\ Sound(z)
  BY <1>2, CloseStallsIs
<1>4. v = [z EXCEPT !.finished = TRUE]
  BY <1>2 DEF Finish
<1>5. /\ Whole(b) /\ Records(b)
      /\ \A x : x.known = writer.known /\ x.out = v.out => Displays(x, b)
  BY <1>1, MirroringDisplays
<1> HIDE DEF v, z
<1>6. v.known = writer.known
  BY <1>3, <1>4 DEF Sound, Wellformed, Fields
<1> HIDE DEF b
<1>7. Displays(writer', b)
  BY <1>1, <1>5, <1>6
<1>8. DOMAIN b.nodes = DOMAIN writer'.known /\ b.edges = WrittenEdges' /\ \A r \in DOMAIN b.nodes : b.nodes[r] = nodes'[r]
  <2>1. WrittenEdges' = WrittenEdges
    BY <1>1, <1>6 DEF WrittenEdges
  <2> QED BY <1>1, <1>5, <1>6, <2>1 DEF Records
<1>9. \E d : /\ Whole(d) /\ Displays(writer', d)
             /\ DOMAIN d.nodes = DOMAIN writer'.known /\ d.edges = WrittenEdges'
             /\ \A r \in DOMAIN d.nodes : d.nodes[r] = nodes'[r]
  BY <1>5, <1>7, <1>8
<1> QED BY <1>9 DEF Records

\* Every step of the simulation keeps a closed trace showing the graph.
LEMMA DisplayStep == DisplayInv /\ [SystemNext]_systemVars => DisplayInv'
<1> SUFFICES ASSUME DisplayInv, [SystemNext]_systemVars PROVE DisplayInv'
  OBVIOUS
<1>1. ReplayInv /\ ReplayInv' /\ SystemInv
  BY ReplayStep DEF DisplayInv, ReplayInv
<1>2. CASE CloseTrace
  <2>1. driver = "running"
    BY <1>2 DEF CloseTrace
  <2>2. Mirroring
    BY <1>1, <2>1 DEF ReplayInv
  <2> QED BY <1>1, <1>2, <2>2, CloseTraceDisplays DEF DisplayInv
<1>3. CASE UNCHANGED systemVars
  <2>1. driver' = driver /\ writer' = writer /\ nodes' = nodes /\ edges' = edges
    BY <1>3 DEF systemVars, vars
  <2>2. WrittenEdges' = WrittenEdges
    BY <2>1 DEF WrittenEdges
  <2>3. ASSUME NEW b, Whole(b), Records(b), Displays(writer, b)
        PROVE  (\E d : Whole(d) /\ Records(d) /\ Displays(writer, d))'
    <3>1. \E d : /\ Whole(d) /\ Displays(writer', d)
                 /\ DOMAIN d.nodes = DOMAIN writer'.known /\ d.edges = WrittenEdges'
                 /\ \A r \in DOMAIN d.nodes : d.nodes[r] = nodes'[r]
      BY <2>1, <2>2, <2>3 DEF Records
    <3> QED BY <3>1 DEF Records
  <2> QED BY <1>1, <2>1, <2>3 DEF DisplayInv
<1>4. CASE /\ ~ CloseTrace /\ SystemNext
  <2>1. driver' # "closed"
    BY <1>4 DEF SystemNext, DriverStep, DesignStep, OpenTrace, SampleReset, LeaveReset, CycleWritten, CycleRefused,
                OutputFails, CloseFails, SiteFires, SiteCaptures, SiteDepends, Cycling
  <2> QED BY <1>1, <2>1 DEF DisplayInv
<1> QED BY <1>2, <1>3, <1>4

\* What an importer shows is the graph: however the occurrences are divided
\* into batches, one slice for each maximal run of stalls or other occurrence,
\* ending where the run does, and exactly the arrows of the edges, each from
\* the slice of its own parent.
THEOREM StreamDisplayIsGraph == SystemSpec => []DisplayIsGraph
<1>1. SystemInit => DisplayInv
  BY ReplayStart DEF SystemInit, DisplayInv
<1>2. SystemSpec => []DisplayInv
  BY <1>1, DisplayStep, PTL DEF SystemSpec
<1>3. DisplayInv => DisplayIsGraph
  <2> SUFFICES ASSUME DisplayInv PROVE DisplayIsGraph
    OBVIOUS
  <2>1. ReplayInv /\ SystemInv /\ IsSeq(writer.out)
    BY DEF DisplayInv, ReplayInv, SystemInv, Importable
  <2>2. CASE driver = "running"
    <3>1. Whole(Snapshot) /\ Records(Snapshot) /\ Displays(writer, Snapshot)
      BY <2>1, <2>2, MirroringDisplays DEF ReplayInv
    <3> QED BY <2>1, <3>1, DisplaysSuffices
  <2>3. CASE driver = "closed"
    BY <2>1, <2>3, DisplaysSuffices DEF DisplayInv
  <2>4. CASE driver \notin {"running", "closed"}
    BY <2>4 DEF DisplayIsGraph, Intact
  <2> QED BY <2>2, <2>3, <2>4
<1> QED BY <1>2, <1>3, PTL
=============================================================================
