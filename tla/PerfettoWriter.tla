--------------------------- MODULE PerfettoWriter ---------------------------
(***************************************************************************)
(* rheg::PerfettoWriter: turns settled batches into a sequence of trace    *)
(* packets, with interned strings, flow identities and coalesced stalls.   *)
(* The writer is a record, so that the same operators encode a live stream *)
(* and a replayed snapshot.  A packet keeps what an importer resolves: its *)
(* track, its time in cycles, the strings it names and those it defines.   *)
(***************************************************************************)
EXTENDS EventSchema, Sequences, FiniteSets, SequencesExt

CONSTANTS ObservationOf,  \* the transfer site each stall site observes
          MaxStrings      \* entries a dictionary admits: 4096

ASSUME WriterAssumption ==
  /\ DOMAIN ObservationOf \subseteq DOMAIN PayloadWidth
  /\ \A s \in DOMAIN ObservationOf :
       ObservationOf[s] \in (DOMAIN PayloadWidth) \ (DOMAIN ObservationOf)
  /\ \A d \in Dependencies : d[1] \notin DOMAIN ObservationOf
  /\ MaxStrings \in Nat

IsStall(s)     == s \in DOMAIN ObservationOf
TrackOf(s)     == IF IsStall(s) THEN ObservationOf[s] ELSE s
SharedTrack(t) == \E s \in DOMAIN ObservationOf : ObservationOf[s] = t
CanParent(s)   == \E d \in Dependencies : d[1] = s

Kinds == {"Category", "Name", "Value"}

\* A writer that has written the metadata and the track descriptors.
NewWriter ==
  [stalls    |-> <<>>,                      \* track -> its open run
   strings   |-> [k \in Kinds |-> <<>>],    \* iid n is entry n of its kind
   known     |-> <<>>,                      \* reference -> flow identity and cycle
   watermark |-> NoCycle,
   failed    |-> FALSE, finished |-> FALSE,
   out       |-> <<>>]

------------------------------------------------------------------------------
(* Order of a batch.                                                       *)

Parents(b, r)  == {e[1] : e \in {f \in b.edges : f[2] = r}}
Before(r, s)   == r[1] < s[1] \/ (r[1] = s[1] /\ r[2] < s[2])
Earlier(b, r, s) ==
  \/ b.nodes[r].cycle < b.nodes[s].cycle
  \/ b.nodes[r].cycle = b.nodes[s].cycle /\ Before(r, s)

Earliest(b, S) == CHOOSE m \in S : \A s \in S \ {m} : Earlier(b, m, s)

\* Kahn's algorithm: the earliest occurrence whose parents have been placed,
\* until none is left that can be.
PlaceNext(b, placed) ==
  LET left  == DOMAIN b.nodes \ ToSet(placed)
      ready == {r \in left : Parents(b, r) \cap left = {}}
  IN  IF ready = {} THEN placed ELSE Append(placed, Earliest(b, ready))

Order(b) ==
  LET size == Cardinality(DOMAIN b.nodes)
      placed[i \in 0 .. size] == IF i = 0 THEN <<>> ELSE PlaceNext(b, placed[i - 1])
  IN  placed[size]

\* Mutant: the parents of an edge must be in the batch itself.
AcceptsClosed(w, b) ==
  /\ ~ w.failed /\ ~ w.finished /\ b.cycle > w.watermark
  /\ \A e \in b.edges : {e[1], e[2]} \subseteq DOMAIN b.nodes
  /\ Len(Order(b)) = Cardinality(DOMAIN b.nodes)

\* Everything write() requires of a batch before it encodes anything.
Accepts(w, b) ==
  /\ ~ w.failed /\ ~ w.finished /\ b.cycle > w.watermark
  /\ \A r \in DOMAIN b.nodes :
       /\ r \notin DOMAIN w.known /\ ValidNode(r, b.nodes[r])
       /\ b.nodes[r].cycle \in (w.watermark + 1) .. b.cycle
       /\ \A s \in DOMAIN b.nodes \ {r} :
            ~ (/\ SharedTrack(TrackOf(r[1])) /\ TrackOf(r[1]) = TrackOf(s[1])
               /\ b.nodes[r].cycle = b.nodes[s].cycle)
  /\ \A e \in b.edges :
       /\ e[2] \in DOMAIN b.nodes
       /\ e[1] \in DOMAIN b.nodes \cup DOMAIN w.known
       /\ <<e[1][1], e[2][1]>> \in Dependencies
       /\ (IF e[1] \in DOMAIN b.nodes THEN b.nodes[e[1]].cycle ELSE w.known[e[1]].cycle)
            <= b.nodes[e[2]].cycle
  /\ Len(Order(b)) = Cardinality(DOMAIN b.nodes)

------------------------------------------------------------------------------
(* Packets.                                                                *)

\* Mutant: a new string is numbered one lower than it is looked up later.
ReferOffByOne(acc, key) ==
  LET dict == acc.strings[key[1]]
  IN  IF Contains(dict, key[2])
      THEN [acc EXCEPT !.uses = Append(@, [kind |-> key[1], iid |-> CHOOSE i \in DOMAIN dict : dict[i] = key[2], text |-> ""])]
      ELSE [acc EXCEPT !.uses = Append(@, [kind |-> key[1], iid |-> Len(dict), text |-> ""]),
                       !.strings[key[1]] = Append(@, key[2]),
                       !.defs = @ \cup {[kind |-> key[1], iid |-> Len(dict), text |-> key[2]]}]

\* InternedStrings: the entry of a string, a new entry while there is room,
\* or the string inline (iid 0).  acc carries the dictionaries, the uses and
\* the definitions of one packet.
Refer(acc, key) ==
  LET dict == acc.strings[key[1]]
      fresh == ~ Contains(dict, key[2])
      full  == Len(dict) >= MaxStrings
      use(iid, text) == [acc EXCEPT !.uses = Append(@, [kind |-> key[1], iid |-> iid, text |-> text])]
  IN  IF ~ fresh
      THEN use(CHOOSE i \in DOMAIN dict : dict[i] = key[2], "")
      ELSE IF full
           THEN use(0, key[2])
           ELSE [use(Len(dict) + 1, "") EXCEPT
                   !.strings[key[1]] = Append(@, key[2]),
                   !.defs = @ \cup {[kind |-> key[1], iid |-> Len(dict) + 1, text |-> key[2]]}]

\* The strings of a packet, interned one after the other.
Interned(strings, keys) ==
  LET acc[i \in 0 .. Len(keys)] ==
        IF i = 0 THEN [strings |-> strings, uses |-> <<>>, defs |-> {}] ELSE Refer(acc[i - 1], keys[i])
  IN  acc[Len(keys)]

\* One event packet: type, track and time, with the strings it names.  The
\* sequence annotation of a slice tells an importer which occurrence it is.
Emit(w, type, r, at, id, keys) ==
  LET acc == Interned(w.strings, keys)
  IN  [w EXCEPT !.strings = acc.strings,
                !.out = Append(@, [type |-> type, track |-> TrackOf(r[1]), at |-> at, id |-> id,
                                   ref |-> IF type = "begin" THEN r ELSE <<>>,
                                   uses |-> acc.uses, defs |-> acc.defs])]

\* What a slice is called and which captured values it shows.  A stall is
\* never named after what it captures.
SliceStrings(r, n) ==
  <<<<"Category", "rhodium.event">>>>
    \o (IF n.words = {} THEN <<>> ELSE <<<<"Value", ToString(n.words)>>>>)
    \o <<<<"Name", IF IsStall(r[1]) THEN "stall" ELSE ToString(r[1])>>>>

FlowStrings == <<<<"Name", "dependency">>, <<"Category", "rhodium.flow">>>>

BeginSlice(w, r, n) == Emit(w, "begin", r, n.cycle, 0, SliceStrings(r, n))
EndSlice(w, r, at)  == Emit(w, "end", r, at, 0, <<>>)
FlowEnd(w, r, n, id)   == Emit(w, "f", r, n.cycle, id, FlowStrings)
FlowStart(w, r, n, id) == Emit(w, "s", r, n.cycle, id, FlowStrings)

------------------------------------------------------------------------------
(* Stall runs.                                                             *)

\* The open run among those of some tracks that ends first: by last cycle and
\* then by track.
FirstEnding(w, tracks) ==
  CHOOSE t \in tracks : \A u \in tracks \ {t} :
    \/ w.stalls[t].cycle < w.stalls[u].cycle
    \/ w.stalls[t].cycle = w.stalls[u].cycle /\ t < u

CloseStall(w, t) ==
  [EndSlice(w, w.stalls[t].last, w.stalls[t].cycle + 1) EXCEPT
     !.stalls = [u \in DOMAIN w.stalls \ {t} |-> w.stalls[u]]]

\* close_stalls: end the chosen runs, in that order.
CloseStalls(w, tracks) ==
  LET closed[i \in 0 .. Cardinality(tracks)] ==
        IF i = 0 THEN w
        ELSE LET v == closed[i - 1] IN CloseStall(v, FirstEnding(v, tracks \cap DOMAIN v.stalls))
  IN  closed[Cardinality(tracks)]

\* Mutant: a stall goes on although its parents have changed.
ContinuesAnyParents(b, run, cycle) ==
  LET next == <<run.last[1], run.last[2] + 1>>
  IN  /\ next \in DOMAIN b.nodes
      /\ b.nodes[next].cycle = cycle /\ run.cycle + 1 = cycle
      /\ b.nodes[next].words = run.words

\* The occurrence that would extend a run through a given cycle.
Continues(b, run, cycle) ==
  LET next == <<run.last[1], run.last[2] + 1>>
  IN  /\ next \in DOMAIN b.nodes
      /\ b.nodes[next].cycle = cycle /\ run.cycle + 1 = cycle
      /\ b.nodes[next].words = run.words
      /\ Parents(b, next) = run.parents

\* At the first occurrence of a cycle: end every run that cycle does not extend.
StartCycle(w, b, cycle) ==
  CloseStalls(w, {t \in DOMAIN w.stalls : ~ Continues(b, w.stalls[t], cycle)})

------------------------------------------------------------------------------
(* Encoding.                                                               *)

\* f with one more, or another, value.
With(f, x, value) == [y \in DOMAIN f \cup {x} |-> IF y = x THEN value ELSE f[y]]

\* The parents of an occurrence are visited in reference order.
NthParent(b, r, i) ==
  CHOOSE p \in Parents(b, r) : Cardinality({q \in Parents(b, r) : Before(q, p)}) = i - 1

\* The arrows from the parents.
ParentArrows(w, b, r) ==
  LET count == Cardinality(Parents(b, r))
      ends[i \in 0 .. count] ==
        IF i = 0 THEN w
        ELSE LET v == ends[i - 1]
             IN  FlowEnd(v, r, b.nodes[r], v.known[NthParent(b, r, i)].id)
  IN  ends[count]

\* The slice and the arrows of an occurrence that extends no run.
EncodeSlice(w, b, r) ==
  LET n      == b.nodes[r]
      ends   == ParentArrows(BeginSlice(w, r, n), b, r)
      arrows == IF CanParent(r[1]) THEN FlowStart(ends, r, n, w.known[r].id) ELSE ends
  IN  IF IsStall(r[1])
      THEN [arrows EXCEPT !.stalls = With(@, TrackOf(r[1]),
              [last |-> r, cycle |-> n.cycle, words |-> n.words, parents |-> Parents(b, r)])]
      ELSE EndSlice(arrows, r, n.cycle + 1)

\* One occurrence of the ordered batch; the identity is its place in the trace.
EncodeNode(w, b, r) ==
  LET n == b.nodes[r]
      v == [w EXCEPT !.known =
              With(@, r, [id |-> Cardinality(DOMAIN w.known) + 1, cycle |-> n.cycle])]
      t == TrackOf(r[1])
  IN  IF IsStall(r[1]) /\ t \in DOMAIN v.stalls
      THEN [v EXCEPT !.stalls[t].last = r, !.stalls[t].cycle = n.cycle]
      ELSE EncodeSlice(v, b, r)

\* The next occurrence, which may be the first of its cycle.
EncodeNext(w, b, order, i) ==
  LET cycle == b.nodes[order[i]].cycle
      first == i = 1 \/ b.nodes[order[i - 1]].cycle # cycle
  IN  EncodeNode(IF first THEN StartCycle(w, b, cycle) ELSE w, b, order[i])

\* Mutant: every open stall ends with the batch, not only the quiet ones.
AllOpen(w, b) == DOMAIN w.stalls

\* The runs that ended before the cycle a batch closes.
EndedBy(w, b) == {t \in DOMAIN w.stalls : w.stalls[t].cycle < b.cycle}

\* All occurrences of a batch.
EncodeAll(w, b) ==
  LET order == Order(b)
      encoded[i \in 0 .. Len(order)] ==
        IF i = 0 THEN w ELSE EncodeNext(encoded[i - 1], b, order, i)
  IN  encoded[Len(order)]

\* The writer after a batch it accepts, the output operations all succeeding.
Encode(w, b) ==
  LET all == EncodeAll(w, b)
  IN  [CloseStalls(all, EndedBy(all, b)) EXCEPT !.watermark = b.cycle]

\* finish(): end what is still open.  Idempotent.
Finish(w) ==
  IF w.finished THEN w
  ELSE [CloseStalls(w, DOMAIN w.stalls) EXCEPT !.finished = TRUE]

\* An output operation fails: some of the packets may have left, nothing of
\* the writer's state is committed and it is not used again.
Poisoned(w, attempted) ==
  {[w EXCEPT !.failed = TRUE, !.out = SubSeq(attempted.out, 1, n)] :
     n \in Len(w.out) .. Len(attempted.out)}

------------------------------------------------------------------------------
(* Replay.                                                                 *)

\* write_perfetto: a snapshot as one batch through a new writer.
SnapshotBatch(nodes, edges) ==
  [cycle |-> IF DOMAIN nodes = {} THEN 0
             ELSE CHOOSE c \in {nodes[r].cycle : r \in DOMAIN nodes} :
                    \A r \in DOMAIN nodes : nodes[r].cycle <= c,
   nodes |-> nodes, edges |-> edges]

Replay(nodes, edges) == Finish(Encode(NewWriter, SnapshotBatch(nodes, edges)))
=============================================================================
