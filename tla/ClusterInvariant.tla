--------------------------- MODULE ClusterInvariant ---------------------------
(***************************************************************************)
(* Why the cluster is coherent: an inductive invariant of InclusiveSystem. *)
(* It says, for each thing that may be in flight, which agents are waiting *)
(* for it; what the directory knows of the entry the Home works on; and    *)
(* which caches have already been probed when the Home goes on.            *)
(*                                                                         *)
(* A cache holds a line from the last packet of its refill on: what it has *)
(* been granted counts as held before it is installed.                     *)
(***************************************************************************)
EXTENDS InclusiveSystem

Busy == phase # "Idle"

------------------------------------------------------------------------------
(* The memory side: one read or one write at a time.                       *)

WritingVictim == phase \in {"AwaitVictimDBID", "SendVictimData", "AwaitVictimCompletion"}

\* A fill is in flight only while the Home waits for it, each packet once.
FillInv ==
  /\ \A m \in memReqs : m.op = "ReadNoSnp" =>
       phase = "ReceiveFillData" /\ receivedFill = {} /\ fillData = {}
  /\ \A m \in fillData : phase = "ReceiveFillData" /\ m.packet \notin receivedFill
  /\ \A m, k \in fillData : m.packet = k.packet => m = k

\* The stages of a write: requested, accepted, its data in flight, confirmed.
VictimWriteInv ==
  /\ \A m, k \in memReqs : m = k
  /\ \A m \in memReqs : m.op = "WriteNoSnpFull" =>
       phase = "AwaitVictimDBID" /\ ~ memWrite.active /\ memRsps = {}
  /\ memWrite.active =>
       /\ WritingVictim
       /\ phase = "AwaitVictimDBID" => memWrite.packets = {}
       /\ phase = "SendVictimData" => \A p \in memWrite.packets : p < victimBeat
  /\ \A m, k \in memRsps : m = k
  /\ \A m \in memRsps :
       \/ m.op = "DBIDResp" /\ phase = "AwaitVictimDBID" /\ memWrite.active
       \/ m.op = "Comp" /\ phase = "AwaitVictimCompletion" /\ ~ memWrite.active /\ memData = {}
  /\ \A m \in memData :
       /\ phase \in {"SendVictimData", "AwaitVictimCompletion"}
       /\ m.packet \notin memWrite.packets
       /\ phase = "SendVictimData" => m.packet < victimBeat
  /\ \A m, k \in memData : m.packet = k.packet => m = k
  /\ phase \in {"SendVictimWriteRequest", "AwaitVictimDBID"} => victimBeat = 0
  /\ phase = "SendVictimData" => memWrite.active

MemorySideInv == FillInv /\ VictimWriteInv

------------------------------------------------------------------------------
(* The requester side: every request, grant and datum has someone who      *)
(* waits for it.                                                           *)

Snooping == phase \in {"SendSnoop", "AwaitSnoop", "AfterSnoops"}
VictimWrite == phase = "SendVictimWriteRequest" \/ WritingVictim
Filling     == phase \in {"SendFillRequest", "ReceiveFillData"}
Answering   == phase \in {"SendCachedData", "AwaitCompAck"}

\* Who asks, for how much, and whether the issuer is probed too.
Proper(m) ==
  /\ m.snoopMe <=> IsMaintenance(m.op)
  /\ m.op # "WriteUniquePtl" => m.packets = Packets
  /\ IF m.op \in {"ReadOnce", "WriteUniquePtl"} THEN m.src \in IO ELSE m.src \in RNF

\* Which requests reach which phase.
PhaseFits ==
  /\ Busy => Proper(request)
  /\ phase \in {"SendRequesterDBID", "ReceiveRequesterData"} => IsWrite(request.op)
  /\ phase = "FinishCopyBack" => Copyback
  /\ Snooping \/ VictimWrite \/ Filling => ~ Copyback
  /\ Filling => ~ Maintenance
  /\ Answering => request.op \in RefillOps \cup {"ReadOnce"}
  /\ phase = "MergeRequesterData" => request.op = "WriteUniquePtl"
  /\ phase = "FinishMaintenance" => Maintenance
  /\ phase = "SendRequesterCompletion" => Maintenance \/ request.op = "WriteUniquePtl"
  /\ Snooping /\ Maintenance => ~ snoopVictim
  /\ VictimWrite => (Maintenance <=> ~ snoopVictim)

\* The requester has its data and has said so: it may be at its next
\* transaction before the Home has seen the acknowledgement.
MovedOn == phase = "AwaitCompAck" /\ acks # {}
Serving(r) == Busy /\ request.src = r /\ ~ MovedOn

Matches(op, access) == op = IF NeedsUnique(access) THEN "ReadUnique" ELSE "ReadClean"

\* A request not yet accepted is its requester's latest, and only one.
RequestFits(m) ==
  /\ Proper(m)
  /\ m.op \in RefillOps =>
       /\ engine[m.src].phase = "Refill" /\ engine[m.src].packets = {}
       /\ engine[m.src].line = m.line /\ Matches(m.op, engine[m.src].access)
  /\ m.op = "WriteBackFull" =>
       engine[m.src].phase = "Copyback" /\ engine[m.src].victim = m.line
  /\ IsMaintenance(m.op) => engine[m.src].phase = "Maintenance"
  /\ m.op = "ReadOnce" => io[m.src].phase = "Read" /\ io[m.src].packets = {}
  /\ m.op = "WriteUniquePtl" => io[m.src].phase = "Write" /\ io[m.src].packets = m.packets

RequestsInv ==
  /\ \A m \in reqs : RequestFits(m)
  /\ \A m, k \in reqs : m.src = k.src => m = k
  /\ \A m \in reqs : Serving(m.src) => Copyback /\ m.op \in RefillOps

\* A refill the Home serves: nothing received before it answers, and what was
\* received has the error and the state the Home is answering with.
RefillInv ==
  /\ Busy /\ ~ MovedOn /\ request.op \in RefillOps =>
       /\ engine[request.src].line = request.line
       /\ Matches(request.op, engine[request.src].access)
       /\ \/ engine[request.src].phase = "Refill"
          \/ engine[request.src].phase = "Acknowledge" /\ phase = "AwaitCompAck"
  /\ \A n \in RNF : engine[n].phase = "Refill" =>
       IF engine[n].packets = {} THEN ~ engine[n].err
       ELSE /\ Answering /\ Serving(n) /\ request.op \in RefillOps
            /\ engine[n].err = completionError /\ engine[n].state = GrantedState
            /\ engine[n].packets \cap remainingResponse = {}
  /\ \A n \in RNF : engine[n].phase = "Acknowledge" =>
       phase = "AwaitCompAck" /\ request.src = n /\ acks = {} /\ compData = {}
  /\ \A n \in RNF : Granted(n) =>
       engine[n].state = IF NeedsUnique(engine[n].access) THEN "Unique" ELSE "SharedClean"

MaintenanceInv == Busy /\ Maintenance => engine[request.src].phase = "Maintenance"

\* A copyback the Home serves, from its grant to the last packet of its data.
CopybackInv ==
  /\ Busy /\ Copyback =>
       \/ /\ phase = "SendRequesterDBID"
          /\ engine[request.src].phase = "Copyback" /\ engine[request.src].victim = request.line
       \/ /\ phase = "ReceiveRequesterData" /\ receivedData = {} /\ reqData = {}
          /\ engine[request.src].phase = "Copyback" /\ engine[request.src].victim = request.line
       \/ /\ phase = "ReceiveRequesterData"
          /\ engine[request.src].phase = "CopybackData"
          /\ engine[request.src].victim = request.line
       \/ /\ phase \in {"ReceiveRequesterData", "Lookup", "FinishCopyBack"}
          /\ engine[request.src].phase = "Refill" /\ engine[request.src].packets = {}
  /\ \A n \in RNF : engine[n].phase = "CopybackData" =>
       /\ phase = "ReceiveRequesterData" /\ Copyback /\ request.src = n
       /\ receivedData \subseteq engine[n].packets
       /\ receivedData # {} =>
            copybackDirty = IsDirty(engine[n].state)
              /\ copybackState = IF IsValid(engine[n].state) THEN "Unique" ELSE "Invalid"
       /\ \A m \in reqData :
            /\ m.packet \in engine[n].packets
            /\ m.passDirty = IsDirty(engine[n].state)
            /\ m.state = IF IsValid(engine[n].state) THEN "Unique" ELSE "Invalid"

\* The uncached requesters.
UncachedInv ==
  /\ Busy /\ ~ MovedOn /\ request.op = "ReadOnce" =>
       \/ io[request.src].phase = "Read"
       \/ io[request.src].phase = "Acknowledge" /\ phase = "AwaitCompAck"
  /\ \A i \in IO : io[i].phase = "Read" /\ io[i].packets # {} =>
       /\ Answering /\ Serving(i) /\ request.op = "ReadOnce"
       /\ io[i].packets \cap remainingResponse = {}
  /\ \A i \in IO : io[i].phase = "Acknowledge" =>
       phase = "AwaitCompAck" /\ request.src = i /\ acks = {} /\ compData = {}
  /\ Busy /\ request.op = "WriteUniquePtl" =>
       \/ /\ phase = "SendRequesterDBID"
          /\ io[request.src].phase = "Write" /\ io[request.src].packets = request.packets
       \/ /\ phase = "ReceiveRequesterData" /\ receivedData = {} /\ reqData = {}
          /\ io[request.src].phase = "Write" /\ io[request.src].packets = request.packets
       \/ phase # "SendRequesterDBID" /\ io[request.src].phase = "Completion"

\* A response is for the requester being served, or for one that waits for its
\* completion and has nothing else under way.
ResponsesInv ==
  /\ \A m, k \in rsps : m.dst = k.dst => m = k
  /\ \A m \in rsps :
       /\ m.op = "CompDBIDResp" =>
            /\ phase = "ReceiveRequesterData" /\ Copyback /\ m.dst = request.src
            /\ engine[m.dst].phase = "Copyback"
       /\ m.op = "DBIDResp" =>
            /\ phase = "ReceiveRequesterData" /\ request.op = "WriteUniquePtl"
            /\ m.dst = request.src /\ io[m.dst].phase = "Write"
       /\ m.op = "Comp" =>
            /\ m.dst \in RNF => engine[m.dst].phase = "Maintenance"
            /\ m.dst \in IO => io[m.dst].phase = "Completion"
            /\ phase = "Idle" \/ request.src # m.dst
            /\ \A r \in reqs : r.src # m.dst

\* The data of a write is its requester's, each packet once, all in one state.
WriteDataInv ==
  /\ reqData # {} => phase \in {"ReceiveRequesterData", "AwaitSnoop"}
  /\ \A m, k \in reqData : m.packet = k.packet => m = k
  /\ phase = "ReceiveRequesterData" =>
       \A m \in reqData :
         /\ m.op = (IF Copyback THEN "CopyBackWriteData" ELSE "NonCopyBackWriteData")
         /\ m.src = request.src
         /\ m.packet \in request.packets \ receivedData
         /\ Copyback /\ receivedData # {} => m.state = copybackState /\ m.passDirty = copybackDirty
         /\ Copyback => \A k \in reqData : m.state = k.state /\ m.passDirty = k.passDirty
  /\ phase = "SendRequesterDBID" => receivedData = {}
  /\ phase = "Lookup" /\ Copyback => receivedData # {}

\* The data of a read is for the requester being answered, each packet once,
\* and ends with one acknowledgement.
ReadDataInv ==
  /\ \A m \in compData :
       /\ Answering /\ acks = {} /\ m.dst = request.src
       /\ m.err = completionError /\ m.state = GrantedState
       /\ m.packet \notin remainingResponse
       /\ m.dst \in RNF => m.packet \notin engine[m.dst].packets
       /\ m.dst \in IO => m.packet \notin io[m.dst].packets
  /\ \A m, k \in compData : m.packet = k.packet => m = k
  /\ acks # {} => phase \in {"AwaitSnoop", "AwaitCompAck"}
  /\ MovedOn => compData = {} /\ acks = {CompAck(request.src)}
  /\ phase = "AwaitCompAck" => remainingResponse = {}

RequesterSideInv ==
  /\ PhaseFits /\ RequestsInv /\ RefillInv /\ MaintenanceInv /\ CopybackInv
  /\ UncachedInv /\ ResponsesInv /\ WriteDataInv /\ ReadDataInv

------------------------------------------------------------------------------
(* Probes: one at a time, to the expected responder.                       *)

\* A responder that fails says so in its first packet.
AnswerFailed == snoopRetains \/ \E m \in reqData : m.err

ProbeInFlightInv ==
  /\ phase # "AwaitSnoop" => snps = {} /\ \A n \in RNF : ~ snoop[n].active
  /\ \A m \in snps : m.dst = expectedSnoop /\ m.op = SnoopOp /\ m.line = SnoopAddress
  /\ snps # {} =>
       /\ ~ snoop[expectedSnoop].active /\ acks = {} /\ reqData = {}
       /\ receivedSnoop = {} /\ ~ snoopRetains
  /\ \A n \in RNF : snoop[n].active =>
       n = expectedSnoop /\ snoop[n].op = SnoopOp /\ snoop[n].line = SnoopAddress
  /\ phase = "AwaitSnoop" => expectedSnoop \notin pendingSnoops

ProbeAnswerInv ==
  phase = "AwaitSnoop" =>
    /\ \A m \in acks :
         m.op = "SnpResp" /\ m.src = expectedSnoop /\ SnoopStateValid(SnoopOp, m.state)
    /\ \A m, k \in acks : m = k
    /\ acks # {} => reqData = {} /\ receivedSnoop = {} /\ ~ snoop[expectedSnoop].active
    /\ \A m \in reqData :
         /\ m.op = "SnpRespData" /\ m.src = expectedSnoop /\ m.passDirty
         /\ m.state = "Invalid" /\ m.packet \notin receivedSnoop
         /\ SnoopOp # "SnpMakeInvalid"
    /\ snoopRetains => completionError

ProbeProgressInv ==
  \A n \in RNF : snoop[n].active =>
    /\ snoop[n].packets # {} => DirtyHit(snoop[n])
    /\ receivedSnoop \subseteq snoop[n].packets
    /\ \A m \in reqData : m.packet \in snoop[n].packets
    /\ snoop[n].fault /\ snoop[n].packets # {} => AnswerFailed

ProbeInv == ProbeInFlightInv /\ ProbeAnswerInv /\ ProbeProgressInv

------------------------------------------------------------------------------
(* One L1D.                                                                *)

\* A line is in one way; the way of the engine's transaction is the only one
\* that may hold its line or its victim, and holds the victim's state.
WaysFit(ways, e) ==
  /\ \A v, w \in L1Ways : ways[v].line = ways[w].line /\ ways[v].line # NoLine => v = w
  /\ e.phase \in {"Copyback", "CopybackData", "Refill", "Acknowledge", "Complete"} =>
       \A w \in L1Ways : ways[w].line = e.line => w = e.way
  /\ e.phase \in {"Copyback", "CopybackData"} =>
       /\ e.state = ways[e.way].state /\ e.victim # e.line
       /\ \A w \in L1Ways : ways[w].line = e.victim => w = e.way

\* What a probe found stays true until it is answered, and nothing is granted
\* to its cache meanwhile.
LookupFits(ways, e, s) ==
  s.active =>
    /\ e.phase \notin {"Acknowledge", "Complete"}
    /\ IF s.hit THEN ways[s.way].state = s.state
       ELSE \A w \in L1Ways : ways[w].line # s.line

L1Inv == \A n \in RNF : WaysFit(l1[n], engine[n]) /\ LookupFits(l1[n], engine[n], snoop[n])

------------------------------------------------------------------------------
(* The directory.                                                          *)

Valid(s, w, line) == validLines[s][w] /\ tags[s][w] = line
IsEntry(line)  == Selected(validLines) /\ Selected(tags) = line
NoEntry(line)  == \A s \in Sets, w \in Ways : ~ Valid(s, w, line)

\* A line has one entry, in its set.
EntriesInv ==
  /\ \A s \in Sets, w \in Ways : validLines[s][w] => SetOf[tags[s][w]] = s
  /\ \A s \in Sets, v, w \in Ways :
       validLines[s][v] /\ validLines[s][w] /\ tags[s][v] = tags[s][w] => v = w

\* What the looked-up entry is, phase by phase.
SelectedInv ==
  /\ phase \notin {"Idle", "SendRequesterDBID", "ReceiveRequesterData", "Lookup"} =>
       selectedSet = RequestSet
  /\ Snooping =>
       IF snoopVictim THEN IsEntry(victimAddress) /\ NoEntry(request.line)
       ELSE IF maintenanceHit THEN IsEntry(request.line)
       ELSE /\ Maintenance /\ NoEntry(request.line)
            /\ pendingSnoops = {} /\ phase # "AwaitSnoop"
  /\ VictimWrite =>
       /\ snoopVictim => IsEntry(victimAddress) /\ NoEntry(request.line)
       /\ Maintenance /\ maintenanceHit => IsEntry(request.line)
  /\ phase = "FinishMaintenance" /\ maintenanceHit => IsEntry(request.line)
  /\ Filling => ~ Selected(validLines) /\ NoEntry(request.line)
  /\ phase \in {"SendCachedData", "AwaitCompAck", "MergeRequesterData"} /\ ~ completionError =>
       IsEntry(request.line)
  /\ phase = "AwaitCompAck" /\ ~ completionError /\ request.op \in RefillOps =>
       request.src \in Selected(residentLines)
  /\ phase = "FinishCopyBack" /\ maintenanceHit => IsEntry(request.line)
  /\ phase = "AfterSnoops" => pendingSnoops = {}

DirectoryInv == EntriesInv /\ SelectedInv

------------------------------------------------------------------------------
(* Coherence.                                                              *)

Holds(n, line) ==
  \/ \E w \in L1Ways : l1[n][w].line = line
  \/ Granted(n) /\ engine[n].line = line

HoldsUnique(n, line) ==
  \/ \E w \in L1Ways : l1[n][w].line = line /\ IsUnique(l1[n][w].state)
  \/ Granted(n) /\ engine[n].line = line /\ engine[n].state = "Unique"

Tracked(n, line) ==
  \E s \in Sets, w \in Ways : Valid(s, w, line) /\ n \in residentLines[s][w]

HoldersAreTracked == \A n \in RNF, line \in Lines : Holds(n, line) => Tracked(n, line)

OwnersAreAlone ==
  \A n, m \in RNF, line \in Lines : n # m /\ HoldsUnique(n, line) => ~ Holds(m, line)

\* What a successful probe leaves at its cache.
Cleared(snp, n, line) ==
  /\ InvalidatesState(snp) => ~ Holds(n, line)
  /\ SharesState(snp) => ~ HoldsUnique(n, line)

Spared(n) == n = request.src /\ ~ request.snoopMe

\* Without an error, every cache the Home need not probe any more is cleared.
ProbedInv ==
  Snooping /\ ~ completionError =>
    \A n \in RNF \ pendingSnoops :
      \/ ~ snoopVictim /\ Spared(n)
      \/ phase = "AwaitSnoop" /\ n = expectedSnoop
      \/ Cleared(SnoopOp, n, SnoopAddress)

\* The Home works for the request on the strength of its probes.
Settled ==
  \/ phase \in {"SendCachedData", "AwaitCompAck", "MergeRequesterData"} /\ ~ completionError
  \/ VictimWrite /\ Maintenance
  \/ phase = "FinishMaintenance"

\* What they cleared stays clear while it does.
SettledInv ==
  /\ VictimWrite /\ snoopVictim => \A n \in RNF : ~ Holds(n, victimAddress)
  /\ Settled =>
       \A n \in RNF : ~ Spared(n) => Cleared(HomeSnoopOp(request.op), n, request.line)

\* What an answer in flight says is true.
AnswerInv ==
  phase = "AwaitSnoop" /\ snps = {} /\ ~ snoop[expectedSnoop].active =>
    /\ \A m \in acks : ~ m.err =>
         /\ Cleared(SnoopOp, expectedSnoop, SnoopAddress)
         /\ m.state = "Invalid" => ~ Holds(expectedSnoop, SnoopAddress)
    /\ acks = {} /\ ~ AnswerFailed => ~ Holds(expectedSnoop, SnoopAddress)

\* A cache whose copyback data has left has no copy, and dirty data finds its
\* entry.
ReturnedInv ==
  Copyback /\ phase \in {"ReceiveRequesterData", "Lookup", "FinishCopyBack"} =>
    /\ engine[request.src].phase = "Refill" => ~ Holds(request.src, request.line)
    /\ phase # "FinishCopyBack" =>
         /\ receivedData # {} /\ copybackDirty => ~ NoEntry(request.line)
         /\ (\E m \in reqData : m.passDirty) => ~ NoEntry(request.line)

CoherenceInv ==
  HoldersAreTracked /\ OwnersAreAlone /\ ProbedInv /\ SettledInv /\ AnswerInv /\ ReturnedInv

\* The whole: in every state of the protocol of home/inclusive-home.rhdl and
\* dcache/cache.rhdl each message has one agent that waits for it, the
\* directory covers what is held, and what the Home does next rests on probes
\* that were answered truthfully.  With TypeInv of the proofs it is inductive.
ClusterInv ==
  MemorySideInv /\ RequesterSideInv /\ ProbeInv /\ L1Inv /\ DirectoryInv /\ CoherenceInv
==============================================================================
