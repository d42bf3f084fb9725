----------------------------- MODULE ClusterData -----------------------------
(***************************************************************************)
(* Where the newest data of a line is, at every moment: in a dirty copy,   *)
(* on its way back to the Home, in the Home's line buffer, in the LLC or   *)
(* in memory.  With ClusterInv it is inductive, as long as no dirty victim *)
(* can fail to be written.                                                 *)
(***************************************************************************)
EXTENDS ClusterInvariant

\* The subordinate never fails a write, or there is no second line and so no
\* victim.
Reliable == "write" \in Faults => \A k, l \in Lines : k = l

------------------------------------------------------------------------------
(* The L1Ds.                                                               *)

Missing == {"Copyback", "CopybackData", "Refill", "Acknowledge", "Complete"}

\* A copy, a line granted but not installed, and what was received of one, are
\* newest.
FreshInv ==
  /\ \A n \in RNF, w \in L1Ways :
       l1[n][w].line # NoLine => l1[n][w].data = latest[l1[n][w].line]
  /\ \A n \in RNF : Granted(n) => engine[n].data = latest[engine[n].line]
  /\ \A n \in RNF : engine[n].phase = "Refill" /\ ~ engine[n].err =>
       \A p \in engine[n].packets : engine[n].data[p] = latest[engine[n].line][p]
  /\ \A m \in compData : m.dst \in RNF /\ ~ m.err => m.version = latest[request.line][m.packet]

\* What the engines keep of a way is still its data; a line that is asked for
\* is not owned, and installation overwrites nothing dirty.
DataFits(ways, e, s) ==
  /\ e.phase \in {"Copyback", "CopybackData"} /\ IsDirty(e.state) => e.data = ways[e.way].data
  /\ e.phase \in Missing =>
       \A w \in L1Ways : ways[w].line = e.line => ~ IsUnique(ways[w].state)
  /\ e.phase \in {"Refill", "Acknowledge", "Complete"} /\ e.access # "bypass" =>
       ~ IsDirty(ways[e.way].state)
  /\ s.active /\ s.hit => s.data = ways[s.way].data

NodeDataInv == \A n \in RNF : DataFits(l1[n], engine[n], snoop[n])

DirtyCopy(line) ==
  \E n \in RNF, w \in L1Ways : l1[n][w].line = line /\ IsDirty(l1[n][w].state)

------------------------------------------------------------------------------
(* A copyback.                                                             *)

Collecting == Copyback /\ phase \in {"ReceiveRequesterData", "Lookup", "FinishCopyBack"}

\* Dirty data of the line has left its cache and is not in the LLC yet.
Returning(line) ==
  /\ Collecting /\ line = request.line
  /\ \/ receivedData # {} /\ copybackDirty
     \/ \E m \in reqData : m.passDirty

ReturnedDataInv ==
  Collecting =>
    /\ \A m \in reqData : m.passDirty => m.version = latest[request.line][m.packet]
    /\ copybackDirty => \A p \in receivedData : writeData[p] = latest[request.line][p]
    /\ phase # "ReceiveRequesterData" => receivedData = Packets
    /\ phase = "FinishCopyBack" /\ copybackDirty => maintenanceHit
    /\ Returning(request.line) => \A n \in RNF \ {request.src} : ~ Holds(n, request.line)

------------------------------------------------------------------------------
(* The line buffer.                                                        *)

Probing == Snooping /\ (snoopVictim \/ maintenanceHit)

\* For these packets the buffer is that data once everything in flight is merged.
Merges(packets, data) ==
  \A p \in packets :
    /\ \A m \in reqData : m.packet = p => m.version = data[p]
    /\ (\A m \in reqData : m.packet # p) => lineBuffer[p] = data[p]

\* Without a dirty copy the buffer, with what is in flight, is newest, except
\* while the line is being discarded; an entry that is clean is unchanged.
BufferInv ==
  /\ Probing /\ request.op # "MakeInvalid" =>
       DirtyCopy(SnoopAddress) \/ Merges(Packets, latest[SnoopAddress])
  /\ Probing /\ ~ Selected(dirtyLines) => lineBuffer = Selected(lineRam)
  /\ Snooping /\ Maintenance =>
       (maintenanceDirty <=> maintenanceHit /\ Selected(dirtyLines))

\* What a responder has sent of its dirty data is in flight or in the buffer.
SentInv ==
  \A n \in RNF :
    snoop[n].active /\ DirtyHit(snoop[n]) => Merges(snoop[n].packets, snoop[n].data)

\* A discard cannot fail before it is done.
DiscardInv ==
  /\ (Snooping \/ phase \in {"Lookup", "FinishMaintenance"}) /\ request.op = "MakeInvalid" =>
       ~ completionError
  /\ \A n \in RNF : snoop[n].active /\ snoop[n].op = "SnpMakeInvalid" => ~ snoop[n].fault
  /\ phase = "AwaitSnoop" /\ SnoopOp = "SnpMakeInvalid" => \A m \in acks : ~ m.err

\* The Home answers, merges and cleans with the newest data.
AnswerDataInv ==
  /\ phase = "SendCachedData" /\ request.op \in RefillOps /\ ~ completionError =>
       lineBuffer = latest[request.line]
  /\ phase = "MergeRequesterData" =>
       IF completionError THEN ~ Selected(validLines) ELSE lineBuffer = latest[request.line]
  /\ phase = "FinishMaintenance" /\ maintenanceHit /\ ~ completionError
       /\ request.op # "MakeInvalid" => memory[request.line] = Selected(lineRam)

------------------------------------------------------------------------------
(* Memory.                                                                 *)

WriteBackInv ==
  VictimWrite =>
    /\ Selected(dirtyLines) /\ (snoopVictim \/ maintenanceHit) /\ request.op # "MakeInvalid"
    /\ lineBuffer = latest[SnoopAddress]
    /\ Maintenance => Selected(lineRam) = lineBuffer
    /\ completionError => "write" \in Faults

\* A write in progress is of the buffer, to the line the Home writes back, and
\* when it has been confirmed memory has that line.
WriteDataFits ==
  /\ \A m \in memReqs : m.line = IF m.op = "ReadNoSnp" THEN request.line ELSE SnoopAddress
  /\ \A m \in memRsps : m.err => "write" \in Faults
  /\ memWrite.active =>
       /\ memWrite.line = SnoopAddress
       /\ memWrite.error # "none" => "write" \in Faults
       /\ memWrite.error = "DBIDResp" => completionError \/ \E m \in memRsps : m.err
       /\ memWrite.error = "none" =>
            \A p \in memWrite.packets : memory[SnoopAddress][p] = lineBuffer[p]
  /\ \A m \in memData : m.version = lineBuffer[m.packet]
  /\ phase = "AwaitVictimCompletion" /\ ~ memWrite.active /\ ~ completionError
       /\ (\A m \in memRsps : ~ m.err) => memory[SnoopAddress] = lineBuffer

FillDataInv ==
  phase = "ReceiveFillData" =>
    /\ \A m \in fillData : m.version = memory[request.line][m.packet]
    /\ \A p \in receivedFill : lineBuffer[p] = memory[request.line][p]

------------------------------------------------------------------------------
(* The levels.                                                             *)

\* The Home holds what the entry of the line should have, or discards it.
InHand(line) ==
  \/ Returning(line)
  \/ line = SnoopAddress /\ (Snooping \/ (VictimWrite /\ snoopVictim))
  \/ line = request.line /\ request.op = "MakeInvalid" /\ phase = "FinishMaintenance"
       /\ maintenanceHit

LevelsInv ==
  /\ \A s \in Sets, w \in Ways : validLines[s][w] =>
       \/ DirtyCopy(tags[s][w]) \/ InHand(tags[s][w])
       \/ lineRam[s][w] = latest[tags[s][w]]
  /\ \A s \in Sets, w \in Ways : validLines[s][w] /\ ~ dirtyLines[s][w] =>
       lineRam[s][w] = memory[tags[s][w]]
  /\ \A line \in Lines : NoEntry(line) => memory[line] = latest[line]

\* The whole: along every path of a line's data through dcache/cache.rhdl,
\* home/inclusive-home.rhdl and the subordinate, what each of them will take
\* for the line is the newest version.
DataInv ==
  /\ FreshInv /\ NodeDataInv /\ ReturnedDataInv
  /\ BufferInv /\ SentInv /\ DiscardInv /\ AnswerDataInv
  /\ WriteBackInv /\ WriteDataFits /\ FillDataInv
  /\ LevelsInv

------------------------------------------------------------------------------
(* A snapshot: what a ReadOnce takes with it.                              *)

\* With what is in flight merged, every packet of the buffer is in the window.
MergesIntoWindow ==
  \A p \in Packets :
    /\ \A m \in reqData : m.packet = p => m.version \in window[request.src][p]
    /\ (\A m \in reqData : m.packet # p) => lineBuffer[p] \in window[request.src][p]

\* A dirty cache has yet to be probed, or has yet to send the rest of its data.
Owes(n) ==
  /\ \E w \in L1Ways : l1[n][w].line = request.line /\ IsDirty(l1[n][w].state)
  /\ \/ n \in pendingSnoops
     \/ /\ phase = "AwaitSnoop" /\ n = expectedSnoop
        /\ snps # {} \/ (snoop[n].active /\ DirtyHit(snoop[n]))

Snapshot == request.op = "ReadOnce"

\* A reader waits with its request, and its window has the newest data.
ReaderInv ==
  /\ \A i \in IO : io[i].phase = "Read" =>
       \A p \in Packets : latest[io[i].line][p] \in window[i][p]
  /\ \A i \in IO : io[i].phase = "Acknowledge" => io[i].packets = Packets
  /\ \A m \in reqs : m.op = "ReadOnce" => io[m.src].line = m.line
  /\ Busy /\ ~ MovedOn /\ Snapshot => io[request.src].line = request.line

ProbedWindowInv ==
  Probing /\ Snapshot /\ ~ snoopVictim => MergesIntoWindow \/ \E n \in RNF : Owes(n)

\* What the Home answers with, what is in flight and what has arrived.
SnapshotDataInv ==
  /\ phase = "SendCachedData" /\ Snapshot /\ ~ completionError =>
       \A p \in Packets : lineBuffer[p] \in window[request.src][p]
  /\ \A m \in compData : m.dst \in IO /\ ~ m.err => m.version \in window[m.dst][m.packet]
  /\ \A i \in IO : io[i].phase \in {"Read", "Acknowledge"} /\ ~ io[i].err =>
       \A p \in io[i].packets : io[i].data[p] \in window[i][p]

\* An owner that a snapshot has passed may store again: what the Home has then is
\* older than the newest data, but it was the newest after the reader asked.
WindowInv == ReaderInv /\ ProbedWindowInv /\ SnapshotDataInv
==============================================================================
