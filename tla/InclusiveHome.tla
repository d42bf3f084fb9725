---------------------------- MODULE InclusiveHome ----------------------------
(***************************************************************************)
(* CHIInclusiveHNF: a Home with a blocking inclusive last-level cache.     *)
(* One transaction at a time owns the engine; `phase` is its state machine *)
(* and every phase is one action here.  Registers keep the source's names. *)
(*                                                                         *)
(* A line of the LLC is one entry of the arrays, indexed by set and way.   *)
(* residentLines is the directory: the RN-Fs that may hold a copy.  Byte   *)
(* enables are abstracted to whole packets, node and transaction ids to    *)
(* the requester and its packet sets.                                      *)
(***************************************************************************)
EXTENDS CHILinks, FiniteSetsExt

CONSTANTS Sets, WayCount, SetOf

ASSUME HomeAssumption ==
  /\ WayCount \in Nat \ {0}
  /\ SetOf \in [Lines -> Sets]

Ways == 0 .. WayCount - 1

VARIABLES
  phase, request, receivedData, writeData, copybackState, copybackDirty,
  selectedSet, selectedWay, lineBuffer, victimAddress, snoopVictim,
  maintenanceHit, maintenanceDirty,
  pendingSnoops, expectedSnoop, receivedSnoop, snoopRetains,
  receivedFill, remainingResponse, victimBeat, completionError,
  validLines, dirtyLines, residentLines, replacementWays, tags, lineRam

requesterRegs == <<request, receivedData, writeData, copybackState, copybackDirty>>
lookupRegs    == <<selectedSet, selectedWay, victimAddress, snoopVictim, maintenanceHit>>
snoopTargets  == <<pendingSnoops, expectedSnoop>>
snoopRegs     == <<receivedSnoop, snoopRetains>>
backingRegs   == <<receivedFill, victimBeat>>
directory     == <<validLines, dirtyLines, residentLines>>
storage       == <<tags, lineRam, replacementWays>>
homeVars ==
  <<phase, requesterRegs, lookupRegs, lineBuffer, maintenanceDirty, snoopTargets,
    snoopRegs, backingRegs, remainingResponse, completionError, directory, storage>>

Phases ==
  {"Idle", "SendRequesterDBID", "ReceiveRequesterData", "Lookup", "SendSnoop",
   "AwaitSnoop", "AfterSnoops", "SendFillRequest", "ReceiveFillData",
   "SendCachedData", "AwaitCompAck", "MergeRequesterData",
   "SendRequesterCompletion", "SendVictimWriteRequest", "AwaitVictimDBID",
   "SendVictimData", "AwaitVictimCompletion", "FinishMaintenance",
   "FinishCopyBack"}

HomeTypeOK ==
  /\ phase \in Phases
  /\ request \in Request
  /\ receivedData \subseteq Packets /\ writeData \in LineData
  /\ copybackState \in ResponseStates /\ copybackDirty \in BOOLEAN
  /\ selectedSet \in Sets /\ selectedWay \in Ways
  /\ lineBuffer \in LineData
  /\ victimAddress \in Lines \cup {NoLine}
  /\ snoopVictim \in BOOLEAN
  /\ maintenanceHit \in BOOLEAN /\ maintenanceDirty \in BOOLEAN
  /\ pendingSnoops \subseteq RNF /\ expectedSnoop \in RNF
  /\ receivedSnoop \subseteq Packets /\ snoopRetains \in BOOLEAN
  /\ receivedFill \subseteq Packets
  /\ remainingResponse \subseteq Packets
  /\ victimBeat \in Packets
  /\ completionError \in BOOLEAN
  /\ validLines    \in [Sets -> [Ways -> BOOLEAN]]
  /\ dirtyLines    \in [Sets -> [Ways -> BOOLEAN]]
  /\ residentLines \in [Sets -> [Ways -> SUBSET RNF]]
  /\ replacementWays \in [Sets -> Ways]
  /\ tags    \in [Sets -> [Ways -> Lines \cup {NoLine}]]
  /\ lineRam \in [Sets -> [Ways -> LineData]]

\* Registers the reset leaves unset are chosen freely where nothing reads them
\* before they are written; the storage arrays start with no valid way.
HomeInit ==
  /\ phase = "Idle"
  /\ \E n \in Requesters, l \in Lines :
       request = [op |-> "ReadOnce", src |-> n, line |-> l, packets |-> Packets,
                  snoopMe |-> FALSE]
  /\ receivedData = {} /\ writeData = [p \in Packets |-> 0]
  /\ copybackState = "Invalid" /\ copybackDirty = FALSE
  /\ selectedSet \in Sets /\ selectedWay = 0
  /\ lineBuffer = [p \in Packets |-> 0]
  /\ victimAddress = NoLine
  /\ snoopVictim = FALSE
  /\ maintenanceHit = FALSE /\ maintenanceDirty = FALSE
  /\ pendingSnoops = {} /\ expectedSnoop \in RNF
  /\ receivedSnoop = {} /\ snoopRetains = FALSE
  /\ receivedFill = {} /\ remainingResponse = {} /\ victimBeat = 0
  /\ completionError = FALSE
  /\ validLines    = [s \in Sets |-> [w \in Ways |-> FALSE]]
  /\ dirtyLines    = [s \in Sets |-> [w \in Ways |-> FALSE]]
  /\ residentLines = [s \in Sets |-> [w \in Ways |-> {}]]
  /\ replacementWays = [s \in Sets |-> 0]
  /\ tags    = [s \in Sets |-> [w \in Ways |-> NoLine]]
  /\ lineRam = [s \in Sets |-> [w \in Ways |-> [p \in Packets |-> 0]]]

------------------------------------------------------------------------------
Copyback    == request.op = "WriteBackFull"
Maintenance == IsMaintenance(request.op)

Selected(array)   == array[selectedSet][selectedWay]
Put(array, value) == [array EXCEPT ![selectedSet][selectedWay] = value]

RequestSet == SetOf[request.line]
\* Mutant: a tag matches whether or not its way is valid.
MatchingTags(line) == {w \in Ways : tags[SetOf[line]][w] = line}

MatchingWays(line) ==
  {w \in Ways : validLines[SetOf[line]][w] /\ tags[SetOf[line]][w] = line}
LookupHit == MatchingWays(request.line) # {}
AllocationWay ==
  LET invalid == {w \in Ways : ~ validLines[RequestSet][w]}
  IN  IF invalid # {} THEN Min(invalid) ELSE replacementWays[RequestSet]
LookupWay == IF LookupHit THEN Min(MatchingWays(request.line)) ELSE AllocationWay

\* Mutant: a victim's residents are not probed.
SnoopMaskOnHit ==
  {r \in RNF :
     /\ LookupHit /\ r \in residentLines[RequestSet][LookupWay]
     /\ IF Maintenance THEN r # request.src \/ request.snoopMe
        ELSE SnoopsCaches(request.op) /\ r # request.src}

\* The RN-Fs to snoop: of the residents of the looked-up way, those the
\* operation must see, or all of them when the way is a victim.
SnoopMask ==
  {r \in RNF :
     /\ validLines[RequestSet][LookupWay]
     /\ r \in residentLines[RequestSet][LookupWay]
     /\ IF Maintenance THEN LookupHit /\ (r # request.src \/ request.snoopMe)
        ELSE LookupHit => SnoopsCaches(request.op) /\ r # request.src}

SnoopOp      == IF snoopVictim THEN "SnpCleanInvalid" ELSE HomeSnoopOp(request.op)
SnoopAddress == IF snoopVictim THEN victimAddress ELSE request.line

\* Where a transaction that failed, or needs no more backing work, answers.
\* An initial write reports in Comp, a read in the CompData it still owes.
AnswerPhase ==
  IF Maintenance \/ IsWrite(request.op) THEN "SendRequesterCompletion" ELSE "SendCachedData"
FilledPhase == IF IsWrite(request.op) THEN "MergeRequesterData" ELSE "SendCachedData"

MergedLine == [p \in Packets |-> IF p \in receivedData THEN writeData[p] ELSE lineBuffer[p]]

\* A directory bit may be cleared only while its entry describes the snooped line.
DirectoryLineValid == Selected(validLines) /\ (Maintenance => maintenanceHit)

\* Mutant: the replacement pointer does not wrap.
NextWayUnwrapped == selectedWay + 1

NextWay == IF selectedWay = WayCount - 1 THEN 0 ELSE selectedWay + 1

------------------------------------------------------------------------------
(* Accepting a request and collecting the payload of a write.              *)

HomeAcceptRequest ==
  /\ phase = "Idle"
  /\ \E m \in reqs :
       /\ reqs' = reqs \ {m}
       /\ request' = m
       /\ phase' = IF IsWrite(m.op) THEN "SendRequesterDBID" ELSE "Lookup"
  /\ receivedData' = {}
  /\ completionError' = FALSE
  /\ UNCHANGED <<snps, rsps, acks, compData, reqData, subordinateLinks,
                 writeData, copybackState, copybackDirty, lookupRegs, lineBuffer,
                 maintenanceDirty, snoopTargets, snoopRegs, backingRegs,
                 remainingResponse, directory, storage>>

\* Mutant: every writer is told it is already complete.
DBIDOpAlwaysComp == "CompDBIDResp"

DBIDOp == IF Copyback THEN "CompDBIDResp" ELSE "DBIDResp"

HomeSendDBID ==
  /\ phase = "SendRequesterDBID"
  /\ rsps' = rsps \cup {[op |-> DBIDOp, dst |-> request.src, err |-> completionError]}
  /\ phase' = "ReceiveRequesterData"
  /\ UNCHANGED <<reqs, snps, acks, compData, reqData, subordinateLinks,
                 requesterRegs, lookupRegs, lineBuffer, maintenanceDirty,
                 snoopTargets, snoopRegs, backingRegs, remainingResponse,
                 completionError, directory, storage>>

HomeReceiveData ==
  /\ phase = "ReceiveRequesterData"
  /\ \E m \in reqData :
       /\ reqData' = reqData \ {m}
       /\ copybackState' = m.state /\ copybackDirty' = m.passDirty
       /\ writeData' = [writeData EXCEPT ![m.packet] = m.version]
       /\ receivedData' = receivedData \cup {m.packet}
  /\ phase' = IF receivedData' = request.packets THEN "Lookup" ELSE "ReceiveRequesterData"
  /\ UNCHANGED <<reqs, snps, rsps, acks, compData, subordinateLinks, request,
                 lookupRegs, lineBuffer, maintenanceDirty, snoopTargets,
                 snoopRegs, backingRegs, remainingResponse, completionError,
                 directory, storage>>

\* The synchronous tag and data arrays answer: choose the entry, remember the
\* line it holds, and load the snoop targets (a copyback loads none).
HomeLookup ==
  /\ phase = "Lookup"
  /\ selectedSet' = RequestSet
  /\ selectedWay' = LookupWay
  /\ lineBuffer' = lineRam[RequestSet][LookupWay]
  /\ victimAddress' = tags[RequestSet][AllocationWay]
  /\ snoopVictim' = (~ LookupHit /\ ~ Maintenance)
  /\ maintenanceHit' = LookupHit
  /\ maintenanceDirty' = (LookupHit /\ dirtyLines[RequestSet][LookupWay])
  /\ pendingSnoops' = IF Copyback THEN pendingSnoops ELSE SnoopMask
  /\ phase' = IF Copyback THEN "FinishCopyBack"
              ELSE IF LookupHit \/ Maintenance \/ validLines[RequestSet][AllocationWay]
                   THEN "SendSnoop" ELSE "SendFillRequest"
  /\ UNCHANGED <<requesterLinks, subordinateLinks, requesterRegs, expectedSnoop,
                 snoopRegs, backingRegs, remainingResponse, completionError,
                 directory, storage>>

\* Mutant: every copyback writes the line.
CopybackAlwaysWrites == TRUE

CopybackWrites == copybackDirty

\* Clean and Invalid late copybacks leave the data alone; any copyback that
\* finds its line retires the returning requester from the directory.
HomeFinishCopyBack ==
  /\ phase = "FinishCopyBack"
  /\ dirtyLines' = IF CopybackWrites THEN Put(dirtyLines, TRUE) ELSE dirtyLines
  /\ lineRam' = IF CopybackWrites THEN Put(lineRam, MergedLine) ELSE lineRam
  /\ residentLines' = IF maintenanceHit
                      THEN Put(residentLines, Selected(residentLines) \ {request.src})
                      ELSE residentLines
  /\ phase' = "Idle"
  /\ UNCHANGED <<requesterLinks, subordinateLinks, requesterRegs, lookupRegs,
                 lineBuffer, maintenanceDirty, snoopTargets, snoopRegs,
                 backingRegs, remainingResponse, completionError, validLines,
                 tags, replacementWays>>

------------------------------------------------------------------------------
(* Snooping: one responder at a time, then the decision.                   *)

HomeSendSnoop ==
  /\ phase = "SendSnoop"
  /\ \E r \in pendingSnoops :   \* the source issues in index order, one of these
       /\ snps' = snps \cup {[dst |-> r, op |-> SnoopOp, line |-> SnoopAddress]}
       /\ pendingSnoops' = pendingSnoops \ {r}
       /\ expectedSnoop' = r
  /\ receivedSnoop' = {} /\ snoopRetains' = FALSE
  /\ phase' = "AwaitSnoop"
  /\ UNCHANGED <<reqs, rsps, acks, compData, reqData, subordinateLinks,
                 requesterRegs, lookupRegs, lineBuffer, maintenanceDirty,
                 backingRegs, remainingResponse, completionError, directory,
                 storage>>

HomeSnoopsDone ==
  /\ phase = "SendSnoop" /\ pendingSnoops = {}
  /\ phase' = "AfterSnoops"
  /\ UNCHANGED <<requesterLinks, subordinateLinks, requesterRegs, lookupRegs,
                 lineBuffer, maintenanceDirty, snoopTargets, snoopRegs,
                 backingRegs, remainingResponse, completionError, directory,
                 storage>>

\* Mutants: any answer, or a failed one, counts as proof of absence.
AnyAnswerProves(m)    == TRUE
FailedAnswerProves(m) == m.state = "Invalid"

ProvesAbsent(m) == ~ m.err /\ m.state = "Invalid"

\* Mutant: a later clean answer clears the error of an earlier one.
LastError(err) == err

\* completion_error is never cleared by a later success of the transaction; a
\* later error may replace its code, which the Boolean does not tell apart.
NoteError(err) == completionError \/ err

\* A clean answer.  Only a successful Invalid one proves the copy absent.
HomeSnoopResponse ==
  /\ phase = "AwaitSnoop"
  /\ \E m \in acks :
       /\ acks' = acks \ {m}
       /\ completionError' = NoteError(m.err)
       /\ residentLines' =
            IF DirectoryLineValid /\ ProvesAbsent(m)
            THEN Put(residentLines, Selected(residentLines) \ {expectedSnoop})
            ELSE residentLines
  /\ phase' = "SendSnoop"
  /\ UNCHANGED <<reqs, snps, rsps, compData, reqData, subordinateLinks,
                 requesterRegs, lookupRegs, lineBuffer, maintenanceDirty,
                 snoopTargets, snoopRegs, backingRegs, remainingResponse,
                 validLines, dirtyLines, storage>>

\* Mutant: one packet is taken for the whole line.
FirstIsAll(received, packet) == TRUE

AllArrived(received, packet) == received \cup {packet} = Packets

\* Mutant: an intervention marks its line dirty only when it is a victim.
MarksVictimDirty == snoopVictim

MarksDirty == Maintenance => maintenanceHit

\* One packet of a dirty intervention, merged into the line buffer.
HomeSnoopData ==
  /\ phase = "AwaitSnoop"
  /\ \E m \in reqData :
       LET final == AllArrived(receivedSnoop, m.packet)
           keeps == ~ ProvesAbsent(m)
       IN  /\ reqData' = reqData \ {m}
           /\ lineBuffer' = [lineBuffer EXCEPT ![m.packet] = m.version]
           /\ receivedSnoop' = receivedSnoop \cup {m.packet}
           /\ snoopRetains' = (snoopRetains \/ keeps)
           /\ completionError' = NoteError(m.err)
           /\ residentLines' =
                IF DirectoryLineValid /\ final /\ ~ snoopRetains /\ ~ keeps
                THEN Put(residentLines, Selected(residentLines) \ {expectedSnoop})
                ELSE residentLines
           /\ phase' = IF final THEN "SendSnoop" ELSE "AwaitSnoop"
  /\ dirtyLines' = IF MarksDirty THEN Put(dirtyLines, TRUE) ELSE dirtyLines
  /\ maintenanceDirty' = TRUE
  /\ UNCHANGED <<reqs, snps, rsps, acks, compData, subordinateLinks,
                 requesterRegs, lookupRegs, snoopTargets, backingRegs,
                 remainingResponse, validLines, storage>>

\* Mutant: only a read puts what its probes returned back into the array.
WritesLineOfReads == IF snoopVictim THEN completionError ELSE ~ Maintenance

\* The merged line goes back to the array, except that a victim about to leave
\* keeps it in the line buffer only (and writes it if it must stay instead).
WritesLineAfterSnoops ==
  IF snoopVictim THEN completionError
  ELSE Maintenance => maintenanceHit /\ request.op # "MakeInvalid"

HomeAfterSnoops ==
  /\ phase = "AfterSnoops"
  /\ LET drop == snoopVictim /\ ~ Selected(dirtyLines) /\ ~ completionError
     IN  /\ validLines' = IF drop THEN Put(validLines, FALSE) ELSE validLines
         /\ residentLines' = IF drop THEN Put(residentLines, {}) ELSE residentLines
  /\ lineRam' = IF WritesLineAfterSnoops THEN Put(lineRam, lineBuffer) ELSE lineRam
  /\ victimBeat' = 0
  /\ phase' =
       CASE completionError -> AnswerPhase
         [] ~ completionError /\ Maintenance ->
              IF maintenanceDirty /\ request.op # "MakeInvalid"
              THEN "SendVictimWriteRequest" ELSE "FinishMaintenance"
         [] ~ completionError /\ ~ Maintenance /\ snoopVictim ->
              IF Selected(dirtyLines) THEN "SendVictimWriteRequest" ELSE "SendFillRequest"
         [] OTHER -> FilledPhase
  /\ remainingResponse' = IF phase' \in {"SendCachedData", "MergeRequesterData",
                                         "SendRequesterCompletion"}
                          THEN request.packets ELSE remainingResponse
  /\ UNCHANGED <<requesterLinks, subordinateLinks, requesterRegs, lookupRegs,
                 lineBuffer, maintenanceDirty, snoopTargets, snoopRegs,
                 receivedFill, completionError, dirtyLines, tags, replacementWays>>

------------------------------------------------------------------------------
(* Backing memory: writing a dirty line back, then filling the way.        *)

\* Mutant: a victim is written to the line that replaces it.
WriteBackLineOfRequest == request.line

WriteBackLine == IF Maintenance THEN request.line ELSE victimAddress

HomeSendMemRequest ==
  /\ phase \in {"SendVictimWriteRequest", "SendFillRequest"}
  /\ LET write == phase = "SendVictimWriteRequest"
     IN  /\ memReqs' = memReqs \cup
              {[op   |-> IF write THEN "WriteNoSnpFull" ELSE "ReadNoSnp",
                line |-> IF write THEN WriteBackLine ELSE request.line]}
         /\ phase' = IF write THEN "AwaitVictimDBID" ELSE "ReceiveFillData"
         /\ receivedFill' = IF write THEN receivedFill ELSE {}
  /\ UNCHANGED <<requesterLinks, memRsps, fillData, memData, requesterRegs,
                 lookupRegs, lineBuffer, maintenanceDirty, snoopTargets,
                 snoopRegs, victimBeat, remainingResponse, completionError,
                 directory, storage>>

HomeVictimDBID ==
  /\ phase = "AwaitVictimDBID"
  /\ \E m \in memRsps :
       /\ memRsps' = memRsps \ {m}
       /\ completionError' = NoteError(m.err)
  /\ phase' = "SendVictimData"
  /\ UNCHANGED <<requesterLinks, memReqs, fillData, memData, requesterRegs,
                 lookupRegs, lineBuffer, maintenanceDirty, snoopTargets,
                 snoopRegs, backingRegs, remainingResponse, directory, storage>>

HomeSendVictimData ==
  /\ phase = "SendVictimData"
  /\ memData' = memData \cup {[packet |-> victimBeat, version |-> lineBuffer[victimBeat]]}
  /\ LET final == victimBeat = PacketCount - 1
     IN  /\ victimBeat' = IF final THEN victimBeat ELSE victimBeat + 1
         /\ phase' = IF final THEN "AwaitVictimCompletion" ELSE "SendVictimData"
  /\ UNCHANGED <<requesterLinks, memReqs, memRsps, fillData, requesterRegs,
                 lookupRegs, lineBuffer, maintenanceDirty, snoopTargets,
                 snoopRegs, receivedFill, remainingResponse, completionError,
                 directory, storage>>

\* A victim leaves the array only when memory has confirmed its data.
HomeVictimCompletion ==
  /\ phase = "AwaitVictimCompletion"
  /\ \E m \in memRsps :
       LET success == ~ completionError /\ ~ m.err
           retire  == ~ Maintenance /\ success
       IN  /\ memRsps' = memRsps \ {m}
           /\ completionError' = NoteError(m.err)
           /\ validLines' = IF retire THEN Put(validLines, FALSE) ELSE validLines
           /\ dirtyLines' = IF retire THEN Put(dirtyLines, FALSE) ELSE dirtyLines
           /\ residentLines' = IF retire THEN Put(residentLines, {}) ELSE residentLines
           /\ phase' = CASE Maintenance -> "FinishMaintenance"
                          [] retire      -> "SendFillRequest"
                          [] OTHER       -> AnswerPhase
  /\ remainingResponse' = request.packets
  /\ UNCHANGED <<requesterLinks, memReqs, fillData, memData, requesterRegs,
                 lookupRegs, lineBuffer, maintenanceDirty, snoopTargets,
                 snoopRegs, backingRegs, storage>>

\* Mutant: a clean whose write failed still counts as clean.
MaintenanceDoneDespiteError == maintenanceHit

MaintenanceDone == maintenanceHit /\ ~ completionError

HomeFinishMaintenance ==
  /\ phase = "FinishMaintenance"
  /\ LET done == MaintenanceDone
         drop == done /\ request.op # "CleanShared"
     IN  /\ dirtyLines' = IF done THEN Put(dirtyLines, FALSE) ELSE dirtyLines
         /\ validLines' = IF drop THEN Put(validLines, FALSE) ELSE validLines
         /\ residentLines' = IF drop THEN Put(residentLines, {}) ELSE residentLines
  /\ phase' = "SendRequesterCompletion"
  /\ UNCHANGED <<requesterLinks, subordinateLinks, requesterRegs, lookupRegs,
                 lineBuffer, maintenanceDirty, snoopTargets, snoopRegs,
                 backingRegs, remainingResponse, completionError, storage>>

\* The last packet installs the line, or leaves the way invalid after an error.
HomeReceiveFill ==
  /\ phase = "ReceiveFillData"
  /\ \E m \in fillData :
       LET final   == AllArrived(receivedFill, m.packet)
           success == ~ completionError /\ ~ m.err
           install == final /\ success
       IN  /\ fillData' = fillData \ {m}
           /\ lineBuffer' = [lineBuffer EXCEPT ![m.packet] = m.version]
           /\ receivedFill' = receivedFill \cup {m.packet}
           /\ completionError' = NoteError(m.err)
           /\ validLines' = IF final THEN Put(validLines, success) ELSE validLines
           /\ dirtyLines' = IF final THEN Put(dirtyLines, FALSE) ELSE dirtyLines
           /\ residentLines' = IF install THEN Put(residentLines, {}) ELSE residentLines
           /\ tags' = IF install THEN Put(tags, request.line) ELSE tags
           /\ lineRam' = IF install THEN Put(lineRam, lineBuffer') ELSE lineRam
           /\ replacementWays' = IF final THEN [replacementWays EXCEPT ![selectedSet] = NextWay]
                                 ELSE replacementWays
           /\ phase' = IF final THEN FilledPhase ELSE "ReceiveFillData"
           /\ remainingResponse' = IF final THEN request.packets ELSE remainingResponse
  /\ UNCHANGED <<requesterLinks, memReqs, memRsps, memData, requesterRegs,
                 lookupRegs, maintenanceDirty, snoopTargets, snoopRegs, victimBeat>>

------------------------------------------------------------------------------
(* Answering the requester.                                                *)

\* The merge does not look at completionError: after a failed fill it marks
\* an invalid way dirty.
HomeMergeRequesterData ==
  /\ phase = "MergeRequesterData"
  /\ lineBuffer' = MergedLine
  /\ lineRam' = Put(lineRam, MergedLine)
  /\ dirtyLines' = Put(dirtyLines, TRUE)
  /\ phase' = "SendRequesterCompletion"
  /\ UNCHANGED <<requesterLinks, subordinateLinks, requesterRegs, lookupRegs,
                 maintenanceDirty, snoopTargets, snoopRegs, backingRegs,
                 remainingResponse, completionError, validLines, residentLines,
                 tags, replacementWays>>

HomeSendCompletion ==
  /\ phase = "SendRequesterCompletion"
  /\ rsps' = rsps \cup {[op |-> "Comp", dst |-> request.src, err |-> completionError]}
  /\ phase' = "Idle"
  /\ UNCHANGED <<reqs, snps, acks, compData, reqData, subordinateLinks,
                 requesterRegs, lookupRegs, lineBuffer, maintenanceDirty,
                 snoopTargets, snoopRegs, backingRegs, remainingResponse,
                 completionError, directory, storage>>

\* CompData packets leave in index order.  The last one of a successful grant
\* records the requester in the directory.
GrantedState ==
  CASE completionError \/ ~ AllocatesCoherent(request.op) -> "Invalid"
    [] request.op = "ReadUnique" /\ ~ completionError     -> "Unique"
    [] OTHER                                              -> "SharedClean"

HomeSendCachedData ==
  /\ phase = "SendCachedData"
  /\ LET packet == Min(remainingResponse)
         final  == remainingResponse = {packet}
         grant  == final /\ ~ completionError /\ request.op \in RefillOps
     IN  /\ compData' = compData \cup
              {[dst |-> request.src, packet |-> packet, version |-> lineBuffer[packet],
                state |-> GrantedState, err |-> completionError]}
         /\ remainingResponse' = remainingResponse \ {packet}
         /\ residentLines' =
              IF grant THEN Put(residentLines, Selected(residentLines) \cup {request.src})
              ELSE residentLines
         /\ phase' = IF final THEN "AwaitCompAck" ELSE "SendCachedData"
  /\ UNCHANGED <<reqs, snps, rsps, acks, reqData, subordinateLinks,
                 requesterRegs, lookupRegs, lineBuffer, maintenanceDirty,
                 snoopTargets, snoopRegs, backingRegs, completionError,
                 validLines, dirtyLines, storage>>

\* Every read of these requesters sets exp_comp_ack: the Home stays on the line
\* until the requester holds it.
HomeCompAck ==
  /\ phase = "AwaitCompAck"
  /\ \E m \in acks : acks' = acks \ {m}
  /\ phase' = "Idle"
  /\ UNCHANGED <<reqs, snps, rsps, compData, reqData, subordinateLinks,
                 requesterRegs, lookupRegs, lineBuffer, maintenanceDirty,
                 snoopTargets, snoopRegs, backingRegs, remainingResponse,
                 completionError, directory, storage>>
==============================================================================
