------------------------- MODULE ClusterCoherenceProofs -------------------------
(***************************************************************************)
(* The coherence half of the invariant of InclusiveSystem                  *)
(* (ClusterInvariant), the theorem that the whole of it holds, and what    *)
(* follows: one writer per line, a directory that covers every copy, the   *)
(* Home's assertions, and the refinement of CoherentMemory.                *)
(*                                                                         *)
(* The argument: only the last packet of a refill gives a cache a line it  *)
(* did not hold, and that packet exists only when the directory already    *)
(* tracks the cache and everyone in its way has been probed out            *)
(* (RefillCoherent).  Everything else takes holdings away (NoNewHolding),  *)
(* and the Home drops a tracked sharer only when the answer it consumed    *)
(* was true of the cache (CacheAnswers, HomeProbes).                       *)
(***************************************************************************)
EXTENDS InclusiveSystemProofs, FiniteSetTheorems

------------------------------------------------------------------------------
(* The arrays, the engines and the probes of a cache.                       *)

\* A cache keeps its ways apart, and its probe up to date with the array.
LEMMA CacheL1 ==
  ASSUME TypeInv, RequesterSideInv, ProbeInv, L1Inv, NEW n \in RNF, CacheStep(n)
  PROVE  L1Inv'
<1> DEFINE Fits == WaysFit(l1[n], engine[n]) /\ LookupFits(l1[n], engine[n], snoop[n])
           Others == \A k \in RNF \ {n} : l1'[k] = l1[k] /\ engine'[k] = engine[k]
                                                        /\ snoop'[k] = snoop[k]
<1> USE DEF OtherWays, OtherEngines, OtherProbes, EngineGoes
<1>0. NoLine \notin Lines
  BY LinkAssumption
<1>1. /\ engine[n].way \in L1Ways /\ snoop[n].way \in L1Ways
      /\ WaysHaveLines(l1[n]) /\ EngineHasLine(l1[n], engine[n])
      /\ ProbeHasLine(l1[n], engine[n], snoop[n])
  BY DEF TypeInv, CachesHaveLines, NodeInv, EngineState, SnoopState
<1>2. Fits
  BY DEF L1Inv
<1>3. SUFFICES Others /\ Fits'
  BY DEF L1Inv
<1> USE <1>0, <1>1, <1>2
        DEF WaysHaveLines, EngineHasLine, ProbeHasLine, WaysFit, LookupFits
<1>4. CASE StoreHit(n)
  <2>1. PICK w \in L1Ways : StoreEffect(n, w)
    BY <1>4, StoreHitEffect
  <2>2. UNCHANGED <<engine, snoop>> /\ engine[n].phase = "Idle"
    BY <1>4 DEF StoreHit
  <2> QED BY <2>1, <2>2 DEF StoreEffect, SnoopOn, IsUnique
<1>5. CASE StartMiss(n)
  <2>1. PICK access \in Accesses \ {"maintenance"}, line \in Lines, w \in L1Ways,
             evict \in BOOLEAN : MissEffect(n, access, line, w, evict)
    BY <1>5, StartMissEffect
  <2>2. UNCHANGED <<l1, snoop>> /\ ~ snoop[n].active
    BY <1>5 DEF StartMiss
  <2>3. \A v \in L1Ways : l1[n][v].line = line => v = w
    BY <2>1 DEF MissEffect, MissWays, HitWays
  <2> QED BY <2>1, <2>2, <2>3 DEF MissEffect, HitWays
<1>6. CASE StartMaintenance(n)
  <2>1. PICK op \in MaintenanceOps, line \in Lines : MaintenanceEffect(n, op, line)
    BY <1>6, StartMaintenanceEffect
  <2>2. UNCHANGED <<l1, snoop>>
    BY <1>6 DEF StartMaintenance
  <2> QED BY <2>1, <2>2 DEF MaintenanceEffect
<1>7. CASE FinishMaintenance(n) \/ FinishWithoutInstall(n)
  <2>1. OtherEngines(n) /\ engine'[n].phase = "Idle"
    BY <1>7, IdleAgainEffect
  <2>2. UNCHANGED <<l1, snoop>>
    BY <1>7 DEF FinishMaintenance, FinishWithoutInstall
  <2> QED BY <2>1, <2>2
<1>8. CASE CopybackGrant(n)
  <2>1. EngineGoes(n, "CopybackData") /\ engine'[n].state = engine[n].state
    BY <1>8, CopybackGrantEffect
  <2>2. UNCHANGED <<l1, snoop>> /\ engine[n].phase = "Copyback"
    BY <1>8 DEF CopybackGrant
  <2> QED BY <2>1, <2>2
<1>9. CASE CopybackSend(n)
  <2>1. PICK p \in Packets : CopybackSendEffect(n, p)
    BY <1>9, CopybackSendEffects
  <2>2. UNCHANGED snoop /\ engine[n].phase = "CopybackData"
    BY <1>9 DEF CopybackSend
  <2>3. ~ snoop[n].active
    BY <2>2 DEF RequesterSideInv, CopybackInv, ProbeInv, ProbeInFlightInv
  <2> QED BY <2>1, <2>2, <2>3 DEF CopybackSendEffect
<1>10. CASE RefillData(n)
  <2>1. PICK m \in compData : RefillDataEffect(n, m)
    BY <1>10, RefillDataEffects
  <2>2. UNCHANGED <<l1, snoop>> /\ engine[n].phase = "Refill"
    BY <1>10 DEF RefillData
  <2>3. ~ snoop[n].active
    BY <2>1 DEF RequesterSideInv, ReadDataInv, Answering, ProbeInv, ProbeInFlightInv
  <2> QED BY <2>1, <2>2, <2>3 DEF RefillDataEffect
<1>11. CASE RefillAcknowledge(n)
  <2>1. EngineGoes(n, "Complete") /\ engine'[n].state = engine[n].state
    BY <1>11, RefillAcknowledgeEffect
  <2>2. UNCHANGED <<l1, snoop>> /\ engine[n].phase = "Acknowledge"
    BY <1>11 DEF RefillAcknowledge
  <2> QED BY <2>1, <2>2
<1>12. CASE InstallRefill(n)
  <2>1. InstallEffect(n)
    BY <1>12, InstallRefillEffect
  <2>2. UNCHANGED snoop /\ engine[n].phase = "Complete" /\ ~ snoop[n].active
    BY <1>12 DEF InstallRefill, RefillCanComplete
  <2> QED BY <2>1, <2>2 DEF InstallEffect
<1>13. CASE SnoopAccept(n)
  <2>1. PICK m \in snps : AcceptEffect(n, m)
    BY <1>13, SnoopAcceptEffect
  <2>2. UNCHANGED <<l1, engine>> /\ ~ ProtectRefill(n)
    BY <1>13 DEF SnoopAccept
  <2> QED BY <2>1, <2>2 DEF AcceptEffect, HitWays, ProtectRefill
<1>14. ASSUME snoop[n].active, RetireEffect(n)
       PROVE  Others /\ Fits'
  <2>1. CASE Updates(snoop[n])
    BY <1>14, <2>1 DEF RetireEffect, Updates, NewState
  <2>2. CASE ~ Updates(snoop[n])
    BY <1>14, <2>2 DEF RetireEffect
  <2> QED BY <2>1, <2>2
<1>15. CASE SnoopRespond(n)
  <2>1. PICK a : RespondEffect(n, a)
    BY <1>15, SnoopRespondEffect
  <2> QED BY <1>14, <1>15, <2>1 DEF RespondEffect, SnoopRespond
<1>16. CASE SnoopSendData(n)
  <2>1. PICK d : SnoopDataEffect(n, d)
    BY <1>16, SnoopSendDataEffect
  <2>2. CASE RetireEffect(n)
    BY <1>14, <1>16, <2>2 DEF SnoopSendData
  <2>3. CASE ~ RetireEffect(n)
    <3>1. /\ UNCHANGED <<l1, engine>> /\ OtherProbes(n)
          /\ snoop'[n] = [snoop[n] EXCEPT !.packets = @ \cup {d.packet}]
      BY <2>1, <2>3 DEF SnoopDataEffect
    <3>2. /\ snoop'[n].active <=> snoop[n].active
          /\ snoop'[n].hit <=> snoop[n].hit
          /\ snoop'[n].way = snoop[n].way /\ snoop'[n].state = snoop[n].state
          /\ snoop'[n].line = snoop[n].line
      BY <3>1, CacheTypes DEF SnoopState
    <3> QED BY <3>1, <3>2
  <2> QED BY <2>2, <2>3
<1> QED BY <1>4, <1>5, <1>6, <1>7, <1>8, <1>9, <1>10, <1>11, <1>12, <1>13, <1>15, <1>16
        DEF CacheStep, CoreStep, EngineDuty, SnoopDuty

------------------------------------------------------------------------------
(* The directory.                                                           *)

\* Only the Home's own steps can disturb the directory.
LEMMA DirectoryKept ==
  ASSUME DirectoryInv, UNCHANGED homeVars
  PROVE  DirectoryInv'
<1>1. UNCHANGED <<phase, request, selectedSet, selectedWay, victimAddress, snoopVictim,
                  maintenanceHit, pendingSnoops, completionError, validLines, residentLines, tags>>
  BY DEF homeVars, requesterRegs, lookupRegs, snoopTargets, directory, storage
<1> QED BY <1>1 DEF DirectoryInv, EntriesInv, SelectedInv, Snooping, VictimWrite, WritingVictim,
     Filling, Maintenance, RequestSet, IsEntry, NoEntry, Valid, Selected

\* What the lookup chooses: the entry of the line if there is one.
LEMMA LookupChoice ==
  ASSUME TypeInv, EntriesInv
  PROVE  /\ LookupHit => /\ validLines[RequestSet][LookupWay]
                         /\ tags[RequestSet][LookupWay] = request.line
         /\ ~ LookupHit => NoEntry(request.line) /\ LookupWay = AllocationWay
<1>1. CASE LookupHit
  <2>1. LookupWay \in MatchingWays(request.line)
    BY <1>1, IndexFacts, MinInSet DEF LookupWay, LookupHit, MatchingWays
  <2> QED BY <1>1, <2>1 DEF MatchingWays, RequestSet
<1>2. CASE ~ LookupHit
  <2>1. NoEntry(request.line)
    BY <1>2 DEF LookupHit, MatchingWays, NoEntry, Valid, EntriesInv
  <2> QED BY <1>2, <2>1 DEF LookupWay
<1> QED BY <1>1, <1>2

\* Dropping the selected entry leaves its line without one.
LEMMA DropEntry ==
  ASSUME HomeTypeOK, EntriesInv, UNCHANGED <<selectedSet, selectedWay, tags>>,
         validLines' \in {validLines, Put(validLines, FALSE)}
  PROVE  /\ EntriesInv'
         /\ \A line : NoEntry(line) => NoEntry(line)'
         /\ validLines' = Put(validLines, FALSE) => ~ Selected(validLines)'
<1>1. /\ selectedSet \in Sets /\ selectedWay \in Ways
      /\ validLines \in [Sets -> [Ways -> BOOLEAN]]
  BY DEF HomeTypeOK
<1>2. \A s \in Sets, w \in Ways :
        /\ validLines'[s][w] => validLines[s][w]
        /\ validLines' = Put(validLines, FALSE) /\ s = selectedSet /\ w = selectedWay =>
             ~ validLines'[s][w]
  <2>1. \A s \in Sets, w \in Ways : Put(validLines, FALSE)[s][w] =
          IF s = selectedSet /\ w = selectedWay THEN FALSE ELSE validLines[s][w]
    BY <1>1 DEF Put
  <2> QED BY <2>1
<1> QED BY <1>1, <1>2 DEF EntriesInv, NoEntry, Valid, Selected

\* They do not: an entry is unique, and the selected one is the request's when it is used.
LEMMA HomeDirectory ==
  ASSUME TypeInv, PhaseFits, DirectoryInv, HomeStep
  PROVE  DirectoryInv'
<1> USE DEF DirectoryInv, EntriesInv, SelectedInv, Snooping, VictimWrite, WritingVictim,
            Filling, Maintenance, Copyback, RequestSet, IsEntry, NoEntry, Valid, Selected,
            requesterRegs, lookupRegs, snoopTargets, directory, storage
<1>0. /\ selectedSet \in Sets /\ selectedWay \in Ways
      /\ validLines \in [Sets -> [Ways -> BOOLEAN]]
      /\ tags \in [Sets -> [Ways -> Lines \cup {NoLine}]]
      /\ residentLines \in [Sets -> [Ways -> SUBSET RNF]]
      /\ HomeTypeOK /\ request.line \in Lines /\ SetOf[request.line] \in Sets /\ NoLine \notin Lines
  BY LinkAssumption, HomeAssumption DEF TypeInv, TypeOK, HomeTypeOK, Request
<1>1. CASE HomeAcceptRequest
  BY <1>0, <1>1 DEF HomeAcceptRequest, IsWrite
<1>2. CASE HomeSendDBID \/ HomeReceiveData \/ HomeMergeRequesterData \/ HomeSendCompletion
             \/ HomeCompAck \/ HomeSnoopsDone
  <2>1. /\ UNCHANGED <<request, selectedSet, selectedWay, snoopVictim, victimAddress,
                       maintenanceHit, pendingSnoops, completionError, validLines, tags>>
        /\ \/ phase' \in {"Idle", "SendRequesterCompletion", "ReceiveRequesterData", "Lookup"}
           \/ phase = "SendSnoop" /\ phase' = "AfterSnoops" /\ pendingSnoops = {}
        /\ phase \in {"SendRequesterDBID", "ReceiveRequesterData"} =>
             phase' \in {"ReceiveRequesterData", "Lookup"}
        /\ phase = "MergeRequesterData" => phase' = "SendRequesterCompletion"
    BY <1>2 DEF HomeSendDBID, HomeReceiveData, HomeMergeRequesterData, HomeSendCompletion,
                HomeCompAck, HomeSnoopsDone
  <2>2. phase' \in {"SendRequesterCompletion"} => phase = "MergeRequesterData"
    BY <1>2 DEF HomeSendDBID, HomeReceiveData, HomeMergeRequesterData, HomeSendCompletion,
                HomeCompAck, HomeSnoopsDone
  <2> QED BY <1>0, <2>1, <2>2
<1>3. CASE HomeLookup
  <2>1. /\ LookupHit => /\ validLines[RequestSet][LookupWay]
                        /\ tags[RequestSet][LookupWay] = request.line
        /\ ~ LookupHit => NoEntry(request.line) /\ LookupWay = AllocationWay
    BY LookupChoice
  <2>2. pendingSnoops' = {} \/ Copyback \/ LookupHit \/ ~ Maintenance
    BY <1>3 DEF HomeLookup, SnoopMask
  <2> QED BY <1>0, <1>3, <2>1, <2>2 DEF HomeLookup
<1>4. CASE HomeFinishCopyBack
  BY <1>0, <1>4 DEF HomeFinishCopyBack
<1>5. CASE HomeSendSnoop
  BY <1>0, <1>5 DEF HomeSendSnoop
<1>6. CASE HomeSnoopResponse \/ HomeSnoopData
  <2>1. /\ UNCHANGED <<request, selectedSet, selectedWay, snoopVictim, victimAddress,
                       maintenanceHit,
                       pendingSnoops, validLines, tags>>
        /\ phase = "AwaitSnoop" /\ phase' \in {"SendSnoop", "AwaitSnoop"}
    BY <1>6 DEF HomeSnoopResponse, HomeSnoopData
  <2> QED BY <1>0, <2>1
<1>7. CASE HomeAfterSnoops
  <2> DEFINE drop == snoopVictim /\ ~ Selected(dirtyLines) /\ ~ completionError
  <2>1. /\ UNCHANGED <<request, selectedSet, selectedWay, snoopVictim, victimAddress,
                       maintenanceHit,
                       pendingSnoops, completionError, tags>>
        /\ phase = "AfterSnoops"
        /\ phase' \in {"SendFillRequest", "SendVictimWriteRequest", "FinishMaintenance",
                       "SendRequesterCompletion", "SendCachedData", "MergeRequesterData"}
        /\ validLines' = IF drop THEN Put(validLines, FALSE) ELSE validLines
        /\ phase' = "SendFillRequest" => drop
        /\ phase' = "SendVictimWriteRequest" => ~ drop /\ (Maintenance \/ snoopVictim)
        /\ phase' \in {"SendCachedData", "MergeRequesterData"} /\ ~ completionError =>
             ~ snoopVictim /\ ~ Maintenance
        /\ phase' = "FinishMaintenance" => ~ drop /\ Maintenance
    BY <1>7 DEF HomeAfterSnoops, AnswerPhase, FilledPhase, PhaseFits
  <2>2. /\ EntriesInv'
        /\ \A line : NoEntry(line) => NoEntry(line)'
        /\ validLines' = Put(validLines, FALSE) => ~ Selected(validLines)'
    <3> HIDE DEF drop, EntriesInv, NoEntry, Selected
    <3> QED BY <1>0, <2>1, DropEntry
  <2>3. SelectedInv'
    <3> HIDE DEF EntriesInv, NoEntry
    <3> QED BY <1>0, <2>1, <2>2 DEF PhaseFits
  <2> QED BY <2>2, <2>3
<1>8. CASE HomeSendMemRequest \/ HomeVictimDBID \/ HomeSendVictimData
  BY <1>0, <1>8 DEF HomeSendMemRequest, HomeVictimDBID, HomeSendVictimData
<1>9. CASE HomeVictimCompletion
  <2>1. /\ UNCHANGED <<request, selectedSet, selectedWay, snoopVictim, victimAddress,
                       maintenanceHit,
                       pendingSnoops, tags>>
        /\ phase = "AwaitVictimCompletion"
        /\ validLines' \in {validLines, Put(validLines, FALSE)}
        /\ \/ phase' = "FinishMaintenance" /\ Maintenance /\ validLines' = validLines
           \/ phase' = "SendFillRequest" /\ ~ Maintenance /\ validLines' = Put(validLines, FALSE)
           \/ phase' \in {"SendRequesterCompletion", "SendCachedData"} /\ completionError'
    BY <1>9 DEF HomeVictimCompletion, AnswerPhase, NoteError
  <2>2. /\ EntriesInv'
        /\ \A line : NoEntry(line) => NoEntry(line)'
        /\ validLines' = Put(validLines, FALSE) => ~ Selected(validLines)'
    <3> HIDE DEF EntriesInv, NoEntry, Selected
    <3> QED BY <1>0, <2>1, DropEntry
  <2>3. SelectedInv'
    <3> HIDE DEF EntriesInv, NoEntry
    <3> QED BY <1>0, <2>1, <2>2 DEF PhaseFits
  <2> QED BY <2>2, <2>3
<1>10. CASE HomeFinishMaintenance
  <2>1. /\ UNCHANGED <<request, selectedSet, selectedWay, tags>>
        /\ phase = "FinishMaintenance" /\ phase' = "SendRequesterCompletion"
        /\ validLines' \in {validLines, Put(validLines, FALSE)}
    BY <1>10 DEF HomeFinishMaintenance
  <2>2. EntriesInv'
    <3> HIDE DEF EntriesInv, NoEntry, Selected
    <3> QED BY <1>0, <2>1, DropEntry
  <2> QED BY <1>0, <2>1, <2>2
<1>11. CASE HomeReceiveFill
  <2>1. /\ UNCHANGED <<request, selectedSet, selectedWay>>
        /\ phase = "ReceiveFillData"
        /\ phase' \in {"ReceiveFillData", "SendCachedData", "MergeRequesterData"}
        /\ phase' = "ReceiveFillData" => UNCHANGED <<validLines, tags>>
        /\ phase' # "ReceiveFillData" =>
             \/ /\ ~ completionError' /\ validLines' = Put(validLines, TRUE)
                /\ tags' = Put(tags, request.line)
             \/ /\ completionError' /\ validLines' = Put(validLines, FALSE) /\ tags' = tags
    <3>1. PICK m \in fillData :
            LET final   == AllArrived(receivedFill, m.packet)
                success == ~ completionError /\ ~ m.err
            IN  /\ completionError' = NoteError(m.err)
                /\ validLines' = IF final THEN Put(validLines, success) ELSE validLines
                /\ tags' = IF final /\ success THEN Put(tags, request.line) ELSE tags
                /\ phase' = IF final THEN FilledPhase ELSE "ReceiveFillData"
      BY <1>11 DEF HomeReceiveFill
    <3>2. completionError' \in BOOLEAN /\ completionError \in BOOLEAN /\ m.err \in BOOLEAN
      BY <1>0, <3>1 DEF NoteError, TypeInv, TypeOK, HomeTypeOK, LinksTypeOK, FillPacket
    <3> HIDE DEF Selected
    <3>3. ~ completionError /\ ~ m.err => (~ completionError /\ ~ m.err) = TRUE
      BY <3>2
    <3>4. ~ (~ completionError /\ ~ m.err) => (~ completionError /\ ~ m.err) = FALSE
      BY <3>2
    <3> QED BY <1>11, <3>1, <3>2, <3>3, <3>4 DEF HomeReceiveFill, FilledPhase, NoteError
  <2>2. CASE phase' = "ReceiveFillData"
    BY <1>0, <2>1, <2>2
  <2>3. CASE validLines' = Put(validLines, FALSE) /\ tags' = tags /\ completionError'
    <3>1. EntriesInv'
      <4> HIDE DEF EntriesInv, NoEntry, Selected
      <4> QED BY <1>0, <2>1, <2>3, DropEntry
    <3> HIDE DEF EntriesInv
    <3> QED BY <1>0, <2>1, <2>3, <3>1 DEF PhaseFits
  <2>4. CASE validLines' = Put(validLines, TRUE) /\ tags' = Put(tags, request.line)
    <3>1. \A s \in Sets, w \in Ways :
            /\ s = selectedSet /\ w = selectedWay =>
                 validLines'[s][w] /\ tags'[s][w] = request.line
            /\ s # selectedSet \/ w # selectedWay =>
                 (validLines'[s][w] <=> validLines[s][w]) /\ tags'[s][w] = tags[s][w]
      BY <1>0, <2>4 DEF Put
    <3>2. NoEntry(request.line) /\ selectedSet = SetOf[request.line]
      BY <2>1
    <3>3. EntriesInv'
      <4>1. \A s \in Sets, w \in Ways : validLines'[s][w] => SetOf[tags'[s][w]] = s
        BY <3>1, <3>2
      <4>2. ASSUME NEW s \in Sets, NEW v \in Ways, NEW w \in Ways,
                   validLines'[s][v], validLines'[s][w], tags'[s][v] = tags'[s][w]
            PROVE  v = w
        BY <3>1, <3>2, <4>2
      <4> QED BY <4>1, <4>2
    <3>4. SelectedInv'
      BY <1>0, <2>1, <3>1, <3>2
    <3> QED BY <3>3, <3>4
  <2> QED BY <2>1, <2>2, <2>3, <2>4
<1>12. CASE HomeSendCachedData
  <2>1. /\ UNCHANGED <<request, selectedSet, selectedWay, validLines, tags, completionError>>
        /\ phase = "SendCachedData" /\ phase' \in {"SendCachedData", "AwaitCompAck"}
        /\ phase' = "AwaitCompAck" /\ ~ completionError /\ request.op \in RefillOps =>
             residentLines' = Put(residentLines, Selected(residentLines) \cup {request.src})
    BY <1>12 DEF HomeSendCachedData
  <2>2. phase' = "AwaitCompAck" /\ ~ completionError /\ request.op \in RefillOps =>
          request.src \in Selected(residentLines)'
    <3>1. \A v : Put(residentLines, v)[selectedSet][selectedWay] = v
      BY <1>0 DEF Put
    <3> QED BY <1>0, <2>1, <3>1
  <2> QED BY <1>0, <2>1, <2>2
<1> QED BY <1>1, <1>2, <1>3, <1>4, <1>5, <1>6, <1>7, <1>8, <1>9, <1>10, <1>11, <1>12
        DEF HomeStep, HomeQuietStep, HomeOrdersWrite, HomeOrdersMaintenance

------------------------------------------------------------------------------
(* Holdings: what a cache has, or has been granted.                         *)

\* No cache holds a line, or owns one, that it did not hold or own before.
NoNewHolding ==
  \A k \in RNF, line \in Lines :
    /\ Holds(k, line)' => Holds(k, line)
    /\ HoldsUnique(k, line)' => HoldsUnique(k, line)

\* What is held depends on the arrays and the engines alone.
LEMMA SameHoldings ==
  ASSUME UNCHANGED <<l1, engine>>
  PROVE  \A k, line : /\ Holds(k, line)' <=> Holds(k, line)
                      /\ HoldsUnique(k, line)' <=> HoldsUnique(k, line)
BY DEF Holds, HoldsUnique, Granted

\* Only the last packet of a refill gives a cache a line it did not hold.
LEMMA FewerHoldings ==
  ASSUME TypeInv, RefillInv, L1Inv, NEW n \in RNF, CacheStep(n), ~ RefillData(n)
  PROVE  NoNewHolding
<1> DEFINE Others == \A k \in RNF \ {n} : l1'[k] = l1[k] /\ engine'[k] = engine[k]
           Mine == \A line \in Lines : /\ Holds(n, line)' => Holds(n, line)
                                       /\ HoldsUnique(n, line)' => HoldsUnique(n, line)
<1>1. NoLine \notin Lines /\ engine[n].way \in L1Ways /\ snoop[n].way \in L1Ways
  BY LinkAssumption, CacheTypes DEF EngineState, SnoopState
<1>2. SUFFICES Others /\ Mine
  BY DEF NoNewHolding, Holds, HoldsUnique, Granted
<1> USE <1>1 DEF OtherWays, OtherEngines, EngineGoes, Holds, HoldsUnique, Granted
<1>3. CASE StoreHit(n)
  <2>1. PICK w \in L1Ways : StoreEffect(n, w)
    BY <1>3, StoreHitEffect
  <2>2. UNCHANGED engine
    BY <1>3 DEF StoreHit
  <2> QED BY <2>1, <2>2 DEF StoreEffect
<1>4. CASE StartMiss(n)
  <2>1. PICK access \in Accesses \ {"maintenance"}, line \in Lines, w \in L1Ways,
             evict \in BOOLEAN : MissEffect(n, access, line, w, evict)
    BY <1>4, StartMissEffect
  <2>2. UNCHANGED l1
    BY <1>4 DEF StartMiss
  <2> QED BY <2>1, <2>2 DEF MissEffect
<1>5. CASE StartMaintenance(n)
  <2>1. PICK op \in MaintenanceOps, line \in Lines : MaintenanceEffect(n, op, line)
    BY <1>5, StartMaintenanceEffect
  <2>2. UNCHANGED l1
    BY <1>5 DEF StartMaintenance
  <2> QED BY <2>1, <2>2 DEF MaintenanceEffect
<1>6. CASE FinishMaintenance(n) \/ FinishWithoutInstall(n)
  <2>1. OtherEngines(n) /\ engine'[n].phase = "Idle"
    BY <1>6, IdleAgainEffect
  <2>2. UNCHANGED l1
    BY <1>6 DEF FinishMaintenance, FinishWithoutInstall
  <2> QED BY <2>1, <2>2
<1>7. CASE CopybackGrant(n)
  <2>1. EngineGoes(n, "CopybackData")
    BY <1>7, CopybackGrantEffect
  <2>2. UNCHANGED l1
    BY <1>7 DEF CopybackGrant
  <2> QED BY <2>1, <2>2
<1>8. CASE CopybackSend(n)
  <2>1. PICK p \in Packets : CopybackSendEffect(n, p)
    BY <1>8, CopybackSendEffects
  <2> QED BY <2>1 DEF CopybackSendEffect
<1>9. CASE RefillAcknowledge(n)
  <2>1. EngineGoes(n, "Complete") /\ engine'[n].state = engine[n].state
    BY <1>9, RefillAcknowledgeEffect
  <2>2. UNCHANGED l1 /\ engine[n].phase = "Acknowledge"
    BY <1>9 DEF RefillAcknowledge
  <2> QED BY <2>1, <2>2
<1>10. CASE InstallRefill(n)
  <2>1. InstallEffect(n)
    BY <1>10, InstallRefillEffect
  <2>2. engine[n].phase = "Complete" /\ ~ engine[n].err
    BY <1>10 DEF InstallRefill, RefillCanComplete, Installs
  <2>3. IsUnique(InstallState(engine[n])) => engine[n].state = "Unique"
    BY <2>2 DEF RefillInv, InstallState, IsUnique, NeedsUnique
  <2> QED BY <2>1, <2>2, <2>3 DEF InstallEffect
<1>11. CASE SnoopAccept(n)
  BY <1>11 DEF SnoopAccept
<1>12. ASSUME snoop[n].active, RetireEffect(n)
       PROVE  Others /\ Mine
  <2>1. engine[n].phase \notin {"Acknowledge", "Complete"}
    BY <1>12 DEF L1Inv, LookupFits
  <2>2. CASE Updates(snoop[n])
    BY <1>12, <2>1, <2>2 DEF RetireEffect, NewState, IsUnique
  <2>3. CASE ~ Updates(snoop[n])
    BY <1>12, <2>1, <2>3 DEF RetireEffect
  <2> QED BY <2>2, <2>3
<1>13. CASE SnoopRespond(n)
  <2>1. PICK a : RespondEffect(n, a)
    BY <1>13, SnoopRespondEffect
  <2> QED BY <1>12, <1>13, <2>1 DEF RespondEffect, SnoopRespond
<1>14. CASE SnoopSendData(n)
  <2>1. PICK d : SnoopDataEffect(n, d)
    BY <1>14, SnoopSendDataEffect
  <2>2. RetireEffect(n) \/ UNCHANGED <<l1, engine>>
    BY <2>1 DEF SnoopDataEffect
  <2> QED BY <1>12, <1>14, <2>2 DEF SnoopSendData
<1> QED BY <1>3, <1>4, <1>5, <1>6, <1>7, <1>8, <1>9, <1>10, <1>11, <1>13, <1>14
        DEF CacheStep, CoreStep, EngineDuty, SnoopDuty

\* With fewer holdings and the Home at rest, what the directory and the probes
\* say stays true.
LEMMA FewerStayCoherent ==
  ASSUME TypeInv, DirectoryInv, NoNewHolding, UNCHANGED homeVars,
         HoldersAreTracked, OwnersAreAlone, ProbedInv, SettledInv
  PROVE  HoldersAreTracked' /\ OwnersAreAlone' /\ ProbedInv' /\ SettledInv'
<1>1. /\ UNCHANGED <<phase, request, completionError, pendingSnoops, expectedSnoop, snoopVictim,
                     victimAddress, validLines, residentLines, tags>>
  BY DEF homeVars, requesterRegs, lookupRegs, snoopTargets, directory, storage
<1>2. /\ Snooping => SnoopAddress \in Lines
      /\ VictimWrite /\ snoopVictim => victimAddress \in Lines
      /\ request.line \in Lines
  BY DEF TypeInv, TypeOK, HomeTypeOK, Request, VictimIsKnown, SnoopAddress, Snooping,
         DirectoryInv, SelectedInv, IsEntry, Selected, ValidWaysHaveTags
<1>3. \A snp, n \in RNF, line \in Lines : Cleared(snp, n, line) => Cleared(snp, n, line)'
  BY DEF NoNewHolding, Cleared
<1>4. HoldersAreTracked'
  BY <1>1 DEF HoldersAreTracked, NoNewHolding, Tracked, Valid
<1>5. OwnersAreAlone'
  BY DEF OwnersAreAlone, NoNewHolding
<1>6. ProbedInv'
  <2>1. Snooping => \A n \in RNF :
          Cleared(SnoopOp, n, SnoopAddress) => Cleared(SnoopOp, n, SnoopAddress)'
    BY <1>1, <1>2 DEF NoNewHolding, Cleared, Holds, HoldsUnique, Granted, SnoopOp, SnoopAddress
  <2> QED BY <1>1, <2>1 DEF ProbedInv, Snooping, Spared
<1>7. SettledInv'
  <2>1. \A n \in RNF : Cleared(HomeSnoopOp(request.op), n, request.line)
                         => Cleared(HomeSnoopOp(request.op), n, request.line)'
    BY <1>1, <1>2 DEF NoNewHolding, Cleared, Holds, HoldsUnique, Granted, HomeSnoopOp
  <2>2. VictimWrite /\ snoopVictim =>
          \A n \in RNF : Holds(n, victimAddress)' => Holds(n, victimAddress)
    BY <1>1, <1>2 DEF NoNewHolding, Holds, HoldsUnique, Granted
  <2> QED BY <1>1, <2>1, <2>2 DEF SettledInv, Settled, VictimWrite, WritingVictim, Maintenance,
  Spared
<1> QED BY <1>4, <1>5, <1>6, <1>7

\* What a probe that has been answered leaves at its cache.
LEMMA RetiredIsCleared ==
  ASSUME TypeInv, L1Inv, NEW n \in RNF, snoop[n].active, RetireEffect(n), ~ snoop[n].fault,
         NEW snp, NEW line, snoop[n].op = snp, snoop[n].line = line
  PROVE  /\ Cleared(snp, n, line)'
         /\ DirtyHit(snoop[n]) \/ CleanResponseState(snoop[n]) = "Invalid" => ~ Holds(n, line)'
<1> DEFINE s == snoop[n]
<1>1. /\ NoLine \notin Lines /\ line \in Lines /\ s.way \in L1Ways
      /\ s.hit => l1[n][s.way].line = line
      /\ engine'[n].phase \notin {"Acknowledge", "Complete"}
      /\ ~ s.hit => \A w \in L1Ways : l1[n][w].line # line
      /\ \A v, w \in L1Ways : l1[n][v].line = l1[n][w].line /\ l1[n][v].line # NoLine => v = w
  BY LinkAssumption, CacheTypes
     DEF TypeInv, CachesHaveLines, NodeInv, ProbeHasLine, SnoopState, L1Inv, LookupFits,
        WaysFit,
         RetireEffect, EngineGoes
<1>2. CASE ~ s.hit
  <2>1. l1' = l1
    BY <1>2 DEF RetireEffect, Updates
  <2>2. \A w \in L1Ways : l1'[n][w].line # line
    BY <1>1, <1>2, <2>1
  <2> QED BY <1>1, <2>2 DEF Cleared, Holds, HoldsUnique, Granted
<1>3. CASE s.hit /\ Invalidates(s)
  <2>1. l1'[n][s.way].line = NoLine /\ OtherWays(n, s.way)
    BY <1>3 DEF RetireEffect, Updates
  <2>2. \A w \in L1Ways : l1'[n][w].line # line
    BY <1>1, <1>3, <2>1 DEF OtherWays
  <2> QED BY <1>1, <2>2 DEF Cleared, Holds, HoldsUnique, Granted
<1>4. CASE s.hit /\ ~ Invalidates(s)
  <2>1. ~ DirtyHit(s) /\ ~ InvalidatesState(s.op) /\ CleanResponseState(s) # "Invalid"
    BY <1>4 DEF Invalidates, CleanResponseState
  <2>2. CASE SharesState(s.op)
    <3>1. l1'[n][s.way].state = "SharedClean" /\ OtherWays(n, s.way)
      BY <1>4, <2>2 DEF RetireEffect, Updates, NewState
    <3>2. \A w \in L1Ways : l1'[n][w].line = line => l1'[n][w].state = "SharedClean"
      BY <1>1, <1>4, <3>1 DEF OtherWays
    <3> QED BY <1>1, <2>1, <3>2 DEF Cleared, HoldsUnique, Granted, IsUnique
  <2>3. CASE ~ SharesState(s.op)
    BY <2>1, <2>3 DEF Cleared
  <2> QED BY <2>1, <2>2, <2>3
<1> QED BY <1>2, <1>3, <1>4

\* Outside the probes a cache tells the Home nothing while it awaits a probe.
LEMMA QuietWhileProbed ==
  ASSUME RequesterSideInv, NEW n \in RNF, CoreStep(n) \/ EngineDuty(n), phase = "AwaitSnoop"
  PROVE  UNCHANGED <<acks, reqData, snps, snoop>>
BY DEF CoreStep, EngineDuty, StoreHit, StartMiss, StartMaintenance, FinishMaintenance,
       CopybackGrant, CopybackSend, RefillData, RefillAcknowledge, InstallRefill,
       FinishWithoutInstall, requesterLinks, RequesterSideInv, RefillInv, CopybackInv

\* What a cache answers is true of it.
LEMMA CacheAnswers ==
  ASSUME TypeInv, RequesterSideInv, ProbeInv, L1Inv, AnswerInv, NEW n \in RNF, CacheStep(n)
  PROVE  AnswerInv'
<1>1. PICK to \in RNF, snp \in {SnoopOp}, line \in {SnoopAddress} : to = expectedSnoop
  BY DEF TypeInv, TypeOK, HomeTypeOK
<1>2. /\ UNCHANGED <<phase, expectedSnoop, snoopRetains>>
      /\ expectedSnoop' = to /\ SnoopOp' = snp /\ SnoopAddress' = line
  BY <1>1 DEF CacheStep, homeVars, snoopTargets, snoopRegs, requesterRegs, lookupRegs, SnoopOp,
              SnoopAddress
<1>3. SUFFICES ASSUME phase = "AwaitSnoop", snps' = {}, ~ snoop'[to].active
               PROVE  /\ \A m \in acks' : ~ m.err =>
                           /\ Cleared(snp, to, line)'
                           /\ m.state = "Invalid" => ~ Holds(to, line)'
                      /\ acks' = {} /\ ~ AnswerFailed' => ~ Holds(to, line)'
  BY <1>1, <1>2 DEF AnswerInv, Cleared, Holds, HoldsUnique, Granted
<1>4. CASE CoreStep(n) \/ EngineDuty(n)
  <2>1. UNCHANGED <<acks, reqData, snps, snoop>>
    BY <1>3, <1>4, QuietWhileProbed
  <2>2. ~ RefillData(n)
    BY <1>3 DEF RefillData, RequesterSideInv, ReadDataInv, Answering
  <2>3. NoNewHolding
    BY <2>2, FewerHoldings DEF RequesterSideInv
  <2>4. line \in Lines
    BY <1>1, <1>3 DEF TypeInv, TypeOK, HomeTypeOK, Request, VictimIsKnown, SnoopAddress
  <2>5. /\ Cleared(snp, to, line) => Cleared(snp, to, line)'
        /\ Holds(to, line)' => Holds(to, line)
    BY <2>3, <2>4 DEF NoNewHolding, Cleared
  <2> QED BY <1>1, <1>2, <1>3, <2>1, <2>5 DEF AnswerInv, AnswerFailed
<1>5. CASE SnoopAccept(n)
  <2>1. PICK m \in snps : AcceptEffect(n, m)
    BY <1>5, SnoopAcceptEffect
  <2> QED BY <1>1, <1>3, <2>1 DEF AcceptEffect, ProbeInv, ProbeInFlightInv
<1>6. CASE SnoopRespond(n) \/ SnoopSendData(n)
  <2>1. n = to /\ snoop[n].active /\ snoop[n].op = snp /\ snoop[n].line = line
    BY <1>1, <1>6 DEF SnoopRespond, SnoopSendData, ProbeInv, ProbeInFlightInv
  <2>2. acks = {}
    BY <1>1, <1>3, <2>1 DEF ProbeInv, ProbeAnswerInv
  <2>3. RetireEffect(n) /\ ~ snoop[n].fault =>
          /\ Cleared(snp, n, line)'
          /\ DirtyHit(snoop[n]) \/ CleanResponseState(snoop[n]) = "Invalid" => ~ Holds(n, line)'
    BY <2>1, RetiredIsCleared
  <2>4. CASE SnoopRespond(n)
    <3>1. PICK a : RespondEffect(n, a)
      BY <2>4, SnoopRespondEffect
    <3>2. acks' = {a}
      BY <2>2, <3>1 DEF RespondEffect
    <3> QED BY <2>1, <2>3, <3>1, <3>2 DEF RespondEffect
  <2>5. CASE SnoopSendData(n)
    <3>1. PICK d : SnoopDataEffect(n, d)
      BY <2>5, SnoopSendDataEffect
    <3>2. RetireEffect(n)
      <4>1. SUFFICES ASSUME ~ RetireEffect(n) PROVE FALSE
        OBVIOUS
      <4>2. snoop'[n] = [snoop[n] EXCEPT !.packets = @ \cup {d.packet}]
        BY <3>1, <4>1 DEF SnoopDataEffect
      <4>3. snoop'[n].active
        BY <2>1, <4>2, CacheTypes DEF SnoopState
      <4> QED BY <1>3, <2>1, <4>3
    <3>3. snoop[n].fault => AnswerFailed'
      BY <1>2, <2>1, <3>1 DEF SnoopDataEffect, ProbeInv, ProbeProgressInv, AnswerFailed
    <3>4. acks' = {}
      BY <2>2, <2>5 DEF SnoopSendData
    <3> QED BY <2>1, <2>3, <2>5, <3>2, <3>3, <3>4 DEF SnoopSendData
  <2> QED BY <1>6, <2>4, <2>5
<1> QED BY <1>4, <1>5, <1>6 DEF CacheStep, SnoopDuty

\* A step of one cache leaves the engines of the others alone.
LEMMA OnlyItsEngine ==
  ASSUME TypeInv, NEW n \in RNF, CacheStep(n)
  PROVE  OtherEngines(n)
<1>1. CASE CoreStep(n)
  BY ZenonT(60), <1>1, CacheTypes DEF CoreStep, StoreHit, StartMiss, StartMaintenance, OtherEngines
<1>2. CASE EngineDuty(n)
  BY <1>2, CacheTypes DEF EngineDuty, FinishMaintenance, CopybackGrant, CopybackSend,
     RefillData,
     RefillAcknowledge, InstallRefill, FinishWithoutInstall, OtherEngines
<1>3. CASE SnoopDuty(n)
  BY <1>3, AnswerEffect DEF SnoopDuty, SnoopAccept, EngineGoes, OtherEngines
<1> QED BY <1>1, <1>2, <1>3 DEF CacheStep

\* A copyback that has sent its last packet has left nothing behind, and dirty
\* data comes from a line the directory knows.
LEMMA CacheReturns ==
  ASSUME TypeInv, RequesterSideInv, ProbeInv, L1Inv, HoldersAreTracked, ReturnedInv,
         NEW n \in RNF, CacheStep(n)
  PROVE  ReturnedInv'
<1>1. UNCHANGED <<phase, request, receivedData, copybackDirty, validLines, tags>>
  BY DEF CacheStep, homeVars, requesterRegs, directory, storage
<1>2. PICK line \in Lines, back \in {request.src} : line = request.line
  BY DEF TypeInv, TypeOK, HomeTypeOK, Request
<1>3. SUFFICES ASSUME Copyback, phase \in {"ReceiveRequesterData", "Lookup", "FinishCopyBack"}
               PROVE  /\ engine'[back].phase = "Refill" => ~ Holds(back, line)'
                      /\ phase # "FinishCopyBack" /\ (\E m \in reqData' : m.passDirty) =>
                           ~ NoEntry(line)
  BY <1>1, <1>2 DEF ReturnedInv, Copyback, Holds, Granted, NoEntry, Valid
<1>4. back \in RNF /\ ~ RefillData(n)
  BY <1>2, <1>3
     DEF RequesterSideInv, PhaseFits, Busy, Proper, Copyback, RefillData, ReadDataInv, Answering
<1>5. /\ engine[back].phase \in {"Copyback", "CopybackData", "Refill"}
      /\ engine[back].phase = "Refill" => ~ Holds(back, line)
      /\ phase # "FinishCopyBack" /\ (\E m \in reqData : m.passDirty) => ~ NoEntry(line)
  BY <1>2, <1>3 DEF RequesterSideInv, CopybackInv, Busy, ReturnedInv
<1>6. NoNewHolding
  BY <1>4, FewerHoldings DEF RequesterSideInv
<1>7. CASE CopybackSend(n)
  <2>1. PICK p \in Packets : CopybackSendEffect(n, p)
    BY <1>7, CopybackSendEffects
  <2>2. n = back /\ engine[n].phase = "CopybackData" /\ engine[n].victim = line
    BY <1>2, <1>3, <1>7 DEF CopybackSend, RequesterSideInv, CopybackInv, Busy
  <2>3. engine[n].way \in L1Ways /\ NoLine \notin Lines
    BY LinkAssumption, CacheTypes DEF EngineState
  <2>4. \A w \in L1Ways : l1[n][w].line = line => w = engine[n].way
    BY <2>2 DEF L1Inv, WaysFit
  <2>5. engine'[n].phase = "Refill" => ~ Holds(n, line)'
    BY <2>1, <2>2, <2>3, <2>4 DEF CopybackSendEffect, OtherWays, Holds, Granted
  <2>6. IsDirty(engine[n].state) => ~ NoEntry(line)
    <3>1. SUFFICES ASSUME IsDirty(engine[n].state) PROVE Holds(n, line)
      BY DEF HoldersAreTracked, Tracked, NoEntry
    <3>2. l1[n][engine[n].way].state = "UniqueDirty"
      BY <2>2, <3>1 DEF L1Inv, WaysFit, IsDirty
    <3>3. l1[n][engine[n].way].line = line
      BY <2>2, <2>3, <3>2
         DEF TypeInv, CachesHaveLines, NodeInv, WaysHaveLines, EngineHasLine
    <3> QED BY <2>3, <3>3 DEF Holds
  <2>7. (\E m \in reqData' : m.passDirty) =>
          (\E m \in reqData : m.passDirty) \/ IsDirty(engine[n].state)
    BY <2>1 DEF CopybackSendEffect, VictimPacket
  <2> QED BY <1>5, <2>2, <2>5, <2>6, <2>7
<1>8. CASE ~ CopybackSend(n)
  <2>1. UNCHANGED reqData
    BY <1>3, <1>8 DEF CacheStep, CoreStep, EngineDuty, SnoopDuty, StoreHit, StartMiss,
       StartMaintenance, FinishMaintenance, CopybackGrant, RefillData, RefillAcknowledge,
       InstallRefill, FinishWithoutInstall, SnoopAccept, SnoopRespond, SnoopSendData,
       requesterLinks, ProbeInv, ProbeInFlightInv
  <2>2. engine'[back].phase = "Refill" => engine[back].phase = "Refill"
    <3>1. SUFFICES ASSUME n = back, engine'[back].phase = "Refill",
                          engine[back].phase \in {"Copyback", "CopybackData"}
                   PROVE  FALSE
      <4>1. n # back => engine'[back] = engine[back]
        BY <1>4, OnlyItsEngine DEF OtherEngines
      <4> QED BY <1>5, <4>1
    <3>2. ~ CoreStep(n) /\ ~ RefillAcknowledge(n) /\ ~ InstallRefill(n)
            /\ ~ FinishMaintenance(n) /\ ~ FinishWithoutInstall(n)
      BY <3>1 DEF CoreStep, StoreHit, StartMiss, StartMaintenance, FinishMaintenance,
                  RefillAcknowledge, InstallRefill, FinishWithoutInstall, RefillCanComplete
    <3>3. CASE CopybackGrant(n)
      BY <3>1, <3>3, CopybackGrantEffect DEF EngineGoes
    <3>4. CASE SnoopDuty(n)
      BY <3>1, <3>4, AnswerEffect DEF SnoopDuty, SnoopAccept, EngineGoes
    <3> QED BY <1>4, <1>8, <3>2, <3>3, <3>4 DEF CacheStep, EngineDuty
  <2> QED BY <1>4, <1>5, <1>6, <2>1, <2>2 DEF NoNewHolding
<1> QED BY <1>7, <1>8

\* The last packet of a refill: the Home has recorded the requester, and its
\* probes have left no copy that the new one excludes.
LEMMA RefillCoherent ==
  ASSUME TypeInv, RequesterSideInv, RequesterSideInv', ProbeInv, DirectoryInv, CoherenceInv,
         NEW n \in RNF, CacheStep(n), RefillData(n)
  PROVE  CoherenceInv'
<1>1. PICK m \in compData : RefillDataEffect(n, m)
  BY RefillDataEffects
<1>2. /\ UNCHANGED l1 /\ engine[n].phase = "Refill"
      /\ UNCHANGED <<phase, request, completionError, pendingSnoops, expectedSnoop, snoopVictim,
                     victimAddress, validLines, residentLines, tags, selectedSet, selectedWay>>
  BY DEF RefillData, CacheStep, homeVars, requesterRegs, lookupRegs, snoopTargets, directory,
     storage
<1>3. /\ Answering /\ acks = {} /\ request.src = n /\ m.err = completionError
      /\ m.state = GrantedState
  BY <1>1 DEF RequesterSideInv, ReadDataInv, RefillDataEffect
<1>4. PICK line \in Lines : line = request.line
  BY DEF TypeInv, TypeOK, HomeTypeOK, Request
<1>5. request.op \in RefillOps /\ engine[n].line = line
  BY <1>3, <1>4, LinkAssumption
     DEF RequesterSideInv, PhaseFits, RefillInv, Answering, Busy, Proper, MovedOn
<1>6. \A k \in RNF \ {n} : \A l :
        /\ Holds(k, l)' <=> Holds(k, l)
        /\ HoldsUnique(k, l)' <=> HoldsUnique(k, l)
  BY <1>1, <1>2 DEF RefillDataEffect, OtherEngines, Holds, HoldsUnique, Granted
<1>7. ProbedInv' /\ AnswerInv' /\ ReturnedInv'
  BY <1>2, <1>3, <1>5 DEF Answering, ProbedInv, AnswerInv, ReturnedInv, Snooping, Copyback,
     RefillOps
<1>8. SettledInv'
  <2>1. \A k \in RNF : ~ Spared(k) => k # n
    BY <1>3, <1>5 DEF Spared, RequesterSideInv, PhaseFits, Busy, Answering, Proper,
       IsMaintenance,
       MaintenanceOps, RefillOps
  <2>2. \A k \in RNF \ {n} : Cleared(HomeSnoopOp(request.op), k, request.line)
                               => Cleared(HomeSnoopOp(request.op), k, request.line)'
    BY <1>1, <1>2 DEF Cleared, RefillDataEffect, OtherEngines, Holds, HoldsUnique, Granted
  <2> QED BY <1>2, <1>3, <2>1, <2>2
          DEF CoherenceInv, SettledInv, Settled, Answering, VictimWrite, WritingVictim, Spared,
             Maintenance
<1>9. CASE ~ Granted(n)'
  <2>1. NoNewHolding
    BY <1>2, <1>6, <1>9 DEF NoNewHolding, Holds, HoldsUnique
  <2> QED BY <1>2, <1>7, <1>8, <2>1 DEF CoherenceInv, HoldersAreTracked, OwnersAreAlone,
       NoNewHolding, Tracked, Valid
<1>10. CASE Granted(n)'
  <2>1. engine'[n].phase = "Acknowledge" /\ ~ engine'[n].err
    BY <1>1, <1>10 DEF RefillDataEffect, Granted
  <2>2. phase = "AwaitCompAck" /\ ~ completionError
    BY <1>1, <1>2, <1>3, <2>1 DEF RequesterSideInv, RefillInv, RefillDataEffect
  <2>3. Tracked(n, line)
    BY <1>3, <1>4, <1>5, <2>2
       DEF DirectoryInv, SelectedInv, IsEntry, Selected, Tracked, Valid, TypeInv, TypeOK,
          HomeTypeOK
  <2>4. \A k \in RNF \ {n} : Cleared(HomeSnoopOp(request.op), k, line)
    BY <1>3, <1>4, <2>2 DEF CoherenceInv, SettledInv, Settled, Spared
  <2>5. engine'[n].state = GrantedState
    BY <1>1, <1>2, <1>3 DEF RefillDataEffect, RequesterSideInv, RefillInv
  <2>10. GrantedState = "Unique" => request.op = "ReadUnique"
    BY <1>5, <2>2 DEF GrantedState, AllocatesCoherent, RefillOps
  <2>6. \A l \in Lines : /\ Holds(n, l)' => l = line \/ Holds(n, l)
                         /\ HoldsUnique(n, l)' =>
                              HoldsUnique(n, l) \/ (l = line /\ request.op = "ReadUnique")
    BY <1>1, <1>2, <1>5, <2>5, <2>10 DEF Holds, HoldsUnique, Granted, RefillDataEffect
  <2>7. \A k \in RNF \ {n} : /\ ~ HoldsUnique(k, line)
                             /\ request.op = "ReadUnique" => ~ Holds(k, line)
    BY <1>5, <2>4 DEF Cleared, HomeSnoopOp, SharesState, InvalidatesState, RefillOps, Holds,
                      HoldsUnique
  <2>8. HoldersAreTracked'
    BY <1>2, <1>6, <2>3, <2>6 DEF CoherenceInv, HoldersAreTracked, Tracked, Valid
  <2>9. OwnersAreAlone'
    BY <1>6, <2>6, <2>7 DEF CoherenceInv, OwnersAreAlone
  <2> QED BY <1>7, <1>8, <2>8, <2>9 DEF CoherenceInv
<1> QED BY <1>9, <1>10

\* No step of a cache disturbs coherence.
LEMMA CacheCoherence ==
  ASSUME TypeInv, RequesterSideInv, RequesterSideInv', ProbeInv, L1Inv, DirectoryInv,
         CoherenceInv, NEW n \in RNF, CacheStep(n)
  PROVE  CoherenceInv'
<1>1. CASE RefillData(n)
  BY <1>1, RefillCoherent
<1>2. CASE ~ RefillData(n)
  <2>1. NoNewHolding /\ UNCHANGED homeVars
    BY <1>2, FewerHoldings DEF RequesterSideInv, CacheStep
  <2>2. HoldersAreTracked' /\ OwnersAreAlone' /\ ProbedInv' /\ SettledInv'
    BY <2>1, FewerStayCoherent DEF CoherenceInv
  <2>3. AnswerInv' /\ ReturnedInv'
    BY CacheAnswers, CacheReturns DEF CoherenceInv
  <2> QED BY <2>2, <2>3 DEF CoherenceInv
<1> QED BY <1>1, <1>2

------------------------------------------------------------------------------
(* Coherence under the steps of the others.                                 *)

\* Neither an uncached requester nor the memory changes who holds a line.
LEMMA OthersCoherence ==
  ASSUME TypeInv, RequesterSideInv, ProbeInv, DirectoryInv, CoherenceInv,
         MemoryStep \/ (\E i \in IO : IOStep(i)) \/ UNCHANGED vars
  PROVE  CoherenceInv'
<1>1. UNCHANGED <<homeVars, cacheVars, snps>>
  BY DEF MemoryStep, IOStep, ReadMemory, AcceptWrite, WriteMemory, CompleteWrite, IOBegin,
     IODuty,
     ReadOnce, WriteUnique, ReadOnceData, ReadOnceAcknowledge, WriteUniqueData,
     WriteUniqueCompletion, requesterLinks, vars
<1>2. /\ phase = "AwaitSnoop" => UNCHANGED <<acks, reqData>>
      /\ \A m \in reqData' : m \in reqData \/ m.passDirty = FALSE
  <2>1. CASE MemoryStep \/ UNCHANGED vars
    BY <2>1 DEF MemoryStep, ReadMemory, AcceptWrite, WriteMemory, CompleteWrite, requesterLinks,
       vars
  <2>2. ASSUME NEW i \in IO, IOStep(i), ~ WriteUniqueData(i)
        PROVE  UNCHANGED reqData /\ (phase = "AwaitSnoop" => UNCHANGED acks)
    BY <2>2 DEF IOStep, IOBegin, IODuty, ReadOnce, WriteUnique, ReadOnceData,
       ReadOnceAcknowledge,
       WriteUniqueCompletion, RequesterSideInv, UncachedInv
  <2>3. ASSUME NEW i \in IO, WriteUniqueData(i)
        PROVE  /\ phase # "AwaitSnoop"
               /\ \A m \in reqData' : m \in reqData \/ m.passDirty = FALSE
    <3>1. PICK p : reqData' = reqData \cup
            {[op |-> "NonCopyBackWriteData", src |-> i, packet |-> p, version |-> io[i].data[p],
              state |-> "Invalid", passDirty |-> FALSE, err |-> FALSE]}
      BY <2>3 DEF WriteUniqueData
    <3>2. phase # "AwaitSnoop"
      BY <2>3 DEF WriteUniqueData, RequesterSideInv, ResponsesInv
    <3> QED BY <3>1, <3>2
  <2> QED BY <2>1, <2>2, <2>3
<1>3. /\ UNCHANGED <<l1, engine, snoop, phase, request, receivedData, copybackDirty, snoopVictim,
                     victimAddress, expectedSnoop, snoopRetains, validLines, tags>>
  BY <1>1 DEF homeVars, cacheVars, requesterRegs, lookupRegs, snoopTargets, snoopRegs,
     directory,
              storage
<1>4. HoldersAreTracked' /\ OwnersAreAlone' /\ ProbedInv' /\ SettledInv'
  <2>1. NoNewHolding
    BY <1>3, SameHoldings DEF NoNewHolding
  <2> QED BY <1>1, <2>1, FewerStayCoherent DEF CoherenceInv
<1>5. AnswerInv'
  BY <1>1, <1>2, <1>3
     DEF CoherenceInv, AnswerInv, AnswerFailed, Cleared, Holds, HoldsUnique, Granted, SnoopOp,
         SnoopAddress
<1>6. ReturnedInv'
  BY <1>2, <1>3 DEF CoherenceInv, ReturnedInv, Copyback, Holds, Granted, NoEntry, Valid
<1> QED BY <1>4, <1>5, <1>6 DEF CoherenceInv

------------------------------------------------------------------------------
\* The Home keeps its word: HoldersAreTracked.

\* The probe whose last packet arrives has failed nowhere: its cache has no copy.
LEMMA LastPacketAbsent ==
  ASSUME TypeInv, RequesterSideInv, ProbeInv, AnswerInv, phase = "AwaitSnoop", NEW m \in reqData,
         AllArrived(receivedSnoop, m.packet), ~ snoopRetains, ~ m.err
  PROVE  ~ Holds(expectedSnoop, SnoopAddress)
<1>1. snps = {} /\ acks = {} /\ expectedSnoop \in RNF
  BY DEF ProbeInv, ProbeInFlightInv, ProbeAnswerInv, TypeInv, TypeOK, HomeTypeOK
<1>2. ~ snoop[expectedSnoop].active
  <2>1. SUFFICES ASSUME snoop[expectedSnoop].active
                 PROVE  Packets \subseteq snoop[expectedSnoop].packets
    BY <1>1 DEF TypeInv, CachesHaveLines, NodeInv, ProbeHasLine, SnoopState
  <2> QED BY <1>1, <2>1 DEF ProbeInv, ProbeProgressInv, AllArrived
<1>3. \A k \in reqData : k = m
  BY <1>1 DEF AllArrived, ProbeInv, ProbeAnswerInv, RequesterSideInv, WriteDataInv, TypeInv,
     TypeOK,
     LinksTypeOK, RequesterData
<1>4. ~ AnswerFailed
  BY <1>3 DEF AnswerFailed
<1> QED BY <1>1, <1>2, <1>4 DEF AnswerInv

\* Everybody but r who had a line keeps it in the directory, whatever the line
\* of the selected entry loses with r.
LEMMA HomeTracking ==
  ASSUME TypeInv, RequesterSideInv, ProbeInv, DirectoryInv, CoherenceInv, HomeStep
  PROVE  HoldersAreTracked'
<1> DEFINE EntryKept ==
      \A s \in Sets, w \in Ways : s # selectedSet \/ w # selectedWay =>
        /\ validLines'[s][w] <=> validLines[s][w]
        /\ tags'[s][w] = tags[s][w] /\ residentLines'[s][w] = residentLines[s][w]
<1>1. /\ selectedSet \in Sets /\ selectedWay \in Ways
      /\ validLines \in [Sets -> [Ways -> BOOLEAN]]
      /\ tags \in [Sets -> [Ways -> Lines \cup {NoLine}]]
      /\ residentLines \in [Sets -> [Ways -> SUBSET RNF]]
      /\ HomeTypeOK
  BY DEF TypeInv, TypeOK, HomeTypeOK
<1>2. UNCHANGED <<l1, engine>>
  BY DEF HomeStep, cacheVars
\* If what the selected entry loses is not held, all holders stay tracked.
<1>3. ASSUME EntryKept,
             \A n \in RNF : Selected(validLines) /\ n \in Selected(residentLines)
                            /\ Holds(n, Selected(tags)) =>
               /\ validLines'[selectedSet][selectedWay]
               /\ tags'[selectedSet][selectedWay] = Selected(tags)
               /\ n \in residentLines'[selectedSet][selectedWay]
      PROVE  HoldersAreTracked'
  <2>1. SUFFICES ASSUME NEW n \in RNF, NEW line \in Lines, Holds(n, line) PROVE Tracked(n, line)'
    BY <1>2, SameHoldings DEF HoldersAreTracked
  <2>2. PICK s \in Sets, w \in Ways : Valid(s, w, line) /\ n \in residentLines[s][w]
    BY <2>1 DEF CoherenceInv, HoldersAreTracked, Tracked
  <2>3. validLines'[s][w] /\ tags'[s][w] = line /\ n \in residentLines'[s][w]
    <3>1. CASE s = selectedSet /\ w = selectedWay
      BY <1>3, <2>1, <2>2, <3>1 DEF Valid, Selected
    <3>2. CASE s # selectedSet \/ w # selectedWay
      BY <1>3, <2>2, <3>2 DEF Valid
    <3> QED BY <3>1, <3>2
  <2> QED BY <2>3 DEF Tracked, Valid
<1>4. ASSUME UNCHANGED <<validLines, tags, residentLines>>
      PROVE  HoldersAreTracked'
  BY <1>3, <1>4 DEF Selected
\* A cache is taken from the entry's residents.
<1>5. ASSUME NEW r, UNCHANGED <<validLines, tags>>,
             residentLines' = Put(residentLines, Selected(residentLines) \ {r}),
             r \in RNF /\ Selected(validLines) => ~ Holds(r, Selected(tags))
      PROVE  HoldersAreTracked'
  BY <1>1, <1>3, <1>5 DEF Put, Selected
\* An entry is dropped.
<1>6. ASSUME UNCHANGED tags, validLines' \in {validLines, Put(validLines, FALSE)},
             residentLines' \in {residentLines, Put(residentLines, {})},
             Selected(validLines) => \A n \in RNF : ~ Holds(n, Selected(tags))
      PROVE  HoldersAreTracked'
  BY <1>1, <1>3, <1>6 DEF Put, Selected
<1>7. CASE HomeAcceptRequest \/ HomeSendDBID \/ HomeReceiveData \/ HomeLookup \/ HomeSendSnoop
             \/ HomeSnoopsDone \/ HomeSendMemRequest \/ HomeVictimDBID \/ HomeSendVictimData
             \/ HomeMergeRequesterData \/ HomeSendCompletion \/ HomeCompAck
  BY <1>4, <1>7 DEF HomeAcceptRequest, HomeSendDBID, HomeReceiveData, HomeLookup, HomeSendSnoop,
     HomeSnoopsDone, HomeSendMemRequest, HomeVictimDBID, HomeSendVictimData,
     HomeMergeRequesterData, HomeSendCompletion, HomeCompAck, directory, storage
<1>8. CASE HomeFinishCopyBack
  <2>1. UNCHANGED <<validLines, tags>>
    BY <1>8 DEF HomeFinishCopyBack
  <2>2. CASE maintenanceHit
    <3>1. residentLines' = Put(residentLines, Selected(residentLines) \ {request.src})
      BY <1>8, <2>2 DEF HomeFinishCopyBack
    <3>2. Selected(tags) = request.line
      BY <1>8, <2>2 DEF HomeFinishCopyBack, DirectoryInv, SelectedInv, IsEntry
    <3>3. ~ Holds(request.src, request.line)
      BY <1>8 DEF HomeFinishCopyBack, RequesterSideInv, PhaseFits, CopybackInv, Busy,
         CoherenceInv,
                  ReturnedInv
    <3> QED BY <1>5, <2>1, <3>1, <3>2, <3>3
  <2>3. CASE ~ maintenanceHit
    BY <1>4, <1>8, <2>1, <2>3 DEF HomeFinishCopyBack
  <2> QED BY <2>2, <2>3
\* The entry a probe may take its cache from is the one of the probed line.
<1>9. Snooping /\ DirectoryLineValid => Selected(tags) = SnoopAddress
  BY DEF DirectoryInv, SelectedInv, IsEntry, NoEntry, DirectoryLineValid, SnoopAddress,
     Selected,
         Valid, TypeInv, TypeOK, HomeTypeOK
<1>10. CASE HomeSnoopResponse
  <2>1. PICK m \in acks :
          residentLines' = IF DirectoryLineValid /\ ProvesAbsent(m)
                           THEN Put(residentLines, Selected(residentLines) \ {expectedSnoop})
                           ELSE residentLines
    BY <1>10 DEF HomeSnoopResponse
  <2>2. UNCHANGED <<validLines, tags>> /\ phase = "AwaitSnoop"
    BY <1>10 DEF HomeSnoopResponse, storage
  <2>3. ProvesAbsent(m) => ~ Holds(expectedSnoop, SnoopAddress)
    BY <2>1, <2>2 DEF ProvesAbsent, CoherenceInv, AnswerInv, ProbeInv, ProbeInFlightInv,
       ProbeAnswerInv
  <2>4. CASE DirectoryLineValid /\ ProvesAbsent(m)
    BY <1>5, <1>9, <2>1, <2>2, <2>3, <2>4 DEF Snooping
  <2>5. CASE ~ (DirectoryLineValid /\ ProvesAbsent(m))
    BY <1>4, <2>1, <2>2, <2>5
  <2> QED BY <2>4, <2>5
<1>11. CASE HomeSnoopData
  <2>1. PICK m \in reqData :
          residentLines' = IF DirectoryLineValid /\ AllArrived(receivedSnoop, m.packet)
                                /\ ~ snoopRetains /\ ProvesAbsent(m)
                           THEN Put(residentLines, Selected(residentLines) \ {expectedSnoop})
                           ELSE residentLines
    BY <1>11 DEF HomeSnoopData
  <2>2. UNCHANGED <<validLines, tags>> /\ phase = "AwaitSnoop"
    BY <1>11 DEF HomeSnoopData, storage
  <2>3. CASE /\ DirectoryLineValid /\ AllArrived(receivedSnoop, m.packet)
             /\ ~ snoopRetains /\ ProvesAbsent(m)
    <3>1. ~ Holds(expectedSnoop, SnoopAddress)
      BY <2>1, <2>2, <2>3, LastPacketAbsent DEF ProvesAbsent, CoherenceInv
    <3> QED BY <1>5, <1>9, <2>1, <2>2, <2>3, <3>1 DEF Snooping
  <2>4. CASE ~ (/\ DirectoryLineValid /\ AllArrived(receivedSnoop, m.packet)
                /\ ~ snoopRetains /\ ProvesAbsent(m))
    BY <1>4, <2>1, <2>2, <2>4
  <2> QED BY <2>3, <2>4
<1>12. CASE HomeAfterSnoops
  <2> DEFINE drop == snoopVictim /\ ~ Selected(dirtyLines) /\ ~ completionError
  <2>1. /\ UNCHANGED tags /\ phase = "AfterSnoops"
        /\ validLines' = IF drop THEN Put(validLines, FALSE) ELSE validLines
        /\ residentLines' = IF drop THEN Put(residentLines, {}) ELSE residentLines
    BY <1>12 DEF HomeAfterSnoops
  <2>2. drop => \A n \in RNF : ~ Holds(n, Selected(tags))
    BY <2>1 DEF DirectoryInv, SelectedInv, IsEntry, CoherenceInv, ProbedInv, Snooping, SnoopOp,
       SnoopAddress, Cleared, InvalidatesState
  <2>3. CASE drop
    BY <1>6, <2>1, <2>2, <2>3
  <2>4. CASE ~ drop
    BY <1>4, <2>1, <2>4
  <2> QED BY <2>3, <2>4
<1>13. CASE HomeVictimCompletion
  <2>1. /\ UNCHANGED tags /\ phase = "AwaitVictimCompletion"
        /\ \/ UNCHANGED <<validLines, residentLines>>
           \/ /\ ~ Maintenance
              /\ validLines' = Put(validLines, FALSE) /\ residentLines' = Put(residentLines, {})
    BY <1>13 DEF HomeVictimCompletion, storage
  <2>2. ~ Maintenance => \A n \in RNF : ~ Holds(n, Selected(tags))
    BY <2>1 DEF RequesterSideInv, PhaseFits, VictimWrite, WritingVictim, DirectoryInv,
       SelectedInv,
                IsEntry, CoherenceInv, SettledInv
  <2> QED BY <1>4, <1>6, <2>1, <2>2
<1>14. CASE HomeFinishMaintenance
  <2>1. /\ UNCHANGED tags /\ phase = "FinishMaintenance"
        /\ \/ UNCHANGED <<validLines, residentLines>>
           \/ /\ maintenanceHit /\ request.op # "CleanShared"
              /\ validLines' = Put(validLines, FALSE) /\ residentLines' = Put(residentLines, {})
    BY <1>14 DEF HomeFinishMaintenance, MaintenanceDone, storage
  <2>2. maintenanceHit /\ request.op # "CleanShared" => \A n \in RNF : ~ Holds(n, Selected(tags))
    BY <2>1 DEF RequesterSideInv, PhaseFits, Busy, Proper, Maintenance, IsMaintenance,
       MaintenanceOps, DirectoryInv, SelectedInv, IsEntry, CoherenceInv, SettledInv, Settled,
       Spared, Cleared, HomeSnoopOp, InvalidatesState
  <2> QED BY <1>4, <1>6, <2>1, <2>2
<1>15. CASE HomeReceiveFill
  <2>1. phase = "ReceiveFillData" /\ ~ Selected(validLines)
    BY <1>15 DEF HomeReceiveFill, DirectoryInv, SelectedInv, Filling
  <2>2. EntryKept
    BY <1>1, <1>15 DEF HomeReceiveFill, Put
  <2> QED BY <1>3, <2>1, <2>2
<1>16. CASE HomeSendCachedData
  <2>1. /\ UNCHANGED <<validLines, tags>>
        /\ residentLines' \in {residentLines,
                               Put(residentLines, Selected(residentLines) \cup {request.src})}
    BY <1>16 DEF HomeSendCachedData, storage
  <2> QED BY <1>1, <1>3, <2>1 DEF Put, Selected
<1> QED BY <1>7, <1>8, <1>10, <1>11, <1>12, <1>13, <1>14, <1>15, <1>16
        DEF HomeStep, HomeQuietStep, HomeOrdersWrite, HomeOrdersMaintenance

\* A cache is recorded in the entry of every line it holds.
LEMMA HolderIsResident ==
  ASSUME HoldersAreTracked, EntriesInv, NEW s \in Sets, NEW w \in Ways, validLines[s][w],
         tags[s][w] \in Lines, NEW n \in RNF, Holds(n, tags[s][w])
  PROVE  n \in residentLines[s][w]
<1>1. PICK t \in Sets, v \in Ways : Valid(t, v, tags[s][w]) /\ n \in residentLines[t][v]
  BY DEF HoldersAreTracked, Tracked
<1>2. t = s /\ v = w
  BY <1>1 DEF Valid, EntriesInv
<1> QED BY <1>1, <1>2

\* Every cache the Home passes over, or has heard, is cleared.
LEMMA HomeProbes ==
  ASSUME TypeInv, RequesterSideInv, ProbeInv, DirectoryInv, CoherenceInv, HomeStep
  PROVE  ProbedInv'
<1>0. PICK snp \in {SnoopOp'}, line \in {SnoopAddress'} : TRUE
  OBVIOUS
<1>1. SUFFICES ASSUME Snooping', ~ completionError', NEW n \in RNF, n \notin pendingSnoops',
                      ~ (~ snoopVictim' /\ Spared(n)'),
                      ~ (phase' = "AwaitSnoop" /\ n = expectedSnoop')
               PROVE  Cleared(snp, n, line)
  BY <1>0 DEF ProbedInv, Cleared, Holds, HoldsUnique, Granted, HomeStep, cacheVars
<1>2. CASE HomeLookup
  <2>1. /\ UNCHANGED <<request, validLines, tags, residentLines>> /\ phase' = "SendSnoop"
        /\ (snoopVictim' <=> ~ LookupHit /\ ~ Maintenance) /\ pendingSnoops' = SnoopMask
        /\ ~ Copyback
        /\ victimAddress' = tags[RequestSet][AllocationWay]
        /\ LookupHit \/ Maintenance \/ validLines[RequestSet][AllocationWay]
    BY <1>1, <1>2 DEF HomeLookup, Snooping, requesterRegs, directory, storage
  <2>2. n \notin SnoopMask /\ ~ (~ snoopVictim' /\ Spared(n))
    BY <1>1, <2>1 DEF Spared
  <2>3. /\ RequestSet \in Sets /\ LookupWay \in Ways /\ request.line \in Lines
        /\ LookupHit \in BOOLEAN /\ Maintenance \in BOOLEAN
    BY LookupType DEF TypeInv, TypeOK, HomeTypeOK, Request, LookupHit, Maintenance,
       IsMaintenance
  <2>4. CASE LookupHit
    <3>1. validLines[RequestSet][LookupWay] /\ tags[RequestSet][LookupWay] = request.line
      BY <2>4, LookupChoice DEF DirectoryInv
    <3>2. line = request.line
      BY <1>0, <2>1, <2>3, <2>4 DEF SnoopAddress
    <3>8. Proper(request)
      BY <1>2 DEF HomeLookup, RequesterSideInv, PhaseFits, Busy
    <3>5. ~ Spared(n)
      BY <2>1, <2>2, <2>4
    <3>6. n # request.src \/ request.snoopMe
      BY <3>5 DEF Spared
    <3>7. Maintenance <=> request.snoopMe
      BY <3>8 DEF Proper, Maintenance
    <3>3. n \notin residentLines[RequestSet][LookupWay]
      BY <2>1, <2>2, <2>4, <3>1, <3>6, <3>7 DEF SnoopMask, SnoopsCaches, Copyback
    <3>4. ~ Holds(n, line)
      BY <2>3, <3>1, <3>2, <3>3, HolderIsResident DEF CoherenceInv, DirectoryInv
    <3> QED BY <3>4 DEF Cleared, Holds, HoldsUnique
  <2>5. CASE ~ LookupHit /\ Maintenance
    <3>1. line = request.line /\ NoEntry(request.line)
      BY <1>0, <2>1, <2>3, <2>5, LookupChoice DEF SnoopAddress, DirectoryInv
    <3>2. ~ Holds(n, line)
      BY <2>3, <3>1 DEF CoherenceInv, HoldersAreTracked, Tracked, NoEntry
    <3> QED BY <3>2 DEF Cleared, Holds, HoldsUnique
  <2>6. CASE ~ LookupHit /\ ~ Maintenance
    <3>1. LookupWay = AllocationWay /\ line = tags[RequestSet][LookupWay]
      BY <1>0, <2>1, <2>3, <2>6, LookupChoice DEF SnoopAddress, DirectoryInv
    <3>2. validLines[RequestSet][LookupWay] /\ tags[RequestSet][LookupWay] \in Lines
      BY <2>1, <2>3, <2>6, <3>1 DEF TypeInv, ValidWaysHaveTags
    <3>3. n \notin residentLines[RequestSet][LookupWay]
      BY <1>1, <2>2, <2>6, <3>2 DEF SnoopMask
    <3>4. ~ Holds(n, line)
      BY <2>3, <3>1, <3>2, <3>3, HolderIsResident DEF CoherenceInv, DirectoryInv
    <3> QED BY <3>4 DEF Cleared, Holds, HoldsUnique
  <2> QED BY <2>4, <2>5, <2>6
<1>3. CASE HomeSendSnoop \/ HomeSnoopsDone \/ HomeSnoopResponse \/ HomeSnoopData
  <2>1. UNCHANGED <<request, snoopVictim, victimAddress>> /\ Snooping
    BY <1>3 DEF HomeSendSnoop, HomeSnoopsDone, HomeSnoopResponse, HomeSnoopData, Snooping,
       requesterRegs, lookupRegs
  <2>7. snp = SnoopOp /\ line = SnoopAddress
    BY <1>0, <2>1 DEF SnoopOp, SnoopAddress
  <2>8. ~ completionError
    <3>1. CASE HomeSendSnoop \/ HomeSnoopsDone
      BY <1>1, <3>1 DEF HomeSendSnoop, HomeSnoopsDone
    <3>2. CASE HomeSnoopResponse
      <4>1. \E m \in acks : completionError' = NoteError(m.err)
        BY <3>2 DEF HomeSnoopResponse
      <4> QED BY <1>1, <4>1 DEF NoteError
    <3>3. CASE HomeSnoopData
      <4>1. \E m \in reqData : completionError' = NoteError(m.err)
        BY <3>3 DEF HomeSnoopData
      <4> QED BY <1>1, <4>1 DEF NoteError
    <3> QED BY <1>3, <3>1, <3>2, <3>3
  <2>9. ~ (~ snoopVictim /\ Spared(n))
    BY <1>1, <2>1 DEF Spared
  <2>2. ~ completionError /\ ~ (~ snoopVictim /\ Spared(n))
    BY <2>8, <2>9
  <2>3. n \in pendingSnoops \/ (phase = "AwaitSnoop" /\ n = expectedSnoop) \/ Cleared(snp, n, line)
    BY <2>1, <2>2, <2>7 DEF CoherenceInv, ProbedInv
  <2>4. CASE HomeSendSnoop \/ HomeSnoopsDone
    BY <1>1, <2>3, <2>4 DEF HomeSendSnoop, HomeSnoopsDone, snoopTargets
  <2>5. CASE HomeSnoopResponse
    <3>1. PICK m \in acks : completionError' = NoteError(m.err)
      BY <2>5 DEF HomeSnoopResponse
    <3>2. Cleared(SnoopOp, expectedSnoop, SnoopAddress)
      BY <1>1, <2>5, <3>1 DEF HomeSnoopResponse, NoteError, CoherenceInv, AnswerInv, ProbeInv,
         ProbeInFlightInv, ProbeAnswerInv
    <3> QED BY <1>1, <2>3, <2>5, <2>7, <3>2 DEF HomeSnoopResponse, snoopTargets
  <2>6. CASE HomeSnoopData
    <3>1. PICK m \in reqData :
            /\ completionError' = NoteError(m.err)
            /\ phase' = IF AllArrived(receivedSnoop, m.packet) THEN "SendSnoop" ELSE "AwaitSnoop"
      BY <2>6 DEF HomeSnoopData
    <3>2. UNCHANGED snoopTargets /\ phase = "AwaitSnoop"
      BY <2>6 DEF HomeSnoopData
    <3>3. AllArrived(receivedSnoop, m.packet) => ~ Holds(expectedSnoop, SnoopAddress)
      <4>1. ~ snoopRetains /\ ~ m.err
        BY <1>1, <3>1, <3>2 DEF NoteError, ProbeInv, ProbeAnswerInv
      <4> QED BY <3>2, <4>1, LastPacketAbsent DEF CoherenceInv
    <3> QED BY <1>1, <2>3, <2>7, <3>1, <3>2, <3>3
            DEF snoopTargets, Cleared, Holds, HoldsUnique
  <2> QED BY <1>3, <2>4, <2>5, <2>6
<1>4. CASE ~ (HomeLookup \/ HomeSendSnoop \/ HomeSnoopsDone \/ HomeSnoopResponse \/ HomeSnoopData)
  BY <1>1, <1>4 DEF HomeStep, HomeQuietStep, HomeOrdersWrite, HomeOrdersMaintenance, Snooping,
     HomeAcceptRequest, HomeSendDBID, HomeReceiveData, HomeFinishCopyBack, HomeAfterSnoops,
     HomeSendMemRequest, HomeVictimDBID, HomeSendVictimData, HomeVictimCompletion,
     HomeReceiveFill, HomeMergeRequesterData, HomeFinishMaintenance, HomeSendCompletion,
     HomeSendCachedData, HomeCompAck, AnswerPhase, FilledPhase
<1> QED BY <1>2, <1>3, <1>4

\* What the probes cleared stays clear while the Home works on the strength of it.
LEMMA HomeSettles ==
  ASSUME TypeInv, RequesterSideInv, DirectoryInv, CoherenceInv, HomeStep
  PROVE  SettledInv'
<1>0. PICK snp \in {HomeSnoopOp(request'.op)}, line \in {request'.line},
           old \in {victimAddress'} : TRUE
  OBVIOUS
<1>1. SUFFICES ASSUME NEW n \in RNF
               PROVE  /\ VictimWrite' /\ snoopVictim' => ~ Holds(n, old)
                      /\ Settled' /\ ~ Spared(n)' => Cleared(snp, n, line)
  BY <1>0 DEF SettledInv, Cleared, Holds, HoldsUnique, Granted, HomeStep, cacheVars, HomeSnoopOp
<1> USE DEF VictimWrite, WritingVictim, Settled, Maintenance, Spared
\* While the request and the victim stay, it is enough that the phase was as good.
<1>2. ASSUME UNCHANGED <<request, snoopVictim, victimAddress>>,
             VictimWrite' => VictimWrite, Settled' => Settled
      PROVE  /\ VictimWrite' /\ snoopVictim' => ~ Holds(n, old)
             /\ Settled' /\ ~ Spared(n)' => Cleared(snp, n, line)
  BY <1>0, <1>2 DEF CoherenceInv, SettledInv
<1>3. CASE HomeAfterSnoops
  <2>1. /\ UNCHANGED <<request, snoopVictim, victimAddress, completionError>>
        /\ phase = "AfterSnoops" /\ pendingSnoops = {}
        /\ VictimWrite' \/ Settled' => ~ completionError
        /\ Settled' => ~ snoopVictim
    BY <1>3 DEF HomeAfterSnoops, AnswerPhase, FilledPhase, requesterRegs, lookupRegs,
       DirectoryInv,
                SelectedInv, RequesterSideInv, PhaseFits, Snooping
  <2>2. ~ completionError => \/ ~ snoopVictim /\ Spared(n)
                             \/ Cleared(SnoopOp, n, SnoopAddress)
    BY <2>1 DEF CoherenceInv, ProbedInv, Snooping
  <2>3. snoopVictim /\ ~ completionError => ~ Holds(n, victimAddress)
    BY <2>2 DEF SnoopOp, SnoopAddress, Cleared, InvalidatesState
  <2> QED BY <1>0, <2>1, <2>2, <2>3 DEF SnoopOp, SnoopAddress
<1>4. CASE HomeReceiveFill
  <2>1. /\ phase = "ReceiveFillData" /\ UNCHANGED request /\ NoEntry(request.line)
        /\ phase' \in {"ReceiveFillData", "SendCachedData", "MergeRequesterData"}
    BY <1>4 DEF HomeReceiveFill, FilledPhase, requesterRegs, DirectoryInv, SelectedInv, Filling
  <2>2. ~ Holds(n, request.line)
    BY <2>1 DEF CoherenceInv, HoldersAreTracked, Tracked, NoEntry, TypeInv, TypeOK, HomeTypeOK,
       Request
  <2> QED BY <1>0, <2>1, <2>2 DEF Cleared, Holds, HoldsUnique
<1>5. CASE HomeSendMemRequest \/ HomeVictimDBID \/ HomeSendVictimData \/ HomeSendCachedData
  BY <1>2, <1>5 DEF HomeSendMemRequest, HomeVictimDBID, HomeSendVictimData, HomeSendCachedData,
     requesterRegs, lookupRegs
<1>7. CASE HomeVictimCompletion
  <2>1. /\ UNCHANGED <<request, snoopVictim, victimAddress>> /\ phase = "AwaitVictimCompletion"
        /\ phase' \in {"FinishMaintenance", "SendFillRequest", AnswerPhase}
        /\ phase' = "FinishMaintenance" <=> Maintenance
    BY <1>7 DEF HomeVictimCompletion, AnswerPhase, requesterRegs, lookupRegs
  <2>2. PICK m \in memRsps : /\ completionError' = NoteError(m.err)
                             /\ phase' = AnswerPhase /\ ~ Maintenance => completionError \/ m.err
    BY <1>7 DEF HomeVictimCompletion, AnswerPhase
  <2>3. phase' = "SendCachedData" => completionError'
    BY <2>1, <2>2 DEF NoteError, AnswerPhase
  <2> QED BY <1>2, <2>1, <2>3 DEF AnswerPhase
<1>6. CASE HomeAcceptRequest \/ HomeSendDBID \/ HomeReceiveData \/ HomeLookup \/ HomeFinishCopyBack
             \/ HomeSendSnoop \/ HomeSnoopsDone \/ HomeSnoopResponse \/ HomeSnoopData
             \/ HomeMergeRequesterData \/ HomeFinishMaintenance \/ HomeSendCompletion \/ HomeCompAck
  BY <1>6 DEF HomeAcceptRequest, HomeSendDBID, HomeReceiveData, HomeLookup, HomeFinishCopyBack,
     HomeSendSnoop, HomeSnoopsDone, HomeSnoopResponse, HomeSnoopData, HomeMergeRequesterData,
     HomeFinishMaintenance, HomeSendCompletion, HomeCompAck
<1> QED BY <1>3, <1>4, <1>5, <1>6, <1>7
        DEF HomeStep, HomeQuietStep, HomeOrdersWrite, HomeOrdersMaintenance

\* What is said of the answers on their way, and of a returned line, stays true.
LEMMA HomeListens ==
  ASSUME TypeInv, RequesterSideInv, ProbeInv, CoherenceInv, HomeStep
  PROVE  AnswerInv' /\ ReturnedInv'
<1>1. UNCHANGED <<l1, engine, snoop>>
  BY DEF HomeStep, cacheVars
<1>2. CASE HomeSendSnoop
  <2>1. snps' # {} /\ phase' = "AwaitSnoop"
    BY <1>2 DEF HomeSendSnoop
  <2> QED BY <2>1 DEF AnswerInv, ReturnedInv
<1>3. CASE HomeSnoopData
  <2>1. PICK m \in reqData :
          /\ reqData' = reqData \ {m} /\ snoopRetains' = (snoopRetains \/ ~ ProvesAbsent(m))
    BY <1>3 DEF HomeSnoopData
  <2>2. /\ UNCHANGED <<request, snoopVictim, victimAddress, expectedSnoop, acks, snps>>
        /\ phase = "AwaitSnoop" /\ phase' \in {"AwaitSnoop", "SendSnoop"}
    BY <1>3 DEF HomeSnoopData, requesterRegs, lookupRegs, snoopTargets
  <2>3. AnswerFailed => AnswerFailed'
    BY <2>1 DEF AnswerFailed, ProvesAbsent
  <2>4. acks = {}
    BY <2>1, <2>2 DEF ProbeInv, ProbeAnswerInv
  <2> QED BY <1>1, <2>2, <2>3, <2>4 DEF CoherenceInv, AnswerInv, ReturnedInv, Holds, Granted,
             SnoopAddress
<1>4. CASE HomeSendDBID
  <2>1. /\ UNCHANGED <<request, receivedData, reqData>>
        /\ phase = "SendRequesterDBID" /\ phase' = "ReceiveRequesterData"
    BY <1>4 DEF HomeSendDBID, requesterRegs
  <2>2. receivedData = {} /\ reqData = {}
    BY <2>1 DEF RequesterSideInv, WriteDataInv
  <2>3. Copyback => engine[request.src].phase = "Copyback"
    BY <2>1 DEF RequesterSideInv, CopybackInv, Busy
  <2> QED BY <1>1, <2>1, <2>2, <2>3 DEF AnswerInv, ReturnedInv, Copyback
<1>5. CASE HomeReceiveData
  <2>1. PICK m \in reqData : reqData' = reqData \ {m} /\ copybackDirty' = m.passDirty
    BY <1>5 DEF HomeReceiveData
  <2>2. /\ UNCHANGED <<request, validLines, tags>>
        /\ phase = "ReceiveRequesterData" /\ phase' \in {"ReceiveRequesterData", "Lookup"}
    BY <1>5 DEF HomeReceiveData, directory, storage
  <2> QED BY <1>1, <2>1, <2>2 DEF CoherenceInv, AnswerInv, ReturnedInv, Copyback, Holds,
  Granted,
             NoEntry, Valid
<1>6. CASE HomeLookup
  <2>1. /\ UNCHANGED <<request, reqData, receivedData, copybackDirty, validLines, tags>>
        /\ phase = "Lookup" /\ phase' # "AwaitSnoop"
    BY <1>6 DEF HomeLookup, requesterLinks, requesterRegs, directory, storage
  <2>2. Copyback => phase' = "FinishCopyBack"
    BY <1>6 DEF HomeLookup
  <2> QED BY <1>1, <2>1, <2>2 DEF CoherenceInv, AnswerInv, ReturnedInv, Copyback, Holds, Granted
<1>7. CASE HomeAcceptRequest
  <2>1. /\ phase' # "AwaitSnoop" /\ phase' \notin {"ReceiveRequesterData", "FinishCopyBack"}
        /\ Copyback' => phase' # "Lookup"
    BY <1>7 DEF HomeAcceptRequest, Copyback, IsWrite
  <2> QED BY <2>1 DEF AnswerInv, ReturnedInv
<1>8. CASE ~ (HomeSendSnoop \/ HomeSnoopData \/ HomeSendDBID \/ HomeReceiveData \/ HomeLookup
                \/ HomeAcceptRequest)
  <2>1. phase' \notin {"AwaitSnoop", "ReceiveRequesterData", "Lookup", "FinishCopyBack"}
    BY <1>8 DEF HomeStep, HomeQuietStep, HomeOrdersWrite, HomeOrdersMaintenance,
       HomeFinishCopyBack,
       HomeSnoopsDone, HomeSnoopResponse, HomeAfterSnoops, HomeSendMemRequest, HomeVictimDBID,
       HomeSendVictimData, HomeVictimCompletion, HomeReceiveFill, HomeMergeRequesterData,
       HomeFinishMaintenance, HomeSendCompletion, HomeSendCachedData, HomeCompAck, AnswerPhase,
       FilledPhase
  <2> QED BY <2>1 DEF AnswerInv, ReturnedInv
<1> QED BY <1>2, <1>3, <1>4, <1>5, <1>6, <1>7, <1>8

\* No step of the Home disturbs coherence.
LEMMA HomeCoherence ==
  ASSUME TypeInv, RequesterSideInv, ProbeInv, DirectoryInv, CoherenceInv, HomeStep
  PROVE  CoherenceInv'
<1>1. OwnersAreAlone'
  BY SameHoldings DEF CoherenceInv, OwnersAreAlone, HomeStep, cacheVars
<1> QED BY <1>1, HomeTracking, HomeProbes, HomeSettles, HomeListens DEF CoherenceInv

------------------------------------------------------------------------------
(* The invariant of the cluster.                                            *)

\* Nothing is in flight, nobody works, nothing is held.
LEMMA InitCluster == Init => ClusterInv
<1> SUFFICES ASSUME Init PROVE ClusterInv
  OBVIOUS
<1>1. /\ reqs = {} /\ snps = {} /\ rsps = {} /\ acks = {} /\ compData = {} /\ reqData = {}
      /\ memReqs = {} /\ memRsps = {} /\ fillData = {} /\ memData = {}
  BY DEF Init, LinksInit
<1>2. phase = "Idle" /\ ~ snoopVictim /\ receivedData = {} /\ victimBeat = 0
  BY DEF Init, HomeInit
<1>3. /\ \A s \in Sets, w \in Ways : ~ validLines[s][w]
  BY DEF Init, HomeInit
<1>4. /\ \A n \in RNF : engine[n].phase = "Idle" /\ ~ snoop[n].active
      /\ \A n \in RNF, w \in L1Ways : l1[n][w].line = NoLine
      /\ \A i \in IO : io[i].phase = "Idle"
  BY DEF Init, CacheInit, IOInit, IdleEngine, IdleSnoop, EmptyWay, IdleIO
<1>5. ~ memWrite.active
  BY DEF Init, MemoryInit, IdleWrite
<1>6. \A n \in RNF, line \in Lines : ~ Holds(n, line) /\ ~ HoldsUnique(n, line)
  BY <1>4, LinkAssumption DEF Holds, HoldsUnique, Granted
<1>7. MemorySideInv
  BY <1>1, <1>2, <1>5 DEF MemorySideInv, FillInv, VictimWriteInv, WritingVictim
<1>8. RequesterSideInv
  BY <1>1, <1>2, <1>4
     DEF RequesterSideInv, PhaseFits, RequestsInv, RefillInv, MaintenanceInv, CopybackInv,
         UncachedInv, ResponsesInv, WriteDataInv, ReadDataInv, Busy, Snooping, VictimWrite,
         WritingVictim, Filling, Answering, MovedOn, Granted
<1>9. ProbeInv
  BY <1>1, <1>2, <1>4 DEF ProbeInv, ProbeInFlightInv, ProbeAnswerInv, ProbeProgressInv
<1>10. L1Inv
  BY <1>4 DEF L1Inv, WaysFit, LookupFits
<1>11. DirectoryInv
  BY <1>2, <1>3 DEF DirectoryInv, EntriesInv, SelectedInv, Snooping, VictimWrite, WritingVictim,
     Filling
<1>12. CoherenceInv
  BY <1>1, <1>2, <1>6
     DEF CoherenceInv, HoldersAreTracked, OwnersAreAlone, ProbedInv, SettledInv, AnswerInv,
         ReturnedInv, Snooping, VictimWrite, WritingVictim, Settled
<1> QED BY <1>7, <1>8, <1>9, <1>10, <1>11, <1>12 DEF ClusterInv

\* Every step preserves the invariant: the Home's, a cache's, an uncached requester's,
\* the memory's, and stuttering.
LEMMA NextCluster == TypeInv /\ ClusterInv /\ [Next]_vars => ClusterInv'
<1> SUFFICES ASSUME TypeInv, ClusterInv, [Next]_vars PROVE ClusterInv'
  OBVIOUS
<1> USE DEF ClusterInv
<1>1. CASE HomeStep
  <2>1. UNCHANGED <<l1, engine, snoop>>
    BY <1>1 DEF HomeStep, cacheVars
  <2>2. L1Inv'
    BY <2>1 DEF L1Inv, WaysFit, LookupFits
  <2>3. DirectoryInv'
    BY <1>1, HomeDirectory DEF RequesterSideInv
  <2> QED BY <1>1, <2>2, <2>3, HomeMemorySide, HomeRequesterSide, HomeProbe, HomeCoherence
<1>2. ASSUME NEW n \in RNF, CacheStep(n) PROVE ClusterInv'
  <2>1. UNCHANGED <<subordinateLinks, homeVars, memoryVars>>
    BY <1>2 DEF CacheStep, CoreStep, EngineDuty, SnoopDuty, StoreHit, StartMiss,
       StartMaintenance, FinishMaintenance, CopybackGrant, CopybackSend, RefillData,
       RefillAcknowledge, InstallRefill, FinishWithoutInstall, SnoopAccept, SnoopRespond,
       SnoopSendData, RetireSnoop
  <2>2. RequesterSideInv'
    BY <1>2, CacheRequesterSide
  <2>3. MemorySideInv'
    BY <2>1, RequestersMemorySide
  <2> QED BY <1>2, <2>1, <2>2, <2>3, CacheProbe, CacheL1, DirectoryKept, CacheCoherence
<1>3. ASSUME NEW i \in IO, IOStep(i) PROVE ClusterInv'
  <2>1. UNCHANGED <<subordinateLinks, homeVars, cacheVars, memoryVars>>
    BY <1>3 DEF IOStep, IOBegin, IODuty, ReadOnce, WriteUnique, ReadOnceData,
       ReadOnceAcknowledge, WriteUniqueData, WriteUniqueCompletion
  <2>2. L1Inv'
    BY <2>1 DEF L1Inv, WaysFit, LookupFits, cacheVars
  <2> QED BY <1>3, <2>1, <2>2, RequestersMemorySide, UncachedRequesterSide, UncachedProbe,
             DirectoryKept, OthersCoherence
<1>4. CASE MemoryStep
  <2>1. UNCHANGED <<requesterLinks, homeVars, cacheVars, io>>
    BY <1>4 DEF MemoryStep, ReadMemory, AcceptWrite, WriteMemory, CompleteWrite
  <2>2. L1Inv'
    BY <2>1 DEF L1Inv, WaysFit, LookupFits, cacheVars
  <2> QED BY <1>4, <2>1, <2>2, MemoryMemorySide, MemoryRequesterSide, DirectoryKept,
             OthersCoherence
<1>5. CASE UNCHANGED vars
  <2> USE <1>5 DEF vars
  <2>1. MemorySideInv' /\ RequesterSideInv' /\ ProbeInv' /\ DirectoryInv'
    BY RequestersMemorySide, MemoryRequesterSide, DirectoryKept
  <2>2. L1Inv'
    BY DEF L1Inv, WaysFit, LookupFits, cacheVars
  <2>3. CoherenceInv'
    BY OthersCoherence
  <2> QED BY <2>1, <2>2, <2>3
<1> QED BY <1>1, <1>2, <1>3, <1>4, <1>5 DEF Next, Step

\* The types and the cluster invariant hold in every reachable state, for any number of
\* caches, uncached requesters, lines, sets and ways, whatever the order of messages.
THEOREM ClusterIsInvariant == Spec => [](TypeInv /\ ClusterInv)
<1>1. Init => TypeInv /\ ClusterInv
  BY InitType, InitCluster
<1>2. TypeInv /\ ClusterInv /\ [Next]_vars => TypeInv' /\ ClusterInv'
  BY NextType, NextCluster
<1> QED BY <1>1, <1>2, PTL DEF Spec

------------------------------------------------------------------------------
(* The safety properties it implies.                                        *)

\* The promise of the coherence protocol (home/inclusive.rhdl, cores/rv5stage/dcache):
\* a cache that may write a line is the only one with a copy.
THEOREM ClusterSingleWriter == Spec => []SingleWriter
<1>1. ClusterInv => SingleWriter
  <2> SUFFICES ASSUME ClusterInv, NEW line \in Lines,
                      NEW c \in Copies(line), NEW d \in Copies(line),
                      c # d, IsUnique(State(c))
               PROVE  FALSE
    BY DEF SingleWriter
  <2>1. /\ c \in RNF \X L1Ways /\ l1[c[1]][c[2]].line = line
        /\ d \in RNF \X L1Ways /\ l1[d[1]][d[2]].line = line
    BY DEF Copies
  <2>2. c[1] # d[1]
    <3>1. WaysFit(l1[c[1]], engine[c[1]])
      BY <2>1 DEF ClusterInv, L1Inv
    <3> QED BY <2>1, <3>1, LinkAssumption DEF WaysFit
  <2>3. HoldsUnique(c[1], line) /\ Holds(d[1], line)
    BY <2>1 DEF HoldsUnique, Holds, State
  <2> QED BY <2>1, <2>2, <2>3 DEF ClusterInv, CoherenceInv, OwnersAreAlone
<1> QED BY <1>1, ClusterIsInvariant, PTL

\* The inclusive directory never forgets a holder: every copy in an L1 is tracked by a
\* valid entry, so that a probe, an eviction or a maintenance operation reaches it.
THEOREM ClusterDirectoryCovers == Spec => []DirectoryCoversCopies
<1>1. ClusterInv => DirectoryCoversCopies
  <2> SUFFICES ASSUME ClusterInv, NEW line \in Lines, NEW n \in RNF, Holds(n, line)
               PROVE  \E e \in Entry(line) : Tracks(e, n)
    BY DEF DirectoryCoversCopies, Holds
  <2>1. PICK s \in Sets, w \in Ways : Valid(s, w, line) /\ n \in residentLines[s][w]
    BY DEF ClusterInv, CoherenceInv, HoldersAreTracked, Tracked
  <2>2. <<s, w>> \in Entry(line) /\ Tracks(<<s, w>>, n)
    BY <2>1 DEF Entry, Valid, Tracks
  <2> QED BY <2>2
<1> QED BY <1>1, ClusterIsInvariant, PTL

\* A line has at most one entry, and it is in the line's set.
LEMMA EntryIsUnique ==
  ASSUME TypeInv, EntriesInv, NEW line \in Lines
  PROVE  /\ Cardinality(MatchingWays(line)) <= 1
         /\ ~ NoEntry(line) => MatchingWays(line) # {}
         /\ IsEntry(line) => Entry(line) = {<<selectedSet, selectedWay>>}
<1>1. SetOf[line] \in Sets
  BY HomeAssumption
<1>2. Cardinality(MatchingWays(line)) <= 1
  <2>1. CASE MatchingWays(line) = {}
    BY <2>1, FS_EmptySet
  <2>2. ASSUME NEW w \in MatchingWays(line) PROVE Cardinality(MatchingWays(line)) <= 1
    <3>1. ASSUME NEW v \in MatchingWays(line) PROVE v = w
      BY <1>1, <2>2 DEF MatchingWays, EntriesInv
    <3>2. MatchingWays(line) = {w}
      BY <2>2, <3>1
    <3>3. Cardinality({w}) = 1
      BY FS_Singleton
    <3> QED BY <3>2, <3>3
  <2> QED BY <2>1, <2>2
<1>3. ~ NoEntry(line) => MatchingWays(line) # {}
  BY DEF NoEntry, Valid, MatchingWays, EntriesInv
<1>4. IsEntry(line) => Entry(line) = {<<selectedSet, selectedWay>>}
  <2> SUFFICES ASSUME IsEntry(line) PROVE Entry(line) = {<<selectedSet, selectedWay>>}
    OBVIOUS
  <2>1. selectedSet \in Sets /\ selectedWay \in Ways
    BY DEF TypeInv, TypeOK, HomeTypeOK
  <2>2. <<selectedSet, selectedWay>> \in Entry(line)
    BY <2>1 DEF Entry, IsEntry, Selected
  <2>3. ASSUME NEW e \in Entry(line) PROVE e = <<selectedSet, selectedWay>>
    <3>1. /\ e \in Sets \X Ways /\ validLines[e[1]][e[2]] /\ tags[e[1]][e[2]] = line
      BY DEF Entry
    <3>2. e[1] = selectedSet
      BY <2>1, <3>1 DEF EntriesInv, IsEntry, Selected
    <3>3. e[2] = selectedWay
      BY <2>1, <3>1, <3>2 DEF EntriesInv, IsEntry, Selected
    <3> QED BY <3>1, <3>2, <3>3
  <2> QED BY <2>2, <2>3
<1> QED BY <1>2, <1>3, <1>4

\* The assertions of the Home about its directory never fire: at most one matching way,
\* an entry for every dirty copyback, the answered line in the selected entry.
THEOREM ClusterDirectoryAssertions == Spec => []DirectoryAssertions
<1>1. TypeInv /\ ClusterInv => DirectoryAssertions
  <2> SUFFICES ASSUME TypeInv, ClusterInv PROVE DirectoryAssertions
    OBVIOUS
  <2> USE DEF ClusterInv, DirectoryInv
  <2>1. request.line \in Lines
    BY DEF TypeInv, TypeOK, HomeTypeOK, Request
  <2>2. ASSUME phase = "Lookup", Copyback, copybackDirty PROVE LookupHit
    <3>1. ~ NoEntry(request.line)
      BY <2>2 DEF RequesterSideInv, WriteDataInv, CoherenceInv, ReturnedInv
    <3> QED BY <2>1, <3>1, EntryIsUnique DEF LookupHit
  <2>3. ASSUME phase = "SendCachedData", ~ completionError
        PROVE  Entry(request.line) = {<<selectedSet, selectedWay>>}
    <3>1. IsEntry(request.line)
      BY <2>3 DEF SelectedInv
    <3> QED BY <2>1, <3>1, EntryIsUnique
  <2> QED BY <2>2, <2>3, EntryIsUnique DEF DirectoryAssertions
<1> QED BY <1>1, ClusterIsInvariant, PTL

\* The assertions of the Home about arriving flits never fire: every flit that arrives in
\* a phase is the answer that phase waits for, from whom it waits for, and not a duplicate.
THEOREM ClusterArrivalAssertions == Spec => []ArrivalAssertions
<1>1. ClusterInv => ArrivalAssertions
  <2> SUFFICES ASSUME ClusterInv PROVE ArrivalAssertions
    OBVIOUS
  <2> USE DEF ClusterInv
  <2>1. ASSUME phase = "ReceiveRequesterData", NEW m \in reqData
        PROVE  /\ m.op = (IF Copyback THEN "CopyBackWriteData" ELSE "NonCopyBackWriteData")
               /\ m.src = request.src
               /\ m.packet \in request.packets \ receivedData
               /\ Copyback /\ receivedData # {} =>
                    m.state = copybackState /\ m.passDirty = copybackDirty
    BY <2>1 DEF RequesterSideInv, WriteDataInv
  <2>2. ASSUME phase = "AwaitSnoop", NEW m \in reqData
        PROVE  /\ m.op = "SnpRespData" /\ m.src = expectedSnoop /\ m.passDirty
               /\ m.packet \notin receivedSnoop
               /\ SnoopStateValid(SnoopOp, m.state)
               /\ request.op # "MakeInvalid"
    <3>1. /\ m.op = "SnpRespData" /\ m.src = expectedSnoop /\ m.passDirty
          /\ m.state = "Invalid" /\ m.packet \notin receivedSnoop /\ SnoopOp # "SnpMakeInvalid"
      BY <2>2 DEF ProbeInv, ProbeAnswerInv
    <3>2. Maintenance => ~ snoopVictim
      BY <2>2 DEF RequesterSideInv, PhaseFits, Snooping
    <3>3. request.op # "MakeInvalid"
      BY <3>1, <3>2 DEF SnoopOp, HomeSnoopOp, Maintenance, IsMaintenance, MaintenanceOps
    <3> QED BY <3>1, <3>3 DEF SnoopStateValid
  <2>3. ASSUME phase = "AwaitSnoop", NEW m \in acks
        PROVE  m.op = "SnpResp" /\ m.src = expectedSnoop /\ SnoopStateValid(SnoopOp, m.state)
    BY <2>3 DEF ProbeInv, ProbeAnswerInv
  <2>4. ASSUME phase = "AwaitCompAck", NEW m \in acks
        PROVE  m.op = "CompAck" /\ m.src = request.src
    BY <2>4 DEF RequesterSideInv, ReadDataInv, MovedOn, CompAck
  <2>5. /\ phase = "ReceiveFillData" => \A m \in fillData : m.packet \notin receivedFill
        /\ phase = "AwaitVictimDBID" => \A m \in memRsps : m.op = "DBIDResp"
        /\ phase = "AwaitVictimCompletion" => \A m \in memRsps : m.op = "Comp"
    BY DEF MemorySideInv, FillInv, VictimWriteInv
  <2> QED BY <2>1, <2>2, <2>3, <2>4, <2>5 DEF ArrivalAssertions
<1> QED BY <1>1, ClusterIsInvariant, PTL

------------------------------------------------------------------------------
(* The cluster implements CoherentMemory.                                   *)

PermissionIn(ways, line) ==
  IF \E w \in L1Ways : ways[w].line = line /\ IsUnique(ways[w].state) THEN "Write"
  ELSE IF \E w \in L1Ways : ways[w].line = line THEN "Read" ELSE "None"

\* The permission the refinement maps a cache to, in both states of a step.
LEMMA PermissionFacts ==
  ASSUME NEW n \in RNF, NEW line
  PROVE  /\ PermissionOf(n, line) = PermissionIn(l1[n], line)
         /\ PermissionOf(n, line)' = PermissionIn(l1'[n], line)
<1> DEFINE statesIn(cache) ==
      {cache[c[1]][c[2]].state :
         c \in {d \in {c \in RNF \X L1Ways : cache[c[1]][c[2]].line = line} : d[1] = n}}
<1>1. ASSUME NEW cache, NEW s
      PROVE  s \in statesIn(cache) <=>
               \E w \in L1Ways : cache[n][w].line = line /\ cache[n][w].state = s
  <2>1. ASSUME NEW w \in L1Ways, cache[n][w].line = line, cache[n][w].state = s
        PROVE  s \in statesIn(cache)
    <3>1. <<n, w>> \in {d \in {c \in RNF \X L1Ways : cache[c[1]][c[2]].line = line} : d[1] = n}
      BY <2>1
    <3> QED BY <2>1, <3>1
  <2>2. ASSUME s \in statesIn(cache)
        PROVE  \E w \in L1Ways : cache[n][w].line = line /\ cache[n][w].state = s
    BY <2>2
  <2> QED BY <2>1, <2>2
<1> DEFINE states == {State(c) : c \in {d \in Copies(line) : d[1] = n}}
<1>2. states = statesIn(l1) /\ states' = statesIn(l1')
  BY DEF State, Copies
<1>3. /\ PermissionOf(n, line) = IF \E s \in states : IsUnique(s) THEN "Write"
                                 ELSE IF states = {} THEN "None" ELSE "Read"
      /\ PermissionOf(n, line)' = IF \E s \in states' : IsUnique(s) THEN "Write"
                                  ELSE IF states' = {} THEN "None" ELSE "Read"
  BY DEF PermissionOf
<1> HIDE DEF states, statesIn
<1>4. PermissionOf(n, line) = PermissionIn(l1[n], line)
  <2>1. \A s : s \in states <=> \E w \in L1Ways : l1[n][w].line = line /\ l1[n][w].state = s
    BY <1>1, <1>2
  <2> QED BY <1>3, <2>1 DEF PermissionIn
<1>5. PermissionOf(n, line)' = PermissionIn(l1'[n], line)
  <2>1. \A s : s \in states' <=> \E w \in L1Ways : l1'[n][w].line = line /\ l1'[n][w].state = s
    BY <1>1, <1>2
  <2> QED BY <1>3, <2>1 DEF PermissionIn
<1> QED BY <1>4, <1>5

OneCopy(ways) ==
  \A v, w \in L1Ways : ways[v].line = ways[w].line /\ ways[v].line # NoLine => v = w

\* When one way of one cache changes, only the permission for the line that left it and
\* the line that entered it move.
LEMMA OneWayMoves ==
  ASSUME NEW n \in RNF, NEW w \in L1Ways, OtherWays(n, w), OneCopy(l1[n]), OneCopy(l1'[n]),
         NEW k \in RNF, NEW line \in Lines
  PROVE  PermissionOf(k, line)' =
           IF k # n THEN PermissionOf(k, line)
           ELSE IF l1'[n][w].line = line
                THEN IF IsUnique(l1'[n][w].state) THEN "Write" ELSE "Read"
           ELSE IF l1[n][w].line = line THEN "None" ELSE PermissionOf(n, line)
<1>1. NoLine \notin Lines
  BY LinkAssumption
<1>2. CASE k # n
  BY <1>2, PermissionFacts DEF OtherWays
<1>3. CASE k = n
  <2>1. \A v \in L1Ways \ {w} : l1'[n][v] = l1[n][v]
    BY DEF OtherWays
  <2>2. CASE l1'[n][w].line = line
    <3>1. \A v \in L1Ways : l1'[n][v].line = line => v = w
      BY <1>1, <2>2 DEF OneCopy
    <3> QED BY <1>3, <2>2, <3>1, PermissionFacts DEF PermissionIn
  <2>3. CASE l1'[n][w].line # line /\ l1[n][w].line = line
    <3>1. \A v \in L1Ways : l1[n][v].line = line => v = w
      BY <1>1, <2>3 DEF OneCopy
    <3> QED BY <1>3, <2>1, <2>3, <3>1, PermissionFacts DEF PermissionIn
  <2>4. CASE l1'[n][w].line # line /\ l1[n][w].line # line
    <3>1. \A v \in L1Ways : /\ l1'[n][v].line = line <=> l1[n][v].line = line
                            /\ l1'[n][v].line = line => l1'[n][v] = l1[n][v]
      BY <2>1, <2>4
    <3>2. PermissionIn(l1'[n], line) = PermissionIn(l1[n], line)
      BY <3>1 DEF PermissionIn
    <3> QED BY <1>3, <2>4, <3>2, PermissionFacts
  <2> QED BY <2>2, <2>3, <2>4
<1> QED BY <1>2, <1>3

SamePermissions == \A k \in RNF, line \in Lines : PermissionOf(k, line)' = PermissionOf(k, line)

\* Only the value of one line moves.
OneValue(l) == \A line \in Lines \ {l} : latest'[line] = latest[line]

\* When a step is a stutter, a Store, a Replace or a Yield of CoherentMemory.
LEMMA StepsOfCoherentMemory ==
  ASSUME TypeInv, TypeInv'
  PROVE  /\ SamePermissions /\ latest' = latest => UNCHANGED Cluster!cmVars
         /\ \A n \in RNF, l \in Lines :
              SamePermissions /\ PermissionOf(n, l) = "Write" /\ OneValue(l) => Cluster!Store(n, l)
         /\ \A l \in Lines :
              SamePermissions /\ (\A n \in RNF : PermissionOf(n, l) = "None") /\ OneValue(l)
                => Cluster!Replace(l)
         /\ \A n \in RNF, l \in Lines, less \in {"None", "Read"} :
              /\ PermissionOf(n, l) # "None" /\ latest' = latest
              /\ \A k \in RNF, line \in Lines :
                   PermissionOf(k, line)' = IF k = n /\ line = l THEN less ELSE PermissionOf(k, line)
              => Cluster!Yield(n, l, less)
<1>1. latest \in [Lines -> LineData] /\ latest' \in [Lines -> LineData]
  BY DEF TypeInv, TypeOK, LinksTypeOK
<1>2. SamePermissions /\ latest' = latest => UNCHANGED Cluster!cmVars
  BY DEF SamePermissions, Cluster!cmVars
<1>3. ASSUME NEW l \in Lines, OneValue(l)
      PROVE  \E v \in LineData : latest' = [latest EXCEPT ![l] = v]
  <2>1. latest' = [latest EXCEPT ![l] = latest'[l]]
    BY <1>1, <1>3 DEF OneValue
  <2> QED BY <1>1, <2>1
<1>4. ASSUME NEW n \in RNF, NEW l \in Lines, SamePermissions, PermissionOf(n, l) = "Write",
             OneValue(l)
      PROVE  Cluster!Store(n, l)
  BY <1>3, <1>4 DEF SamePermissions, Cluster!Store
<1>5. ASSUME NEW l \in Lines, SamePermissions, \A n \in RNF : PermissionOf(n, l) = "None",
             OneValue(l)
      PROVE  Cluster!Replace(l)
  BY <1>3, <1>5 DEF SamePermissions, Cluster!Replace
<1>6. ASSUME NEW n \in RNF, NEW l \in Lines, NEW less \in {"None", "Read"},
             PermissionOf(n, l) # "None", latest' = latest,
             \A k \in RNF, line \in Lines :
               PermissionOf(k, line)' = IF k = n /\ line = l THEN less ELSE PermissionOf(k, line)
      PROVE  Cluster!Yield(n, l, less)
  BY <1>6 DEF Cluster!Yield
<1> QED BY <1>2, <1>4, <1>5, <1>6

\* When a step is one of its two acquisitions.
LEMMA GrantOfCoherentMemory ==
  ASSUME TypeInv, TypeInv', NEW n \in RNF, NEW l \in Lines, NEW dropped \in SUBSET (Lines \ {l}),
         NEW new \in {"Read", "Write"}, OneValue(l), new = "Read" => latest' = latest,
         \A k \in RNF, line \in Lines :
           PermissionOf(k, line)' = IF k # n THEN PermissionOf(k, line)
                                    ELSE IF line = l THEN new
                                    ELSE IF line \in dropped THEN "None" ELSE PermissionOf(n, line),
         \A k \in RNF \ {n} : IF new = "Read" THEN PermissionOf(k, l) # "Write"
                              ELSE PermissionOf(k, l) = "None"
  PROVE  Cluster!AcquireRead(n, l, dropped) \/ Cluster!AcquireWrite(n, l, dropped)
<1>1. Cluster!Regrant(n, l, new, dropped)
  BY DEF Cluster!Regrant
<1>2. CASE new = "Read"
  BY <1>1, <1>2 DEF Cluster!AcquireRead, Cluster!Others
<1>3. CASE new = "Write"
  <2>1. latest \in [Lines -> LineData] /\ latest' \in [Lines -> LineData]
    BY DEF TypeInv, TypeOK, LinksTypeOK
  <2>2. latest' = [latest EXCEPT ![l] = latest'[l]] /\ latest'[l] \in LineData
    BY <2>1 DEF OneValue
  <2> QED BY <1>1, <1>3, <2>2 DEF Cluster!AcquireWrite, Cluster!Others
<1> QED BY <1>2, <1>3

\* A cache holds a line in one way, before a step and after it.
LEMMA WaysHaveOneCopy ==
  ASSUME ClusterInv, ClusterInv', NEW n \in RNF
  PROVE  OneCopy(l1[n]) /\ OneCopy(l1'[n])
<1>1. WaysFit(l1[n], engine[n])
  BY DEF ClusterInv, L1Inv
<1>2. WaysFit(l1'[n], engine'[n])
  BY DEF ClusterInv, L1Inv
<1> QED BY <1>1, <1>2 DEF WaysFit, OneCopy

\* A step that touches neither the arrays nor a value is a stutter.
LEMMA SamePermissionsStutter ==
  ASSUME TypeInv, TypeInv', l1' = l1, latest' = latest
  PROVE  UNCHANGED Cluster!cmVars
<1>1. SamePermissions
  BY PermissionFacts DEF SamePermissions
<1> QED BY <1>1, StepsOfCoherentMemory

\* A way that loses its line, or its ownership, is a Yield.
LEMMA WayYields ==
  ASSUME TypeInv, TypeInv', ClusterInv, ClusterInv', NEW n \in RNF, NEW w \in L1Ways,
         OtherWays(n, w), latest' = latest,
         \/ l1'[n][w].line = NoLine
         \/ l1'[n][w].line = l1[n][w].line /\ ~ IsUnique(l1'[n][w].state)
  PROVE  [Cluster!CMNext]_(Cluster!cmVars)
<1> DEFINE l == l1[n][w].line
<1>1. NoLine \notin Lines /\ OneCopy(l1[n]) /\ OneCopy(l1'[n])
  BY LinkAssumption, WaysHaveOneCopy
<1>2. CASE l \notin Lines
  <2>1. SamePermissions
    <3> SUFFICES ASSUME NEW k \in RNF, NEW line \in Lines
                 PROVE  PermissionOf(k, line)' = PermissionOf(k, line)
      BY DEF SamePermissions
    <3>1. l1[n][w].line # line /\ l1'[n][w].line # line
      BY <1>1, <1>2
    <3> QED BY <1>1, <3>1, OneWayMoves
  <2> QED BY <2>1, StepsOfCoherentMemory
<1>3. CASE l \in Lines
  <2>1. PermissionOf(n, l) # "None"
    BY PermissionFacts DEF PermissionIn
  <2>2. PICK less \in {"None", "Read"} : less = IF l1'[n][w].line = NoLine THEN "None" ELSE "Read"
    OBVIOUS
  <2>3. ASSUME NEW k \in RNF, NEW line \in Lines
        PROVE  PermissionOf(k, line)' = IF k = n /\ line = l THEN less ELSE PermissionOf(k, line)
    <3>1. PermissionOf(k, line)' =
            IF k # n THEN PermissionOf(k, line)
            ELSE IF l1'[n][w].line = line
                 THEN IF IsUnique(l1'[n][w].state) THEN "Write" ELSE "Read"
            ELSE IF l = line THEN "None" ELSE PermissionOf(n, line)
      BY <1>1, OneWayMoves
    <3> QED BY <1>1, <2>2, <3>1
  <2>4. Cluster!Yield(n, l, less)
    BY <1>3, <2>1, <2>3, StepsOfCoherentMemory
  <2> QED BY <1>3, <2>4 DEF Cluster!CMNext
<1> QED BY <1>2, <1>3

\* A store that hits is a Store.
LEMMA StoreHitImplements ==
  ASSUME TypeInv, TypeInv', ClusterInv, ClusterInv', NEW n \in RNF, StoreHit(n)
  PROVE  Cluster!CMNext
<1>1. PICK w \in L1Ways : StoreEffect(n, w) /\ OneValue(l1[n][w].line)
  <2>1. PICK w \in L1Ways, p \in Packets :
          /\ IsUnique(l1[n][w].state) /\ ~ SnoopOn(n, l1[n][w].line)
          /\ l1' = [l1 EXCEPT ![n][w] =
                      [line |-> l1[n][w].line, state |-> "UniqueDirty",
                       data |-> [l1[n][w].data EXCEPT ![p] = stores + 1]]]
          /\ latest' = [latest EXCEPT ![l1[n][w].line][p] = stores + 1]
    BY DEF StoreHit
  <2>2. StoreEffect(n, w)
    BY <2>1, CacheTypes DEF StoreEffect, OtherWays
  <2>3. OneValue(l1[n][w].line)
    BY <2>1 DEF OneValue, TypeInv, TypeOK, LinksTypeOK
  <2> QED BY <2>2, <2>3
<1> DEFINE l == l1[n][w].line
<1>2. /\ IsUnique(l1[n][w].state) /\ OtherWays(n, w) /\ l1'[n][w].line = l
      /\ l1'[n][w].state = "UniqueDirty"
  BY <1>1 DEF StoreEffect
<1>3. l \in Lines
  BY <1>2 DEF TypeInv, CachesHaveLines, NodeInv, WaysHaveLines, IsUnique
<1>4. PermissionOf(n, l) = "Write"
  BY <1>2, PermissionFacts DEF PermissionIn
<1>5. SamePermissions
  <2> SUFFICES ASSUME NEW k \in RNF, NEW line \in Lines
               PROVE  PermissionOf(k, line)' = PermissionOf(k, line)
    BY DEF SamePermissions
  <2>1. PermissionOf(k, line)' =
          IF k # n THEN PermissionOf(k, line)
          ELSE IF l = line THEN "Write" ELSE PermissionOf(n, line)
    BY <1>2, WaysHaveOneCopy, OneWayMoves DEF IsUnique
  <2> QED BY <1>4, <2>1
<1>6. Cluster!Store(n, l)
  BY <1>1, <1>3, <1>4, <1>5, StepsOfCoherentMemory
<1> QED BY <1>3, <1>6 DEF Cluster!CMNext

\* Installing a refill acquires the permission it was granted.
LEMMA InstallImplements ==
  ASSUME TypeInv, TypeInv', ClusterInv, ClusterInv', NEW n \in RNF, InstallRefill(n)
  PROVE  Cluster!CMNext
<1> DEFINE e == engine[n]
           w == e.way
           l == e.line
           dropped == {l1[n][w].line} \cap (Lines \ {l})
<1>1. /\ e.phase = "Complete" /\ ~ e.err /\ Granted(n)
      /\ e.state = IF NeedsUnique(e.access) THEN "Unique" ELSE "SharedClean"
  BY DEF InstallRefill, RefillCanComplete, Installs, Granted, ClusterInv, RequesterSideInv,
     RefillInv
<1>2. /\ w \in L1Ways /\ l \in Lines
  BY <1>1, CacheTypes DEF EngineState, TypeInv, CachesHaveLines, NodeInv, EngineHasLine
<1>3. /\ OtherWays(n, w) /\ l1'[n][w].line = l /\ l1'[n][w].state = InstallState(e)
  BY InstallRefillEffect DEF InstallEffect
<1>4. OneValue(l) /\ (e.access # "store" => latest' = latest)
  <2>1. PICK ps \in (IF e.access = "store" THEN {{p} : p \in Packets} ELSE {{}}) :
          latest' = [latest EXCEPT ![l] =
                       [p \in Packets |-> IF p \in ps THEN e.version ELSE latest[l][p]]]
    BY DEF InstallRefill
  <2>2. latest \in [Lines -> LineData] /\ latest' \in [Lines -> LineData]
    BY DEF TypeInv, TypeOK, LinksTypeOK
  <2>3. OneValue(l)
    BY <2>1, <2>2 DEF OneValue
  <2>4. ASSUME e.access # "store" PROVE latest' = latest
    <3>1. ps = {} /\ latest[l] \in [Packets -> Versions]
      BY <1>2, <2>1, <2>2, <2>4 DEF LineData
    <3>2. latest'[l] = latest[l]
      BY <1>2, <2>1, <2>2, <3>1
    <3> QED BY <2>2, <2>3, <3>2 DEF OneValue
  <2> QED BY <2>3, <2>4
<1>5. PICK new \in {"Read", "Write"} : new = IF NeedsUnique(e.access) THEN "Write" ELSE "Read"
  OBVIOUS
<1>6. IsUnique(InstallState(e)) <=> new = "Write"
  BY <1>1, <1>5 DEF InstallState, NeedsUnique, IsUnique
<1>7. ASSUME NEW k \in RNF, NEW line \in Lines
      PROVE  PermissionOf(k, line)' = IF k # n THEN PermissionOf(k, line)
                                      ELSE IF line = l THEN new
                                      ELSE IF line \in dropped THEN "None"
                                      ELSE PermissionOf(n, line)
  <2>1. PermissionOf(k, line)' =
          IF k # n THEN PermissionOf(k, line)
          ELSE IF l = line THEN IF IsUnique(InstallState(e)) THEN "Write" ELSE "Read"
          ELSE IF l1[n][w].line = line THEN "None" ELSE PermissionOf(n, line)
    BY <1>2, <1>3, WaysHaveOneCopy, OneWayMoves
  <2> QED BY <1>5, <1>6, <2>1
<1>8. ASSUME NEW k \in RNF \ {n}
      PROVE  IF new = "Read" THEN PermissionOf(k, l) # "Write" ELSE PermissionOf(k, l) = "None"
  <2>1. Holds(n, l) /\ (new = "Write" => HoldsUnique(n, l))
    BY <1>1, <1>5 DEF Holds, HoldsUnique
  <2>2. ~ HoldsUnique(k, l) /\ (new = "Write" => ~ Holds(k, l))
    BY <1>2, <2>1 DEF ClusterInv, CoherenceInv, OwnersAreAlone
  <2> QED BY <2>2, PermissionFacts DEF PermissionIn, Holds, HoldsUnique
<1>9. new = "Read" => latest' = latest
  BY <1>4, <1>5 DEF NeedsUnique
<1>10. dropped \in SUBSET (Lines \ {l})
  OBVIOUS
<1>11. Cluster!AcquireRead(n, l, dropped) \/ Cluster!AcquireWrite(n, l, dropped)
  <2> HIDE DEF e, w, l, dropped
  <2> QED BY <1>2, <1>4, <1>7, <1>8, <1>9, <1>10, GrantOfCoherentMemory
<1> QED BY <1>2, <1>10, <1>11 DEF Cluster!CMNext

\* Every step of a cache is a step of CoherentMemory or a stutter.
LEMMA CacheImplements ==
  ASSUME TypeInv, TypeInv', ClusterInv, ClusterInv', NEW n \in RNF, CacheStep(n)
  PROVE  [Cluster!CMNext]_(Cluster!cmVars)
<1>1. CASE StoreHit(n) \/ InstallRefill(n)
  BY <1>1, StoreHitImplements, InstallImplements
<1>2. CASE CopybackSend(n)
  <2>1. PICK p \in Packets : CopybackSendEffect(n, p)
    BY <1>2, CopybackSendEffects
  <2>2. latest' = latest /\ engine[n].way \in L1Ways
    BY <1>2, CacheTypes DEF CopybackSend, history, EngineState
  <2>3. CASE l1' = l1
    BY <2>2, <2>3, SamePermissionsStutter
  <2>4. CASE OtherWays(n, engine[n].way) /\ l1'[n][engine[n].way].line = NoLine
    BY <2>2, <2>4, WayYields
  <2> QED BY <2>1, <2>3, <2>4 DEF CopybackSendEffect
<1>3. CASE SnoopRespond(n) \/ SnoopSendData(n)
  <2>1. latest' = latest /\ snoop[n].way \in L1Ways
    BY <1>3, CacheTypes DEF SnoopRespond, SnoopSendData, RetireSnoop, history, SnoopState
  <2>2. CASE l1' = l1
    BY <2>1, <2>2, SamePermissionsStutter
  <2>3. CASE RetireSnoop(n) /\ l1' # l1
    <3>1. RetireEffect(n)
      BY <2>3, RetireSnoopEffect
    <3>2. /\ OtherWays(n, snoop[n].way)
          /\ \/ l1'[n][snoop[n].way].line = NoLine
             \/ /\ l1'[n][snoop[n].way].line = l1[n][snoop[n].way].line
                /\ ~ IsUnique(l1'[n][snoop[n].way].state)
      BY <2>3, <3>1 DEF RetireEffect, NewState, IsUnique
    <3> QED BY <2>1, <3>2, WayYields
  <2> QED BY <1>3, <2>2, <2>3 DEF SnoopRespond, SnoopSendData
<1>4. CASE ~ (StoreHit(n) \/ InstallRefill(n) \/ CopybackSend(n) \/ SnoopRespond(n)
                \/ SnoopSendData(n))
  <2>1. l1' = l1 /\ latest' = latest
    BY <1>4 DEF CacheStep, CoreStep, EngineDuty, SnoopDuty, StartMiss, StartMaintenance,
       FinishMaintenance, CopybackGrant, RefillData, RefillAcknowledge, FinishWithoutInstall,
       SnoopAccept, history
  <2> QED BY <2>1, SamePermissionsStutter
<1> QED BY <1>1, <1>2, <1>3, <1>4

\* So is every step of the Home: it orders a write, or a discard, only when nobody has
\* a copy left.
LEMMA HomeImplements ==
  ASSUME TypeInv, TypeInv', ClusterInv, HomeStep
  PROVE  [Cluster!CMNext]_(Cluster!cmVars)
<1>1. l1' = l1
  BY DEF HomeStep, cacheVars
<1>2. CASE latest' = latest
  BY <1>1, <1>2, SamePermissionsStutter
<1>3. CASE latest' # latest
  <2>1. /\ OneValue(request.line) /\ Settled
        /\ \/ request.op = "WriteUniquePtl"
           \/ request.op = "MakeInvalid"
    <3>1. CASE HomeOrdersWrite
      BY <1>3, <3>1 DEF HomeOrdersWrite, HomeMergeRequesterData, OneValue, Settled, ClusterInv,
         RequesterSideInv, PhaseFits, TypeInv, TypeOK, LinksTypeOK
    <3>2. CASE HomeOrdersMaintenance
      BY <1>3, <3>2 DEF HomeOrdersMaintenance, HomeFinishMaintenance, OneValue, Settled,
         TypeInv, TypeOK, LinksTypeOK
    <3> QED BY <1>3, <3>1, <3>2 DEF HomeStep, history
  <2>2. Proper(request)
    BY <2>1 DEF ClusterInv, RequesterSideInv, PhaseFits, Settled, Busy, VictimWrite,
       WritingVictim
  <2>3. request.line \in Lines
    BY DEF TypeInv, TypeOK, HomeTypeOK, Request
  <2>4. ASSUME NEW n \in RNF PROVE PermissionOf(n, request.line) = "None"
    <3>1. ~ Spared(n)
      BY <2>1, <2>2, LinkAssumption DEF Proper, Spared, IsMaintenance, MaintenanceOps
    <3>2. Cleared(HomeSnoopOp(request.op), n, request.line)
      BY <2>1, <3>1 DEF ClusterInv, CoherenceInv, SettledInv
    <3>3. ~ Holds(n, request.line)
      BY <2>1, <3>2 DEF Cleared, HomeSnoopOp, InvalidatesState
    <3> QED BY <3>3, PermissionFacts DEF PermissionIn, Holds
  <2>5. SamePermissions
    BY <1>1, PermissionFacts DEF SamePermissions
  <2>6. Cluster!Replace(request.line)
    BY <2>1, <2>3, <2>4, <2>5, StepsOfCoherentMemory
  <2> QED BY <2>3, <2>6 DEF Cluster!CMNext
<1> QED BY <1>2, <1>3

\* The cluster implements the abstract coherent memory: every step of it is one of the
\* abstract memory's, which grants, yields and replaces permissions atomically, or a stutter.
THEOREM ClusterImplementsCoherentMemory == Spec => ImplementsCoherentMemory
<1>1. Init => Cluster!CMInit
  <2> SUFFICES ASSUME Init PROVE Cluster!CMInit
    OBVIOUS
  <2>1. \A n \in RNF, line \in Lines : PermissionOf(n, line) = "None"
    <3>1. \A n \in RNF, w \in L1Ways : l1[n][w].line = NoLine
      BY DEF Init, CacheInit, EmptyWay
    <3> QED BY <3>1, PermissionFacts, LinkAssumption DEF PermissionIn
  <2>2. latest \in [Lines -> LineData]
    BY InitType DEF TypeInv, TypeOK, LinksTypeOK
  <2> QED BY <2>1, <2>2 DEF Cluster!CMInit
<1>2. /\ TypeInv /\ ClusterInv /\ TypeInv' /\ ClusterInv' /\ [Next]_vars
      => [Cluster!CMNext]_(Cluster!cmVars)
  <2> SUFFICES ASSUME TypeInv, ClusterInv, TypeInv', ClusterInv', [Next]_vars
               PROVE  [Cluster!CMNext]_(Cluster!cmVars)
    OBVIOUS
  <2>1. CASE MemoryStep \/ (\E i \in IO : IOStep(i)) \/ UNCHANGED vars
    <3>1. UNCHANGED <<l1, latest>>
      BY <2>1 DEF MemoryStep, IOStep, ReadMemory, AcceptWrite, WriteMemory, CompleteWrite,
         IOBegin, IODuty, ReadOnce, WriteUnique, ReadOnceData, ReadOnceAcknowledge,
         WriteUniqueData, WriteUniqueCompletion, history, cacheVars, vars
    <3> QED BY <3>1, SamePermissionsStutter
  <2> QED BY <2>1, HomeImplements, CacheImplements DEF Next, Step
<1> QED BY <1>1, <1>2, ClusterIsInvariant, PTL DEF Spec, ImplementsCoherentMemory,
Cluster!CMSpec
==============================================================================
