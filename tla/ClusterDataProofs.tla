--------------------------- MODULE ClusterDataProofs ---------------------------
(***************************************************************************)
(* No version of a line is lost, and no cache or snapshot sees a stale one *)
(* as long as no dirty victim can fail to be written: DataInv and          *)
(* WindowInv (ClusterData) are inductive on top of ClusterInv.             *)
(*                                                                         *)
(* The proof goes agent by agent.  A store or an uncached write moves the  *)
(* newest data of a line only when the Home is at work on nothing that     *)
(* rests on the old (Undisturbed).  What a probe or a copyback takes from  *)
(* an L1D is on its way to the line buffer or the LLC.  The Home only      *)
(* moves data it has; memory receives the line buffer and nothing else.    *)
(***************************************************************************)
EXTENDS ClusterCoherenceProofs, ClusterData

------------------------------------------------------------------------------
(* Stores.                                                                  *)

\* The Home is not at work on the strength of what the newest data of the line is.
Undisturbed(line) ==
  /\ ~ NoEntry(line) /\ ~ Returning(line)
  /\ VictimWrite => line # SnoopAddress
  /\ phase \in {"SendCachedData", "AwaitCompAck"} /\ ~ MovedOn /\ request.op \in RefillOps
       /\ ~ completionError => line # request.line
  /\ phase = "MergeRequesterData" /\ ~ completionError => line # request.line

\* A cache that owns a line and asks for nothing disturbs nobody when it stores.
LEMMA OwnerStores ==
  ASSUME TypeInv, ClusterInv, DataInv, NEW n \in RNF, NEW line \in Lines,
         HoldsUnique(n, line), engine[n].phase \in {"Idle", "Complete"}
  PROVE  Undisturbed(line) /\ \A k \in RNF \ {n} : ~ Holds(k, line)
<1>1. \A k \in RNF \ {n} : ~ Holds(k, line)
  BY DEF ClusterInv, CoherenceInv, OwnersAreAlone
<1>2. Holds(n, line)
  BY DEF Holds, HoldsUnique
<1>3. ~ NoEntry(line)
  BY <1>2 DEF ClusterInv, CoherenceInv, HoldersAreTracked, Tracked, NoEntry
<1>4. ~ Returning(line)
  <2>1. SUFFICES ASSUME Returning(line) PROVE FALSE
    OBVIOUS
  <2>2. Collecting /\ line = request.line
    BY <2>1 DEF Returning
  <2>3. n = request.src
    BY <1>2, <2>1, <2>2 DEF DataInv, ReturnedDataInv
  <2> QED BY <2>2, <2>3 DEF Collecting, ClusterInv, RequesterSideInv, CopybackInv, Busy
<1>5. VictimWrite => line # SnoopAddress
  <2>1. SUFFICES ASSUME VictimWrite, line = SnoopAddress PROVE FALSE
    OBVIOUS
  <2>2. snoopVictim => FALSE
    BY <1>2, <2>1 DEF SnoopAddress, ClusterInv, CoherenceInv, SettledInv
  <2>3. /\ Maintenance /\ line = request.line /\ request.op # "MakeInvalid" /\ request.snoopMe
    BY <2>1, <2>2 DEF SnoopAddress, ClusterInv, RequesterSideInv, PhaseFits, VictimWrite, Busy,
       WritingVictim, Proper, Maintenance, DataInv, WriteBackInv
  <2> QED BY <2>1, <2>3 DEF ClusterInv, CoherenceInv, SettledInv, Settled, Spared, Cleared,
       HomeSnoopOp, Maintenance, IsMaintenance, MaintenanceOps, SharesState, InvalidatesState,
       Holds, HoldsUnique
<1>6. ASSUME phase \in {"SendCachedData", "AwaitCompAck"}, ~ MovedOn, request.op \in RefillOps,
             ~ completionError, line = request.line
      PROVE  FALSE
  <2>1. n # request.src
    BY <1>6 DEF ClusterInv, RequesterSideInv, RefillInv, Busy
  <2> QED BY <1>2, <1>6, <2>1 DEF ClusterInv, CoherenceInv, SettledInv, Settled, Spared, Cleared,
       HomeSnoopOp, RefillOps, SharesState, InvalidatesState
<1>7. ASSUME phase = "MergeRequesterData", ~ completionError, line = request.line
      PROVE  FALSE
  <2>1. request.op = "WriteUniquePtl" /\ request.src \in IO
    BY <1>7 DEF ClusterInv, RequesterSideInv, PhaseFits, Busy, Proper
  <2>2. n # request.src
    BY <2>1, LinkAssumption
  <2> QED BY <1>2, <1>7, <2>1, <2>2 DEF ClusterInv, CoherenceInv, SettledInv, Settled, Spared,
       Cleared, HomeSnoopOp, InvalidatesState
<1> QED BY <1>1, <1>3, <1>4, <1>5, <1>6, <1>7 DEF Undisturbed

------------------------------------------------------------------------------
(* The Home's side, while a requester moves.                                *)

\* What a step away from the Home does to the newest data: it changes only where a
\* dirty copy is, and nobody's work depends on it.
Followed ==
  /\ \A line \in Lines : latest'[line] = latest[line] \/ (Undisturbed(line) /\ DirtyCopy(line)')
  /\ \A line \in Lines : DirtyCopy(line) \/ InHand(line) => DirtyCopy(line)' \/ InHand(line)'

\* The Home's answers, its writes and its levels rest on what does not move.
LEMMA LevelsKept ==
  ASSUME TypeInv, ClusterInv, DataInv, Followed,
         UNCHANGED <<homeVars, memoryVars, subordinateLinks>>
  PROVE  AnswerDataInv' /\ WriteBackInv' /\ WriteDataFits' /\ FillDataInv' /\ LevelsInv'
<1>1. UNCHANGED <<phase, request, receivedData, copybackDirty, selectedSet, selectedWay, lineBuffer,
                  victimAddress, snoopVictim, maintenanceHit, receivedFill, completionError,
                  validLines, dirtyLines, tags, lineRam, memory, memWrite,
                  memReqs, memRsps, fillData, memData>>
  BY DEF homeVars, requesterRegs, lookupRegs, backingRegs, directory, storage, memoryVars,
     subordinateLinks
<1>2. request.line \in Lines
  BY DEF TypeInv, TypeOK, HomeTypeOK, Request
<1>3. VictimWrite => SnoopAddress \in Lines
  BY <1>2 DEF VictimWrite, ClusterInv, DirectoryInv, SelectedInv, IsEntry, TypeInv,
     ValidWaysHaveTags, TypeOK,
     HomeTypeOK, Selected, SnoopAddress
<1>4. AnswerDataInv'
  BY <1>1, <1>2 DEF Followed, Undisturbed, DataInv, AnswerDataInv, MovedOn, Selected
<1>5. WriteBackInv'
  BY <1>1, <1>3 DEF Followed, Undisturbed, DataInv, WriteBackInv, VictimWrite, WritingVictim,
     Maintenance, Selected, SnoopAddress
<1>6. WriteDataFits' /\ FillDataInv'
  BY <1>1 DEF DataInv, WriteDataFits, FillDataInv, SnoopAddress
<1>7. LevelsInv'
  BY <1>1 DEF Followed, Undisturbed, DataInv, LevelsInv, NoEntry, Valid, TypeInv,
     ValidWaysHaveTags
<1> QED BY <1>4, <1>5, <1>6, <1>7

\* The line buffer and the copyback under way, as long as no probe moves and no data is sent.
LEMMA BufferKept ==
  ASSUME TypeInv, ClusterInv, DataInv, Followed,
         UNCHANGED <<homeVars, snoop, reqData>>,
         \A m \in acks' \ acks : ~ m.err,
         \A line \in Lines : DirtyCopy(line) => DirtyCopy(line)',
         Collecting => NoNewHolding
  PROVE  BufferInv' /\ SentInv' /\ DiscardInv' /\ ReturnedDataInv'
<1>1. UNCHANGED <<phase, request, receivedData, copybackDirty, writeData, selectedSet, selectedWay,
                  lineBuffer, victimAddress, snoopVictim, maintenanceHit, maintenanceDirty,
                  completionError, dirtyLines, lineRam>>
  BY DEF homeVars, requesterRegs, lookupRegs, directory, storage
<1>2. request.line \in Lines
  BY DEF TypeInv, TypeOK, HomeTypeOK, Request
<1>3. Probing => SnoopAddress \in Lines
  BY <1>2 DEF Probing, TypeInv, VictimIsKnown, SnoopAddress, Snooping
<1>4. BufferInv'
  BY <1>1, <1>3 DEF Followed, DataInv, BufferInv, Probing, Snooping, Maintenance, Merges, Selected,
     SnoopAddress
<1>5. SentInv' /\ DiscardInv'
  BY <1>1 DEF DataInv, SentInv, Merges, DiscardInv, Snooping, SnoopOp
<1>6. ReturnedDataInv'
  <2> SUFFICES ASSUME Collecting' PROVE ReturnedDataInv'
    BY DEF ReturnedDataInv
  <2>1. Collecting /\ NoNewHolding /\ (Returning(request.line)' <=> Returning(request.line))
    BY <1>1 DEF Collecting, Copyback, Returning
  <2>2. latest'[request.line] = latest[request.line] \/ ~ Returning(request.line)
    BY <1>2 DEF Followed, Undisturbed
  <2> QED BY <1>1, <1>2, <2>1, <2>2 DEF NoNewHolding, DataInv, ReturnedDataInv, Returning
<1> QED BY <1>4, <1>5, <1>6

------------------------------------------------------------------------------
(* The caches.                                                              *)

\* What a cache has or is receiving is newest.
FreshAt(n) ==
  /\ \A w \in L1Ways : l1[n][w].line # NoLine => l1[n][w].data = latest[l1[n][w].line]
  /\ Granted(n) => engine[n].data = latest[engine[n].line]
  /\ engine[n].phase = "Refill" /\ ~ engine[n].err =>
       \A p \in engine[n].packets : engine[n].data[p] = latest[engine[n].line][p]

\* A step of a cache is its own.
LEMMA CacheKeepsOthers ==
  ASSUME TypeInv, NEW n \in RNF, CacheStep(n), NEW k \in RNF \ {n}
  PROVE  l1'[k] = l1[k] /\ engine'[k] = engine[k] /\ snoop'[k] = snoop[k]
BY ZenonT(60), CacheTypes DEF CacheStep, CoreStep, EngineDuty, SnoopDuty, StoreHit, StartMiss,
     StartMaintenance, FinishMaintenance, CopybackGrant, CopybackSend, RefillData, InstallRefill,
     RefillAcknowledge, FinishWithoutInstall, SnoopAccept, SnoopRespond, SnoopSendData, RetireSnoop

\* A cache that stands still has what is newest, although another one stores.
LEMMA OthersStayFresh ==
  ASSUME TypeInv, ClusterInv, DataInv, NEW k \in RNF,
         l1'[k] = l1[k], engine'[k] = engine[k],
         \A line \in Lines : latest'[line] = latest[line] \/ (Undisturbed(line) /\ ~ Holds(k, line))
  PROVE  FreshAt(k)'
<1>1. /\ \A w \in L1Ways : l1[k][w].line # NoLine => l1[k][w].line \in Lines
      /\ engine[k].phase # "Idle" => engine[k].line \in Lines
  BY DEF TypeInv, CachesHaveLines, NodeInv, WaysHaveLines, EngineHasLine
<1>2. ASSUME engine[k].phase = "Refill", ~ engine[k].err, engine[k].packets # {}
      PROVE  ~ Undisturbed(engine[k].line)
  BY <1>2 DEF ClusterInv, RequesterSideInv, RefillInv, Serving, Answering, Undisturbed, Busy
<1>3. ASSUME NEW w \in L1Ways, l1[k][w].line # NoLine
      PROVE  l1'[k][w].data = latest'[l1'[k][w].line]
  BY <1>1, <1>3 DEF DataInv, FreshInv, Holds
<1>4. Granted(k)' => engine'[k].data = latest'[engine'[k].line]
  BY <1>1 DEF DataInv, FreshInv, Holds, Granted
<1>5. ASSUME engine'[k].phase = "Refill", ~ engine'[k].err, NEW p \in engine'[k].packets
      PROVE  engine'[k].data[p] = latest'[engine'[k].line][p]
  BY <1>1, <1>2, <1>5 DEF DataInv, FreshInv
<1> QED BY <1>3, <1>4, <1>5 DEF FreshAt

\* The newest data moves only in the hands of its owner.
LEMMA CacheStores ==
  ASSUME TypeInv, ClusterInv, DataInv, NEW n \in RNF, CacheStep(n), NEW line \in Lines,
         latest'[line] # latest[line]
  PROVE  /\ Undisturbed(line) /\ \A k \in RNF \ {n} : ~ Holds(k, line)
         /\ \E w \in L1Ways : l1'[n][w].line = line /\ l1'[n][w].state = "UniqueDirty"
<1>0. latest \in [Lines -> LineData]
  BY DEF TypeInv, TypeOK, LinksTypeOK
<1>1. CASE StoreHit(n)
  <2>1. PICK w \in L1Ways : StoreEffect(n, w)
    BY <1>1, StoreHitEffect
  <2>2. l1[n][w].line = line /\ engine[n].phase = "Idle"
    BY <1>0, <1>1, <2>1 DEF StoreEffect, StoreHit
  <2>3. HoldsUnique(n, line)
    BY <2>1, <2>2 DEF StoreEffect, HoldsUnique
  <2> QED BY <2>1, <2>2, <2>3, OwnerStores DEF StoreEffect
<1>2. CASE InstallRefill(n)
  <2>1. PICK ps \in SUBSET Packets :
          /\ ps # {} => engine[n].access = "store"
          /\ latest' = [latest EXCEPT ![engine[n].line] =
               [p \in Packets |-> IF p \in ps THEN engine[n].version ELSE @[p]]]
    BY <1>2, InstallRefillEffect DEF InstallEffect
  <2>2. engine[n].line = line /\ engine[n].access = "store"
    <3>1. engine[n].line = line
      BY <1>0, <2>1
    <3>2. ps = {} => latest'[line] = [p \in Packets |-> latest[line][p]]
      BY <1>0, <2>1, <3>1
    <3>3. latest[line] = [p \in Packets |-> latest[line][p]]
      BY <1>0 DEF LineData
    <3> QED BY <2>1, <3>1, <3>2, <3>3
  <2>3. Granted(n) /\ engine[n].state = "Unique" /\ engine[n].phase = "Complete"
    BY <1>2, <2>2 DEF InstallRefill, RefillCanComplete, Installs, Granted, ClusterInv,
       RequesterSideInv, RefillInv, NeedsUnique
  <2>4. HoldsUnique(n, line)
    BY <2>2, <2>3 DEF HoldsUnique
  <2>5. /\ l1'[n][engine[n].way].line = line /\ l1'[n][engine[n].way].state = "UniqueDirty"
        /\ engine[n].way \in L1Ways
    BY <1>2, <2>2, InstallRefillEffect, CacheTypes DEF InstallEffect, InstallState, EngineState
  <2> QED BY <2>3, <2>4, <2>5, OwnerStores
<1>3. CASE latest' = latest
  BY <1>3
<1> QED BY <1>1, <1>2, <1>3 DEF CacheStep, CoreStep, EngineDuty, SnoopDuty, StartMiss,
     StartMaintenance, FinishMaintenance, CopybackGrant, CopybackSend, RefillData,
     RefillAcknowledge, FinishWithoutInstall, SnoopAccept, SnoopRespond, SnoopSendData, history

\* A line that is returned, granted or installed is passed on as it is.
LEMMA CacheFresh ==
  ASSUME TypeInv, ClusterInv, DataInv, NEW n \in RNF, CacheStep(n)
  PROVE  FreshAt(n)'
<1>0. /\ latest \in [Lines -> LineData] /\ NoLine \notin Lines
      /\ l1 \in [RNF -> [L1Ways -> WayState]] /\ engine[n].way \in L1Ways /\ snoop[n].way \in L1Ways
      /\ WaysHaveLines(l1[n]) /\ EngineHasLine(l1[n], engine[n])
      /\ ProbeHasLine(l1[n], engine[n], snoop[n])
      /\ engine[n].data \in LineData
  BY LinkAssumption, CacheTypes
     DEF TypeInv, TypeOK, LinksTypeOK, CachesHaveLines, NodeInv, EngineState, SnoopState
<1>1. FreshAt(n)
  BY DEF DataInv, FreshInv, FreshAt
<1> USE <1>0, <1>1 DEF WaysHaveLines, EngineHasLine, ProbeHasLine, OtherWays
<1>2. CASE StoreHit(n)
  <2>1. PICK w \in L1Ways : StoreEffect(n, w)
    BY <1>2, StoreHitEffect
  <2>2. engine' = engine /\ engine[n].phase = "Idle" /\ l1[n][w].line \in Lines
    BY <1>2, <2>1 DEF StoreHit, StoreEffect, IsUnique
  <2>3. WaysFit(l1[n], engine[n])
    BY DEF ClusterInv, L1Inv
  <2> QED BY <2>1, <2>2, <2>3 DEF StoreEffect, FreshAt, Granted, WaysFit
<1>3. CASE StartMiss(n)
  <2>1. PICK access \in Accesses \ {"maintenance"}, line \in Lines, w \in L1Ways,
             evict \in BOOLEAN : MissEffect(n, access, line, w, evict)
    BY <1>3, StartMissEffect
  <2>2. UNCHANGED <<l1, latest>>
    BY <1>3 DEF StartMiss
  <2> QED BY <2>1, <2>2 DEF MissEffect, FreshAt, Granted
<1>4. CASE StartMaintenance(n)
  <2>1. PICK op \in MaintenanceOps, line \in Lines : MaintenanceEffect(n, op, line)
    BY <1>4, StartMaintenanceEffect
  <2>2. UNCHANGED <<l1, latest>>
    BY <1>4 DEF StartMaintenance, history
  <2> QED BY <2>1, <2>2 DEF MaintenanceEffect, FreshAt, Granted
<1>5. CASE FinishMaintenance(n) \/ FinishWithoutInstall(n)
  <2>1. OtherEngines(n) /\ engine'[n].phase = "Idle"
    BY <1>5, IdleAgainEffect
  <2>2. UNCHANGED <<l1, latest>>
    BY <1>5 DEF FinishMaintenance, FinishWithoutInstall, history
  <2> QED BY <2>1, <2>2 DEF FreshAt, Granted
<1>6. CASE CopybackGrant(n)
  <2>1. EngineGoes(n, "CopybackData")
    BY <1>6, CopybackGrantEffect
  <2>2. UNCHANGED <<l1, latest>>
    BY <1>6 DEF CopybackGrant, history
  <2> QED BY <2>1, <2>2 DEF EngineGoes, FreshAt, Granted
<1>7. CASE CopybackSend(n)
  <2>1. PICK p \in Packets : CopybackSendEffect(n, p)
    BY <1>7, CopybackSendEffects
  <2>2. UNCHANGED latest
    BY <1>7 DEF CopybackSend, history
  <2> QED BY <2>1, <2>2 DEF CopybackSendEffect, FreshAt, Granted
<1>8. CASE RefillData(n)
  <2>1. PICK m \in compData : RefillDataEffect(n, m)
    BY <1>8, RefillDataEffects
  <2>2. UNCHANGED <<l1, latest>> /\ engine[n].phase = "Refill"
    BY <1>8 DEF RefillData, history
  <2>3. m.dst = n /\ m.packet \in Packets /\ m.err \in BOOLEAN /\ engine[n].err \in BOOLEAN
    BY <2>1, CacheTypes DEF RefillDataEffect, TypeInv, TypeOK, LinksTypeOK, CompletionData,
       EngineState
  <2>4. request.line = engine[n].line
    BY <2>1, <2>2, <2>3, LinkAssumption DEF ClusterInv, RequesterSideInv, ReadDataInv,
       RefillInv, PhaseFits, Busy,
       Answering, MovedOn, Proper
  <2>5. ~ m.err => m.version = latest[engine[n].line][m.packet]
    BY <2>1, <2>3, <2>4 DEF DataInv, FreshInv
  <2>6. ~ engine'[n].err =>
          \A p \in engine'[n].packets : engine'[n].data[p] = latest[engine'[n].line][p]
    BY <2>1, <2>2, <2>3, <2>5 DEF RefillDataEffect, FreshAt, LineData
  <2>7. Granted(n)' => engine'[n].data = latest[engine'[n].line]
    <3>1. engine'[n].data \in LineData /\ engine'[n].line \in Lines
      BY <2>1, <2>2, <2>3 DEF RefillDataEffect, LineData, TypeInv, TypeOK, LinksTypeOK,
         CompletionData
    <3>2. Granted(n)' => engine'[n].packets = Packets /\ ~ engine'[n].err
      BY <2>1 DEF RefillDataEffect, Granted
    <3> QED BY <2>6, <3>1, <3>2 DEF LineData
  <2> QED BY <2>2, <2>6, <2>7 DEF FreshAt
<1>9. CASE RefillAcknowledge(n)
  <2>1. EngineGoes(n, "Complete")
    BY <1>9, RefillAcknowledgeEffect
  <2>2. UNCHANGED <<l1, latest>> /\ engine[n].phase = "Acknowledge"
    BY <1>9 DEF RefillAcknowledge, history
  <2> QED BY <2>1, <2>2 DEF EngineGoes, FreshAt, Granted
<1>10. CASE InstallRefill(n)
  <2>1. InstallEffect(n) /\ engine[n].phase = "Complete"
    BY <1>10, InstallRefillEffect DEF InstallRefill, RefillCanComplete
  <2>2. /\ engine[n].line \in Lines /\ Granted(n) /\ engine[n].data = latest[engine[n].line]
    BY <2>1 DEF InstallEffect, Installs, Granted, FreshAt
  <2>3. \A w \in L1Ways : l1[n][w].line = engine[n].line => w = engine[n].way
    BY <2>1 DEF ClusterInv, L1Inv, WaysFit
  <2>4. l1'[n][engine[n].way].data = latest'[engine[n].line]
    BY <2>1, <2>2 DEF InstallEffect
  <2>5. \A line \in Lines \ {engine[n].line} : latest'[line] = latest[line]
    BY <2>1 DEF InstallEffect
  <2> QED BY SMTT(60), <2>1, <2>3, <2>4, <2>5 DEF InstallEffect, FreshAt, Granted
<1>11. CASE SnoopAccept(n)
  <2>1. UNCHANGED <<l1, engine, latest>>
    BY <1>11 DEF SnoopAccept, history
  <2> QED BY <2>1 DEF FreshAt, Granted
<1>12. CASE SnoopRespond(n) \/ SnoopSendData(n)
  <2>1. UNCHANGED latest
    BY <1>12 DEF SnoopRespond, SnoopSendData, history
  <2>2. EngineGoes(n, engine[n].phase)
    BY <1>12, AnswerEffect
  <2>3. \A w \in L1Ways : l1'[n][w].line # NoLine =>
          l1'[n][w].line = l1[n][w].line /\ l1'[n][w].data = l1[n][w].data
    <3>1. CASE RetireSnoop(n)
      BY <3>1, RetireSnoopEffect DEF RetireEffect
    <3>2. CASE l1' = l1
      BY <3>2
    <3> QED BY <1>12, <3>1, <3>2 DEF SnoopRespond, SnoopSendData
  <2> QED BY <2>1, <2>2, <2>3 DEF EngineGoes, FreshAt, Granted
<1> QED BY <1>2, <1>3, <1>4, <1>5, <1>6, <1>7, <1>8, <1>9, <1>10, <1>11, <1>12
        DEF CacheStep, CoreStep, EngineDuty, SnoopDuty

\* What an engine or a probe keeps of a way stays true of the way.
LEMMA CacheNodeData ==
  ASSUME TypeInv, ClusterInv, DataInv, NEW n \in RNF, CacheStep(n)
  PROVE  NodeDataInv'
<1> DEFINE Others == \A k \in RNF \ {n} : l1'[k] = l1[k] /\ engine'[k] = engine[k]
                                                        /\ snoop'[k] = snoop[k]
           Mine == DataFits(l1[n], engine[n], snoop[n])
<1>0. /\ NoLine \notin Lines /\ engine[n].way \in L1Ways /\ snoop[n].way \in L1Ways
      /\ WaysHaveLines(l1[n]) /\ EngineHasLine(l1[n], engine[n])
      /\ ProbeHasLine(l1[n], engine[n], snoop[n])
      /\ WaysFit(l1[n], engine[n]) /\ LookupFits(l1[n], engine[n], snoop[n])
  BY LinkAssumption, CacheTypes
     DEF TypeInv, CachesHaveLines, NodeInv, EngineState, SnoopState, ClusterInv, L1Inv
<1>1. Mine
  BY DEF DataInv, NodeDataInv
<1>2. SUFFICES Others /\ Mine'
  BY DEF NodeDataInv, DataFits, DataInv
<1> USE <1>0, <1>1 DEF WaysHaveLines, EngineHasLine, ProbeHasLine, OtherWays, OtherEngines,
        OtherProbes, WaysFit, LookupFits, DataFits, Missing
<1>3. CASE StoreHit(n)
  <2>1. PICK w \in L1Ways : StoreEffect(n, w)
    BY <1>3, StoreHitEffect
  <2>2. UNCHANGED <<engine, snoop>> /\ engine[n].phase = "Idle"
    BY <1>3 DEF StoreHit
  <2> QED BY <2>1, <2>2 DEF StoreEffect, SnoopOn, IsUnique
<1>4. CASE StartMiss(n)
  <2>1. PICK access \in Accesses \ {"maintenance"}, line \in Lines, w \in L1Ways,
             evict \in BOOLEAN : MissEffect(n, access, line, w, evict)
    BY <1>4, StartMissEffect
  <2>2. UNCHANGED <<l1, snoop>> /\ ~ snoop[n].active
    BY <1>4 DEF StartMiss
  <2>3. \A v \in L1Ways : l1[n][v].line = line => v = w /\ ~ IsUnique(l1[n][v].state)
    BY <2>1 DEF MissEffect, MissWays, HitWays
  <2> QED BY <2>1, <2>2, <2>3 DEF MissEffect, HitWays
<1>5. CASE StartMaintenance(n)
  <2>1. PICK op \in MaintenanceOps, line \in Lines : MaintenanceEffect(n, op, line)
    BY <1>5, StartMaintenanceEffect
  <2>2. UNCHANGED <<l1, snoop>>
    BY <1>5 DEF StartMaintenance
  <2> QED BY <2>1, <2>2 DEF MaintenanceEffect
<1>6. CASE FinishMaintenance(n) \/ FinishWithoutInstall(n)
  <2>1. OtherEngines(n) /\ engine'[n].phase = "Idle"
    BY <1>6, IdleAgainEffect
  <2>2. UNCHANGED <<l1, snoop>>
    BY <1>6 DEF FinishMaintenance, FinishWithoutInstall
  <2> QED BY <2>1, <2>2
<1>7. CASE CopybackGrant(n)
  <2>1. EngineGoes(n, "CopybackData") /\ engine'[n].state = engine[n].state
    BY <1>7, CopybackGrantEffect
  <2>2. UNCHANGED <<l1, snoop>> /\ engine[n].phase = "Copyback"
    BY <1>7 DEF CopybackGrant
  <2> QED BY <2>1, <2>2 DEF EngineGoes
<1>8. CASE CopybackSend(n)
  <2>1. PICK p \in Packets : CopybackSendEffect(n, p)
    BY <1>8, CopybackSendEffects
  <2>2. UNCHANGED snoop /\ engine[n].phase = "CopybackData"
    BY <1>8 DEF CopybackSend
  <2>3. ~ snoop[n].active
    BY <2>2 DEF ClusterInv, RequesterSideInv, CopybackInv, ProbeInv, ProbeInFlightInv
  <2> QED BY <2>1, <2>2, <2>3 DEF CopybackSendEffect, IsDirty
<1>9. CASE RefillData(n)
  <2>1. PICK m \in compData : RefillDataEffect(n, m)
    BY <1>9, RefillDataEffects
  <2>2. UNCHANGED <<l1, snoop>> /\ engine[n].phase = "Refill"
    BY <1>9 DEF RefillData
  <2> QED BY <2>1, <2>2 DEF RefillDataEffect
<1>10. CASE RefillAcknowledge(n)
  <2>1. EngineGoes(n, "Complete")
    BY <1>10, RefillAcknowledgeEffect
  <2>2. UNCHANGED <<l1, snoop>> /\ engine[n].phase = "Acknowledge"
    BY <1>10 DEF RefillAcknowledge
  <2> QED BY <2>1, <2>2 DEF EngineGoes
<1>11. CASE InstallRefill(n)
  <2>1. InstallEffect(n)
    BY <1>11, InstallRefillEffect
  <2>2. UNCHANGED snoop /\ ~ snoop[n].active
    BY <1>11 DEF InstallRefill, RefillCanComplete
  <2> QED BY <2>1, <2>2 DEF InstallEffect
<1>12. CASE SnoopAccept(n)
  <2>1. PICK m \in snps : AcceptEffect(n, m)
    BY <1>12, SnoopAcceptEffect
  <2>2. UNCHANGED <<l1, engine>>
    BY <1>12 DEF SnoopAccept
  <2> QED BY <2>1, <2>2 DEF AcceptEffect
<1>13. ASSUME snoop[n].active, RetireEffect(n) PROVE Others /\ Mine'
  <2>1. CASE ~ Updates(snoop[n])
    BY <1>13, <2>1 DEF RetireEffect, EngineGoes
  <2>2. CASE Updates(snoop[n])
    <3>1. \A w \in L1Ways :
            /\ IsUnique(l1'[n][w].state) => w # snoop[n].way
            /\ IsDirty(l1'[n][w].state) => w # snoop[n].way
            /\ w # snoop[n].way => l1'[n][w] = l1[n][w]
            /\ l1'[n][w].line \in {l1[n][w].line, NoLine}
      BY <1>13, <2>2 DEF RetireEffect, NewState, IsUnique, IsDirty
    <3>2. engine[n].phase = "Copyback" /\ engine[n].way = snoop[n].way =>
            ~ IsDirty(engine'[n].state)
      BY <1>13, <2>2 DEF RetireEffect, Updates, NewState, IsDirty
    <3>3. engine[n].phase = "CopybackData" => FALSE
      BY <1>13 DEF ClusterInv, RequesterSideInv, CopybackInv, ProbeInv, ProbeInFlightInv
    <3>4. EngineGoes(n, engine[n].phase) /\ ~ snoop'[n].active /\ Others
          /\ (engine'[n].state = engine[n].state \/ ~ IsDirty(engine'[n].state))
      BY <1>13, <2>2 DEF RetireEffect, EngineGoes, NewState, IsDirty
    <3> QED BY <3>1, <3>2, <3>3, <3>4 DEF EngineGoes
  <2> QED BY <2>1, <2>2
<1>14. CASE SnoopRespond(n)
  <2>1. PICK a : RespondEffect(n, a)
    BY <1>14, SnoopRespondEffect
  <2> QED BY <1>13, <1>14, <2>1 DEF RespondEffect, SnoopRespond
<1>15. CASE SnoopSendData(n)
  <2>1. PICK d : SnoopDataEffect(n, d)
    BY <1>15, SnoopSendDataEffect
  <2>2. CASE RetireEffect(n)
    BY <1>13, <1>15, <2>2 DEF SnoopSendData
  <2>3. CASE ~ RetireEffect(n)
    <3>1. /\ UNCHANGED <<l1, engine>> /\ OtherProbes(n)
          /\ snoop'[n] = [snoop[n] EXCEPT !.packets = @ \cup {d.packet}]
      BY <2>1, <2>3 DEF SnoopDataEffect
    <3>2. /\ snoop'[n].active <=> snoop[n].active
          /\ snoop'[n].hit <=> snoop[n].hit
          /\ snoop'[n].way = snoop[n].way /\ snoop'[n].data = snoop[n].data
      BY <3>1, CacheTypes DEF SnoopState
    <3> QED BY <3>1, <3>2
  <2> QED BY <2>2, <2>3
<1> QED BY <1>3, <1>4, <1>5, <1>6, <1>7, <1>8, <1>9, <1>10, <1>11, <1>12, <1>14, <1>15
        DEF CacheStep, CoreStep, EngineDuty, SnoopDuty

\* Between the cache and the Home: the data of a read is newest as well.
LEMMA CacheFreshness ==
  ASSUME TypeInv, ClusterInv, DataInv, NEW n \in RNF, CacheStep(n)
  PROVE  FreshInv'
<1>1. \A k \in RNF : FreshAt(k)'
  <2> SUFFICES ASSUME NEW k \in RNF \ {n} PROVE FreshAt(k)'
    BY CacheFresh
  <2>1. l1'[k] = l1[k] /\ engine'[k] = engine[k]
    BY CacheKeepsOthers
  <2>2. ASSUME NEW line \in Lines
        PROVE  latest'[line] = latest[line] \/ (Undisturbed(line) /\ ~ Holds(k, line))
    <3>1. CASE latest'[line] # latest[line]
      <4>1. Undisturbed(line) /\ \A j \in RNF \ {n} : ~ Holds(j, line)
        BY <3>1, CacheStores
      <4> QED BY <4>1
    <3>2. CASE latest'[line] = latest[line]
      BY <3>2
    <3> QED BY <3>1, <3>2
  <2>3. \A line \in Lines :
          latest'[line] = latest[line] \/ (Undisturbed(line) /\ ~ Holds(k, line))
    BY <2>2
  <2> QED BY <2>1, <2>3, OthersStayFresh
<1>2. compData' \subseteq compData /\ UNCHANGED request
  BY DEF CacheStep, CoreStep, EngineDuty, SnoopDuty, StoreHit, StartMiss,
     StartMaintenance, FinishMaintenance, CopybackGrant, CopybackSend, RefillData, InstallRefill,
     RefillAcknowledge, FinishWithoutInstall, SnoopAccept, SnoopRespond, SnoopSendData,
     requesterLinks, homeVars, requesterRegs
<1>3. ASSUME NEW m \in compData, m.dst \in RNF, ~ m.err
      PROVE  latest'[request.line] = latest[request.line]
  <2>1. ~ Undisturbed(request.line)
    BY <1>3, LinkAssumption DEF ClusterInv, RequesterSideInv, ReadDataInv, PhaseFits, Proper,
       Busy, Answering, MovedOn, Undisturbed
  <2>2. request.line \in Lines
    BY DEF TypeInv, TypeOK, HomeTypeOK, Request
  <2> QED BY <2>1, <2>2, CacheStores
<1>4. \A m \in compData' : m.dst \in RNF /\ ~ m.err =>
        m.version = latest'[request.line'][m.packet]
  BY <1>2, <1>3 DEF DataInv, FreshInv
<1> QED BY <1>1, <1>4 DEF FreshInv, FreshAt

------------------------------------------------------------------------------
(* The Home's side while a cache moves.                                     *)

\* The parts that speak of the Home and memory.
HomeDataInv ==
  /\ ReturnedDataInv /\ BufferInv /\ SentInv /\ DiscardInv /\ AnswerDataInv
  /\ WriteBackInv /\ WriteDataFits /\ FillDataInv /\ LevelsInv

\* Stores happen in dirty copies, so it is enough that no dirty data gets lost.
LEMMA CacheFollowed ==
  ASSUME TypeInv, ClusterInv, DataInv, NEW n \in RNF, CacheStep(n),
         \A line \in Lines : DirtyCopy(line) \/ InHand(line) => DirtyCopy(line)' \/ InHand(line)'
  PROVE  Followed
<1>1. ASSUME NEW line \in Lines
      PROVE  latest'[line] = latest[line] \/ (Undisturbed(line) /\ DirtyCopy(line)')
  <2>1. CASE latest'[line] # latest[line]
    <3>1. /\ Undisturbed(line)
          /\ \E w \in L1Ways : l1'[n][w].line = line /\ l1'[n][w].state = "UniqueDirty"
      BY <2>1, CacheStores
    <3>2. DirtyCopy(line)'
      BY <3>1 DEF DirtyCopy, IsDirty
    <3> QED BY <3>1, <3>2
  <2>2. CASE latest'[line] = latest[line]
    BY <2>2
  <2> QED BY <2>1, <2>2
<1> QED BY <1>1 DEF Followed

\* The steps of a cache that answer no probe and send no copyback data.
QuietStep(n) ==
  \/ StoreHit(n) \/ StartMiss(n) \/ StartMaintenance(n) \/ FinishMaintenance(n)
  \/ CopybackGrant(n) \/ RefillData(n) \/ RefillAcknowledge(n) \/ InstallRefill(n)
  \/ FinishWithoutInstall(n)

\* Neither a store nor a refill takes a dirty copy away.
LEMMA QuietKeepsDirty ==
  ASSUME TypeInv, ClusterInv, DataInv, NEW n \in RNF, CacheStep(n), QuietStep(n),
         NEW line \in Lines, DirtyCopy(line)
  PROVE  DirtyCopy(line)'
<1>1. PICK k \in RNF, w \in L1Ways : l1[k][w].line = line /\ IsDirty(l1[k][w].state)
  BY DEF DirtyCopy
<1>2. l1'[k][w] = l1[k][w] => DirtyCopy(line)'
  BY <1>1 DEF DirtyCopy
<1>3. CASE StoreHit(n)
  <2>1. PICK v \in L1Ways : StoreEffect(n, v)
    BY <1>3, StoreHitEffect
  <2>2. CASE k = n /\ w = v
    BY <1>1, <2>1, <2>2 DEF StoreEffect, DirtyCopy, IsDirty
  <2>3. CASE ~ (k = n /\ w = v)
    BY <1>2, <2>1, <2>3 DEF StoreEffect, OtherWays
  <2> QED BY <2>2, <2>3
<1>4. CASE InstallRefill(n)
  <2>1. InstallEffect(n) /\ engine[n].phase = "Complete"
    BY <1>4, InstallRefillEffect DEF InstallRefill, RefillCanComplete
  <2>2. ~ (k = n /\ w = engine[n].way)
    BY <1>1, <2>1 DEF InstallEffect, Installs, DataInv, NodeDataInv, DataFits
  <2> QED BY <1>2, <2>1, <2>2 DEF InstallEffect, OtherWays
<1>5. CASE l1' = l1
  BY <1>2, <1>5
<1> QED BY <1>3, <1>4, <1>5 DEF QuietStep, StartMiss, StartMaintenance, FinishMaintenance,
     CopybackGrant, RefillData, RefillAcknowledge, FinishWithoutInstall

\* A miss, a refill or a store: at most the newest version of a dirty copy moves on.
LEMMA QuietHomeData ==
  ASSUME TypeInv, ClusterInv, DataInv, NEW n \in RNF, CacheStep(n), QuietStep(n)
  PROVE  HomeDataInv'
<1>1. UNCHANGED <<homeVars, memoryVars, subordinateLinks, snoop, reqData>>
  BY DEF CacheStep, QuietStep, StoreHit, StartMiss, StartMaintenance, FinishMaintenance,
     CopybackGrant, RefillData, RefillAcknowledge, InstallRefill, FinishWithoutInstall,
     requesterLinks
<1>2. \A m \in acks' \ acks : ~ m.err
  <2>1. acks' = acks \/ acks' = acks \cup {CompAck(n)}
    BY DEF QuietStep, StoreHit, StartMiss, StartMaintenance, FinishMaintenance, CopybackGrant,
       RefillData, RefillAcknowledge, InstallRefill, FinishWithoutInstall, requesterLinks
  <2>2. CompAck(n).err = FALSE
    BY DEF CompAck
  <2> QED BY <2>1, <2>2
<1>3. \A line \in Lines : DirtyCopy(line) => DirtyCopy(line)'
  BY QuietKeepsDirty
<1>4. \A line : InHand(line)' <=> InHand(line)
  BY <1>1 DEF InHand, Returning, Collecting, Copyback, Snooping, VictimWrite, WritingVictim,
     SnoopAddress, homeVars, requesterRegs, lookupRegs
<1>5. Followed
  BY <1>3, <1>4, CacheFollowed
<1>6. Collecting => NoNewHolding
  <2>1. Collecting => ~ RefillData(n)
    BY DEF Collecting, RefillData, ClusterInv, RequesterSideInv, ReadDataInv, Answering
  <2> QED BY <2>1, FewerHoldings DEF ClusterInv, RequesterSideInv
<1> QED BY <1>1, <1>2, <1>3, <1>5, <1>6, BufferKept, LevelsKept DEF HomeDataInv

\* The line a copyback sends: what the cache has of it, and who else does.
LEMMA CopybackFacts ==
  ASSUME TypeInv, ClusterInv, DataInv, NEW n \in RNF, engine[n].phase = "CopybackData"
  PROVE  /\ phase = "ReceiveRequesterData" /\ Copyback /\ request.src = n
         /\ Collecting /\ engine[n].victim = request.line /\ request.line \in Lines
         /\ engine[n].way \in L1Ways
         /\ IsDirty(l1[n][engine[n].way].state) <=> IsDirty(engine[n].state)
         /\ \A w \in L1Ways : l1[n][w].line = request.line => w = engine[n].way
         /\ l1[n][engine[n].way].line \in {request.line, NoLine}
         /\ IsDirty(engine[n].state) =>
              /\ l1[n][engine[n].way].line = request.line
              /\ engine[n].data = latest[request.line]
              /\ \A k \in RNF \ {n} : ~ Holds(k, request.line)
<1>1. /\ phase = "ReceiveRequesterData" /\ Copyback /\ request.src = n
      /\ Collecting /\ engine[n].victim = request.line /\ request.line \in Lines
      /\ engine[n].way \in L1Ways
  BY CacheTypes DEF ClusterInv, RequesterSideInv, CopybackInv, Busy, Collecting, TypeInv, TypeOK,
     HomeTypeOK, Request, EngineState
<1>2. /\ engine[n].state = l1[n][engine[n].way].state
      /\ \A w \in L1Ways : l1[n][w].line = request.line => w = engine[n].way
  BY <1>1 DEF ClusterInv, L1Inv, WaysFit
<1>3. /\ l1[n][engine[n].way].line \in {request.line, NoLine}
      /\ l1[n][engine[n].way].line \in Lines \/ l1[n][engine[n].way].state = "Invalid"
  BY <1>1 DEF TypeInv, CachesHaveLines, NodeInv, WaysHaveLines, EngineHasLine
<1>4. ASSUME IsDirty(engine[n].state)
      PROVE  /\ l1[n][engine[n].way].line = request.line
             /\ engine[n].data = latest[request.line]
             /\ \A k \in RNF \ {n} : ~ Holds(k, request.line)
  <2>1. l1[n][engine[n].way].line = request.line /\ request.line # NoLine
    BY <1>1, <1>2, <1>3, <1>4, LinkAssumption DEF IsDirty
  <2>2. engine[n].data = l1[n][engine[n].way].data
    BY <1>1, <1>4 DEF DataInv, NodeDataInv, DataFits
  <2>3. HoldsUnique(n, request.line)
    BY <1>1, <1>2, <1>4, <2>1 DEF HoldsUnique, IsDirty, IsUnique
  <2> QED BY <1>1, <2>1, <2>2, <2>3 DEF DataInv, FreshInv, ClusterInv, CoherenceInv, OwnersAreAlone
<1> QED BY <1>1, <1>2, <1>3, <1>4

\* A dirty victim becomes data that returns.
LEMMA CopybackHomeData ==
  ASSUME TypeInv, ClusterInv, DataInv, NEW n \in RNF, CacheStep(n), CopybackSend(n)
  PROVE  HomeDataInv'
<1>1. UNCHANGED <<homeVars, memoryVars, subordinateLinks, snoop, latest, acks>>
  BY DEF CacheStep, CopybackSend, history
<1>2. PICK p \in Packets : CopybackSendEffect(n, p)
  BY CopybackSendEffects
<1>3. PICK version \in Versions :
        version = engine[n].data[p] /\ reqData' = reqData \cup {VictimPacket(n, p, version)}
  BY <1>2 DEF CopybackSendEffect
<1>4. /\ UNCHANGED <<phase, request, receivedData, copybackDirty, writeData, snoopVictim,
                     victimAddress, maintenanceHit>>
      /\ engine[n].phase = "CopybackData"
  BY <1>1 DEF homeVars, requesterRegs, lookupRegs, CopybackSend
<1> DEFINE line == request.line
           e == engine[n]
           m == VictimPacket(n, p, version)
<1>5. /\ m.passDirty = IsDirty(e.state) /\ m.version = version /\ m.packet = p
  BY DEF VictimPacket
<1>6. /\ phase = "ReceiveRequesterData" /\ Copyback /\ request.src = n
      /\ Collecting /\ Collecting' /\ line \in Lines /\ e.way \in L1Ways
      /\ IsDirty(l1[n][e.way].state) <=> IsDirty(e.state)
      /\ \A w \in L1Ways : l1[n][w].line = line => w = e.way
      /\ l1[n][e.way].line \in {line, NoLine}
      /\ IsDirty(e.state) =>
           /\ l1[n][e.way].line = line /\ e.data = latest[line]
           /\ \A k \in RNF \ {n} : ~ Holds(k, line)
  BY <1>4, CopybackFacts DEF Collecting, Copyback
<1>7. Returning(line)' <=> Returning(line) \/ IsDirty(e.state)
  BY <1>3, <1>4, <1>5, <1>6 DEF Returning
<1>8. \A k \in RNF \ {n}, l \in Lines : Holds(k, l)' => Holds(k, l)
  BY <1>2 DEF CopybackSendEffect, Holds, Granted, OtherEngines, OtherWays
<1>9. ReturnedDataInv'
  <2>1. \A k \in reqData' : k.passDirty => k.version = latest'[line][k.packet]
    BY <1>1, <1>3, <1>5, <1>6 DEF DataInv, ReturnedDataInv
  <2>2. copybackDirty => \A q \in receivedData : writeData[q] = latest'[line][q]
    BY <1>1, <1>6 DEF DataInv, ReturnedDataInv
  <2>3. Returning(line)' => \A k \in RNF \ {n} : ~ Holds(k, line)'
    <3>1. \A k \in RNF \ {n} : Holds(k, line)' => Holds(k, line)
      BY <1>4, <1>6, <1>8 DEF Holds, Granted
    <3>2. Returning(line) => \A k \in RNF \ {n} : ~ Holds(k, line)
      BY <1>6 DEF DataInv, ReturnedDataInv
    <3> QED BY <1>6, <1>7, <3>1, <3>2
  <2> QED BY <1>4, <1>6, <2>1, <2>2, <2>3 DEF ReturnedDataInv
<1>10. Followed
  <2>1. ASSUME NEW l \in Lines, DirtyCopy(l) \/ InHand(l)
        PROVE  DirtyCopy(l)' \/ InHand(l)'
    <3>1. CASE InHand(l)
      <4>1. l = line /\ Returning(l)
        BY <1>6, <3>1 DEF InHand, Returning, Snooping, VictimWrite, WritingVictim
      <4> QED BY <1>4, <1>7, <4>1 DEF InHand
    <3>2. CASE DirtyCopy(l)
      <4>1. PICK k \in RNF, w \in L1Ways : l1[k][w].line = l /\ IsDirty(l1[k][w].state)
        BY <3>2 DEF DirtyCopy
      <4>2. CASE k = n /\ w = e.way
        <5>1. l = line /\ IsDirty(e.state)
          BY <1>6, <4>1, <4>2, LinkAssumption
        <5> QED BY <1>4, <1>7, <5>1 DEF InHand
      <4>3. CASE ~ (k = n /\ w = e.way)
        <5>1. l1'[k][w] = l1[k][w]
          BY <1>2, <4>3 DEF CopybackSendEffect, OtherWays
        <5> QED BY <4>1, <5>1 DEF DirtyCopy
      <4> QED BY <4>2, <4>3
    <3> QED BY <2>1, <3>1, <3>2
  <2> QED BY <1>1, <2>1 DEF Followed
<1>11. BufferInv' /\ SentInv' /\ DiscardInv'
  <2>1. \A k \in RNF : ~ snoop[k].active
    BY <1>6 DEF ClusterInv, ProbeInv, ProbeInFlightInv
  <2> QED BY <1>1, <1>4, <1>6, <2>1 DEF BufferInv, SentInv, DiscardInv, Probing, Snooping
<1> QED BY <1>1, <1>9, <1>10, <1>11, LevelsKept DEF HomeDataInv

\* Looking a line up moves no data.
LEMMA AcceptHomeData ==
  ASSUME TypeInv, ClusterInv, DataInv, NEW n \in RNF, CacheStep(n), SnoopAccept(n)
  PROVE  HomeDataInv'
<1>1. UNCHANGED <<homeVars, memoryVars, subordinateLinks, latest, acks, reqData, l1, engine>>
  BY DEF CacheStep, SnoopAccept, history
<1>2. PICK m \in snps : AcceptEffect(n, m)
  BY SnoopAcceptEffect
<1>3. UNCHANGED <<phase, request, receivedData, copybackDirty, writeData, snoopVictim, lineBuffer,
                  victimAddress, maintenanceHit, maintenanceDirty, completionError, selectedSet,
                  selectedWay, dirtyLines, lineRam>>
  BY <1>1 DEF homeVars, requesterRegs, lookupRegs, directory, storage
<1>4. Followed
  BY <1>1, <1>3 DEF Followed, DirtyCopy, InHand, Returning, Collecting, Copyback, Snooping,
     VictimWrite, WritingVictim, SnoopAddress
<1>5. ReturnedDataInv' /\ BufferInv'
  BY <1>1, <1>3 DEF DataInv, ReturnedDataInv, BufferInv, Returning, Collecting, Copyback,
     Probing, Snooping, Maintenance, Merges, Selected, SnoopAddress, DirtyCopy, Holds, Granted
<1>6. SentInv' /\ DiscardInv'
  <2>1. \A k \in RNF \ {n} : snoop'[k] = snoop[k]
    BY <1>2 DEF AcceptEffect, OtherProbes
  <2>2. /\ snoop'[n].packets = {}
        /\ snoop'[n].active /\ snoop'[n].op = "SnpMakeInvalid" => ~ snoop'[n].fault
    BY <1>2 DEF AcceptEffect
  <2> QED BY <1>1, <1>3, <2>1, <2>2 DEF DataInv, SentInv, DiscardInv, Merges, Snooping, SnoopOp
<1> QED BY <1>1, <1>4, <1>5, <1>6, LevelsKept DEF HomeDataInv

\* The line a probe looks at: what the cache has of it.
LEMMA ProbeFacts ==
  ASSUME TypeInv, ClusterInv, DataInv, NEW n \in RNF, snoop[n].active
  PROVE  /\ phase = "AwaitSnoop" /\ n = expectedSnoop
         /\ snoop[n].op = SnoopOp /\ snoop[n].line = SnoopAddress /\ SnoopAddress \in Lines
         /\ snoop[n].way \in L1Ways /\ snoop[n].packets \subseteq Packets
         /\ snoop[n].hit =>
              /\ l1[n][snoop[n].way].line = SnoopAddress
              /\ l1[n][snoop[n].way].state = snoop[n].state
              /\ snoop[n].data = latest[SnoopAddress]
              /\ \A w \in L1Ways : l1[n][w].line = SnoopAddress => w = snoop[n].way
         /\ ~ snoop[n].hit => \A w \in L1Ways : l1[n][w].line # SnoopAddress
<1>1. /\ phase = "AwaitSnoop" /\ n = expectedSnoop
      /\ snoop[n].op = SnoopOp /\ snoop[n].line = SnoopAddress
  BY DEF ClusterInv, ProbeInv, ProbeInFlightInv
<1>2. /\ snoop[n].way \in L1Ways /\ snoop[n].packets \subseteq Packets
      /\ snoop[n].line \in Lines
      /\ snoop[n].hit => l1[n][snoop[n].way].line = snoop[n].line
  BY CacheTypes DEF SnoopState, TypeInv, CachesHaveLines, NodeInv, ProbeHasLine
<1>3. /\ snoop[n].hit => l1[n][snoop[n].way].state = snoop[n].state
      /\ ~ snoop[n].hit => \A w \in L1Ways : l1[n][w].line # snoop[n].line
      /\ \A v, w \in L1Ways : l1[n][v].line = l1[n][w].line /\ l1[n][v].line # NoLine => v = w
  BY DEF ClusterInv, L1Inv, LookupFits, WaysFit
<1>4. snoop[n].hit => snoop[n].data = latest[snoop[n].line]
  BY <1>2, LinkAssumption DEF DataInv, NodeDataInv, DataFits, FreshInv
<1> QED BY <1>1, <1>2, <1>3, <1>4, LinkAssumption

\* An answer takes a copy of the probed line only, which the Home has in hand; a
\* dirty copy is taken without its data only when the line is discarded.
LEMMA AnswerFollowed ==
  ASSUME TypeInv, ClusterInv, DataInv, NEW n \in RNF, CacheStep(n),
         SnoopRespond(n) \/ SnoopSendData(n)
  PROVE  /\ Followed /\ ReturnedDataInv'
         /\ UNCHANGED <<phase, request, snoopVictim, lineBuffer, victimAddress, maintenanceHit,
                        maintenanceDirty, completionError, selectedSet, selectedWay, dirtyLines,
                        lineRam, latest, homeVars, memoryVars, subordinateLinks>>
         /\ SnoopRespond(n) /\ request.op # "MakeInvalid" /\ DirtyCopy(SnoopAddress) =>
              DirtyCopy(SnoopAddress)'
         /\ OtherProbes(n)
<1>1. UNCHANGED <<homeVars, memoryVars, subordinateLinks, latest>>
  BY DEF CacheStep, SnoopRespond, SnoopSendData, history
<1>2. UNCHANGED <<phase, request, snoopVictim, lineBuffer, victimAddress, maintenanceHit,
                  maintenanceDirty, completionError, selectedSet, selectedWay, dirtyLines, lineRam>>
  BY <1>1 DEF homeVars, requesterRegs, lookupRegs, directory, storage
<1>3. snoop[n].active /\ phase = "AwaitSnoop"
  BY ProbeFacts DEF SnoopRespond, SnoopSendData
<1>4. /\ l1' = l1 \/ RetireEffect(n)
      /\ SnoopRespond(n) => RetireEffect(n)
  BY RetireSnoopEffect DEF SnoopRespond, SnoopSendData
<1>5. ASSUME NEW k \in RNF, NEW w \in L1Ways, l1'[k][w] # l1[k][w]
      PROVE  /\ k = n /\ w = snoop[n].way /\ RetireEffect(n) /\ Updates(snoop[n])
             /\ l1[k][w].line = SnoopAddress /\ l1[k][w].state = snoop[n].state
  <2>1. k = n /\ w = snoop[n].way /\ RetireEffect(n) /\ Updates(snoop[n])
    BY <1>4, <1>5 DEF RetireEffect, OtherWays
  <2> QED BY <1>3, <2>1, ProbeFacts DEF Updates
<1>6. ASSUME NEW line \in Lines, DirtyCopy(line) \/ InHand(line)
      PROVE  DirtyCopy(line)' \/ InHand(line)'
  <2>1. CASE line = SnoopAddress
    BY <1>2, <1>3, <2>1 DEF InHand, Snooping, SnoopAddress
  <2>2. CASE line # SnoopAddress
    <3>1. ~ InHand(line)
      BY <1>3, <2>2 DEF InHand, Returning, Collecting, VictimWrite, WritingVictim
    <3>2. PICK k \in RNF, w \in L1Ways : l1[k][w].line = line /\ IsDirty(l1[k][w].state)
      BY <1>6, <3>1 DEF DirtyCopy
    <3>3. l1'[k][w] = l1[k][w]
      BY <1>5, <2>2, <3>2
    <3> QED BY <3>2, <3>3 DEF DirtyCopy
  <2> QED BY <2>1, <2>2
<1>7. Followed
  BY <1>1, <1>6 DEF Followed
<1>8. ReturnedDataInv'
  BY <1>2, <1>3 DEF ReturnedDataInv, Collecting
<1>9. ASSUME SnoopRespond(n), request.op # "MakeInvalid", DirtyCopy(SnoopAddress)
      PROVE  DirtyCopy(SnoopAddress)'
  <2>1. snoop[n].op # "SnpMakeInvalid"
    BY <1>3, <1>9, ProbeFacts DEF SnoopOp, HomeSnoopOp
  <2>2. snoop[n].hit => ~ IsDirty(snoop[n].state)
    BY <1>9, <2>1 DEF SnoopRespond, DirtyHit, DiscardsDirty
  <2>3. PICK k \in RNF, w \in L1Ways : l1[k][w].line = SnoopAddress /\ IsDirty(l1[k][w].state)
    BY <1>9 DEF DirtyCopy
  <2>4. l1'[k][w] = l1[k][w]
    BY <1>5, <2>2, <2>3 DEF Updates
  <2> QED BY <1>2, <2>3, <2>4 DEF DirtyCopy, SnoopAddress
<1>10. OtherProbes(n)
  <2>1. CASE SnoopRespond(n)
    BY <2>1, SnoopRespondEffect DEF RespondEffect, RetireEffect
  <2>2. CASE SnoopSendData(n)
    BY <2>2, SnoopSendDataEffect DEF SnoopDataEffect, RetireEffect
  <2> QED BY <2>1, <2>2
<1> QED BY <1>1, <1>2, <1>7, <1>8, <1>9, <1>10

\* A probe answered without data takes nothing dirty away, except a discarded line.
LEMMA RespondHomeData ==
  ASSUME TypeInv, ClusterInv, DataInv, NEW n \in RNF, CacheStep(n), SnoopRespond(n)
  PROVE  HomeDataInv'
<1>1. /\ Followed /\ ReturnedDataInv' /\ OtherProbes(n)
      /\ UNCHANGED <<phase, request, snoopVictim, lineBuffer, victimAddress, maintenanceHit,
                     maintenanceDirty, completionError, selectedSet, selectedWay, dirtyLines,
                     lineRam, latest, homeVars, memoryVars, subordinateLinks>>
      /\ request.op # "MakeInvalid" /\ DirtyCopy(SnoopAddress) => DirtyCopy(SnoopAddress)'
  BY AnswerFollowed
<1>2. PICK a : RespondEffect(n, a)
  BY SnoopRespondEffect
<1>3. UNCHANGED reqData /\ snoop[n].active /\ snoop[n].op = SnoopOp /\ ~ snoop'[n].active
      /\ acks' = acks \cup {a} /\ a.err = snoop[n].fault
  BY <1>2, ProbeFacts DEF SnoopRespond, RespondEffect, RetireEffect
<1>4. BufferInv'
  BY <1>1, <1>3 DEF DataInv, BufferInv, Probing, Snooping, Maintenance, Merges, Selected,
     SnoopAddress
<1>5. SentInv' /\ DiscardInv'
  BY <1>1, <1>3 DEF DataInv, SentInv, DiscardInv, Merges, Snooping, SnoopOp, OtherProbes
<1> QED BY <1>1, <1>4, <1>5, LevelsKept DEF HomeDataInv

\* What has been sent is what the way has: each packet in flight once, or in the buffer.
LEMMA SendMerges ==
  ASSUME TypeInv, ClusterInv, DataInv, NEW n \in RNF, CacheStep(n), SnoopSendData(n),
         NEW d, SnoopDataEffect(n, d), NEW packets, NEW data,
         packets = snoop[n].packets \cup {d.packet}, data = snoop[n].data
  PROVE  Merges(packets, data)'
<1>1. UNCHANGED lineBuffer /\ snoop[n].active /\ DirtyHit(snoop[n])
  BY DEF CacheStep, homeVars, SnoopSendData
<1>2. /\ reqData' = reqData \cup {d} /\ d.version = snoop[n].data[d.packet]
      /\ d.packet \in Packets \ snoop[n].packets
  BY DEF SnoopDataEffect
<1>3. \A m \in reqData : m.packet \in snoop[n].packets
  BY <1>1 DEF ClusterInv, ProbeInv, ProbeProgressInv
<1>4. Merges(snoop[n].packets, snoop[n].data)
  BY <1>1 DEF DataInv, SentInv
<1> QED BY <1>1, <1>2, <1>3, <1>4 DEF Merges

\* Dirty data a probe takes away merges into the line buffer.
LEMMA SendHomeData ==
  ASSUME TypeInv, ClusterInv, DataInv, NEW n \in RNF, CacheStep(n), SnoopSendData(n)
  PROVE  HomeDataInv'
<1>1. /\ Followed /\ ReturnedDataInv' /\ OtherProbes(n)
      /\ UNCHANGED <<phase, request, snoopVictim, lineBuffer, victimAddress, maintenanceHit,
                     maintenanceDirty, completionError, selectedSet, selectedWay, dirtyLines,
                     lineRam, latest, homeVars, memoryVars, subordinateLinks>>
  BY AnswerFollowed
<1>2. PICK d : SnoopDataEffect(n, d)
  BY SnoopSendDataEffect
<1> DEFINE s == snoop[n]
           sent == s.packets \cup {d.packet}
<1>3. /\ UNCHANGED acks /\ reqData' = reqData \cup {d}
      /\ d.packet \in Packets \ s.packets /\ d.version = s.data[d.packet]
      /\ s.active /\ DirtyHit(s) /\ s.hit /\ IsDirty(s.state)
  BY <1>2 DEF SnoopSendData, SnoopDataEffect, DirtyHit
<1>4. /\ l1[n][s.way].line = SnoopAddress /\ l1[n][s.way].state = s.state /\ s.way \in L1Ways
      /\ s.data = latest[SnoopAddress]
  BY <1>3, ProbeFacts
<1>7. PICK data : data = s.data
  OBVIOUS
<1>8. PICK packets : packets = sent
  OBVIOUS
<1>9. Merges(packets, data)'
  BY <1>2, <1>7, <1>8, SendMerges
<1>10. CASE sent # Packets
  <2>1. UNCHANGED <<l1, engine>> /\ snoop'[n] = [s EXCEPT !.packets = @ \cup {d.packet}]
    BY <1>2, <1>10 DEF SnoopDataEffect
  <2>2. /\ snoop'[n].packets = packets /\ snoop'[n].data = data
        /\ snoop'[n].op = s.op /\ (snoop'[n].fault <=> s.fault)
    BY <1>7, <1>8, <2>1, CacheTypes DEF SnoopState
  <2>3. SentInv' /\ DiscardInv'
    <3>1. SentInv'
      <4>1. \A k \in RNF \ {n} : ~ snoop'[k].active
        BY <1>1, <1>3 DEF OtherProbes, ClusterInv, ProbeInv, ProbeInFlightInv
      <4>2. Merges(snoop[n].packets, snoop[n].data)'
        BY <1>9, <2>2 DEF Merges
      <4> QED BY <4>1, <4>2 DEF SentInv
    <3>2. DiscardInv'
      BY <1>1, <1>3, <2>2 DEF DataInv, DiscardInv, Snooping, SnoopOp, OtherProbes
    <3> QED BY <3>1, <3>2
  <2>4. DirtyCopy(SnoopAddress)'
    BY <1>1, <1>3, <1>4, <2>1 DEF DirtyCopy, SnoopAddress
  <2>5. BufferInv'
    BY <1>1, <2>4 DEF DataInv, BufferInv, Probing, Snooping, Maintenance, Selected
  <2> QED BY <1>1, <2>3, <2>5, LevelsKept DEF HomeDataInv
<1>11. CASE sent = Packets
  <2>1. RetireEffect(n)
    BY <1>2, <1>11 DEF SnoopDataEffect
  <2>2. SentInv' /\ DiscardInv'
    <3>1. \A k \in RNF : ~ snoop'[k].active
      BY <1>1, <1>3, <2>1 DEF RetireEffect, OtherProbes, ClusterInv, ProbeInv, ProbeInFlightInv
    <3> QED BY <1>1, <1>3, <3>1 DEF DataInv, SentInv, DiscardInv, Snooping, SnoopOp
  <2>3. Merges(Packets, latest[SnoopAddress])'
    BY <1>1, <1>4, <1>7, <1>8, <1>9, <1>11 DEF Merges, SnoopAddress
  <2>4. BufferInv'
    BY <1>1, <2>3 DEF DataInv, BufferInv, Probing, Snooping, Maintenance, Selected
  <2> QED BY <1>1, <2>2, <2>4, LevelsKept DEF HomeDataInv
<1> QED BY <1>10, <1>11

\* No step of an L1D or its engines loses the newest data or leaves an old copy.
LEMMA CacheData ==
  ASSUME TypeInv, ClusterInv, DataInv, NEW n \in RNF, CacheStep(n)
  PROVE  DataInv'
<1>1. HomeDataInv'
  BY QuietHomeData, CopybackHomeData, AcceptHomeData, RespondHomeData, SendHomeData
     DEF CacheStep, CoreStep, EngineDuty, SnoopDuty, QuietStep
<1> QED BY <1>1, CacheFreshness, CacheNodeData DEF DataInv, HomeDataInv

------------------------------------------------------------------------------
(* The uncached requesters and memory.                                      *)

\* Messages that neither carry data nor report an error leave everything as it is.
LEMMA DataStands ==
  ASSUME TypeInv, ClusterInv, DataInv,
         UNCHANGED <<homeVars, memoryVars, subordinateLinks, latest, l1, engine, snoop, reqData>>,
         compData' \subseteq compData, \A m \in acks' \ acks : ~ m.err
  PROVE  DataInv'
<1>1. UNCHANGED <<phase, request, receivedData, copybackDirty, snoopVictim, victimAddress>>
  BY DEF homeVars, requesterRegs, lookupRegs
<1>2. FreshInv' /\ NodeDataInv'
  BY <1>1 DEF DataInv, FreshInv, NodeDataInv, Granted
<1>3. \A line : DirtyCopy(line)' <=> DirtyCopy(line)
  BY DEF DirtyCopy
<1>4. Followed
  <2>1. \A line : InHand(line)' <=> InHand(line)
    BY <1>1 DEF InHand, Returning, Collecting, Copyback, Snooping, VictimWrite, WritingVictim,
       SnoopAddress, homeVars, lookupRegs
  <2> QED BY <1>3, <2>1 DEF Followed
<1>5. NoNewHolding
  BY SameHoldings DEF NoNewHolding
<1> QED BY <1>2, <1>3, <1>4, <1>5, BufferKept, LevelsKept DEF DataInv

\* An uncached requester holds nothing and returns nothing.
LEMMA UncachedData ==
  ASSUME TypeInv, ClusterInv, DataInv, NEW i \in IO, IOStep(i)
  PROVE  DataInv'
<1>1. UNCHANGED <<homeVars, memoryVars, subordinateLinks, latest, l1, engine, snoop>>
  BY DEF IOStep, IOBegin, IODuty, ReadOnce, ReadOnceData, ReadOnceAcknowledge, WriteUnique,
     WriteUniqueData, WriteUniqueCompletion, history, cacheVars
<1>2. UNCHANGED <<phase, request, receivedData, copybackDirty, snoopVictim, victimAddress>>
  BY <1>1 DEF homeVars, requesterRegs, lookupRegs
<1>3. compData' \subseteq compData
  BY DEF IOStep, IOBegin, IODuty, ReadOnce, ReadOnceData, ReadOnceAcknowledge, WriteUnique,
     WriteUniqueData, WriteUniqueCompletion
<1>4. CASE WriteUniqueData(i)
  <2>1. phase = "ReceiveRequesterData" /\ ~ Copyback
    BY <1>4 DEF WriteUniqueData, ClusterInv, RequesterSideInv, ResponsesInv, Copyback
  <2>2. FreshInv' /\ NodeDataInv'
    BY <1>1, <1>2, <1>3 DEF DataInv, FreshInv, NodeDataInv, Granted
  <2>3. \A line : DirtyCopy(line)' <=> DirtyCopy(line)
    BY <1>1 DEF DirtyCopy
  <2>4. Followed
    BY <1>1, <1>2, <2>1, <2>3 DEF Followed, InHand, Returning, Collecting, Copyback, Snooping,
       VictimWrite, WritingVictim, SnoopAddress
  <2>5. ReturnedDataInv' /\ BufferInv' /\ SentInv' /\ DiscardInv'
    BY <1>1, <1>2, <2>1 DEF ReturnedDataInv, BufferInv, SentInv, DiscardInv, Collecting, Copyback,
       Probing, Snooping, ClusterInv, ProbeInv, ProbeInFlightInv
  <2> QED BY <1>1, <2>2, <2>4, <2>5, LevelsKept DEF DataInv
<1>5. CASE ~ WriteUniqueData(i)
  <2>1. UNCHANGED reqData
    BY <1>5 DEF IOStep, IOBegin, IODuty, ReadOnce, ReadOnceData, ReadOnceAcknowledge, WriteUnique,
       WriteUniqueCompletion
  <2>2. \A m \in acks' \ acks : ~ m.err
    <3>1. acks' = acks \/ acks' = acks \cup {CompAck(i)}
      BY <1>5 DEF IOStep, IOBegin, IODuty, ReadOnce, ReadOnceData, ReadOnceAcknowledge,
         WriteUnique, WriteUniqueCompletion
    <3>2. CompAck(i).err = FALSE
      BY DEF CompAck
    <3> QED BY <3>1, <3>2
  <2> QED BY <1>1, <1>3, <2>1, <2>2, DataStands
<1> QED BY <1>4, <1>5

\* The line that is written back is the looked-up one, and it is dirty.
LEMMA WriteBackFacts ==
  ASSUME TypeInv, ClusterInv, DataInv, VictimWrite
  PROVE  /\ SnoopAddress \in Lines /\ IsEntry(SnoopAddress) /\ Selected(dirtyLines)
         /\ \A s \in Sets, w \in Ways :
              Valid(s, w, SnoopAddress) => s = selectedSet /\ w = selectedWay
<1>1. Selected(dirtyLines) /\ IsEntry(SnoopAddress)
  BY DEF DataInv, WriteBackInv, ClusterInv, DirectoryInv, SelectedInv, RequesterSideInv, PhaseFits,
     SnoopAddress
<1>2. selectedSet \in Sets /\ selectedWay \in Ways
  BY DEF TypeInv, TypeOK, HomeTypeOK
<1>3. SnoopAddress \in Lines
  BY <1>1, <1>2 DEF IsEntry, Selected, TypeInv, ValidWaysHaveTags
<1> QED BY <1>1, <1>2, <1>3 DEF IsEntry, Selected, Valid, ClusterInv, DirectoryInv, EntriesInv

\* Memory is written from the line buffer, and only where a dirty entry stands above.
LEMMA MemoryData ==
  ASSUME TypeInv, ClusterInv, DataInv, MemoryStep
  PROVE  DataInv'
<1>1. UNCHANGED <<homeVars, requesterLinks, latest, l1, engine, snoop>>
  BY DEF MemoryStep, ReadMemory, AcceptWrite, WriteMemory, CompleteWrite, history, cacheVars
<1>2. UNCHANGED <<phase, request, receivedData, copybackDirty, writeData, selectedSet, selectedWay,
                  lineBuffer, victimAddress, snoopVictim, maintenanceHit, maintenanceDirty,
                  receivedFill, completionError, validLines, dirtyLines, tags, lineRam,
                  acks, compData, reqData>>
  BY <1>1 DEF homeVars, requesterRegs, lookupRegs, backingRegs, directory, storage, requesterLinks
<1>3. /\ FreshInv' /\ NodeDataInv' /\ ReturnedDataInv'
      /\ BufferInv' /\ SentInv' /\ DiscardInv' /\ WriteBackInv'
  BY <1>1, <1>2 DEF DataInv, FreshInv, NodeDataInv, ReturnedDataInv, BufferInv, SentInv,
     DiscardInv, WriteBackInv, Granted, Collecting, Copyback, Returning, Holds, Probing, Snooping,
     Maintenance, DirtyCopy, Merges, Selected, SnoopAddress, SnoopOp, VictimWrite, WritingVictim
<1>4. /\ \A line : DirtyCopy(line)' <=> DirtyCopy(line)
      /\ \A line : InHand(line)' <=> InHand(line)
      /\ \A line : NoEntry(line)' <=> NoEntry(line)
  BY <1>1, <1>2 DEF DirtyCopy, InHand, Returning, Collecting, Copyback, Snooping, VictimWrite,
     WritingVictim, SnoopAddress, NoEntry, Valid
<1>5. /\ PacketCount \in Nat /\ memory \in [Lines -> LineData] /\ lineBuffer \in LineData
      /\ request.line \in Lines
      /\ memWrite.error \in {"none", "DBIDResp", "Comp"}
      /\ \A m \in memData : m.packet \in Packets
  BY LinkAssumption
     DEF TypeInv, TypeOK, MemoryTypeOK, HomeTypeOK, Request, LinksTypeOK, MemPacket
<1>6. ASSUME UNCHANGED memory
      PROVE  AnswerDataInv' /\ LevelsInv'
  BY <1>1, <1>2, <1>4, <1>6 DEF DataInv, AnswerDataInv, LevelsInv, Selected
<1>7. CASE ReadMemory
  <2>1. PICK m \in memReqs, bad \in SUBSET Packets :
          /\ m.op = "ReadNoSnp" /\ memReqs' = memReqs \ {m}
          /\ fillData' = fillData \cup
               {[packet |-> p, version |-> memory[m.line][p], err |-> p \in bad] : p \in Packets}
    BY <1>7 DEF ReadMemory
  <2>2. UNCHANGED <<memory, memWrite, memRsps, memData>>
    BY <1>7 DEF ReadMemory, memoryVars
  <2>3. fillData = {} /\ receivedFill = {} /\ m.line = request.line
    BY <2>1 DEF ClusterInv, MemorySideInv, FillInv, DataInv, WriteDataFits
  <2>4. FillDataInv'
    BY <1>2, <2>1, <2>2, <2>3 DEF FillDataInv
  <2>5. WriteDataFits'
    BY <1>2, <2>1, <2>2 DEF DataInv, WriteDataFits, SnoopAddress
  <2> QED BY <1>3, <1>6, <2>2, <2>4, <2>5 DEF DataInv
<1>8. CASE AcceptWrite
  <2>1. PICK m \in memReqs, error \in WriteErrors :
          /\ m.op = "WriteNoSnpFull" /\ memReqs' = memReqs \ {m}
          /\ memWrite' = [active |-> TRUE, line |-> m.line, packets |-> {}, error |-> error]
          /\ memRsps' = memRsps \cup {[op |-> "DBIDResp", err |-> error = "DBIDResp"]}
    BY <1>8 DEF AcceptWrite
  <2>2. UNCHANGED <<memory, fillData, memData>>
    BY <1>8 DEF AcceptWrite
  <2>3. phase = "AwaitVictimDBID" /\ m.line = SnoopAddress
    BY <2>1 DEF ClusterInv, MemorySideInv, VictimWriteInv, DataInv, WriteDataFits
  <2>4. error # "none" => "write" \in Faults
    BY <2>1 DEF WriteErrors
  <2>5. WriteDataFits'
    <3>1. PICK r : r = [op |-> "DBIDResp", err |-> error = "DBIDResp"]
      OBVIOUS
    <3>2. memRsps' = memRsps \cup {r} /\ (r.err <=> error = "DBIDResp")
      BY <2>1, <3>1
    <3>3. /\ memWrite'.active /\ memWrite'.line = m.line /\ memWrite'.packets = {}
          /\ memWrite'.error = error /\ memReqs' = memReqs \ {m}
      BY <2>1
    <3> QED BY <1>2, <2>2, <2>3, <2>4, <3>2, <3>3 DEF DataInv, WriteDataFits, SnoopAddress
  <2>6. FillDataInv'
    BY <1>2, <2>3 DEF FillDataInv
  <2> QED BY <1>3, <1>6, <2>2, <2>5, <2>6 DEF DataInv
<1>9. CASE WriteMemory
  <2>1. PICK m \in memData :
          /\ memData' = memData \ {m}
          /\ memWrite' = [memWrite EXCEPT !.packets = @ \cup {m.packet}]
          /\ memory' = IF memWrite.error = "none"
                       THEN [memory EXCEPT ![memWrite.line][m.packet] = m.version] ELSE memory
    BY <1>9 DEF WriteMemory
  <2>2. memWrite.active /\ UNCHANGED <<memReqs, memRsps, fillData>>
    BY <1>9 DEF WriteMemory
  <2>3. /\ WritingVictim /\ VictimWrite /\ memWrite.line = SnoopAddress
        /\ m.version = lineBuffer[m.packet]
    BY <2>1, <2>2 DEF ClusterInv, MemorySideInv, VictimWriteInv, DataInv, WriteDataFits, VictimWrite
  <2>4. /\ memWrite'.active /\ memWrite'.line = memWrite.line /\ memWrite'.error = memWrite.error
        /\ memWrite'.packets = memWrite.packets \cup {m.packet}
    BY <2>1, <2>2 DEF TypeInv, TypeOK, MemoryTypeOK
  <2>5. SnoopAddress \in Lines /\ m.packet \in Packets
    BY <1>5, <2>3, WriteBackFacts
  <2>6. \A line \in Lines \ {SnoopAddress} : memory'[line] = memory[line]
    BY <1>5, <2>1, <2>3, <2>5
  <2>7. memWrite.error = "none" =>
          \A p \in memWrite'.packets : memory'[SnoopAddress][p] = lineBuffer[p]
    BY <1>5, <2>1, <2>2, <2>3, <2>4, <2>5 DEF DataInv, WriteDataFits, LineData
  <2>8. WriteDataFits'
    BY <1>2, <2>1, <2>2, <2>3, <2>4, <2>7 DEF DataInv, WriteDataFits, SnoopAddress
  <2>9. FillDataInv' /\ AnswerDataInv'
    BY <1>2, <2>3, <1>1 DEF FillDataInv, AnswerDataInv, WritingVictim, DataInv
  <2>10. LevelsInv'
    <3>1. ~ NoEntry(SnoopAddress)
      BY <2>3, WriteBackFacts DEF NoEntry, IsEntry, Valid, Selected, TypeInv, TypeOK, HomeTypeOK
    <3>2. \A s \in Sets, w \in Ways : validLines[s][w] /\ ~ dirtyLines[s][w] =>
            tags[s][w] \in Lines \ {SnoopAddress}
      BY <2>3, WriteBackFacts DEF Valid, Selected, TypeInv, ValidWaysHaveTags
    <3> QED BY <1>1, <1>2, <1>4, <2>6, <3>1, <3>2 DEF DataInv, LevelsInv
  <2> QED BY <1>3, <2>8, <2>9, <2>10 DEF DataInv
<1>10. CASE CompleteWrite
  <2>0. PICK r : r = [op |-> "Comp", err |-> memWrite.error = "Comp"]
    OBVIOUS
  <2>1. /\ memWrite.active /\ memWrite.packets = Packets
        /\ memRsps' = memRsps \cup {r} /\ (r.err <=> memWrite.error = "Comp")
        /\ ~ memWrite'.active
        /\ UNCHANGED <<memReqs, fillData, memData, memory>>
    BY <1>10, <2>0 DEF CompleteWrite, IdleWrite
  <2>2. WritingVictim /\ VictimWrite
    BY <2>1 DEF ClusterInv, MemorySideInv, VictimWriteInv, VictimWrite
  <2>3. ASSUME phase = "AwaitVictimCompletion", ~ completionError, \A m \in memRsps' : ~ m.err
        PROVE  memory[SnoopAddress] = lineBuffer
    <3>1. memWrite.error = "none"
      BY <1>5, <2>1, <2>3 DEF DataInv, WriteDataFits
    <3>2. \A p \in Packets : memory[SnoopAddress][p] = lineBuffer[p]
      BY <2>1, <3>1 DEF DataInv, WriteDataFits
    <3>3. SnoopAddress \in Lines
      BY <2>2, WriteBackFacts
    <3> QED BY <1>5, <3>2, <3>3 DEF LineData
  <2>4. WriteDataFits'
    BY <1>2, <2>1, <2>3 DEF DataInv, WriteDataFits, SnoopAddress
  <2>5. FillDataInv'
    BY <1>2, <2>2 DEF FillDataInv, WritingVictim
  <2> QED BY <1>3, <1>6, <2>1, <2>4, <2>5 DEF DataInv
<1> QED BY <1>7, <1>8, <1>9, <1>10 DEF MemoryStep

------------------------------------------------------------------------------
(* The Home: the parts that do not concern its next phase.                  *)

\* Where the Home waits for memory.
MemoryPhases == {"AwaitVictimDBID", "SendVictimData", "AwaitVictimCompletion", "ReceiveFillData"}

\* Most parts say nothing in most phases.
LEMMA Elsewhere ==
  ASSUME TypeInv', ClusterInv'
  PROVE  /\ phase' \notin MemoryPhases => WriteDataFits'
         /\ phase' # "ReceiveFillData" => FillDataInv'
         /\ phase' \notin MemoryPhases \cup {"SendVictimWriteRequest"} => WriteBackInv'
         /\ phase' # "AwaitSnoop" => SentInv'
         /\ phase' \notin {"SendSnoop", "AwaitSnoop", "AfterSnoops"} => BufferInv'
         /\ phase' \notin {"SendSnoop", "AwaitSnoop", "AfterSnoops", "Lookup",
                           "FinishMaintenance"} => DiscardInv'
         /\ phase' \notin {"ReceiveRequesterData", "Lookup", "FinishCopyBack"} => ReturnedDataInv'
         /\ phase' \notin {"SendCachedData", "MergeRequesterData", "FinishMaintenance"} =>
              AnswerDataInv'
<1>1. phase' \notin MemoryPhases =>
        /\ memReqs' = {} /\ memRsps' = {} /\ memData' = {} /\ ~ memWrite'.active
        /\ WriteDataFits'
  <2> SUFFICES ASSUME phase' \notin MemoryPhases
               PROVE  /\ memReqs' = {} /\ memRsps' = {} /\ memData' = {} /\ ~ memWrite'.active
                      /\ WriteDataFits'
    OBVIOUS
  <2>1. memReqs' \subseteq MemRequest
    BY DEF TypeInv, TypeOK, LinksTypeOK
  <2>2. \A m \in memReqs' : m.op = "ReadNoSnp" \/ m.op = "WriteNoSnpFull"
    BY <2>1 DEF MemRequest
  <2>3. memReqs' = {} /\ memRsps' = {} /\ memData' = {} /\ ~ memWrite'.active
    BY <2>2 DEF ClusterInv, MemorySideInv, FillInv, VictimWriteInv, MemoryPhases, WritingVictim
  <2> QED BY <2>3 DEF WriteDataFits, MemoryPhases
<1>2. phase' # "AwaitSnoop" => \A n \in RNF : ~ snoop'[n].active
  BY DEF ClusterInv, ProbeInv, ProbeInFlightInv
<1>3. phase' # "AwaitSnoop" => SentInv'
  BY <1>2 DEF SentInv
<1>4. phase' \notin {"SendSnoop", "AwaitSnoop", "AfterSnoops", "Lookup", "FinishMaintenance"} =>
        DiscardInv'
  BY <1>2 DEF DiscardInv, Snooping
<1> QED BY <1>1, <1>3, <1>4 DEF FillDataInv, WriteBackInv, VictimWrite, WritingVictim, BufferInv,
           Probing, Snooping, ReturnedDataInv, Collecting, AnswerDataInv, MemoryPhases

\* The caches and memory stand still while the Home moves.
LEMMA HomeLeaves ==
  ASSUME DataInv, UNCHANGED <<cacheVars, memoryVars>>
  PROVE  /\ UNCHANGED <<l1, engine, snoop, memory, memWrite>> /\ NodeDataInv'
         /\ \A line : DirtyCopy(line)' <=> DirtyCopy(line)
         /\ \A n, line : Holds(n, line)' <=> Holds(n, line)
<1>1. UNCHANGED <<l1, engine, snoop, memory, memWrite>>
  BY DEF cacheVars, memoryVars
<1> QED BY <1>1, SameHoldings DEF DataInv, NodeDataInv, DirtyCopy

\* Nothing new is sent to a requester.
LEMMA FreshStays ==
  ASSUME DataInv, UNCHANGED <<cacheVars, memoryVars, latest>>,
         compData' \subseteq compData, compData' = {} \/ request' = request
  PROVE  FreshInv'
BY HomeLeaves DEF DataInv, FreshInv, Granted

\* The levels stay, and the Home keeps what it has in hand.
LEMMA LevelsStay ==
  ASSUME DataInv, TypeInv, UNCHANGED <<cacheVars, memoryVars, latest>>,
         UNCHANGED <<validLines, dirtyLines, tags, lineRam>>,
         \A line \in Lines : InHand(line) => InHand(line)'
  PROVE  LevelsInv'
BY HomeLeaves DEF DataInv, LevelsInv, NoEntry, Valid, TypeInv, ValidWaysHaveTags

------------------------------------------------------------------------------
(* The Home: requests, answers and the issue of probes.                     *)

\* A step of the Home that orders nothing.
HomeAlone ==
  /\ TypeInv /\ ClusterInv /\ DataInv /\ TypeInv' /\ ClusterInv'
  /\ UNCHANGED <<cacheVars, memoryVars, latest>>

\* A new transaction begins with nothing collected and no error.
LEMMA AcceptData ==
  ASSUME HomeAlone, HomeAcceptRequest
  PROVE  DataInv'
<1>1. /\ phase = "Idle" /\ ~ completionError' /\ UNCHANGED <<compData, snoop>>
      /\ phase' = IF IsWrite(request'.op) THEN "SendRequesterDBID" ELSE "Lookup"
      /\ UNCHANGED <<validLines, dirtyLines, tags, lineRam>>
  BY DEF HomeAlone, HomeAcceptRequest, cacheVars, directory, storage
<1>2. compData = {}
  BY <1>1 DEF HomeAlone, ClusterInv, RequesterSideInv, ReadDataInv, Answering
<1>3. FreshInv'
  BY <1>1, <1>2, FreshStays DEF HomeAlone
<1>4. LevelsInv'
  BY <1>1, LevelsStay DEF HomeAlone, InHand, Returning, Collecting, Snooping, VictimWrite,
     WritingVictim
<1>5. ReturnedDataInv' /\ DiscardInv'
  BY <1>1 DEF HomeAlone, DataInv, ReturnedDataInv, DiscardInv, Collecting, Copyback, IsWrite,
     Snooping
<1> QED BY <1>1, <1>3, <1>4, <1>5, Elsewhere, HomeLeaves DEF HomeAlone, DataInv, MemoryPhases

\* A write may send its data.
LEMMA GrantData ==
  ASSUME HomeAlone, HomeSendDBID
  PROVE  DataInv'
<1>1. /\ phase = "SendRequesterDBID" /\ phase' = "ReceiveRequesterData"
      /\ UNCHANGED <<compData, reqData, request, receivedData, validLines, dirtyLines, tags,
                     lineRam>>
  BY DEF HomeSendDBID, requesterRegs, directory, storage
<1>2. receivedData = {} /\ reqData = {}
  BY <1>1 DEF HomeAlone, ClusterInv, RequesterSideInv, WriteDataInv
<1>3. ReturnedDataInv'
  BY <1>1, <1>2 DEF ReturnedDataInv, Returning
<1>4. LevelsInv'
  BY <1>1, LevelsStay DEF HomeAlone, InHand, Returning, Collecting, Snooping, VictimWrite,
     WritingVictim
<1> QED BY <1>1, <1>3, <1>4, FreshStays, Elsewhere, HomeLeaves DEF HomeAlone, DataInv, MemoryPhases

\* The Home lets go of a line only when nothing of it is in hand.
LEMMA CompleteData ==
  ASSUME HomeAlone, HomeSendCompletion \/ HomeCompAck
  PROVE  DataInv'
<1>1. /\ phase \in {"SendRequesterCompletion", "AwaitCompAck"} /\ phase' = "Idle"
      /\ UNCHANGED <<compData, request, validLines, dirtyLines, tags, lineRam>>
  BY DEF HomeSendCompletion, HomeCompAck, requesterRegs, directory, storage
<1>2. LevelsInv'
  BY <1>1, LevelsStay DEF HomeAlone, InHand, Returning, Collecting, Snooping, VictimWrite,
     WritingVictim
<1> QED BY <1>1, <1>2, FreshStays, Elsewhere, HomeLeaves DEF HomeAlone, DataInv, MemoryPhases

\* A refill is answered from the line buffer.
LEMMA SendCachedDataData ==
  ASSUME HomeAlone, HomeSendCachedData
  PROVE  DataInv'
<1>1. /\ phase = "SendCachedData" /\ phase' \in {"AwaitCompAck", "SendCachedData"}
      /\ UNCHANGED <<request, lineBuffer, completionError, validLines, dirtyLines, tags, lineRam>>
  BY DEF HomeSendCachedData, requesterRegs, directory, storage
<1>2. PICK d : /\ compData' = compData \cup {d} /\ d.dst = request.src
               /\ d.version = lineBuffer[d.packet] /\ (d.err <=> completionError)
  <2>1. PICK d : d = [dst |-> request.src, packet |-> Min(remainingResponse),
                      version |-> lineBuffer[Min(remainingResponse)],
                      state |-> GrantedState, err |-> completionError]
    OBVIOUS
  <2>2. compData' = compData \cup {d}
    BY <2>1 DEF HomeSendCachedData
  <2> QED BY <2>1, <2>2
<1>3. request.src \in RNF => request.op \in RefillOps
  BY <1>1, LinkAssumption DEF HomeAlone, ClusterInv, RequesterSideInv, PhaseFits, Busy,
     Answering, Proper
<1>4. FreshInv'
  BY <1>1, <1>2, <1>3, HomeLeaves DEF HomeAlone, DataInv, FreshInv, Granted, AnswerDataInv
<1>5. AnswerDataInv'
  BY <1>1 DEF HomeAlone, DataInv, AnswerDataInv
<1>6. LevelsInv'
  BY <1>1, LevelsStay DEF HomeAlone, InHand, Returning, Collecting, Snooping, VictimWrite,
     WritingVictim
<1> QED BY <1>1, <1>4, <1>5, <1>6, Elsewhere, HomeLeaves DEF HomeAlone, DataInv, MemoryPhases

\* While the Home goes from one responder to the next the buffer stays as it is.
LEMMA SendSnoopData ==
  ASSUME HomeAlone, HomeSendSnoop \/ HomeSnoopsDone
  PROVE  DataInv'
<1>1. /\ phase = "SendSnoop" /\ phase' \in {"AwaitSnoop", "AfterSnoops"}
      /\ UNCHANGED <<compData, reqData, acks, request, lineBuffer, maintenanceDirty,
                     completionError,
                     selectedSet, selectedWay, victimAddress, snoopVictim, maintenanceHit,
                     validLines, dirtyLines, tags, lineRam>>
  BY DEF HomeSendSnoop, HomeSnoopsDone, requesterRegs, directory, storage, lookupRegs,
         requesterLinks
<1>2. acks = {} /\ \A n \in RNF : ~ snoop[n].active
  BY <1>1 DEF HomeAlone, ClusterInv, RequesterSideInv, ReadDataInv, ProbeInv, ProbeInFlightInv
<1>3. BufferInv'
  BY <1>1, HomeLeaves DEF HomeAlone, DataInv, BufferInv, Probing, Snooping, Maintenance, Merges,
     Selected, SnoopAddress
<1>4. SentInv' /\ DiscardInv'
  BY <1>1, <1>2, HomeLeaves DEF HomeAlone, DataInv, SentInv, DiscardInv, Snooping
<1>5. LevelsInv'
  BY <1>1, LevelsStay DEF HomeAlone, InHand, Returning, Collecting, Snooping, VictimWrite,
     WritingVictim, SnoopAddress
<1> QED BY <1>1, <1>3, <1>4, <1>5, FreshStays, Elsewhere, HomeLeaves
        DEF HomeAlone, DataInv, MemoryPhases

------------------------------------------------------------------------------
(* The Home: writing a line back.                                           *)

\* The Home asks memory for the line of the request, or writes back the buffer.
LEMMA MemRequestData ==
  ASSUME HomeAlone, HomeSendMemRequest
  PROVE  DataInv'
<1>1. UNCHANGED <<compData, request, lineBuffer, completionError, memRsps, fillData, memData,
                  selectedSet, selectedWay, victimAddress, snoopVictim, maintenanceHit,
                  validLines, dirtyLines, tags, lineRam>>
  BY DEF HomeSendMemRequest, requesterRegs, directory, storage, lookupRegs, requesterLinks
<1>2. LevelsInv'
  <2>1. \A line \in Lines : InHand(line) => InHand(line)'
    BY <1>1 DEF HomeSendMemRequest, InHand, Returning, Collecting, Snooping, VictimWrite,
       WritingVictim, SnoopAddress
  <2> QED BY <1>1, <2>1, LevelsStay DEF HomeAlone
<1>3. CASE phase = "SendVictimWriteRequest"
  <2>1. /\ phase' = "AwaitVictimDBID" /\ VictimWrite
        /\ memReqs' = memReqs \cup {[op |-> "WriteNoSnpFull", line |-> WriteBackLine]}
    BY <1>3 DEF HomeSendMemRequest, VictimWrite
  <2>2. WriteBackLine = SnoopAddress
    BY <2>1 DEF HomeAlone, ClusterInv, RequesterSideInv, PhaseFits, WriteBackLine, SnoopAddress
  <2>3. WriteDataFits'
    BY <1>1, <2>1, <2>2, HomeLeaves DEF HomeAlone, DataInv, WriteDataFits, SnoopAddress
  <2>4. WriteBackInv'
    BY <1>1, <2>1, HomeLeaves DEF HomeAlone, DataInv, WriteBackInv, VictimWrite, WritingVictim,
       Maintenance,
       Selected, SnoopAddress
  <2> QED BY <1>1, <1>2, <2>1, <2>3, <2>4, FreshStays, Elsewhere, HomeLeaves
             DEF HomeAlone, DataInv, MemoryPhases
<1>4. CASE phase = "SendFillRequest"
  <2>1. /\ phase' = "ReceiveFillData" /\ receivedFill' = {}
        /\ memReqs' = memReqs \cup {[op |-> "ReadNoSnp", line |-> request.line]}
    BY <1>4 DEF HomeSendMemRequest
  <2>2. fillData = {}
    BY <1>4 DEF HomeAlone, ClusterInv, MemorySideInv, FillInv
  <2>3. WriteDataFits' /\ FillDataInv'
    BY <1>1, <2>1, <2>2, HomeLeaves DEF HomeAlone, DataInv, WriteDataFits, FillDataInv, SnoopAddress
  <2>4. WriteBackInv'
    BY <2>1 DEF WriteBackInv, VictimWrite, WritingVictim
  <2> QED BY <1>1, <1>2, <2>1, <2>3, <2>4, FreshStays, Elsewhere, HomeLeaves DEF HomeAlone, DataInv
<1> QED BY <1>3, <1>4 DEF HomeSendMemRequest

\* The data of a write back is the buffer, packet by packet.
LEMMA VictimWriteData ==
  ASSUME HomeAlone, HomeVictimDBID \/ HomeSendVictimData
  PROVE  DataInv'
<1>1. UNCHANGED <<compData, request, lineBuffer, memReqs, fillData,
                  selectedSet, selectedWay, victimAddress, snoopVictim, maintenanceHit,
                  validLines, dirtyLines, tags, lineRam>>
  BY DEF HomeVictimDBID, HomeSendVictimData, requesterRegs, directory, storage, lookupRegs,
     requesterLinks
<1>2. /\ phase \in {"AwaitVictimDBID", "SendVictimData"}
      /\ phase' \in {"SendVictimData", "AwaitVictimCompletion"}
      /\ VictimWrite /\ VictimWrite'
  BY DEF HomeVictimDBID, HomeSendVictimData, VictimWrite, WritingVictim
<1>3. LevelsInv'
  BY <1>1, <1>2, LevelsStay DEF HomeAlone, InHand, Returning, Collecting, Snooping, SnoopAddress
<1>4. CASE HomeVictimDBID
  <2>1. PICK m \in memRsps :
          memRsps' = memRsps \ {m} /\ (completionError' <=> completionError \/ m.err)
    BY <1>4 DEF HomeVictimDBID, NoteError
  <2>2. UNCHANGED memData /\ phase' = "SendVictimData"
    BY <1>4 DEF HomeVictimDBID
  <2>3. WriteDataFits'
    BY <1>1, <2>1, <2>2, HomeLeaves DEF HomeAlone, DataInv, WriteDataFits, SnoopAddress
  <2>4. WriteBackInv'
    BY <1>1, <1>2, <2>1, HomeLeaves DEF HomeAlone, DataInv, WriteBackInv, WriteDataFits,
       Maintenance,
       Selected, SnoopAddress
  <2> QED BY <1>1, <1>2, <1>3, <2>3, <2>4, FreshStays, Elsewhere, HomeLeaves
             DEF HomeAlone, DataInv, MemoryPhases
<1>5. CASE HomeSendVictimData
  <2>1. /\ memData' = memData \cup {[packet |-> victimBeat, version |-> lineBuffer[victimBeat]]}
        /\ UNCHANGED <<memRsps, completionError>> /\ phase = "SendVictimData"
    BY <1>5 DEF HomeSendVictimData
  <2>2. memWrite.active
    BY <2>1 DEF HomeAlone, ClusterInv, MemorySideInv, VictimWriteInv
  <2>3. WriteDataFits'
    BY <1>1, <2>1, <2>2, HomeLeaves DEF HomeAlone, DataInv, WriteDataFits, SnoopAddress
  <2>4. WriteBackInv'
    BY <1>1, <1>2, <2>1, HomeLeaves DEF HomeAlone, DataInv, WriteBackInv, Maintenance,
       Selected, SnoopAddress
  <2> QED BY <1>1, <1>2, <1>3, <2>3, <2>4, FreshStays, Elsewhere, HomeLeaves
             DEF HomeAlone, DataInv, MemoryPhases
<1> QED BY <1>4, <1>5

------------------------------------------------------------------------------
(* The Home: a copyback and the lookup.                                     *)

\* The data of a copyback is all dirty or all clean.
LEMMA ReceiveDataData ==
  ASSUME HomeAlone, HomeReceiveData
  PROVE  DataInv'
<1>1. /\ phase = "ReceiveRequesterData" /\ phase' \in {"ReceiveRequesterData", "Lookup"}
      /\ UNCHANGED <<compData, request, maintenanceHit, completionError, validLines, dirtyLines,
                     tags, lineRam, snoop, latest, l1, engine>>
  BY DEF HomeAlone, HomeReceiveData, directory, storage, lookupRegs, cacheVars
<1>2. PICK m \in reqData :
        /\ reqData' = reqData \ {m} /\ copybackDirty' = m.passDirty
        /\ writeData' = [writeData EXCEPT ![m.packet] = m.version]
        /\ receivedData' = receivedData \cup {m.packet}
        /\ phase' = "Lookup" => receivedData' = request.packets
  BY DEF HomeReceiveData
<1>3. /\ m.packet \in request.packets \ receivedData /\ m.packet \in Packets
      /\ \A p \in receivedData : p \in Packets
      /\ Copyback => /\ receivedData # {} => m.passDirty = copybackDirty
                     /\ \A k \in reqData : k.passDirty = m.passDirty
                     /\ request.packets = Packets
      /\ writeData \in [Packets -> Versions] /\ m.passDirty \in BOOLEAN
  BY <1>1 DEF HomeAlone, ClusterInv, RequesterSideInv, WriteDataInv, TypeInv, TypeOK, LinksTypeOK,
     RequesterData, HomeTypeOK, LineData, PhaseFits, Busy, Proper, Copyback
<1>4. Returning(request.line) <=> Returning(request.line)'
  BY <1>1, <1>2, <1>3 DEF Returning, Collecting, Copyback
<1>5. ReturnedDataInv'
  <2> SUFFICES ASSUME Collecting' PROVE ReturnedDataInv'
    BY DEF ReturnedDataInv
  <2>1. Collecting /\ Copyback
    BY <1>1 DEF Collecting, Copyback
  <2>2. \A k \in reqData' : k.passDirty => k.version = latest'[request.line][k.packet]
    BY <1>1, <1>2, <2>1 DEF HomeAlone, DataInv, ReturnedDataInv
  <2>3. copybackDirty' => \A p \in receivedData' : writeData'[p] = latest'[request.line][p]
    <3> SUFFICES ASSUME copybackDirty', NEW p \in receivedData'
                 PROVE  writeData'[p] = latest'[request.line][p]
      OBVIOUS
    <3>1. CASE p = m.packet
      BY <1>1, <1>2, <1>3, <2>1, <3>1 DEF HomeAlone, DataInv, ReturnedDataInv
    <3>2. CASE p # m.packet
      <4>1. p \in receivedData /\ copybackDirty
        BY <1>2, <1>3, <2>1, <3>2
      <4> QED BY <1>1, <1>2, <1>3, <2>1, <3>2, <4>1 DEF HomeAlone, DataInv, ReturnedDataInv
    <3> QED BY <3>1, <3>2
  <2>4. phase' # "ReceiveRequesterData" => receivedData' = Packets
    BY <1>1, <1>2, <1>3, <2>1
  <2>5. Returning(request.line)' => \A n \in RNF \ {request.src} : ~ Holds(n, request.line)'
    BY <1>1, <1>4, <2>1 DEF HomeAlone, DataInv, ReturnedDataInv, Holds, Granted
  <2> QED BY <1>1, <2>2, <2>3, <2>4, <2>5 DEF ReturnedDataInv
<1>6. LevelsInv'
  <2>1. \A line \in Lines : InHand(line) => InHand(line)'
    <3> SUFFICES ASSUME NEW line \in Lines, InHand(line) PROVE InHand(line)'
      OBVIOUS
    <3>1. Returning(line) /\ line = request.line
      BY <1>1 DEF InHand, Snooping, VictimWrite, WritingVictim, Returning
    <3> QED BY <1>1, <1>4, <3>1 DEF InHand
  <2> QED BY <1>1, <2>1, LevelsStay DEF HomeAlone
<1>7. DiscardInv'
  <2>1. IsWrite(request.op)
    BY <1>1 DEF HomeAlone, ClusterInv, RequesterSideInv, PhaseFits
  <2> QED BY <1>1, <2>1 DEF HomeAlone, DataInv, DiscardInv, Snooping, IsWrite
<1> QED BY <1>1, <1>5, <1>6, <1>7, FreshStays, Elsewhere, HomeLeaves
        DEF HomeAlone, DataInv, MemoryPhases

\* The buffer gets the entry's data, which is newest unless a cache has it dirty.
LEMMA LookupData ==
  ASSUME HomeAlone, HomeLookup
  PROVE  DataInv'
<1>1. /\ phase = "Lookup" /\ phase' \in {"FinishCopyBack", "SendSnoop", "SendFillRequest"}
      /\ (phase' = "FinishCopyBack" <=> Copyback)
      /\ UNCHANGED <<reqs, compData, reqData, acks, request, receivedData, copybackDirty, writeData,
                     completionError, validLines, dirtyLines, tags, lineRam, snoop, latest, l1,
                     engine>>
      /\ selectedSet' = RequestSet /\ selectedWay' = LookupWay
      /\ lineBuffer' = lineRam[RequestSet][LookupWay]
      /\ victimAddress' = tags[RequestSet][AllocationWay]
      /\ (snoopVictim' <=> ~ LookupHit /\ ~ Maintenance)
      /\ (maintenanceHit' <=> LookupHit)
      /\ (maintenanceDirty' <=> LookupHit /\ dirtyLines[RequestSet][LookupWay])
      /\ phase' = "SendSnoop" => LookupHit \/ Maintenance \/ validLines[RequestSet][AllocationWay]
  BY DEF HomeAlone, HomeLookup, requesterRegs, directory, storage, cacheVars, requesterLinks
<1>2. /\ LookupHit => /\ validLines[RequestSet][LookupWay]
                      /\ tags[RequestSet][LookupWay] = request.line
      /\ ~ LookupHit => NoEntry(request.line) /\ LookupWay = AllocationWay
  BY LookupChoice DEF HomeAlone, ClusterInv, DirectoryInv
<1>3. RequestSet \in Sets /\ LookupWay \in Ways /\ request.line \in Lines
  BY LookupType DEF HomeAlone, TypeInv, TypeOK, HomeTypeOK, Request
<1>4. ReturnedDataInv'
  <2> SUFFICES ASSUME Collecting' PROVE ReturnedDataInv'
    BY DEF ReturnedDataInv
  <2>1. Collecting /\ Copyback /\ phase' = "FinishCopyBack"
    BY <1>1 DEF Collecting, Copyback
  <2>2. receivedData = Packets /\ receivedData # {}
    BY <1>1, <2>1 DEF HomeAlone, DataInv, ReturnedDataInv, ClusterInv, RequesterSideInv,
       WriteDataInv
  <2>3. copybackDirty => LookupHit
    BY <1>1, <1>2, <2>1, <2>2 DEF HomeAlone, ClusterInv, CoherenceInv, ReturnedInv
  <2>4. Returning(request.line)' <=> Returning(request.line)
    BY <1>1, <2>1 DEF Returning, Collecting, Copyback
  <2> QED BY <1>1, <2>1, <2>2, <2>3, <2>4 DEF HomeAlone, DataInv, ReturnedDataInv, Holds, Granted
<1>5. LevelsInv'
  <2>1. \A line \in Lines : InHand(line) => InHand(line)'
    BY <1>1 DEF InHand, Snooping, VictimWrite, WritingVictim, Returning, Collecting, Copyback
  <2> QED BY <1>1, <2>1, LevelsStay DEF HomeAlone
<1>6. reqData = {} \/ phase' = "FinishCopyBack"
  BY <1>1 DEF HomeAlone, ClusterInv, RequesterSideInv, WriteDataInv
<1>7. BufferInv'
  <2> SUFFICES ASSUME phase' = "SendSnoop" PROVE BufferInv'
    BY <1>1 DEF BufferInv, Probing, Snooping
  <2>1. ASSUME Probing'
        PROVE  /\ validLines[RequestSet][LookupWay]
               /\ SnoopAddress' = tags[RequestSet][LookupWay]
    BY <1>1, <1>2, <2>1 DEF Probing, SnoopAddress
  <2>2. ASSUME Probing', ~ DirtyCopy(SnoopAddress)'
        PROVE  lineBuffer' = latest[SnoopAddress']
    <3>1. \A l : ~ InHand(l)
      BY <1>1, <2>2 DEF InHand, Snooping, VictimWrite, WritingVictim, Returning, Collecting
    <3>2. ~ DirtyCopy(tags[RequestSet][LookupWay])
      BY <1>1, <2>1, <2>2 DEF DirtyCopy
    <3> QED BY <1>1, <1>3, <2>1, <2>2, <3>1, <3>2 DEF HomeAlone, DataInv, LevelsInv
  <2>3. Probing' => DirtyCopy(SnoopAddress)' \/ Merges(Packets, latest[SnoopAddress])'
    BY <1>1, <1>6, <2>2 DEF Merges
  <2>4. lineBuffer' = Selected(lineRam)' /\ (Maintenance' <=> Maintenance)
        /\ (Selected(dirtyLines)' <=> dirtyLines[RequestSet][LookupWay])
    BY <1>1 DEF Selected, Maintenance
  <2> QED BY <1>1, <2>3, <2>4 DEF BufferInv
<1>8. DiscardInv'
  BY <1>1 DEF HomeAlone, DataInv, DiscardInv, Snooping
<1> QED BY <1>1, <1>4, <1>5, <1>7, <1>8, FreshStays, Elsewhere, HomeLeaves
        DEF HomeAlone, DataInv, MemoryPhases

\* Dirty data that returns becomes the entry's.
LEMMA FinishCopyBackData ==
  ASSUME HomeAlone, HomeFinishCopyBack
  PROVE  DataInv'
<1>1. /\ phase = "FinishCopyBack" /\ phase' = "Idle"
      /\ UNCHANGED <<compData, request, validLines, tags, latest>>
      /\ dirtyLines' = IF copybackDirty THEN Put(dirtyLines, TRUE) ELSE dirtyLines
      /\ lineRam' = IF copybackDirty THEN Put(lineRam, MergedLine) ELSE lineRam
  BY DEF HomeAlone, HomeFinishCopyBack, requesterRegs, requesterLinks, CopybackWrites
<1>2. Copyback /\ Collecting /\ reqData = {} /\ receivedData = Packets
  BY <1>1 DEF HomeAlone, ClusterInv, RequesterSideInv, PhaseFits, WriteDataInv, Collecting, DataInv,
     ReturnedDataInv
<1>3. /\ selectedSet \in Sets /\ selectedWay \in Ways /\ request.line \in Lines
      /\ dirtyLines \in [Sets -> [Ways -> BOOLEAN]] /\ lineRam \in [Sets -> [Ways -> LineData]]
      /\ latest \in [Lines -> LineData]
  BY DEF HomeAlone, TypeInv, TypeOK, HomeTypeOK, LinksTypeOK, Request
<1>4. \A line : InHand(line) => line = request.line /\ copybackDirty
  BY <1>1, <1>2 DEF InHand, Returning, Snooping, VictimWrite, WritingVictim
<1>5. LevelsInv'
  <2>1. CASE ~ copybackDirty
    BY <1>1, <1>4, <2>1, LevelsStay DEF HomeAlone
  <2>2. CASE copybackDirty
    <3>1. IsEntry(request.line)
      BY <1>1, <1>2, <2>2
         DEF HomeAlone, DataInv, ReturnedDataInv, ClusterInv, DirectoryInv, SelectedInv
    <3>2. MergedLine = latest[request.line]
      BY <1>2, <1>3, <2>2 DEF HomeAlone, DataInv, ReturnedDataInv, MergedLine, LineData
    <3>3. \A s \in Sets, w \in Ways :
            /\ lineRam'[s][w] = IF s = selectedSet /\ w = selectedWay THEN latest[request.line]
                                ELSE lineRam[s][w]
            /\ dirtyLines'[s][w] <=> (s = selectedSet /\ w = selectedWay) \/ dirtyLines[s][w]
      BY <1>1, <1>3, <2>2, <3>2 DEF Put
    <3>4. \A s \in Sets, w \in Ways : validLines[s][w] /\ tags[s][w] = request.line =>
            s = selectedSet /\ w = selectedWay
      BY <1>3, <3>1 DEF HomeAlone, ClusterInv, DirectoryInv, EntriesInv, IsEntry, Selected
    <3>5. /\ \A line : DirtyCopy(line)' <=> DirtyCopy(line)
          /\ UNCHANGED memory
      BY HomeLeaves DEF HomeAlone
    <3>6. Selected(tags) = request.line
      BY <3>1 DEF IsEntry
    <3>7. UNCHANGED <<validLines, tags, latest>>
      BY <1>1
    <3>8. ASSUME NEW s \in Sets, NEW w \in Ways, validLines[s][w]
          PROVE  /\ DirtyCopy(tags[s][w])' \/ lineRam'[s][w] = latest[tags[s][w]]
                 /\ ~ dirtyLines'[s][w] => lineRam'[s][w] = memory[tags[s][w]]
      <4>1. CASE s = selectedSet /\ w = selectedWay
        BY <3>3, <3>6, <4>1 DEF Selected
      <4>2. CASE ~ (s = selectedSet /\ w = selectedWay)
        <5>1. ~ InHand(tags[s][w]) /\ lineRam'[s][w] = lineRam[s][w]
              /\ (dirtyLines'[s][w] <=> dirtyLines[s][w])
          BY <1>4, <3>3, <3>4, <3>8, <4>2
        <5>2. DirtyCopy(tags[s][w])' <=> DirtyCopy(tags[s][w])
          BY <3>5, <3>7 DEF DirtyCopy
        <5> QED BY <3>8, <5>1, <5>2 DEF HomeAlone, DataInv, LevelsInv
      <4> QED BY <4>1, <4>2
    <3>9. \A line \in Lines : NoEntry(line)' => memory'[line] = latest'[line]
      BY <1>1, <3>5 DEF HomeAlone, DataInv, LevelsInv, NoEntry, Valid
    <3> QED BY <3>5, <3>7, <3>8, <3>9 DEF LevelsInv, DirtyCopy
  <2> QED BY <2>1, <2>2
<1> QED BY <1>1, <1>5, FreshStays, Elsewhere, HomeLeaves DEF HomeAlone, DataInv, MemoryPhases

------------------------------------------------------------------------------
(* The Home: the answers of probes, and what it does after them.            *)

\* A change of the selected entry.
LEMMA PutEntry ==
  ASSUME NEW X, NEW array \in [Sets -> [Ways -> X]], NEW value,
         selectedSet \in Sets, selectedWay \in Ways
  PROVE  \A s \in Sets, w \in Ways :
           Put(array, value)[s][w] =
             IF s = selectedSet /\ w = selectedWay THEN value ELSE array[s][w]
BY DEF Put

\* The selected entry alone changes.
OnlySelected ==
  /\ UNCHANGED <<selectedSet, selectedWay>>
  /\ \A s \in Sets, w \in Ways : s # selectedSet \/ w # selectedWay =>
       /\ validLines'[s][w] <=> validLines[s][w]
       /\ dirtyLines'[s][w] <=> dirtyLines[s][w]
       /\ tags'[s][w] = tags[s][w] /\ lineRam'[s][w] = lineRam[s][w]

\* The other entries are of other lines.
LEMMA LevelsMove ==
  ASSUME TypeInv, TypeInv', ClusterInv, DataInv, UNCHANGED <<cacheVars, memoryVars>>, OnlySelected,
         \A line \in Lines :
           \/ NoEntry(line)
           \/ Selected(validLines) /\ Selected(tags) = line
           \/ latest'[line] = latest[line] /\ (InHand(line) => InHand(line)'),
         Selected(validLines)' =>
           \/ DirtyCopy(Selected(tags)') \/ InHand(Selected(tags))'
           \/ Selected(lineRam)' = latest'[Selected(tags)'],
         Selected(validLines)' /\ ~ Selected(dirtyLines)' =>
           Selected(lineRam)' = memory[Selected(tags)'],
         \A line \in Lines : NoEntry(line)' => memory[line] = latest'[line]
  PROVE  LevelsInv'
<1>1. /\ UNCHANGED <<l1, memory>>
      /\ \A line : DirtyCopy(line)' <=> DirtyCopy(line)
  BY HomeLeaves
<1>2. ASSUME NEW s \in Sets, NEW w \in Ways, validLines'[s][w]
      PROVE  /\ \/ DirtyCopy(tags[s][w])' \/ InHand(tags[s][w])'
                \/ lineRam'[s][w] = latest'[tags'[s][w]]
             /\ ~ dirtyLines'[s][w] => lineRam'[s][w] = memory[tags'[s][w]]
  <2>1. CASE s = selectedSet /\ w = selectedWay
    BY <1>1, <1>2, <2>1 DEF OnlySelected, Selected, DirtyCopy
  <2>2. CASE s # selectedSet \/ w # selectedWay
    <3>1. /\ validLines[s][w] /\ (dirtyLines'[s][w] <=> dirtyLines[s][w])
          /\ tags'[s][w] = tags[s][w] /\ lineRam'[s][w] = lineRam[s][w]
      BY <1>2, <2>2 DEF OnlySelected
    <3>2. PICK line \in Lines : line = tags[s][w]
      BY <3>1 DEF TypeInv, ValidWaysHaveTags
    <3>3. ~ (Selected(validLines) /\ Selected(tags) = line)
      <4>1. SUFFICES ASSUME Selected(validLines), Selected(tags) = line PROVE FALSE
        OBVIOUS
      <4>2. selectedSet \in Sets /\ selectedWay \in Ways
        BY DEF TypeInv, TypeOK, HomeTypeOK
      <4>3. s = SetOf[line] /\ selectedSet = SetOf[line]
        BY <3>1, <3>2, <4>1, <4>2 DEF Selected, ClusterInv, DirectoryInv, EntriesInv
      <4>4. w = selectedWay
        BY SMTT(60), <3>1, <3>2, <4>1, <4>2, <4>3 DEF Selected, ClusterInv, DirectoryInv, EntriesInv
      <4> QED BY <2>2, <4>3, <4>4
    <3>4. latest'[line] = latest[line] /\ (InHand(line) => InHand(line)')
      BY <3>1, <3>2, <3>3 DEF NoEntry, Valid
    <3>5. /\ DirtyCopy(line) \/ InHand(line) \/ lineRam[s][w] = latest[line]
          /\ ~ dirtyLines[s][w] => lineRam[s][w] = memory[line]
      BY <3>1, <3>2 DEF DataInv, LevelsInv
    <3>6. /\ DirtyCopy(tags[s][w])' <=> DirtyCopy(line)'
          /\ InHand(tags[s][w])' <=> InHand(line)'
      BY <3>1, <3>2 DEF DirtyCopy, InHand, Returning
    <3> QED BY <1>1, <3>1, <3>2, <3>4, <3>5, <3>6
  <2> QED BY <2>1, <2>2
<1> QED BY <1>1, <1>2 DEF LevelsInv

\* A clean answer: what was not dirty in the cache is still in the buffer.
LEMMA SnoopResponseData ==
  ASSUME HomeAlone, HomeSnoopResponse
  PROVE  DataInv'
<1>1. /\ phase = "AwaitSnoop" /\ phase' = "SendSnoop"
      /\ UNCHANGED <<compData, reqData, request, lineBuffer, maintenanceDirty,
                     selectedSet, selectedWay, victimAddress, snoopVictim, maintenanceHit,
                     validLines, dirtyLines, tags, lineRam, snoop>>
  BY DEF HomeAlone, HomeSnoopResponse, requesterRegs, storage, lookupRegs, cacheVars
<1>2. PICK m \in acks : acks' = acks \ {m} /\ (completionError' <=> completionError \/ m.err)
  BY DEF HomeSnoopResponse, NoteError
<1>3. BufferInv'
  BY <1>1, HomeLeaves DEF HomeAlone, DataInv, BufferInv, Probing, Snooping, Maintenance, Merges,
     Selected, SnoopAddress
<1>4. DiscardInv'
  <2>1. request.op = "MakeInvalid" => ~ m.err
    <3>1. SUFFICES ASSUME request.op = "MakeInvalid" PROVE SnoopOp = "SnpMakeInvalid"
      BY <1>1 DEF HomeAlone, DataInv, DiscardInv
    <3>2. ~ snoopVictim
      BY <1>1, <3>1 DEF HomeAlone, ClusterInv, RequesterSideInv, PhaseFits, Snooping, Maintenance,
         IsMaintenance, MaintenanceOps
    <3> QED BY <3>1, <3>2 DEF SnoopOp, HomeSnoopOp
  <2> QED BY <1>1, <1>2, <2>1 DEF HomeAlone, DataInv, DiscardInv, Snooping
<1>5. LevelsInv'
  BY <1>1, LevelsStay DEF HomeAlone, InHand, Returning, Collecting, Snooping, VictimWrite,
     WritingVictim, SnoopAddress
<1> QED BY <1>1, <1>3, <1>4, <1>5, FreshStays, Elsewhere, HomeLeaves
        DEF HomeAlone, DataInv, MemoryPhases

\* A packet that arrives replaces what was in the buffer.
LEMMA SnoopDataData ==
  ASSUME HomeAlone, HomeSnoopData
  PROVE  DataInv'
<1>1. /\ phase = "AwaitSnoop" /\ phase' \in {"AwaitSnoop", "SendSnoop"}
      /\ UNCHANGED <<compData, acks, request, selectedSet, selectedWay, victimAddress, snoopVictim,
                     maintenanceHit, validLines, tags, lineRam, snoop, latest>>
      /\ maintenanceDirty'
      /\ dirtyLines' = IF MarksDirty THEN Put(dirtyLines, TRUE) ELSE dirtyLines
  BY DEF HomeAlone, HomeSnoopData, requesterRegs, storage, lookupRegs, cacheVars
<1>2. PICK m \in reqData :
        reqData' = reqData \ {m} /\ lineBuffer' = [lineBuffer EXCEPT ![m.packet] = m.version]
  BY DEF HomeSnoopData
<1>3. /\ m.packet \in Packets /\ lineBuffer \in [Packets -> Versions]
      /\ \A k \in reqData : k.packet = m.packet => k = m
      /\ selectedSet \in Sets /\ selectedWay \in Ways
      /\ dirtyLines \in [Sets -> [Ways -> BOOLEAN]]
      /\ \A n \in RNF : snoop[n].packets \subseteq Packets
  BY CacheTypes DEF HomeAlone, ClusterInv, RequesterSideInv, WriteDataInv, TypeInv, TypeOK,
     LinksTypeOK,
     RequesterData, HomeTypeOK, LineData, SnoopState
<1>4. /\ SnoopOp # "SnpMakeInvalid"
      /\ ~ snoopVictim => maintenanceHit
      /\ request.op # "MakeInvalid" /\ MarksDirty
  <2>1. SnoopOp # "SnpMakeInvalid"
    BY <1>1, <1>2 DEF HomeAlone, ClusterInv, ProbeInv, ProbeAnswerInv
  <2>2. ~ snoopVictim => maintenanceHit
    BY <1>1 DEF HomeAlone, ClusterInv, DirectoryInv, SelectedInv, Snooping
  <2>3. Maintenance => ~ snoopVictim
    BY <1>1 DEF HomeAlone, ClusterInv, RequesterSideInv, PhaseFits, Snooping
  <2> QED BY <2>1, <2>2, <2>3 DEF MarksDirty, SnoopOp, HomeSnoopOp, Maintenance, IsMaintenance,
             MaintenanceOps
<1>5. ASSUME NEW packets \in SUBSET Packets, NEW data, Merges(packets, data)
      PROVE  Merges(packets, data)'
  BY <1>2, <1>3, <1>5 DEF Merges
<1>6. BufferInv'
  <2>1. PICK data : data = latest[SnoopAddress]
    OBVIOUS
  <2>2. SnoopAddress' = SnoopAddress
    BY <1>1 DEF SnoopAddress
  <2>3. DirtyCopy(SnoopAddress)' <=> DirtyCopy(SnoopAddress)
    BY <2>2, HomeLeaves DEF HomeAlone, DirtyCopy
  <2>4. Merges(Packets, data) => Merges(Packets, latest[SnoopAddress])'
    <3>1. Merges(Packets, data) => Merges(Packets, data)'
      BY <1>5
    <3>2. data = latest'[SnoopAddress']
      BY <1>1, <2>1, <2>2
    <3> QED BY <3>1, <3>2 DEF Merges
  <2>5. Probing => DirtyCopy(SnoopAddress) \/ Merges(Packets, data)
    BY <1>4, <2>1 DEF HomeAlone, DataInv, BufferInv
  <2>6. Selected(dirtyLines)'
    BY <1>1, <1>3, <1>4 DEF Put, Selected
  <2>7. Snooping' /\ Maintenance' => maintenanceHit'
    BY <1>1, <1>4 DEF HomeAlone, ClusterInv, RequesterSideInv, PhaseFits, Snooping, Maintenance
  <2>8. Probing' => Probing
    BY <1>1 DEF Probing, Snooping
  <2> QED BY <1>1, <2>3, <2>4, <2>5, <2>6, <2>7, <2>8 DEF BufferInv
<1>7. SentInv'
  <2> SUFFICES ASSUME NEW n \in RNF, snoop[n].active, DirtyHit(snoop[n])
               PROVE  Merges(snoop[n].packets, snoop[n].data)'
    BY <1>1 DEF SentInv
  <2>0. PICK data : data = snoop[n].data
    OBVIOUS
  <2>1. PICK packets \in SUBSET Packets : packets = snoop[n].packets
    BY <1>3
  <2>2. Merges(packets, data)'
    BY <1>5, <2>0, <2>1 DEF HomeAlone, DataInv, SentInv
  <2> QED BY <1>1, <2>0, <2>1, <2>2 DEF Merges
<1>8. DiscardInv'
  BY <1>1, <1>4 DEF HomeAlone, DataInv, DiscardInv, SnoopOp
<1>9. LevelsInv'
  <2>1. \A line \in Lines : InHand(line) => InHand(line)'
    BY <1>1 DEF InHand, Returning, Collecting, Snooping, VictimWrite, WritingVictim, SnoopAddress
  <2>2. OnlySelected
    BY <1>1, <1>3 DEF Put, OnlySelected
  <2>3. Selected(dirtyLines)' /\ (\A line : NoEntry(line)' <=> NoEntry(line))
    BY <1>1, <1>3, <1>4 DEF Put, Selected, NoEntry, Valid
  <2>4. InHand(Selected(tags))'
    <3>1. Selected(tags) = SnoopAddress
      BY <1>1, <1>4
         DEF HomeAlone, ClusterInv, DirectoryInv, SelectedInv, Snooping, SnoopAddress, IsEntry
    <3> QED BY <1>1, <3>1 DEF InHand, Snooping, SnoopAddress, Selected
  <2>5. \A line \in Lines : NoEntry(line)' => memory[line] = latest'[line]
    BY <1>1, <2>3 DEF HomeAlone, DataInv, LevelsInv
  <2> QED BY <1>1, <2>1, <2>2, <2>3, <2>4, <2>5, LevelsMove DEF HomeAlone
<1> QED BY <1>1, <1>6, <1>7, <1>8, <1>9, FreshStays, Elsewhere, HomeLeaves
        DEF HomeAlone, DataInv, MemoryPhases

\* When every probe has been answered without an error, no cache has dirty data, and the
\* buffer is newest; only a snapshot leaves an owner alone.
LEMMA AllProbed ==
  ASSUME TypeInv, ClusterInv, DataInv, phase = "AfterSnoops", ~ completionError, Probing,
         request.op # "MakeInvalid", snoopVictim \/ request.op # "ReadOnce"
  PROVE  lineBuffer = latest[SnoopAddress]
<1>1. /\ pendingSnoops = {} /\ reqData = {} /\ Proper(request)
      /\ request.op \in RequestOps \ {"WriteBackFull"}
      /\ (Maintenance => ~ snoopVictim)
  BY DEF ClusterInv, DirectoryInv, SelectedInv, RequesterSideInv, WriteDataInv, PhaseFits, Busy,
     Snooping, Copyback, TypeInv, TypeOK, HomeTypeOK, Request
<1>2. ~ DirtyCopy(SnoopAddress)
  <2>1. SUFFICES ASSUME NEW n \in RNF, NEW w \in L1Ways, l1[n][w].line = SnoopAddress,
                        IsDirty(l1[n][w].state)
                 PROVE  FALSE
    BY DEF DirtyCopy
  <2>2. Holds(n, SnoopAddress) /\ HoldsUnique(n, SnoopAddress) /\ IsUnique(l1[n][w].state)
    BY <2>1 DEF Holds, HoldsUnique, IsUnique, IsDirty
  <2>3. SnoopOp \in {"SnpCleanInvalid", "SnpCleanShared", "SnpUnique"}
    BY <1>1 DEF SnoopOp, HomeSnoopOp
  <2>4. ~ snoopVictim /\ Spared(n)
    BY <1>1, <2>2, <2>3 DEF ClusterInv, CoherenceInv, ProbedInv, Snooping, Cleared,
       InvalidatesState,
       SharesState
  <2>5. request.op \in RefillOps /\ n = request.src /\ SnoopAddress = request.line
    BY <1>1, <2>4, LinkAssumption
       DEF Spared, Proper, IsMaintenance, MaintenanceOps, RequestOps, RefillOps, SnoopAddress
  <2>6. engine[n].line = request.line /\ engine[n].phase = "Refill"
    BY <2>5 DEF ClusterInv, RequesterSideInv, RefillInv, Busy, MovedOn
  <2> QED BY <2>1, <2>2, <2>5, <2>6 DEF DataInv, NodeDataInv, DataFits, Missing
<1>3. Merges(Packets, latest[SnoopAddress])
  BY <1>2 DEF DataInv, BufferInv
<1>4. SnoopAddress \in Lines
  BY DEF Probing, TypeInv, VictimIsKnown, SnoopAddress, Snooping, TypeOK, HomeTypeOK, Request
<1>5. \A p \in Packets : lineBuffer[p] = latest[SnoopAddress][p]
  BY <1>1, <1>3 DEF Merges
<1> QED BY <1>4, <1>5 DEF TypeInv, TypeOK, HomeTypeOK, LinksTypeOK, LineData

\* After its probes the Home answers, writes back, drops the victim, or goes on cleaning.
LEMMA AfterSnoopsData ==
  ASSUME HomeAlone, HomeAfterSnoops
  PROVE  DataInv'
<1>1. /\ phase = "AfterSnoops" /\ Snooping
      /\ UNCHANGED <<compData, reqData, acks, request, lineBuffer, maintenanceDirty,
                     completionError,
                     selectedSet, selectedWay, victimAddress, snoopVictim, maintenanceHit,
                     dirtyLines, tags, snoop, latest, l1, engine, memory>>
  BY DEF HomeAlone, HomeAfterSnoops, requesterRegs, lookupRegs, cacheVars, memoryVars,
         requesterLinks, Snooping
<1>2. /\ completionError => phase' = AnswerPhase
      /\ ~ completionError /\ Maintenance =>
           phase' = IF maintenanceDirty /\ request.op # "MakeInvalid"
                    THEN "SendVictimWriteRequest" ELSE "FinishMaintenance"
      /\ ~ completionError /\ ~ Maintenance /\ snoopVictim =>
           phase' = IF Selected(dirtyLines) THEN "SendVictimWriteRequest" ELSE "SendFillRequest"
      /\ ~ completionError /\ ~ Maintenance /\ ~ snoopVictim => phase' = FilledPhase
  BY DEF HomeAfterSnoops
<1>3. /\ lineRam' = IF WritesLineAfterSnoops THEN Put(lineRam, lineBuffer) ELSE lineRam
      /\ validLines' = IF snoopVictim /\ ~ Selected(dirtyLines) /\ ~ completionError
                       THEN Put(validLines, FALSE) ELSE validLines
  BY DEF HomeAfterSnoops
<1>4. /\ selectedSet \in Sets /\ selectedWay \in Ways /\ request.line \in Lines
      /\ validLines \in [Sets -> [Ways -> BOOLEAN]] /\ lineRam \in [Sets -> [Ways -> LineData]]
      /\ request.op \in RequestOps
  BY DEF HomeAlone, TypeInv, TypeOK, HomeTypeOK, Request
<1>5. /\ snoopVictim => ~ Maintenance
      /\ ~ Copyback /\ reqData = {}
      /\ IF snoopVictim THEN IsEntry(victimAddress) /\ NoEntry(request.line)
         ELSE IF maintenanceHit THEN IsEntry(request.line)
         ELSE Maintenance /\ NoEntry(request.line)
  BY <1>1 DEF HomeAlone, ClusterInv, RequesterSideInv, PhaseFits, WriteDataInv, DirectoryInv,
     SelectedInv
<1>6. Probing => IsEntry(SnoopAddress)
  BY <1>5 DEF Probing, SnoopAddress
<1>7. request.op = "MakeInvalid" => Maintenance /\ ~ completionError
  BY <1>1 DEF HomeAlone, DataInv, DiscardInv, Maintenance, IsMaintenance, MaintenanceOps
<1>8. /\ Probing /\ request.op # "MakeInvalid" =>
           DirtyCopy(SnoopAddress) \/ lineBuffer = latest[SnoopAddress]
      /\ Probing /\ ~ Selected(dirtyLines) => lineBuffer = Selected(lineRam)
      /\ Maintenance => (maintenanceDirty <=> maintenanceHit /\ Selected(dirtyLines))
  <2>1. ASSUME Probing, Merges(Packets, latest[SnoopAddress])
        PROVE  lineBuffer = latest[SnoopAddress]
    <3>1. SnoopAddress \in Lines
      BY <1>4, <2>1 DEF HomeAlone, Probing, TypeInv, VictimIsKnown, SnoopAddress, Snooping
    <3>2. \A p \in Packets : lineBuffer[p] = latest[SnoopAddress][p]
      BY <1>5, <2>1 DEF Merges
    <3> QED BY <3>1, <3>2 DEF HomeAlone, TypeInv, TypeOK, HomeTypeOK, LinksTypeOK, LineData
  <2> QED BY <1>1, <2>1 DEF HomeAlone, DataInv, BufferInv
<1>9. Probing /\ ~ completionError /\ request.op # "MakeInvalid"
        /\ (snoopVictim \/ request.op # "ReadOnce") => lineBuffer = latest[SnoopAddress]
  BY <1>1, AllProbed DEF HomeAlone
<1>10. /\ OnlySelected
       /\ Selected(lineRam)' = IF WritesLineAfterSnoops THEN lineBuffer ELSE Selected(lineRam)
       /\ Selected(validLines)' <=>
            Selected(validLines) /\ ~ (snoopVictim /\ ~ Selected(dirtyLines) /\ ~ completionError)
       /\ UNCHANGED <<Selected(tags), Selected(dirtyLines), SnoopAddress, Maintenance>>
  BY <1>1, <1>3, <1>4 DEF Put, OnlySelected, Selected, SnoopAddress, Maintenance
<1>11. Selected(validLines) /\ ~ Selected(dirtyLines) => Selected(lineRam) = memory[Selected(tags)]
  BY <1>4 DEF HomeAlone, DataInv, LevelsInv, Selected
<1>12. Selected(validLines)' /\ ~ Selected(dirtyLines)' =>
         Selected(lineRam)' = memory[Selected(tags)']
  BY <1>1, <1>5, <1>8, <1>10, <1>11 DEF WritesLineAfterSnoops, Probing
<1>13. \A line \in Lines : NoEntry(line)' => memory[line] = latest'[line]
  <2> SUFFICES ASSUME NEW line \in Lines, NoEntry(line)' PROVE memory[line] = latest[line]
    BY <1>1
  <2>1. CASE NoEntry(line)
    BY <2>1 DEF HomeAlone, DataInv, LevelsInv
  <2>2. CASE ~ NoEntry(line)
    <3>1. /\ Selected(validLines) /\ Selected(tags) = line
          /\ snoopVictim /\ ~ Selected(dirtyLines) /\ ~ completionError
      BY <1>1, <1>4, <1>10, <2>2 DEF OnlySelected, NoEntry, Valid, Selected
    <3>2. Probing /\ line = SnoopAddress /\ request.op # "MakeInvalid"
      BY <1>1, <1>5, <1>7, <3>1 DEF Probing, SnoopAddress, IsEntry
    <3> QED BY <1>8, <1>9, <1>11, <3>1, <3>2
  <2> QED BY <2>1, <2>2
<1>14. Selected(validLines)' =>
         \/ DirtyCopy(Selected(tags)') \/ InHand(Selected(tags))'
         \/ Selected(lineRam)' = latest'[Selected(tags)']
  <2> SUFFICES ASSUME Selected(validLines)'
               PROVE  \/ DirtyCopy(Selected(tags)') \/ InHand(Selected(tags))'
                      \/ Selected(lineRam)' = latest'[Selected(tags)']
    OBVIOUS
  <2>1. CASE WritesLineAfterSnoops
    <3>1. Probing /\ request.op # "MakeInvalid" /\ Selected(tags) = SnoopAddress
      BY <1>1, <1>5, <1>6, <1>7, <2>1 DEF WritesLineAfterSnoops, Probing, IsEntry
    <3> QED BY <1>1, <1>8, <1>10, <2>1, <3>1
  <2>2. CASE ~ WritesLineAfterSnoops /\ Probing
    <3>1. Selected(tags) = SnoopAddress
      BY <1>6, <2>2 DEF IsEntry
    <3>2. \/ snoopVictim /\ phase' = "SendVictimWriteRequest"
          \/ /\ request.op = "MakeInvalid" /\ phase' = "FinishMaintenance"
             /\ maintenanceHit /\ ~ snoopVictim
      BY <1>2, <1>5, <1>7, <1>10, <2>2 DEF WritesLineAfterSnoops, Probing
    <3> QED BY <1>1, <1>10, <3>1, <3>2 DEF InHand, VictimWrite, SnoopAddress
  <2>3. CASE ~ WritesLineAfterSnoops /\ ~ Probing
    <3>1. Selected(validLines) /\ NoEntry(request.line) /\ ~ snoopVictim
      BY <1>1, <1>5, <1>10, <2>3 DEF Probing
    <3>2. Selected(tags) # request.line
      BY <1>4, <3>1 DEF NoEntry, Valid, Selected
    <3>3. ~ InHand(Selected(tags))
      BY <1>1, <1>5, <3>1, <3>2 DEF InHand, SnoopAddress, Returning, Collecting, VictimWrite,
         WritingVictim
    <3>4. DirtyCopy(Selected(tags)) \/ Selected(lineRam) = latest[Selected(tags)]
      BY <1>4, <3>1, <3>3 DEF HomeAlone, DataInv, LevelsInv, Selected
    <3> QED BY <1>1, <1>10, <2>3, <3>4
  <2> QED BY <2>1, <2>2, <2>3
<1>15. LevelsInv'
  <2>1. ASSUME NEW line \in Lines, InHand(line)
        PROVE  NoEntry(line) \/ (Selected(validLines) /\ Selected(tags) = line)
    <3>1. line = SnoopAddress
      BY <1>1, <1>5, <2>1 DEF InHand, Returning, Collecting, VictimWrite, WritingVictim
    <3> QED BY <1>5, <3>1 DEF SnoopAddress, IsEntry
  <2> QED BY <1>1, <1>10, <1>12, <1>13, <1>14, <2>1, LevelsMove DEF HomeAlone
<1>16. ~ Maintenance /\ ~ snoopVictim => Probing /\ SnoopAddress = request.line
  BY <1>1, <1>5 DEF Probing, SnoopAddress
<1>17. AnswerDataInv'
  <2>1. ASSUME phase' = "SendCachedData", request.op \in RefillOps, ~ completionError
        PROVE  lineBuffer = latest[request.line]
    BY <1>2, <1>9, <1>16, <2>1 DEF Maintenance, IsMaintenance, MaintenanceOps, RefillOps
  <2>2. ASSUME phase' = "MergeRequesterData"
        PROVE  ~ completionError /\ lineBuffer = latest[request.line]
    BY <1>2, <1>9, <1>16, <2>2 DEF FilledPhase, IsWrite, AnswerPhase
  <2>3. ASSUME phase' = "FinishMaintenance", maintenanceHit, request.op # "MakeInvalid"
        PROVE  memory[request.line] = Selected(lineRam)'
    <3>1. Maintenance /\ ~ maintenanceDirty /\ IsEntry(request.line)
      BY <1>2, <1>5, <2>3 DEF AnswerPhase, FilledPhase
    <3> QED BY <1>1, <1>5, <1>8, <1>10, <1>12, <2>3, <3>1 DEF IsEntry
  <2> QED BY <1>1, <2>1, <2>2, <2>3 DEF AnswerDataInv
<1>18. WriteBackInv'
  <2> SUFFICES ASSUME VictimWrite' PROVE WriteBackInv'
    BY DEF WriteBackInv
  <2>1. /\ ~ completionError /\ Selected(dirtyLines)
        /\ IF Maintenance THEN maintenanceHit /\ request.op # "MakeInvalid" ELSE snoopVictim
    BY <1>2, <1>8 DEF VictimWrite, WritingVictim, AnswerPhase, FilledPhase
  <2>2. Probing /\ request.op # "MakeInvalid" /\ (snoopVictim \/ request.op # "ReadOnce")
    BY <1>1, <1>7, <2>1 DEF Probing, Maintenance, IsMaintenance, MaintenanceOps
  <2>3. Maintenance => WritesLineAfterSnoops
    BY <1>5, <2>1 DEF WritesLineAfterSnoops
  <2> QED BY <1>1, <1>9, <1>10, <2>1, <2>2, <2>3 DEF WriteBackInv
<1>19. DiscardInv'
  <2>1. phase' # "AwaitSnoop" /\ ~ Snooping'
    BY <1>2 DEF Snooping, AnswerPhase, FilledPhase
  <2> QED BY <1>1, <1>7, <2>1 DEF HomeAlone, DataInv, DiscardInv
<1>20. phase' \in {"SendVictimWriteRequest", "FinishMaintenance", "SendFillRequest",
                   "SendCachedData",
                   "MergeRequesterData", "SendRequesterCompletion"}
  BY <1>2 DEF AnswerPhase, FilledPhase
<1> QED BY <1>1, <1>15, <1>17, <1>18, <1>19, <1>20, FreshStays, Elsewhere, HomeLeaves
        DEF HomeAlone, DataInv, MemoryPhases

\* A victim leaves when memory has it; a line that was cleaned is in memory too.
LEMMA VictimCompletionData ==
  ASSUME HomeAlone, HomeVictimCompletion, Reliable
  PROVE  DataInv'
<1>1. /\ phase = "AwaitVictimCompletion" /\ VictimWrite
      /\ UNCHANGED <<compData, request, lineBuffer, memReqs, fillData, memData, receivedFill,
                     selectedSet, selectedWay, victimAddress, snoopVictim, maintenanceHit,
                     tags, lineRam, snoop, latest, l1, engine, memory, memWrite>>
  BY DEF HomeAlone, HomeVictimCompletion, requesterRegs, lookupRegs, cacheVars, memoryVars,
         backingRegs, storage, requesterLinks, VictimWrite, WritingVictim
<1>2. PICK m \in memRsps :
        LET success == ~ completionError /\ ~ m.err
            retire  == ~ Maintenance /\ success
        IN  /\ memRsps' = memRsps \ {m}
            /\ (completionError' <=> completionError \/ m.err)
            /\ validLines' = IF retire THEN Put(validLines, FALSE) ELSE validLines
            /\ dirtyLines' = IF retire THEN Put(dirtyLines, FALSE) ELSE dirtyLines
            /\ phase' = CASE Maintenance -> "FinishMaintenance"
                           [] retire      -> "SendFillRequest"
                           [] OTHER       -> AnswerPhase
  BY DEF HomeVictimCompletion, NoteError
<1>3. /\ selectedSet \in Sets /\ selectedWay \in Ways /\ request.line \in Lines
      /\ validLines \in [Sets -> [Ways -> BOOLEAN]] /\ dirtyLines \in [Sets -> [Ways -> BOOLEAN]]
      /\ victimAddress \in Lines \cup {NoLine}
  BY DEF HomeAlone, TypeInv, TypeOK, HomeTypeOK, Request
<1>4. /\ snoopVictim => IsEntry(victimAddress) /\ NoEntry(request.line) /\ victimAddress \in Lines
      /\ Maintenance <=> ~ snoopVictim
      /\ ~ snoopVictim => maintenanceHit /\ IsEntry(request.line)
  BY <1>1, <1>3, WriteBackFacts DEF HomeAlone, ClusterInv, RequesterSideInv, PhaseFits,
     DirectoryInv,
     SelectedInv, DataInv, WriteBackInv, IsEntry, Selected, TypeInv, ValidWaysHaveTags
<1>5. ~ m.err /\ ~ completionError => memory[SnoopAddress] = lineBuffer
  <2>1. (\A k \in memRsps : k = m) /\ ~ memWrite.active
    BY <1>1, <1>2 DEF HomeAlone, ClusterInv, MemorySideInv, VictimWriteInv
  <2> QED BY <1>1, <2>1 DEF HomeAlone, DataInv, WriteDataFits
<1>6. /\ Selected(dirtyLines) /\ request.op # "MakeInvalid" /\ lineBuffer = latest[SnoopAddress]
      /\ Maintenance => Selected(lineRam) = lineBuffer
  BY <1>1 DEF HomeAlone, DataInv, WriteBackInv
<1>7. Maintenance \/ (~ completionError /\ ~ m.err)
  <2>1. SUFFICES ASSUME ~ Maintenance, completionError \/ m.err PROVE FALSE
    OBVIOUS
  <2>2. "write" \in Faults
    BY <1>1, <1>2, <2>1 DEF HomeAlone, DataInv, WriteBackInv, WriteDataFits
  <2>3. victimAddress = request.line
    BY <1>3, <1>4, <2>1, <2>2 DEF Reliable
  <2> QED BY <1>3, <1>4, <2>1, <2>3 DEF IsEntry, NoEntry, Valid, Selected
<1>8. CASE Maintenance
  <2>1. phase' = "FinishMaintenance" /\ UNCHANGED <<validLines,
                                                    dirtyLines>> /\ SnoopAddress = request.line
    BY <1>2, <1>4, <1>8 DEF SnoopAddress
  <2>2. AnswerDataInv'
    BY <1>1, <1>2, <1>5, <1>6, <1>8, <2>1 DEF AnswerDataInv, Selected
  <2>3. DiscardInv'
    BY <1>1, <1>6, <2>1 DEF HomeAlone, DataInv, DiscardInv, Snooping
  <2>4. LevelsInv'
    BY <1>1, <1>4, <1>8, <2>1, LevelsStay
       DEF HomeAlone, InHand, Returning, Collecting, Snooping
  <2> QED BY <1>1, <2>1, <2>2, <2>3, <2>4, FreshStays, Elsewhere, HomeLeaves
          DEF HomeAlone, DataInv, MemoryPhases
<1>9. CASE ~ Maintenance
  <2>1. /\ phase' = "SendFillRequest" /\ SnoopAddress = victimAddress
        /\ validLines' = Put(validLines, FALSE) /\ dirtyLines' = Put(dirtyLines, FALSE)
    BY <1>2, <1>4, <1>7, <1>9 DEF SnoopAddress
  <2>2. OnlySelected /\ ~ Selected(validLines)'
    BY <1>1, <1>3, <2>1 DEF Put, OnlySelected, Selected
  <2>3. \A line \in Lines : InHand(line) => Selected(validLines) /\ Selected(tags) = line
    BY <1>1, <1>4, <1>9, <2>1 DEF InHand, Returning, Collecting, Snooping, IsEntry
  <2>4. \A line \in Lines : NoEntry(line)' => memory[line] = latest'[line]
    <3> SUFFICES ASSUME NEW line \in Lines, NoEntry(line)' PROVE memory[line] = latest[line]
      BY <1>1
    <3>1. CASE NoEntry(line)
      BY <3>1 DEF HomeAlone, DataInv, LevelsInv
    <3>2. CASE ~ NoEntry(line)
      <4>1. Selected(tags) = line
        BY <1>1, <1>3, <2>2, <3>2 DEF OnlySelected, NoEntry, Valid, Selected
      <4> QED BY <1>4, <1>5, <1>6, <1>7, <1>9, <2>1, <4>1 DEF IsEntry
    <3> QED BY <3>1, <3>2
  <2>5. LevelsInv'
    BY <1>1, <2>2, <2>3, <2>4, LevelsMove DEF HomeAlone
  <2> QED BY <1>1, <2>1, <2>5, FreshStays, Elsewhere, HomeLeaves
          DEF HomeAlone, DataInv, MemoryPhases
<1> QED BY <1>8, <1>9

\* The last packet of a fill makes the buffer, and the entry, the line's data in memory.
LEMMA ReceiveFillData ==
  ASSUME HomeAlone, HomeReceiveFill
  PROVE  DataInv'
<1>1. /\ phase = "ReceiveFillData"
      /\ UNCHANGED <<compData, request, memReqs, memRsps, memData, selectedSet, selectedWay,
                     victimAddress, snoopVictim, maintenanceHit, snoop, latest, l1, engine, memory,
                     memWrite>>
  BY DEF HomeAlone, HomeReceiveFill, requesterRegs, lookupRegs, cacheVars, memoryVars,
         requesterLinks
<1>2. PICK m \in fillData :
        LET final   == AllArrived(receivedFill, m.packet)
            success == ~ completionError /\ ~ m.err
            install == final /\ success
        IN  /\ fillData' = fillData \ {m}
            /\ lineBuffer' = [lineBuffer EXCEPT ![m.packet] = m.version]
            /\ receivedFill' = receivedFill \cup {m.packet}
            /\ (completionError' <=> completionError \/ m.err)
            /\ validLines' = IF final THEN Put(validLines, success) ELSE validLines
            /\ dirtyLines' = IF final THEN Put(dirtyLines, FALSE) ELSE dirtyLines
            /\ tags' = IF install THEN Put(tags, request.line) ELSE tags
            /\ lineRam' = IF install THEN Put(lineRam, lineBuffer') ELSE lineRam
            /\ phase' = IF final THEN FilledPhase ELSE "ReceiveFillData"
  BY DEF HomeReceiveFill, NoteError
<1>3. /\ selectedSet \in Sets /\ selectedWay \in Ways /\ request.line \in Lines
      /\ validLines \in [Sets -> [Ways -> BOOLEAN]] /\ dirtyLines \in [Sets -> [Ways -> BOOLEAN]]
      /\ tags \in [Sets -> [Ways -> Lines \cup {NoLine}]]
      /\ lineRam \in [Sets -> [Ways -> LineData]]
      /\ lineBuffer \in [Packets -> Versions] /\ lineBuffer' \in [Packets -> Versions]
      /\ memory \in [Lines -> LineData]
      /\ m.packet \in Packets
  BY DEF HomeAlone, TypeInv, TypeOK, HomeTypeOK, LinksTypeOK, MemoryTypeOK, Request, LineData,
     FillPacket
<1>4. ~ Selected(validLines) /\ NoEntry(request.line) /\ ~ Copyback /\ ~ Maintenance
  BY <1>1 DEF HomeAlone, ClusterInv, RequesterSideInv, PhaseFits, DirectoryInv, SelectedInv, Filling
<1>5. memory[request.line] = latest[request.line]
  BY <1>3, <1>4 DEF HomeAlone, DataInv, LevelsInv
<1>6. /\ \A k \in fillData' : k.version = memory[request.line][k.packet]
      /\ \A p \in receivedFill' : lineBuffer'[p] = memory[request.line][p]
  BY <1>1, <1>2, <1>3 DEF HomeAlone, DataInv, FillDataInv
<1>7. FillDataInv'
  BY <1>1, <1>6 DEF FillDataInv
<1>8. AllArrived(receivedFill, m.packet) => lineBuffer' = latest[request.line]
  <2>1. SUFFICES ASSUME AllArrived(receivedFill, m.packet) PROVE lineBuffer' = latest[request.line]
    OBVIOUS
  <2>2. receivedFill' = Packets
    BY <1>2, <2>1 DEF AllArrived
  <2>3. memory[request.line] \in [Packets -> Versions]
    BY <1>3 DEF LineData
  <2>4. \A p \in Packets : lineBuffer'[p] = memory[request.line][p]
    BY <1>6, <2>2
  <2> QED BY <1>3, <1>5, <2>3, <2>4
<1>9. phase' \in {"ReceiveFillData", "SendCachedData", "MergeRequesterData"}
  BY <1>2 DEF FilledPhase
<1>10. phase' # "ReceiveFillData" =>
         /\ AllArrived(receivedFill, m.packet)
         /\ Selected(validLines)' <=> ~ completionError'
  BY <1>1, <1>2, <1>3 DEF FilledPhase, Put, Selected
<1>11. AnswerDataInv'
  BY <1>1, <1>8, <1>9, <1>10 DEF AnswerDataInv
<1>12. LevelsInv'
  <2>1. OnlySelected
    BY <1>1, <1>2, <1>3 DEF Put, OnlySelected
  <2>2. \A line \in Lines : ~ InHand(line)
    BY <1>1 DEF InHand, Returning, Collecting, Snooping, VictimWrite, WritingVictim
  <2>3. Selected(validLines)' =>
          /\ Selected(tags)' = request.line /\ Selected(lineRam)' = latest[request.line]
    <3>1. SUFFICES ASSUME Selected(validLines)' 
                   PROVE  /\ Selected(tags)' = request.line
                          /\ Selected(lineRam)' = latest[request.line]
      OBVIOUS
    <3>2. AllArrived(receivedFill, m.packet) /\ ~ completionError /\ ~ m.err
      BY <1>1, <1>2, <1>3, <1>4, <3>1 DEF Put, Selected
    <3>3. tags' = Put(tags, request.line) /\ lineRam' = Put(lineRam, lineBuffer')
      BY <1>2, <3>2
    <3> QED BY <1>1, <1>3, <1>8, <3>2, <3>3 DEF Put, Selected
  <2>4. \A line \in Lines : NoEntry(line)' => memory[line] = latest'[line]
    <3> SUFFICES ASSUME NEW line \in Lines, NoEntry(line)' PROVE NoEntry(line)
      BY <1>1 DEF HomeAlone, DataInv, LevelsInv
    <3>1. SUFFICES ASSUME NEW s \in Sets, NEW w \in Ways, validLines[s][w], tags[s][w] = line
                   PROVE  FALSE
      BY DEF NoEntry, Valid
    <3>2. s # selectedSet \/ w # selectedWay
      BY <1>4, <3>1 DEF Selected
    <3> QED BY <2>1, <3>1, <3>2 DEF OnlySelected, NoEntry, Valid
  <2> QED BY <1>1, <1>3, <1>5, <2>1, <2>2, <2>3, <2>4, LevelsMove DEF HomeAlone
<1>13. WriteDataFits'
  <2>1. memRsps = {} /\ memData = {} /\ ~ memWrite.active
    BY <1>1 DEF HomeAlone, ClusterInv, MemorySideInv, VictimWriteInv, WritingVictim
  <2> QED BY <1>1, <1>9, <2>1 DEF HomeAlone, DataInv, WriteDataFits, SnoopAddress
<1>14. WriteBackInv' /\ ReturnedDataInv' /\ BufferInv' /\ SentInv' /\ DiscardInv'
  BY <1>9, Elsewhere DEF HomeAlone, MemoryPhases, WriteBackInv, VictimWrite, WritingVictim
<1> QED BY <1>1, <1>7, <1>11, <1>12, <1>13, <1>14, FreshStays, HomeLeaves DEF HomeAlone, DataInv

------------------------------------------------------------------------------
(* The Home: the two steps that order.                                      *)

\* A line is ordered anew while nobody holds it and no read is being answered.
LEMMA OrderedUnheld ==
  ASSUME TypeInv, ClusterInv, DataInv, UNCHANGED <<cacheVars, memoryVars, compData>>, ~ Answering,
         \A line \in Lines : latest'[line] = latest[line] \/ \A n \in RNF : ~ Holds(n, line)
  PROVE  FreshInv'
<1>1. UNCHANGED <<l1, engine>>
  BY HomeLeaves
<1>2. compData = {} /\ \A n \in RNF : engine[n].phase = "Refill" => engine[n].packets = {}
  BY DEF ClusterInv, RequesterSideInv, ReadDataInv, RefillInv
<1>3. \A n \in RNF : /\ \A w \in L1Ways : l1[n][w].line # NoLine => l1[n][w].line \in Lines
                     /\ engine[n].phase # "Idle" => engine[n].line \in Lines
  BY DEF TypeInv, CachesHaveLines, NodeInv, WaysHaveLines, EngineHasLine
<1>4. \A n \in RNF, w \in L1Ways : l1[n][w].line # NoLine =>
        latest'[l1[n][w].line] = latest[l1[n][w].line]
  BY <1>3 DEF Holds
<1>5. \A n \in RNF : Granted(n) => latest'[engine[n].line] = latest[engine[n].line]
  BY <1>3 DEF Holds, Granted
<1> QED BY <1>1, <1>2, <1>4, <1>5 DEF DataInv, FreshInv, Granted

\* A write is merged while nobody holds the line.
LEMMA OrdersWriteData ==
  ASSUME TypeInv, ClusterInv, DataInv, TypeInv', ClusterInv', HomeOrdersWrite,
         UNCHANGED <<cacheVars, memoryVars>>
  PROVE  DataInv'
<1>1. /\ phase = "MergeRequesterData" /\ phase' = "SendRequesterCompletion"
      /\ lineRam' = Put(lineRam, MergedLine) /\ dirtyLines' = Put(dirtyLines, TRUE)
      /\ UNCHANGED <<compData, request, selectedSet, selectedWay, validLines, tags, l1, engine,
                     snoop,
                     memory>>
      /\ latest' = IF completionError THEN latest
                   ELSE [latest EXCEPT ![request.line] =
                          [p \in Packets |-> IF p \in receivedData THEN writeData[p] ELSE @[p]]]
  BY DEF HomeOrdersWrite, HomeMergeRequesterData, requesterRegs, requesterLinks, lookupRegs,
         cacheVars, memoryVars
<1>2. /\ selectedSet \in Sets /\ selectedWay \in Ways /\ request.line \in Lines
      /\ validLines \in [Sets -> [Ways -> BOOLEAN]] /\ dirtyLines \in [Sets -> [Ways -> BOOLEAN]]
      /\ lineRam \in [Sets -> [Ways -> LineData]]
      /\ latest \in [Lines -> LineData]
  BY DEF TypeInv, TypeOK, HomeTypeOK, LinksTypeOK, Request
<1>4. ~ completionError => \A n \in RNF : ~ Holds(n, request.line)
  <2>1. request.op = "WriteUniquePtl" /\ request.src \in IO
    BY <1>1 DEF ClusterInv, RequesterSideInv, PhaseFits, Busy, Proper
  <2>2. \A n \in RNF : ~ Spared(n)
    BY <2>1, LinkAssumption DEF Spared
  <2> QED BY <1>1, <2>1, <2>2 DEF ClusterInv, CoherenceInv, SettledInv, Settled, Cleared,
             HomeSnoopOp,
             InvalidatesState
<1>5. \A line \in Lines \ {request.line} : latest'[line] = latest[line]
  BY <1>1, <1>2
<1>6. /\ ~ completionError => IsEntry(request.line) /\ lineBuffer = latest[request.line]
      /\ completionError => ~ Selected(validLines) /\ latest' = latest
  BY <1>1 DEF ClusterInv, DirectoryInv, SelectedInv, DataInv, AnswerDataInv
<1>7. FreshInv'
  <2>1. \A line \in Lines : latest'[line] = latest[line] \/ \A n \in RNF : ~ Holds(n, line)
    BY <1>4, <1>5, <1>6
  <2> QED BY <1>1, <2>1, OrderedUnheld DEF Answering
<1>8. ~ completionError => MergedLine = latest'[request.line]
  BY <1>1, <1>2, <1>6 DEF MergedLine
<1>9. LevelsInv'
  <2>1. OnlySelected /\ Selected(dirtyLines)' /\ Selected(lineRam)' = MergedLine
    BY <1>1, <1>2 DEF Put, OnlySelected, Selected
  <2>2. \A line \in Lines : ~ InHand(line) /\ (NoEntry(line)' <=> NoEntry(line))
    BY <1>1 DEF InHand, Returning, Collecting, Snooping, VictimWrite, WritingVictim, NoEntry, Valid
  <2>3. Selected(validLines)' =>
          Selected(tags)' = request.line /\ Selected(lineRam)' = latest'[request.line]
    BY <1>1, <1>6, <1>8, <2>1 DEF IsEntry, Selected
  <2>4. \A line \in Lines : NoEntry(line) => latest'[line] = latest[line]
    BY <1>2, <1>5, <1>6 DEF IsEntry, NoEntry, Valid, Selected
  <2>5. \A line \in Lines :
          latest'[line] = latest[line] \/ (Selected(validLines) /\ Selected(tags) = line)
    BY <1>5, <1>6 DEF IsEntry
  <2>6. \A line \in Lines : NoEntry(line)' => memory[line] = latest'[line]
    BY <2>2, <2>4 DEF DataInv, LevelsInv
  <2> QED BY <1>1, <2>1, <2>2, <2>3, <2>5, <2>6, LevelsMove
<1> QED BY <1>1, <1>7, <1>9, Elsewhere, HomeLeaves DEF DataInv, MemoryPhases

\* A line that is cleaned is in memory; one that is discarded becomes what memory has,
\* while nobody holds it.
LEMMA OrdersMaintenanceData ==
  ASSUME TypeInv, ClusterInv, DataInv, TypeInv', ClusterInv', HomeOrdersMaintenance,
         UNCHANGED <<cacheVars, memoryVars>>
  PROVE  DataInv'
<1>1. /\ phase = "FinishMaintenance" /\ phase' = "SendRequesterCompletion"
      /\ dirtyLines' = IF MaintenanceDone THEN Put(dirtyLines, FALSE) ELSE dirtyLines
      /\ validLines' = IF MaintenanceDone /\ request.op # "CleanShared"
                       THEN Put(validLines, FALSE) ELSE validLines
      /\ UNCHANGED <<compData, request, selectedSet, selectedWay, lineRam, tags, l1, engine, snoop,
                     memory>>
      /\ latest' = IF request.op = "MakeInvalid" /\ maintenanceHit /\ ~ completionError
                   THEN [latest EXCEPT ![request.line] = memory[request.line]] ELSE latest
  BY DEF HomeOrdersMaintenance, HomeFinishMaintenance, requesterRegs, requesterLinks, lookupRegs,
         storage, cacheVars, memoryVars
<1>2. /\ selectedSet \in Sets /\ selectedWay \in Ways /\ request.line \in Lines
      /\ validLines \in [Sets -> [Ways -> BOOLEAN]] /\ dirtyLines \in [Sets -> [Ways -> BOOLEAN]]
      /\ latest \in [Lines -> LineData]
  BY DEF TypeInv, TypeOK, HomeTypeOK, LinksTypeOK, Request
<1>3. Maintenance /\ request.op \in {"CleanShared", "CleanInvalid", "MakeInvalid"}
      /\ \A n \in RNF : ~ Spared(n)
  BY <1>1 DEF ClusterInv, RequesterSideInv, PhaseFits, Busy, Proper, Spared, Maintenance,
     IsMaintenance, MaintenanceOps
<1>4. request.op # "CleanShared" => \A n \in RNF : ~ Holds(n, request.line)
  BY <1>1, <1>3 DEF ClusterInv, CoherenceInv, SettledInv, Settled, Cleared, HomeSnoopOp,
     InvalidatesState
<1>5. \A line \in Lines \ {request.line} : latest'[line] = latest[line]
  BY <1>1, <1>2
<1>6. maintenanceHit => IsEntry(request.line)
  BY <1>1 DEF ClusterInv, DirectoryInv, SelectedInv
<1>7. MaintenanceDone /\ request.op # "MakeInvalid" => memory[request.line] = Selected(lineRam)
  BY <1>1 DEF DataInv, AnswerDataInv, MaintenanceDone
<1>8. FreshInv'
  <2>1. \A line \in Lines : latest'[line] = latest[line] \/ \A n \in RNF : ~ Holds(n, line)
    BY <1>1, <1>4, <1>5
  <2> QED BY <1>1, <2>1, OrderedUnheld DEF Answering
<1>9. \A line : InHand(line) => line = request.line /\ request.op = "MakeInvalid" /\ maintenanceHit
  BY <1>1 DEF InHand, Returning, Collecting, Snooping, VictimWrite, WritingVictim
<1>10. CASE ~ MaintenanceDone
  <2>1. UNCHANGED <<validLines, dirtyLines, latest>> /\ \A line \in Lines : ~ InHand(line)
    BY <1>1, <1>9, <1>10 DEF DataInv, DiscardInv, MaintenanceDone
  <2>2. LevelsInv'
    BY <1>1, <2>1, LevelsStay
  <2> QED BY <1>1, <1>8, <2>2, Elsewhere, HomeLeaves DEF DataInv, MemoryPhases
<1>11. CASE MaintenanceDone
  <2>1. maintenanceHit /\ ~ completionError /\ Selected(validLines) /\ Selected(tags) = request.line
    BY <1>6, <1>11 DEF MaintenanceDone, IsEntry
  <2>2. /\ OnlySelected /\ ~ Selected(dirtyLines)'
        /\ Selected(validLines)' <=> request.op = "CleanShared"
        /\ UNCHANGED <<Selected(tags), Selected(lineRam)>>
    BY <1>1, <1>2, <1>11, <2>1 DEF Put, OnlySelected, Selected
  <2>3. \A line \in Lines : InHand(line) => Selected(validLines) /\ Selected(tags) = line
    BY <1>9, <2>1
  <2>4. request.op # "MakeInvalid" => latest' = latest /\ ~ InHand(request.line)
    BY <1>1, <1>9
  <2>5. request.op # "MakeInvalid" =>
          DirtyCopy(request.line) \/ Selected(lineRam) = latest[request.line]
    BY <1>2, <2>1, <2>4 DEF DataInv, LevelsInv, Selected
  <2>6. Selected(validLines)' =>
          DirtyCopy(Selected(tags)') \/ Selected(lineRam)' = latest'[Selected(tags)']
    BY <2>1, <2>2, <2>4, <2>5
  <2>7. Selected(validLines)' => Selected(lineRam)' = memory[Selected(tags)']
    BY <1>7, <1>11, <2>1, <2>2
  <2>8. request.op # "CleanShared" => memory[request.line] = latest'[request.line]
    <3>1. CASE request.op = "MakeInvalid"
      BY <1>1, <1>2, <2>1, <3>1
    <3>2. CASE request.op = "CleanInvalid"
      <4>1. ~ DirtyCopy(request.line)
        BY <1>4, <3>2 DEF DirtyCopy, Holds
      <4> QED BY <1>7, <1>11, <2>4, <2>5, <3>2, <4>1
    <3> QED BY <1>3, <3>1, <3>2
  <2>9. \A line \in Lines : NoEntry(line)' => memory[line] = latest'[line]
    <3> SUFFICES ASSUME NEW line \in Lines, NoEntry(line)' PROVE memory[line] = latest'[line]
      OBVIOUS
    <3>1. CASE line = request.line
      <4>1. request.op # "CleanShared"
        BY <1>2, <2>1, <2>2, <3>1 DEF NoEntry, Valid, Selected, OnlySelected
      <4> QED BY <2>8, <3>1, <4>1
    <3>2. CASE line # request.line
      <4>1. NoEntry(line)
        BY <2>1, <2>2, <3>2 DEF NoEntry, Valid, Selected, OnlySelected
      <4> QED BY <1>5, <3>2, <4>1 DEF DataInv, LevelsInv
    <3> QED BY <3>1, <3>2
  <2>10. \A line \in Lines :
           latest'[line] = latest[line] \/ (Selected(validLines) /\ Selected(tags) = line)
    BY <1>5, <2>1
  <2>11. LevelsInv'
    BY <2>2, <2>3, <2>6, <2>7, <2>9, <2>10, LevelsMove
  <2> QED BY <1>1, <1>8, <2>11, Elsewhere, HomeLeaves DEF DataInv, MemoryPhases
<1> QED BY <1>10, <1>11

------------------------------------------------------------------------------
(* Every step keeps the newest data.                                        *)

\* No step of the Home loses the newest data.
LEMMA HomeData ==
  ASSUME TypeInv, ClusterInv, DataInv, TypeInv', ClusterInv', HomeStep, Reliable
  PROVE  DataInv'
<1>1. UNCHANGED <<cacheVars, memoryVars>>
  BY DEF HomeStep
<1>2. CASE HomeQuietStep /\ UNCHANGED history
  <2>1. HomeAlone
    BY <1>1, <1>2 DEF HomeAlone, history
  <2> QED BY <1>2, <2>1, AcceptData, GrantData, ReceiveDataData, LookupData, FinishCopyBackData,
             SendSnoopData, SnoopResponseData, SnoopDataData, AfterSnoopsData, MemRequestData,
             VictimWriteData, VictimCompletionData, ReceiveFillData, CompleteData,
             SendCachedDataData DEF HomeQuietStep
<1> QED BY <1>1, <1>2, OrdersWriteData, OrdersMaintenanceData DEF HomeStep

\* At first every level has version 0.
LEMMA InitData == Init => DataInv
<1> SUFFICES ASSUME Init PROVE DataInv
  OBVIOUS
<1>1. /\ acks = {} /\ compData = {} /\ reqData = {}
      /\ memReqs = {} /\ memRsps = {} /\ fillData = {} /\ memData = {}
      /\ latest = [l \in Lines |-> [p \in Packets |-> 0]]
  BY DEF Init, LinksInit
<1>2. phase = "Idle"
  BY DEF Init, HomeInit
<1>3. \A s \in Sets, w \in Ways : ~ validLines[s][w]
  BY DEF Init, HomeInit
<1>4. /\ \A n \in RNF : engine[n].phase = "Idle" /\ ~ snoop[n].active
      /\ \A n \in RNF, w \in L1Ways : l1[n][w].line = NoLine
  BY DEF Init, CacheInit, IdleEngine, IdleSnoop, EmptyWay
<1>5. ~ memWrite.active /\ memory = latest
  BY <1>1 DEF Init, MemoryInit, IdleWrite
<1>6. FreshInv /\ NodeDataInv
  BY <1>1, <1>4 DEF FreshInv, NodeDataInv, DataFits, Missing, Granted
<1>7. ReturnedDataInv /\ BufferInv /\ SentInv /\ DiscardInv /\ AnswerDataInv /\ WriteBackInv
  BY <1>1, <1>2, <1>4 DEF ReturnedDataInv, Collecting, BufferInv, Probing, Snooping, SentInv,
     DiscardInv, AnswerDataInv, WriteBackInv, VictimWrite, WritingVictim
<1>8. WriteDataFits /\ FillDataInv
  BY <1>1, <1>2, <1>5 DEF WriteDataFits, FillDataInv
<1>9. LevelsInv
  BY <1>3, <1>5 DEF LevelsInv
<1> QED BY <1>6, <1>7, <1>8, <1>9 DEF DataInv

\* One lemma per agent makes a step.
LEMMA NextData ==
  ASSUME TypeInv, ClusterInv, DataInv, [Next]_vars, Reliable
  PROVE  DataInv'
<1>1. TypeInv' /\ ClusterInv'
  BY NextType, NextCluster
<1>2. CASE UNCHANGED vars
  <2>1. /\ UNCHANGED <<homeVars, memoryVars, subordinateLinks, latest, l1, engine, snoop, reqData>>
        /\ compData' = compData /\ acks' = acks
    BY <1>2 DEF vars, history, cacheVars, requesterLinks
  <2> QED BY <2>1, DataStands
<1>3. CASE Step
  BY <1>1, <1>3, HomeData, CacheData, UncachedData, MemoryData DEF Step
<1> QED BY <1>2, <1>3 DEF Next

\* The newest data of every line is where the Home, the caches and memory will look for
\* it, in every reachable state, if no dirty victim can fail to be written.
THEOREM ClusterDataIsInvariant == Reliable => (Spec => []DataInv)
<1> SUFFICES ASSUME Reliable PROVE Spec => []DataInv
  OBVIOUS
<1>1. Init => TypeInv /\ ClusterInv /\ DataInv
  BY InitType, InitCluster, InitData
<1>2. (TypeInv /\ ClusterInv /\ DataInv) /\ [Next]_vars => (TypeInv /\ ClusterInv /\ DataInv)'
  BY NextType, NextCluster, NextData
<1> QED BY <1>1, <1>2, PTL DEF Spec

\* A load that hits in an L1D, or is answered from a granted line, never sees a version
\* that another cache, an uncached writer or a discard has already replaced.
THEOREM ClusterNoStaleCopy == Reliable => (Spec => []NoStaleCopy)
<1>1. DataInv => NoStaleCopy
  <2> SUFFICES ASSUME DataInv PROVE NoStaleCopy
    OBVIOUS
  <2>1. ASSUME NEW line \in Lines, NEW c \in Copies(line)
        PROVE  l1[c[1]][c[2]].data = latest[line]
    <3>1. c[1] \in RNF /\ c[2] \in L1Ways /\ l1[c[1]][c[2]].line = line
      BY <2>1 DEF Copies
    <3> QED BY <3>1, LinkAssumption DEF DataInv, FreshInv
  <2> QED BY <2>1 DEF DataInv, FreshInv, NoStaleCopy
<1> QED BY <1>1, ClusterDataIsInvariant, PTL

\* Between two transactions a reader of any line finds its newest version, in a dirty
\* L1D copy, in the LLC, or in memory: no copyback, eviction or maintenance loses it.
THEOREM ClusterNothingLost == Reliable => (Spec => []NothingLost)
<1>1. DataInv => NothingLost
  <2> SUFFICES ASSUME DataInv, phase = "Idle", NEW line \in Lines
               PROVE  Newest(line) = latest[line]
    BY DEF NothingLost
  <2>1. \A l : ~ InHand(l)
    BY DEF InHand, Returning, Collecting, Snooping, VictimWrite, WritingVictim
  <2>2. ASSUME NEW c \in DirtyCopies(line) PROVE l1[c[1]][c[2]].data = latest[line]
    <3>1. c[1] \in RNF /\ c[2] \in L1Ways /\ l1[c[1]][c[2]].line = line
      BY <2>2 DEF DirtyCopies, Copies
    <3> QED BY <3>1, LinkAssumption DEF DataInv, FreshInv
  <2>3. ASSUME DirtyCopies(line) = {}, NEW e \in Entry(line)
        PROVE  lineRam[e[1]][e[2]] = latest[line]
    <3>1. /\ e[1] \in Sets /\ e[2] \in Ways
          /\ validLines[e[1]][e[2]] /\ tags[e[1]][e[2]] = line
      BY <2>3 DEF Entry
    <3>2. ~ DirtyCopy(line)
      <4>1. SUFFICES ASSUME NEW n \in RNF, NEW w \in L1Ways, l1[n][w].line = line,
                            IsDirty(l1[n][w].state)
                     PROVE  <<n, w>> \in DirtyCopies(line)
        BY <2>3 DEF DirtyCopy
      <4> QED BY <4>1 DEF DirtyCopies, Copies, State
    <3> QED BY <2>1, <3>1, <3>2 DEF DataInv, LevelsInv
  <2>4. ASSUME Entry(line) = {} PROVE memory[line] = latest[line]
    <3>1. NoEntry(line)
      <4>1. SUFFICES ASSUME NEW s \in Sets, NEW w \in Ways, Valid(s, w, line)
                     PROVE  <<s, w>> \in Entry(line)
        BY <2>4 DEF NoEntry
      <4> QED BY <4>1 DEF Entry, Valid
    <3> QED BY <3>1 DEF DataInv, LevelsInv
  <2>5. CASE DirtyCopies(line) # {}
    <3>1. PICK c : c = CHOOSE d \in DirtyCopies(line) : TRUE
      OBVIOUS
    <3>2. c \in DirtyCopies(line) /\ Newest(line) = l1[c[1]][c[2]].data
      BY <2>5, <3>1 DEF Newest
    <3> QED BY <2>2, <3>2
  <2>6. CASE DirtyCopies(line) = {} /\ Entry(line) # {}
    <3>1. PICK e : e = CHOOSE d \in Entry(line) : TRUE
      OBVIOUS
    <3>2. e \in Entry(line) /\ Newest(line) = lineRam[e[1]][e[2]]
      BY <2>6, <3>1 DEF Newest
    <3> QED BY <2>3, <2>6, <3>2
  <2>7. CASE DirtyCopies(line) = {} /\ Entry(line) = {}
    BY <2>4, <2>7 DEF Newest
  <2> QED BY <2>5, <2>6, <2>7
<1> QED BY <1>1, ClusterDataIsInvariant, PTL

\* A victim the Home finds clean is what memory has: dropping it without a write is safe.
THEOREM ClusterCleanMatchesMemory == Reliable => (Spec => []CleanMatchesMemory)
<1>1. DataInv => CleanMatchesMemory
  <2> SUFFICES ASSUME DataInv, NEW line \in Lines, NEW e \in Entry(line), ~ dirtyLines[e[1]][e[2]]
               PROVE  lineRam[e[1]][e[2]] = memory[line]
    BY DEF CleanMatchesMemory
  <2>1. /\ e[1] \in Sets /\ e[2] \in Ways
        /\ validLines[e[1]][e[2]] /\ tags[e[1]][e[2]] = line
    BY DEF Entry
  <2> QED BY <2>1 DEF DataInv, LevelsInv
<1> QED BY <1>1, ClusterDataIsInvariant, PTL

\* However an entry is dropped (replacement, CleanInvalid, MakeInvalid), no L1D keeps a
\* copy of its line, and memory has the line's newest version from then on.
THEOREM ClusterDroppedEntryIsSettled == Reliable => (Spec => DroppedEntryIsSettled)
<1> SUFFICES ASSUME Reliable PROVE Spec => DroppedEntryIsSettled
  OBVIOUS
<1> DEFINE Settles ==
      \A line \in Lines :
        Entry(line) # {} /\ Entry(line)' = {} =>
          Copies(line)' = {} /\ memory'[line] = latest'[line]
<1>1. ClusterInv' /\ DataInv' => Settles
  <2> SUFFICES ASSUME ClusterInv', DataInv', NEW line \in Lines, Entry(line)' = {}
               PROVE  Copies(line)' = {} /\ memory'[line] = latest'[line]
    OBVIOUS
  <2>1. NoEntry(line)'
    <3>1. SUFFICES ASSUME NEW s \in Sets, NEW w \in Ways, Valid(s, w, line)'
                   PROVE  <<s, w>> \in Entry(line)'
      BY DEF NoEntry
    <3> QED BY <3>1 DEF Entry, Valid
  <2>2. memory'[line] = latest'[line]
    BY <2>1 DEF DataInv, LevelsInv
  <2>3. \A n \in RNF : ~ Holds(n, line)'
    BY <2>1 DEF ClusterInv, CoherenceInv, HoldersAreTracked, Tracked, NoEntry
  <2>4. Copies(line)' = {}
    BY <2>3 DEF Copies, Holds
  <2> QED BY <2>2, <2>4
<1>2. [Next]_vars /\ ClusterInv' /\ DataInv' => [Settles]_vars
  BY <1>1
<1> HIDE DEF Settles
<1>3. Spec => [][Settles]_vars
  BY <1>2, ClusterIsInvariant, ClusterDataIsInvariant, PTL DEF Spec
<1> QED BY <1>3 DEF Settles, DroppedEntryIsSettled

------------------------------------------------------------------------------
(* The window of a snapshot.                                                *)

\* A pending reader's window only grows, and follows the newest data.
LEMMA WindowGrows ==
  ASSUME WindowFollows, NEW i \in IO, NEW p \in Packets
  PROVE  /\ io'[i].phase \in {"Read", "Acknowledge"} => window[i][p] \subseteq window'[i][p]
         /\ io'[i].phase = "Read" => latest'[io'[i].line][p] \in window'[i][p]
BY DEF WindowFollows

\* While the Home serves a snapshot its reader waits.
LEMMA ReaderWaits ==
  ASSUME TypeInv, ClusterInv, Busy, ~ MovedOn, Snapshot
  PROVE  /\ request.src \in IO /\ request.line \in Lines
         /\ io[request.src].phase = "Read"
              \/ (io[request.src].phase = "Acknowledge" /\ phase = "AwaitCompAck")
BY DEF ClusterInv, RequesterSideInv, PhaseFits, UncachedInv, Proper, Snapshot, TypeInv, TypeOK,
       HomeTypeOK, Request

\* Data on its way to a reader finds it waiting.
LEMMA DataFindsReader ==
  ASSUME TypeInv, ClusterInv, NEW m \in compData, m.dst \in IO
  PROVE  io[m.dst].phase = "Read" /\ m.dst = request.src /\ m.packet \in Packets
         /\ m.packet \notin io[m.dst].packets
<1>1. Answering /\ acks = {} /\ m.dst = request.src /\ m.packet \notin io[m.dst].packets
  BY DEF ClusterInv, RequesterSideInv, ReadDataInv
<1>2. Busy /\ ~ MovedOn
  BY <1>1 DEF Answering, Busy, MovedOn
<1>3. request.op = "ReadOnce"
  BY <1>1, <1>2, LinkAssumption DEF ClusterInv, RequesterSideInv, PhaseFits, Proper, RefillOps
<1>4. io[m.dst].phase = "Read"
  BY <1>1, <1>2, <1>3, ReaderWaits DEF ClusterInv, RequesterSideInv, UncachedInv, Snapshot
<1> QED BY <1>1, <1>4 DEF TypeInv, TypeOK, LinksTypeOK, CompletionData

\* The steps of caches and memory leave the readers and what they are sent alone.
LEMMA ReadersKept ==
  ASSUME TypeInv, ClusterInv, WindowInv, WindowFollows, UNCHANGED <<io, phase, request>>,
         \A m \in reqs' : m.op = "ReadOnce" => m \in reqs, acks \subseteq acks'
  PROVE  ReaderInv'
<1>1. \A i \in IO : io[i].phase = "Read" =>
        \A p \in Packets : latest'[io[i].line][p] \in window'[i][p]
  BY WindowGrows
<1>2. Busy' /\ ~ MovedOn' /\ Snapshot' => Busy /\ ~ MovedOn /\ Snapshot
  BY DEF Busy, MovedOn, Snapshot
<1> QED BY <1>1, <1>2 DEF WindowInv, ReaderInv

\* What is in flight and what has arrived stays in its window.
LEMMA SnapshotsStay ==
  ASSUME TypeInv, ClusterInv, WindowInv, WindowFollows, UNCHANGED io
  PROVE  /\ \A m \in compData : m.dst \in IO /\ ~ m.err => m.version \in window'[m.dst][m.packet]
         /\ \A i \in IO : io[i].phase \in {"Read", "Acknowledge"} /\ ~ io[i].err =>
              \A p \in io[i].packets : io[i].data[p] \in window'[i][p]
<1>1. ASSUME NEW m \in compData, m.dst \in IO, ~ m.err
      PROVE  m.version \in window'[m.dst][m.packet]
  BY <1>1, DataFindsReader, WindowGrows DEF WindowInv, SnapshotDataInv
<1>2. ASSUME NEW i \in IO, io[i].phase \in {"Read", "Acknowledge"}, ~ io[i].err,
             NEW p \in io[i].packets
      PROVE  io[i].data[p] \in window'[i][p]
  <2>1. p \in Packets
    BY DEF TypeInv, TypeOK, IOTypeOK
  <2> QED BY <1>2, <2>1, WindowGrows DEF WindowInv, SnapshotDataInv
<1> QED BY <1>1, <1>2

\* So do those of the Home that send no data and do not begin to.
LEMMA SnapshotDataKept ==
  ASSUME TypeInv, ClusterInv, WindowInv, WindowFollows, UNCHANGED io, compData' \subseteq compData,
         phase' = "SendCachedData" =>
           phase = "SendCachedData" /\ UNCHANGED <<request, completionError, lineBuffer>>
  PROVE  SnapshotDataInv'
<1>1. ASSUME phase' = "SendCachedData", Snapshot', ~ completionError', NEW p \in Packets
      PROVE  lineBuffer'[p] \in window'[request'.src][p]
  <2>1. phase = "SendCachedData" /\ UNCHANGED <<request, completionError, lineBuffer>>
    BY <1>1
  <2>2. Busy /\ ~ MovedOn /\ Snapshot
    BY <1>1, <2>1 DEF Busy, MovedOn, Snapshot
  <2> QED BY <1>1, <2>1, <2>2, ReaderWaits, WindowGrows DEF WindowInv, SnapshotDataInv
<1> QED BY <1>1, SnapshotsStay DEF SnapshotDataInv

\* The buffer of a snapshot is in its window as long as it does not move.
LEMMA MergesStay ==
  ASSUME TypeInv, ClusterInv, WindowFollows, UNCHANGED <<request, lineBuffer, reqData>>,
         io'[request.src] = io[request.src], Snooping, Snapshot, MergesIntoWindow
  PROVE  MergesIntoWindow'
<1>1. request.src \in IO /\ io[request.src].phase = "Read"
  BY ReaderWaits DEF Busy, MovedOn, Snooping
<1>2. \A p \in Packets : window[request.src][p] \subseteq window'[request.src][p]
  BY <1>1, WindowGrows
<1> QED BY <1>2 DEF MergesIntoWindow

\* The newest data is in the window.
LEMMA NewestInWindow ==
  ASSUME TypeInv, ClusterInv, ReaderInv, Busy, phase # "AwaitCompAck", Snapshot, NEW p \in Packets
  PROVE  latest[request.line][p] \in window[request.src][p]
<1>1. ~ MovedOn
  BY DEF MovedOn
<1> QED BY <1>1, ReaderWaits DEF ReaderInv

------------------------------------------------------------------------------
(* The window: the caches.                                                  *)

\* Neither a store nor a refill takes a dirty way from its line.
LEMMA QuietKeepsWay ==
  ASSUME TypeInv, ClusterInv, DataInv, NEW n \in RNF, CacheStep(n), QuietStep(n),
         NEW k \in RNF, NEW w \in L1Ways, IsDirty(l1[k][w].state)
  PROVE  l1'[k][w].line = l1[k][w].line /\ IsDirty(l1'[k][w].state)
<1>3. CASE StoreHit(n)
  <2>1. PICK v \in L1Ways : StoreEffect(n, v)
    BY <1>3, StoreHitEffect
  <2>2. CASE k = n /\ w = v
    BY <2>1, <2>2 DEF StoreEffect, IsDirty
  <2>3. CASE ~ (k = n /\ w = v)
    BY <2>1, <2>3 DEF StoreEffect, OtherWays
  <2> QED BY <2>2, <2>3
<1>4. CASE InstallRefill(n)
  <2>1. InstallEffect(n) /\ engine[n].phase = "Complete"
    BY <1>4, InstallRefillEffect DEF InstallRefill, RefillCanComplete
  <2>2. ~ (k = n /\ w = engine[n].way)
    BY <2>1 DEF InstallEffect, Installs, DataInv, NodeDataInv, DataFits
  <2> QED BY <2>1, <2>2 DEF InstallEffect, OtherWays
<1>5. CASE l1' = l1
  BY <1>5
<1> QED BY <1>3, <1>4, <1>5 DEF QuietStep, StartMiss, StartMaintenance, FinishMaintenance,
     CopybackGrant, RefillData, RefillAcknowledge, FinishWithoutInstall

\* A probe on behalf of a snapshot and whom it concerns.
LEMMA SnapshotProbes ==
  ASSUME ClusterInv, Probing, Snapshot, ~ snoopVictim
  PROVE  /\ SnoopAddress = request.line /\ SnoopOp = "SnpOnce"
         /\ \A n \in RNF : Owes(n) /\ n \notin pendingSnoops =>
              phase = "AwaitSnoop" /\ n = expectedSnoop
         /\ \A n \in RNF : Owes(n) /\ snoop[n].active => DirtyHit(snoop[n])
<1>1. SnoopAddress = request.line /\ SnoopOp = "SnpOnce"
  BY DEF SnoopAddress, SnoopOp, HomeSnoopOp, Snapshot
<1>2. ASSUME NEW n \in RNF, Owes(n), snoop[n].active PROVE DirtyHit(snoop[n])
  <2>1. phase = "AwaitSnoop" /\ n = expectedSnoop /\ n \notin pendingSnoops /\ snps = {}
    BY <1>2 DEF ClusterInv, ProbeInv, ProbeInFlightInv
  <2> QED BY <1>2, <2>1 DEF Owes
<1> QED BY <1>1, <1>2 DEF Owes

\* A dirty cache that owes data still does, until it has sent the last of it.
LEMMA CacheProbedWindow ==
  ASSUME TypeInv, ClusterInv, DataInv, WindowInv, WindowFollows, NEW n \in RNF, CacheStep(n)
  PROVE  ProbedWindowInv'
<1>1. UNCHANGED <<phase, request, lineBuffer, snoopVictim, maintenanceHit, pendingSnoops,
                  expectedSnoop, io>>
  BY DEF CacheStep, homeVars, requesterRegs, lookupRegs, snoopTargets
<1> SUFFICES ASSUME Probing, Snapshot, ~ snoopVictim
             PROVE  MergesIntoWindow' \/ \E k \in RNF : Owes(k)'
  BY <1>1 DEF ProbedWindowInv, Probing, Snooping, Snapshot
<1>2. MergesIntoWindow \/ \E k \in RNF : Owes(k)
  BY DEF WindowInv, ProbedWindowInv
<1>3. SnoopAddress = request.line /\ SnoopOp = "SnpOnce" /\ Snooping
  BY SnapshotProbes DEF Probing
<1>4. UNCHANGED reqData /\ MergesIntoWindow => MergesIntoWindow'
  BY <1>1, <1>3, MergesStay
<1>5. CASE QuietStep(n)
  <2>1. UNCHANGED <<reqData, snps, snoop>>
    BY <1>5 DEF QuietStep, StoreHit, StartMiss, StartMaintenance, FinishMaintenance,
       CopybackGrant, RefillData, RefillAcknowledge, InstallRefill, FinishWithoutInstall,
       requesterLinks
  <2>2. ASSUME NEW k \in RNF, Owes(k) PROVE Owes(k)'
    <3>1. PICK w \in L1Ways : l1[k][w].line = request.line /\ IsDirty(l1[k][w].state)
      BY <2>2 DEF Owes
    <3>2. l1'[k][w].line = request.line /\ IsDirty(l1'[k][w].state)
      BY <1>5, <3>1, QuietKeepsWay
    <3> QED BY <1>1, <2>1, <2>2, <3>2 DEF Owes
  <2> QED BY <1>2, <1>4, <2>1, <2>2
<1>6. ~ CopybackSend(n)
  BY <1>3, CopybackFacts DEF CopybackSend, Snooping
<1>7. CASE SnoopAccept(n)
  <2>1. UNCHANGED <<reqData, l1>>
    BY <1>7 DEF SnoopAccept
  <2>2. PICK m \in snps : AcceptEffect(n, m)
    BY <1>7, SnoopAcceptEffect
  <2>3. /\ phase = "AwaitSnoop" /\ n = expectedSnoop /\ n \notin pendingSnoops
        /\ m.line = request.line /\ m.op = "SnpOnce"
    BY <1>3, <2>2 DEF AcceptEffect, ClusterInv, ProbeInv, ProbeInFlightInv
  <2>4. ASSUME NEW k \in RNF, Owes(k) PROVE Owes(k)'
    <3>1. PICK w \in L1Ways : l1[k][w].line = request.line /\ IsDirty(l1[k][w].state)
      BY <2>4 DEF Owes
    <3>2. CASE k \in pendingSnoops
      BY <1>1, <2>1, <3>1, <3>2 DEF Owes
    <3>3. CASE k \notin pendingSnoops
      <4>1. k = n
        BY <2>3, <2>4, <3>3, SnapshotProbes
      <4>2. w \in HitWays(n, m.line) /\ m.line \in Lines
        BY <2>3, <3>1, <4>1 DEF HitWays, TypeInv, TypeOK, HomeTypeOK, Request
      <4>3. snoop'[n].active /\ snoop'[n].hit /\ snoop'[n].op = "SnpOnce"
            /\ snoop'[n].way \in HitWays(n, m.line)
            /\ snoop'[n].state = l1[n][snoop'[n].way].state
        BY <2>2, <2>3, <4>2 DEF AcceptEffect
      <4>4. snoop'[n].way = w
        BY <4>2, <4>3, LinkAssumption DEF HitWays, ClusterInv, L1Inv, WaysFit
      <4>5. DirtyHit(snoop'[n])
        BY <3>1, <4>1, <4>3, <4>4 DEF DirtyHit, DiscardsDirty
      <4> QED BY <1>1, <2>1, <2>3, <3>1, <4>1, <4>3, <4>5 DEF Owes
    <3> QED BY <3>2, <3>3
  <2> QED BY <1>2, <1>4, <2>1, <2>4
<1>8. CASE SnoopRespond(n)
  <2>1. UNCHANGED reqData /\ snoop[n].active /\ ~ DirtyHit(snoop[n])
    BY <1>8 DEF SnoopRespond
  <2>2. phase = "AwaitSnoop" /\ n = expectedSnoop
    BY <2>1, ProbeFacts
  <2>3. ASSUME NEW k \in RNF, Owes(k) PROVE Owes(k)'
    <3>1. k # n /\ k \in pendingSnoops
      BY <2>1, <2>2, <2>3, SnapshotProbes
    <3>2. l1'[k] = l1[k]
      BY <3>1, CacheKeepsOthers
    <3> QED BY <1>1, <2>3, <3>1, <3>2 DEF Owes
  <2> QED BY <1>2, <1>4, <2>1, <2>3
<1>9. CASE SnoopSendData(n)
  <2>1. PICK d : SnoopDataEffect(n, d)
    BY <1>9, SnoopSendDataEffect
  <2>2. PICK packets, data : packets = snoop[n].packets \cup {d.packet} /\ data = snoop[n].data
    OBVIOUS
  <2>3. /\ snoop[n].active /\ DirtyHit(snoop[n]) /\ snoop[n].hit /\ IsDirty(snoop[n].state)
        /\ phase = "AwaitSnoop" /\ n = expectedSnoop /\ snoop[n].way \in L1Ways
        /\ l1[n][snoop[n].way].line = request.line
        /\ l1[n][snoop[n].way].state = snoop[n].state
        /\ data = latest[request.line]
    BY <1>3, <1>9, <2>2, ProbeFacts DEF SnoopSendData, DirtyHit
  <2>4. CASE packets # Packets
    <3>1. l1' = l1 /\ snoop'[n] = [snoop[n] EXCEPT !.packets = @ \cup {d.packet}]
      BY <2>1, <2>2, <2>4 DEF SnoopDataEffect
    <3>2. /\ snoop'[n].active /\ snoop'[n].hit /\ snoop'[n].state = snoop[n].state
          /\ snoop'[n].op = snoop[n].op
      BY <2>3, <3>1, CacheTypes DEF SnoopState
    <3>3. DirtyHit(snoop'[n])
      BY <2>3, <3>2 DEF DirtyHit
    <3>4. Owes(n)'
      BY <1>1, <2>3, <3>1, <3>2, <3>3 DEF Owes
    <3> QED BY <3>4
  <2>5. CASE packets = Packets
    <3>1. Merges(packets, data)'
      BY <1>9, <2>1, <2>2, SendMerges
    <3>2. UNCHANGED latest
      BY <1>9 DEF SnoopSendData, history
    <3>3. \A p \in Packets : data[p] \in window'[request.src][p]
      <4>1. io'[request.src].phase = "Read" /\ request.src \in IO
        BY <1>1, <1>3, <2>3, ReaderWaits DEF Busy, MovedOn
      <4>2. io'[request.src].line = request.line
        BY <1>1, <2>3 DEF WindowInv, ReaderInv, Busy, MovedOn
      <4> QED BY <2>3, <3>2, <4>1, <4>2, WindowGrows
    <3>4. MergesIntoWindow'
      BY <1>1, <2>5, <3>1, <3>3 DEF Merges, MergesIntoWindow
    <3> QED BY <3>4
  <2> QED BY <2>4, <2>5
<1> QED BY <1>5, <1>6, <1>7, <1>8, <1>9
        DEF CacheStep, CoreStep, EngineDuty, SnoopDuty, QuietStep

\* A cache asks for no snapshot and sends no data to a reader.
LEMMA CacheWindow ==
  ASSUME TypeInv, ClusterInv, DataInv, WindowInv, WindowFollows, NEW n \in RNF, CacheStep(n),
         ClusterInv'
  PROVE  WindowInv'
<1>1. UNCHANGED <<io, phase, request, completionError, lineBuffer>>
  BY DEF CacheStep, homeVars, requesterRegs
<1>2. compData' \subseteq compData /\ acks \subseteq acks'
  BY DEF CacheStep, CoreStep, EngineDuty, SnoopDuty, StoreHit, StartMiss,
     StartMaintenance, FinishMaintenance, CopybackGrant, CopybackSend, RefillData, InstallRefill,
     RefillAcknowledge, FinishWithoutInstall, SnoopAccept, SnoopRespond, SnoopSendData,
     requesterLinks
<1>3. \A m \in reqs' : m \in reqs \/ m.src = n
  <2>1. CASE StartMiss(n)
    BY <2>1 DEF StartMiss, CopybackRequest, RefillRequest
  <2>2. CASE StartMaintenance(n)
    BY <2>2 DEF StartMaintenance
  <2>3. CASE CopybackSend(n)
    BY <2>3 DEF CopybackSend, RefillRequest
  <2>4. CASE reqs' = reqs
    BY <2>4
  <2> QED BY <2>1, <2>2, <2>3, <2>4 DEF CacheStep, CoreStep, EngineDuty, SnoopDuty, StoreHit,
     FinishMaintenance, CopybackGrant, RefillData, InstallRefill, RefillAcknowledge,
     FinishWithoutInstall, SnoopAccept, SnoopRespond, SnoopSendData, requesterLinks
<1>4. \A m \in reqs' : m.op = "ReadOnce" => m.src \in IO
  BY DEF ClusterInv, RequesterSideInv, RequestsInv, RequestFits, Proper
<1>5. ReaderInv'
  BY <1>1, <1>2, <1>3, <1>4, ReadersKept, LinkAssumption
<1>6. SnapshotDataInv'
  BY <1>1, <1>2, SnapshotDataKept
<1> QED BY <1>5, <1>6, CacheProbedWindow DEF WindowInv

------------------------------------------------------------------------------
(* The window: memory and the uncached requesters.                          *)

\* Nothing a reader depends on is in memory's hands.
LEMMA MemoryWindow ==
  ASSUME TypeInv, ClusterInv, DataInv, WindowInv, WindowFollows, MemoryStep
  PROVE  WindowInv'
<1>1. UNCHANGED <<homeVars, requesterLinks, io, l1, snoop>>
  BY DEF MemoryStep, ReadMemory, AcceptWrite, WriteMemory, CompleteWrite, cacheVars
<1>2. UNCHANGED <<phase, request, completionError, lineBuffer, snoopVictim, maintenanceHit,
                  pendingSnoops, expectedSnoop, reqs, snps, acks, compData, reqData>>
  BY <1>1 DEF homeVars, requesterRegs, lookupRegs, snoopTargets, requesterLinks
<1>3. ReaderInv' /\ SnapshotDataInv'
  BY <1>1, <1>2, ReadersKept, SnapshotDataKept
<1>4. ProbedWindowInv'
  <2>1. Snooping /\ Snapshot /\ MergesIntoWindow => MergesIntoWindow'
    BY <1>1, <1>2, MergesStay
  <2>2. \A n \in RNF : Owes(n) => Owes(n)'
    BY <1>1, <1>2 DEF Owes
  <2> QED BY <1>2, <2>1, <2>2 DEF WindowInv, ProbedWindowInv, Probing, Snooping, Snapshot
<1> QED BY <1>3, <1>4 DEF WindowInv

\* What an uncached requester does to itself.
LEMMA UncachedEffect ==
  ASSUME TypeInv, NEW i \in IO, IOStep(i)
  PROVE  /\ OtherUncached(i)
         /\ UNCHANGED <<homeVars, cacheVars, snps, latest>>
         /\ compData' \subseteq compData /\ acks \subseteq acks'
         /\ reqData' = reqData \/ WriteUniqueData(i)
         /\ io[i].phase \in {"Read", "Acknowledge"} => UNCHANGED reqs
         /\ io[i].phase = "Acknowledge" => acks' # {}
         /\ io[i].phase = "Read" =>
              \E m \in compData :
                /\ m.dst = i /\ io'[i].phase \in {"Read", "Acknowledge"}
                /\ io'[i].phase = "Acknowledge" => io'[i].packets = Packets
                /\ io'[i].line = io[i].line /\ io'[i].packets = io[i].packets \cup {m.packet}
                /\ io'[i].data = [io[i].data EXCEPT ![m.packet] = m.version]
                /\ io'[i].err = (io[i].err \/ m.err)
         /\ io[i].phase # "Read" => io'[i].phase # "Acknowledge"
         /\ io[i].phase # "Read" /\ io'[i].phase = "Read" =>
              /\ io[i].phase = "Idle" /\ io'[i].packets = {}
         /\ \A m \in reqs' \ reqs : m.op = "ReadOnce" =>
              m.src = i /\ io[i].phase = "Idle" /\ io'[i].line = m.line
<1>0. io \in [IO -> [phase : IOPhases, line : Lines \cup {NoLine}, packets : SUBSET Packets,
                     data : LineData, err : BOOLEAN]]
  BY DEF TypeInv, TypeOK, IOTypeOK
<1> USE <1>0 DEF OtherUncached, history
<1>1. UNCHANGED <<homeVars, cacheVars, snps, latest>>
  BY DEF IOStep, IOBegin, IODuty, ReadOnce, ReadOnceData, ReadOnceAcknowledge, WriteUnique,
     WriteUniqueData, WriteUniqueCompletion
<1>2. CASE ReadOnce(i)
  <2>1. PICK line \in Lines :
          /\ reqs' = reqs \cup {[op |-> "ReadOnce", src |-> i, line |-> line,
                                 packets |-> Packets, snoopMe |-> FALSE]}
          /\ io' = [io EXCEPT ![i] = [IdleIO EXCEPT !.phase = "Read", !.line = line]]
    BY <1>2 DEF ReadOnce
  <2>2. OtherUncached(i) /\ io'[i].phase = "Read" /\ io'[i].packets = {} /\ io'[i].line = line
    BY <2>1 DEF IdleIO
  <2>3. io[i].phase = "Idle" /\ UNCHANGED <<compData, acks, reqData>>
    BY <1>2 DEF ReadOnce
  <2> QED BY <1>1, <2>1, <2>2, <2>3
<1>3. CASE ReadOnceData(i)
  <2>1. PICK m \in compData :
          /\ m.dst = i /\ compData' = compData \ {m}
          /\ io' = [io EXCEPT ![i] =
               [io[i] EXCEPT !.packets = io[i].packets \cup {m.packet},
                             !.data = [@ EXCEPT ![m.packet] = m.version],
                             !.err = @ \/ m.err,
                             !.phase = IF io[i].packets \cup {m.packet} = Packets
                                       THEN "Acknowledge" ELSE "Read"]]
    BY <1>3 DEF ReadOnceData
  <2>2. /\ OtherUncached(i) /\ io'[i].phase \in {"Read", "Acknowledge"}
        /\ io'[i].phase = "Acknowledge" => io'[i].packets = Packets
        /\ io'[i].line = io[i].line /\ io'[i].packets = io[i].packets \cup {m.packet}
        /\ io'[i].data = [io[i].data EXCEPT ![m.packet] = m.version]
        /\ io'[i].err = (io[i].err \/ m.err)
    BY <2>1
  <2>3. io[i].phase = "Read" /\ UNCHANGED <<reqs, acks, reqData>>
    BY <1>3 DEF ReadOnceData
  <2> QED BY <1>1, <2>1, <2>2, <2>3
<1>4. CASE ReadOnceAcknowledge(i)
  <2>1. /\ io[i].phase = "Acknowledge" /\ UNCHANGED <<reqs, compData, reqData>>
        /\ acks' = acks \cup {CompAck(i)} /\ io' = [io EXCEPT ![i] = IdleIO]
    BY <1>4 DEF ReadOnceAcknowledge
  <2>2. OtherUncached(i) /\ io'[i].phase = "Idle"
    BY <2>1 DEF IdleIO
  <2> QED BY <1>1, <2>1, <2>2
<1>5. CASE WriteUnique(i)
  <2>1. PICK line \in Lines, p \in Packets :
          /\ reqs' = reqs \cup {[op |-> "WriteUniquePtl", src |-> i, line |-> line,
                                 packets |-> {p}, snoopMe |-> FALSE]}
          /\ io' = [io EXCEPT ![i] = [IdleIO EXCEPT !.phase = "Write", !.line = line,
                                        !.packets = {p}, !.data[p] = stores + 1]]
    BY <1>5 DEF WriteUnique
  <2>2. OtherUncached(i) /\ io'[i].phase = "Write"
    BY <2>1 DEF IdleIO
  <2>3. io[i].phase = "Idle" /\ UNCHANGED <<compData, acks, reqData>>
    BY <1>5 DEF WriteUnique
  <2> QED BY <1>1, <2>1, <2>2, <2>3
<1>6. CASE WriteUniqueData(i)
  <2>1. /\ io[i].phase = "Write" /\ UNCHANGED <<reqs, compData, acks>>
        /\ io' = [io EXCEPT ![i].phase = "Completion"]
    BY <1>6 DEF WriteUniqueData
  <2>2. OtherUncached(i) /\ io'[i].phase = "Completion"
    BY <2>1
  <2> QED BY <1>1, <1>6, <2>1, <2>2
<1>7. CASE WriteUniqueCompletion(i)
  <2>1. /\ io[i].phase = "Completion" /\ UNCHANGED <<reqs, compData, acks, reqData>>
        /\ io' = [io EXCEPT ![i] = IdleIO]
    BY <1>7 DEF WriteUniqueCompletion
  <2>2. OtherUncached(i) /\ io'[i].phase = "Idle"
    BY <2>1 DEF IdleIO
  <2> QED BY <1>1, <2>1, <2>2
<1> QED BY <1>2, <1>3, <1>4, <1>5, <1>6, <1>7 DEF IOStep, IOBegin, IODuty

\* A reader that is being served goes on with its own transaction, or is done.
LEMMA UncachedWindow ==
  ASSUME TypeInv, ClusterInv, DataInv, WindowInv, WindowFollows, NEW i \in IO, IOStep(i)
  PROVE  WindowInv'
<1>1. /\ OtherUncached(i)
      /\ UNCHANGED <<homeVars, cacheVars, snps, latest>>
      /\ compData' \subseteq compData /\ acks \subseteq acks'
      /\ reqData' = reqData \/ WriteUniqueData(i)
      /\ io[i].phase \in {"Read", "Acknowledge"} => UNCHANGED reqs
      /\ io[i].phase = "Acknowledge" => acks' # {}
      /\ io[i].phase # "Read" => io'[i].phase # "Acknowledge"
      /\ io[i].phase # "Read" /\ io'[i].phase = "Read" =>
           io[i].phase = "Idle" /\ io'[i].packets = {}
      /\ \A m \in reqs' \ reqs : m.op = "ReadOnce" =>
           m.src = i /\ io[i].phase = "Idle" /\ io'[i].line = m.line
  BY UncachedEffect
<1>2. UNCHANGED <<phase, request, completionError, lineBuffer, snoopVictim, maintenanceHit,
                  pendingSnoops, expectedSnoop, l1, snoop>>
  BY <1>1 DEF homeVars, requesterRegs, lookupRegs, snoopTargets, cacheVars
<1>3. ASSUME io[i].phase = "Read"
      PROVE  \E m \in compData :
               /\ m.dst = i /\ io'[i].phase \in {"Read", "Acknowledge"}
               /\ io'[i].phase = "Acknowledge" => io'[i].packets = Packets
               /\ io'[i].line = io[i].line /\ io'[i].packets = io[i].packets \cup {m.packet}
               /\ io'[i].data = [io[i].data EXCEPT ![m.packet] = m.version]
               /\ io'[i].err = (io[i].err \/ m.err)
  BY <1>3, UncachedEffect
<1>4. ASSUME NEW k \in IO, io[k].phase = "Read"
      PROVE  io'[k].phase \in {"Read", "Acknowledge"} /\ io'[k].line = io[k].line
  BY <1>1, <1>3, <1>4 DEF OtherUncached
<1>5. ReaderInv'
  <2>1. \A k \in IO : io'[k].phase = "Read" =>
          \A p \in Packets : latest'[io'[k].line][p] \in window'[k][p]
    BY WindowGrows
  <2>2. \A k \in IO : io'[k].phase = "Acknowledge" => io'[k].packets = Packets
    BY <1>1, <1>3 DEF OtherUncached, WindowInv, ReaderInv
  <2>3. ASSUME NEW m \in reqs', m.op = "ReadOnce"
        PROVE  io'[m.src].line = m.line
    <3>1. CASE m \in reqs
      <4>1. io[m.src].phase = "Read" /\ m.src \in IO /\ io[m.src].line = m.line
        BY <2>3, <3>1 DEF ClusterInv, RequesterSideInv, RequestsInv, RequestFits, Proper,
           WindowInv, ReaderInv
      <4> QED BY <1>4, <4>1
    <3>2. CASE m \notin reqs
      BY <1>1, <2>3, <3>2
    <3> QED BY <3>1, <3>2
  <2>4. ASSUME Busy', ~ MovedOn', Snapshot'
        PROVE  io'[request.src].line = request.line
    <3>1. Busy /\ ~ MovedOn /\ Snapshot
      BY <1>1, <1>2, <2>4 DEF Busy, MovedOn, Snapshot
    <3>2. /\ request.src \in IO /\ io[request.src].line = request.line
          /\ io[request.src].phase = "Read"
               \/ (io[request.src].phase = "Acknowledge" /\ phase = "AwaitCompAck")
      BY <3>1, ReaderWaits DEF WindowInv, ReaderInv
    <3>3. CASE io[request.src].phase = "Read"
      BY <1>4, <3>2, <3>3
    <3>4. CASE io[request.src].phase = "Acknowledge" /\ phase = "AwaitCompAck"
      <4>1. request.src # i
        BY <1>1, <1>2, <2>4, <3>4 DEF MovedOn
      <4> QED BY <1>1, <3>2, <4>1 DEF OtherUncached
    <3> QED BY <3>2, <3>3, <3>4
  <2> QED BY <1>2, <2>1, <2>2, <2>3, <2>4 DEF ReaderInv
<1>6. ProbedWindowInv'
  <2> SUFFICES ASSUME Probing, Snapshot, ~ snoopVictim
               PROVE  MergesIntoWindow' \/ \E k \in RNF : Owes(k)'
    BY <1>2 DEF ProbedWindowInv, Probing, Snooping, Snapshot
  <2>1. Snooping /\ request.src \in IO /\ io[request.src].phase = "Read"
    BY ReaderWaits DEF Probing, Snooping, Busy, MovedOn
  <2>2. compData = {}
    BY <2>1 DEF ClusterInv, RequesterSideInv, ReadDataInv, Answering, Snooping
  <2>3. io'[request.src] = io[request.src]
    BY <1>1, <1>3, <2>1, <2>2 DEF OtherUncached
  <2>4. reqData' = reqData
    BY <1>1, <2>1 DEF WriteUniqueData, ClusterInv, RequesterSideInv, ResponsesInv, Snooping
  <2>5. MergesIntoWindow => MergesIntoWindow'
    BY <1>2, <2>1, <2>3, <2>4, MergesStay
  <2>6. \A k \in RNF : Owes(k) => Owes(k)'
    BY <1>1, <1>2 DEF Owes
  <2> QED BY <2>5, <2>6 DEF WindowInv, ProbedWindowInv
<1>7. SnapshotDataInv'
  <2>1. ASSUME phase' = "SendCachedData", Snapshot', ~ completionError', NEW p \in Packets
        PROVE  lineBuffer'[p] \in window'[request'.src][p]
    <3>1. phase = "SendCachedData" /\ Snapshot /\ ~ completionError /\ Busy /\ ~ MovedOn
      BY <1>2, <2>1 DEF Snapshot, Busy, MovedOn
    <3>2. request.src \in IO /\ io[request.src].phase = "Read"
      BY <3>1, ReaderWaits
    <3> QED BY <1>2, <1>4, <2>1, <3>1, <3>2, WindowGrows DEF WindowInv, SnapshotDataInv
  <2>2. ASSUME NEW m \in compData', m.dst \in IO, ~ m.err
        PROVE  m.version \in window'[m.dst][m.packet]
    <3>1. m \in compData
      BY <1>1
    <3>2. io[m.dst].phase = "Read" /\ m.packet \in Packets
      BY <2>2, <3>1, DataFindsReader
    <3> QED BY <1>4, <2>2, <3>1, <3>2, WindowGrows DEF WindowInv, SnapshotDataInv
  <2>3. ASSUME NEW k \in IO, io'[k].phase \in {"Read", "Acknowledge"}, ~ io'[k].err,
               NEW p \in io'[k].packets
        PROVE  io'[k].data[p] \in window'[k][p]
    <3>1. CASE io'[k] = io[k]
      <4>1. p \in Packets
        BY <2>3, <3>1 DEF TypeInv, TypeOK, IOTypeOK
      <4> QED BY <2>3, <3>1, <4>1, WindowGrows DEF WindowInv, SnapshotDataInv
    <3>2. CASE k = i /\ io[i].phase = "Read"
      <4>1. PICK m \in compData :
              /\ m.dst = i /\ io'[i].packets = io[i].packets \cup {m.packet}
              /\ io'[i].data = [io[i].data EXCEPT ![m.packet] = m.version]
              /\ io'[i].err = (io[i].err \/ m.err)
        BY <1>3, <3>2
      <4>2. /\ m.packet \in Packets /\ io[i].packets \subseteq Packets
            /\ io[i].data \in [Packets -> Versions]
            /\ m.err \in BOOLEAN /\ io[i].err \in BOOLEAN
        BY DEF TypeInv, TypeOK, IOTypeOK, LineData, LinksTypeOK, CompletionData
      <4>3. ~ m.err /\ ~ io[i].err
        BY <2>3, <3>2, <4>1, <4>2
      <4>4. m.version \in window[i][m.packet]
        BY <4>1, <4>3 DEF WindowInv, SnapshotDataInv
      <4>5. \A q \in io[i].packets : io[i].data[q] \in window[i][q]
        BY <3>2, <4>3 DEF WindowInv, SnapshotDataInv
      <4>6. p \in Packets /\ window[i][p] \subseteq window'[i][p]
        BY <2>3, <3>2, <4>1, <4>2, WindowGrows
      <4>7. CASE p = m.packet
        BY <3>2, <4>1, <4>2, <4>4, <4>6, <4>7
      <4>8. CASE p # m.packet
        BY <2>3, <3>2, <4>1, <4>2, <4>5, <4>6, <4>8
      <4> QED BY <4>7, <4>8
    <3>3. CASE k = i /\ io[i].phase # "Read"
      BY <1>1, <2>3, <3>3
    <3> QED BY <1>1, <3>1, <3>2, <3>3 DEF OtherUncached
  <2> QED BY <2>1, <2>2, <2>3 DEF SnapshotDataInv
<1> QED BY <1>5, <1>6, <1>7 DEF WindowInv

------------------------------------------------------------------------------
(* The window: the Home.                                                    *)

\* A step of the Home, seen from the readers.
HomeServes ==
  /\ TypeInv /\ ClusterInv /\ DataInv /\ WindowInv /\ WindowFollows /\ HomeStep
  /\ TypeInv' /\ ClusterInv' /\ DataInv'

\* The Home keeps its request until it is idle, and moves neither readers nor caches.
LEMMA HomeServesAlone ==
  ASSUME HomeServes
  PROVE  /\ UNCHANGED <<io, l1, snoop>>
         /\ HomeAcceptRequest \/ (Busy /\ request' = request /\ reqs' = reqs)
         /\ phase = "AwaitCompAck" => phase' = "Idle"
<1>1. UNCHANGED <<io, l1, snoop>>
  BY DEF HomeServes, HomeStep, cacheVars
<1>2. HomeAcceptRequest \/ (Busy /\ request' = request /\ reqs' = reqs)
  BY DEF HomeServes, HomeStep, HomeQuietStep, HomeOrdersWrite, HomeOrdersMaintenance,
     HomeSendDBID, HomeReceiveData, HomeLookup, HomeFinishCopyBack, HomeSendSnoop, HomeSnoopsDone,
     HomeSnoopResponse, HomeSnoopData, HomeAfterSnoops, HomeSendMemRequest, HomeVictimDBID,
     HomeSendVictimData, HomeVictimCompletion, HomeReceiveFill, HomeSendCompletion,
     HomeSendCachedData, HomeCompAck, HomeMergeRequesterData, HomeFinishMaintenance, Busy,
     requesterRegs, requesterLinks
<1>3. phase = "AwaitCompAck" => phase' = "Idle"
  BY DEF HomeServes, HomeStep, HomeQuietStep, HomeOrdersWrite, HomeOrdersMaintenance,
     HomeAcceptRequest, HomeSendDBID, HomeReceiveData, HomeLookup, HomeFinishCopyBack,
     HomeSendSnoop, HomeSnoopsDone, HomeSnoopResponse, HomeSnoopData, HomeAfterSnoops,
     HomeSendMemRequest, HomeVictimDBID, HomeSendVictimData, HomeVictimCompletion,
     HomeReceiveFill, HomeSendCompletion, HomeSendCachedData, HomeCompAck,
     HomeMergeRequesterData, HomeFinishMaintenance
<1> QED BY <1>1, <1>2, <1>3

\* Accepting a snapshot takes its request as it is.
LEMMA HomeReaders ==
  ASSUME HomeServes
  PROVE  ReaderInv'
<1>1. /\ UNCHANGED io
      /\ HomeAcceptRequest \/ (Busy /\ request' = request /\ reqs' = reqs)
      /\ phase = "AwaitCompAck" => phase' = "Idle"
  BY HomeServesAlone
<1>2. \A i \in IO : io[i].phase = "Read" =>
        \A p \in Packets : latest'[io[i].line][p] \in window'[i][p]
  BY <1>1, WindowGrows DEF HomeServes
<1>3. CASE HomeAcceptRequest
  <2>1. reqs' \subseteq reqs /\ request' \in reqs
    BY <1>3 DEF HomeAcceptRequest
  <2> QED BY <1>1, <1>2, <2>1 DEF ReaderInv, Snapshot, HomeServes, WindowInv
<1>4. CASE Busy /\ request' = request /\ reqs' = reqs
  <2>1. Busy' /\ ~ MovedOn' /\ Snapshot' => Busy /\ ~ MovedOn /\ Snapshot
    BY <1>1, <1>4 DEF Busy, MovedOn, Snapshot
  <2> QED BY <1>1, <1>2, <1>4, <2>1 DEF ReaderInv, HomeServes, WindowInv
<1> QED BY <1>1, <1>3, <1>4

\* The window of the reader that is served has the newest data after the step too.
LEMMA ReadersWindowGoesOn ==
  ASSUME HomeServes, Busy, phase # "AwaitCompAck", Snapshot
  PROVE  \A p \in Packets : latest'[request.line][p] \in window'[request.src][p]
<1>1. UNCHANGED io
  BY HomeServesAlone
<1>2. /\ request.src \in IO /\ io[request.src].phase = "Read"
      /\ io[request.src].line = request.line
  BY ReaderWaits DEF HomeServes, MovedOn, WindowInv, ReaderInv
<1> QED BY <1>1, <1>2, WindowGrows DEF HomeServes

\* How the Home comes to probe, and goes on.
LEMMA LeadsToProbing ==
  ASSUME HomeStep, Probing'
  PROVE  HomeLookup \/ HomeSendSnoop \/ HomeSnoopsDone \/ HomeSnoopResponse \/ HomeSnoopData
BY DEF HomeStep, HomeQuietStep, HomeOrdersWrite, HomeOrdersMaintenance, HomeAcceptRequest,
   HomeSendDBID, HomeReceiveData, HomeFinishCopyBack, HomeAfterSnoops, HomeSendMemRequest,
   HomeVictimDBID, HomeSendVictimData, HomeVictimCompletion, HomeReceiveFill,
   HomeSendCompletion, HomeSendCachedData, HomeCompAck, HomeMergeRequesterData,
   HomeFinishMaintenance, AnswerPhase, FilledPhase, Probing, Snooping

\* The Home probes every cache that has the line dirty, and merges what it gets.
LEMMA HomeProbedWindow ==
  ASSUME HomeServes
  PROVE  ProbedWindowInv'
<1> USE DEF HomeServes
<1> SUFFICES ASSUME Probing', Snapshot', ~ snoopVictim'
             PROVE  MergesIntoWindow' \/ \E n \in RNF : Owes(n)'
  BY DEF ProbedWindowInv
<1>1. UNCHANGED <<io, l1, snoop>>
  BY HomeServesAlone
<1>2. CASE HomeLookup
  <2>1. /\ phase = "Lookup" /\ phase' = "SendSnoop"
        /\ UNCHANGED <<request, validLines, tags, residentLines, latest>>
        /\ (snoopVictim' <=> ~ LookupHit /\ ~ Maintenance)
        /\ pendingSnoops' = IF Copyback THEN pendingSnoops ELSE SnoopMask
    <3>1. phase = "Lookup" /\ phase' = "SendSnoop"
      BY <1>2 DEF HomeLookup, Probing, Snooping
    <3>2. UNCHANGED latest
      BY <3>1 DEF HomeStep, HomeOrdersWrite, HomeMergeRequesterData, HomeOrdersMaintenance,
         HomeFinishMaintenance, history
    <3> QED BY <1>2, <3>1, <3>2 DEF HomeLookup, requesterRegs, directory, storage
  <2>2. Snapshot /\ ~ Copyback /\ ~ Maintenance /\ LookupHit
    BY <2>1 DEF Snapshot, Copyback, Maintenance, IsMaintenance, MaintenanceOps
  <2>3. /\ validLines[RequestSet][LookupWay] /\ tags[RequestSet][LookupWay] = request.line
        /\ RequestSet \in Sets /\ LookupWay \in Ways /\ request.line \in Lines
    BY <2>2, LookupChoice, LookupType DEF ClusterInv, DirectoryInv, TypeInv, TypeOK, HomeTypeOK,
       Request
  <2>4. SnoopAddress' = request.line
    BY <2>1 DEF SnoopAddress
  <2>5. DirtyCopy(SnoopAddress)' \/ Merges(Packets, latest[SnoopAddress])'
    BY DEF DataInv, BufferInv, Snapshot
  <2>6. CASE Merges(Packets, latest[SnoopAddress])'
    <3>1. \A p \in Packets : latest'[request'.line][p] \in window'[request'.src][p]
      BY <2>1, <2>2, ReadersWindowGoesOn DEF Busy
    <3> QED BY <2>1, <2>4, <2>6, <3>1 DEF Merges, MergesIntoWindow
  <2>7. CASE DirtyCopy(SnoopAddress)'
    <3>1. PICK n \in RNF, w \in L1Ways : l1[n][w].line = request.line /\ IsDirty(l1[n][w].state)
      BY <1>1, <2>4, <2>7 DEF DirtyCopy
    <3>2. Holds(n, request.line)
      BY <3>1 DEF Holds
    <3>3. n \in residentLines[RequestSet][LookupWay]
      BY <2>3, <3>2 DEF ClusterInv, CoherenceInv, HoldersAreTracked, Tracked, Valid, DirectoryInv,
         EntriesInv
    <3>4. n # request.src
      BY <2>1, <2>2, LinkAssumption DEF ClusterInv, RequesterSideInv, PhaseFits, Proper, Busy,
         Snapshot
    <3>5. n \in SnoopMask
      BY <2>2, <2>3, <3>3, <3>4 DEF SnoopMask, SnoopsCaches, Snapshot
    <3>6. Owes(n)'
      BY <1>1, <2>1, <2>2, <3>1, <3>5 DEF Owes
    <3> QED BY <3>6
  <2> QED BY <2>5, <2>6, <2>7
<1>3. CASE HomeSendSnoop \/ HomeSnoopsDone \/ HomeSnoopResponse
  <2>1. /\ phase \in {"SendSnoop", "AwaitSnoop"}
        /\ UNCHANGED <<request, lineBuffer, reqData, snoopVictim, maintenanceHit>>
    BY <1>3 DEF HomeSendSnoop, HomeSnoopsDone, HomeSnoopResponse, requesterRegs, lookupRegs,
       requesterLinks
  <2>2. Probing /\ Snapshot /\ ~ snoopVictim /\ Snooping
    BY <2>1 DEF Probing, Snooping, Snapshot
  <2>3. MergesIntoWindow => MergesIntoWindow'
    BY <1>1, <2>1, <2>2, MergesStay
  <2>4. MergesIntoWindow \/ \E n \in RNF : Owes(n)
    BY <2>2 DEF WindowInv, ProbedWindowInv
  <2>5. ASSUME NEW n \in RNF, Owes(n)
        PROVE  Owes(n)'
    <3>1. PICK w \in L1Ways : l1[n][w].line = request.line /\ IsDirty(l1[n][w].state)
      BY <2>5 DEF Owes
    <3>2. CASE HomeSendSnoop
      <4>1. n \in pendingSnoops /\ phase' = "AwaitSnoop"
        BY <2>5, <3>2 DEF Owes, HomeSendSnoop
      <4>2. n \in pendingSnoops' \/ (n = expectedSnoop' /\ snps' # {})
        BY <3>2, <4>1 DEF HomeSendSnoop
      <4> QED BY <1>1, <2>1, <3>1, <4>1, <4>2 DEF Owes
    <3>3. ~ HomeSnoopsDone
      BY <2>5 DEF Owes, HomeSnoopsDone
    <3>4. CASE HomeSnoopResponse
      <4>1. acks # {} /\ UNCHANGED pendingSnoops /\ phase = "AwaitSnoop"
        BY <3>4 DEF HomeSnoopResponse, snoopTargets
      <4>2. snps = {} /\ ~ snoop[expectedSnoop].active
        BY <4>1 DEF ClusterInv, ProbeInv, ProbeInFlightInv, ProbeAnswerInv
      <4>3. n \in pendingSnoops
        BY <2>5, <4>2 DEF Owes
      <4> QED BY <1>1, <2>1, <3>1, <4>1, <4>3 DEF Owes
    <3> QED BY <1>3, <3>2, <3>3, <3>4
  <2> QED BY <2>3, <2>4, <2>5
<1>4. CASE HomeSnoopData
  <2>1. /\ phase = "AwaitSnoop" /\ UNCHANGED <<request, snps, snoopVictim, maintenanceHit,
                                               pendingSnoops, expectedSnoop>>
    BY <1>4 DEF HomeSnoopData, requesterRegs, lookupRegs, snoopTargets
  <2>2. PICK m \in reqData :
          reqData' = reqData \ {m} /\ lineBuffer' = [lineBuffer EXCEPT ![m.packet] = m.version]
    BY <1>4 DEF HomeSnoopData
  <2>3. Probing /\ Snapshot /\ ~ snoopVictim /\ Busy /\ ~ MovedOn
    BY <2>1 DEF Probing, Snooping, Snapshot, Busy, MovedOn
  <2>4. ASSUME MergesIntoWindow PROVE MergesIntoWindow'
    <3>1. /\ m.packet \in Packets /\ lineBuffer \in [Packets -> Versions]
          /\ \A k \in reqData : k.packet = m.packet => k = m
      BY DEF ClusterInv, RequesterSideInv, WriteDataInv, TypeInv, TypeOK, LinksTypeOK,
         RequesterData, HomeTypeOK, LineData
    <3>2. request.src \in IO /\ io[request.src].phase = "Read"
      BY <2>1, <2>3, ReaderWaits
    <3>3. \A p \in Packets : window[request.src][p] \subseteq window'[request.src][p]
      BY <1>1, <3>2, WindowGrows
    <3>4. \A p \in Packets :
            /\ \A k \in reqData' : k.packet = p => k.version \in window[request.src][p]
            /\ (\A k \in reqData' : k.packet # p) => lineBuffer'[p] \in window[request.src][p]
      BY <2>2, <2>4, <3>1 DEF MergesIntoWindow
    <3> QED BY <2>1, <3>3, <3>4 DEF MergesIntoWindow
  <2>5. ASSUME NEW n \in RNF, Owes(n)
        PROVE  Owes(n)'
    <3>1. PICK w \in L1Ways : l1[n][w].line = request.line /\ IsDirty(l1[n][w].state)
      BY <2>5 DEF Owes
    <3>2. CASE n \in pendingSnoops
      BY <1>1, <2>1, <3>1, <3>2 DEF Owes
    <3>3. CASE n \notin pendingSnoops
      <4>1. n = expectedSnoop /\ snoop[n].active /\ DirtyHit(snoop[n])
        BY <2>2, <2>5, <3>3 DEF Owes, ClusterInv, ProbeInv, ProbeInFlightInv
      <4>2. phase' = "AwaitSnoop"
        BY <1>1, <4>1 DEF ClusterInv, ProbeInv, ProbeInFlightInv
      <4> QED BY <1>1, <2>1, <3>1, <4>1, <4>2 DEF Owes
    <3> QED BY <3>2, <3>3
  <2> QED BY <2>3, <2>4, <2>5 DEF WindowInv, ProbedWindowInv
<1> QED BY <1>2, <1>3, <1>4, LeadsToProbing

\* The Home answers a snapshot from the merged line, or from memory's after a
\* fill; every packet it sends is in the window.
LEMMA HomeAnswersWindow ==
  ASSUME HomeServes
  PROVE  SnapshotDataInv'
<1> USE DEF HomeServes
<1>1. UNCHANGED io
  BY HomeServesAlone
<1>2. \A i \in IO : io'[i].phase \in {"Read", "Acknowledge"} /\ ~ io'[i].err =>
        \A p \in io'[i].packets : io'[i].data[p] \in window'[i][p]
  BY <1>1, SnapshotsStay
<1>3. ASSUME Busy, phase # "AwaitCompAck", Snapshot, NEW p \in Packets
      PROVE  window[request.src][p] \subseteq window'[request.src][p]
  BY <1>1, <1>3, ReaderWaits, WindowGrows DEF MovedOn
<1>4. CASE HomeSendCachedData
  <2>1. /\ phase = "SendCachedData" /\ UNCHANGED <<request, completionError, lineBuffer>>
        /\ compData' = compData \cup
             {[dst |-> request.src, packet |-> Min(remainingResponse),
               version |-> lineBuffer[Min(remainingResponse)],
               state |-> GrantedState, err |-> completionError]}
    BY <1>4 DEF HomeSendCachedData, requesterRegs
  <2>2. Min(remainingResponse) \in Packets
    BY <2>1, IndexFacts, MinInSet DEF TypeInv, RequestShape, TypeOK, HomeTypeOK
  <2>3. Snapshot /\ ~ completionError =>
          \A p \in Packets : lineBuffer[p] \in window'[request.src][p]
    BY <1>3, <2>1 DEF WindowInv, SnapshotDataInv, Busy
  <2>4. request.src \in IO => Snapshot
    BY <2>1, LinkAssumption DEF ClusterInv, RequesterSideInv, PhaseFits, Proper, Busy, Answering,
       RefillOps, Snapshot
  <2>5. ASSUME NEW m \in compData', m.dst \in IO, ~ m.err
        PROVE  m.version \in window'[m.dst][m.packet]
    <3>1. CASE m \in compData
      BY <1>1, <2>5, <3>1, SnapshotsStay
    <3>2. CASE m \notin compData
      BY <2>1, <2>2, <2>3, <2>4, <2>5, <3>2
    <3> QED BY <3>1, <3>2
  <2> QED BY <1>2, <2>1, <2>3, <2>5 DEF SnapshotDataInv, Snapshot
<1>5. CASE HomeAfterSnoops
  <2>1. /\ phase = "AfterSnoops" /\ UNCHANGED <<request, completionError, lineBuffer, compData>>
    BY <1>5 DEF HomeAfterSnoops, requesterRegs, requesterLinks
  <2>2. ASSUME phase' = "SendCachedData", Snapshot, ~ completionError, NEW p \in Packets
        PROVE  lineBuffer[p] \in window'[request.src][p]
    <3>1. ~ Maintenance
      BY <2>2 DEF Snapshot, Maintenance, IsMaintenance, MaintenanceOps
    <3>2. ~ snoopVictim
      BY <1>5, <2>2, <3>1 DEF HomeAfterSnoops
    <3>3. Probing /\ pendingSnoops = {}
      BY <2>1, <3>1, <3>2 DEF Probing, Snooping, ClusterInv, DirectoryInv, SelectedInv
    <3>4. MergesIntoWindow
      BY <2>1, <2>2, <3>2, <3>3 DEF WindowInv, ProbedWindowInv, Owes
    <3>5. reqData = {}
      BY <2>1 DEF ClusterInv, RequesterSideInv, WriteDataInv
    <3> QED BY <1>3, <2>1, <2>2, <3>4, <3>5 DEF MergesIntoWindow, Busy
  <2>3. \A m \in compData : m.dst \in IO /\ ~ m.err => m.version \in window'[m.dst][m.packet]
    BY <1>1, SnapshotsStay
  <2> QED BY <1>2, <2>1, <2>2, <2>3 DEF SnapshotDataInv, Snapshot
<1>6. CASE HomeReceiveFill
  <2>1. phase = "ReceiveFillData" /\ UNCHANGED <<request, compData>>
    BY <1>6 DEF HomeReceiveFill, requesterRegs, requesterLinks
  <2>2. ASSUME phase' = "SendCachedData", Snapshot, NEW p \in Packets
        PROVE  lineBuffer'[p] \in window'[request.src][p]
    <3>1. PICK m \in fillData :
            /\ lineBuffer' = [lineBuffer EXCEPT ![m.packet] = m.version]
            /\ AllArrived(receivedFill, m.packet)
      BY <1>6, <2>2 DEF HomeReceiveFill
    <3>2. lineBuffer \in [Packets -> Versions] /\ request.line \in Lines
      BY DEF TypeInv, TypeOK, HomeTypeOK, LineData, Request
    <3>3. lineBuffer'[p] = memory[request.line][p]
      BY <2>1, <3>1, <3>2 DEF AllArrived, DataInv, FillDataInv
    <3>4. memory[request.line] = latest[request.line]
      BY <2>1, <3>2 DEF ClusterInv, DirectoryInv, SelectedInv, Filling, DataInv, LevelsInv
    <3>5. latest[request.line][p] \in window[request.src][p]
      BY <2>1, <2>2, NewestInWindow DEF Busy, WindowInv
    <3> QED BY <1>3, <2>1, <2>2, <3>3, <3>4, <3>5 DEF Busy
  <2>3. \A m \in compData : m.dst \in IO /\ ~ m.err => m.version \in window'[m.dst][m.packet]
    BY <1>1, SnapshotsStay
  <2> QED BY <1>2, <2>1, <2>2, <2>3 DEF SnapshotDataInv, Snapshot
<1>7. CASE HomeVictimCompletion
  <2>1. UNCHANGED compData /\ (phase' = "SendCachedData" => completionError')
    BY <1>7 DEF HomeVictimCompletion, NoteError, requesterLinks
  <2>2. \A m \in compData : m.dst \in IO /\ ~ m.err => m.version \in window'[m.dst][m.packet]
    BY <1>1, SnapshotsStay
  <2> QED BY <1>2, <2>1, <2>2 DEF SnapshotDataInv
<1>8. CASE ~ (HomeSendCachedData \/ HomeAfterSnoops \/ HomeReceiveFill \/ HomeVictimCompletion)
  <2>1. phase' # "SendCachedData" /\ compData' = compData
    BY <1>8 DEF HomeStep, HomeQuietStep, HomeOrdersWrite, HomeOrdersMaintenance,
       HomeAcceptRequest, HomeSendDBID, HomeReceiveData, HomeLookup, HomeFinishCopyBack,
       HomeSendSnoop, HomeSnoopsDone, HomeSnoopResponse, HomeSnoopData, HomeSendMemRequest,
       HomeVictimDBID, HomeSendVictimData, HomeSendCompletion, HomeCompAck,
       HomeMergeRequesterData, HomeFinishMaintenance, requesterLinks
  <2> QED BY <1>1, <2>1, SnapshotDataKept
<1> QED BY <1>4, <1>5, <1>6, <1>7, <1>8

\* The Home's steps keep the windows.
LEMMA HomeWindow ==
  ASSUME HomeServes
  PROVE  WindowInv'
BY HomeReaders, HomeProbedWindow, HomeAnswersWindow DEF WindowInv

------------------------------------------------------------------------------
(* The window: the invariant.                                               *)

\* At first nobody reads.
LEMMA InitWindow ==
  ASSUME Init
  PROVE  WindowInv
BY DEF Init, LinksInit, HomeInit, CacheInit, IOInit, IdleIO, WindowInv, ReaderInv,
       ProbedWindowInv, SnapshotDataInv, Busy, Probing, Snooping

\* One lemma per agent again; in a stutter the windows stay too.
LEMMA NextWindow ==
  ASSUME TypeInv, ClusterInv, DataInv, WindowInv, [Next]_vars, TypeInv', ClusterInv', DataInv'
  PROVE  WindowInv'
<1>1. CASE Next
  <2>1. CASE HomeStep
    BY <1>1, <2>1, HomeWindow DEF Next, HomeServes
  <2>2. CASE \E n \in RNF : CacheStep(n)
    BY <1>1, <2>2, CacheWindow DEF Next
  <2>3. CASE \E i \in IO : IOStep(i)
    BY <1>1, <2>3, UncachedWindow DEF Next
  <2>4. CASE MemoryStep
    BY <1>1, <2>4, MemoryWindow DEF Next
  <2> QED BY <1>1, <2>1, <2>2, <2>3, <2>4 DEF Next, Step
<1>2. CASE UNCHANGED vars
  BY <1>2 DEF vars, requesterLinks, subordinateLinks, history, homeVars, cacheVars,
     requesterRegs, lookupRegs, snoopTargets, WindowInv, ReaderInv, ProbedWindowInv,
     SnapshotDataInv, Busy, MovedOn, Snapshot, Probing, Snooping, MergesIntoWindow, Owes
<1> QED BY <1>1, <1>2

\* What a snapshot gets on its way from the line buffer to its requester is at
\* every moment within its window.
THEOREM ClusterWindowIsInvariant == Reliable => (Spec => []WindowInv)
<1> SUFFICES ASSUME Reliable PROVE Spec => []WindowInv
  OBVIOUS
<1> DEFINE All == TypeInv /\ ClusterInv /\ DataInv /\ WindowInv
<1>1. Init => All
  BY InitType, InitCluster, InitData, InitWindow
<1>2. All /\ [Next]_vars => All'
  BY NextType, NextCluster, NextData, NextWindow
<1>3. All => WindowInv
  OBVIOUS
<1> HIDE DEF All
<1> QED BY <1>1, <1>2, <1>3, PTL DEF Spec

\* A ReadOnce returns, packet by packet, a version its line held between its request
\* and its data, whichever caches were probed, stored again or refilled meanwhile.
THEOREM ClusterSnapshotInWindow == Reliable => (Spec => []SnapshotInWindow)
<1>1. WindowInv => SnapshotInWindow
  BY DEF WindowInv, ReaderInv, SnapshotDataInv, SnapshotInWindow
<1> QED BY <1>1, ClusterWindowIsInvariant, PTL
==============================================================================
