------------------------ MODULE InclusiveSystemProofs ------------------------
(***************************************************************************)
(* The cluster, first half: its types, and what can be on a link.  For any *)
(* number of caches, uncached requesters, lines, sets, ways and packets,   *)
(* with or without failing agents.                                         *)
(*                                                                         *)
(* TypeOK alone is not inductive.  A flit has a line only if the register  *)
(* it is built from holds one, and that depends on the protocol: a way is  *)
(* probed only while it is valid, a victim keeps its way until the last    *)
(* packet of its copyback has left, a probe finds the way it looked up.    *)
(*                                                                         *)
(* The message half of ClusterInvariant follows: what can be in flight,    *)
(* given the phase of the Home and what every requester is doing.  One     *)
(* lemma per actor and part says that no step of that actor disturbs the   *)
(* part; ClusterCoherenceProofs puts them together.                        *)
(***************************************************************************)
EXTENDS ClusterInvariant, WellFoundedInduction, TLAPS

------------------------------------------------------------------------------
(* The strengthening.                                                      *)

\* Every request, accepted or in flight, asks for at least one packet, only
\* caches ask for a line to keep, and a response still owes at least one packet
\* while it is being sent.
RequestShape ==
  /\ \A m \in reqs : m.packets # {} /\ (m.op \in RefillOps => m.src \in RNF)
  /\ request.packets # {} /\ (request.op \in RefillOps => request.src \in RNF)
  /\ phase = "SendCachedData" => remainingResponse # {}

\* A valid LLC way has the tag of a line.
ValidWaysHaveTags ==
  \A s \in Sets, w \in Ways : validLines[s][w] => tags[s][w] \in Lines

\* While the Home works on a victim it knows the victim's line.
VictimIsKnown ==
  /\ snoopVictim /\ phase \in {"SendSnoop", "AwaitSnoop", "AfterSnoops", "SendVictimWriteRequest"}
       => victimAddress \in Lines
  /\ phase = "SendVictimWriteRequest" => Maintenance \/ snoopVictim

\* An L1D way has a line whenever it is valid.
WaysHaveLines(ways) ==
  \A w \in L1Ways :
    ways[w].line \in Lines \/ (ways[w].line = NoLine /\ ways[w].state = "Invalid")

\* A busy engine has a line; during a copyback it has a victim too, which stays
\* in its way unless a probe takes it.
EngineHasLine(ways, e) ==
  /\ e.phase # "Idle" => e.line \in Lines
  /\ e.phase \in {"Copyback", "CopybackData"} =>
       e.victim \in Lines /\ e.packets # Packets /\ ways[e.way].line \in {e.victim, NoLine}

\* A probe that hit still finds its line in the way it looked up, and no probe
\* of a line whose copyback data is leaving is in progress.
ProbeHasLine(ways, e, s) ==
  s.active =>
    /\ s.line \in Lines /\ s.packets # Packets
    /\ s.hit => ways[s.way].line = s.line
    /\ e.phase = "CopybackData" => e.victim # s.line

NodeInv(ways, e, s) ==
  /\ ways \in [L1Ways -> WayState] /\ e \in EngineState /\ s \in SnoopState
  /\ WaysHaveLines(ways) /\ EngineHasLine(ways, e) /\ ProbeHasLine(ways, e, s)

CachesHaveLines == \A n \in RNF : NodeInv(l1[n], engine[n], snoop[n])

UncachedHasLine == \A i \in IO : io[i].phase # "Idle" => io[i].line \in Lines
WriteHasLine    == memWrite.active => memWrite.line \in Lines

TypeInv ==
  /\ TypeOK /\ RequestShape /\ ValidWaysHaveTags /\ VictimIsKnown
  /\ CachesHaveLines /\ UncachedHasLine /\ WriteHasLine

------------------------------------------------------------------------------
(* Arithmetic of packets and ways.                                         *)

\* Every nonempty set of naturals has a least element.
LEMMA LeastElement ==
  ASSUME NEW S, S \subseteq Nat, S # {}
  PROVE  \E x \in S : \A y \in S : x <= y
<1> DEFINE below == {p \in Nat \X Nat : p[1] < p[2]}
<1>1. IsWellFoundedOn(below, Nat)
  BY NatLessThanWellFounded DEF OpToRel
<1>2. PICK x \in S : \A y \in S : <<y, x>> \notin below
  <2> HIDE DEF below
  <2> QED BY <1>1, WFMin
<1>3. \A y \in S : x <= y
  <2> SUFFICES ASSUME NEW y \in S, y < x PROVE FALSE
    OBVIOUS
  <2>1. <<y, x>> \in below
    OBVIOUS
  <2> QED BY <1>2, <2>1
<1> QED BY <1>3

LEMMA MinInSet ==
  ASSUME NEW S, S \subseteq Nat, S # {}
  PROVE  Min(S) \in S
BY LeastElement DEF Min

\* Packets and ways are numbered from zero and there is at least one of each.
LEMMA IndexFacts ==
  /\ 0 \in Packets /\ PacketCount - 1 \in Packets /\ Packets \subseteq Nat
  /\ 0 \in Ways /\ WayCount - 1 \in Ways /\ Ways \subseteq Nat
  /\ 0 \in L1Ways
BY LinkAssumption, HomeAssumption, CacheAssumption DEF Packets, Ways, L1Ways

\* The next packet to send is one that has not been sent.
LEMMA NextPacketType ==
  ASSUME NEW sent \in SUBSET Packets, sent # Packets
  PROVE  NextPacket(sent) \in Packets \ sent
<1>1. Packets \ sent \subseteq Nat /\ Packets \ sent # {}
  BY IndexFacts
<1>2. \E p \in Packets \ sent : \A q \in Packets \ sent : p <= q
  BY <1>1, LeastElement
<1> QED BY <1>2 DEF NextPacket

\* What the lookup computes from well-typed arrays is well typed.
LEMMA LookupType ==
  ASSUME HomeTypeOK
  PROVE  /\ RequestSet \in Sets
         /\ AllocationWay \in Ways /\ LookupWay \in Ways /\ NextWay \in Ways
         /\ SnoopMask \subseteq RNF
         /\ MergedLine \in LineData
<1>1. RequestSet \in Sets
  BY HomeAssumption DEF HomeTypeOK, RequestSet, Request
<1>2. AllocationWay \in Ways
  <2> DEFINE invalid == {w \in Ways : ~ validLines[RequestSet][w]}
  <2>1. invalid # {} => Min(invalid) \in Ways
    <3> HIDE DEF invalid
    <3>1. invalid \subseteq Ways
      BY DEF invalid
    <3> QED BY <3>1, IndexFacts, MinInSet
  <2>2. replacementWays[RequestSet] \in Ways
    BY <1>1 DEF HomeTypeOK
  <2> QED BY <2>1, <2>2 DEF AllocationWay
<1>3. LookupWay \in Ways
  <2>1. MatchingWays(request.line) \subseteq Ways
    BY DEF MatchingWays
  <2>2. MatchingWays(request.line) # {} => Min(MatchingWays(request.line)) \in Ways
    BY <2>1, IndexFacts, MinInSet
  <2> QED BY <1>2, <2>2 DEF LookupWay, LookupHit
<1>4. NextWay \in Ways
  BY HomeAssumption DEF HomeTypeOK, NextWay, Ways
<1>5. SnoopMask \subseteq RNF
  BY DEF SnoopMask
<1>6. MergedLine \in LineData
  BY DEF HomeTypeOK, MergedLine, LineData
<1> QED BY <1>1, <1>2, <1>3, <1>4, <1>5, <1>6

\* Writing the selected entry of an array keeps the array's type.
LEMMA PutType ==
  ASSUME HomeTypeOK, NEW T, NEW array \in [Sets -> [Ways -> T]], NEW value \in T
  PROVE  Put(array, value) \in [Sets -> [Ways -> T]]
BY DEF HomeTypeOK, Put

LEMMA SelectedType ==
  ASSUME HomeTypeOK, NEW T, NEW array \in [Sets -> [Ways -> T]]
  PROVE  Selected(array) \in T
BY DEF HomeTypeOK, Selected

\* The entry the Home works on may gain or lose residents and stay well typed.
LEMMA ResidentsType ==
  ASSUME HomeTypeOK
  PROVE  /\ \A r : Put(residentLines, Selected(residentLines) \ {r})
                     \in [Sets -> [Ways -> SUBSET RNF]]
         /\ \A r \in RNF : Put(residentLines, Selected(residentLines) \cup {r})
                           \in [Sets -> [Ways -> SUBSET RNF]]
         /\ Put(residentLines, {}) \in [Sets -> [Ways -> SUBSET RNF]]
<1>1. residentLines \in [Sets -> [Ways -> SUBSET RNF]]
  BY DEF HomeTypeOK
<1>2. Selected(residentLines) \in SUBSET RNF
  BY <1>1, SelectedType
<1> QED BY <1>1, <1>2, PutType

\* So may its two flags.
LEMMA FlagsType ==
  ASSUME HomeTypeOK, NEW flag \in BOOLEAN
  PROVE  /\ Put(validLines, flag) \in [Sets -> [Ways -> BOOLEAN]]
         /\ Put(dirtyLines, flag) \in [Sets -> [Ways -> BOOLEAN]]
<1>1. validLines \in [Sets -> [Ways -> BOOLEAN]] /\ dirtyLines \in [Sets -> [Ways -> BOOLEAN]]
  BY DEF HomeTypeOK
<1> QED BY <1>1, PutType

LEMMA LineRamType ==
  ASSUME HomeTypeOK, NEW line \in LineData
  PROVE  Put(lineRam, line) \in [Sets -> [Ways -> LineData]]
<1>1. lineRam \in [Sets -> [Ways -> LineData]]
  BY DEF HomeTypeOK
<1> QED BY <1>1, PutType

\* Dropping an entry cannot give a way without a tag the valid bit.
LEMMA DropKeepsTags ==
  ASSUME HomeTypeOK, ValidWaysHaveTags, tags' = tags,
         validLines' = validLines \/ validLines' = Put(validLines, FALSE)
  PROVE  ValidWaysHaveTags'
<1>1. validLines \in [Sets -> [Ways -> BOOLEAN]]
  BY DEF HomeTypeOK
<1>2. CASE validLines' = Put(validLines, FALSE)
  <2>1. ASSUME NEW s \in Sets, NEW w \in Ways, validLines'[s][w] PROVE validLines[s][w]
    <3>1. Put(validLines, FALSE)[s][w] =
            IF s = selectedSet /\ w = selectedWay THEN FALSE ELSE validLines[s][w]
      BY <1>1 DEF HomeTypeOK, Put
    <3> QED BY <1>2, <2>1, <3>1
  <2> QED BY <2>1 DEF ValidWaysHaveTags
<1> QED BY <1>2 DEF ValidWaysHaveTags


------------------------------------------------------------------------------
(* The Home.                                                               *)

HomeInv ==
  LinksTypeOK /\ HomeTypeOK /\ RequestShape /\ ValidWaysHaveTags /\ VictimIsKnown

LEMMA HomeQuietType ==
  ASSUME HomeInv, HomeQuietStep, UNCHANGED history
  PROVE  HomeInv'
<1> USE DEF HomeInv, requesterLinks, subordinateLinks, history, requesterRegs, lookupRegs,
            snoopTargets, snoopRegs, backingRegs, directory, storage
<1>1. CASE HomeAcceptRequest
  <2> USE <1>1 DEF HomeAcceptRequest
  <2>1. LinksTypeOK'
    BY DEF LinksTypeOK, HomeTypeOK
  <2>2. HomeTypeOK'
    BY DEF LinksTypeOK, HomeTypeOK, Phases
  <2>3. RequestShape'
    BY DEF RequestShape
  <2>4. ValidWaysHaveTags'
    BY DEF ValidWaysHaveTags
  <2>5. VictimIsKnown'
    BY DEF VictimIsKnown
  <2> QED BY <2>1, <2>2, <2>3, <2>4, <2>5
<1>2. CASE HomeSendDBID
  <2> USE <1>2 DEF HomeSendDBID
  <2>1. LinksTypeOK'
    <3>1. [op |-> DBIDOp, dst |-> request.src, err |-> completionError] \in Response
      BY DEF HomeTypeOK, Request, Response, DBIDOp
    <3> QED BY <3>1 DEF LinksTypeOK
  <2>2. HomeTypeOK'
    BY DEF LinksTypeOK, HomeTypeOK, Phases
  <2>3. RequestShape'
    BY DEF RequestShape
  <2>4. ValidWaysHaveTags'
    BY DEF ValidWaysHaveTags
  <2>5. VictimIsKnown'
    BY DEF VictimIsKnown
  <2> QED BY <2>1, <2>2, <2>3, <2>4, <2>5
<1>3. CASE HomeReceiveData
  <2> USE <1>3 DEF HomeReceiveData
  <2>1. LinksTypeOK'
    BY DEF LinksTypeOK, HomeTypeOK
  <2>2. HomeTypeOK'
    <3>1. PICK m \in reqData :
            /\ copybackState' = m.state /\ copybackDirty' = m.passDirty
            /\ writeData' = [writeData EXCEPT ![m.packet] = m.version]
            /\ receivedData' = receivedData \cup {m.packet}
      OBVIOUS
    <3>2. m \in RequesterData
      BY DEF LinksTypeOK
    <3>3. /\ copybackState' \in ResponseStates /\ copybackDirty' \in BOOLEAN
          /\ writeData' \in LineData /\ receivedData' \subseteq Packets
      BY <3>1, <3>2 DEF HomeTypeOK, RequesterData, LineData
    <3> QED BY <3>3 DEF HomeTypeOK, Phases
  <2>3. RequestShape'
    BY DEF RequestShape
  <2>4. ValidWaysHaveTags'
    BY DEF ValidWaysHaveTags
  <2>5. VictimIsKnown'
    BY DEF VictimIsKnown
  <2> QED BY <2>1, <2>2, <2>3, <2>4, <2>5
<1>4. CASE HomeLookup
  <2> USE <1>4 DEF HomeLookup
  <2>1. LinksTypeOK'
    BY DEF LinksTypeOK, HomeTypeOK
  <2>2. HomeTypeOK'
    <3>1. /\ RequestSet \in Sets /\ AllocationWay \in Ways /\ LookupWay \in Ways
          /\ SnoopMask \subseteq RNF
      BY LookupType
    <3>2. /\ lineRam[RequestSet][LookupWay] \in LineData
          /\ tags[RequestSet][AllocationWay] \in Lines \cup {NoLine}
          /\ dirtyLines[RequestSet][LookupWay] \in BOOLEAN
      BY <3>1 DEF HomeTypeOK
    <3>3. pendingSnoops' \subseteq RNF
      BY <3>1 DEF HomeTypeOK
    <3>4. /\ snoopVictim' \in BOOLEAN /\ maintenanceHit' \in BOOLEAN
          /\ maintenanceDirty' \in BOOLEAN
      BY <3>2 DEF LookupHit
    <3> QED BY <3>1, <3>2, <3>3, <3>4 DEF HomeTypeOK, Phases
  <2>3. RequestShape'
    BY DEF RequestShape
  <2>4. ValidWaysHaveTags'
    BY DEF ValidWaysHaveTags
  <2>5. VictimIsKnown'
    <3>1. SUFFICES ASSUME snoopVictim', phase' = "SendSnoop"
                   PROVE  victimAddress' \in Lines
      BY DEF VictimIsKnown
    <3>2. validLines[RequestSet][AllocationWay]
      BY <3>1
    <3> QED BY <3>2, LookupType DEF ValidWaysHaveTags
  <2> QED BY <2>1, <2>2, <2>3, <2>4, <2>5
<1>5. CASE HomeFinishCopyBack
  <2> USE <1>5 DEF HomeFinishCopyBack
  <2>1. LinksTypeOK'
    BY DEF LinksTypeOK, HomeTypeOK
  <2>2. HomeTypeOK'
    <3>1. dirtyLines' \in [Sets -> [Ways -> BOOLEAN]]
      BY FlagsType DEF HomeTypeOK
    <3>2. lineRam' \in [Sets -> [Ways -> LineData]]
      BY LookupType, LineRamType DEF HomeTypeOK
    <3>3. residentLines' \in [Sets -> [Ways -> SUBSET RNF]]
      BY ResidentsType DEF HomeTypeOK
    <3> QED BY <3>1, <3>2, <3>3 DEF HomeTypeOK, Phases
  <2>3. RequestShape'
    BY DEF RequestShape
  <2>4. ValidWaysHaveTags'
    BY DEF ValidWaysHaveTags
  <2>5. VictimIsKnown'
    BY DEF VictimIsKnown
  <2> QED BY <2>1, <2>2, <2>3, <2>4, <2>5
<1>6. CASE HomeSendSnoop
  <2> USE <1>6 DEF HomeSendSnoop
  <2>1. LinksTypeOK'
    <3>1. SnoopOp \in SnoopOps
      BY DEF SnoopOp, HomeSnoopOp, SnoopOps
    <3>2. SnoopAddress \in Lines
      BY DEF SnoopAddress, VictimIsKnown, HomeTypeOK, Request
    <3>3. PICK r \in pendingSnoops :
            snps' = snps \cup {[dst |-> r, op |-> SnoopOp, line |-> SnoopAddress]}
      OBVIOUS
    <3>4. [dst |-> r, op |-> SnoopOp, line |-> SnoopAddress] \in Snoop
      BY <3>1, <3>2 DEF HomeTypeOK, Snoop
    <3> QED BY <3>3, <3>4 DEF LinksTypeOK
  <2>2. HomeTypeOK'
    BY DEF LinksTypeOK, HomeTypeOK, Phases
  <2>3. RequestShape'
    BY DEF RequestShape
  <2>4. ValidWaysHaveTags'
    BY DEF ValidWaysHaveTags
  <2>5. VictimIsKnown'
    BY DEF VictimIsKnown
  <2> QED BY <2>1, <2>2, <2>3, <2>4, <2>5
<1>7. CASE HomeSnoopsDone
  <2> USE <1>7 DEF HomeSnoopsDone
  <2>1. LinksTypeOK'
    BY DEF LinksTypeOK, HomeTypeOK
  <2>2. HomeTypeOK'
    BY DEF LinksTypeOK, HomeTypeOK, Phases
  <2>3. RequestShape'
    BY DEF RequestShape
  <2>4. ValidWaysHaveTags'
    BY DEF ValidWaysHaveTags
  <2>5. VictimIsKnown'
    BY DEF VictimIsKnown
  <2> QED BY <2>1, <2>2, <2>3, <2>4, <2>5
<1>8. CASE HomeSnoopResponse
  <2> USE <1>8 DEF HomeSnoopResponse
  <2>1. LinksTypeOK'
    BY DEF LinksTypeOK, HomeTypeOK
  <2>2. HomeTypeOK'
    <3>1. PICK m \in acks :
            /\ completionError' = NoteError(m.err)
            /\ residentLines' =
                 IF DirectoryLineValid /\ ProvesAbsent(m)
                 THEN Put(residentLines, Selected(residentLines) \ {expectedSnoop})
                 ELSE residentLines
      OBVIOUS
    <3>2. completionError' \in BOOLEAN
      BY <3>1 DEF NoteError, LinksTypeOK, Acknowledgement, HomeTypeOK
    <3>3. residentLines' \in [Sets -> [Ways -> SUBSET RNF]]
      BY <3>1, ResidentsType DEF HomeTypeOK
    <3> QED BY <3>2, <3>3 DEF HomeTypeOK, Phases
  <2>3. RequestShape'
    BY DEF RequestShape
  <2>4. ValidWaysHaveTags'
    BY DEF ValidWaysHaveTags
  <2>5. VictimIsKnown'
    BY DEF VictimIsKnown
  <2> QED BY <2>1, <2>2, <2>3, <2>4, <2>5
<1>9. CASE HomeSnoopData
  <2> USE <1>9 DEF HomeSnoopData
  <2>1. LinksTypeOK'
    BY DEF LinksTypeOK, HomeTypeOK
  <2>2. HomeTypeOK'
    <3>1. PICK m \in reqData :
            /\ lineBuffer' = [lineBuffer EXCEPT ![m.packet] = m.version]
            /\ receivedSnoop' = receivedSnoop \cup {m.packet}
            /\ snoopRetains' = (snoopRetains \/ ~ ProvesAbsent(m))
            /\ completionError' = NoteError(m.err)
            /\ \/ residentLines' = residentLines
               \/ residentLines' = Put(residentLines, Selected(residentLines) \ {expectedSnoop})
            /\ phase' \in {"SendSnoop", "AwaitSnoop"}
      OBVIOUS
    <3>2. m.packet \in Packets /\ m.version \in Versions /\ m.err \in BOOLEAN
      BY DEF LinksTypeOK, RequesterData
    <3>3. lineBuffer' \in LineData /\ receivedSnoop' \subseteq Packets
      BY <3>1, <3>2 DEF HomeTypeOK, LineData
    <3>4. snoopRetains' \in BOOLEAN /\ completionError' \in BOOLEAN
      BY <3>1, <3>2 DEF NoteError, HomeTypeOK
    <3>5. residentLines' \in [Sets -> [Ways -> SUBSET RNF]]
      <4>1. residentLines \in [Sets -> [Ways -> SUBSET RNF]]
        BY DEF HomeTypeOK
      <4>2. Put(residentLines, Selected(residentLines) \ {expectedSnoop})
              \in [Sets -> [Ways -> SUBSET RNF]]
        BY ResidentsType
      <4> QED BY <3>1, <4>1, <4>2
    <3>6. dirtyLines' \in [Sets -> [Ways -> BOOLEAN]]
      BY FlagsType DEF HomeTypeOK
    <3> QED BY <3>1, <3>3, <3>4, <3>5, <3>6 DEF HomeTypeOK, Phases
  <2>3. RequestShape'
    BY DEF RequestShape
  <2>4. ValidWaysHaveTags'
    BY DEF ValidWaysHaveTags
  <2>5. VictimIsKnown'
    BY DEF VictimIsKnown
  <2> QED BY <2>1, <2>2, <2>3, <2>4, <2>5
<1>10. CASE HomeAfterSnoops
  <2> USE <1>10 DEF HomeAfterSnoops
  <2>1. LinksTypeOK'
    BY DEF LinksTypeOK, HomeTypeOK
  <2>2. HomeTypeOK'
    <3>1. validLines' \in [Sets -> [Ways -> BOOLEAN]]
      BY FlagsType DEF HomeTypeOK
    <3>2. residentLines' \in [Sets -> [Ways -> SUBSET RNF]]
      BY ResidentsType DEF HomeTypeOK
    <3>3. lineRam' \in [Sets -> [Ways -> LineData]]
      BY LineRamType DEF HomeTypeOK
    <3>4. phase' \in Phases
      BY DEF Phases, AnswerPhase, FilledPhase
    <3>5. remainingResponse' \subseteq Packets /\ victimBeat' \in Packets
      BY IndexFacts DEF HomeTypeOK, Request
    <3> QED BY <3>1, <3>2, <3>3, <3>4, <3>5 DEF HomeTypeOK
  <2>3. RequestShape'
    BY DEF RequestShape
  <2>4. ValidWaysHaveTags'
    <3>1. validLines' = validLines \/ validLines' = Put(validLines, FALSE)
      OBVIOUS
    <3> QED BY <3>1, DropKeepsTags
  <2>5. VictimIsKnown'
    <3>1. ~ completionError /\ phase' = "SendVictimWriteRequest" => Maintenance \/ snoopVictim
      BY DEF FilledPhase
    <3>2. completionError => phase' # "SendVictimWriteRequest"
      BY DEF AnswerPhase
    <3>3. phase' \notin {"SendSnoop", "AwaitSnoop", "AfterSnoops"}
      BY DEF AnswerPhase, FilledPhase
    <3> QED BY <3>1, <3>2, <3>3 DEF VictimIsKnown, Maintenance, HomeTypeOK
  <2> QED BY <2>1, <2>2, <2>3, <2>4, <2>5
<1>11. CASE HomeSendMemRequest
  <2> USE <1>11 DEF HomeSendMemRequest
  <2>1. LinksTypeOK'
    <3>1. phase = "SendVictimWriteRequest" => WriteBackLine \in Lines
      BY DEF WriteBackLine, VictimIsKnown, HomeTypeOK, Request
    <3>2. request.line \in Lines
      BY DEF HomeTypeOK, Request
    <3> QED BY <3>1, <3>2 DEF LinksTypeOK, MemRequest
  <2>2. HomeTypeOK'
    BY DEF LinksTypeOK, HomeTypeOK, Phases
  <2>3. RequestShape'
    BY DEF RequestShape
  <2>4. ValidWaysHaveTags'
    BY DEF ValidWaysHaveTags
  <2>5. VictimIsKnown'
    BY DEF VictimIsKnown
  <2> QED BY <2>1, <2>2, <2>3, <2>4, <2>5
<1>12. CASE HomeVictimDBID
  <2> USE <1>12 DEF HomeVictimDBID
  <2>1. LinksTypeOK'
    BY DEF LinksTypeOK, HomeTypeOK
  <2>2. HomeTypeOK'
    <3>1. completionError' \in BOOLEAN
      BY DEF NoteError, LinksTypeOK, MemResponse, HomeTypeOK
    <3> QED BY <3>1 DEF HomeTypeOK, Phases
  <2>3. RequestShape'
    BY DEF RequestShape
  <2>4. ValidWaysHaveTags'
    BY DEF ValidWaysHaveTags
  <2>5. VictimIsKnown'
    BY DEF VictimIsKnown
  <2> QED BY <2>1, <2>2, <2>3, <2>4, <2>5
<1>13. CASE HomeSendVictimData
  <2> USE <1>13 DEF HomeSendVictimData
  <2>1. LinksTypeOK'
    <3>1. [packet |-> victimBeat, version |-> lineBuffer[victimBeat]] \in MemPacket
      BY DEF HomeTypeOK, MemPacket, LineData
    <3> QED BY <3>1 DEF LinksTypeOK
  <2>2. HomeTypeOK'
    <3>1. victimBeat' \in Packets
      BY LinkAssumption DEF HomeTypeOK, Packets
    <3> QED BY <3>1 DEF HomeTypeOK, Phases
  <2>3. RequestShape'
    BY DEF RequestShape
  <2>4. ValidWaysHaveTags'
    BY DEF ValidWaysHaveTags
  <2>5. VictimIsKnown'
    BY DEF VictimIsKnown
  <2> QED BY <2>1, <2>2, <2>3, <2>4, <2>5
<1>14. CASE HomeVictimCompletion
  <2> USE <1>14 DEF HomeVictimCompletion
  <2>1. LinksTypeOK'
    BY DEF LinksTypeOK, HomeTypeOK
  <2>2. HomeTypeOK'
    <3>1. completionError' \in BOOLEAN
      BY DEF NoteError, LinksTypeOK, MemResponse, HomeTypeOK
    <3>2. /\ validLines' \in [Sets -> [Ways -> BOOLEAN]]
          /\ dirtyLines' \in [Sets -> [Ways -> BOOLEAN]]
          /\ residentLines' \in [Sets -> [Ways -> SUBSET RNF]]
      BY FlagsType, ResidentsType DEF HomeTypeOK
    <3>3. phase' \in Phases
      BY DEF Phases, AnswerPhase
    <3>4. remainingResponse' \subseteq Packets
      BY DEF HomeTypeOK, Request
    <3> QED BY <3>1, <3>2, <3>3, <3>4 DEF HomeTypeOK
  <2>3. RequestShape'
    BY DEF RequestShape
  <2>4. ValidWaysHaveTags'
    <3>1. validLines' = validLines \/ validLines' = Put(validLines, FALSE)
      OBVIOUS
    <3> QED BY <3>1, DropKeepsTags
  <2>5. VictimIsKnown'
    <3>1. phase' \in {"FinishMaintenance", "SendFillRequest", "SendRequesterCompletion",
                     "SendCachedData"}
      BY DEF AnswerPhase
    <3> QED BY <3>1 DEF VictimIsKnown
  <2> QED BY <2>1, <2>2, <2>3, <2>4, <2>5
<1>15. CASE HomeReceiveFill
  <2> USE <1>15 DEF HomeReceiveFill
  <2>1. LinksTypeOK'
    BY DEF LinksTypeOK, HomeTypeOK
  <2>2. HomeTypeOK'
    <3>1. PICK m \in fillData :
            /\ lineBuffer' = [lineBuffer EXCEPT ![m.packet] = m.version]
            /\ receivedFill' = receivedFill \cup {m.packet}
            /\ completionError' = NoteError(m.err)
            /\ \/ validLines' = validLines
               \/ validLines' = Put(validLines, ~ completionError /\ ~ m.err)
            /\ dirtyLines' = dirtyLines \/ dirtyLines' = Put(dirtyLines, FALSE)
            /\ residentLines' = residentLines \/ residentLines' = Put(residentLines, {})
            /\ tags' = tags \/ tags' = Put(tags, request.line)
            /\ lineRam' = lineRam \/ lineRam' = Put(lineRam, lineBuffer')
            /\ \/ replacementWays' = replacementWays
               \/ replacementWays' = [replacementWays EXCEPT ![selectedSet] = NextWay]
            /\ phase' \in {FilledPhase, "ReceiveFillData"}
            /\ remainingResponse' \in {request.packets, remainingResponse}
      OBVIOUS
    <3>2. m.packet \in Packets /\ m.version \in Versions /\ m.err \in BOOLEAN
      BY DEF LinksTypeOK, FillPacket
    <3>3. lineBuffer' \in LineData /\ receivedFill' \subseteq Packets
      BY <3>1, <3>2 DEF HomeTypeOK, LineData
    <3>4. completionError' \in BOOLEAN
      BY <3>1, <3>2 DEF NoteError, HomeTypeOK
    <3>5. /\ validLines' \in [Sets -> [Ways -> BOOLEAN]]
          /\ dirtyLines' \in [Sets -> [Ways -> BOOLEAN]]
      BY ZenonT(60), <3>1, <3>2, FlagsType DEF HomeTypeOK
    <3>6. residentLines' \in [Sets -> [Ways -> SUBSET RNF]]
      BY <3>1, ResidentsType DEF HomeTypeOK
    <3>7. lineRam' \in [Sets -> [Ways -> LineData]]
      <4>1. lineRam \in [Sets -> [Ways -> LineData]]
        BY DEF HomeTypeOK
      <4>2. Put(lineRam, lineBuffer') \in [Sets -> [Ways -> LineData]]
        BY <3>3, LineRamType
      <4> QED BY <3>1, <4>1, <4>2
    <3>8. tags' \in [Sets -> [Ways -> Lines \cup {NoLine}]]
      <4>1. /\ tags \in [Sets -> [Ways -> Lines \cup {NoLine}]]
            /\ request.line \in Lines \cup {NoLine}
        BY DEF HomeTypeOK, Request
      <4>2. Put(tags, request.line) \in [Sets -> [Ways -> Lines \cup {NoLine}]]
        BY <4>1, PutType
      <4> QED BY <3>1, <4>1, <4>2
    <3>9. replacementWays' \in [Sets -> Ways]
      BY <3>1, LookupType DEF HomeTypeOK
    <3>10. phase' \in Phases /\ remainingResponse' \subseteq Packets
      BY <3>1 DEF HomeTypeOK, Request, Phases, FilledPhase
    <3> QED BY <3>3, <3>4, <3>5, <3>6, <3>7, <3>8, <3>9, <3>10 DEF HomeTypeOK
  <2>3. RequestShape'
    BY DEF RequestShape
  <2>4. ValidWaysHaveTags'
    <3>1. \/ /\ validLines' = Put(validLines, TRUE)
             /\ tags' = Put(tags, request.line)
          \/ validLines' = Put(validLines, FALSE) /\ tags' = tags
          \/ validLines' = validLines /\ tags' = tags
      BY DEF HomeTypeOK, LinksTypeOK, FillPacket
    <3>2. CASE validLines' = Put(validLines, TRUE) /\ tags' = Put(tags, request.line)
      <4>1. /\ validLines \in [Sets -> [Ways -> BOOLEAN]] /\ request.line \in Lines
            /\ tags \in [Sets -> [Ways -> Lines \cup {NoLine}]]
        BY DEF HomeTypeOK, Request
      <4>2. ASSUME NEW s \in Sets, NEW w \in Ways, validLines'[s][w]
            PROVE  tags'[s][w] \in Lines
        <5>1. Put(validLines, TRUE)[s][w] =
                IF s = selectedSet /\ w = selectedWay THEN TRUE ELSE validLines[s][w]
          BY <4>1 DEF HomeTypeOK, Put
        <5>2. Put(tags, request.line)[s][w] =
                IF s = selectedSet /\ w = selectedWay THEN request.line ELSE tags[s][w]
          BY <4>1 DEF HomeTypeOK, Put
        <5> QED BY <3>2, <4>1, <4>2, <5>1, <5>2 DEF ValidWaysHaveTags
      <4> QED BY <4>2 DEF ValidWaysHaveTags
    <3> QED BY <3>1, <3>2, DropKeepsTags
  <2>5. VictimIsKnown'
    <3>1. phase' \in {"MergeRequesterData", "SendCachedData", "ReceiveFillData"}
      BY DEF FilledPhase
    <3> QED BY <3>1 DEF VictimIsKnown
  <2> QED BY <2>1, <2>2, <2>3, <2>4, <2>5
<1>16. CASE HomeSendCompletion
  <2> USE <1>16 DEF HomeSendCompletion
  <2>1. LinksTypeOK'
    <3>1. [op |-> "Comp", dst |-> request.src, err |-> completionError] \in Response
      BY DEF HomeTypeOK, Request, Response
    <3> QED BY <3>1 DEF LinksTypeOK
  <2>2. HomeTypeOK'
    BY DEF LinksTypeOK, HomeTypeOK, Phases
  <2>3. RequestShape'
    BY DEF RequestShape
  <2>4. ValidWaysHaveTags'
    BY DEF ValidWaysHaveTags
  <2>5. VictimIsKnown'
    BY DEF VictimIsKnown
  <2> QED BY <2>1, <2>2, <2>3, <2>4, <2>5
<1>17. CASE HomeSendCachedData
  <2> USE <1>17 DEF HomeSendCachedData
  <2>1. LinksTypeOK'
    <3>1. Min(remainingResponse) \in Packets
      BY IndexFacts, MinInSet DEF HomeTypeOK, RequestShape
    <3>2. [dst |-> request.src, packet |-> Min(remainingResponse),
           version |-> lineBuffer[Min(remainingResponse)], state |-> GrantedState,
           err |-> completionError] \in CompletionData
      <4>1. GrantedState \in ResponseStates
        BY DEF GrantedState, ResponseStates
      <4> QED BY <3>1, <4>1 DEF HomeTypeOK, Request, CompletionData, LineData
    <3> QED BY <3>2 DEF LinksTypeOK
  <2>2. HomeTypeOK'
    <3>1. residentLines' \in [Sets -> [Ways -> SUBSET RNF]]
      <4>1. request.op \in RefillOps => request.src \in RNF
        BY DEF RequestShape
      <4> QED BY <4>1, ResidentsType DEF HomeTypeOK
    <3> QED BY <3>1 DEF HomeTypeOK, Phases
  <2>3. RequestShape'
    BY DEF RequestShape
  <2>4. ValidWaysHaveTags'
    BY DEF ValidWaysHaveTags
  <2>5. VictimIsKnown'
    BY DEF VictimIsKnown
  <2> QED BY <2>1, <2>2, <2>3, <2>4, <2>5
<1>18. CASE HomeCompAck
  <2> USE <1>18 DEF HomeCompAck
  <2>1. LinksTypeOK'
    BY DEF LinksTypeOK, HomeTypeOK
  <2>2. HomeTypeOK'
    BY DEF LinksTypeOK, HomeTypeOK, Phases
  <2>3. RequestShape'
    BY DEF RequestShape
  <2>4. ValidWaysHaveTags'
    BY DEF ValidWaysHaveTags
  <2>5. VictimIsKnown'
    BY DEF VictimIsKnown
  <2> QED BY <2>1, <2>2, <2>3, <2>4, <2>5
<1> QED BY <1>1, <1>2, <1>3, <1>4, <1>5, <1>6, <1>7, <1>8, <1>9, <1>10, <1>11, <1>12, <1>13,
           <1>14, <1>15, <1>16, <1>17, <1>18 DEF HomeQuietStep

\* The window of a ReadOnce holds versions.
LEMMA WindowType ==
  ASSUME window \in [IO -> [Packets -> SUBSET Versions]],
         WindowFollows, LinksTypeOK', UncachedHasLine'
  PROVE  (window \in [IO -> [Packets -> SUBSET Versions]])'
<1>1. ASSUME NEW i \in IO, NEW p \in Packets, io'[i].phase = "Read"
      PROVE  latest'[io'[i].line][p] \in Versions
  BY <1>1 DEF LinksTypeOK, UncachedHasLine, LineData
<1>2. ASSUME NEW i \in IO, NEW p \in Packets PROVE window'[i][p] \subseteq Versions
  BY <1>1 DEF WindowFollows
<1> QED BY <1>2 DEF WindowFollows

\* The two steps of the Home that order a write or a discard in the history.
LEMMA HomeOrdersWriteType ==
  ASSUME HomeInv, HomeOrdersWrite
  PROVE  HomeInv'
<1> USE DEF HomeInv, HomeOrdersWrite, HomeMergeRequesterData, requesterLinks, subordinateLinks,
            requesterRegs, lookupRegs, snoopTargets, snoopRegs, backingRegs
<1>1. LinksTypeOK'
  <2>1. request.line \in Lines /\ receivedData \subseteq Packets /\ writeData \in LineData
    BY DEF HomeTypeOK, Request
  <2>2. [p \in Packets |-> IF p \in receivedData THEN writeData[p] ELSE latest[request.line][p]]
          \in LineData
    BY <2>1 DEF LinksTypeOK, LineData
  <2>3. latest' \in [Lines -> LineData]
    BY <2>1, <2>2 DEF LinksTypeOK
  <2> QED BY <2>3 DEF LinksTypeOK
<1>2. HomeTypeOK'
  <2>1. MergedLine \in LineData
    BY LookupType
  <2>2. lineRam' \in [Sets -> [Ways -> LineData]]
    BY <2>1, LineRamType
  <2>3. dirtyLines' \in [Sets -> [Ways -> BOOLEAN]]
    BY FlagsType
  <2> QED BY <2>1, <2>2, <2>3 DEF HomeTypeOK, Phases
<1>3. RequestShape'
  BY DEF RequestShape
<1>4. ValidWaysHaveTags'
  BY DEF ValidWaysHaveTags
<1>5. VictimIsKnown'
  BY DEF VictimIsKnown
<1> QED BY <1>1, <1>2, <1>3, <1>4, <1>5

LEMMA HomeOrdersMaintenanceType ==
  ASSUME HomeInv, MemoryTypeOK, HomeOrdersMaintenance
  PROVE  HomeInv'
<1> USE DEF HomeInv, HomeOrdersMaintenance, HomeFinishMaintenance, requesterLinks,
            subordinateLinks, requesterRegs, lookupRegs, snoopTargets, snoopRegs, backingRegs,
            storage
<1>1. LinksTypeOK'
  <2>1. request.line \in Lines
    BY DEF HomeTypeOK, Request
  <2>2. latest' \in [Lines -> LineData]
    BY <2>1 DEF LinksTypeOK, MemoryTypeOK
  <2> QED BY <2>2 DEF LinksTypeOK
<1>2. HomeTypeOK'
  <2>1. /\ validLines' \in [Sets -> [Ways -> BOOLEAN]]
        /\ dirtyLines' \in [Sets -> [Ways -> BOOLEAN]]
    BY FlagsType DEF HomeTypeOK
  <2>2. residentLines' \in [Sets -> [Ways -> SUBSET RNF]]
    BY ResidentsType DEF HomeTypeOK
  <2> QED BY <2>1, <2>2 DEF HomeTypeOK, Phases
<1>3. RequestShape'
  BY DEF RequestShape
<1>4. ValidWaysHaveTags'
  <2>1. validLines' = validLines \/ validLines' = Put(validLines, FALSE)
    OBVIOUS
  <2> QED BY <2>1, DropKeepsTags
<1>5. VictimIsKnown'
  BY DEF VictimIsKnown
<1> QED BY <1>1, <1>2, <1>3, <1>4, <1>5

LEMMA HomeStepType == TypeInv /\ HomeStep /\ WindowFollows => TypeInv'
<1> SUFFICES ASSUME TypeInv, HomeStep, WindowFollows PROVE TypeInv'
  OBVIOUS
<1>1. HomeInv'
  BY HomeQuietType, HomeOrdersWriteType, HomeOrdersMaintenanceType
     DEF TypeInv, TypeOK, HomeInv, HomeStep
<1>2. CacheTypeOK' /\ CachesHaveLines'
  BY DEF TypeInv, TypeOK, HomeStep, cacheVars, CacheTypeOK, CachesHaveLines
<1>3. IOTypeOK' /\ UncachedHasLine'
  BY DEF TypeInv, TypeOK, HomeStep, IOTypeOK, UncachedHasLine
<1>4. MemoryTypeOK' /\ WriteHasLine'
  BY DEF TypeInv, TypeOK, HomeStep, memoryVars, MemoryTypeOK, WriteHasLine
<1>5. (window \in [IO -> [Packets -> SUBSET Versions]])'
  BY <1>1, <1>3, WindowType DEF TypeInv, TypeOK, HomeInv
<1> QED BY <1>1, <1>2, <1>3, <1>4, <1>5 DEF TypeInv, TypeOK, HomeInv

------------------------------------------------------------------------------
(* The caches.                                                             *)

\* A step of one cache that leaves that cache in order leaves all of them so.
LEMMA OneNodeChanges ==
  ASSUME CacheTypeOK, CachesHaveLines, NEW n \in RNF,
         NEW ways, NEW e, NEW s, NodeInv(ways, e, s),
         l1' = [l1 EXCEPT ![n] = ways],
         engine' = [engine EXCEPT ![n] = e],
         snoop' = [snoop EXCEPT ![n] = s]
  PROVE  CacheTypeOK' /\ CachesHaveLines'
<1>1. CacheTypeOK'
  BY DEF CacheTypeOK, NodeInv
<1>2. ASSUME NEW m \in RNF PROVE NodeInv(l1[m], engine[m], snoop[m])'
  <2>1. CASE m = n
    <3>1. l1'[m] = ways /\ engine'[m] = e /\ snoop'[m] = s
      BY <2>1 DEF CacheTypeOK
    <3> QED BY <3>1
  <2>2. CASE m # n
    <3>1. l1'[m] = l1[m] /\ engine'[m] = engine[m] /\ snoop'[m] = snoop[m]
      BY <2>2 DEF CacheTypeOK
    <3>2. NodeInv(l1[m], engine[m], snoop[m])
      BY DEF CachesHaveLines
    <3> QED BY <3>1, <3>2
  <2> QED BY <2>1, <2>2
<1> QED BY <1>1, <1>2 DEF CachesHaveLines

\* What an L1D asks the Home for is a request.
LEMMA CacheRequestType ==
  ASSUME NEW n \in RNF, NEW line \in Lines
  PROVE  /\ \A access : RefillRequest(n, access, line) \in Request
         /\ CopybackRequest(n, line) \in Request
         /\ \A access : RefillRequest(n, access, line).packets # {}
                        /\ RefillRequest(n, access, line).src = n
         /\ CopybackRequest(n, line).packets # {}
         /\ CopybackRequest(n, line).src = n
BY IndexFacts DEF RefillRequest, CopybackRequest, Request, RequestOps, RefillOps, Requesters

LEMMA IdleTypes == IdleEngine \in EngineState /\ IdleSnoop \in SnoopState /\ EmptyWay \in WayState
<1>1. NoData \in LineData /\ 0 \in Versions /\ 0 \in L1Ways
  BY IndexFacts, LinkAssumption DEF NoData, LineData, Versions
<1> QED BY <1>1 DEF IdleEngine, EngineState, IdleSnoop, SnoopState, EmptyWay, WayState,
                    EnginePhases, Accesses, CacheStates, ResponseStates, SnoopOps

LEMMA NodeKept ==
  ASSUME CacheTypeOK, NEW n \in RNF
  PROVE  /\ l1 = [l1 EXCEPT ![n] = l1[n]]
         /\ engine = [engine EXCEPT ![n] = engine[n]]
         /\ snoop = [snoop EXCEPT ![n] = snoop[n]]
BY DEF CacheTypeOK

CacheInv == LinksTypeOK /\ CacheTypeOK /\ CachesHaveLines /\ RequestShape

\* What the core does to its cache.
LEMMA CoreStepType ==
  ASSUME CacheInv, NEW n \in RNF, CoreStep(n), UNCHANGED homeVars
  PROVE  CacheInv'
<1> USE DEF CacheInv, requesterLinks, subordinateLinks, history
<1> DEFINE e == engine[n]
           s == snoop[n]
           ways == l1[n]
<1>1. NodeInv(ways, e, s)
  BY DEF CachesHaveLines
<1>2. /\ phase' = phase /\ request' = request /\ remainingResponse' = remainingResponse
  BY DEF homeVars, requesterRegs
<1>3. CASE StoreHit(n)
  <2>1. PICK w \in L1Ways, p \in Packets :
          /\ IsUnique(ways[w].state) /\ stores < MaxStores
          /\ l1' = [l1 EXCEPT ![n][w] = [line |-> ways[w].line, state |-> "UniqueDirty",
                                         data |-> [ways[w].data EXCEPT ![p] = stores + 1]]]
          /\ latest' = [latest EXCEPT ![ways[w].line][p] = stores + 1]
          /\ stores' = stores + 1
          /\ UNCHANGED <<requesterLinks, subordinateLinks, engine, snoop>>
    BY <1>3 DEF StoreHit
  <2>2. stores + 1 \in Versions
    BY <2>1, LinkAssumption DEF LinksTypeOK, Versions
  <2>3. ways[w] \in WayState /\ ways[w].line \in Lines
    BY <1>1, <2>1 DEF NodeInv, WaysHaveLines, IsUnique
  <2>4. LinksTypeOK'
    <3>1. latest' \in [Lines -> LineData]
      BY <2>1, <2>2, <2>3 DEF LinksTypeOK, LineData
    <3> QED BY <2>1, <2>2, <3>1 DEF LinksTypeOK
  <2>5. RequestShape'
    BY <1>2, <2>1 DEF RequestShape
  <2> DEFINE way == [line |-> ways[w].line, state |-> "UniqueDirty",
                     data |-> [ways[w].data EXCEPT ![p] = stores + 1]]
             newWays == [ways EXCEPT ![w] = way]
  <2>6. way \in WayState
    BY <2>2, <2>3 DEF WayState, CacheStates, LineData
  <2>7. l1' = [l1 EXCEPT ![n] = newWays]
    BY <2>1 DEF CacheTypeOK
  <2>8. NodeInv(newWays, e, s)
    <3>1. newWays \in [L1Ways -> WayState]
      BY <1>1, <2>6 DEF NodeInv
    <3>2. \A x \in L1Ways : newWays[x].line = ways[x].line
                            /\ (newWays[x].state = "Invalid" <=> ways[x].state = "Invalid")
      BY <1>1, <2>1, <2>3 DEF NodeInv, IsUnique
    <3> HIDE DEF newWays
    <3>3. WaysHaveLines(newWays)
      BY <1>1, <3>2 DEF NodeInv, WaysHaveLines
    <3>4. EngineHasLine(newWays, e)
      BY <1>1, <3>2 DEF NodeInv, EngineHasLine, EngineState
    <3>5. ProbeHasLine(newWays, e, s)
      BY <1>1, <3>2 DEF NodeInv, ProbeHasLine, SnoopState
    <3> QED BY <1>1, <3>1, <3>3, <3>4, <3>5 DEF NodeInv
  <2>9. CacheTypeOK' /\ CachesHaveLines'
    <3> HIDE DEF newWays, e, s
    <3>1. engine' = [engine EXCEPT ![n] = e] /\ snoop' = [snoop EXCEPT ![n] = s]
      BY <2>1, NodeKept DEF e, s
    <3> QED BY <2>7, <2>8, <3>1, OneNodeChanges
  <2> QED BY <2>4, <2>5, <2>9
<1>4. CASE StartMiss(n)
  <2>1. PICK access \in Accesses \ {"maintenance"}, line \in Lines :
          \E w \in MissWays(n, line) :
            LET hit == HitWays(n, line) # {}
                victim == ways[w]
                evict == ~ hit /\ access # "bypass" /\ IsDirty(victim.state)
            IN  /\ hit => NeedsUnique(access) /\ ~ IsUnique(victim.state)
                /\ access = "store" => stores < MaxStores
                /\ stores' = IF access = "store" THEN stores + 1 ELSE stores
                /\ reqs' = reqs \cup {IF evict THEN CopybackRequest(n, victim.line)
                                      ELSE RefillRequest(n, access, line)}
                /\ engine' = [engine EXCEPT ![n] =
                     [IdleEngine EXCEPT !.phase = IF evict THEN "Copyback" ELSE "Refill",
                        !.access = access, !.line = line, !.way = w,
                        !.version = IF access = "store" THEN stores + 1 ELSE 0,
                        !.victim = IF evict THEN victim.line ELSE NoLine,
                        !.state = IF evict THEN victim.state ELSE "Invalid",
                        !.data = IF evict THEN victim.data ELSE NoData]]
    BY <1>4 DEF StartMiss
  <2>2. PICK w \in MissWays(n, line) :
          LET evict == HitWays(n, line) = {} /\ access # "bypass" /\ IsDirty(ways[w].state)
          IN  /\ access = "store" => stores < MaxStores
              /\ stores' = IF access = "store" THEN stores + 1 ELSE stores
              /\ reqs' = reqs \cup {IF evict THEN CopybackRequest(n, ways[w].line)
                                    ELSE RefillRequest(n, access, line)}
              /\ engine' = [engine EXCEPT ![n] =
                   [IdleEngine EXCEPT !.phase = IF evict THEN "Copyback" ELSE "Refill",
                      !.access = access, !.line = line, !.way = w,
                      !.version = IF access = "store" THEN stores + 1 ELSE 0,
                      !.victim = IF evict THEN ways[w].line ELSE NoLine,
                      !.state = IF evict THEN ways[w].state ELSE "Invalid",
                      !.data = IF evict THEN ways[w].data ELSE NoData]]
    BY <2>1
  <2>3. w \in L1Ways
    BY DEF MissWays, HitWays
  <2>4. UNCHANGED <<snps, rsps, acks, compData, reqData, subordinateLinks, latest, l1, snoop>>
        /\ ~ s.active
    BY <1>4 DEF StartMiss
  <2> DEFINE evict == HitWays(n, line) = {} /\ access # "bypass" /\ IsDirty(ways[w].state)
             version == IF access = "store" THEN stores + 1 ELSE 0
             newEngine == [IdleEngine EXCEPT
                             !.phase = IF evict THEN "Copyback" ELSE "Refill",
                             !.access = access, !.line = line, !.way = w,
                             !.version = version,
                             !.victim = IF evict THEN ways[w].line ELSE NoLine,
                             !.state = IF evict THEN ways[w].state ELSE "Invalid",
                             !.data = IF evict THEN ways[w].data ELSE NoData]
  <2>5. ways[w] \in WayState /\ (evict => ways[w].line \in Lines)
    BY <1>1, <2>3 DEF NodeInv, WaysHaveLines, IsDirty
  <2>6. stores' \in Versions /\ version \in Versions
    BY <2>2, LinkAssumption DEF LinksTypeOK, Versions
  <2>7. LinksTypeOK' /\ RequestShape'
    <3>1. reqs' = reqs \cup {IF evict THEN CopybackRequest(n, ways[w].line)
                             ELSE RefillRequest(n, access, line)}
      BY <2>2
    <3> HIDE DEF evict
    <3>2. LinksTypeOK'
      BY <2>4, <2>5, <2>6, <3>1, CacheRequestType DEF LinksTypeOK
    <3>3. RequestShape'
      BY <1>2, <2>5, <3>1, CacheRequestType DEF RequestShape
    <3> QED BY <3>2, <3>3
  <2>8. engine' = [engine EXCEPT ![n] = newEngine]
    BY <2>2
  <2>9. NodeInv(ways, newEngine, s)
    <3> HIDE DEF evict, version
    <3>1. /\ newEngine \in EngineState
          /\ newEngine.phase = IF evict THEN "Copyback" ELSE "Refill"
          /\ newEngine.line = line /\ newEngine.way = w
          /\ newEngine.victim = IF evict THEN ways[w].line ELSE NoLine
          /\ newEngine.packets = {}
      <4>1. NoData \in LineData
        BY LinkAssumption DEF NoData, LineData, Versions
      <4> QED BY <2>3, <2>5, <2>6, <4>1
              DEF IdleEngine, EngineState, EnginePhases, WayState, CacheStates
    <3>2. EngineHasLine(ways, newEngine)
      <4>1. Packets # {}
        BY IndexFacts
      <4> HIDE DEF newEngine
      <4> QED BY <2>5, <3>1, <4>1 DEF EngineHasLine
    <3>3. ProbeHasLine(ways, newEngine, s)
      BY <2>4 DEF ProbeHasLine
    <3> HIDE DEF newEngine
    <3> QED BY <1>1, <3>1, <3>2, <3>3 DEF NodeInv
  <2>10. CacheTypeOK' /\ CachesHaveLines'
    <3> HIDE DEF newEngine, e, s, ways
    <3>1. l1' = [l1 EXCEPT ![n] = ways] /\ snoop' = [snoop EXCEPT ![n] = s]
      BY <2>4, NodeKept DEF ways, s
    <3> QED BY <2>8, <2>9, <3>1, OneNodeChanges
  <2> QED BY <2>7, <2>10
<1>5. CASE StartMaintenance(n)
  <2>1. PICK op \in MaintenanceOps, line \in Lines :
          /\ reqs' = reqs \cup {[op |-> op, src |-> n, line |-> line, packets |-> Packets,
                                 snoopMe |-> TRUE]}
          /\ engine' = [engine EXCEPT ![n] =
               [IdleEngine EXCEPT !.phase = "Maintenance", !.access = "maintenance",
                                  !.line = line]]
    BY <1>5 DEF StartMaintenance
  <2>2. UNCHANGED <<snps, rsps, acks, compData, reqData, subordinateLinks, history, l1, snoop>>
    BY <1>5 DEF StartMaintenance
  <2> DEFINE newEngine == [IdleEngine EXCEPT !.phase = "Maintenance", !.access = "maintenance",
                                             !.line = line]
  <2>3. LinksTypeOK' /\ RequestShape'
    <3>1. [op |-> op, src |-> n, line |-> line, packets |-> Packets, snoopMe |-> TRUE] \in Request
      BY DEF Request, RequestOps, Requesters
    <3>2. LinksTypeOK'
      BY <2>1, <2>2, <3>1 DEF LinksTypeOK
    <3>3. RequestShape'
      BY <1>2, <2>1, IndexFacts DEF RequestShape, RefillOps, MaintenanceOps
    <3> QED BY <3>2, <3>3
  <2>4. newEngine \in EngineState /\ newEngine.line \in Lines /\ newEngine.phase = "Maintenance"
    BY IdleTypes DEF EngineState, EnginePhases, Accesses, IdleEngine
  <2>5. NodeInv(ways, newEngine, s)
    <3> HIDE DEF newEngine
    <3> QED BY <1>1, <2>4 DEF NodeInv, EngineHasLine, ProbeHasLine
  <2>6. CacheTypeOK' /\ CachesHaveLines'
    <3> HIDE DEF e, s, ways
    <3>1. l1' = [l1 EXCEPT ![n] = ways] /\ snoop' = [snoop EXCEPT ![n] = s]
      BY <2>2, NodeKept DEF ways, s
    <3> QED BY <2>1, <2>5, <3>1, OneNodeChanges
  <2> QED BY <2>3, <2>6
<1> QED BY <1>3, <1>4, <1>5 DEF CoreStep

\* What the engines that own a cache's transaction do.
LEMMA EngineDutyType ==
  ASSUME CacheInv, NEW n \in RNF, EngineDuty(n), UNCHANGED homeVars
  PROVE  CacheInv'
<1> USE DEF CacheInv, requesterLinks, subordinateLinks, history
<1> DEFINE e == engine[n]
           s == snoop[n]
           ways == l1[n]
<1>1. NodeInv(ways, e, s)
  BY DEF CachesHaveLines
<1>2. e \in EngineState /\ s \in SnoopState /\ ways \in [L1Ways -> WayState]
  BY <1>1 DEF NodeInv
<1>3. phase' = phase /\ request' = request /\ remainingResponse' = remainingResponse
  BY DEF homeVars, requesterRegs
<1>4. reqs' = reqs => RequestShape'
  BY <1>3 DEF RequestShape
<1>5. ASSUME NEW newEngine, NodeInv(ways, newEngine, s), l1' = l1, snoop' = snoop,
             engine' = [engine EXCEPT ![n] = newEngine]
      PROVE  CacheTypeOK' /\ CachesHaveLines'
  <2>1. l1' = [l1 EXCEPT ![n] = ways] /\ snoop' = [snoop EXCEPT ![n] = s]
    BY <1>5, NodeKept
  <2> HIDE DEF e, s, ways
  <2> QED BY <1>5, <2>1, OneNodeChanges
<1>6. NodeInv(ways, IdleEngine, s)
  BY <1>1, IdleTypes DEF NodeInv, EngineHasLine, ProbeHasLine, IdleEngine
<1>7. CASE FinishMaintenance(n)
  <2> USE <1>7 DEF FinishMaintenance
  <2>1. LinksTypeOK'
    BY DEF LinksTypeOK
  <2>2. CacheTypeOK' /\ CachesHaveLines'
    BY <1>5, <1>6
  <2> QED BY <1>4, <2>1, <2>2
<1>8. CASE CopybackGrant(n)
  <2> USE <1>8 DEF CopybackGrant
  <2> DEFINE newEngine == [e EXCEPT !.phase = "CopybackData"]
  <2>1. LinksTypeOK'
    BY DEF LinksTypeOK
  <2>2. NodeInv(ways, newEngine, s)
    <3>1. newEngine \in EngineState
      BY <1>2 DEF EngineState, EnginePhases
    <3>2. EngineHasLine(ways, newEngine)
      BY <1>1, <1>2 DEF NodeInv, EngineHasLine, EngineState
    <3>3. ProbeHasLine(ways, newEngine, s)
      BY DEF ProbeHasLine
    <3> QED BY <1>1, <3>1, <3>2, <3>3 DEF NodeInv
  <2>3. engine' = [engine EXCEPT ![n] = newEngine]
    OBVIOUS
  <2>4. CacheTypeOK' /\ CachesHaveLines'
    BY <1>5, <2>2, <2>3
  <2> QED BY <1>4, <2>1, <2>4
<1>9. CASE CopybackSend(n)
  <2> DEFINE p == NextPacket(e.packets)
             final == e.packets \cup {p} = Packets
  <2>1. /\ e.phase = "CopybackData" /\ e.packets # Packets /\ e.victim \in Lines
        /\ e.line \in Lines /\ ways[e.way].line \in {e.victim, NoLine}
    BY <1>1, <1>9 DEF CopybackSend, NodeInv, EngineHasLine
  <2>2. p \in Packets
    BY <1>2, <2>1, NextPacketType DEF EngineState
  <2>3. /\ reqData' = reqData \cup
             {[op |-> "CopyBackWriteData", src |-> n, packet |-> p, version |-> e.data[p],
               state |-> IF IsValid(e.state) THEN "Unique" ELSE "Invalid",
               passDirty |-> IsDirty(e.state), err |-> FALSE]}
        /\ UNCHANGED <<snps, rsps, acks, compData, subordinateLinks, history, snoop>>
    BY <1>9 DEF CopybackSend
  <2>4. reqData' \subseteq RequesterData
    <3>1. e.data[p] \in Versions
      BY <1>2, <2>2 DEF EngineState, LineData
    <3>2. [op |-> "CopyBackWriteData", src |-> n, packet |-> p, version |-> e.data[p],
           state |-> IF IsValid(e.state) THEN "Unique" ELSE "Invalid",
           passDirty |-> IsDirty(e.state), err |-> FALSE] \in RequesterData
      <4> HIDE DEF p
      <4> QED BY <2>2, <3>1 DEF RequesterData, Requesters, IsDirty, ResponseStates
    <3> QED BY <2>3, <3>2 DEF LinksTypeOK
  <2>5. CASE final
    <3> DEFINE newWays == [ways EXCEPT ![e.way] = EmptyWay]
               newEngine == [IdleEngine EXCEPT !.phase = "Refill", !.access = e.access,
                               !.line = e.line, !.way = e.way, !.version = e.version]
    <3>1. /\ l1' = [l1 EXCEPT ![n] = newWays]
          /\ reqs' = reqs \cup {RefillRequest(n, e.access, e.line)}
          /\ engine' = [engine EXCEPT ![n] = newEngine]
      BY <1>9, <2>5 DEF CopybackSend
    <3>2. LinksTypeOK'
      BY <2>1, <2>3, <2>4, <3>1, CacheRequestType DEF LinksTypeOK
    <3>3. RequestShape'
      BY <1>3, <2>1, <3>1, CacheRequestType DEF RequestShape
    <3>4. newEngine \in EngineState /\ newEngine.phase = "Refill" /\ newEngine.line \in Lines
      BY <1>2, <2>1, IdleTypes DEF EngineState, EnginePhases, IdleEngine
    <3>5. newWays \in [L1Ways -> WayState] /\ WaysHaveLines(newWays)
      BY <1>1, <1>2, IdleTypes DEF NodeInv, WaysHaveLines, EmptyWay
    <3>6. ProbeHasLine(newWays, newEngine, s)
      <4>1. s.active /\ s.hit => s.way # e.way
        BY <1>1, <2>1, LinkAssumption DEF NodeInv, ProbeHasLine
      <4> HIDE DEF newEngine
      <4> QED BY <1>1, <1>2, <3>4, <4>1 DEF NodeInv, ProbeHasLine, SnoopState
    <3>7. NodeInv(newWays, newEngine, s)
      <4> HIDE DEF newEngine, newWays
      <4> QED BY <1>2, <3>4, <3>5, <3>6 DEF NodeInv, EngineHasLine
    <3>8. CacheTypeOK' /\ CachesHaveLines'
      <4>1. snoop' = [snoop EXCEPT ![n] = s]
        BY <2>3, NodeKept
      <4> HIDE DEF newEngine, newWays, e, s, ways
      <4> QED BY <3>1, <3>7, <4>1, OneNodeChanges
    <3> QED BY <3>2, <3>3, <3>8
  <2>6. CASE ~ final
    <3> DEFINE newEngine == [e EXCEPT !.packets = @ \cup {p}]
    <3>1. engine' = [engine EXCEPT ![n] = newEngine] /\ UNCHANGED <<l1, reqs>>
      BY <1>9, <2>6 DEF CopybackSend
    <3>2. LinksTypeOK'
      BY <2>3, <2>4, <3>1 DEF LinksTypeOK
    <3>3. NodeInv(ways, newEngine, s)
      <4>1. newEngine \in EngineState
        BY <1>2, <2>2 DEF EngineState
      <4>2. EngineHasLine(ways, newEngine)
        BY <1>2, <2>1, <2>6 DEF EngineHasLine, EngineState
      <4>3. ProbeHasLine(ways, newEngine, s)
        BY <1>1, <1>2 DEF NodeInv, ProbeHasLine, EngineState
      <4> QED BY <1>1, <4>1, <4>2, <4>3 DEF NodeInv
    <3>4. CacheTypeOK' /\ CachesHaveLines'
      BY <1>5, <2>3, <3>1, <3>3
    <3> QED BY <1>4, <3>1, <3>2, <3>4
  <2> QED BY <2>5, <2>6
<1>10. CASE RefillData(n)
  <2>1. PICK m \in compData :
          LET received == e.packets \cup {m.packet}
          IN  /\ compData' = compData \ {m}
              /\ engine' = [engine EXCEPT ![n] =
                   [e EXCEPT !.packets = received,
                             !.data = [@ EXCEPT ![m.packet] = m.version],
                             !.state = IF e.packets = {} THEN m.state ELSE @,
                             !.err = @ \/ m.err,
                             !.phase = IF received = Packets THEN "Acknowledge" ELSE "Refill"]]
    <3> HIDE DEF ways, s
    <3> QED BY <1>10 DEF RefillData
  <2>2. UNCHANGED <<reqs, snps, rsps, acks, reqData, subordinateLinks, history, l1, snoop>>
        /\ e.phase = "Refill"
    BY <1>10 DEF RefillData
  <2>3. /\ m.packet \in Packets /\ m.version \in Versions /\ m.state \in ResponseStates
        /\ m.err \in BOOLEAN
    BY DEF LinksTypeOK, CompletionData
  <2> DEFINE received == e.packets \cup {m.packet}
             newEngine ==
               [e EXCEPT !.packets = received,
                         !.data = [@ EXCEPT ![m.packet] = m.version],
                         !.state = IF e.packets = {} THEN m.state ELSE @,
                         !.err = @ \/ m.err,
                         !.phase = IF received = Packets THEN "Acknowledge" ELSE "Refill"]
  <2>4. LinksTypeOK'
    BY <2>1, <2>2 DEF LinksTypeOK
  <2>5. NodeInv(ways, newEngine, s)
    <3>1. /\ newEngine \in EngineState /\ newEngine.line = e.line
          /\ newEngine.phase \in {"Acknowledge", "Refill"}
      BY ZenonT(60), <1>2, <2>3 DEF EngineState, EnginePhases, LineData
    <3>2. e.line \in Lines
      BY <1>1, <2>2 DEF NodeInv, EngineHasLine
    <3> HIDE DEF newEngine
    <3> QED BY <1>1, <3>1, <3>2 DEF NodeInv, EngineHasLine, ProbeHasLine
  <2>6. CacheTypeOK' /\ CachesHaveLines'
    <3>1. engine' = [engine EXCEPT ![n] = newEngine]
      BY <2>1
    <3> HIDE DEF newEngine
    <3> QED BY <1>5, <2>2, <2>5, <3>1
  <2> QED BY <1>4, <2>2, <2>4, <2>6
<1>11. CASE RefillAcknowledge(n)
  <2> USE <1>11 DEF RefillAcknowledge
  <2> DEFINE newEngine == [e EXCEPT !.phase = "Complete"]
  <2>1. LinksTypeOK'
    <3>1. CompAck(n) \in Acknowledgement
      BY DEF CompAck, Acknowledgement, Requesters, ResponseStates
    <3> QED BY <3>1 DEF LinksTypeOK
  <2>2. NodeInv(ways, newEngine, s)
    <3>1. newEngine \in EngineState /\ newEngine.line = e.line /\ newEngine.phase = "Complete"
      BY <1>2 DEF EngineState, EnginePhases
    <3>2. e.line \in Lines
      BY <1>1 DEF NodeInv, EngineHasLine
    <3> HIDE DEF newEngine
    <3> QED BY <1>1, <3>1, <3>2 DEF NodeInv, EngineHasLine, ProbeHasLine
  <2>3. engine' = [engine EXCEPT ![n] = newEngine]
    OBVIOUS
  <2>4. CacheTypeOK' /\ CachesHaveLines'
    BY <1>5, <2>2, <2>3
  <2> QED BY <1>4, <2>1, <2>4
<1>12. CASE InstallRefill(n)
  <2>1. PICK ps \in SUBSET Packets :
          LET merged(line) == [p \in Packets |-> IF p \in ps THEN e.version ELSE line[p]]
          IN  /\ l1' = [l1 EXCEPT ![n][e.way] =
                   [line |-> e.line, state |-> InstallState(e), data |-> merged(e.data)]]
              /\ latest' = [latest EXCEPT ![e.line] = merged(@)]
    BY <1>12 DEF InstallRefill
  <2>2. /\ UNCHANGED <<requesterLinks, subordinateLinks, snoop, stores>>
        /\ engine' = [engine EXCEPT ![n] = IdleEngine]
        /\ e.phase = "Complete" /\ ~ s.active
    BY <1>12 DEF InstallRefill, RefillCanComplete
  <2> DEFINE merged(line) == [p \in Packets |-> IF p \in ps THEN e.version ELSE line[p]]
             way == [line |-> e.line, state |-> InstallState(e), data |-> merged(e.data)]
             newWays == [ways EXCEPT ![e.way] = way]
  <2>3. e.line \in Lines
    BY <1>1, <2>2 DEF NodeInv, EngineHasLine
  <2>4. /\ merged(e.data) \in LineData /\ merged(latest[e.line]) \in LineData
    BY <1>2, <2>3 DEF EngineState, LinksTypeOK, LineData
  <2>5. LinksTypeOK'
    <3>1. latest' = [latest EXCEPT ![e.line] = merged(latest[e.line])]
      BY <2>1
    <3> HIDE DEF merged
    <3>2. latest' \in [Lines -> LineData]
      BY <2>3, <2>4, <3>1 DEF LinksTypeOK
    <3> QED BY <2>2, <3>2 DEF LinksTypeOK
  <2>6. NodeInv(newWays, IdleEngine, s)
    <3>1. way \in WayState /\ way.line \in Lines
      BY <2>3, <2>4 DEF WayState, InstallState, CacheStates
    <3> HIDE DEF way
    <3>2. newWays \in [L1Ways -> WayState] /\ WaysHaveLines(newWays)
      BY <1>1, <1>2, <3>1 DEF NodeInv, WaysHaveLines, EngineState
    <3> HIDE DEF newWays
    <3> QED BY <1>2, <2>2, <3>2, IdleTypes
            DEF NodeInv, EngineHasLine, ProbeHasLine, IdleEngine
  <2>7. CacheTypeOK' /\ CachesHaveLines'
    <3>1. l1' = [l1 EXCEPT ![n] = newWays] /\ snoop' = [snoop EXCEPT ![n] = s]
      BY <2>1, <2>2, NodeKept
    <3> HIDE DEF newWays, e, s, ways
    <3> QED BY <2>2, <2>6, <3>1, OneNodeChanges
  <2> QED BY <1>4, <2>2, <2>5, <2>7
<1>13. CASE FinishWithoutInstall(n)
  <2> USE <1>13 DEF FinishWithoutInstall
  <2>1. LinksTypeOK'
    BY DEF LinksTypeOK
  <2>2. CacheTypeOK' /\ CachesHaveLines'
    BY <1>5, <1>6
  <2> QED BY <1>4, <2>1, <2>2
<1> QED BY <1>7, <1>8, <1>9, <1>10, <1>11, <1>12, <1>13 DEF EngineDuty

\* Retiring a probe: the way it looked up is dropped, shared or left alone, and
\* the engine's eviction state follows.
LEMMA RetireSnoopType ==
  ASSUME CacheInv, NEW n \in RNF, snoop[n].active, RetireSnoop(n)
  PROVE  CacheTypeOK' /\ CachesHaveLines'
<1> DEFINE e == engine[n]
           s == snoop[n]
           ways == l1[n]
<1>1. NodeInv(ways, e, s)
  BY DEF CacheInv, CachesHaveLines
<1>2. e \in EngineState /\ s \in SnoopState /\ ways \in [L1Ways -> WayState]
  BY <1>1 DEF NodeInv
<1> DEFINE dropped == [ways EXCEPT ![s.way] = EmptyWay]
           shared  == [ways EXCEPT ![s.way] = [@ EXCEPT !.state = "SharedClean"]]
<1>3. PICK newWays :
        /\ newWays = ways \/ newWays = dropped \/ (newWays = shared /\ s.hit)
        /\ l1' = [l1 EXCEPT ![n] = newWays]
  <2>1. l1 = [l1 EXCEPT ![n] = ways]
    BY NodeKept DEF CacheInv
  <2>2. \/ l1' = l1
        \/ l1' = [l1 EXCEPT ![n][s.way] = EmptyWay]
        \/ l1' = [l1 EXCEPT ![n][s.way].state = "SharedClean"] /\ s.hit
    BY DEF RetireSnoop
  <2> QED BY <2>1, <2>2
<1>4. PICK newEngine :
        /\ \/ newEngine = e
           \/ newEngine = [e EXCEPT !.state = "Invalid"]
           \/ newEngine = [e EXCEPT !.state = "SharedClean"]
        /\ engine' = [engine EXCEPT ![n] = newEngine]
  <2>1. engine = [engine EXCEPT ![n] = e]
    BY NodeKept DEF CacheInv
  <2>2. \/ engine' = engine
        \/ engine' = [engine EXCEPT ![n].state = "Invalid"]
        \/ engine' = [engine EXCEPT ![n].state = "SharedClean"]
    BY DEF RetireSnoop
  <2> QED BY <2>1, <2>2
<1>5. /\ newWays \in [L1Ways -> WayState] /\ WaysHaveLines(newWays)
      /\ \A w \in L1Ways : newWays[w].line \in {ways[w].line, NoLine}
  <2>1. CASE newWays = ways
    BY <1>1, <1>2, <2>1 DEF NodeInv
  <2>2. CASE newWays = dropped
    BY <1>1, <1>2, <2>2, IdleTypes DEF NodeInv, WaysHaveLines, EmptyWay
  <2>3. CASE newWays = shared /\ s.hit
    <3> DEFINE way == [ways[s.way] EXCEPT !.state = "SharedClean"]
    <3>1. s.way \in L1Ways /\ ways[s.way].line \in Lines
      BY <1>1, <1>2, <2>3 DEF NodeInv, ProbeHasLine, SnoopState
    <3>2. way \in WayState /\ way.line = ways[s.way].line
      BY <1>2, <3>1 DEF WayState, CacheStates
    <3>3. newWays = [ways EXCEPT ![s.way] = way]
      BY <2>3
    <3> HIDE DEF way
    <3> QED BY <1>1, <1>2, <3>1, <3>2, <3>3 DEF NodeInv, WaysHaveLines
  <2> QED BY <1>3, <2>1, <2>2, <2>3
<1>6. /\ newEngine \in EngineState /\ newEngine.phase = e.phase /\ newEngine.line = e.line
      /\ newEngine.victim = e.victim /\ newEngine.packets = e.packets /\ newEngine.way = e.way
  BY <1>2, <1>4 DEF EngineState, CacheStates
<1>7. NodeInv(newWays, newEngine, IdleSnoop)
  <2>1. EngineHasLine(newWays, newEngine)
    BY <1>1, <1>2, <1>5, <1>6 DEF NodeInv, EngineHasLine, EngineState
  <2>2. ProbeHasLine(newWays, newEngine, IdleSnoop)
    BY DEF ProbeHasLine, IdleSnoop
  <2> QED BY <1>5, <1>6, <2>1, <2>2, IdleTypes DEF NodeInv
<1>8. snoop' = [snoop EXCEPT ![n] = IdleSnoop]
  BY DEF RetireSnoop
<1> QED BY <1>3, <1>4, <1>7, <1>8, OneNodeChanges DEF CacheInv

\* What the snoop engine does.
LEMMA SnoopDutyType ==
  ASSUME CacheInv, NEW n \in RNF, SnoopDuty(n), UNCHANGED homeVars
  PROVE  CacheInv'
<1> USE DEF CacheInv, requesterLinks, subordinateLinks, history
<1> DEFINE e == engine[n]
           s == snoop[n]
           ways == l1[n]
<1>1. NodeInv(ways, e, s)
  BY DEF CachesHaveLines
<1>2. e \in EngineState /\ s \in SnoopState /\ ways \in [L1Ways -> WayState]
  BY <1>1 DEF NodeInv
<1>3. phase' = phase /\ request' = request /\ remainingResponse' = remainingResponse
  BY DEF homeVars, requesterRegs
<1>4. reqs' = reqs => RequestShape'
  BY <1>3 DEF RequestShape
<1>5. CASE SnoopAccept(n)
  <2> DEFINE hits(m) == HitWays(n, m.line)
             way(m) == IF hits(m) # {} THEN CHOOSE x \in hits(m) : TRUE ELSE IdleSnoop.way
             newSnoop(m, fault) ==
               [active |-> TRUE, op |-> m.op, line |-> m.line, hit |-> hits(m) # {},
                way |-> way(m),
                state |-> IF hits(m) # {} THEN ways[way(m)].state ELSE "Invalid",
                data |-> IF hits(m) # {} THEN ways[way(m)].data ELSE NoData,
                packets |-> {}, fault |-> fault]
  <2>1. PICK m \in snps, fault \in BOOLEAN :
          /\ ~ ProtectCopyback(n, m.line)
          /\ snps' = snps \ {m}
          /\ snoop' = [snoop EXCEPT ![n] = newSnoop(m, fault)]
    BY <1>5 DEF SnoopAccept
  <2>2. UNCHANGED <<reqs, rsps, acks, compData, reqData, subordinateLinks, history, l1, engine>>
    BY <1>5 DEF SnoopAccept
  <2>3. LinksTypeOK'
    BY <2>1, <2>2 DEF LinksTypeOK
  <2>4. m.op \in SnoopOps /\ m.line \in Lines
    BY DEF LinksTypeOK, Snoop
  <2>5. way(m) \in L1Ways /\ (hits(m) # {} => ways[way(m)].line = m.line)
    BY IndexFacts DEF HitWays, IdleSnoop
  <2>6. newSnoop(m, fault) \in SnoopState
    <3>1. ways[way(m)] \in WayState
      BY <1>2, <2>5
    <3>2. NoData \in LineData
      BY LinkAssumption DEF NoData, LineData, Versions
    <3> HIDE DEF way, hits
    <3> QED BY <2>4, <2>5, <3>1, <3>2 DEF SnoopState, WayState, CacheStates
  <2>7. NodeInv(ways, e, newSnoop(m, fault))
    <3>1. e.phase = "CopybackData" => e.victim # m.line
      BY <2>1 DEF ProtectCopyback
    <3>2. Packets # {}
      BY IndexFacts
    <3>3. ProbeHasLine(ways, e, newSnoop(m, fault))
      <4> HIDE DEF way, hits
      <4> QED BY <2>4, <2>5, <3>1, <3>2 DEF ProbeHasLine
    <3> HIDE DEF newSnoop
    <3> QED BY <1>1, <2>6, <3>3 DEF NodeInv
  <2>8. CacheTypeOK' /\ CachesHaveLines'
    <3> HIDE DEF newSnoop, e, ways
    <3>1. l1' = [l1 EXCEPT ![n] = ways] /\ engine' = [engine EXCEPT ![n] = e]
      BY <2>2, NodeKept DEF ways, e
    <3> QED BY <2>1, <2>7, <3>1, OneNodeChanges
  <2> QED BY <1>4, <2>2, <2>3, <2>8
<1>6. CASE SnoopRespond(n)
  <2> USE <1>6 DEF SnoopRespond
  <2>1. [op |-> "SnpResp", src |-> n, err |-> s.fault, state |-> CleanResponseState(s)]
          \in Acknowledgement
    <3>1. CleanResponseState(s) \in ResponseStates
      BY DEF CleanResponseState, ResponseStates
    <3> QED BY <1>2, <3>1 DEF Acknowledgement, Requesters, SnoopState
  <2>2. LinksTypeOK'
    BY <2>1 DEF LinksTypeOK
  <2> QED BY <1>4, <2>2, RetireSnoopType
<1>7. CASE SnoopSendData(n)
  <2> DEFINE p == NextPacket(s.packets)
  <2>1. s.active /\ s.packets # Packets
    BY <1>1, <1>7 DEF SnoopSendData, NodeInv, ProbeHasLine
  <2>2. p \in Packets
    BY <1>2, <2>1, NextPacketType DEF SnoopState
  <2>3. /\ reqData' = reqData \cup
             {[op |-> "SnpRespData", src |-> n, packet |-> p, version |-> s.data[p],
               state |-> "Invalid", passDirty |-> TRUE, err |-> s.fault /\ s.packets = {}]}
        /\ UNCHANGED <<reqs, snps, rsps, acks, compData, subordinateLinks, history>>
    BY <1>7 DEF SnoopSendData
  <2>4. LinksTypeOK'
    <3>1. s.data[p] \in Versions /\ (s.fault /\ s.packets = {}) \in BOOLEAN
      BY <1>2, <2>2 DEF SnoopState, LineData
    <3>2. [op |-> "SnpRespData", src |-> n, packet |-> p, version |-> s.data[p],
           state |-> "Invalid", passDirty |-> TRUE, err |-> s.fault /\ s.packets = {}]
            \in RequesterData
      <4> HIDE DEF p
      <4> QED BY <2>2, <3>1 DEF RequesterData, Requesters, ResponseStates
    <3> QED BY <2>3, <3>2 DEF LinksTypeOK
  <2>5. CASE s.packets \cup {p} = Packets
    BY <1>4, <1>7, <2>1, <2>3, <2>4, <2>5, RetireSnoopType DEF SnoopSendData
  <2>6. CASE s.packets \cup {p} # Packets
    <3> DEFINE newSnoop == [s EXCEPT !.packets = @ \cup {p}]
    <3>1. snoop' = [snoop EXCEPT ![n] = newSnoop] /\ UNCHANGED <<l1, engine>>
      BY <1>7, <2>6 DEF SnoopSendData
    <3>2. NodeInv(ways, e, newSnoop)
      <4>1. newSnoop \in SnoopState
        BY <1>2, <2>2 DEF SnoopState
      <4>2. ProbeHasLine(ways, e, newSnoop)
        BY <1>1, <1>2, <2>1, <2>6 DEF NodeInv, ProbeHasLine, SnoopState
      <4> QED BY <1>1, <4>1, <4>2 DEF NodeInv
    <3>3. CacheTypeOK' /\ CachesHaveLines'
      <4> HIDE DEF newSnoop, e, ways
      <4>1. l1' = [l1 EXCEPT ![n] = ways] /\ engine' = [engine EXCEPT ![n] = e]
        BY <3>1, NodeKept DEF ways, e
      <4> QED BY <3>1, <3>2, <4>1, OneNodeChanges
    <3> QED BY <1>4, <2>3, <2>4, <3>3
  <2> QED BY <2>5, <2>6
<1> QED BY <1>5, <1>6, <1>7 DEF SnoopDuty

LEMMA CacheStepType ==
  ASSUME TypeInv, NEW n \in RNF, CacheStep(n), WindowFollows
  PROVE  TypeInv'
<1>1. CacheInv'
  BY CoreStepType, EngineDutyType, SnoopDutyType DEF TypeInv, TypeOK, CacheInv, CacheStep
<1>2. HomeTypeOK' /\ ValidWaysHaveTags' /\ VictimIsKnown'
  BY DEF TypeInv, TypeOK, CacheStep, homeVars, requesterRegs, lookupRegs, snoopTargets, snoopRegs,
         backingRegs, directory, storage, HomeTypeOK, ValidWaysHaveTags, VictimIsKnown, Maintenance
<1>3. IOTypeOK' /\ UncachedHasLine'
  BY DEF TypeInv, TypeOK, CacheStep, IOTypeOK, UncachedHasLine
<1>4. MemoryTypeOK' /\ WriteHasLine'
  BY DEF TypeInv, TypeOK, CacheStep, memoryVars, MemoryTypeOK, WriteHasLine
<1>5. (window \in [IO -> [Packets -> SUBSET Versions]])'
  BY <1>1, <1>3, WindowType DEF TypeInv, TypeOK, CacheInv
<1> QED BY <1>1, <1>2, <1>3, <1>4, <1>5 DEF TypeInv, TypeOK, CacheInv

------------------------------------------------------------------------------
(* The uncached requesters and memory.                                     *)

LEMMA IdleIOType ==
  IdleIO \in [phase : IOPhases, line : Lines \cup {NoLine}, packets : SUBSET Packets,
              data : LineData, err : BOOLEAN]
<1>1. [p \in Packets |-> 0] \in LineData
  BY LinkAssumption DEF LineData, Versions
<1> QED BY <1>1 DEF IdleIO, IOPhases

\* A step of one uncached requester that leaves it in order leaves all of them so.
LEMMA OneIOChanges ==
  ASSUME IOTypeOK, UncachedHasLine, NEW i \in IO, NEW new,
         new \in [phase : IOPhases, line : Lines \cup {NoLine}, packets : SUBSET Packets,
                  data : LineData, err : BOOLEAN],
         new.phase # "Idle" => new.line \in Lines,
         io' = [io EXCEPT ![i] = new]
  PROVE  IOTypeOK' /\ UncachedHasLine'
BY DEF IOTypeOK, UncachedHasLine

IOInv == LinksTypeOK /\ IOTypeOK /\ UncachedHasLine /\ RequestShape

LEMMA UncachedStepType ==
  ASSUME IOInv, NEW i \in IO, IOBegin(i) \/ IODuty(i), UNCHANGED homeVars
  PROVE  IOInv'
<1> USE DEF IOInv, requesterLinks, subordinateLinks, history
<1>1. io[i] \in [phase : IOPhases, line : Lines \cup {NoLine}, packets : SUBSET Packets,
                 data : LineData, err : BOOLEAN]
  BY DEF IOTypeOK
<1>2. phase' = phase /\ request' = request /\ remainingResponse' = remainingResponse
  BY DEF homeVars, requesterRegs
<1>3. reqs' = reqs => RequestShape'
  BY <1>2 DEF RequestShape
<1>4. CASE ReadOnce(i)
  <2>1. PICK line \in Lines :
          /\ reqs' = reqs \cup {[op |-> "ReadOnce", src |-> i, line |-> line,
                                 packets |-> Packets, snoopMe |-> FALSE]}
          /\ io' = [io EXCEPT ![i] = [IdleIO EXCEPT !.phase = "Read", !.line = line]]
          /\ UNCHANGED <<snps, rsps, acks, compData, reqData, subordinateLinks, history>>
    BY <1>4 DEF ReadOnce
  <2>2. LinksTypeOK'
    <3>1. [op |-> "ReadOnce", src |-> i, line |-> line, packets |-> Packets, snoopMe |-> FALSE]
            \in Request
      BY DEF Request, RequestOps, Requesters
    <3> QED BY <2>1, <3>1 DEF LinksTypeOK
  <2>3. RequestShape'
    BY <1>2, <2>1, IndexFacts DEF RequestShape, RefillOps
  <2>4. IOTypeOK' /\ UncachedHasLine'
    <3> DEFINE new == [IdleIO EXCEPT !.phase = "Read", !.line = line]
    <3>1. /\ new \in [phase : IOPhases, line : Lines \cup {NoLine}, packets : SUBSET Packets,
                      data : LineData, err : BOOLEAN]
          /\ new.line \in Lines
      BY IdleIOType DEF IOPhases
    <3> QED BY <2>1, <3>1, OneIOChanges
  <2> QED BY <2>2, <2>3, <2>4
<1>5. CASE WriteUnique(i)
  <2>1. PICK line \in Lines, p \in Packets :
          /\ reqs' = reqs \cup {[op |-> "WriteUniquePtl", src |-> i, line |-> line,
                                 packets |-> {p}, snoopMe |-> FALSE]}
          /\ io' = [io EXCEPT ![i] = [IdleIO EXCEPT !.phase = "Write", !.line = line,
                                        !.packets = {p}, !.data[p] = stores + 1]]
          /\ UNCHANGED <<snps, rsps, acks, compData, reqData, subordinateLinks, latest>>
          /\ stores' = stores + 1 /\ stores < MaxStores
    BY <1>5 DEF WriteUnique
  <2>2. stores + 1 \in Versions
    BY <2>1, LinkAssumption DEF LinksTypeOK, Versions
  <2>3. LinksTypeOK'
    <3>1. [op |-> "WriteUniquePtl", src |-> i, line |-> line, packets |-> {p}, snoopMe |-> FALSE]
            \in Request
      BY DEF Request, RequestOps, Requesters
    <3> QED BY <2>1, <2>2, <3>1 DEF LinksTypeOK
  <2>4. RequestShape'
    BY <1>2, <2>1 DEF RequestShape, RefillOps
  <2>5. IOTypeOK' /\ UncachedHasLine'
    <3> DEFINE new == [IdleIO EXCEPT !.phase = "Write", !.line = line,
                                     !.packets = {p}, !.data[p] = stores + 1]
    <3>1. /\ new \in [phase : IOPhases, line : Lines \cup {NoLine}, packets : SUBSET Packets,
                      data : LineData, err : BOOLEAN]
          /\ new.line \in Lines
      BY <2>2, IdleIOType DEF IOPhases, LineData
    <3> QED BY <2>1, <3>1, OneIOChanges
  <2> QED BY <2>3, <2>4, <2>5
<1>6. CASE ReadOnceData(i)
  <2>1. PICK m \in compData :
          LET received == io[i].packets \cup {m.packet}
          IN  /\ compData' = compData \ {m}
              /\ io' = [io EXCEPT ![i] =
                   [io[i] EXCEPT !.packets = received,
                                 !.data = [@ EXCEPT ![m.packet] = m.version],
                                 !.err = @ \/ m.err,
                                 !.phase = IF received = Packets THEN "Acknowledge" ELSE "Read"]]
    BY <1>6 DEF ReadOnceData
  <2>2. /\ UNCHANGED <<reqs, snps, rsps, acks, reqData, subordinateLinks, history>>
        /\ io[i].phase = "Read"
    BY <1>6 DEF ReadOnceData
  <2>3. LinksTypeOK'
    BY <2>1, <2>2 DEF LinksTypeOK
  <2>4. IOTypeOK' /\ UncachedHasLine'
    <3> DEFINE received == io[i].packets \cup {m.packet}
               new ==
                 [io[i] EXCEPT !.packets = received,
                               !.data = [@ EXCEPT ![m.packet] = m.version],
                               !.err = @ \/ m.err,
                               !.phase = IF received = Packets THEN "Acknowledge" ELSE "Read"]
    <3>1. m.packet \in Packets /\ m.version \in Versions /\ m.err \in BOOLEAN
      BY DEF LinksTypeOK, CompletionData
    <3>2. /\ new \in [phase : IOPhases, line : Lines \cup {NoLine}, packets : SUBSET Packets,
                      data : LineData, err : BOOLEAN]
          /\ new.line = io[i].line
      BY <1>1, <3>1 DEF IOPhases, LineData
    <3>3. io[i].line \in Lines
      BY <2>2 DEF UncachedHasLine
    <3>4. io' = [io EXCEPT ![i] = new]
      BY <2>1
    <3> HIDE DEF new
    <3> QED BY <3>2, <3>3, <3>4, OneIOChanges
  <2> QED BY <1>3, <2>2, <2>3, <2>4
<1>7. CASE ReadOnceAcknowledge(i)
  <2> USE <1>7 DEF ReadOnceAcknowledge
  <2>1. LinksTypeOK'
    <3>1. CompAck(i) \in Acknowledgement
      BY DEF CompAck, Acknowledgement, Requesters, ResponseStates
    <3> QED BY <3>1 DEF LinksTypeOK
  <2>2. IOTypeOK' /\ UncachedHasLine'
    BY IdleIOType, OneIOChanges DEF IdleIO
  <2> QED BY <1>3, <2>1, <2>2
<1>8. CASE WriteUniqueData(i)
  <2>1. PICK m \in rsps, p \in io[i].packets :
          /\ rsps' = rsps \ {m}
          /\ reqData' = reqData \cup
               {[op |-> "NonCopyBackWriteData", src |-> i, packet |-> p,
                 version |-> io[i].data[p], state |-> "Invalid", passDirty |-> FALSE,
                 err |-> FALSE]}
    BY <1>8 DEF WriteUniqueData
  <2>2. /\ UNCHANGED <<reqs, snps, acks, compData, subordinateLinks, history>>
        /\ io' = [io EXCEPT ![i] = [io[i] EXCEPT !.phase = "Completion"]]
        /\ io[i].phase = "Write"
    BY <1>8 DEF WriteUniqueData
  <2>3. LinksTypeOK'
    <3>1. [op |-> "NonCopyBackWriteData", src |-> i, packet |-> p, version |-> io[i].data[p],
           state |-> "Invalid", passDirty |-> FALSE, err |-> FALSE] \in RequesterData
      <4>1. p \in Packets /\ io[i].data[p] \in Versions
        BY <1>1 DEF LineData
      <4> QED BY <4>1 DEF RequesterData, Requesters, ResponseStates
    <3> QED BY <2>1, <2>2, <3>1 DEF LinksTypeOK
  <2>4. IOTypeOK' /\ UncachedHasLine'
    <3> DEFINE new == [io[i] EXCEPT !.phase = "Completion"]
    <3>1. /\ new \in [phase : IOPhases, line : Lines \cup {NoLine}, packets : SUBSET Packets,
                      data : LineData, err : BOOLEAN]
          /\ new.line = io[i].line
      BY <1>1 DEF IOPhases
    <3>2. io[i].line \in Lines
      BY <2>2 DEF UncachedHasLine
    <3> HIDE DEF new
    <3> QED BY <2>2, <3>1, <3>2, OneIOChanges DEF new
  <2> QED BY <1>3, <2>2, <2>3, <2>4
<1>9. CASE WriteUniqueCompletion(i)
  <2> USE <1>9 DEF WriteUniqueCompletion
  <2>1. LinksTypeOK'
    BY DEF LinksTypeOK
  <2>2. IOTypeOK' /\ UncachedHasLine'
    BY IdleIOType, OneIOChanges DEF IdleIO
  <2> QED BY <1>3, <2>1, <2>2
<1> QED BY <1>4, <1>5, <1>6, <1>7, <1>8, <1>9 DEF IOBegin, IODuty

LEMMA IOStepType ==
  ASSUME TypeInv, NEW i \in IO, IOStep(i), WindowFollows
  PROVE  TypeInv'
<1>1. IOInv'
  BY UncachedStepType DEF TypeInv, TypeOK, IOInv, IOStep
<1>2. HomeTypeOK' /\ ValidWaysHaveTags' /\ VictimIsKnown'
  BY DEF TypeInv, TypeOK, IOStep, homeVars, requesterRegs, lookupRegs, snoopTargets, snoopRegs,
         backingRegs, directory, storage, HomeTypeOK, ValidWaysHaveTags, VictimIsKnown, Maintenance
<1>3. CacheTypeOK' /\ CachesHaveLines'
  BY DEF TypeInv, TypeOK, IOStep, cacheVars, CacheTypeOK, CachesHaveLines
<1>4. MemoryTypeOK' /\ WriteHasLine'
  BY DEF TypeInv, TypeOK, IOStep, memoryVars, MemoryTypeOK, WriteHasLine
<1>5. (window \in [IO -> [Packets -> SUBSET Versions]])'
  BY <1>1, WindowType DEF TypeInv, TypeOK, IOInv
<1> QED BY <1>1, <1>2, <1>3, <1>4, <1>5 DEF TypeInv, TypeOK, IOInv

LEMMA MemoryStepType ==
  ASSUME TypeInv, MemoryStep, WindowFollows
  PROVE  TypeInv'
<1>1. LinksTypeOK /\ MemoryTypeOK /\ WriteHasLine
  BY DEF TypeInv, TypeOK
<1>2. LinksTypeOK' /\ MemoryTypeOK' /\ WriteHasLine' /\ reqs' = reqs
  <2> USE DEF requesterLinks, subordinateLinks, history, memoryVars
  <2>1. CASE ReadMemory
    <3>1. PICK m \in memReqs, bad \in SUBSET Packets :
            fillData' = fillData \cup
              {[packet |-> p, version |-> memory[m.line][p], err |-> p \in bad] : p \in Packets}
      BY <2>1 DEF ReadMemory
    <3>2. ASSUME NEW p \in Packets
          PROVE  [packet |-> p, version |-> memory[m.line][p], err |-> p \in bad] \in FillPacket
      BY <1>1 DEF LinksTypeOK, MemoryTypeOK, MemRequest, FillPacket, LineData
    <3>3. fillData' \subseteq FillPacket
      BY <1>1, <3>1, <3>2 DEF LinksTypeOK
    <3> QED BY <1>1, <2>1, <3>3 DEF ReadMemory, LinksTypeOK, MemoryTypeOK, WriteHasLine
  <2>2. CASE AcceptWrite
    <3>1. PICK m \in memReqs, error \in WriteErrors :
            /\ memReqs' = memReqs \ {m}
            /\ memWrite' = [active |-> TRUE, line |-> m.line, packets |-> {}, error |-> error]
            /\ memRsps' = memRsps \cup {[op |-> "DBIDResp", err |-> error = "DBIDResp"]}
      BY <2>2 DEF AcceptWrite
    <3>2. error \in {"none", "DBIDResp", "Comp"} /\ m.line \in Lines
      BY <1>1 DEF WriteErrors, LinksTypeOK, MemRequest
    <3>3. memRsps' \subseteq MemResponse
      <4>1. (error = "DBIDResp") \in BOOLEAN
        OBVIOUS
      <4>2. [op |-> "DBIDResp", err |-> error = "DBIDResp"] \in MemResponse
        BY <4>1 DEF MemResponse
      <4> QED BY <1>1, <3>1, <4>2 DEF LinksTypeOK
    <3>4. LinksTypeOK'
      BY <1>1, <2>2, <3>1, <3>3 DEF AcceptWrite, LinksTypeOK
    <3>5. /\ memWrite' \in [active : BOOLEAN, line : Lines \cup {NoLine},
                            packets : SUBSET Packets, error : {"none", "DBIDResp", "Comp"}]
          /\ memWrite'.line \in Lines
      BY <3>1, <3>2
    <3> QED BY <1>1, <2>2, <3>4, <3>5 DEF AcceptWrite, MemoryTypeOK, WriteHasLine
  <2>3. CASE WriteMemory
    <3>1. PICK m \in memData :
            /\ memWrite' = [memWrite EXCEPT !.packets = @ \cup {m.packet}]
            /\ memory' = IF memWrite.error = "none"
                         THEN [memory EXCEPT ![memWrite.line][m.packet] = m.version] ELSE memory
            /\ memWrite.active
            /\ memData' = memData \ {m}
      BY <2>3 DEF WriteMemory
    <3>2. m.packet \in Packets /\ m.version \in Versions /\ memWrite.line \in Lines
      BY <1>1, <3>1 DEF LinksTypeOK, MemPacket, WriteHasLine
    <3>3. memory' \in [Lines -> LineData]
      BY <1>1, <3>1, <3>2 DEF MemoryTypeOK, LineData
    <3>4. /\ memWrite' \in [active : BOOLEAN, line : Lines \cup {NoLine},
                            packets : SUBSET Packets, error : {"none", "DBIDResp", "Comp"}]
          /\ memWrite'.line = memWrite.line
      BY <1>1, <3>1, <3>2 DEF MemoryTypeOK
    <3> QED BY <1>1, <2>3, <3>1, <3>2, <3>3, <3>4
            DEF WriteMemory, LinksTypeOK, MemoryTypeOK, WriteHasLine
  <2>4. CASE CompleteWrite
    <3>1. memRsps' \subseteq MemResponse
      <4>1. (memWrite.error = "Comp") \in BOOLEAN
        OBVIOUS
      <4>2. [op |-> "Comp", err |-> memWrite.error = "Comp"] \in MemResponse
        BY <4>1 DEF MemResponse
      <4> QED BY <1>1, <2>4, <4>2 DEF CompleteWrite, LinksTypeOK
    <3>2. LinksTypeOK'
      BY <1>1, <2>4, <3>1 DEF CompleteWrite, LinksTypeOK
    <3> QED BY <1>1, <2>4, <3>2 DEF CompleteWrite, IdleWrite, MemoryTypeOK, WriteHasLine
  <2> QED BY <2>1, <2>2, <2>3, <2>4 DEF MemoryStep
<1>3. HomeTypeOK' /\ ValidWaysHaveTags' /\ VictimIsKnown' /\ RequestShape'
  BY ZenonT(60), <1>2 DEF TypeInv, TypeOK, MemoryStep, homeVars, requesterRegs, lookupRegs, snoopTargets,
         snoopRegs, backingRegs, directory, storage, HomeTypeOK, ValidWaysHaveTags, VictimIsKnown,
         Maintenance, RequestShape
<1>4. CacheTypeOK' /\ CachesHaveLines'
  BY DEF TypeInv, TypeOK, MemoryStep, cacheVars, CacheTypeOK, CachesHaveLines
<1>5. IOTypeOK' /\ UncachedHasLine'
  BY DEF TypeInv, TypeOK, MemoryStep, IOTypeOK, UncachedHasLine
<1>6. (window \in [IO -> [Packets -> SUBSET Versions]])'
  BY <1>2, <1>5, WindowType DEF TypeInv, TypeOK
<1> QED BY <1>2, <1>3, <1>4, <1>5, <1>6 DEF TypeInv, TypeOK

------------------------------------------------------------------------------
(* The whole cluster.                                                      *)

LEMMA InitType == Init => TypeInv
<1> SUFFICES ASSUME Init PROVE TypeInv
  OBVIOUS
<1> USE DEF Init
<1>1. /\ [p \in Packets |-> 0] \in LineData
      /\ 0 \in Versions /\ NoData \in LineData
  BY LinkAssumption DEF LineData, Versions, NoData
<1>2. LinksTypeOK
  BY <1>1 DEF LinksInit, LinksTypeOK
<1>3. HomeTypeOK /\ RequestShape
  <2>1. PICK n \in Requesters, l \in Lines :
          request = [op |-> "ReadOnce", src |-> n, line |-> l, packets |-> Packets,
                     snoopMe |-> FALSE]
    BY DEF HomeInit
  <2>2. request \in Request
    BY <2>1 DEF Request, RequestOps
  <2>3. HomeTypeOK
    BY <1>1, <2>2, IndexFacts DEF HomeInit, HomeTypeOK, Phases, ResponseStates
  <2>4. RequestShape
    BY <2>1, IndexFacts DEF RequestShape, RefillOps, HomeInit, LinksInit
  <2> QED BY <2>3, <2>4
<1>4. ValidWaysHaveTags /\ VictimIsKnown
  BY DEF HomeInit, ValidWaysHaveTags, VictimIsKnown
<1>5. CacheTypeOK /\ CachesHaveLines
  <2>1. CacheTypeOK
    BY IdleTypes DEF CacheInit, CacheTypeOK
  <2>2. ASSUME NEW n \in RNF PROVE NodeInv(l1[n], engine[n], snoop[n])
    BY <2>1, IdleTypes DEF CacheInit, CacheTypeOK, NodeInv, WaysHaveLines, EngineHasLine,
                           ProbeHasLine, EmptyWay, IdleEngine, IdleSnoop
  <2> QED BY <2>1, <2>2 DEF CachesHaveLines
<1>6. IOTypeOK /\ UncachedHasLine
  <2>1. IOTypeOK
    BY IdleIOType DEF IOInit, IOTypeOK
  <2> QED BY <2>1 DEF IOInit, UncachedHasLine, IdleIO
<1>7. MemoryTypeOK /\ WriteHasLine
  BY <1>1 DEF MemoryInit, IdleWrite, MemoryTypeOK, WriteHasLine
<1>8. window \in [IO -> [Packets -> SUBSET Versions]]
  OBVIOUS
<1> QED BY <1>2, <1>3, <1>4, <1>5, <1>6, <1>7, <1>8 DEF TypeInv, TypeOK

LEMMA NextType == TypeInv /\ [Next]_vars => TypeInv'
<1> SUFFICES ASSUME TypeInv, [Next]_vars PROVE TypeInv'
  OBVIOUS
<1>1. CASE HomeStep /\ WindowFollows
  BY <1>1, HomeStepType
<1>2. CASE (\E n \in RNF : CacheStep(n)) /\ WindowFollows
  BY <1>2, CacheStepType
<1>3. CASE (\E i \in IO : IOStep(i)) /\ WindowFollows
  BY <1>3, IOStepType
<1>4. CASE MemoryStep /\ WindowFollows
  BY <1>4, MemoryStepType
<1>5. CASE UNCHANGED vars
  <2> USE <1>5 DEF vars, requesterLinks, subordinateLinks, history, homeVars, requesterRegs,
              lookupRegs, snoopTargets, snoopRegs, backingRegs, directory, storage, cacheVars,
              memoryVars
  <2>1. LinksTypeOK' /\ HomeTypeOK'
    BY DEF TypeInv, TypeOK, LinksTypeOK, HomeTypeOK
  <2>2. CacheTypeOK' /\ IOTypeOK' /\ MemoryTypeOK'
    BY DEF TypeInv, TypeOK, CacheTypeOK, IOTypeOK, MemoryTypeOK
  <2>3. RequestShape' /\ ValidWaysHaveTags' /\ VictimIsKnown'
    BY DEF TypeInv, RequestShape, ValidWaysHaveTags, VictimIsKnown, Maintenance
  <2>4. CachesHaveLines' /\ UncachedHasLine' /\ WriteHasLine'
    BY DEF TypeInv, CachesHaveLines, UncachedHasLine, WriteHasLine
  <2> QED BY <2>1, <2>2, <2>3, <2>4 DEF TypeInv, TypeOK
<1> QED BY <1>1, <1>2, <1>3, <1>4, <1>5 DEF Next, Step

\* Every register, array, flit and history variable of the cluster keeps its
\* type, for any number of caches, lines, sets, ways and packets and any faults.
THEOREM ClusterTypeOK == Spec => []TypeOK
<1>1. TypeInv => TypeOK
  BY DEF TypeInv
<1> QED BY <1>1, InitType, NextType, PTL DEF Spec

------------------------------------------------------------------------------
(* What each step of a cache does, field by field.  The actions of a cache  *)
(* change a function of records at one field of one record; an effect is an *)
(* equation per field that matters, and the proofs below use the effects.   *)

OtherEngines(n) == \A k \in RNF \ {n} : engine'[k] = engine[k]
OtherProbes(n)  == \A k \in RNF \ {n} : snoop'[k] = snoop[k]

\* The ways of every cache but possibly one way of n.
OtherWays(n, w) ==
  /\ \A k \in RNF \ {n} : l1'[k] = l1[k]
  /\ \A v \in L1Ways \ {w} : l1'[n][v] = l1[n][v]

\* The engine of n goes to a phase with its transaction's registers unchanged.
EngineGoes(n, to) ==
  /\ OtherEngines(n) /\ engine'[n].phase = to
  /\ engine'[n].access = engine[n].access /\ engine'[n].line = engine[n].line
  /\ engine'[n].way = engine[n].way /\ engine'[n].victim = engine[n].victim
  /\ engine'[n].packets = engine[n].packets /\ engine'[n].data = engine[n].data
  /\ engine'[n].err = engine[n].err

StoreEffect(n, w) ==
  /\ IsUnique(l1[n][w].state) /\ ~ SnoopOn(n, l1[n][w].line)
  /\ OtherWays(n, w) /\ l1'[n][w].line = l1[n][w].line /\ l1'[n][w].state = "UniqueDirty"
  /\ \E p \in Packets :
       /\ l1'[n][w].data = [l1[n][w].data EXCEPT ![p] = stores + 1]
       /\ latest' = [latest EXCEPT ![l1[n][w].line][p] = stores + 1]

\* A miss starts the copyback of a dirty way of another line, or the refill, and
\* then takes a way that is not dirty.
MissEffect(n, access, line, w, evict) ==
  /\ w \in MissWays(n, line)
  /\ HitWays(n, line) # {} => NeedsUnique(access) /\ ~ IsUnique(l1[n][w].state)
  /\ ~ evict /\ access # "bypass" => ~ IsDirty(l1[n][w].state)
  /\ OtherEngines(n)
  /\ engine'[n].phase = IF evict THEN "Copyback" ELSE "Refill"
  /\ engine'[n].access = access /\ engine'[n].line = line /\ engine'[n].way = w
  /\ engine'[n].packets = {} /\ ~ engine'[n].err
  /\ evict =>
       /\ HitWays(n, line) = {} /\ l1[n][w].line \in Lines
       /\ engine'[n].victim = l1[n][w].line /\ engine'[n].state = l1[n][w].state
       /\ engine'[n].data = l1[n][w].data
  /\ reqs' = reqs \cup {IF evict THEN CopybackRequest(n, l1[n][w].line)
                        ELSE RefillRequest(n, access, line)}

MaintenanceEffect(n, op, line) ==
  /\ OtherEngines(n) /\ engine'[n].phase = "Maintenance"
  /\ reqs' = reqs \cup {[op |-> op, src |-> n, line |-> line, packets |-> Packets,
                         snoopMe |-> TRUE]}

VictimPacket(n, p, version) ==
  [op |-> "CopyBackWriteData", src |-> n, packet |-> p, version |-> version,
   state |-> IF IsValid(engine[n].state) THEN "Unique" ELSE "Invalid",
   passDirty |-> IsDirty(engine[n].state), err |-> FALSE]

\* One packet of the victim: with the last one its way is given up for the
\* refill that displaced it.
CopybackSendEffect(n, p) ==
  /\ p \in Packets \ engine[n].packets
  /\ \E version \in Versions :
       version = engine[n].data[p] /\ reqData' = reqData \cup {VictimPacket(n, p, version)}
  /\ OtherEngines(n)
  /\ engine'[n].access = engine[n].access /\ engine'[n].line = engine[n].line
  /\ engine'[n].way = engine[n].way
  /\ IF engine[n].packets \cup {p} = Packets
     THEN /\ engine'[n].phase = "Refill" /\ engine'[n].packets = {} /\ ~ engine'[n].err
          /\ OtherWays(n, engine[n].way)
          /\ l1'[n][engine[n].way].line = NoLine /\ l1'[n][engine[n].way].state = "Invalid"
          /\ reqs' = reqs \cup {RefillRequest(n, engine[n].access, engine[n].line)}
     ELSE /\ engine'[n].phase = "CopybackData" /\ engine'[n].victim = engine[n].victim
          /\ engine'[n].packets = engine[n].packets \cup {p}
          /\ engine'[n].state = engine[n].state /\ engine'[n].data = engine[n].data
          /\ UNCHANGED <<l1, reqs>>

RefillDataEffect(n, m) ==
  /\ m \in compData /\ m.dst = n /\ compData' = compData \ {m}
  /\ OtherEngines(n)
  /\ engine'[n].access = engine[n].access /\ engine'[n].line = engine[n].line
  /\ engine'[n].way = engine[n].way /\ engine'[n].victim = engine[n].victim
  /\ engine'[n].packets = engine[n].packets \cup {m.packet}
  /\ engine'[n].data = [engine[n].data EXCEPT ![m.packet] = m.version]
  /\ engine'[n].state = IF engine[n].packets = {} THEN m.state ELSE engine[n].state
  /\ engine'[n].err = (engine[n].err \/ m.err)
  /\ engine'[n].phase = IF engine'[n].packets = Packets THEN "Acknowledge" ELSE "Refill"

\* The packets in ps are those of the store that missed.
InstallEffect(n) ==
  /\ Installs(engine[n])
  /\ \E ps \in SUBSET Packets :
       /\ ps # {} => engine[n].access = "store"
       /\ l1'[n][engine[n].way].data =
            [p \in Packets |-> IF p \in ps THEN engine[n].version ELSE engine[n].data[p]]
       /\ latest' = [latest EXCEPT ![engine[n].line] =
            [p \in Packets |-> IF p \in ps THEN engine[n].version ELSE @[p]]]
  /\ OtherWays(n, engine[n].way)
  /\ l1'[n][engine[n].way].line = engine[n].line
  /\ l1'[n][engine[n].way].state = InstallState(engine[n])
  /\ OtherEngines(n) /\ engine'[n].phase = "Idle"

AcceptEffect(n, m) ==
  /\ m \in snps /\ m.dst = n /\ snps' = snps \ {m}
  /\ OtherProbes(n)
  /\ snoop'[n].active /\ snoop'[n].op = m.op /\ snoop'[n].line = m.line
  /\ (snoop'[n].hit <=> HitWays(n, m.line) # {}) /\ snoop'[n].packets = {}
  /\ snoop'[n].hit => /\ snoop'[n].way \in HitWays(n, m.line)
                      /\ snoop'[n].state = l1[n][snoop'[n].way].state
                      /\ snoop'[n].data = l1[n][snoop'[n].way].data
  /\ snoop'[n].fault => m.op # "SnpMakeInvalid"

Invalidates(s) == DirtyHit(s) \/ InvalidatesState(s.op)
Updates(s) == s.hit /\ ~ s.fault /\ (Invalidates(s) \/ SharesState(s.op))
NewState(s) == IF Invalidates(s) THEN "Invalid" ELSE "SharedClean"

RetireEffect(n) ==
  LET s == snoop[n]
  IN  /\ OtherWays(n, s.way)
      /\ IF ~ Updates(s) THEN l1' = l1
         ELSE /\ l1'[n][s.way].line = IF Invalidates(s) THEN NoLine ELSE l1[n][s.way].line
              /\ l1'[n][s.way].state = NewState(s)
              /\ ~ Invalidates(s) => l1'[n][s.way].data = l1[n][s.way].data
      /\ EngineGoes(n, engine[n].phase)
      /\ engine'[n].state =
           IF Updates(s) /\ engine[n].phase = "Copyback" /\ engine[n].victim = s.line
           THEN NewState(s) ELSE engine[n].state
      /\ OtherProbes(n) /\ ~ snoop'[n].active

\* A probe without dirty data is answered in one flit, and retires.
RespondEffect(n, a) ==
  /\ acks' = acks \cup {a}
  /\ a.op = "SnpResp" /\ a.src = n
  /\ a.err = snoop[n].fault /\ a.state = CleanResponseState(snoop[n])
  /\ RetireEffect(n)

\* A probe that found dirty data sends it, and retires with the last packet.
SnoopDataEffect(n, d) ==
  /\ reqData' = reqData \cup {d}
  /\ d.op = "SnpRespData" /\ d.src = n /\ d.packet \in Packets \ snoop[n].packets
  /\ d.state = "Invalid" /\ d.passDirty = TRUE /\ d.version = snoop[n].data[d.packet]
  /\ d.err <=> snoop[n].fault /\ snoop[n].packets = {}
  /\ IF snoop[n].packets \cup {d.packet} = Packets THEN RetireEffect(n)
     ELSE /\ UNCHANGED <<l1, engine>> /\ OtherProbes(n)
          /\ snoop'[n] = [snoop[n] EXCEPT !.packets = @ \cup {d.packet}]

\* The types of a cache's parts.
LEMMA CacheTypes ==
  ASSUME TypeInv
  PROVE  /\ l1 \in [RNF -> [L1Ways -> WayState]]
         /\ engine \in [RNF -> EngineState]
         /\ snoop \in [RNF -> SnoopState]
BY DEF TypeInv, TypeOK, CacheTypeOK

\* A store that hits writes one owned way that no probe is examining.
LEMMA StoreHitEffect ==
  ASSUME TypeInv, NEW n \in RNF, StoreHit(n)
  PROVE  \E w \in L1Ways : StoreEffect(n, w)
<1>1. PICK w \in L1Ways, p \in Packets :
        /\ IsUnique(l1[n][w].state) /\ ~ SnoopOn(n, l1[n][w].line)
        /\ l1' = [l1 EXCEPT ![n][w] =
                    [line |-> l1[n][w].line, state |-> "UniqueDirty",
                     data |-> [l1[n][w].data EXCEPT ![p] = stores + 1]]]
        /\ latest' = [latest EXCEPT ![l1[n][w].line][p] = stores + 1]
  BY DEF StoreHit
<1> QED BY <1>1, CacheTypes DEF StoreEffect, OtherWays

\* A miss takes a way and asks for the line, or first for the copyback of what is in it.
LEMMA StartMissEffect ==
  ASSUME TypeInv, NEW n \in RNF, StartMiss(n)
  PROVE  \E access \in Accesses \ {"maintenance"}, line \in Lines, w \in L1Ways,
            evict \in BOOLEAN : MissEffect(n, access, line, w, evict)
<1> DEFINE Takes(access, line, w) ==
      LET hit == HitWays(n, line) # {}
          evict == ~ hit /\ access # "bypass" /\ IsDirty(l1[n][w].state)
      IN  /\ hit => NeedsUnique(access) /\ ~ IsUnique(l1[n][w].state)
          /\ reqs' = reqs \cup {IF evict THEN CopybackRequest(n, l1[n][w].line)
                                ELSE RefillRequest(n, access, line)}
          /\ engine' = [engine EXCEPT ![n] =
               [IdleEngine EXCEPT !.phase = IF evict THEN "Copyback" ELSE "Refill",
                  !.access = access, !.line = line, !.way = w,
                  !.version = IF access = "store" THEN stores + 1 ELSE 0,
                  !.victim = IF evict THEN l1[n][w].line ELSE NoLine,
                  !.state = IF evict THEN l1[n][w].state ELSE "Invalid",
                  !.data = IF evict THEN l1[n][w].data ELSE NoData]]
<1>1. PICK access \in Accesses \ {"maintenance"}, line \in Lines :
        \E w \in MissWays(n, line) : Takes(access, line, w)
  BY ZenonT(60) DEF StartMiss
<1>2. PICK w \in MissWays(n, line) : Takes(access, line, w)
  BY <1>1
<1>3. w \in L1Ways
  BY DEF MissWays, HitWays
<1> DEFINE evict == ~ (HitWays(n, line) # {}) /\ access # "bypass" /\ IsDirty(l1[n][w].state)
<1>4. IsDirty(l1[n][w].state) => l1[n][w].line \in Lines
  BY <1>3 DEF TypeInv, CachesHaveLines, NodeInv, WaysHaveLines, IsDirty
<1>5. MissEffect(n, access, line, w, evict)
  BY <1>2, <1>3, <1>4, CacheTypes
     DEF MissEffect, OtherEngines, IdleEngine, IsDirty, IsUnique
<1> QED BY <1>3, <1>5

\* A maintenance operation sends one request and remembers nothing but its phase.
LEMMA StartMaintenanceEffect ==
  ASSUME TypeInv, NEW n \in RNF, StartMaintenance(n)
  PROVE  \E op \in MaintenanceOps, line \in Lines : MaintenanceEffect(n, op, line)
<1>1. PICK op \in MaintenanceOps, line \in Lines :
        /\ reqs' = reqs \cup {[op |-> op, src |-> n, line |-> line, packets |-> Packets,
                               snoopMe |-> TRUE]}
        /\ engine' = [engine EXCEPT ![n] =
             [IdleEngine EXCEPT !.phase = "Maintenance", !.access = "maintenance", !.line = line]]
  BY DEF StartMaintenance
<1>2. MaintenanceEffect(n, op, line)
  BY <1>1, CacheTypes DEF MaintenanceEffect, OtherEngines, IdleEngine
<1> QED BY <1>2

\* The two steps that end a transaction with nothing to install.
LEMMA IdleAgainEffect ==
  ASSUME TypeInv, NEW n \in RNF, FinishMaintenance(n) \/ FinishWithoutInstall(n)
  PROVE  OtherEngines(n) /\ engine'[n].phase = "Idle"
BY CacheTypes DEF FinishMaintenance, FinishWithoutInstall, OtherEngines, IdleEngine

\* The grant of a copyback moves the engine to its data phase.
LEMMA CopybackGrantEffect ==
  ASSUME TypeInv, NEW n \in RNF, CopybackGrant(n)
  PROVE  EngineGoes(n, "CopybackData") /\ engine'[n].state = engine[n].state
BY CacheTypes DEF CopybackGrant, EngineGoes, OtherEngines, EngineState

\* The victim leaves packet by packet; its way is empty once the last has gone.
LEMMA CopybackSendEffects ==
  ASSUME TypeInv, NEW n \in RNF, CopybackSend(n)
  PROVE  \E p \in Packets : CopybackSendEffect(n, p)
<1> DEFINE p == NextPacket(engine[n].packets)
<1>1. engine[n].packets \in SUBSET Packets /\ engine[n].packets # Packets
  BY DEF TypeInv, CachesHaveLines, NodeInv, EngineHasLine, EngineState, CopybackSend
<1>2. p \in Packets \ engine[n].packets
  BY <1>1, NextPacketType
<1>3. engine[n].data[p] \in Versions
  BY <1>2, CacheTypes DEF EngineState, LineData
<1>4. \E version \in Versions :
        version = engine[n].data[p] /\ reqData' = reqData \cup {VictimPacket(n, p, version)}
  BY <1>3 DEF CopybackSend, VictimPacket
<1>5. CopybackSendEffect(n, p)
  <2> HIDE DEF p
  <2>1. CASE engine[n].packets \cup {p} = Packets
    <3>1. /\ l1' = [l1 EXCEPT ![n][engine[n].way] = EmptyWay]
          /\ engine' = [engine EXCEPT ![n] =
               [IdleEngine EXCEPT !.phase = "Refill", !.access = engine[n].access,
                  !.line = engine[n].line, !.way = engine[n].way,
                  !.version = engine[n].version]]
          /\ reqs' = reqs \cup {RefillRequest(n, engine[n].access, engine[n].line)}
      BY <2>1 DEF CopybackSend, p
    <3>2. engine[n].way \in L1Ways
      BY CacheTypes DEF EngineState
    <3>3. OtherWays(n, engine[n].way) /\ l1'[n][engine[n].way] = EmptyWay
      BY <3>1, <3>2, CacheTypes DEF OtherWays
    <3>4. OtherEngines(n)
      BY <3>1, CacheTypes DEF OtherEngines
    <3>5. engine'[n] = [IdleEngine EXCEPT !.phase = "Refill", !.access = engine[n].access,
                          !.line = engine[n].line, !.way = engine[n].way,
                          !.version = engine[n].version]
      BY <3>1, CacheTypes
    <3>6. /\ engine'[n].phase = "Refill" /\ engine'[n].packets = {} /\ ~ engine'[n].err
          /\ engine'[n].access = engine[n].access /\ engine'[n].line = engine[n].line
          /\ engine'[n].way = engine[n].way
      BY <3>5 DEF IdleEngine
    <3> QED BY <1>2, <1>4, <2>1, <3>1, <3>3, <3>4, <3>6 DEF CopybackSendEffect, EmptyWay
  <2>2. CASE engine[n].packets \cup {p} # Packets
    <3>1. /\ engine' = [engine EXCEPT ![n].packets = @ \cup {p}]
          /\ UNCHANGED <<l1, reqs>> /\ engine[n].phase = "CopybackData"
      BY <2>2 DEF CopybackSend, p
    <3> QED BY <1>2, <1>4, <2>2, <3>1, CacheTypes
            DEF CopybackSendEffect, OtherEngines, EngineState
  <2> QED BY <2>1, <2>2
<1> QED BY <1>2, <1>5

\* A packet of a refill is consumed, whichever packet it is.
LEMMA RefillDataEffects ==
  ASSUME TypeInv, NEW n \in RNF, RefillData(n)
  PROVE  \E m \in compData : RefillDataEffect(n, m)
<1>1. PICK m \in compData :
        /\ m.dst = n /\ compData' = compData \ {m}
        /\ engine' = [engine EXCEPT ![n] =
             [engine[n] EXCEPT !.packets = engine[n].packets \cup {m.packet},
                       !.data = [@ EXCEPT ![m.packet] = m.version],
                       !.state = IF engine[n].packets = {} THEN m.state ELSE @,
                       !.err = @ \/ m.err,
                       !.phase = IF engine[n].packets \cup {m.packet} = Packets
                                 THEN "Acknowledge" ELSE "Refill"]]
  BY DEF RefillData
<1>2. RefillDataEffect(n, m)
  BY <1>1, CacheTypes DEF RefillDataEffect, OtherEngines, EngineState
<1> QED BY <1>2

\* The acknowledgement of a refill changes nothing but the phase of its engine.
LEMMA RefillAcknowledgeEffect ==
  ASSUME TypeInv, NEW n \in RNF, RefillAcknowledge(n)
  PROVE  EngineGoes(n, "Complete") /\ engine'[n].state = engine[n].state
BY CacheTypes DEF RefillAcknowledge, EngineGoes, OtherEngines, EngineState

\* An installed refill fills the engine's way with its line.
LEMMA InstallRefillEffect ==
  ASSUME TypeInv, NEW n \in RNF, InstallRefill(n)
  PROVE  InstallEffect(n)
<1>1. engine[n].way \in L1Ways
  BY CacheTypes DEF EngineState
<1> DEFINE merged(ps, line) ==
      [p \in Packets |-> IF p \in ps THEN engine[n].version ELSE line[p]]
<1>2. PICK ps \in IF engine[n].access = "store" THEN {{p} : p \in Packets} ELSE {{}} :
        /\ l1' = [l1 EXCEPT ![n][engine[n].way] =
                    [line |-> engine[n].line, state |-> InstallState(engine[n]),
                     data |-> merged(ps, engine[n].data)]]
        /\ latest' = [latest EXCEPT ![engine[n].line] = merged(ps, @)]
  BY DEF InstallRefill
<1>3. ps \in SUBSET Packets /\ (ps # {} => engine[n].access = "store")
  BY <1>2
<1>4. /\ OtherWays(n, engine[n].way)
      /\ l1'[n][engine[n].way].line = engine[n].line
      /\ l1'[n][engine[n].way].state = InstallState(engine[n])
      /\ l1'[n][engine[n].way].data = merged(ps, engine[n].data)
  <2> HIDE DEF merged
  <2> QED BY <1>1, <1>2, CacheTypes DEF OtherWays
<1>5. OtherEngines(n) /\ engine'[n].phase = "Idle" /\ Installs(engine[n])
  BY CacheTypes DEF InstallRefill, OtherEngines, IdleEngine
<1> QED BY <1>2, <1>3, <1>4, <1>5 DEF InstallEffect

\* An accepted probe records whether, where and in which state its line is held.
LEMMA SnoopAcceptEffect ==
  ASSUME TypeInv, NEW n \in RNF, SnoopAccept(n)
  PROVE  \E m \in snps : AcceptEffect(n, m)
<1>1. PICK m \in snps, fault \in BOOLEAN :
        LET hit == HitWays(n, m.line) # {}
            w   == IF hit THEN CHOOSE x \in HitWays(n, m.line) : TRUE ELSE IdleSnoop.way
        IN  /\ m.dst = n /\ snps' = snps \ {m}
            /\ fault => m.op # "SnpMakeInvalid"
            /\ snoop' = [snoop EXCEPT ![n] =
                [active |-> TRUE, op |-> m.op, line |-> m.line, hit |-> hit, way |-> w,
                 state |-> IF hit THEN l1[n][w].state ELSE "Invalid",
                 data |-> IF hit THEN l1[n][w].data ELSE NoData,
                 packets |-> {}, fault |-> fault]]
  BY DEF SnoopAccept
<1>2. HitWays(n, m.line) # {} =>
        (CHOOSE x \in HitWays(n, m.line) : TRUE) \in HitWays(n, m.line)
  OBVIOUS
<1>3. AcceptEffect(n, m)
  BY <1>1, <1>2, CacheTypes DEF AcceptEffect, OtherProbes
<1> QED BY <1>3

\* A retiring probe takes its line away, downgrades it, or leaves it alone.
LEMMA RetireSnoopEffect ==
  ASSUME TypeInv, NEW n \in RNF, RetireSnoop(n)
  PROVE  RetireEffect(n)
<1> DEFINE s == snoop[n]
<1>1. /\ l1' = IF ~ Updates(s) THEN l1
               ELSE IF Invalidates(s) THEN [l1 EXCEPT ![n][s.way] = EmptyWay]
               ELSE [l1 EXCEPT ![n][s.way].state = "SharedClean"]
      /\ engine' = IF Updates(s) /\ engine[n].phase = "Copyback" /\ engine[n].victim = s.line
                   THEN [engine EXCEPT ![n].state = NewState(s)] ELSE engine
      /\ snoop' = [snoop EXCEPT ![n] = IdleSnoop]
  BY DEF RetireSnoop, Updates, Invalidates, NewState
<1>2. s.way \in L1Ways
  BY CacheTypes DEF SnoopState
<1>3. /\ OtherWays(n, s.way)
      /\ IF ~ Updates(s) THEN l1' = l1
         ELSE /\ l1'[n][s.way].line = IF Invalidates(s) THEN NoLine ELSE l1[n][s.way].line
              /\ l1'[n][s.way].state = NewState(s)
              /\ ~ Invalidates(s) => l1'[n][s.way].data = l1[n][s.way].data
  BY <1>1, <1>2, CacheTypes DEF OtherWays, NewState, EmptyWay, WayState
<1>4. /\ EngineGoes(n, engine[n].phase)
      /\ engine'[n].state =
           IF Updates(s) /\ engine[n].phase = "Copyback" /\ engine[n].victim = s.line
           THEN NewState(s) ELSE engine[n].state
  BY <1>1, CacheTypes DEF EngineGoes, OtherEngines, EngineState
<1>5. OtherProbes(n) /\ ~ snoop'[n].active
  BY <1>1, CacheTypes DEF OtherProbes, IdleSnoop
<1> QED BY <1>3, <1>4, <1>5 DEF RetireEffect

\* The one-flit answer of a probe.
LEMMA SnoopRespondEffect ==
  ASSUME TypeInv, NEW n \in RNF, SnoopRespond(n)
  PROVE  \E a : RespondEffect(n, a)
<1>1. PICK a : a = [op |-> "SnpResp", src |-> n, err |-> snoop[n].fault,
                    state |-> CleanResponseState(snoop[n])]
  OBVIOUS
<1>2. acks' = acks \cup {a} /\ RetireSnoop(n)
  BY <1>1 DEF SnoopRespond
<1>3. /\ a.op = "SnpResp" /\ a.src = n /\ a.err = snoop[n].fault
      /\ a.state = CleanResponseState(snoop[n])
  BY <1>1
<1>4. RespondEffect(n, a)
  BY <1>2, <1>3, RetireSnoopEffect DEF RespondEffect
<1> QED BY <1>4

\* One packet of a dirty answer.
LEMMA SnoopSendDataEffect ==
  ASSUME TypeInv, NEW n \in RNF, SnoopSendData(n)
  PROVE  \E d : SnoopDataEffect(n, d)
<1> DEFINE p == NextPacket(snoop[n].packets)
<1>1. PICK fails \in BOOLEAN : fails = (snoop[n].fault /\ snoop[n].packets = {})
  OBVIOUS
<1>2. PICK d : d = [op |-> "SnpRespData", src |-> n, packet |-> p, version |-> snoop[n].data[p],
                    state |-> "Invalid", passDirty |-> TRUE, err |-> fails]
  OBVIOUS
<1>3. /\ reqData' = reqData \cup {d}
      /\ IF snoop[n].packets \cup {p} = Packets THEN RetireSnoop(n)
         ELSE /\ snoop' = [snoop EXCEPT ![n].packets = @ \cup {p}]
              /\ UNCHANGED <<l1, engine>>
  BY <1>1, <1>2, Zenon DEF SnoopSendData
<1>4. p \in Packets \ snoop[n].packets
  BY NextPacketType DEF SnoopSendData, TypeInv, CachesHaveLines, NodeInv, ProbeHasLine,
     SnoopState
<1>5. /\ d.op = "SnpRespData" /\ d.src = n /\ d.packet = p /\ d.state = "Invalid"
      /\ d.passDirty = TRUE /\ d.version = snoop[n].data[p]
      /\ (d.err <=> snoop[n].fault /\ snoop[n].packets = {})
  <2> HIDE DEF p
  <2> QED BY <1>1, <1>2
<1>6. SnoopDataEffect(n, d)
  <2> HIDE DEF p
  <2>1. CASE snoop[n].packets \cup {p} = Packets
    BY <1>3, <1>4, <1>5, <2>1, RetireSnoopEffect DEF SnoopDataEffect
  <2>2. CASE snoop[n].packets \cup {p} # Packets
    BY <1>3, <1>4, <1>5, <2>2, CacheTypes DEF SnoopDataEffect, OtherProbes, SnoopState
  <2> QED BY <2>1, <2>2
<1> QED BY <1>6

\* An answering probe touches no more of the engine than the victim's state.
LEMMA AnswerEffect ==
  ASSUME TypeInv, NEW n \in RNF, SnoopRespond(n) \/ SnoopSendData(n)
  PROVE  /\ EngineGoes(n, engine[n].phase)
         /\ engine[n].phase # "Copyback" => engine'[n].state = engine[n].state
<1>1. CASE RetireSnoop(n)
  BY <1>1, RetireSnoopEffect DEF RetireEffect
<1>2. CASE engine' = engine
  BY <1>2 DEF EngineGoes, OtherEngines
<1> QED BY <1>1, <1>2 DEF SnoopRespond, SnoopSendData

------------------------------------------------------------------------------
(* The requester side: requests, completions, data and acknowledgements.    *)

\* Who may have sent what, and how much of it: the types the requester side
\* needs.
Sources ==
  /\ \A m \in reqs \cup {request} : m.op \in RequestOps /\ m.src \in RNF \cup IO
  /\ RNF \cap IO = {} /\ LinksTypeOK /\ HomeTypeOK /\ IOTypeOK
  /\ \A n \in RNF : engine[n].phase = "CopybackData" => engine[n].packets # Packets
  /\ \A n \in RNF : engine[n].packets \subseteq Packets
  /\ Busy => IF request.op \in {"ReadOnce", "WriteUniquePtl"}
             THEN request.src \in IO ELSE request.src \in RNF
  /\ \A m \in reqs : IF m.op \in {"ReadOnce", "WriteUniquePtl"} THEN m.src \in IO ELSE m.src \in RNF

\* They follow from the type invariant and the shape of requests.
LEMMA SourcesHold ==
  ASSUME TypeInv, PhaseFits, RequestsInv
  PROVE  Sources
BY LinkAssumption, CacheTypes
   DEF Sources, TypeInv, TypeOK, LinksTypeOK, HomeTypeOK, Request, Requesters, CachesHaveLines,
       NodeInv, EngineHasLine, EngineState, PhaseFits, Proper, RequestsInv, RequestFits

\* The Home works for itself: it changes no link to a requester and forgets
\* nothing of the request.
Alone == {"Lookup", "SendSnoop", "AfterSnoops", "SendFillRequest", "ReceiveFillData",
          "MergeRequesterData", "SendVictimWriteRequest", "AwaitVictimDBID", "SendVictimData",
          "AwaitVictimCompletion", "FinishMaintenance", "FinishCopyBack"}
WorksAlone ==
  /\ UNCHANGED <<reqs, rsps, acks, compData, reqData, request, receivedData, copybackState,
                 copybackDirty, engine, io>>
  /\ phase \in Alone
  /\ phase' \in Alone \cup {"Idle", "AwaitSnoop", "SendCachedData", "SendRequesterCompletion"}
  /\ phase' # "Lookup" /\ (Copyback => phase' \in {"FinishCopyBack", "Idle"})

\* In those phases nothing is on its way to or from the requester served.
LEMMA AloneIsQuiet ==
  ASSUME TypeInv, RequesterSideInv, PhaseFits', WorksAlone
  PROVE  RequesterSideInv'
<1> USE DEF RequesterSideInv, Busy, Snooping, VictimWrite, WritingVictim, Filling, Answering,
            MovedOn, Serving, Copyback, Maintenance, IsMaintenance, IsWrite, MaintenanceOps,
            RefillOps, WorksAlone, Alone
<1>0. Sources
  BY SourcesHold
<1> USE <1>0 DEF Sources
<1>1. RequestsInv'
  BY DEF RequestsInv, RequestFits, Proper, Matches
<1>2. RefillInv'
  BY DEF RefillInv, Matches, Granted, GrantedState, AllocatesCoherent
<1>3. MaintenanceInv' /\ CopybackInv'
  BY DEF MaintenanceInv, CopybackInv
<1>4. UncachedInv'
  BY DEF UncachedInv
<1>5. ResponsesInv'
  BY DEF ResponsesInv
<1>6. WriteDataInv'
  BY DEF WriteDataInv
<1>7. ReadDataInv'
  BY DEF ReadDataInv, GrantedState, AllocatesCoherent, CompAck
<1> QED BY <1>1, <1>2, <1>3, <1>4, <1>5, <1>6, <1>7

\* The Home's lookup, probing, memory and retirement steps are such steps.
LEMMA HomeWorksAlone ==
  ASSUME TypeInv, RequesterSideInv, HomeStep,
         \/ HomeLookup \/ HomeFinishCopyBack \/ HomeSendSnoop \/ HomeSnoopsDone
         \/ HomeAfterSnoops \/ HomeSendMemRequest \/ HomeVictimDBID \/ HomeSendVictimData
         \/ HomeVictimCompletion \/ HomeReceiveFill \/ HomeMergeRequesterData
         \/ HomeFinishMaintenance
  PROVE  WorksAlone /\ PhaseFits'
<1> USE DEF RequesterSideInv, Busy, Snooping, VictimWrite, WritingVictim, Filling, Answering,
            Copyback, Maintenance, IsMaintenance, IsWrite, MaintenanceOps, RefillOps,
            WorksAlone,
            Alone, requesterLinks, requesterRegs, cacheVars, lookupRegs, PhaseFits, Proper
<1>0. Sources /\ UNCHANGED <<cacheVars, io>>
  BY SourcesHold DEF HomeStep
<1>1. CASE HomeLookup
  BY <1>0, <1>1 DEF HomeLookup
<1>2. CASE HomeFinishCopyBack
  BY <1>0, <1>2 DEF HomeFinishCopyBack
<1>3. CASE HomeSendSnoop \/ HomeSnoopsDone
  BY <1>0, <1>3 DEF HomeSendSnoop, HomeSnoopsDone
<1>4. CASE HomeAfterSnoops
  BY <1>0, <1>4 DEF HomeAfterSnoops, AnswerPhase, FilledPhase, Sources, RequestOps
<1>5. CASE HomeSendMemRequest \/ HomeVictimDBID \/ HomeSendVictimData
  BY <1>0, <1>5 DEF HomeSendMemRequest, HomeVictimDBID, HomeSendVictimData
<1>6. CASE HomeVictimCompletion
  BY <1>0, <1>6 DEF HomeVictimCompletion, AnswerPhase, Sources, RequestOps
<1>7. CASE HomeReceiveFill
  BY <1>0, <1>7 DEF HomeReceiveFill, FilledPhase, Sources, RequestOps
<1>8. CASE HomeMergeRequesterData \/ HomeFinishMaintenance
  BY <1>0, <1>8 DEF HomeMergeRequesterData, HomeFinishMaintenance
<1> QED BY <1>1, <1>2, <1>3, <1>4, <1>5, <1>6, <1>7, <1>8

\* No step of the Home leaves a request, a grant or a datum without the agent
\* that waits for it.
LEMMA HomeRequesterSide ==
  ASSUME TypeInv, RequesterSideInv, ProbeInv, HomeStep
  PROVE  RequesterSideInv'
<1>0. Sources /\ UNCHANGED <<cacheVars, io>>
  BY SourcesHold DEF RequesterSideInv, HomeStep
<1>1. CASE \/ HomeLookup \/ HomeFinishCopyBack \/ HomeSendSnoop \/ HomeSnoopsDone
           \/ HomeAfterSnoops \/ HomeSendMemRequest \/ HomeVictimDBID \/ HomeSendVictimData
           \/ HomeVictimCompletion \/ HomeReceiveFill \/ HomeMergeRequesterData
           \/ HomeFinishMaintenance
  BY <1>1, HomeWorksAlone, AloneIsQuiet
<1> USE DEF RequesterSideInv, Busy, Snooping, VictimWrite, WritingVictim, Filling, Answering,
            MovedOn, Serving, Copyback, Maintenance, IsMaintenance, IsWrite, MaintenanceOps,
            RefillOps, requesterLinks, requesterRegs, cacheVars, lookupRegs
<1>2. CASE HomeAcceptRequest
  <2> USE <1>0, <1>2 DEF Sources, HomeAcceptRequest
  <2>1. PhaseFits'
    BY DEF PhaseFits, Proper, RequestsInv, RequestFits, Matches
  <2>2. RefillInv'
    BY DEF RefillInv, Matches, Granted, GrantedState, AllocatesCoherent, RequestsInv,
           RequestFits, Proper
  <2>3. MaintenanceInv'
    BY DEF MaintenanceInv, RequestsInv, RequestFits, Proper, Matches
  <2>4. CopybackInv'
    BY DEF CopybackInv, RequestsInv, RequestFits, Proper, Matches
  <2>5. UncachedInv'
    BY DEF UncachedInv, RequestsInv, RequestFits, Proper, Matches
  <2>6. RequestsInv' /\ ResponsesInv' /\
        WriteDataInv' /\ ReadDataInv'
    BY DEF RequestsInv, RequestFits, Proper, Matches, ResponsesInv, WriteDataInv, ReadDataInv,
       GrantedState, AllocatesCoherent, CompAck
  <2> QED BY <2>1, <2>2, <2>3, <2>4, <2>5, <2>6
<1>3. CASE HomeSendDBID
  <2> USE <1>0, <1>3 DEF Sources, HomeSendDBID, DBIDOp
  <2>1. PhaseFits'
    BY DEF PhaseFits, Proper
  <2>2. CopybackInv'
    BY DEF CopybackInv, ResponsesInv, WriteDataInv
  <2>3. UncachedInv'
    BY DEF UncachedInv, WriteDataInv
  <2>4. ResponsesInv'
    BY DEF ResponsesInv, CopybackInv, UncachedInv, PhaseFits, Proper, LinksTypeOK, Response
  <2>5. RequestsInv' /\ RefillInv' /\ MaintenanceInv' /\ WriteDataInv' /\ ReadDataInv'
    BY DEF RequestsInv, RequestFits, Proper, Matches, RefillInv, Granted, GrantedState,
       AllocatesCoherent, MaintenanceInv, WriteDataInv, ReadDataInv, CompAck
  <2> QED BY <2>1, <2>2, <2>3, <2>4, <2>5
<1>4. CASE HomeReceiveData
  <2> USE <1>0, <1>4 DEF Sources, HomeReceiveData
  <2>1. PhaseFits'
    BY DEF PhaseFits, Proper
  <2>2. CopybackInv'
    <3>1. SUFFICES ASSUME Copyback PROVE CopybackInv'
      BY DEF CopybackInv
    <3>2. PICK m \in reqData :
            /\ reqData' = reqData \ {m}
            /\ copybackState' = m.state /\ copybackDirty' = m.passDirty
            /\ receivedData' = receivedData \cup {m.packet}
      OBVIOUS
    <3>3. request.packets = Packets /\ request.src \in RNF
      BY <3>1 DEF PhaseFits, Proper
    <3>4. CASE engine[request.src].phase = "CopybackData"
      <4>1. receivedData' # Packets
        <5>1. receivedData' \subseteq engine[request.src].packets
          BY <3>1, <3>2, <3>3, <3>4 DEF CopybackInv
        <5> QED BY ZenonT(60), <5>1, <3>3, <3>4
      <4>2. phase' = "ReceiveRequesterData"
        BY <4>1, <3>3
      <4> QED BY <3>2, <3>3, <3>4, <4>2 DEF CopybackInv
    <3>5. CASE engine[request.src].phase = "Refill"
      BY <3>1, <3>2, <3>3, <3>5 DEF CopybackInv
    <3> QED BY <3>1, <3>2, <3>4, <3>5 DEF CopybackInv
  <2>3. ResponsesInv'
    BY DEF ResponsesInv, CopybackInv, UncachedInv, PhaseFits
  <2>4. RequestsInv' /\ RefillInv' /\ MaintenanceInv' /\ UncachedInv' /\ WriteDataInv' /\
        ReadDataInv'
    BY DEF RequestsInv, RequestFits, Proper, Matches, RefillInv, Granted, GrantedState,
       AllocatesCoherent, MaintenanceInv, UncachedInv, WriteDataInv, ReadDataInv, CompAck
  <2> QED BY <2>1, <2>2, <2>3, <2>4
<1>5. CASE HomeSnoopResponse
  <2> USE <1>0, <1>5 DEF Sources, HomeSnoopResponse
  <2>1. PhaseFits'
    BY DEF PhaseFits, Proper
  <2>2. WriteDataInv'
    BY DEF WriteDataInv, ProbeInv, ProbeAnswerInv
  <2>3. ReadDataInv'
    BY DEF ReadDataInv, GrantedState, AllocatesCoherent, CompAck, ProbeInv, ProbeAnswerInv
  <2>4. RequestsInv' /\ RefillInv' /\ MaintenanceInv' /\ CopybackInv' /\ UncachedInv' /\
        ResponsesInv'
    BY DEF RequestsInv, RequestFits, Proper, Matches, RefillInv, Granted, GrantedState,
       AllocatesCoherent, MaintenanceInv, CopybackInv, UncachedInv, ResponsesInv
  <2> QED BY <2>1, <2>2, <2>3, <2>4
<1>6. CASE HomeSnoopData
  <2> USE <1>0, <1>6 DEF Sources, HomeSnoopData, AllArrived
  <2>1. PhaseFits'
    BY DEF PhaseFits, Proper
  <2>2. WriteDataInv'
    BY DEF WriteDataInv, ProbeInv, ProbeAnswerInv, LinksTypeOK, RequesterData
  <2>3. ReadDataInv'
    BY DEF ReadDataInv, GrantedState, AllocatesCoherent, CompAck, ProbeInv, ProbeAnswerInv
  <2>4. RequestsInv' /\ RefillInv' /\ MaintenanceInv' /\ CopybackInv' /\ UncachedInv' /\
        ResponsesInv'
    BY DEF RequestsInv, RequestFits, Proper, Matches, RefillInv, Granted, GrantedState,
       AllocatesCoherent, MaintenanceInv, CopybackInv, UncachedInv, ResponsesInv
  <2> QED BY <2>1, <2>2, <2>3, <2>4
<1>7. CASE HomeSendCompletion
  <2> USE <1>0, <1>7 DEF Sources, HomeSendCompletion
  <2>1. PhaseFits'
    BY DEF PhaseFits, Proper
  <2>2. ResponsesInv'
    BY DEF ResponsesInv, RequestsInv, UncachedInv, MaintenanceInv, PhaseFits, Proper,
           LinksTypeOK, Response
  <2>3. RequestsInv' /\ RefillInv' /\ MaintenanceInv' /\ CopybackInv' /\ UncachedInv' /\
        WriteDataInv' /\ ReadDataInv'
    BY DEF RequestsInv, RequestFits, Proper, Matches, RefillInv, Granted, GrantedState,
       AllocatesCoherent, MaintenanceInv, CopybackInv, UncachedInv, WriteDataInv, ReadDataInv,
       CompAck
  <2> QED BY <2>1, <2>2, <2>3
<1>8. CASE HomeSendCachedData
  <2> DEFINE packet == Min(remainingResponse)
             flit == [dst |-> request.src, packet |-> packet, version |-> lineBuffer[packet],
                      state |-> GrantedState, err |-> completionError]
  <2>0. packet \in remainingResponse
    BY <1>0, <1>8, IndexFacts, MinInSet
       DEF Sources, HomeSendCachedData, TypeInv, RequestShape, HomeTypeOK
  <2> USE <1>0, <1>8, <2>0 DEF HomeSendCachedData
  <2>1. /\ compData' = compData \cup {flit}
         /\ remainingResponse' = remainingResponse \ {packet}
         /\ phase' = IF remainingResponse = {packet} THEN "AwaitCompAck" ELSE "SendCachedData"
    OBVIOUS
  <2>2. UNCHANGED <<request, completionError, acks>> /\ acks = {} /\ phase = "SendCachedData"
         /\ GrantedState' = GrantedState
    BY DEF ReadDataInv, ProbeInv, GrantedState
  <2> HIDE <1>8 DEF HomeSendCachedData, packet
  <2>3. PhaseFits'
    BY <1>0, <1>8, <2>0 DEF Sources, HomeSendCachedData, PhaseFits, Proper
  <2>4. RequestsInv'
    BY <1>0, <1>8, <2>0
       DEF Sources, HomeSendCachedData, RequestsInv, RequestFits, Proper, Matches
  <2>5. RefillInv'
    BY <2>1, <2>2 DEF RefillInv, Matches, Granted
  <2>6. MaintenanceInv'
    BY <1>0, <1>8, <2>0 DEF Sources, HomeSendCachedData, MaintenanceInv
  <2>7. CopybackInv'
    BY <1>0, <1>8, <2>0 DEF Sources, HomeSendCachedData, CopybackInv
  <2>8. UncachedInv'
    BY <2>1, <2>2 DEF UncachedInv
  <2>9. ResponsesInv'
    BY <1>0, <1>8, <2>0 DEF Sources, HomeSendCachedData, ResponsesInv
  <2>10. WriteDataInv'
    BY <1>0, <1>8, <2>0 DEF Sources, HomeSendCachedData, WriteDataInv
  <2>11. ReadDataInv'
    BY <2>0, <2>1, <2>2 DEF Sources, ReadDataInv, CompAck, RefillInv, UncachedInv, PhaseFits,
       Proper
  <2> QED BY <2>3, <2>4, <2>5, <2>6, <2>7, <2>8, <2>9, <2>10, <2>11
<1>9. CASE HomeCompAck
  <2> USE <1>0, <1>9 DEF Sources, HomeCompAck
  <2>1. PhaseFits'
    BY DEF PhaseFits, Proper
  <2>2. RequestsInv' /\ MaintenanceInv' /\ CopybackInv' /\ WriteDataInv'
    BY DEF RequestsInv, RequestFits, Proper, Matches, MaintenanceInv, CopybackInv, WriteDataInv,
       CompAck
  <2>3. RefillInv' /\ UncachedInv' /\ ResponsesInv'
    BY DEF RefillInv, Matches, Granted, GrantedState, AllocatesCoherent, UncachedInv,
       ResponsesInv, CompAck
  <2>4. ReadDataInv'
    BY DEF ReadDataInv, GrantedState, AllocatesCoherent, CompAck
  <2> QED BY <2>1, <2>2, <2>3, <2>4
<1> QED BY <1>1, <1>2, <1>3, <1>4, <1>5, <1>6, <1>7, <1>8, <1>9
        DEF HomeStep, HomeQuietStep, HomeOrdersWrite, HomeOrdersMaintenance

\* A cache between two transactions has nothing of its own at the Home or on a link.
LEMMA Unserved ==
  ASSUME TypeInv, RequesterSideInv, NEW n \in RNF, engine[n].phase \in {"Idle", "Complete"}
  PROVE  /\ \A m \in reqs : m.src # n
         /\ Busy /\ ~ MovedOn => request.src # n
         /\ Busy /\ (Maintenance \/ Copyback) => request.src # n
         /\ \A m \in rsps : m.dst # n
         /\ \A m \in compData : m.dst # n
<1> USE DEF RequesterSideInv, Busy, Answering, MovedOn, Serving,
            Copyback, Maintenance, IsMaintenance, IsWrite, MaintenanceOps, RefillOps
<1>0. Sources
  BY SourcesHold
<1> USE DEF Sources
<1>1. \A m \in reqs : m.src # n
  BY <1>0 DEF RequestsInv, RequestFits, Proper, RequestOps
<1>2. Busy /\ (Maintenance \/ Copyback) => request.src # n
  BY <1>0 DEF MaintenanceInv, CopybackInv
<1>3. Busy /\ ~ MovedOn => request.src # n
  BY <1>0, <1>2 DEF RefillInv, PhaseFits, Proper, RequestOps
<1>4. \A m \in rsps : m.dst # n
  BY <1>0, <1>2 DEF ResponsesInv, PhaseFits, Proper, LinksTypeOK, Response
<1>5. \A m \in compData : m.dst # n
  BY <1>0, <1>3 DEF ReadDataInv
<1> QED BY <1>1, <1>2, <1>3, <1>4, <1>5

\* A step of one cache leaves the requests of the others as they were.
LEMMA OthersRequests ==
  ASSUME TypeInv, PhaseFits, RequestsInv, NEW n \in RNF, OtherEngines(n), io' = io,
         \A m \in reqs : m.src # n
  PROVE  \A m \in reqs : RequestFits(m)'
<1>1. ASSUME NEW m \in reqs PROVE RequestFits(m)'
  <2>1. /\ RequestFits(m) /\ m.op \in RequestOps
        /\ m.src # n /\ (m.src \in RNF => engine'[m.src] = engine[m.src])
    BY DEF RequestsInv, TypeInv, TypeOK, LinksTypeOK, Request, OtherEngines
  <2> QED BY <2>1 DEF RequestFits, Proper, IsMaintenance, MaintenanceOps, RefillOps
<1> QED BY <1>1

\* No step of a cache does either.
LEMMA CacheRequesterSide ==
  ASSUME TypeInv, RequesterSideInv, ProbeInv, NEW n \in RNF, CacheStep(n)
  PROVE  RequesterSideInv'
<1> USE DEF RequesterSideInv, Busy, Answering, MovedOn, Serving,
            Copyback, Maintenance, IsMaintenance, IsWrite, MaintenanceOps, RefillOps
<1>1. Sources
  BY SourcesHold
<1>2. /\ UNCHANGED <<phase, request, receivedData, copybackState, copybackDirty, remainingResponse,
                     completionError, snoopVictim, io>>
      /\ GrantedState' = GrantedState
  BY DEF CacheStep, homeVars, requesterRegs, lookupRegs, GrantedState
<1>3. PhaseFits'
  BY <1>2 DEF PhaseFits, Proper, Snooping, VictimWrite, WritingVictim, Filling
<1> USE <1>1, <1>2 DEF Sources
<1>4. CASE StoreHit(n) \/ SnoopAccept(n)
  <2>1. UNCHANGED <<reqs, rsps, acks, compData, reqData, engine>>
    BY <1>4 DEF StoreHit, SnoopAccept, requesterLinks
  <2> QED BY <1>3, <2>1
          DEF RequestsInv, RefillInv, MaintenanceInv, CopybackInv, UncachedInv, ResponsesInv,
              WriteDataInv, ReadDataInv, RequestFits, Proper, Matches, Granted, CompAck
<1>5. CASE StartMiss(n)
  <2>1. PICK access \in Accesses \ {"maintenance"}, line \in Lines, w \in L1Ways,
             evict \in BOOLEAN : MissEffect(n, access, line, w, evict)
    BY <1>5, StartMissEffect
  <2>2. UNCHANGED <<snps, rsps, acks, compData, reqData>> /\ engine[n].phase = "Idle"
    BY <1>5 DEF StartMiss
  <2>3. /\ \A m \in reqs : m.src # n
        /\ Busy /\ ~ MovedOn => request.src # n
        /\ Busy /\ (Maintenance \/ Copyback) => request.src # n
        /\ \A m \in rsps : m.dst # n
        /\ \A m \in compData : m.dst # n
    BY <2>2, Unserved
  <2> USE <2>1, <2>2, <2>3 DEF MissEffect, OtherEngines, RefillRequest, CopybackRequest
  <2>4. RequestsInv'
    <3>0. PICK r : r = IF evict THEN CopybackRequest(n, l1[n][w].line)
                       ELSE RefillRequest(n, access, line)
      OBVIOUS
    <3>1. reqs' = reqs \cup {r} /\ r.src = n /\ (Busy /\ ~ MovedOn => request.src # n)
      BY <3>0 DEF MissEffect, RefillRequest, CopybackRequest
    <3>2. RequestFits(r)'
      <4>1. CASE evict
        <5>1. /\ r.op = "WriteBackFull" /\ r.src = n /\ r.packets = Packets
              /\ r.line = l1[n][w].line /\ (r.snoopMe <=> IsMaintenance(r.op))
          BY <3>0, <4>1 DEF CopybackRequest
        <5> QED BY <4>1, <5>1 DEF MissEffect, RequestFits, Proper
      <4>2. CASE ~ evict
        <5>1. /\ Matches(r.op, access) /\ r.op \in RefillOps /\ r.src = n
              /\ r.packets = Packets /\ r.line = line /\ (r.snoopMe <=> IsMaintenance(r.op))
          BY <3>0, <4>2 DEF RefillRequest, Matches
        <5> QED BY <4>2, <5>1 DEF MissEffect, RequestFits, Proper, Matches
      <4> QED BY <4>1, <4>2
    <3>3. \A m \in reqs : RequestFits(m)'
      BY OthersRequests DEF MissEffect
    <3> QED BY <3>1, <3>2, <3>3 DEF RequestsInv
  <2>5. RefillInv'
    BY DEF RefillInv, Matches, Granted
  <2>6. MaintenanceInv' /\ CopybackInv' /\ UncachedInv' /\ ResponsesInv' /\
        WriteDataInv' /\ ReadDataInv'
    BY DEF MaintenanceInv, CopybackInv, UncachedInv, ResponsesInv, WriteDataInv, ReadDataInv,
       CompAck
  <2> QED BY <1>3, <2>4, <2>5, <2>6
<1>6. CASE StartMaintenance(n)
  <2>1. PICK op \in MaintenanceOps, line \in Lines : MaintenanceEffect(n, op, line)
    BY <1>6, StartMaintenanceEffect
  <2>2. UNCHANGED <<snps, rsps, acks, compData, reqData>> /\ engine[n].phase = "Idle"
    BY <1>6 DEF StartMaintenance
  <2>3. /\ \A m \in reqs : m.src # n
        /\ Busy /\ ~ MovedOn => request.src # n
        /\ Busy /\ (Maintenance \/ Copyback) => request.src # n
        /\ \A m \in rsps : m.dst # n
        /\ \A m \in compData : m.dst # n
    BY <2>2, Unserved
  <2> USE <2>1, <2>2, <2>3 DEF MaintenanceEffect, OtherEngines
  <2>4. RequestsInv'
    <3>0. PICK r : r = [op |-> op, src |-> n, line |-> line, packets |-> Packets, snoopMe |-> TRUE]
      OBVIOUS
    <3>1. reqs' = reqs \cup {r} /\ r.src = n /\ (Busy /\ ~ MovedOn => request.src # n)
      BY <3>0 DEF MaintenanceEffect
    <3>2. RequestFits(r)'
      BY <3>0 DEF MaintenanceEffect, RequestFits, Proper
    <3>3. \A m \in reqs : RequestFits(m)'
      BY OthersRequests DEF MaintenanceEffect
    <3> QED BY <3>1, <3>2, <3>3 DEF RequestsInv
  <2>5. RefillInv'
    BY DEF RefillInv, Matches, Granted
  <2>6. MaintenanceInv' /\ CopybackInv' /\ UncachedInv' /\ ResponsesInv' /\
        WriteDataInv' /\ ReadDataInv'
    BY DEF MaintenanceInv, CopybackInv, UncachedInv, ResponsesInv, WriteDataInv, ReadDataInv,
       CompAck
  <2> QED BY <1>3, <2>4, <2>5, <2>6
<1>7. CASE FinishMaintenance(n)
  <2>1. engine'[n].phase = "Idle" /\ OtherEngines(n)
    BY <1>7, IdleAgainEffect
  <2>2. UNCHANGED <<reqs, snps, acks, compData, reqData>> /\ engine[n].phase = "Maintenance"
    BY <1>7 DEF FinishMaintenance, requesterLinks
  <2>3. /\ \E m \in rsps : m.dst = n /\ m.op = "Comp" /\ rsps' = rsps \ {m}
        /\ \A m \in reqs : m.src # n
        /\ Busy => request.src # n
        /\ \A m \in rsps' : m.dst # n
    BY <1>7, <2>1, <2>2
    DEF FinishMaintenance, OtherEngines, PhaseFits, Proper,
       RequestsInv, RequestFits, RefillInv, MaintenanceInv, CopybackInv, UncachedInv,
       ResponsesInv, ReadDataInv, WriteDataInv, CompAck, LinksTypeOK, Response, RequestOps
  <2> USE <2>1, <2>2, <2>3 DEF OtherEngines
  <2>4. RequestsInv'
    <3>1. \A m \in reqs : RequestFits(m)'
      BY OthersRequests
    <3> QED BY <3>1 DEF RequestsInv
  <2>5. RefillInv'
    BY DEF RefillInv, Matches, Granted
  <2>6. MaintenanceInv' /\ CopybackInv' /\ UncachedInv' /\ ResponsesInv' /\
        WriteDataInv' /\ ReadDataInv'
    BY DEF MaintenanceInv, CopybackInv, UncachedInv, ResponsesInv, WriteDataInv, ReadDataInv,
       CompAck
  <2> QED BY <1>3, <2>4, <2>5, <2>6
<1>8. CASE CopybackGrant(n)
  <2>1. EngineGoes(n, "CopybackData") /\ engine'[n].state = engine[n].state
    BY <1>8, CopybackGrantEffect
  <2>2. UNCHANGED <<reqs, snps, acks, compData, reqData>> /\ engine[n].phase = "Copyback"
    BY <1>8 DEF CopybackGrant
  <2>3. /\ phase = "ReceiveRequesterData" /\ Copyback /\ request.src = n
        /\ receivedData = {} /\ reqData = {} /\ \A m \in reqs : m.src # n
        /\ rsps' \subseteq rsps /\ \A m \in rsps' : m.dst # n
    BY <1>8, <2>1, <2>2
    DEF CopybackGrant, EngineGoes, OtherEngines, PhaseFits, Proper,
       RequestsInv, RequestFits, RefillInv, MaintenanceInv, CopybackInv, UncachedInv,
       ResponsesInv, ReadDataInv, WriteDataInv, CompAck, LinksTypeOK, Response, RequestOps
  <2> USE <2>1, <2>2, <2>3 DEF EngineGoes, OtherEngines
  <2>4. RequestsInv'
    BY DEF RequestsInv, RequestFits, Proper, Matches
  <2>5. RefillInv'
    BY DEF RefillInv, Matches, Granted
  <2>6. MaintenanceInv' /\ CopybackInv' /\ UncachedInv' /\ ResponsesInv' /\
        WriteDataInv' /\ ReadDataInv'
    BY DEF MaintenanceInv, CopybackInv, UncachedInv, ResponsesInv, WriteDataInv, ReadDataInv,
       CompAck
  <2> QED BY <1>3, <2>4, <2>5, <2>6
<1>9. CASE CopybackSend(n)
  <2>1. PICK p \in Packets : CopybackSendEffect(n, p)
    BY <1>9, CopybackSendEffects
  <2>2. UNCHANGED <<snps, rsps, acks, compData>> /\ engine[n].phase = "CopybackData"
    BY <1>9 DEF CopybackSend
  <2>3. /\ phase = "ReceiveRequesterData" /\ Copyback /\ request.src = n
        /\ \A m \in reqs : m.src # n
        /\ \A m \in rsps : m.dst # n
    BY SMTT(60), <1>9, <2>1, <2>2
    DEF CopybackSend, CopybackSendEffect, OtherEngines, RefillRequest, VictimPacket, PhaseFits,
       Proper,
       RequestsInv, RequestFits, RefillInv, MaintenanceInv, CopybackInv, UncachedInv,
       ResponsesInv, ReadDataInv, WriteDataInv, CompAck, LinksTypeOK, Response, RequestOps
  <2> USE <2>1, <2>2, <2>3 DEF CopybackSendEffect, OtherEngines, RefillRequest, VictimPacket
  <2>4. RequestsInv'
    <3>0. PICK r : r = RefillRequest(n, engine[n].access, engine[n].line)
      OBVIOUS
    <3>1. \A m \in reqs : RequestFits(m)'
      BY OthersRequests DEF CopybackSendEffect
    <3>2. CASE reqs' = reqs
      BY <3>1, <3>2 DEF RequestsInv
    <3>3. CASE /\ engine'[n].phase = "Refill" /\ engine'[n].packets = {}
               /\ reqs' = reqs \cup {r}
      <4>1. RequestFits(r)'
        <5>1. /\ Matches(r.op, engine[n].access) /\ r.op \in RefillOps /\ r.src = n
              /\ r.packets = Packets /\ r.line = engine[n].line /\ (r.snoopMe <=> IsMaintenance(r.op))
          BY <3>0 DEF RefillRequest, Matches
        <5> QED BY <3>3, <5>1 DEF CopybackSendEffect, RequestFits, Proper, Matches
      <4>2. r.src = n /\ r.op \in RefillOps
        BY <3>0 DEF RefillRequest
      <4>3. /\ \A m \in reqs' : RequestFits(m)' /\ (m \in reqs \/ m = r)
            /\ Copyback' /\ request' = request
        BY <3>1, <3>3, <4>1
      <4> QED BY <4>2, <4>3 DEF RequestsInv
    <3> QED BY <3>0, <3>2, <3>3 DEF CopybackSendEffect
  <2>5. RefillInv'
    BY DEF RefillInv, Matches, Granted
  <2>6. WriteDataInv'
    <3>1. PICK version \in Versions : reqData' = reqData \cup {VictimPacket(n, p, version)}
      BY DEF CopybackSendEffect
    <3>0. PICK d : d = VictimPacket(n, p, version)
      OBVIOUS
    <3>2. /\ d.op = "CopyBackWriteData" /\ d.src = request.src /\ d.packet = p
          /\ d.passDirty = IsDirty(engine[n].state)
          /\ d.state = IF IsValid(engine[n].state) THEN "Unique" ELSE "Invalid"
      BY <3>0 DEF VictimPacket
    <3>3. /\ p \in request.packets /\ p \notin engine[n].packets
          /\ receivedData \subseteq engine[n].packets
          /\ receivedData # {} => copybackDirty = d.passDirty /\ copybackState = d.state
          /\ \A m \in reqData : /\ m.packet \in engine[n].packets
                               /\ m.passDirty = d.passDirty /\ m.state = d.state
      BY <3>2 DEF CopybackSendEffect, CopybackInv, PhaseFits, Proper
    <3> HIDE <2>1 DEF VictimPacket
    <3> QED BY <3>0, <3>1, <3>2, <3>3 DEF WriteDataInv
  <2>7. MaintenanceInv' /\ CopybackInv' /\ UncachedInv' /\ ResponsesInv' /\ ReadDataInv'
    BY DEF MaintenanceInv, CopybackInv, UncachedInv, ResponsesInv, ReadDataInv, CompAck
  <2> QED BY <1>3, <2>4, <2>5, <2>6, <2>7
<1>10. CASE RefillData(n)
  <2>1. PICK m \in compData : RefillDataEffect(n, m)
    BY <1>10, RefillDataEffects
  <2>2. UNCHANGED <<reqs, snps, rsps, acks, reqData>> /\ engine[n].phase = "Refill"
    BY <1>10 DEF RefillData
  <2>3. /\ Answering /\ acks = {} /\ request.src = n /\ request.op \in RefillOps
        /\ \A k \in reqs : k.src # n
        /\ \A k \in rsps : k.dst # n
    BY <1>10, <2>1, <2>2
    DEF RefillData, RefillDataEffect, OtherEngines, PhaseFits, Proper,
       RequestsInv, RequestFits, RefillInv, MaintenanceInv, CopybackInv, UncachedInv,
       ResponsesInv, ReadDataInv, WriteDataInv, CompAck, LinksTypeOK, Response, RequestOps
  <2> USE <2>1, <2>2, <2>3 DEF RefillDataEffect, OtherEngines
  <2>4. RequestsInv'
    BY DEF RequestsInv, RequestFits, Proper, Matches
  <2>5. RefillInv'
    <3>1. /\ m.err = completionError /\ m.state = GrantedState
          /\ m.packet \notin remainingResponse
          /\ engine[n].packets # {} =>
               /\ engine[n].err = completionError /\ engine[n].state = GrantedState
               /\ engine[n].packets \cap remainingResponse = {}
          /\ engine[n].packets = {} => ~ engine[n].err
          /\ completionError \in BOOLEAN /\ engine[n].err \in BOOLEAN
      BY CacheTypes
         DEF RefillDataEffect, ReadDataInv, RefillInv, TypeInv, TypeOK, HomeTypeOK, EngineState
    <3>2. /\ engine'[n].err = completionError /\ engine'[n].state = GrantedState
          /\ engine'[n].packets \cap remainingResponse = {}
      BY <3>1 DEF RefillDataEffect
    <3>3. engine'[n].packets = Packets => phase = "AwaitCompAck" /\ compData' = {}
      <4>1. SUFFICES ASSUME engine'[n].packets = Packets
                     PROVE  phase = "AwaitCompAck" /\ compData' = {}
        OBVIOUS
      <4>2. remainingResponse = {} /\ phase = "AwaitCompAck"
        BY <3>2, <4>1 DEF TypeInv, TypeOK, HomeTypeOK, RequestShape
      <4>3. \A k \in compData : k.packet \in Packets \ engine[n].packets
        BY DEF ReadDataInv, LinksTypeOK, CompletionData
      <4> QED BY <4>1, <4>2, <4>3 DEF RefillDataEffect, ReadDataInv
    <3>4. Matches(request.op, engine[n].access) /\ engine[n].line = request.line
      BY DEF RefillInv
    <3>5. ~ completionError =>
            GrantedState = IF NeedsUnique(engine[n].access) THEN "Unique" ELSE "SharedClean"
      BY <3>4 DEF GrantedState, AllocatesCoherent, Matches
    <3>6. /\ OtherEngines(n) /\ engine'[n].packets # {}
          /\ engine'[n].access = engine[n].access /\ engine'[n].line = engine[n].line
          /\ engine'[n].phase = IF engine'[n].packets = Packets THEN "Acknowledge" ELSE "Refill"
      BY DEF RefillDataEffect
    <3> QED BY <3>2, <3>3, <3>4, <3>5, <3>6 DEF RefillInv, Matches, Granted, OtherEngines
  <2>6. MaintenanceInv' /\ CopybackInv' /\ UncachedInv' /\ ResponsesInv' /\
        WriteDataInv' /\ ReadDataInv'
    BY DEF MaintenanceInv, CopybackInv, UncachedInv, ResponsesInv, WriteDataInv, ReadDataInv,
       CompAck
  <2> QED BY <1>3, <2>4, <2>5, <2>6
<1>11. CASE RefillAcknowledge(n)
  <2>1. EngineGoes(n, "Complete") /\ engine'[n].state = engine[n].state
    BY <1>11, RefillAcknowledgeEffect
  <2>2. /\ UNCHANGED <<reqs, snps, rsps, compData, reqData>> /\ engine[n].phase = "Acknowledge"
        /\ acks' = acks \cup {CompAck(n)}
    BY <1>11 DEF RefillAcknowledge
  <2>3. /\ phase = "AwaitCompAck" /\ request.src = n /\ acks = {} /\ compData = {}
        /\ \A k \in reqs : k.src # n
        /\ \A k \in rsps : k.dst # n
    BY <1>11, <2>1, <2>2
    DEF RefillAcknowledge, EngineGoes, OtherEngines, PhaseFits, Proper,
       RequestsInv, RequestFits, RefillInv, MaintenanceInv, CopybackInv, UncachedInv,
       ResponsesInv, ReadDataInv, WriteDataInv, CompAck, LinksTypeOK, Response, RequestOps
  <2> USE <2>1, <2>2, <2>3 DEF EngineGoes, OtherEngines
  <2>4. RequestsInv'
    BY DEF RequestsInv, RequestFits, Proper, Matches
  <2>5. RefillInv'
    BY DEF RefillInv, Matches, Granted
  <2>6. MaintenanceInv' /\ CopybackInv' /\ UncachedInv' /\ ResponsesInv' /\
        WriteDataInv' /\ ReadDataInv'
    BY DEF MaintenanceInv, CopybackInv, UncachedInv, ResponsesInv, WriteDataInv, ReadDataInv,
       CompAck
  <2> QED BY <1>3, <2>4, <2>5, <2>6
<1>12. CASE InstallRefill(n) \/ FinishWithoutInstall(n)
  <2>1. engine'[n].phase = "Idle" /\ OtherEngines(n)
    BY <1>12, InstallRefillEffect, IdleAgainEffect DEF InstallEffect
  <2>2. UNCHANGED <<reqs, rsps, acks, compData, reqData>> /\ engine[n].phase = "Complete"
    BY <1>12 DEF InstallRefill, FinishWithoutInstall, RefillCanComplete, requesterLinks
  <2>3. /\ \A m \in reqs : m.src # n
        /\ Busy /\ ~ MovedOn => request.src # n
        /\ Busy /\ (Maintenance \/ Copyback) => request.src # n
        /\ \A m \in rsps : m.dst # n
        /\ \A m \in compData : m.dst # n
    BY <2>2, Unserved
  <2> USE <2>1, <2>2, <2>3 DEF OtherEngines
  <2>4. RequestsInv'
    BY DEF RequestsInv, RequestFits, Proper, Matches
  <2>5. RefillInv'
    BY DEF RefillInv, Matches, Granted
  <2>6. MaintenanceInv' /\ CopybackInv' /\ UncachedInv' /\ ResponsesInv' /\
        WriteDataInv' /\ ReadDataInv'
    BY DEF MaintenanceInv, CopybackInv, UncachedInv, ResponsesInv, WriteDataInv, ReadDataInv,
       CompAck
  <2> QED BY <1>3, <2>4, <2>5, <2>6
<1>13. CASE SnoopRespond(n)
  <2>1. /\ EngineGoes(n, engine[n].phase)
        /\ engine[n].phase # "Copyback" => engine'[n].state = engine[n].state
    BY <1>13, AnswerEffect
  <2>2. UNCHANGED <<reqs, snps, rsps, compData, reqData>> /\ snoop[n].active /\ phase = "AwaitSnoop"
    BY <1>13 DEF SnoopRespond, RetireSnoop, ProbeInv, ProbeInFlightInv
  <2> USE <2>1, <2>2 DEF EngineGoes, OtherEngines
  <2>4. RequestsInv'
    BY DEF RequestsInv, RequestFits, Proper, Matches
  <2>5. RefillInv'
    BY DEF RefillInv, Matches, Granted
  <2>6. MaintenanceInv' /\ CopybackInv' /\ UncachedInv' /\ ResponsesInv' /\
        WriteDataInv' /\ ReadDataInv'
    BY DEF MaintenanceInv, CopybackInv, UncachedInv, ResponsesInv, WriteDataInv, ReadDataInv,
       CompAck
  <2> QED BY <1>3, <2>4, <2>5, <2>6
<1>14. CASE SnoopSendData(n)
  <2>1. /\ EngineGoes(n, engine[n].phase)
        /\ engine[n].phase # "Copyback" => engine'[n].state = engine[n].state
    BY <1>14, AnswerEffect
  <2>2. UNCHANGED <<reqs, snps, rsps, acks, compData>> /\ snoop[n].active /\ phase = "AwaitSnoop"
    BY <1>14 DEF SnoopSendData, RetireSnoop, ProbeInv, ProbeInFlightInv
  <2> USE <2>1, <2>2 DEF EngineGoes, OtherEngines
  <2>4. RequestsInv'
    BY DEF RequestsInv, RequestFits, Proper, Matches
  <2>5. RefillInv'
    BY DEF RefillInv, Matches, Granted
  <2>6. WriteDataInv'
    <3>1. PICK d : SnoopDataEffect(n, d)
      BY <1>14, SnoopSendDataEffect
    <3>2. reqData' = reqData \cup {d} /\ d.packet \notin snoop[n].packets
      BY <3>1 DEF SnoopDataEffect
    <3>3. \A m \in reqData : m.packet # d.packet
      BY <3>2 DEF ProbeInv, ProbeProgressInv
    <3> QED BY <3>2, <3>3 DEF WriteDataInv
  <2>7. MaintenanceInv' /\ CopybackInv' /\ UncachedInv' /\ ResponsesInv' /\ ReadDataInv'
    BY DEF MaintenanceInv, CopybackInv, UncachedInv, ResponsesInv, ReadDataInv, CompAck
  <2> QED BY <1>3, <2>4, <2>5, <2>6, <2>7
<1> QED BY <1>4, <1>5, <1>6, <1>7, <1>8, <1>9, <1>10, <1>11, <1>12, <1>13, <1>14
        DEF CacheStep, CoreStep, EngineDuty, SnoopDuty

\* What a step of an uncached requester does to the others, and a packet of its read.
OtherUncached(i) == \A k \in IO \ {i} : io'[k] = io[k]
UncachedDataEffect(i, m) ==
  /\ m \in compData /\ m.dst = i /\ compData' = compData \ {m}
  /\ OtherUncached(i)
  /\ io'[i].packets = io[i].packets \cup {m.packet}
  /\ io'[i].phase = IF io'[i].packets = Packets THEN "Acknowledge" ELSE "Read"

\* A step of an uncached requester leaves the requests of the others as they were.
LEMMA OthersRequestsUncached ==
  ASSUME TypeInv, PhaseFits, RequestsInv, NEW i \in IO, OtherUncached(i), engine' = engine,
         \A m \in reqs : m.src # i
  PROVE  \A m \in reqs : RequestFits(m)'
<1>1. ASSUME NEW m \in reqs PROVE RequestFits(m)'
  <2>1. /\ RequestFits(m) /\ m.op \in RequestOps
        /\ m.src # i /\ (m.src \in IO => io'[m.src] = io[m.src])
    BY DEF RequestsInv, TypeInv, TypeOK, LinksTypeOK, Request, OtherUncached
  <2> QED BY <2>1 DEF RequestFits, Proper, IsMaintenance, MaintenanceOps, RefillOps
<1> QED BY <1>1

\* No step of an uncached requester does.
LEMMA UncachedRequesterSide ==
  ASSUME TypeInv, RequesterSideInv, NEW i \in IO, IOStep(i)
  PROVE  RequesterSideInv'
<1> USE DEF RequesterSideInv, Busy, Answering, MovedOn, Serving,
            Copyback, Maintenance, IsMaintenance, IsWrite, MaintenanceOps, RefillOps
<1>1. Sources
  BY SourcesHold
<1>2. /\ UNCHANGED <<phase, request, receivedData, copybackState, copybackDirty, remainingResponse,
                     completionError, snoopVictim, engine>>
      /\ GrantedState' = GrantedState
  BY DEF IOStep, homeVars, requesterRegs, lookupRegs, GrantedState, cacheVars
<1>3. PhaseFits'
  BY <1>2 DEF PhaseFits, Proper, Snooping, VictimWrite, WritingVictim, Filling
<1> USE <1>1, <1>2 DEF Sources
<1>4. CASE ReadOnce(i)
  <2>1. /\ OtherUncached(i)
        /\ io'[i].phase = "Read" /\ io'[i].packets = {}
        /\ \E line \in Lines : reqs' = reqs \cup
             {[op |-> "ReadOnce", src |-> i, line |-> line, packets |-> Packets, snoopMe |-> FALSE]}
        /\ UNCHANGED <<snps, rsps, acks, compData, reqData>>
    BY <1>4 DEF ReadOnce, IdleIO, OtherUncached, IOTypeOK
  <2>2. /\ \A m \in reqs : m.src # i
        /\ Busy /\ ~ MovedOn => request.src # i
        /\ Busy /\ request.op = "WriteUniquePtl" => request.src # i
        /\ \A m \in rsps : m.dst # i
        /\ \A m \in compData : m.dst # i
    BY <1>4, <2>1 DEF ReadOnce, OtherUncached, PhaseFits, Proper, RequestsInv, RequestFits,
       RefillInv, MaintenanceInv, CopybackInv, UncachedInv, ResponsesInv, ReadDataInv,
       WriteDataInv, LinksTypeOK, Response, CompletionData, RequestOps
  <2> USE <2>1, <2>2 DEF OtherUncached
  <2>3. RequestsInv'
    <3>0. PICK line, r : /\ reqs' = reqs \cup {r}
                         /\ r = [op |-> "ReadOnce", src |-> i, line |-> line,
                                 packets |-> Packets, snoopMe |-> FALSE]
      BY <2>1, Zenon
    <3>1. /\ reqs' = reqs \cup {r} /\ r.op = "ReadOnce" /\ r.src = i
          /\ r.packets = Packets /\ r.snoopMe = FALSE
      BY <3>0
    <3>2. RequestFits(r)'
      BY <2>1, <3>1 DEF RequestFits, Proper
    <3>3. \A m \in reqs : RequestFits(m)'
      BY <2>1, <2>2, OthersRequestsUncached
    <3> QED BY <2>1, <2>2, <3>1, <3>2, <3>3 DEF RequestsInv
  <2>4. RefillInv'
    BY DEF RefillInv, Matches, Granted
  <2>5. MaintenanceInv' /\ CopybackInv' /\ UncachedInv' /\ ResponsesInv' /\ WriteDataInv'
    BY DEF MaintenanceInv, CopybackInv, UncachedInv, ResponsesInv, WriteDataInv
  <2>6. ReadDataInv'
    BY DEF ReadDataInv, CompAck
  <2> QED BY <1>3, <2>3, <2>4, <2>5, <2>6
<1>5. CASE ReadOnceData(i)
  <2>1. PICK m \in compData : UncachedDataEffect(i, m)
    BY <1>5 DEF ReadOnceData, UncachedDataEffect, IdleIO, OtherUncached, IOTypeOK
  <2>2. io[i].phase = "Read" /\ UNCHANGED <<reqs, snps, rsps, acks, reqData>>
    BY <1>5 DEF ReadOnceData
  <2>3. /\ Answering /\ acks = {} /\ request.src = i /\ request.op = "ReadOnce"
        /\ \A k \in reqs : k.src # i
        /\ \A k \in rsps : k.dst # i
    BY <1>5, <2>1 DEF ReadOnceData, UncachedDataEffect, OtherUncached, PhaseFits, Proper,
       RequestsInv, RequestFits, RefillInv, MaintenanceInv, CopybackInv, UncachedInv,
       ResponsesInv, ReadDataInv, WriteDataInv, LinksTypeOK, Response, CompletionData,
       RequestOps
  <2> USE <2>1, <2>2, <2>3 DEF UncachedDataEffect, OtherUncached
  <2>4. UncachedInv'
    <3>1. /\ m.packet \notin remainingResponse
          /\ io[i].packets \cap remainingResponse = {}
      BY <2>1, <2>2, <2>3 DEF UncachedDataEffect, ReadDataInv, UncachedInv
    <3>2. io'[i].packets \cap remainingResponse = {} /\ io'[i].packets # {}
      BY <2>1, <3>1 DEF UncachedDataEffect
    <3>3. io'[i].packets = Packets => phase = "AwaitCompAck" /\ compData' = {}
      <4>1. SUFFICES ASSUME io'[i].packets = Packets
                     PROVE  phase = "AwaitCompAck" /\ compData' = {}
        OBVIOUS
      <4>2. remainingResponse = {} /\ phase = "AwaitCompAck"
        BY <2>3, <3>2, <4>1 DEF TypeInv, TypeOK, HomeTypeOK, RequestShape
      <4>3. \A k \in compData : k.packet \in Packets \ io[i].packets
        BY <2>3 DEF ReadDataInv, LinksTypeOK, CompletionData
      <4> QED BY <2>1, <4>1, <4>2, <4>3 DEF UncachedDataEffect, ReadDataInv
    <3> QED BY <2>1, <2>2, <2>3, <3>2, <3>3 DEF UncachedInv, UncachedDataEffect, OtherUncached
  <2>5. RequestsInv'
    BY DEF RequestsInv, RequestFits, Proper, Matches
  <2>6. RefillInv'
    BY DEF RefillInv, Matches, Granted
  <2>7. MaintenanceInv' /\ CopybackInv' /\ ResponsesInv' /\ WriteDataInv'
    BY DEF MaintenanceInv, CopybackInv, ResponsesInv, WriteDataInv
  <2>8. ReadDataInv'
    BY DEF ReadDataInv, CompAck
  <2> QED BY <1>3, <2>4, <2>5, <2>6, <2>7, <2>8
<1>6. CASE ReadOnceAcknowledge(i)
  <2>1. /\ OtherUncached(i)
        /\ io'[i].phase = "Idle"
        /\ acks' = acks \cup {CompAck(i)}
        /\ UNCHANGED <<reqs, snps, rsps, compData, reqData>>
    BY <1>6 DEF ReadOnceAcknowledge, IdleIO, OtherUncached, IOTypeOK
  <2>2. /\ phase = "AwaitCompAck" /\ request.src = i /\ acks = {} /\ compData = {}
        /\ request.op = "ReadOnce"
        /\ \A k \in reqs : k.src # i
        /\ \A k \in rsps : k.dst # i
    BY <1>6, <2>1 DEF ReadOnceAcknowledge, OtherUncached, PhaseFits, Proper, RequestsInv,
       RequestFits, RefillInv, MaintenanceInv, CopybackInv, UncachedInv, ResponsesInv,
       ReadDataInv, WriteDataInv, LinksTypeOK, Response, CompletionData, RequestOps
  <2> USE <2>1, <2>2 DEF OtherUncached
  <2>3. UncachedInv'
    <3>1. acks' # {}
      BY <2>1
    <3> QED BY <2>1, <2>2, <3>1 DEF UncachedInv, OtherUncached
  <2>4. RequestsInv'
    BY DEF RequestsInv, RequestFits, Proper, Matches
  <2>5. RefillInv'
    BY DEF RefillInv, Matches, Granted
  <2>6. MaintenanceInv' /\ CopybackInv' /\ ResponsesInv' /\ WriteDataInv'
    BY DEF MaintenanceInv, CopybackInv, ResponsesInv, WriteDataInv
  <2>7. ReadDataInv'
    BY DEF ReadDataInv, CompAck
  <2> QED BY <1>3, <2>3, <2>4, <2>5, <2>6, <2>7
<1>7. CASE WriteUnique(i)
  <2>1. \E p \in Packets : 
        /\ OtherUncached(i)
        /\ io'[i].phase = "Write" /\ io'[i].packets = {p}
        /\ \E line \in Lines : reqs' = reqs \cup
             {[op |-> "WriteUniquePtl", src |-> i, line |-> line, packets |-> {p}, snoopMe |-> FALSE]}
        /\ UNCHANGED <<snps, rsps, acks, compData, reqData>>
    <3>1. PICK line \in Lines, p \in Packets :
               /\ reqs' = reqs \cup {[op |-> "WriteUniquePtl", src |-> i, line |-> line,
                                      packets |-> {p}, snoopMe |-> FALSE]}
               /\ io' = [io EXCEPT ![i] = [IdleIO EXCEPT !.phase = "Write", !.line = line,
                                             !.packets = {p}, !.data[p] = stores + 1]]
      BY <1>7 DEF WriteUnique
    <3>2. /\ io'[i].phase = "Write" /\ io'[i].packets = {p}
          /\ \A k \in IO \ {i} : io'[k] = io[k]
      BY <3>1 DEF IdleIO, IOTypeOK
    <3> QED BY <1>7, <3>1, <3>2 DEF WriteUnique, OtherUncached
  <2>2. /\ \A m \in reqs : m.src # i
        /\ Busy /\ ~ MovedOn => request.src # i
        /\ Busy /\ request.op = "WriteUniquePtl" => request.src # i
        /\ \A m \in rsps : m.dst # i
        /\ \A m \in compData : m.dst # i
    BY <1>7, <2>1 DEF WriteUnique, OtherUncached, PhaseFits, Proper, RequestsInv, RequestFits,
       RefillInv, MaintenanceInv, CopybackInv, UncachedInv, ResponsesInv, ReadDataInv,
       WriteDataInv, LinksTypeOK, Response, CompletionData, RequestOps
  <2> USE <2>1, <2>2 DEF OtherUncached
  <2>3. RequestsInv'
    <3>0. PICK line, p, r : /\ reqs' = reqs \cup {r} /\ io'[i].packets = {p}
                            /\ r = [op |-> "WriteUniquePtl", src |-> i, line |-> line,
                                    packets |-> {p}, snoopMe |-> FALSE]
      BY <2>1, Zenon
    <3>1. /\ reqs' = reqs \cup {r} /\ r.op = "WriteUniquePtl" /\ r.src = i
          /\ r.packets = io'[i].packets /\ r.snoopMe = FALSE
      BY <3>0
    <3>2. RequestFits(r)'
      BY <2>1, <3>1 DEF RequestFits, Proper
    <3>3. \A m \in reqs : RequestFits(m)'
      BY <2>1, <2>2, OthersRequestsUncached
    <3> QED BY <2>1, <2>2, <3>1, <3>2, <3>3 DEF RequestsInv
  <2>4. RefillInv'
    BY DEF RefillInv, Matches, Granted
  <2>5. MaintenanceInv' /\ CopybackInv' /\ UncachedInv' /\ ResponsesInv' /\ WriteDataInv'
    BY DEF MaintenanceInv, CopybackInv, UncachedInv, ResponsesInv, WriteDataInv
  <2>6. ReadDataInv'
    BY DEF ReadDataInv, CompAck
  <2> QED BY <1>3, <2>3, <2>4, <2>5, <2>6
<1>8. CASE WriteUniqueData(i)
  <2>1. /\ OtherUncached(i)
        /\ io'[i].phase = "Completion"
        /\ \E p \in io[i].packets :
             reqData' = reqData \cup
            {[op |-> "NonCopyBackWriteData", src |-> i, packet |-> p,
              version |-> io[i].data[p], state |-> "Invalid", passDirty |-> FALSE,
              err |-> FALSE]}
        /\ UNCHANGED <<reqs, snps, acks, compData>>
    BY <1>8 DEF WriteUniqueData, IdleIO, OtherUncached, IOTypeOK
  <2>2. /\ phase = "ReceiveRequesterData" /\ request.op = "WriteUniquePtl" /\ request.src = i
        /\ receivedData = {} /\ reqData = {} /\ io[i].packets = request.packets
        /\ \A k \in reqs : k.src # i
        /\ \A m \in rsps' : m \in rsps /\ m.dst # i
    BY <1>8, <2>1 DEF WriteUniqueData, OtherUncached, PhaseFits, Proper, RequestsInv,
       RequestFits, RefillInv, MaintenanceInv, CopybackInv, UncachedInv, ResponsesInv,
       ReadDataInv, WriteDataInv, LinksTypeOK, Response, CompletionData, RequestOps
  <2> USE <2>1, <2>2 DEF OtherUncached
  <2>3. RequestsInv'
    BY DEF RequestsInv, RequestFits, Proper, Matches
  <2>4. RefillInv'
    BY DEF RefillInv, Matches, Granted
  <2>5. MaintenanceInv' /\ CopybackInv' /\ UncachedInv' /\ ResponsesInv' /\ WriteDataInv'
    BY DEF MaintenanceInv, CopybackInv, UncachedInv, ResponsesInv, WriteDataInv
  <2>6. ReadDataInv'
    BY DEF ReadDataInv, CompAck
  <2> QED BY <1>3, <2>3, <2>4, <2>5, <2>6
<1>9. CASE WriteUniqueCompletion(i)
  <2>1. /\ OtherUncached(i)
        /\ io'[i].phase = "Idle"
        /\ UNCHANGED <<reqs, snps, acks, compData, reqData>>
    BY <1>9 DEF WriteUniqueCompletion, IdleIO, OtherUncached, IOTypeOK
  <2>2. /\ \A k \in reqs : k.src # i
        /\ Busy => request.src # i
        /\ \A m \in rsps' : m \in rsps /\ m.dst # i
        /\ \A m \in compData : m.dst # i
    BY <1>9, <2>1 DEF WriteUniqueCompletion, OtherUncached, PhaseFits, Proper, RequestsInv,
       RequestFits, RefillInv, MaintenanceInv, CopybackInv, UncachedInv, ResponsesInv,
       ReadDataInv, WriteDataInv, LinksTypeOK, Response, CompletionData, RequestOps
  <2> USE <2>1, <2>2 DEF OtherUncached
  <2>3. RequestsInv'
    BY DEF RequestsInv, RequestFits, Proper, Matches
  <2>4. RefillInv'
    BY DEF RefillInv, Matches, Granted
  <2>5. MaintenanceInv' /\ CopybackInv' /\ UncachedInv' /\ ResponsesInv' /\ WriteDataInv'
    BY DEF MaintenanceInv, CopybackInv, UncachedInv, ResponsesInv, WriteDataInv
  <2>6. ReadDataInv'
    BY DEF ReadDataInv, CompAck
  <2> QED BY <1>3, <2>3, <2>4, <2>5, <2>6
<1> QED BY <1>4, <1>5, <1>6, <1>7, <1>8, <1>9 DEF IOStep, IOBegin, IODuty

------------------------------------------------------------------------------
(* The memory side.                                                         *)

\* The Home keeps its transactions with the memory in order.
LEMMA HomeMemorySide ==
  ASSUME TypeInv, MemorySideInv, HomeStep
  PROVE  MemorySideInv'
<1> USE DEF MemorySideInv, FillInv, VictimWriteInv, WritingVictim, requesterLinks,
            subordinateLinks, requesterRegs, lookupRegs, snoopTargets, snoopRegs, backingRegs,
            directory, storage, memoryVars
<1>0. LinksTypeOK /\ HomeTypeOK /\ MemoryTypeOK /\ UNCHANGED memWrite
  BY DEF TypeInv, TypeOK, HomeStep
<1>1. CASE HomeSendMemRequest
  BY <1>0, <1>1 DEF HomeSendMemRequest, LinksTypeOK, MemRequest
<1>2. CASE HomeVictimDBID
  BY <1>0, <1>2 DEF HomeVictimDBID, LinksTypeOK, MemResponse
<1>3. CASE HomeSendVictimData
  <2>1. victimBeat \in Nat
    BY <1>0, IndexFacts DEF HomeTypeOK
  <2> QED BY <1>0, <1>3, <2>1, LinkAssumption DEF HomeSendVictimData, HomeTypeOK, LinksTypeOK,
  MemPacket, MemoryTypeOK, Packets
<1>4. CASE HomeVictimCompletion
  BY <1>0, <1>4 DEF HomeVictimCompletion, AnswerPhase, LinksTypeOK, MemResponse
<1>5. CASE HomeReceiveFill
  BY <1>0, <1>5 DEF HomeReceiveFill, FilledPhase, AllArrived, LinksTypeOK, FillPacket
<1>6. CASE HomeAfterSnoops
  BY <1>0, <1>6 DEF HomeAfterSnoops, AnswerPhase, FilledPhase
<1>7. CASE HomeAcceptRequest \/ HomeSendDBID \/ HomeReceiveData \/ HomeLookup \/ HomeFinishCopyBack
  BY <1>0, <1>7 DEF HomeAcceptRequest, HomeSendDBID, HomeReceiveData, HomeLookup,
                    HomeFinishCopyBack
<1>8. CASE HomeSendSnoop \/ HomeSnoopsDone \/ HomeSnoopResponse \/ HomeSnoopData
  BY <1>0, <1>8 DEF HomeSendSnoop, HomeSnoopsDone, HomeSnoopResponse, HomeSnoopData
<1>9. CASE HomeSendCompletion \/ HomeSendCachedData \/ HomeCompAck \/ HomeMergeRequesterData
             \/ HomeFinishMaintenance
  BY <1>0, <1>9 DEF HomeSendCompletion, HomeSendCachedData, HomeCompAck,
                    HomeMergeRequesterData, HomeFinishMaintenance
<1> QED BY <1>1, <1>2, <1>3, <1>4, <1>5, <1>6, <1>7, <1>8, <1>9
        DEF HomeStep, HomeQuietStep, HomeOrdersWrite, HomeOrdersMaintenance

\* So does the memory: a write completes only when all its beats were sent.
LEMMA MemoryMemorySide ==
  ASSUME TypeInv, MemorySideInv, MemoryStep
  PROVE  MemorySideInv'
<1> USE DEF MemorySideInv, FillInv, VictimWriteInv, WritingVictim, requesterLinks,
            requesterRegs, backingRegs, memoryVars
<1>0. /\ LinksTypeOK /\ MemoryTypeOK
      /\ UNCHANGED <<phase, receivedFill, victimBeat>>
  BY DEF TypeInv, TypeOK, MemoryStep, homeVars
<1>1. CASE ReadMemory
  BY <1>0, <1>1 DEF ReadMemory
<1>2. CASE AcceptWrite
  BY <1>0, <1>2 DEF AcceptWrite
<1>3. CASE WriteMemory
  BY <1>0, <1>3 DEF WriteMemory, MemoryTypeOK, LinksTypeOK, MemPacket
<1>4. CASE CompleteWrite
  <2>1. memData = {}
    BY <1>0, <1>4 DEF CompleteWrite, LinksTypeOK, MemPacket
  <2>2. phase = "AwaitVictimCompletion" /\ memRsps = {}
    <3>1. phase # "SendVictimData"
      <4>1. victimBeat \in Packets /\ victimBeat \in Nat /\ memWrite.packets = Packets
        BY <1>4, IndexFacts DEF TypeInv, TypeOK, HomeTypeOK, CompleteWrite
      <4>2. ~ (victimBeat < victimBeat)
        BY <4>1
      <4> QED BY <1>4, <4>1, <4>2 DEF CompleteWrite
    <3>2. Packets # {} /\ memWrite.packets = Packets
      BY <1>4, IndexFacts DEF CompleteWrite
    <3> QED BY <1>0, <1>4, <3>1, <3>2 DEF CompleteWrite
  <2> QED BY <1>0, <1>4, <2>1, <2>2 DEF CompleteWrite, IdleWrite
<1> QED BY <1>1, <1>2, <1>3, <1>4 DEF MemoryStep

\* The memory touches nothing on the requester side.
LEMMA MemoryRequesterSide ==
  ASSUME RequesterSideInv, ProbeInv, UNCHANGED <<requesterLinks, homeVars, cacheVars, io>>
  PROVE  RequesterSideInv' /\ ProbeInv'
<1>1. /\ UNCHANGED requesterLinks /\ UNCHANGED <<engine, snoop, io>>
      /\ UNCHANGED <<phase, request, receivedData, copybackState, copybackDirty, snoopVictim,
                     victimAddress, expectedSnoop, pendingSnoops, receivedSnoop, snoopRetains,
                     remainingResponse, completionError>>
  BY DEF cacheVars, homeVars, requesterRegs, lookupRegs, snoopTargets, snoopRegs
<1>2. RequesterSideInv'
  BY <1>1 DEF requesterLinks, RequesterSideInv, PhaseFits, RequestsInv, RefillInv,
     MaintenanceInv, CopybackInv, UncachedInv, ResponsesInv, WriteDataInv, ReadDataInv, Busy,
     Snooping, VictimWrite, WritingVictim, Filling, Answering, MovedOn, Serving, Copyback,
     Maintenance, RequestFits, Proper, Matches, Granted, GrantedState
<1>3. ProbeInv'
  BY <1>1 DEF requesterLinks, ProbeInv, ProbeInFlightInv, ProbeAnswerInv, ProbeProgressInv,
     AnswerFailed, SnoopOp, SnoopAddress, DirtyHit
<1> QED BY <1>2, <1>3

\* Whoever leaves the Home and its memory alone leaves the memory side as it was.
LEMMA RequestersMemorySide ==
  ASSUME MemorySideInv, UNCHANGED <<subordinateLinks, homeVars, memoryVars>>
  PROVE  MemorySideInv'
<1>1. UNCHANGED <<memReqs, memRsps, fillData, memData, memWrite, phase, receivedFill, victimBeat>>
  BY DEF subordinateLinks, homeVars, backingRegs, memoryVars
<1> QED BY <1>1 DEF MemorySideInv, FillInv, VictimWriteInv, WritingVictim

------------------------------------------------------------------------------
(* Probes.                                                                  *)

\* The Home has at most one probe out, and consumes an answer only while it waits for it.
LEMMA HomeProbe ==
  ASSUME TypeInv, RequesterSideInv, ProbeInv, HomeStep
  PROVE  ProbeInv'
<1> USE DEF ProbeInv, ProbeInFlightInv, ProbeAnswerInv, ProbeProgressInv, requesterLinks,
            subordinateLinks, requesterRegs, lookupRegs, snoopTargets, snoopRegs, backingRegs,
            directory, storage, cacheVars, SnoopOp, SnoopAddress, AnswerFailed
<1>0. LinksTypeOK /\ HomeTypeOK /\ UNCHANGED snoop
  BY DEF TypeInv, TypeOK, HomeStep
<1>1. CASE HomeSendSnoop
  BY <1>0, <1>1 DEF HomeSendSnoop, HomeTypeOK, RequesterSideInv, WriteDataInv, ReadDataInv,
     MovedOn
<1>2. CASE HomeSnoopsDone
  BY <1>0, <1>2 DEF HomeSnoopsDone
<1>3. CASE HomeSnoopResponse
  BY <1>0, <1>3 DEF HomeSnoopResponse
<1>4. CASE HomeSnoopData
  <2>1. PICK m \in reqData :
          /\ reqData' = reqData \ {m} /\ receivedSnoop' = receivedSnoop \cup {m.packet}
          /\ snoopRetains' = (snoopRetains \/ m.err \/ m.state # "Invalid")
          /\ completionError' = (completionError \/ m.err)
          /\ phase' = IF receivedSnoop' = Packets THEN "SendSnoop" ELSE "AwaitSnoop"
    BY <1>4 DEF HomeSnoopData, AllArrived, ProvesAbsent, NoteError
  <2>2. /\ UNCHANGED <<snps, acks, request, snoopVictim, victimAddress, pendingSnoops,
                       expectedSnoop>>
        /\ phase = "AwaitSnoop" /\ SnoopOp' = SnoopOp
    BY <1>4 DEF HomeSnoopData
  <2>3. snps = {} /\ acks = {} /\ m.state = "Invalid" /\ m \in RequesterData /\ m.packet \in Packets
    BY <1>0, <2>1, <2>2 DEF LinksTypeOK, RequesterData
  <2>4. receivedSnoop' = Packets => \A k \in RNF : ~ snoop[k].active
    <3>1. SUFFICES ASSUME receivedSnoop' = Packets, NEW k \in RNF, snoop[k].active PROVE FALSE
      OBVIOUS
    <3>2. snoop[k].packets \subseteq Packets /\ snoop[k].packets # Packets
      BY <3>1 DEF TypeInv, CachesHaveLines, NodeInv, ProbeHasLine, SnoopState
    <3>3. receivedSnoop' \subseteq snoop[k].packets
      BY <2>1, <3>1
    <3> QED BY <3>1, <3>2, <3>3
  <2>5. ProbeInFlightInv'
    BY <1>0, <2>1, <2>2, <2>3, <2>4
  <2>6. ProbeAnswerInv'
    BY <1>0, <2>1, <2>2, <2>3 DEF RequesterSideInv, WriteDataInv
  <2>7. ProbeProgressInv'
    <3>1. \A k \in RNF : snoop[k].active /\ snoop[k].fault /\ snoop[k].packets # {} => AnswerFailed'
      <4>1. SUFFICES ASSUME snoopRetains \/ \E k \in reqData : k.err PROVE AnswerFailed'
        OBVIOUS
      <4>2. snoopRetains \/ m.err => snoopRetains'
        BY <2>1
      <4> QED BY <2>1, <4>1, <4>2
    <3>2. \A k \in RNF : snoop[k].active => receivedSnoop' \subseteq snoop[k].packets
      BY <2>1
    <3> QED BY <1>0, <2>1, <3>1, <3>2
  <2> QED BY <2>5, <2>6, <2>7
<1>5. CASE HomeAcceptRequest \/ HomeSendDBID \/ HomeReceiveData \/ HomeLookup \/ HomeFinishCopyBack
  BY <1>0, <1>5 DEF HomeAcceptRequest, HomeSendDBID, HomeReceiveData, HomeLookup,
                    HomeFinishCopyBack
<1>6. CASE HomeAfterSnoops \/ HomeSendMemRequest \/ HomeVictimDBID \/ HomeSendVictimData
             \/ HomeVictimCompletion \/ HomeReceiveFill
  BY <1>0, <1>6 DEF HomeAfterSnoops, HomeSendMemRequest, HomeVictimDBID, HomeSendVictimData,
                    HomeVictimCompletion, HomeReceiveFill, AnswerPhase, FilledPhase
<1>7. CASE HomeSendCompletion \/ HomeSendCachedData \/ HomeCompAck \/ HomeMergeRequesterData
             \/ HomeFinishMaintenance
  BY <1>0, <1>7 DEF HomeSendCompletion, HomeSendCachedData, HomeCompAck,
                    HomeMergeRequesterData, HomeFinishMaintenance
<1> QED BY <1>1, <1>2, <1>3, <1>4, <1>5, <1>6, <1>7
        DEF HomeStep, HomeQuietStep, HomeOrdersWrite, HomeOrdersMaintenance

\* A cache answers the probe it accepted, once, and with flits the Home expects.
LEMMA CacheProbe ==
  ASSUME TypeInv, RequesterSideInv, ProbeInv, NEW n \in RNF, CacheStep(n)
  PROVE  ProbeInv'
<1> USE DEF ProbeInv, ProbeInFlightInv, ProbeAnswerInv, ProbeProgressInv, AnswerFailed
<1>0. /\ UNCHANGED <<phase, expectedSnoop, pendingSnoops, receivedSnoop, snoopRetains,
                     completionError>>
      /\ SnoopOp' = SnoopOp /\ SnoopAddress' = SnoopAddress
  BY DEF CacheStep, homeVars, requesterRegs, lookupRegs, snoopTargets, snoopRegs,
         SnoopOp, SnoopAddress
<1>1. CASE SnoopAccept(n)
  <2>1. PICK m \in snps : AcceptEffect(n, m)
    BY <1>1, SnoopAcceptEffect
  <2>2. UNCHANGED <<acks, reqData>>
    BY <1>1 DEF SnoopAccept
  <2>3. snps' = {}
    BY <2>1 DEF AcceptEffect, TypeInv, TypeOK, LinksTypeOK, Snoop
  <2> QED BY <1>0, <2>1, <2>2, <2>3 DEF AcceptEffect, OtherProbes
<1>2. CASE SnoopRespond(n)
  <2>1. PICK a : RespondEffect(n, a)
    BY <1>2, SnoopRespondEffect
  <2>2. UNCHANGED <<snps, reqData>> /\ snoop[n].active /\ ~ DirtyHit(snoop[n])
    BY <1>2 DEF SnoopRespond
  <2>3. SnoopStateValid(SnoopOp, a.state)
    BY <2>1, <2>2 DEF RespondEffect, CleanResponseState, SnoopStateValid, InvalidatesState,
                      SharesState, TypeInv, TypeOK, CacheTypeOK, SnoopState, SnoopOps
  <2>4. reqData = {} /\ receivedSnoop = {} /\ acks = {} /\ snps = {}
    BY <2>2
  <2> QED BY <1>0, <2>1, <2>2, <2>3, <2>4 DEF RespondEffect, RetireEffect, OtherProbes
<1>3. CASE SnoopSendData(n)
  <2>1. PICK d : SnoopDataEffect(n, d)
    BY <1>3, SnoopSendDataEffect
  <2>2. UNCHANGED <<snps, acks>> /\ snoop[n].active /\ DirtyHit(snoop[n])
    BY <1>3 DEF SnoopSendData
  <2>3. SnoopOp # "SnpMakeInvalid"
    BY <2>2 DEF DirtyHit, DiscardsDirty
  <2>4. snps = {} /\ acks = {} /\ phase = "AwaitSnoop" /\ n = expectedSnoop
    BY <2>2
  <2>5. ASSUME snoop'[n].active
        PROVE  /\ OtherProbes(n)
               /\ snoop'[n] = [snoop[n] EXCEPT !.packets = @ \cup {d.packet}]
    BY <2>1, <2>5 DEF SnoopDataEffect, RetireEffect
  <2>6. reqData' = reqData \cup {d} /\ d.packet \notin receivedSnoop /\ OtherProbes(n)
    BY <2>1, <2>2 DEF SnoopDataEffect, RetireEffect
  <2>7. ProbeInFlightInv'
    BY <1>0, <2>2, <2>4, <2>5, <2>6, CacheTypes DEF OtherProbes, SnoopState
  <2>8. ProbeAnswerInv'
    BY <1>0, <2>1, <2>2, <2>3, <2>4, <2>6 DEF SnoopDataEffect
  <2>9. ProbeProgressInv'
    <3>1. SUFFICES ASSUME snoop'[n].active
                   PROVE  /\ DirtyHit(snoop'[n])
                          /\ receivedSnoop \subseteq snoop'[n].packets
                          /\ \A m \in reqData' : m.packet \in snoop'[n].packets
                          /\ snoop'[n].fault => snoopRetains \/ \E m \in reqData' : m.err
      BY <1>0, <2>4, <2>6 DEF OtherProbes
    <3>2. /\ snoop'[n].packets = snoop[n].packets \cup {d.packet}
          /\ snoop'[n].fault = snoop[n].fault /\ DirtyHit(snoop'[n])
      BY <2>2, <2>5, <3>1, CacheTypes DEF SnoopState, DirtyHit
    <3> QED BY <2>1, <2>2, <2>6, <3>2 DEF SnoopDataEffect
  <2> QED BY <2>7, <2>8, <2>9
<1>4. CASE CoreStep(n) \/ EngineDuty(n)
  <2>1. UNCHANGED <<snps, snoop>>
    BY <1>4 DEF CoreStep, EngineDuty, StoreHit, StartMiss, StartMaintenance, FinishMaintenance,
        CopybackGrant, CopybackSend, RefillData, RefillAcknowledge, InstallRefill,
        FinishWithoutInstall, requesterLinks
  <2>2. phase = "AwaitSnoop" => UNCHANGED <<acks, reqData>>
    BY <1>4 DEF CoreStep, EngineDuty, StoreHit, StartMiss, StartMaintenance, FinishMaintenance,
        CopybackGrant, CopybackSend, RefillData, RefillAcknowledge, InstallRefill,
        FinishWithoutInstall, requesterLinks, RequesterSideInv, RefillInv, CopybackInv
  <2> QED BY <1>0, <2>1, <2>2
<1> QED BY <1>1, <1>2, <1>3, <1>4 DEF CacheStep, SnoopDuty

\* An uncached requester is never part of a probe.
LEMMA UncachedProbe ==
  ASSUME TypeInv, RequesterSideInv, ProbeInv, NEW i \in IO, IOStep(i)
  PROVE  ProbeInv'
<1> USE DEF ProbeInv, ProbeInFlightInv, ProbeAnswerInv, ProbeProgressInv, AnswerFailed
<1>0. /\ UNCHANGED <<phase, expectedSnoop, pendingSnoops, receivedSnoop, snoopRetains,
                     completionError, snoop>>
      /\ SnoopOp' = SnoopOp /\ SnoopAddress' = SnoopAddress
  BY DEF IOStep, homeVars, requesterRegs, lookupRegs, snoopTargets, snoopRegs, cacheVars,
         SnoopOp, SnoopAddress
<1>1. UNCHANGED snps
  BY DEF IOStep, IOBegin, IODuty, ReadOnce, WriteUnique, ReadOnceData, ReadOnceAcknowledge,
         WriteUniqueData, WriteUniqueCompletion
<1>2. phase = "AwaitSnoop" => UNCHANGED <<acks, reqData>>
  BY DEF IOStep, IOBegin, IODuty, ReadOnce, WriteUnique, ReadOnceData, ReadOnceAcknowledge,
         WriteUniqueData, WriteUniqueCompletion, RequesterSideInv, UncachedInv, ResponsesInv
<1> QED BY <1>0, <1>1, <1>2
==============================================================================
