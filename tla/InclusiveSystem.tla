--------------------------- MODULE InclusiveSystem ---------------------------
(***************************************************************************)
(* One coherent cluster: an inclusive Home, the L1Ds it grants lines to,   *)
(* the uncached requesters, and the memory behind it.  Every step is a     *)
(* step of one of them; they meet in the links of CHILinks.                *)
(***************************************************************************)
EXTENDS InclusiveHome, CacheNode, IONode, BackingMemory

VARIABLE window   \* history: the versions a pending ReadOnce may return

vars == <<requesterLinks, subordinateLinks, history, homeVars, cacheVars, io, memoryVars, window>>

Init ==
  /\ LinksInit /\ HomeInit /\ CacheInit /\ IOInit /\ MemoryInit
  /\ window = [i \in IO |-> [p \in Packets |-> {}]]

------------------------------------------------------------------------------
HomeQuietStep ==
  \/ HomeAcceptRequest \/ HomeSendDBID \/ HomeReceiveData \/ HomeLookup
  \/ HomeFinishCopyBack \/ HomeSendSnoop \/ HomeSnoopsDone \/ HomeSnoopResponse
  \/ HomeSnoopData \/ HomeAfterSnoops \/ HomeSendMemRequest \/ HomeVictimDBID
  \/ HomeSendVictimData \/ HomeVictimCompletion \/ HomeReceiveFill
  \/ HomeSendCompletion \/ HomeSendCachedData \/ HomeCompAck

\* A write is ordered when the Home merges it, unless it will report an error.
HomeOrdersWrite ==
  /\ HomeMergeRequesterData
  /\ latest' = IF completionError THEN latest
               ELSE [latest EXCEPT ![request.line] =
                      [p \in Packets |-> IF p \in receivedData THEN writeData[p] ELSE @[p]]]
  /\ UNCHANGED stores

\* Discarding the LLC's line makes memory's the newest.
HomeOrdersMaintenance ==
  /\ HomeFinishMaintenance
  /\ latest' = IF request.op = "MakeInvalid" /\ maintenanceHit /\ ~ completionError
               THEN [latest EXCEPT ![request.line] = memory[request.line]] ELSE latest
  /\ UNCHANGED stores

HomeStep ==
  /\ \/ HomeQuietStep /\ UNCHANGED history
     \/ HomeOrdersWrite
     \/ HomeOrdersMaintenance
  /\ UNCHANGED <<cacheVars, io, memoryVars>>

\* What the core may do, and what its two coherence engines must get done.
CoreStep(n)   == StoreHit(n) \/ StartMiss(n) \/ StartMaintenance(n)
EngineDuty(n) ==
  \/ FinishMaintenance(n) \/ CopybackGrant(n) \/ CopybackSend(n) \/ RefillData(n)
  \/ RefillAcknowledge(n) \/ InstallRefill(n) \/ FinishWithoutInstall(n)
SnoopDuty(n)  == SnoopAccept(n) \/ SnoopRespond(n) \/ SnoopSendData(n)
CacheStep(n)  ==
  (CoreStep(n) \/ EngineDuty(n) \/ SnoopDuty(n)) /\ UNCHANGED <<homeVars, io, memoryVars>>

IOBegin(i) == ReadOnce(i) \/ WriteUnique(i)
IODuty(i) ==
  ReadOnceData(i) \/ ReadOnceAcknowledge(i) \/ WriteUniqueData(i) \/ WriteUniqueCompletion(i)
IOStep(i) == (IOBegin(i) \/ IODuty(i)) /\ UNCHANGED <<homeVars, cacheVars, memoryVars>>

MemoryStep ==
  /\ ReadMemory \/ AcceptWrite \/ WriteMemory \/ CompleteWrite
  /\ UNCHANGED <<homeVars, cacheVars, io>>

Step ==
  \/ HomeStep
  \/ \E n \in RNF : CacheStep(n)
  \/ \E i \in IO : IOStep(i)
  \/ MemoryStep

\* Every version a line takes while its ReadOnce waits for data joins the window.
WindowFollows ==
  window' = [i \in IO |-> [p \in Packets |->
    CASE io'[i].phase = "Read"        -> window[i][p] \cup {latest'[io'[i].line][p]}
      [] io'[i].phase = "Acknowledge" -> window[i][p]
      [] OTHER                        -> {}]]

Next == Step /\ WindowFollows

Spec == Init /\ [][Next]_vars

------------------------------------------------------------------------------
(* Type.                                                                   *)

\* Every register, array, flit and history variable has its type.
TypeOK ==
  /\ LinksTypeOK /\ HomeTypeOK /\ CacheTypeOK /\ IOTypeOK /\ MemoryTypeOK
  /\ window \in [IO -> [Packets -> SUBSET Versions]]

------------------------------------------------------------------------------
(* Coherence.                                                              *)

Copies(line) == {c \in RNF \X L1Ways : l1[c[1]][c[2]].line = line}
State(c)     == l1[c[1]][c[2]].state

\* A copy that lets its core store without asking excludes every other copy of
\* the line, in whatever order probes, copybacks and grants were interleaved.
SingleWriter ==
  \A line \in Lines : \A c, d \in Copies(line) : c # d => ~ IsUnique(State(c))

\* A line granted but not yet installed: received whole, without an error.
Granted(n) == engine[n].phase \in {"Acknowledge", "Complete"} /\ ~ engine[n].err

\* Every L1D copy a load can hit, and every granted line a load can be answered
\* from, holds the newest version of each packet.
NoStaleCopy ==
  /\ \A line \in Lines : \A c \in Copies(line) : l1[c[1]][c[2]].data = latest[line]
  /\ \A n \in RNF : Granted(n) => engine[n].data = latest[engine[n].line]

Entry(line) == {e \in Sets \X Ways : validLines[e[1]][e[2]] /\ tags[e[1]][e[2]] = line}
Tracks(e, n) == n \in residentLines[e[1]][e[2]]

\* "A zero bit proves absence": an RN-F that holds a line, or was granted it, is
\* recorded in the one valid entry for it, so inclusion holds as well.
DirectoryCoversCopies ==
  \A line \in Lines, n \in RNF :
    (\E w \in L1Ways : l1[n][w].line = line)
      \/ (Granted(n) /\ engine[n].access # "bypass" /\ engine[n].line = line)
    => \E e \in Entry(line) : Tracks(e, n)

DirtyCopies(line) == {c \in Copies(line) : IsDirty(State(c))}

\* What a reader finds between two transactions: the dirty L1D copy, else the
\* LLC line, else memory.
Newest(line) ==
  IF DirtyCopies(line) # {}
  THEN LET c == CHOOSE c \in DirtyCopies(line) : TRUE IN l1[c[1]][c[2]].data
  ELSE IF Entry(line) # {} THEN LET e == CHOOSE e \in Entry(line) : TRUE IN lineRam[e[1]][e[2]]
  ELSE memory[line]

\* No version is ever lost: whenever the Home is between transactions, a reader
\* of any line would find the newest version.
NothingLost == phase = "Idle" => \A line \in Lines : Newest(line) = latest[line]

\* A clean LLC line may be dropped without a write: memory has its data.
CleanMatchesMemory ==
  phase = "Idle" =>
    \A line \in Lines : \A e \in Entry(line) :
      ~ dirtyLines[e[1]][e[2]] => lineRam[e[1]][e[2]] = memory[line]

\* A ReadOnce returns, packet by packet, a version its line held between the
\* request and the data: never one overwritten before it asked.
SnapshotInWindow ==
  \A i \in IO : io[i].phase = "Acknowledge" /\ ~ io[i].err =>
    \A p \in Packets : io[i].data[p] \in window[i][p]

------------------------------------------------------------------------------
(* The assertions of the source.                                           *)

\* The directory's own: chi_inclusive_hnf_hit_unique; dirty_copyback_has_entry (a
\* dirty copyback finds its line however many probes and evictions ran before it
\* was accepted); grant_has_directory_entry.
DirectoryAssertions ==
  /\ phase = "Lookup" =>
       /\ \A line \in Lines : Cardinality(MatchingWays(line)) <= 1
       /\ Copyback /\ copybackDirty => LookupHit
  /\ phase = "SendCachedData" /\ ~ completionError /\ request.op \in RefillOps =>
       Entry(request.line) = {<<selectedSet, selectedWay>>}

\* What arrives is what the phase expects: source, kind, packet not seen before,
\* a state the probe allows, no dirty data for a discarding probe.
ArrivalAssertions ==
  /\ phase = "ReceiveRequesterData" =>
       \A m \in reqData :
         /\ m.op = (IF Copyback THEN "CopyBackWriteData" ELSE "NonCopyBackWriteData")
         /\ m.src = request.src
         /\ m.packet \in request.packets \ receivedData
         /\ Copyback /\ receivedData # {} =>
              m.state = copybackState /\ m.passDirty = copybackDirty
  /\ phase = "AwaitSnoop" =>
       /\ \A m \in reqData :
            /\ m.op = "SnpRespData" /\ m.src = expectedSnoop /\ m.passDirty
            /\ m.packet \notin receivedSnoop
            /\ SnoopStateValid(SnoopOp, m.state)
            /\ request.op # "MakeInvalid"
       /\ \A m \in acks :
            m.op = "SnpResp" /\ m.src = expectedSnoop /\ SnoopStateValid(SnoopOp, m.state)
  /\ phase = "AwaitCompAck" =>
       \A m \in acks : m.op = "CompAck" /\ m.src = request.src
  /\ phase = "ReceiveFillData" => \A m \in fillData : m.packet \notin receivedFill
  /\ phase = "AwaitVictimDBID" => \A m \in memRsps : m.op = "DBIDResp"
  /\ phase = "AwaitVictimCompletion" => \A m \in memRsps : m.op = "Comp"

\* An LLC entry that is dropped leaves nothing behind: no L1D still holds the
\* line, and memory has its newest data (which a discard has made so).
DroppedEntryIsSettled ==
  [][\A line \in Lines :
       Entry(line) # {} /\ Entry(line)' = {} =>
         Copies(line)' = {} /\ memory'[line] = latest'[line]]_vars

------------------------------------------------------------------------------
(* The cluster implements CoherentMemory.                                  *)

PermissionOf(n, line) ==
  LET states == {State(c) : c \in {d \in Copies(line) : d[1] = n}}
  IN  IF \E s \in states : IsUnique(s) THEN "Write" ELSE IF states = {} THEN "None" ELSE "Read"

Cluster == INSTANCE CoherentMemory WITH
  Nodes <- RNF, Values <- LineData,
  permission <- [n \in RNF |-> [line \in Lines |-> PermissionOf(n, line)]],
  value <- latest

\* Whatever the messages do, permissions and values move as CoherentMemory says.
ImplementsCoherentMemory == Cluster!CMSpec

------------------------------------------------------------------------------
(* Progress.                                                               *)

AcceptFrom(r) == HomeStep /\ phase = "Idle" /\ phase' # "Idle" /\ request'.src = r

\* Clocked engines never rest while they can act, and the round-robin merge in
\* front of the Home (flow/rr-arbiter.rhdl) serves every requester in turn.
\* Nothing makes a core or an uncached requester begin.
Fairness ==
  /\ WF_vars(HomeStep /\ WindowFollows)
  /\ WF_vars(MemoryStep /\ WindowFollows)
  /\ \A r \in Requesters : SF_vars(AcceptFrom(r) /\ WindowFollows)
  /\ \A n \in RNF :
       /\ WF_vars(EngineDuty(n) /\ UNCHANGED <<homeVars, io, memoryVars>> /\ WindowFollows)
       /\ WF_vars(SnoopDuty(n) /\ UNCHANGED <<homeVars, io, memoryVars>> /\ WindowFollows)
  /\ \A i \in IO :
       WF_vars(IODuty(i) /\ UNCHANGED <<homeVars, cacheVars, memoryVars>> /\ WindowFollows)

FairSpec == Spec /\ Fairness

\* No chain of copyback, refill, probe and grant waits on itself: every miss and
\* every maintenance operation completes.
EngineCompletes == \A n \in RNF : engine[n].phase # "Idle" ~> engine[n].phase = "Idle"

\* Every uncached read and write completes.
UncachedCompletes == \A i \in IO : io[i].phase # "Idle" ~> io[i].phase = "Idle"
==============================================================================
