------------------------------ MODULE CacheNode ------------------------------
(***************************************************************************)
(* RV5Stage's L1D as the CHI network sees it: the ways of its arrays, the  *)
(* one transaction its engines may own (line refill, line writeback or     *)
(* cache maintenance, cores/rv5stage/chi/ and dcache/cache.rhdl), and the  *)
(* snoop engine that runs beside it.                                       *)
(*                                                                         *)
(* One L1 set is modelled, so every line competes for the same ways.  The  *)
(* core pipeline is abstracted to its effects: a store is the moment its   *)
(* bytes reach the array, a load hit changes nothing.  The gather and the  *)
(* word-by-word installation keep the arrays, snoops and stores out (the   *)
(* conditions of snoop.cache_ready and engines_idle), so each is one step. *)
(***************************************************************************)
EXTENDS CHILinks

CONSTANT L1WayCount   \* the ways of the modelled L1 set

ASSUME CacheAssumption == L1WayCount \in Nat \ {0}

L1Ways == 0 .. L1WayCount - 1

VARIABLES l1,      \* l1[n][w]: tag, state and data; line = NoLine when not valid
          engine,  \* engine[n]: the refill, writeback and maintenance engines
          snoop    \* snoop[n]: the snoop engine

cacheVars == <<l1, engine, snoop>>

NoData   == [p \in Packets |-> 0]
EmptyWay == [line |-> NoLine, state |-> "Invalid", data |-> NoData]

\* What the core asked for.  "reserve" stands for a load-reserved and a write
\* prefetch, "bypass" for a non-temporal load, "store" for every mutation.
Accesses == {"load", "reserve", "store", "bypass", "maintenance"}

EnginePhases ==
  {"Idle", "Copyback", "CopybackData", "Refill", "Acknowledge", "Complete", "Maintenance"}

\* `victim`, `state` and `data` are the eviction registers up to the end of a
\* copyback, then `state` and `data` are the refill's response registers.
IdleEngine ==
  [phase |-> "Idle", access |-> "load", line |-> NoLine, way |-> 0,
   victim |-> NoLine, state |-> "Invalid", data |-> NoData, packets |-> {}, version |-> 0,
   err |-> FALSE]

IdleSnoop ==
  [active |-> FALSE, op |-> "SnpOnce", line |-> NoLine, hit |-> FALSE,
   way |-> 0, state |-> "Invalid", data |-> NoData,
   packets |-> {}, fault |-> FALSE]

WayState == [line : Lines \cup {NoLine}, state : CacheStates, data : LineData]

EngineState ==
  [phase : EnginePhases, access : Accesses, line : Lines \cup {NoLine}, way : L1Ways,
   victim : Lines \cup {NoLine}, state : CacheStates \cup ResponseStates,
   data : LineData, packets : SUBSET Packets, version : Versions, err : BOOLEAN]

SnoopState ==
  [active : BOOLEAN, op : SnoopOps, line : Lines \cup {NoLine}, hit : BOOLEAN,
   way : L1Ways, state : CacheStates, data : LineData, packets : SUBSET Packets,
   fault : BOOLEAN]

CacheTypeOK ==
  /\ l1     \in [RNF -> [L1Ways -> WayState]]
  /\ engine \in [RNF -> EngineState]
  /\ snoop  \in [RNF -> SnoopState]

CacheInit ==
  /\ l1 = [n \in RNF |-> [w \in L1Ways |-> EmptyWay]]
  /\ engine = [n \in RNF |-> IdleEngine]
  /\ snoop = [n \in RNF |-> IdleSnoop]

------------------------------------------------------------------------------
HitWays(n, line) == {w \in L1Ways : l1[n][w].line = line}

\* The way a miss takes: the hit way of an upgrade, else an invalid way, else
\* the replacement pointer's (any of them here).
MissWays(n, line) ==
  LET free == {w \in L1Ways : l1[n][w].line = NoLine}
  IN  IF HitWays(n, line) # {} THEN HitWays(n, line) ELSE IF free # {} THEN free ELSE L1Ways

\* needs_unique, and the load-reserved and write prefetch beside it.
NeedsUnique(access) == access \in {"store", "reserve"}

RefillRequest(n, access, line) ==
  [op |-> IF NeedsUnique(access) THEN "ReadUnique" ELSE "ReadClean",
   src |-> n, line |-> line, packets |-> Packets, snoopMe |-> FALSE]

CopybackRequest(n, line) ==
  [op |-> "WriteBackFull", src |-> n, line |-> line, packets |-> Packets, snoopMe |-> FALSE]

\* Mutant: a store does not look at the probe in progress.
SnoopOnNever(n, line) == FALSE

SnoopOn(n, line) == snoop[n].active /\ snoop[n].line = line

------------------------------------------------------------------------------
(* The core's side.                                                        *)

\* A store hits an owned line: no engine busy, no probe of the same line.  Its
\* bytes, one packet of the line, become the next version.
StoreHit(n) ==
  /\ engine[n].phase = "Idle" /\ stores < MaxStores
  /\ \E w \in L1Ways, p \in Packets :
       LET way == l1[n][w]
       IN  /\ IsUnique(way.state) /\ ~ SnoopOn(n, way.line)
           /\ l1' = [l1 EXCEPT ![n][w] = [line |-> way.line, state |-> "UniqueDirty",
                                          data |-> [way.data EXCEPT ![p] = stores + 1]]]
           /\ latest' = [latest EXCEPT ![way.line][p] = stores + 1]
  /\ stores' = stores + 1
  /\ UNCHANGED <<requesterLinks, subordinateLinks, engine, snoop>>

\* S4 finds neither the line nor, for an access that needs it, ownership.  Only
\* a dirty victim is returned first; a clean one is overwritten at install, and
\* a bypassing load has no victim.  A store draws its version here.
StartMiss(n) ==
  /\ engine[n].phase = "Idle" /\ ~ snoop[n].active
  /\ \E access \in Accesses \ {"maintenance"}, line \in Lines : \E w \in MissWays(n, line) :
       LET hit == HitWays(n, line) # {}
           victim == l1[n][w]
           evict == ~ hit /\ access # "bypass" /\ IsDirty(victim.state)
       IN  /\ hit => NeedsUnique(access) /\ ~ IsUnique(victim.state)
           /\ access = "store" => stores < MaxStores
           /\ stores' = IF access = "store" THEN stores + 1 ELSE stores
           /\ reqs' = reqs \cup {IF evict THEN CopybackRequest(n, victim.line)
                                 ELSE RefillRequest(n, access, line)}
           /\ engine' = [engine EXCEPT ![n] =
                [IdleEngine EXCEPT !.phase = IF evict THEN "Copyback" ELSE "Refill",
                   !.access = access, !.line = line, !.way = w,
                   !.version = IF access = "store" THEN stores + 1 ELSE 0,
                   !.victim = IF evict THEN victim.line ELSE NoLine,
                   !.state = IF evict THEN victim.state ELSE "Invalid",
                   !.data = IF evict THEN victim.data ELSE NoData]]
  /\ UNCHANGED <<snps, rsps, acks, compData, reqData, subordinateLinks, latest, l1, snoop>>

\* A cache-block operation of the core goes to the Home, which snoops its
\* issuer as well; it needs both other engines idle but not the snoop engine.
StartMaintenance(n) ==
  /\ engine[n].phase = "Idle"
  /\ \E op \in MaintenanceOps, line \in Lines :
       /\ reqs' = reqs \cup {[op |-> op, src |-> n, line |-> line, packets |-> Packets,
                              snoopMe |-> TRUE]}
       /\ engine' = [engine EXCEPT ![n] =
            [IdleEngine EXCEPT !.phase = "Maintenance", !.access = "maintenance", !.line = line]]
  /\ UNCHANGED <<snps, rsps, acks, compData, reqData, subordinateLinks, history, l1, snoop>>

FinishMaintenance(n) ==
  /\ engine[n].phase = "Maintenance"
  /\ \E m \in rsps : m.dst = n /\ m.op = "Comp" /\ rsps' = rsps \ {m}
  /\ engine' = [engine EXCEPT ![n] = IdleEngine]
  /\ UNCHANGED <<reqs, snps, acks, compData, reqData, subordinateLinks, history, l1, snoop>>

------------------------------------------------------------------------------
(* The writeback engine.                                                   *)

\* The grant is taken only while no probe is pending.  The state it promises is
\* the victim's now: a probe since the gather may have made it Invalid.
CopybackGrant(n) ==
  /\ engine[n].phase = "Copyback" /\ ~ snoop[n].active
  /\ \E m \in rsps : m.dst = n /\ m.op = "CompDBIDResp" /\ rsps' = rsps \ {m}
  /\ engine' = [engine EXCEPT ![n].phase = "CopybackData"]
  /\ UNCHANGED <<reqs, snps, acks, compData, reqData, subordinateLinks, history, l1, snoop>>

NextPacket(sent) == CHOOSE p \in Packets \ sent : \A q \in Packets \ sent : p <= q

\* One packet of the victim.  After the last the victim's way is free and the
\* refill that displaced it is launched.
CopybackSend(n) ==
  /\ engine[n].phase = "CopybackData"
  /\ LET e == engine[n]
         p == NextPacket(e.packets)
         final == e.packets \cup {p} = Packets
     IN  /\ reqData' = reqData \cup
              {[op |-> "CopyBackWriteData", src |-> n, packet |-> p, version |-> e.data[p],
                state |-> IF IsValid(e.state) THEN "Unique" ELSE "Invalid",
                passDirty |-> IsDirty(e.state), err |-> FALSE]}
         /\ IF final
            THEN /\ l1' = [l1 EXCEPT ![n][e.way] = EmptyWay]
                 /\ reqs' = reqs \cup {RefillRequest(n, e.access, e.line)}
                 /\ engine' = [engine EXCEPT ![n] =
                      [IdleEngine EXCEPT !.phase = "Refill", !.access = e.access,
                         !.line = e.line, !.way = e.way, !.version = e.version]]
            ELSE /\ engine' = [engine EXCEPT ![n].packets = @ \cup {p}]
                 /\ UNCHANGED <<l1, reqs>>
  /\ UNCHANGED <<snps, rsps, acks, compData, subordinateLinks, history, snoop>>

------------------------------------------------------------------------------
(* The refill engine.                                                      *)

RefillData(n) ==
  /\ engine[n].phase = "Refill"
  /\ \E m \in compData :
       LET e == engine[n]
           received == e.packets \cup {m.packet}
       IN  /\ m.dst = n
           /\ compData' = compData \ {m}
           /\ engine' = [engine EXCEPT ![n] =
                [e EXCEPT !.packets = received,
                          !.data = [@ EXCEPT ![m.packet] = m.version],
                          !.state = IF e.packets = {} THEN m.state ELSE @,
                          !.err = @ \/ m.err,
                          !.phase = IF received = Packets THEN "Acknowledge" ELSE "Refill"]]
  /\ UNCHANGED <<reqs, snps, rsps, acks, reqData, subordinateLinks, history, l1, snoop>>

RefillAcknowledge(n) ==
  /\ engine[n].phase = "Acknowledge"
  /\ acks' = acks \cup {CompAck(n)}
  /\ engine' = [engine EXCEPT ![n].phase = "Complete"]
  /\ UNCHANGED <<reqs, snps, rsps, compData, reqData, subordinateLinks, history, l1, snoop>>

RefillCanComplete(n) == engine[n].phase = "Complete" /\ ~ snoop[n].active

InstallState(e) ==
  IF e.access = "store" THEN "UniqueDirty"
  ELSE IF e.state = "Unique" THEN "UniqueClean" ELSE "SharedClean"

Installs(e) == e.access # "bypass" /\ ~ e.err

\* Installation performs the store that missed, in one packet.
InstallRefill(n) ==
  /\ RefillCanComplete(n) /\ Installs(engine[n])
  /\ LET e == engine[n]
         written == IF e.access = "store" THEN {{p} : p \in Packets} ELSE {{}}
         merged(ps, line) == [p \in Packets |-> IF p \in ps THEN e.version ELSE line[p]]
     IN  \E ps \in written :
           /\ l1' = [l1 EXCEPT ![n][e.way] =
                [line |-> e.line, state |-> InstallState(e), data |-> merged(ps, e.data)]]
           /\ latest' = [latest EXCEPT ![e.line] = merged(ps, @)]
  /\ UNCHANGED stores
  /\ engine' = [engine EXCEPT ![n] = IdleEngine]
  /\ UNCHANGED <<requesterLinks, subordinateLinks, snoop>>

\* A bypassing load leaves the arrays alone.  RV5Stage asserts that no refill
\* fails; a requester that meets an error completes without installing.
FinishWithoutInstall(n) ==
  /\ RefillCanComplete(n) /\ ~ Installs(engine[n])
  /\ engine' = [engine EXCEPT ![n] = IdleEngine]
  /\ UNCHANGED <<requesterLinks, subordinateLinks, history, l1, snoop>>

------------------------------------------------------------------------------
(* The snoop engine.                                                       *)

\* Mutants: probes are not held off at all; or from the moment a transaction
\* starts; or from the moment a refill is requested.
ProtectNothing(n) == FALSE
ProtectEngine(n)  == engine[n].phase # "Idle"
ProtectRequest(n) == engine[n].phase \in {"Refill", "Acknowledge", "Complete"}

\* From the last refill packet to installation no new probe is taken, nor one
\* of the victim from the copyback's grant to its completion.
ProtectRefill(n)         == engine[n].phase \in {"Acknowledge", "Complete"}
ProtectCopyback(n, line) == engine[n].phase = "CopybackData" /\ engine[n].victim = line

\* Accepting a probe looks the line up.  An agent that fails it is not RV5Stage;
\* it may not fail an invalidation that has no data to report.
SnoopAccept(n) ==
  /\ ~ snoop[n].active
  /\ \E m \in snps, fault \in {FALSE} \cup (IF "snoop" \in Faults THEN {TRUE} ELSE {}) :
       LET hits == HitWays(n, m.line)
           hit  == hits # {}
           w    == IF hit THEN CHOOSE x \in hits : TRUE ELSE IdleSnoop.way
       IN  /\ m.dst = n
           /\ ~ ProtectRefill(n) /\ ~ ProtectCopyback(n, m.line)
           /\ fault => m.op # "SnpMakeInvalid"
           /\ snps' = snps \ {m}
           /\ snoop' = [snoop EXCEPT ![n] =
                [active |-> TRUE, op |-> m.op, line |-> m.line, hit |-> hit, way |-> w,
                 state |-> IF hit THEN l1[n][w].state ELSE "Invalid",
                 data |-> IF hit THEN l1[n][w].data ELSE NoData,
                 packets |-> {}, fault |-> fault]]
  /\ UNCHANGED <<reqs, rsps, acks, compData, reqData, subordinateLinks, history, l1, engine>>

DirtyHit(s) == s.hit /\ IsDirty(s.state) /\ ~ DiscardsDirty(s.op)

CleanResponseState(s) ==
  CASE ~ s.hit \/ InvalidatesState(s.op)                       -> "Invalid"
    [] s.hit /\ SharesState(s.op)                              -> "SharedClean"
    [] s.hit /\ ~ InvalidatesState(s.op) /\ ~ SharesState(s.op) ->
         IF s.state = "SharedClean" THEN "SharedClean" ELSE "Unique"

\* Retiring a probe updates the way it looked up, and the eviction state of a
\* copyback of the same line.  An agent that failed the probe keeps its copy.
RetireSnoop(n) ==
  LET s == snoop[n]
      e == engine[n]
      invalidate == DirtyHit(s) \/ InvalidatesState(s.op)
      update == s.hit /\ ~ s.fault /\ (invalidate \/ SharesState(s.op))
      state == IF invalidate THEN "Invalid" ELSE "SharedClean"
  IN  /\ l1' = IF ~ update THEN l1
               ELSE IF invalidate THEN [l1 EXCEPT ![n][s.way] = EmptyWay]
               ELSE [l1 EXCEPT ![n][s.way].state = state]
      /\ engine' = IF update /\ e.phase = "Copyback" /\ e.victim = s.line
                   THEN [engine EXCEPT ![n].state = state] ELSE engine
      /\ snoop' = [snoop EXCEPT ![n] = IdleSnoop]

SnoopRespond(n) ==
  /\ snoop[n].active /\ ~ DirtyHit(snoop[n])
  /\ acks' = acks \cup {[op |-> "SnpResp", src |-> n, err |-> snoop[n].fault,
                         state |-> CleanResponseState(snoop[n])]}
  /\ RetireSnoop(n)
  /\ UNCHANGED <<reqs, snps, rsps, compData, reqData, subordinateLinks, history>>

\* Dirty data goes back packet by packet; a failing agent flags the first.
SnoopSendData(n) ==
  /\ snoop[n].active /\ DirtyHit(snoop[n])
  /\ LET s == snoop[n]
         p == NextPacket(s.packets)
     IN  /\ reqData' = reqData \cup
              {[op |-> "SnpRespData", src |-> n, packet |-> p, version |-> s.data[p],
                state |-> "Invalid", passDirty |-> TRUE, err |-> s.fault /\ s.packets = {}]}
         /\ IF s.packets \cup {p} = Packets THEN RetireSnoop(n)
            ELSE /\ snoop' = [snoop EXCEPT ![n].packets = @ \cup {p}]
                 /\ UNCHANGED <<l1, engine>>
  /\ UNCHANGED <<reqs, snps, rsps, acks, compData, subordinateLinks, history>>
==============================================================================
