------------------------------- MODULE IONode -------------------------------
(***************************************************************************)
(* Coherent requesters without a cache of the Home's directory: the line   *)
(* reader behind the instruction cache (ReadOnce, chi/line-read.rhdl) and  *)
(* the single-packet write engine (WriteUniquePtl, chi/write-unique.rhdl). *)
(* Neither answers snoops.                                                 *)
(***************************************************************************)
EXTENDS CHILinks

VARIABLE io   \* io[i]: the one transaction of requester i

IOPhases == {"Idle", "Read", "Acknowledge", "Write", "Completion"}

IdleIO == [phase |-> "Idle", line |-> NoLine, packets |-> {},
           data |-> [p \in Packets |-> 0], err |-> FALSE]

IOTypeOK ==
  io \in [IO -> [phase : IOPhases, line : Lines \cup {NoLine}, packets : SUBSET Packets,
                 data : LineData, err : BOOLEAN]]

IOInit == io = [i \in IO |-> IdleIO]

\* For a write, `data` holds the version to send and `packets` where it goes.
ReadOnce(i) ==
  /\ io[i].phase = "Idle"
  /\ \E line \in Lines :
       /\ reqs' = reqs \cup {[op |-> "ReadOnce", src |-> i, line |-> line,
                              packets |-> Packets, snoopMe |-> FALSE]}
       /\ io' = [io EXCEPT ![i] = [IdleIO EXCEPT !.phase = "Read", !.line = line]]
  /\ UNCHANGED <<snps, rsps, acks, compData, reqData, subordinateLinks, history>>

ReadOnceData(i) ==
  /\ io[i].phase = "Read"
  /\ \E m \in compData :
       LET received == io[i].packets \cup {m.packet}
       IN  /\ m.dst = i
           /\ compData' = compData \ {m}
           /\ io' = [io EXCEPT ![i] =
                [io[i] EXCEPT !.packets = received,
                              !.data = [@ EXCEPT ![m.packet] = m.version],
                              !.err = @ \/ m.err,
                              !.phase = IF received = Packets THEN "Acknowledge" ELSE "Read"]]
  /\ UNCHANGED <<reqs, snps, rsps, acks, reqData, subordinateLinks, history>>

ReadOnceAcknowledge(i) ==
  /\ io[i].phase = "Acknowledge"
  /\ acks' = acks \cup {CompAck(i)}
  /\ io' = [io EXCEPT ![i] = IdleIO]
  /\ UNCHANGED <<reqs, snps, rsps, compData, reqData, subordinateLinks, history>>

\* The version is drawn at issue; it becomes the latest when the Home merges it.
WriteUnique(i) ==
  /\ io[i].phase = "Idle" /\ stores < MaxStores
  /\ \E line \in Lines, p \in Packets :
       /\ reqs' = reqs \cup {[op |-> "WriteUniquePtl", src |-> i, line |-> line,
                              packets |-> {p}, snoopMe |-> FALSE]}
       /\ io' = [io EXCEPT ![i] = [IdleIO EXCEPT !.phase = "Write", !.line = line,
                                     !.packets = {p}, !.data[p] = stores + 1]]
  /\ stores' = stores + 1
  /\ UNCHANGED <<snps, rsps, acks, compData, reqData, subordinateLinks, latest>>

WriteUniqueData(i) ==
  /\ io[i].phase = "Write"
  /\ \E m \in rsps, p \in io[i].packets :
       /\ m.dst = i /\ m.op = "DBIDResp"
       /\ rsps' = rsps \ {m}
       /\ reqData' = reqData \cup
            {[op |-> "NonCopyBackWriteData", src |-> i, packet |-> p,
              version |-> io[i].data[p], state |-> "Invalid", passDirty |-> FALSE,
              err |-> FALSE]}
  /\ io' = [io EXCEPT ![i].phase = "Completion"]
  /\ UNCHANGED <<reqs, snps, acks, compData, subordinateLinks, history>>

WriteUniqueCompletion(i) ==
  /\ io[i].phase = "Completion"
  /\ \E m \in rsps : m.dst = i /\ m.op = "Comp" /\ rsps' = rsps \ {m}
  /\ io' = [io EXCEPT ![i] = IdleIO]
  /\ UNCHANGED <<reqs, snps, acks, compData, reqData, subordinateLinks, history>>
=============================================================================
