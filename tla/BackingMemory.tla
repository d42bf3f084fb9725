---------------------------- MODULE BackingMemory ----------------------------
(***************************************************************************)
(* The subordinate behind a Home, seen at its port: the CHI memory         *)
(* controller of chi/subordinate/memory-controller.rhdl in front of its    *)
(* line store, and, when Faults allows, another subordinate that answers   *)
(* with an error.  A failed write leaves the line as it was.               *)
(***************************************************************************)
EXTENDS CHILinks

VARIABLES memory,   \* memory[line]: the backing store
          memWrite  \* the write transaction in progress

memoryVars == <<memory, memWrite>>

WriteErrors == {"none"} \cup (IF "write" \in Faults THEN {"DBIDResp", "Comp"} ELSE {})

IdleWrite == [active |-> FALSE, line |-> NoLine, packets |-> {}, error |-> "none"]

MemoryTypeOK ==
  /\ memory \in [Lines -> LineData]
  /\ memWrite \in [active : BOOLEAN, line : Lines \cup {NoLine}, packets : SUBSET Packets,
                   error : {"none", "DBIDResp", "Comp"}]

MemoryInit ==
  /\ memory = [l \in Lines |-> [p \in Packets |-> 0]]
  /\ memWrite = IdleWrite

\* A read returns the whole line; a failing one flags every packet or only one.
ReadMemory ==
  /\ ~ memWrite.active
  /\ \E m \in memReqs, bad \in {{}} \cup (IF "fill" \in Faults
                                          THEN {Packets} \cup {{p} : p \in Packets} ELSE {}) :
       /\ m.op = "ReadNoSnp"
       /\ memReqs' = memReqs \ {m}
       /\ fillData' = fillData \cup
            {[packet |-> p, version |-> memory[m.line][p], err |-> p \in bad] : p \in Packets}
  /\ UNCHANGED <<requesterLinks, memRsps, memData, history, memoryVars>>

AcceptWrite ==
  /\ ~ memWrite.active
  /\ \E m \in memReqs, error \in WriteErrors :
       /\ m.op = "WriteNoSnpFull"
       /\ memReqs' = memReqs \ {m}
       /\ memWrite' = [active |-> TRUE, line |-> m.line, packets |-> {}, error |-> error]
       /\ memRsps' = memRsps \cup {[op |-> "DBIDResp", err |-> error = "DBIDResp"]}
  /\ UNCHANGED <<requesterLinks, fillData, memData, history, memory>>

WriteMemory ==
  /\ memWrite.active
  /\ \E m \in memData :
       /\ memData' = memData \ {m}
       /\ memWrite' = [memWrite EXCEPT !.packets = @ \cup {m.packet}]
       /\ memory' = IF memWrite.error = "none"
                    THEN [memory EXCEPT ![memWrite.line][m.packet] = m.version] ELSE memory
  /\ UNCHANGED <<requesterLinks, memReqs, memRsps, fillData, history>>

CompleteWrite ==
  /\ memWrite.active /\ memWrite.packets = Packets
  /\ memRsps' = memRsps \cup {[op |-> "Comp", err |-> memWrite.error = "Comp"]}
  /\ memWrite' = IdleWrite
  /\ UNCHANGED <<requesterLinks, memReqs, fillData, memData, history, memory>>
==============================================================================
