------------------------------ MODULE CHILinks ------------------------------
(***************************************************************************)
(* The wires between the agents of one coherent cluster: the requester     *)
(* side of the Home (REQ, SNP and the two directions of RSP and DAT) and   *)
(* its subordinate side, with the data they carry.  Each channel is the    *)
(* set of flits in flight, so a flit may overtake another: the interposed  *)
(* links, NoC and arbiters are abstracted to that.                         *)
(*                                                                         *)
(* Data.  A line is a function from its packets to versions.  The n-th     *)
(* store of a behaviour writes version n, so a version names its store,    *)
(* and the history variable `latest` holds the version a load must see.    *)
(***************************************************************************)
EXTENDS Naturals, CHICoherence

CONSTANTS RNF,          \* coherent requesters with a cache (L1D instances)
          IO,           \* requesters without one (instruction fetch, host port)
          Lines,        \* 64-byte line addresses served by the Home
          PacketCount,  \* DAT packets in a line: 64 / data_bytes
          MaxStores,    \* bound: stores per behaviour
          NoLine,       \* the tag of a way that was never filled
          Faults        \* agents that may answer with an error (none of them is
                        \* RV5Stage's own): "snoop", "fill", "write"

ASSUME LinkAssumption ==
  /\ PacketCount \in Nat \ {0}
  /\ MaxStores \in Nat
  /\ RNF \cap IO = {}
  /\ NoLine \notin Lines
  /\ Faults \subseteq {"snoop", "fill", "write"}

Packets  == 0 .. PacketCount - 1
Versions == 0 .. MaxStores
LineData == [Packets -> Versions]

VARIABLES
  reqs,      \* REQ flits towards the Home
  snps,      \* SNP flits towards RN-Fs
  rsps,      \* RSP flits Home -> requester: DBIDResp, CompDBIDResp, Comp
  acks,      \* RSP flits requester -> Home: SnpResp, CompAck
  compData,  \* DAT flits Home -> requester: CompData
  reqData,   \* DAT flits requester -> Home: write data and SnpRespData
  memReqs,   \* REQ flits Home -> subordinate
  memRsps,   \* RSP flits subordinate -> Home
  fillData,  \* DAT flits subordinate -> Home
  memData,   \* DAT flits Home -> subordinate
  latest,    \* history: the newest version of each packet of each line
  stores     \* history: the number of stores so far

requesterLinks   == <<reqs, snps, rsps, acks, compData, reqData>>
subordinateLinks == <<memReqs, memRsps, fillData, memData>>
history          == <<latest, stores>>

Requesters == RNF \cup IO

\* `packets` is chi_transfer_data_ids of the request's address and size;
\* `snoopMe` is excl_snoop_me_cah.
Request == [op : RequestOps, src : Requesters, line : Lines,
            packets : SUBSET Packets, snoopMe : BOOLEAN]

Snoop == [dst : RNF, op : SnoopOps, line : Lines]

Response == [op : {"DBIDResp", "CompDBIDResp", "Comp"}, dst : Requesters, err : BOOLEAN]

\* `state` has no meaning in a CompAck.
Acknowledgement == [op : {"SnpResp", "CompAck"}, src : Requesters,
                    state : ResponseStates, err : BOOLEAN]

CompletionData == [dst : Requesters, packet : Packets, version : Versions,
                   state : ResponseStates, err : BOOLEAN]

RequesterData ==
  [op : {"SnpRespData", "CopyBackWriteData", "NonCopyBackWriteData"},
   src : Requesters, packet : Packets, version : Versions,
   state : ResponseStates, passDirty : BOOLEAN, err : BOOLEAN]

MemRequest  == [op : {"ReadNoSnp", "WriteNoSnpFull"}, line : Lines]
MemResponse == [op : {"DBIDResp", "Comp"}, err : BOOLEAN]
FillPacket  == [packet : Packets, version : Versions, err : BOOLEAN]
MemPacket   == [packet : Packets, version : Versions]

LinksTypeOK ==
  /\ reqs     \subseteq Request
  /\ snps     \subseteq Snoop
  /\ rsps     \subseteq Response
  /\ acks     \subseteq Acknowledgement
  /\ compData \subseteq CompletionData
  /\ reqData  \subseteq RequesterData
  /\ memReqs  \subseteq MemRequest
  /\ memRsps  \subseteq MemResponse
  /\ fillData \subseteq FillPacket
  /\ memData  \subseteq MemPacket
  /\ latest \in [Lines -> LineData]
  /\ stores \in Versions

LinksInit ==
  /\ reqs = {} /\ snps = {} /\ rsps = {} /\ acks = {}
  /\ compData = {} /\ reqData = {}
  /\ memReqs = {} /\ memRsps = {} /\ fillData = {} /\ memData = {}
  /\ latest = [l \in Lines |-> [p \in Packets |-> 0]]
  /\ stores = 0

\* The message sent when a requester has taken a whole CompData response.
CompAck(node) == [op |-> "CompAck", src |-> node, state |-> "Invalid", err |-> FALSE]
=============================================================================
