---------------------------- MODULE CHICoherence ----------------------------
(***************************************************************************)
(* The CHI vocabulary shared by every coherent agent: cache states, the    *)
(* request opcodes a coherent Home accepts from RV5Stage's requesters, and *)
(* the opcode classifiers of chi/protocol/coherence.rhdl and               *)
(* cores/rv5stage/chi/foundation.rhdl.  States and opcodes are strings;    *)
(* encodings are not modelled.                                             *)
(***************************************************************************)

\* The four cache states an RV5Stage L1D line takes (the other encodings of
\* CHICacheState are never written by it).
CacheStates == {"Invalid", "SharedClean", "UniqueClean", "UniqueDirty"}

IsValid(state)  == state # "Invalid"
IsUnique(state) == state \in {"UniqueClean", "UniqueDirty"}
IsDirty(state)  == state = "UniqueDirty"

\* The state field of a response, seen through CHICoherentResponse.
ResponseStates == {"Invalid", "SharedClean", "Unique"}

RefillOps      == {"ReadClean", "ReadUnique"}
MaintenanceOps == {"CleanShared", "CleanInvalid", "MakeInvalid"}
RequestOps     == RefillOps \cup MaintenanceOps
                    \cup {"ReadOnce", "WriteUniquePtl", "WriteBackFull"}
SnoopOps       == {"SnpOnce", "SnpCleanShared", "SnpUnique",
                   "SnpMakeInvalid", "SnpCleanInvalid"}

IsMaintenance(op) == op \in MaintenanceOps

\* is_initial_write of the subordinate opcode a request maps to: the requests
\* whose payload the Home must collect before it looks anything up.
IsWrite(op) == op \in {"WriteUniquePtl", "WriteBackFull"}

\* Mutant: a read probes its peers as a snapshot does, leaving an owner its
\* ownership.
HomeSnoopOpKeepsOwner(op) ==
  CASE op \in {"ReadOnce", "ReadClean"} -> "SnpOnce"
    [] op = "CleanShared"               -> "SnpCleanShared"
    [] op = "ReadUnique"                -> "SnpUnique"
    [] op = "MakeInvalid"               -> "SnpMakeInvalid"
    [] OTHER                            -> "SnpCleanInvalid"

\* chi_home_snoop_opcode.
HomeSnoopOp(op) ==
  CASE op = "ReadOnce"                     -> "SnpOnce"
    [] op \in {"ReadClean", "CleanShared"} -> "SnpCleanShared"
    [] op = "ReadUnique"                   -> "SnpUnique"
    [] op = "MakeInvalid"                  -> "SnpMakeInvalid"
    [] OTHER                               -> "SnpCleanInvalid"

\* Mutant: a snapshot read trusts the LLC's data.
SnoopsCachesExceptSnapshots(op) == op \notin {"WriteBackFull", "ReadOnce"}

\* chi_request_snoops_caches: only a copyback of the opcodes above does not.
SnoopsCaches(op) == op # "WriteBackFull"

\* chi_request_allocates_coherent.
AllocatesCoherent(op) == op \in RefillOps \cup {"WriteUniquePtl"}

\* chi_snoop_discards_dirty.
DiscardsDirty(snp) == snp = "SnpMakeInvalid"

\* chi_snoop_response_state_valid: what a Home accepts in a snoop response.
SnoopStateValid(snp, state) ==
  snp \notin {"SnpCleanShared", "SnpOnce"} => state = "Invalid"

\* rv5stage_snoop_shares_cache_state, rv5stage_snoop_invalidates_cache_state.
SharesState(snp)      == snp = "SnpCleanShared"
InvalidatesState(snp) == snp \in {"SnpUnique", "SnpCleanInvalid", "SnpMakeInvalid"}
=============================================================================
