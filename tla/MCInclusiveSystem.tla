-------------------------- MODULE MCInclusiveSystem --------------------------
(* Instances of InclusiveSystem for TLC.                                    *)
EXTENDS ClusterData, TLC

CONSTANTS n1, n2, i1, A, B, C, s1

MCRNF2    == {n1, n2}
MCRNF1    == {n1}
MCIO      == {i1}
MCLines   == {A, B}
MCLine    == {A}
MCLines3  == {A, B, C}
MCSetOf1  == [l \in MCLine |-> s1]
MCSetOf3  == [l \in MCLines3 |-> s1]
MCSets    == {s1}
MCSetOf   == [l \in MCLines |-> s1]
NoFaults  == {}
AllFaults == {"fill", "snoop", "write"}
WriteFaults == {"write"}
NoIO == {}

SymmetryN == Permutations({n1, n2})
Symmetry2 == Permutations({n1, n2}) \cup Permutations({A, B})

\* Registers nothing reads before they are written again are left out of the
\* state's identity.
HomeView ==
  IF phase = "Idle"
  THEN <<"Idle", directory, storage, completionError>>
  ELSE homeVars
View == <<requesterLinks, subordinateLinks, history, HomeView, cacheVars, io, memoryVars, window>>
==============================================================================
