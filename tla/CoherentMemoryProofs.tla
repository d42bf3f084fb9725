------------------------ MODULE CoherentMemoryProofs ------------------------
(***************************************************************************)
(* What the cluster promises its cores, proved of the abstract memory for  *)
(* every set of caches, lines and values: a behaviour that implements      *)
(* CMSpec inherits these.                                                  *)
(***************************************************************************)
EXTENDS CoherentMemory, TLAPS

\* One writer speaks of the values that a permission can have.
CMInv == CMTypeOK /\ CMSingleWriter

\* A grant sets one permission of one cache and only takes others away.
LEMMA RegrantShape ==
  ASSUME CMTypeOK,
         NEW n \in Nodes, NEW l \in Lines, NEW new \in Permissions,
         NEW dropped \in SUBSET (Lines \ {l}),
         Regrant(n, l, new, dropped)
  PROVE  /\ permission' \in [Nodes -> [Lines -> Permissions]]
         /\ permission'[n][l] = new
         /\ \A k \in Lines \ {l} : permission'[n][k] \in {"None", permission[n][k]}
         /\ \A m \in Others(n) : permission'[m] = permission[m]
<1> DEFINE granted ==
      [k \in Lines |-> IF k = l THEN new ELSE IF k \in dropped THEN "None" ELSE permission[n][k]]
<1>1. permission' = [permission EXCEPT ![n] = granted]
  BY DEF Regrant, CMTypeOK
<1>2. granted \in [Lines -> Permissions]
  BY DEF CMTypeOK, Permissions
<1>3. granted[l] = new /\ \A k \in Lines \ {l} : granted[k] \in {"None", permission[n][k]}
  OBVIOUS
<1> HIDE DEF granted
<1> QED BY <1>1, <1>2, <1>3 DEF CMTypeOK, Others

LEMMA CMInitInv == CMInit => CMInv
BY DEF CMInit, CMInv, CMTypeOK, CMSingleWriter, Permissions

LEMMA AcquireReadInv ==
  ASSUME CMInv, NEW n \in Nodes, NEW l \in Lines, NEW dropped \in SUBSET (Lines \ {l}),
         AcquireRead(n, l, dropped)
  PROVE  CMInv'
<1>1. /\ permission' \in [Nodes -> [Lines -> Permissions]]
      /\ permission'[n][l] = "Read"
      /\ \A k \in Lines \ {l} : permission'[n][k] \in {"None", permission[n][k]}
      /\ \A m \in Others(n) : permission'[m] = permission[m]
  BY RegrantShape DEF CMInv, AcquireRead, Permissions
<1>2. value' = value /\ \A m \in Others(n) : permission[m][l] # "Write"
  BY DEF AcquireRead
<1>3. CMTypeOK'
  BY <1>1, <1>2 DEF CMInv, CMTypeOK
<1>4. CMSingleWriter'
  BY <1>1, <1>2 DEF CMInv, CMSingleWriter, Others
<1> QED BY <1>3, <1>4 DEF CMInv

LEMMA AcquireWriteInv ==
  ASSUME CMInv, NEW n \in Nodes, NEW l \in Lines, NEW dropped \in SUBSET (Lines \ {l}),
         AcquireWrite(n, l, dropped)
  PROVE  CMInv'
<1>1. /\ permission' \in [Nodes -> [Lines -> Permissions]]
      /\ permission'[n][l] = "Write"
      /\ \A k \in Lines \ {l} : permission'[n][k] \in {"None", permission[n][k]}
      /\ \A m \in Others(n) : permission'[m] = permission[m]
  BY RegrantShape DEF CMInv, AcquireWrite, Permissions
<1>2. \A m \in Others(n) : permission[m][l] = "None"
  BY DEF AcquireWrite
<1>3. CMTypeOK'
  BY <1>1 DEF CMInv, CMTypeOK, AcquireWrite
<1>4. CMSingleWriter'
  BY <1>1, <1>2 DEF CMInv, CMSingleWriter, Others
<1> QED BY <1>3, <1>4 DEF CMInv

LEMMA YieldInv ==
  ASSUME CMInv, NEW n \in Nodes, NEW l \in Lines, NEW less \in {"None", "Read"},
         Yield(n, l, less)
  PROVE  CMInv'
<1>1. /\ permission' = [permission EXCEPT ![n][l] = less]
      /\ permission[n][l] # "None" /\ value' = value
  BY DEF Yield
<1>2. CMTypeOK'
  BY <1>1 DEF CMInv, CMTypeOK, Permissions
<1>3. CMSingleWriter'
  BY <1>1 DEF CMInv, CMTypeOK, CMSingleWriter
<1> QED BY <1>2, <1>3 DEF CMInv

LEMMA CMNextInv == CMInv /\ [CMNext]_cmVars => CMInv'
<1> SUFFICES ASSUME CMInv, [CMNext]_cmVars PROVE CMInv'
  OBVIOUS
<1>1. ASSUME NEW n \in Nodes, NEW l \in Lines, NEW dropped \in SUBSET (Lines \ {l}),
             AcquireRead(n, l, dropped)
      PROVE  CMInv'
  BY <1>1, AcquireReadInv
<1>2. ASSUME NEW n \in Nodes, NEW l \in Lines, NEW dropped \in SUBSET (Lines \ {l}),
             AcquireWrite(n, l, dropped)
      PROVE  CMInv'
  BY <1>2, AcquireWriteInv
<1>3. ASSUME NEW n \in Nodes, NEW l \in Lines, Store(n, l)
      PROVE  CMInv'
  BY <1>3 DEF Store, CMInv, CMTypeOK, CMSingleWriter
<1>4. ASSUME NEW n \in Nodes, NEW l \in Lines, NEW less \in {"None", "Read"}, Yield(n, l, less)
      PROVE  CMInv'
  BY <1>4, YieldInv
<1>5. ASSUME NEW l \in Lines, Replace(l)
      PROVE  CMInv'
  BY <1>5 DEF Replace, CMInv, CMTypeOK, CMSingleWriter
<1>6. CASE UNCHANGED cmVars
  BY <1>6 DEF cmVars, CMInv, CMTypeOK, CMSingleWriter
<1> QED BY <1>1, <1>2, <1>3, <1>4, <1>5, <1>6 DEF CMNext

\* Permissions and values of the abstract memory keep their types.
THEOREM CMTypeCorrect == CMSpec => []CMTypeOK
<1>1. CMInv => CMTypeOK
  BY DEF CMInv
<1> QED BY <1>1, CMInitInv, CMNextInv, PTL DEF CMSpec

\* A cache that may write a line is the only one that holds it: the single-writer
\* promise that HomeSnoopOp and the L1's grants must keep.
THEOREM CMSingleWriterHolds == CMSpec => []CMSingleWriter
<1>1. CMInv => CMSingleWriter
  BY DEF CMInv
<1> QED BY <1>1, CMInitInv, CMNextInv, PTL DEF CMSpec
=============================================================================
