--------------------------- MODULE CoherentMemory ---------------------------
(***************************************************************************)
(* What a coherent cluster promises its cores, with no message in sight:   *)
(* every line has one current value, a core holds it for reading or for    *)
(* writing, and permission changes hands only when the others' allows it.  *)
(***************************************************************************)
EXTENDS Naturals

CONSTANTS Nodes,   \* the caches
          Lines,
          Values   \* what a line may hold

VARIABLES permission,  \* permission[n][l]: "None", "Read" or "Write"
          value        \* value[l]: what a load of l returns now

cmVars == <<permission, value>>

Permissions == {"None", "Read", "Write"}

CMTypeOK ==
  /\ permission \in [Nodes -> [Lines -> Permissions]]
  /\ value \in [Lines -> Values]

CMInit ==
  /\ permission = [n \in Nodes |-> [l \in Lines |-> "None"]]
  /\ value \in [Lines -> Values]

Others(n) == Nodes \ {n}

\* A grant may displace the lines in `dropped` from the same cache.
Regrant(n, l, new, dropped) ==
  permission' = [permission EXCEPT ![n] =
    [k \in Lines |-> IF k = l THEN new ELSE IF k \in dropped THEN "None" ELSE @[k]]]

AcquireRead(n, l, dropped) ==
  /\ \A m \in Others(n) : permission[m][l] # "Write"
  /\ Regrant(n, l, "Read", dropped)
  /\ UNCHANGED value

\* A missing store takes the permission and writes in one step.
AcquireWrite(n, l, dropped) ==
  /\ \A m \in Others(n) : permission[m][l] = "None"
  /\ Regrant(n, l, "Write", dropped)
  /\ \E v \in Values : value' = [value EXCEPT ![l] = v]

Store(n, l) ==
  /\ permission[n][l] = "Write"
  /\ \E v \in Values : value' = [value EXCEPT ![l] = v]
  /\ UNCHANGED permission

\* A probe or a copyback gives permission up, wholly or down to reading.
Yield(n, l, less) ==
  /\ less \in {"None", "Read"}
  /\ permission[n][l] # "None"
  /\ permission' = [permission EXCEPT ![n][l] = less]
  /\ UNCHANGED value

\* A write from outside the caches, or the loss of a discarded line's data,
\* changes a line that no cache holds.
Replace(l) ==
  /\ \A n \in Nodes : permission[n][l] = "None"
  /\ \E v \in Values : value' = [value EXCEPT ![l] = v]
  /\ UNCHANGED permission

CMNext ==
  \/ \E n \in Nodes, l \in Lines :
       \/ \E dropped \in SUBSET (Lines \ {l}) :
            AcquireRead(n, l, dropped) \/ AcquireWrite(n, l, dropped)
       \/ Store(n, l)
       \/ \E less \in {"None", "Read"} : Yield(n, l, less)
  \/ \E l \in Lines : Replace(l)

CMSpec == CMInit /\ [][CMNext]_cmVars

\* One writer and no reader beside it, or any number of readers.
CMSingleWriter ==
  \A l \in Lines, n, m \in Nodes :
    n # m /\ permission[n][l] = "Write" => permission[m][l] = "None"
=============================================================================
