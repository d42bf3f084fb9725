------------------------------ MODULE EventLog ------------------------------
(***************************************************************************)
(* What a consumer of an event stream is promised: a log that only grows.  *)
(* Every append adds complete occurrences of cycles later than everything  *)
(* in the log, with all the edges that will ever lead to them, and every   *)
(* parent is in the log by then.                                           *)
(***************************************************************************)
EXTENDS EventSchema

VARIABLES open,       \* a stream is running
          log,        \* the occurrences delivered, NoNode elsewhere
          logEdges,   \* the parent/child pairs delivered
          watermark   \* the last cycle delivered, NoCycle before the first

logVars == <<open, log, logEdges, watermark>>

Logged(l) == {r \in Refs : l[r] # NoNode}

EmptyLog == [r \in Refs |-> NoNode]

Init ==
  /\ open = FALSE
  /\ log = EmptyLog /\ logEdges = {} /\ watermark = NoCycle

Open ==
  /\ ~ open /\ open' = TRUE
  /\ UNCHANGED <<log, logEdges, watermark>>

Append(cycle) ==
  /\ open /\ cycle > watermark
  /\ watermark' = cycle
  /\ log' \in [Refs -> Node]
  /\ \A r \in Logged(log) : log'[r] = log[r]
  /\ \A r \in Logged(log') \ Logged(log) :
       /\ ValidNode(r, log'[r])
       /\ log'[r].cycle \in (watermark + 1) .. cycle
  /\ logEdges \subseteq logEdges'
  /\ \A e \in logEdges' \ logEdges :
       /\ e[1] \in Logged(log') /\ e[2] \in Logged(log') \ Logged(log)
       /\ ValidEdge(e, log')
  /\ UNCHANGED open

\* The log of a closed stream belongs to its consumer.
Close ==
  /\ open /\ open' = FALSE
  /\ log' = EmptyLog /\ logEdges' = {} /\ watermark' = NoCycle

Next == Open \/ (\E cycle \in Cycles : Append(cycle)) \/ Close

Spec == Init /\ [][Next]_logVars
=============================================================================
