--------------------------- MODULE MCEventStream ----------------------------
(* An instance of EventStream for TLC: a source, a transfer and the stall   *)
(* site that observes it.                                                   *)
EXTENDS EventStream

MCSites == {0, 1, 2}
MCRefs  == {<<0, 0>>, <<0, 1>>, <<1, 0>>, <<2, 0>>, <<2, 1>>, <<2, 2>>}
MCCycles == 0 .. 3
MCPayloadWidth == (0 :> 0) @@ (1 :> 0) @@ (2 :> 1)
MCDependencies == {<<0, 1>>, <<0, 2>>, <<1, 0>>}
MCObservationOf == (2 :> 1)
MCEdges == {e \in MCRefs \X MCRefs : <<e[1][1], e[2][1]>> \in MCDependencies}
=============================================================================
