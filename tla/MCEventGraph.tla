---------------------------- MODULE MCEventGraph ----------------------------
(* An instance of EventGraph for TLC: two occurrences of a source site, one *)
(* of a consumer with a payload, and edges in both directions of which the  *)
(* manifest permits one.                                                    *)
EXTENDS EventGraph, TLC

MCSites  == {0, 1}
MCRefs   == {<<0, 0>>, <<0, 1>>, <<1, 0>>}
MCCycles == 0 .. 2
MCPayloadWidth == (0 :> 0) @@ (1 :> 1)
MCDependencies == {<<0, 1>>}
MCEdges == {<<<<0, 0>>, <<1, 0>>>>, <<<<0, 1>>, <<1, 0>>>>, <<<<1, 0>>, <<0, 1>>>>}
=============================================================================
