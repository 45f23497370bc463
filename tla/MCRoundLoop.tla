----------------------------- MODULE MCRoundLoop -----------------------------
(* Two layers of one and two maps, two rounds a map. *)
EXTENDS RoundLoop

MCReturns == [l \in 1..NLayers |-> l]
=============================================================================
