-------------------------- MODULE MCProcessControl --------------------------
(* Four layers that send back one, two, three and four maps. *)
EXTENDS ProcessControl

MCReturns == [l \in Layers |-> l]
=============================================================================
