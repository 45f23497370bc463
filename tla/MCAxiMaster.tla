----------------------------- MODULE MCAxiMaster -----------------------------
(* Bursts of one, two and four beats; a FIFO small enough to fill and drain. *)
EXTENDS AxiMaster

MCLens == {0, 1, 3}
=============================================================================
