----------------------------- MODULE MCUpdateFifo -----------------------------
(* Maps below and above the depth of the FIFO, and beyond the wrap of its
   counters, of even and odd sizes.                                          *)
EXTENDS UpdateFifo

MCSizes == {2, 3, 6, 9}
=============================================================================
