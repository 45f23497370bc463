-------------------------- MODULE MCImageWriteBuffer --------------------------
(* Maps of one word, of one word in each of two RAMs, of several RAMs of which
   the last is not full, and of all eight; shorter than the FIFO and longer.  *)
EXTENDS ImageWriteBuffer

MCMaps == {<<1>>, <<1, 2>>, <<3, 6, 8>>, <<12, 24, 31>>, [t \in 1..8 |-> 2 * t]}
=============================================================================
