--------------------------- MODULE MCTransferTiming ---------------------------
(* Operations of a full burst, of a burst and two words more, and of two bursts
   and a word.                                                               *)
EXTENDS TransferTiming

MCOperands == {<<1, 512>>, <<3, 172>>, <<3, 342>>}
=============================================================================
