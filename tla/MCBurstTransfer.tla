--------------------------- MODULE MCBurstTransfer ---------------------------
(* Word counts on both sides of one and two bursts. *)
EXTENDS BurstTransfer

MCTotals == {255, 256, 257, 512, 513}
MCStreams == {"image_wr", "image_rd", "kernel_rd"}
=============================================================================
