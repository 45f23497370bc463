----------------------------- MODULE MCFirmware -----------------------------
(* Three files, buffers of 3 and 4 words, sizes around and far above them.   *)
EXTENDS Firmware

MCBufferWords == <<3, 4, 3>>

(* The table of the boot loader's package, the only one in the repository. *)
MCBootLoaderTable == {0}

(* A table that has a device of the id asked for. *)
MCAnsweringTable == {0, IntrId}
=============================================================================
