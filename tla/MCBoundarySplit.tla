--------------------------- MODULE MCBoundarySplit ---------------------------
(* The splitter at its real widths, on requests chosen around the page edge. *)
EXTENDS BoundarySplit

\* Byte offsets in the page: its start, the first offset from which a
\* 256-beat burst crosses, the middle, and the last three beats.
MCOffsets == {0, 8, 2048, 2056, 2064, 4000, 4072, 4080, 4088}
MCLens    == {0, 1, 2, 11, 12, 127, 254, 255}
MCRequests == [addr : {p * 4096 + o : p \in {0, 463104}, o \in MCOffsets}, len : MCLens]

=============================================================================
