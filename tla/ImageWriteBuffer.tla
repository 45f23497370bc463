--------------------------- MODULE ImageWriteBuffer ---------------------------
(* image_write_buffer_control.v and axi_read_image_cnt.v: a finished map lies in
   up to eight RAMs, and a FIFO between the clocks is filled from them ahead of
   the AXI master.  Nothing tells the prefetch how long the map is, or the FIFO
   where it ends.  The prefetch goes from RAM to RAM by the words that were
   counted into each, and past the last one until image_rd_finish stops it; by
   then it has filled the FIFO with words that are of no map, and those still
   on their way from the RAMs must find the FIFO in reset.

   deal_clk and axi_clk take their edges as in RoundLoop, five to four.  A word
   is its place in the map.

   Environment: the rounds of the network, of which the last of a map fills the
   RAMs (update.v; image_ram_multi_addr.v puts the words of a map at
   consecutive addresses), and the AXI master: it asks for the prefetch with
   every burst, takes a word when it likes, and is finished some edges after
   the last.                                                                 *)
EXTENDS Integers, Sequences

CONSTANTS
  Maps,       \* maps in the RAMs: m[t] words lie in the first t of them
  RamWords,   \* words of a RAM, 4096
  ProgFull,   \* 240
  Depth,      \* 256
  Gap         \* axi_clk edges from image_rd_finish to the next map's first word

Start(m, t) == IF t = 0 THEN 0 ELSE m[t]         \* the first word of RAM t
Size(m, t) == m[t + 1] - Start(m, t)             \* the words in it

ASSUME MapsAssumption ==
  /\ RamWords \in Nat \ {0}
  /\ \A m \in Maps : /\ m \in Seq(Nat) /\ Len(m) \in 1..8
                      /\ \A t \in 0..Len(m) - 1 : Size(m, t) \in 1..RamWords
(* Words in flight when prog_full rises; edges in which a full FIFO may be
   emptied before words come again.                                          *)
ASSUME FifoAssumption == /\ ProgFull \in Nat /\ ProgFull >= 9
                         /\ Depth \in Nat /\ Depth >= ProgFull + 4
(* information_read_write.v reads a head only after end and 16 edges of wait. *)
ASSUME GapAssumption == Gap \in Nat /\ Gap >= 18

VARIABLES
  \* axi_clk
  image_fifo_pre_read,
  rst_cnt, rst,   \* image_prerd_toaxi_fifo_rst_cnt, image_prerd_toaxi_fifo_rst
  finish,         \* image_rd_finish
  rd, wrSeen,     \* the FIFO's read pointer, and its synchroniser of the other
  \* deal_clk
  preR, finishR,  \* image_fifo_pre_read_reg1, _reg2; image_rd_finish_r1, _r2
  high, low,      \* result_high, result_low: ram_channel_no, axi_rd_ram_addr
  ramdata_cnt,
  pipe,           \* fifo_wr_temp1, fifo_wr_temp2, fifo_wr, and their words
  stored, rdSeen, \* what was written since the reset; synchroniser
  prog_full,
  \* outside
  phase,          \* which edges come next
  map,            \* the map in the RAMs, or <<>>
  gap,            \* edges since image_rd_finish, up to Gap
  begun           \* history: the master has seen a word of this map

axi == <<image_fifo_pre_read, rst_cnt, rst, finish, rd, wrSeen, gap, begun>>
deal == <<preR, finishR, high, low, ramdata_cnt, pipe, stored, rdSeen, prog_full>>
vars == <<axi, deal, phase, map>>

Rams == 0..7
NoWord == -1
Garbage == -2                                    \* a word of no map
Total == map[Len(map)]

Init ==
  /\ image_fifo_pre_read = FALSE /\ rst_cnt = 0 /\ rst = FALSE /\ finish = FALSE
  /\ rd = 0 /\ wrSeen = <<0, 0>>
  /\ preR = <<FALSE, FALSE>> /\ finishR = <<FALSE, FALSE>> /\ high = 0 /\ low = 0
  /\ ramdata_cnt = [t \in Rams |-> 0] /\ pipe = <<NoWord, NoWord, NoWord>>
  /\ stored = <<>> /\ rdSeen = <<0, 0>> /\ prog_full = FALSE
  /\ phase = 0 /\ map = <<>> /\ gap = Gap /\ begun = FALSE

-----------------------------------------------------------------------------
\* Mutant: one word in flight at a time.
EnMutant == preR[2] /\ ~prog_full /\ pipe[1] = NoWord

(* en of axi_read_image_cnt.v. *)
En == preR[2] /\ ~prog_full

(* What is in RAM t at address a. *)
WordAt(t, a) ==
  IF t < Len(map) /\ a < Size(map, t) THEN Start(map, t) + a ELSE Garbage

(* axi_read_image_cnt.v; a count of 0 is matched by no address. *)
Counters ==
  LET clc == finishR[2]
      clc_low == En /\ high \in Rams /\ low = ramdata_cnt[high] - 1
  IN  /\ low' = IF clc \/ clc_low THEN 0 ELSE IF En THEN (low + 1) % RamWords ELSE low
      /\ high' = IF clc THEN 0
                 ELSE IF En /\ (clc_low \/ low = RamWords - 1) THEN (high + 1) % 16 ELSE high

(* ramdata_cnt: cleared with the counters, else the words of the last round. *)
Count(new) ==
  ramdata_cnt' = [t \in Rams |->
                    IF finishR[2] THEN 0
                    ELSE ramdata_cnt[t] + (IF t < Len(new) THEN Size(new, t) ELSE 0)]

(* The writer's half of the FIFO. *)
FifoWrite ==
  LET used == Len(stored) - rdSeen[2]
  IN  /\ stored' = IF rst THEN <<>>
                   ELSE IF pipe[3] # NoWord /\ used < Depth THEN Append(stored, pipe[3]) ELSE stored
      /\ rdSeen' = IF rst THEN <<0, 0>> ELSE <<rd, rdSeen[1]>>
      /\ prog_full' = (~rst /\ (used >= ProgFull \/ (prog_full /\ used = ProgFull - 1)))

(* An edge of deal_clk, with a new map in the RAMs or with none. *)
DealEdge(new) ==
  /\ new # <<>> => map = <<>> /\ gap = Gap
  /\ map' = IF new # <<>> THEN new ELSE IF finishR[2] THEN <<>> ELSE map
  /\ preR' = <<image_fifo_pre_read, preR[1]>>
  /\ finishR' = <<finish, finishR[1]>>
  /\ pipe' = <<IF En /\ high \in Rams THEN WordAt(high, low) ELSE NoWord, pipe[1], pipe[2]>>
  /\ Counters /\ Count(new) /\ FifoWrite

\* Mutant: the FIFO is reset for a single edge.
ResetShort == rst_cnt' = (IF finish THEN 1 ELSE 0) /\ rst' = (rst_cnt # 0)

(* The FIFO is in reset for seven edges. *)
Reset ==
  /\ rst_cnt' = IF finish \/ rst_cnt # 0 THEN (rst_cnt + 1) % 8 ELSE 0
  /\ rst' = (rst_cnt # 0)

empty == rd = wrSeen[2]                          \* image_rd_empty
writing == map # <<>> /\ gap = Gap               \* until the finish of this map

(* An edge of axi_clk.  pre: image_rd_pre; req: image_rd_req; last: the master
   is finished.                                                              *)
AxiEdge(pre, req, last) ==
  /\ pre => writing /\ rd < Total
  /\ req => writing /\ rd < Total /\ ~empty
  /\ last => writing /\ rd = Total /\ ~finish
  /\ finish' = last
  /\ image_fifo_pre_read' = (~finish /\ (pre \/ image_fifo_pre_read))
  /\ Reset
  /\ rd' = IF rst THEN 0 ELSE IF req THEN rd + 1 ELSE rd
  /\ wrSeen' = IF rst THEN <<0, 0>> ELSE <<Len(stored), wrSeen[1]>>
  /\ gap' = IF last THEN 0 ELSE IF gap < Gap THEN gap + 1 ELSE gap
  /\ begun' = (~last /\ (begun \/ (writing /\ wrSeen[1] > 0)))

(* Edges in periods of 20, as in RoundLoop. *)
Both(pre, req, last, new) ==
  /\ phase = 0 /\ phase' = 1
  /\ AxiEdge(pre, req, last) /\ DealEdge(new)

Axi(pre, req, last) ==
  /\ phase \in {2, 4, 6} /\ phase' = phase + 1
  /\ AxiEdge(pre, req, last) /\ UNCHANGED <<deal, map>>

Deal(new) ==
  /\ phase \in {1, 3, 5, 7} /\ phase' = (phase + 1) % 8
  /\ DealEdge(new) /\ UNCHANGED axi

Next == \E pre, req, last \in BOOLEAN :
          \/ \E new \in Maps \cup {<<>>} : Both(pre, req, last, new) \/ Deal(new)
          \/ Axi(pre, req, last)

Spec == Init /\ [][Next]_vars

-----------------------------------------------------------------------------
(* As far as the map goes, the FIFO has received its words, in order, and
   nothing else since it was reset: what the AXI master writes is the map, for
   one map after another, however long the prefetch ran past the end.        *)
MapInOrder ==
  writing =>
    \A k \in DOMAIN stored : k <= Total => stored[k] = k - 1

(* What AxiMaster assumes of its producer: once a word is there, the FIFO is not
   empty at any edge until the last word of the map is taken.                *)
NeverDry == begun /\ rd < Total => ~empty
=============================================================================
