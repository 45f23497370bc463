------------------------------ MODULE UpdateFifo ------------------------------
(* update.v with user_update_fifo.v and row_col_ptr_gen_for_2unite.v: the
   partial sums of the maps so far are read from RAM, two pixels to a word,
   into a FIFO of sixteen words per channel, and are taken from it a pixel at
   a time by summation.v, which looks at no empty flag.  A word arrives five
   edges after its address was given, and is dropped when the FIFO is full; all
   that guards it is the programmable-full flag of channel 0.  The channels
   that are in use take the same steps, so the model has one.

   The two sides of the FIFO have one clock; of the Gray codes between them
   two registers of delay are left.

   Environment: the head (infor_update), the reader and maxpooling_finish.   *)
EXTENDS Integers, Sequences

CONSTANTS
  Sizes,         \* sizes of the maps
  StartLatency,  \* edges from infor_update to the first pixel that is taken
  MinGap         \* edges from maxpooling_finish to infor_update

ASSUME SizesAssumption == Sizes \subseteq 1..255
ASSUME LatencyAssumption == StartLatency \in Nat /\ StartLatency >= 6
ASSUME GapAssumption == MinGap \in Nat /\ MinGap >= 5

DEPTH == 16
NoWord == -1

VARIABLES
  size,          \* odd_rdimage_size
  fifo_clc, fifo_rd_period,
  finishR,       \* maxpooling_finish_r
  row, col,      \* rd_row_cnt, rd_col_cnt
  pipe,          \* deal_PostImage_rd_r, ..., deal_PostImage_rd_valid_channel:
                 \* the pixel the word starts with, or NoWord
  ram,           \* slot -> the pixel its word starts with
  wr_cnt,        \* 5 bits, in words
  rd_cnt,        \* 6 bits, in pixels
  rdR,           \* rdCnt_to_gray_r, _r1
  prog_full,
  round,         \* "off", "plain" (nothing to be added) or "sum"
  age,           \* edges since infor_update or maxpooling_finish, up to a bound
  written, taken \* history: words and pixels of this round

updateVars ==
  <<size, fifo_clc, fifo_rd_period, finishR, row, col, pipe, ram, wr_cnt, rd_cnt, rdR,
    prog_full, round, age, written, taken>>

UpdateInit ==
  /\ size \in Sizes /\ fifo_clc = FALSE /\ fifo_rd_period = FALSE /\ finishR = FALSE
  /\ row = 0 /\ col = 0 /\ pipe = [i \in 1..5 |-> NoWord]
  /\ ram = [s \in 0..DEPTH - 1 |-> NoWord]
  /\ wr_cnt = 0 /\ rd_cnt = 0 /\ rdR = <<0, 0>> /\ prog_full = FALSE
  /\ round = "off" /\ age = MinGap /\ written = 0 /\ taken = 0

-----------------------------------------------------------------------------
(* full: the pointers differ in their top bit only. *)
Full(w, r) == w \div 16 # r \div 32 /\ w % 16 = (r \div 2) % 16

\* Mutant: the margin does not count the read of the cycle the flag rises in.
ProgFullMutant(w, r) ==
  LET ahead == (w % 16) + 5
      behind == (r \div 2) % 16
  IN  IF w \div 16 # r \div 32 THEN ahead >= behind
                               ELSE ahead >= 16 /\ ahead % 16 >= behind

(* The next prog_full; wr_cnt_for_progFull has five bits. *)
ProgFull(w, r) ==
  LET ahead == (w % 16) + 6
      behind == (r \div 2) % 16
  IN  IF w \div 16 # r \div 32 THEN ahead >= behind
                               ELSE ahead >= 16 /\ ahead % 16 >= behind

deal_PostImage_rd == fifo_rd_period /\ ~prog_full
fifo_wr == pipe[5] # NoWord /\ ~Full(wr_cnt, rdR[2])

\* Mutant: an odd row is followed by column 0.
NextColMutant ==
  IF col + 2 >= size THEN 0 ELSE col + 2

(* The column of the next word: in a map of odd size a word takes the last
   pixel of one row and the first of the next.                               *)
NextCol ==
  IF \/ size % 2 = 0 /\ col = size - 2
     \/ size % 2 = 1 /\ col = size - 2
     \/ size % 2 = 1 /\ col = size - 1 /\ row = size - 1 THEN 0
  ELSE IF size % 2 = 1 /\ col = size - 1 THEN 1 ELSE col + 2

(* col_end *)
RowEnds == col = size - 2 \/ (size % 2 = 1 /\ col = size - 1)

NextRow == IF ~RowEnds THEN row ELSE IF row = size - 1 THEN 0 ELSE row + 1

Pointer ==
  /\ col' = IF finishR THEN 0 ELSE IF deal_PostImage_rd THEN NextCol ELSE col
  /\ row' = IF finishR THEN 0 ELSE IF deal_PostImage_rd THEN NextRow ELSE row

\* Mutant: what is in the FIFO outlives the round.
ClearMutant(infor_update) == FALSE

(* fifo_clc *)
Clear(infor_update) == finishR \/ (fifo_clc /\ ~infor_update)

Fifo(infor_update, read) ==
  /\ fifo_clc' = Clear(infor_update)
  /\ pipe' = [i \in 1..5 |-> IF i > 1 THEN pipe[i - 1]
                             ELSE IF deal_PostImage_rd THEN row * size + col ELSE NoWord]
  /\ ram' = IF fifo_wr THEN [ram EXCEPT ![wr_cnt % 16] = pipe[5]] ELSE ram
  /\ wr_cnt' = IF fifo_clc THEN 0 ELSE IF fifo_wr THEN (wr_cnt + 1) % 32 ELSE wr_cnt
  /\ rd_cnt' = IF fifo_clc THEN 0 ELSE IF read THEN (rd_cnt + 1) % 64 ELSE rd_cnt
  /\ rdR' = <<rd_cnt, rdR[1]>>
  /\ prog_full' = ProgFull(wr_cnt, rdR[2])
  /\ written' = IF fifo_clc THEN 0 ELSE IF fifo_wr THEN written + 1 ELSE written
  /\ taken' = IF fifo_clc THEN 0 ELSE IF read THEN taken + 1 ELSE taken

Older(bound) == IF age < bound THEN age + 1 ELSE age

(* A head is taken: the round begins. *)
Update(s, sum) ==
  /\ round = "off" /\ age = MinGap
  /\ size' = s /\ round' = (IF sum THEN "sum" ELSE "plain") /\ age' = 0
  /\ fifo_rd_period' = (fifo_rd_period \/ sum)
  /\ finishR' = FALSE
  /\ Pointer /\ Fifo(TRUE, FALSE)

(* The map is finished, all its pixels taken. *)
Finish ==
  /\ round = "plain" \/ (round = "sum" /\ taken = size * size)
  /\ round' = "off" /\ age' = 0
  /\ fifo_rd_period' = FALSE /\ finishR' = TRUE
  /\ Pointer /\ Fifo(FALSE, FALSE)
  /\ UNCHANGED size

(* Any other edge; a pixel is taken or not. *)
Run(read) ==
  /\ read => round = "sum" /\ age = StartLatency /\ taken < size * size
  /\ age' = Older(IF round = "off" THEN MinGap ELSE StartLatency)
  /\ finishR' = FALSE
  /\ Pointer /\ Fifo(FALSE, read)
  /\ UNCHANGED <<size, round, fifo_rd_period>>

UpdateNext ==
  \/ \E s \in Sizes, sum \in BOOLEAN : Update(s, sum)
  \/ Finish
  \/ \E read \in BOOLEAN : Run(read)

UpdateSpec == UpdateInit /\ [][UpdateNext]_updateVars

-----------------------------------------------------------------------------
TypeOK ==
  /\ size \in Sizes /\ fifo_clc \in BOOLEAN /\ fifo_rd_period \in BOOLEAN
  /\ finishR \in BOOLEAN /\ row \in Nat /\ col \in Int
  /\ pipe \in [1..5 -> Int] /\ ram \in [0..DEPTH - 1 -> Int]
  /\ wr_cnt \in 0..31 /\ rd_cnt \in 0..63 /\ rdR \in [1..2 -> 0..63]
  /\ prog_full \in BOOLEAN /\ round \in {"off", "plain", "sum"}
  /\ age \in Nat /\ written \in Nat /\ taken \in Nat

(* update.v drops a word for which there is no room, and nobody would notice:
   the words on their way when the flag rises always fit (update.v:165).     *)
NoWordDropped == pipe[5] # NoWord /\ ~fifo_clc => ~Full(wr_cnt, rdR[2])

(* summation.v gets the pixels of the map, in order and each once, from words
   of this round, though it never asks whether there is one.                 *)
PixelsInOrder ==
  [][taken' = taken + 1 =>
       /\ taken < 2 * written
       /\ ram[(rd_cnt \div 2) % 16] + (rd_cnt % 2) = taken]_updateVars
=============================================================================
