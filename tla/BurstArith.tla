------------------------------ MODULE BurstArith ------------------------------
(* The arithmetic of information_read_write.v on word counts: how an operation
   is cut into bursts (sub_com.v) and how many finishes end it
   (wr_rd_finish_cnt_threshhold.v).                                          *)
EXTENDS Integers

MaxBurst == 256

\* Mutants of the threshold: without the correction for a multiple of 256, and
\* rounding down always.
ThresholdMutant(n) == (n \div MaxBurst) % 256
ThresholdDown(n) == ((n \div MaxBurst) - 1) % 256

(* len[15:8], less one when len[7:0] = 0; 8 bits. *)
Threshold(n) ==
  IF n % MaxBurst # 0 THEN (n \div MaxBurst) % 256
                      ELSE ((n \div MaxBurst) - 1) % 256

(* sub_com: greater ? MAX_BURST_LENGTH : sub_A *)
Cut(n) == IF n > MaxBurst THEN MaxBurst ELSE n
Rest(n) == IF n > MaxBurst THEN n - MaxBurst ELSE n

(* burst_len = sub_result - 1, 8 bits. *)
Len(n) == (n - 1) % 256
=============================================================================
