----------------------------- MODULE KernelFifos -----------------------------
(* The way of the kernels: the words of a kernel read, counted out by
   multiplier_3x.v, are dealt to eight FIFOs by wfifo_location_cal.v and
   kernel_buffer_control.v on axi_clk, and load_kernel.v takes them out, all
   eight at a time, on deal_clk.  The FIFOs carry no mark of a kernel or of a
   head: what a round convolves with is right only if both ends count alike,
   and neither end is reset between the heads of a network.

   A word is its place in the kernel area of the DDR, where the kernels of the
   heads follow one another without gaps (sim_1/behav/kernel.dat).  Moves:
   WordService; when a round is loaded: RoundLoop.                           *)
EXTENDS Integers, Sequences, SequencesExt

CONSTANTS
  Heads,     \* [filters, kernels, size]: what a head may say
  MaxHeads   \* heads of a network

Channels == 0..7                             \* PARALLEL_NUM
Zero == -1                                   \* a word of padding

(* kernel_wr_size_8bytes, kernel_rd_num_record: words of a kernel. *)
PerKernel(h) == IF h.size = 1 THEN 2 ELSE 6
(* cnti_threshold * cntj_threshold in 4 bits: the kernels of one round. *)
PerRound(h) == (h.filters * h.kernels) % 16

ASSUME HeadsAssumption ==
  /\ MaxHeads \in Nat
  /\ \A h \in Heads : /\ h.filters \in 0..255 /\ h.kernels \in 1..31 /\ h.size \in {1, 3}
                      /\ h.filters # 0 => PerRound(h) \in 1..8

VARIABLES
  ctl, head, left, pos,          \* information_read_write.v in a kernel read
  cntij_threshold, cnt_ij, cnt_k, location_cnt,
  fifo,
  rd_kernel_state, kernel_cnt, rd_r, dout, temp,  \* load_kernel.v; temp: kernel_bias_div_temp
  fin,                           \* load_kernel_finish_r, _r1
  kernel_valid, kernel_q,
  batch,                         \* rounds that kernels were read for
  pending,                       \* a round whose kernels are still to be loaded
  heads, due, per                \* history: heads so far; next round's first word, and kernels

axi == <<ctl, head, left, pos, cntij_threshold, cnt_ij, cnt_k, location_cnt, batch, heads>>
deal == <<rd_kernel_state, kernel_cnt, rd_r, dout, temp, fin, kernel_valid, kernel_q, due>>
vars == <<axi, fifo, deal, pending, per>>

Init ==
  /\ ctl = "ready" /\ head = [filters |-> 0, kernels |-> 0, size |-> 0]
  /\ left = 0 /\ pos = 0
  /\ cntij_threshold = 0 /\ cnt_ij = 0 /\ cnt_k = 0 /\ location_cnt = 0
  /\ fifo = [i \in Channels |-> <<>>]
  /\ rd_kernel_state = "idle" /\ kernel_cnt = 0 /\ rd_r = FALSE
  /\ dout = [i \in Channels |-> Zero] /\ temp = [i \in Channels |-> [j \in 1..6 |-> Zero]]
  /\ fin = <<FALSE, FALSE>> /\ kernel_valid = FALSE /\ kernel_q = [i \in Channels |-> <<>>]
  /\ batch = 0 /\ pending = FALSE /\ heads = 0 /\ due = 0 /\ per = 0

-----------------------------------------------------------------------------
(* The operands of the kernels in multiplier_3x.v: kernels and 32-bit words of a
   kernel; an odd operand_b gets one more, meant for the pixels of an image.  *)
Words(h) ==
  LET size4 == IF h.size = 1 THEN 4 ELSE 12
      operand_bc == h.kernels * size4 + (h.kernels % 2)
  IN  ((h.filters * operand_bc) % 65536) \div 2

\* Mutants: no padding; padding with the first kernel already.
InvalidNone(i) == FALSE
InvalidLoose(i) == cntij_threshold < i + 1

(* wfifo_location_cal.v: the FIFO whose turn it is, and on the last kernel of a
   round all that have no kernel.                                            *)
Valid(i) == location_cnt = i
Invalid(i) == cntij_threshold < i + 1 /\ cnt_ij = (cntij_threshold - 1) % 16

Threshold == cntij_threshold' = PerRound(head)

(* The next head: the round before it is over, and a head that brings no kernels
   (kernel_no_rd) uses what an earlier one brought.                          *)
Iterate(h) ==
  /\ ctl = "ready" /\ heads < MaxHeads
  /\ ~pending /\ rd_kernel_state = "idle" /\ fin = <<FALSE, FALSE>> /\ ~kernel_valid
  /\ (h.filters = 0) = (batch > 0)
  /\ ctl' = "judge" /\ head' = h /\ Threshold
  /\ pending' = TRUE /\ heads' = heads + 1
  /\ batch' = IF h.filters = 0 THEN batch - 1 ELSE (h.filters * h.kernels - 1) \div 8
  /\ per' = IF h.filters = 0 THEN per ELSE PerRound(h)
  /\ UNCHANGED <<left, pos, cnt_ij, cnt_k, location_cnt, fifo, deal>>

(* iterate_judge, many edges later. *)
Judge ==
  /\ ctl = "judge" /\ Threshold
  /\ IF head.filters = 0 THEN ctl' = "ready" /\ UNCHANGED left
                         ELSE ctl' = "kernel_rd" /\ left' = Words(head)
  /\ UNCHANGED <<head, pos, cnt_ij, cnt_k, location_cnt, fifo, batch, heads, deal, pending, per>>

(* kernel_wr_req: a word of the DDR is written to its FIFO, zeros to the others. *)
Word ==
  /\ ctl = "kernel_rd" /\ Threshold
  /\ fifo' = [i \in Channels |->
                CASE Valid(i) -> Append(fifo[i], pos)
                  [] ~Valid(i) /\ Invalid(i) -> Append(fifo[i], Zero)
                  [] OTHER -> fifo[i]]
  /\ LET endK == cnt_k = PerKernel(head) - 1
         endIJ == cnt_ij = (cntij_threshold - 1) % 16
     IN  /\ cnt_k' = IF endK THEN 0 ELSE (cnt_k + 1) % 16
         /\ cnt_ij' = IF ~endK THEN cnt_ij ELSE IF endIJ THEN 0 ELSE (cnt_ij + 1) % 16
         /\ location_cnt' = IF ~endK THEN location_cnt
                            ELSE IF endIJ THEN 0 ELSE (location_cnt + 1) % 16
  /\ pos' = pos + 1 /\ left' = left - 1
  /\ ctl' = IF left = 1 THEN "ready" ELSE ctl
  /\ UNCHANGED <<head, batch, heads, deal, pending, per>>

(* An edge of deal_clk.  begin: load_kernel_begin rises. *)
Load(begin) ==
  LET empty == \E i \in Channels : fifo[i] = <<>>        \* load_kernel_empty
      rd == rd_kernel_state = "read" /\ ~empty           \* buffer_kernel_rd
      last == kernel_cnt = PerKernel(head) - 1
  IN  /\ begin => pending /\ rd_kernel_state = "idle"
      /\ pending' = (pending /\ ~begin)
      /\ rd_kernel_state' = CASE rd_kernel_state = "idle" -> IF begin THEN "read" ELSE "idle"
                              [] rd_kernel_state = "read" -> IF rd /\ last THEN "end" ELSE "read"
                              [] rd_kernel_state = "end"  -> "idle"
      /\ kernel_cnt' = IF rd /\ ~last THEN kernel_cnt + 1 ELSE IF rd THEN 0 ELSE kernel_cnt
      /\ fifo' = IF rd THEN [i \in Channels |-> Tail(fifo[i])] ELSE fifo
      /\ dout' = IF rd THEN [i \in Channels |-> Head(fifo[i])] ELSE dout
      /\ rd_r' = rd
      /\ temp' = IF rd_r THEN [i \in Channels |-> <<dout[i]>> \o Front(temp[i])] ELSE temp
      /\ fin' = <<rd_kernel_state = "end", fin[1]>>
      /\ kernel_valid' = fin[2]
      /\ kernel_q' = IF fin[2] THEN [i \in Channels |-> Reverse(SubSeq(temp[i], 1, PerKernel(head)))]
                               ELSE kernel_q
      /\ due' = IF kernel_valid THEN due + per * PerKernel(head) ELSE due
      /\ UNCHANGED <<axi, per>>

Next == \/ \E h \in Heads : Iterate(h)
        \/ Judge
        \/ Word
        \/ \E begin \in BOOLEAN : Load(begin)

Spec == Init /\ [][Next]_vars

(* The clocks run, the words asked for come, and process_control goes to load
   the kernels of every head (Answered, RoundLoop).                          *)
FairSpec ==
  /\ Spec /\ WF_vars(Judge) /\ WF_vars(Word)
  /\ WF_vars(Load(FALSE)) /\ WF_vars(Load(TRUE))

-----------------------------------------------------------------------------
(* Heads whose kernels both ends count alike: the rounds they are for, and the
   words they have.  Nothing in the code makes a head keep to it.            *)
CountsAgree(hs) ==
  /\ \A h \in hs : h.filters # 0 =>
       /\ h.filters * h.kernels = PerRound(h) * (1 + (h.filters * h.kernels - 1) \div 8)
       /\ Words(h) = h.filters * h.kernels * PerKernel(h)
  /\ \A g, h \in hs : g.filters * g.kernels > 8 /\ h.filters = 0 => h.size = g.size

(* What a round has in kernel_q when kernel_valid says so: for every channel the
   words of its own kernel, in order, and zeros for a channel without one.   *)
RoundGetsItsKernels ==
  kernel_valid =>
    \A i \in Channels :
      kernel_q[i] = [j \in 1..PerKernel(head) |->
                       IF i < per THEN due + i * PerKernel(head) + j - 1 ELSE Zero]

(* load_kernel.v waits until none of the eight FIFOs is empty, and interrupt.v
   for its finish, without a timeout: no head leaves a FIFO without its words,
   however few kernels it has.                                               *)
Loaded == pending ~> kernel_valid
=============================================================================
