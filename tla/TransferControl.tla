--------------------------- MODULE TransferControl ---------------------------
(* information_read_write.v on the AXI clock: the state machine that decides
   which operation goes to DDR next, the synchronisers it listens through and
   the bank of DDR each layer reads from and writes to.  Clk is one edge of
   that clock with all these registers; its parameters are the signals that
   come from outside, sampled at the edge.  BurstTransfer has what happens
   inside one operation; here an operation is its last finish.               *)
EXTENDS Naturals, Sequences

(* The counters of the three waiting states (2'b11, 4'hF, 8'hF). *)
HeadWait == 3
JudgeWait == 15
EndWait == 15

Ctls == {"idle", "ready", "head_rd", "iterate_head_wait", "iterate_head",
         "iterate_judge_wait", "iterate_judge", "image_rd", "kernel_rd",
         "kernel_judge", "image_wr", "end", "wait"}

VARIABLES
  ctl,        \* inf_write_read_control
  waitCnt,    \* wait_cnt, iterate_head_wait_cnt, iterate_judge_wait_cnt: at most
              \* one of them is not 0
  beginTemp,  \* image_begin_temp, _temp1, _temp2
  beginFlag,  \* image_begin_flag
  reqR,       \* maxpooling_finish_req_r, _r1, _r2, _r3
  ack,        \* maxpooling_finish_ack
  headNeedR,  \* head_rd_need_r
  algReqR,    \* algorithm_finish_req_r, _r1
  algAck,     \* algorithm_finish_ack
  layerR,     \* one_layer_finish_r, _r1
  base,       \* image_base_rd_addr, image_base_wr_addr: which bank
  addr,       \* image_rd_addr, image_wr_addr_temp: which bank
  wrNeedR,    \* image_wr_need_r
  posR,       \* image_begin_pos_r
  wrFinish    \* image_wr_finish

vars == <<ctl, waitCnt, beginTemp, beginFlag, reqR, ack, headNeedR, algReqR,
          algAck, layerR, base, addr, wrNeedR, posR, wrFinish>>

Init ==
  /\ ctl = "idle" /\ waitCnt = 0
  /\ beginTemp = <<FALSE, FALSE, FALSE>> /\ beginFlag = FALSE
  /\ reqR = <<FALSE, FALSE, FALSE, FALSE>> /\ ack = FALSE /\ headNeedR = FALSE
  /\ algReqR = <<FALSE, FALSE>> /\ algAck = FALSE
  /\ layerR = <<FALSE, FALSE>>
  /\ base = [rd |-> 1, wr |-> 2] /\ addr = [rd |-> 1, wr |-> 2]
  /\ wrNeedR = FALSE /\ posR = FALSE /\ wrFinish = FALSE

-----------------------------------------------------------------------------
(* A chain of registers takes in a value at one end. *)
Shift(chain, v) ==
  [i \in 1..Len(chain) |-> IF i = 1 THEN v ELSE chain[i - 1]]

(* image_begin_pos *)
BeginPos == beginTemp[2] /\ ~beginTemp[3]

DataStates == {"image_wr", "head_rd", "image_rd", "kernel_rd"}

\* Mutant: the request is looked at one register early.
HeadGoesEarly == headNeedR /\ reqR[3]

(* What a head read waits for: the FIFO is empty and a round is over. *)
HeadGoes == headNeedR /\ reqR[4]

\* Mutant: inf_write_read_wait is left at once.
WaitOverMutant(n) == TRUE

WaitOver(n) == waitCnt = n

(* The case statement on inf_write_read_control. `done` is the last finish of
   the operation in hand, `imageRd` image_rd_en && image_rd_need.            *)
CtlNext(wrNeed, done, imageRd, kernelNoRd) ==
  CASE ctl = "idle"  -> IF beginFlag THEN "ready" ELSE ctl
    [] ctl = "ready" -> IF wrNeed THEN "image_wr" ELSE IF HeadGoes THEN "head_rd" ELSE ctl
    [] ctl = "image_wr" -> IF done THEN "end" ELSE ctl
    [] ctl = "head_rd"  -> IF done THEN "iterate_head_wait" ELSE ctl
    [] ctl = "iterate_head_wait" -> IF waitCnt = HeadWait THEN "iterate_head" ELSE ctl
    [] ctl = "iterate_head" -> "iterate_judge_wait"
    [] ctl = "iterate_judge_wait" -> IF waitCnt = JudgeWait THEN "iterate_judge" ELSE ctl
    [] ctl = "iterate_judge" -> IF imageRd THEN "image_rd"
                                ELSE IF kernelNoRd THEN "end" ELSE "kernel_rd"
    [] ctl = "image_rd"  -> IF done THEN "kernel_rd" ELSE ctl
    [] ctl = "kernel_rd" -> IF done THEN "kernel_judge" ELSE ctl
    [] ctl = "kernel_judge" -> "end"
    [] ctl = "end"  -> "wait"
    [] ctl = "wait" -> IF WaitOver(EndWait) THEN "idle" ELSE ctl

\* Mutant: the counter of one wait is where the next one starts.
WaitCntMutant(ctlNext) ==
  IF ctl \in {"iterate_head_wait", "iterate_judge_wait", "wait"}
    THEN waitCnt + 1 ELSE waitCnt

WaitCntNext(ctlNext) ==
  IF ctl = ctlNext /\ ctl \in {"iterate_head_wait", "iterate_judge_wait", "wait"}
    THEN waitCnt + 1 ELSE 0

(* image_begin_flag: set by the level, cleared by the end of the algorithm. *)
BeginFlagNext == beginTemp[2] \/ (beginFlag /\ ~algReqR[2])

(* maxpooling_finish_ack: raised in ready, whatever image_wr_need is. *)
AckNext == ctl = "ready" /\ HeadGoes

(* image_base_rd_addr ^ IMAGE_BASE_ADDR1 ^ IMAGE_BASE_ADDR2: the other bank. *)
BaseNext ==
  IF BeginPos THEN [rd |-> 1, wr |-> 2]
  ELSE IF layerR[1] THEN [rd |-> 3 - base.rd, wr |-> 3 - base.wr] ELSE base

(* image_rd_addr, image_wr_addr_temp, as far as their bank goes. *)
AddrNext(wrNeed) ==
  [rd |-> IF BeginPos THEN 1
          ELSE IF (wrNeed /\ ~wrNeedR) \/ layerR[2] THEN base.rd ELSE addr.rd,
   wr |-> IF posR \/ layerR[2] THEN base.wr ELSE addr.wr]

Clk(begin, req, headEmpty, wrNeed, algReq, oneLayer, done, imageRd, kernelNoRd) ==
  LET next == CtlNext(wrNeed, done, imageRd, kernelNoRd)
  IN  /\ ctl' = next
      /\ waitCnt' = WaitCntNext(next)
      /\ beginTemp' = Shift(beginTemp, begin)
      /\ beginFlag' = BeginFlagNext
      /\ reqR' = Shift(reqR, req)
      /\ ack' = AckNext
      /\ headNeedR' = headEmpty
      /\ algReqR' = Shift(algReqR, algReq)
      /\ algAck' = algReqR[2]
      /\ layerR' = Shift(layerR, oneLayer)
      /\ base' = BaseNext
      /\ addr' = AddrNext(wrNeed)
      /\ wrNeedR' = wrNeed
      /\ posR' = BeginPos
      /\ wrFinish' = (ctl = "image_wr" /\ done)

TypeOK ==
  /\ ctl \in Ctls /\ waitCnt \in 0..15
  /\ beginTemp \in [1..3 -> BOOLEAN] /\ beginFlag \in BOOLEAN
  /\ reqR \in [1..4 -> BOOLEAN] /\ ack \in BOOLEAN /\ headNeedR \in BOOLEAN
  /\ algReqR \in [1..2 -> BOOLEAN] /\ algAck \in BOOLEAN
  /\ layerR \in [1..2 -> BOOLEAN]
  /\ base \in [{"rd", "wr"} -> 1..2] /\ addr \in [{"rd", "wr"} -> 1..2]
  /\ wrNeedR \in BOOLEAN /\ posR \in BOOLEAN /\ wrFinish \in BOOLEAN
=============================================================================
