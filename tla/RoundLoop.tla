------------------------------ MODULE RoundLoop ------------------------------
(* The accelerator at work on an image: TransferControl on the AXI clock and
   ProcessControl on deal_clk, joined by the synchronisers and four-phase
   handshakes of information_read_write.v, interrupt.v, head_bufer_control.v,
   image_write_buffer_control.v and image_read_buffer_control.v.  Nobody owns a
   round.  The compute side says only that a map is finished; from that one
   pulse the transfer side concludes that a result must be written out and the
   next head read, in this order; the end of the network reaches it as a third
   signal.  That they arrive in the right order is a matter of register counts,
   and is checked here edge by edge.

   deal_clk (333.33 MHz) and axi_clk (266.66 MHz) come from one PLL: five
   edges of the first for four of the second, aligned.  slow_clk has the
   frequency and phase of axi_clk.                                           *)
EXTENDS ProcessControl, Sequences

CONSTANTS
  RoundsPerMap,   \* heads that make up one map, the last with image_return_axi
  KernelBatch,    \* rounds whose kernels one kernel read may bring
  HeadLatency,    \* axi_clk edges DDR may take for a head
  StartCycles     \* axi_clk edges the start pulse of the PS lasts, and pauses

ASSUME RoundsAssumption ==
  /\ RoundsPerMap \in Nat \ {0} /\ KernelBatch \in 1..3
  /\ HeadLatency \in Nat /\ StartCycles \in Nat \ {0}

(* What load_head_waitAddZero relies on: its HeadDelay edges of deal_clk are
   longer than a head may take from its request, and than the start pulse of
   the PS, which is not a short one.  In units of 0.75 ns, as below.         *)
ASSUME TimingAssumption ==
  /\ StartCycles >= 10
  /\ 4 * HeadDelay >= 5 * HeadLatency + 142
  /\ 4 * HeadDelay >= 5 * StartCycles + 20

VARIABLES
  \* TransferControl, axi_clk
  ctl, waitCnt, beginTemp, beginFlag, reqR, ack, headNeedR, algReqR, algAck,
  layerR, base, addr, wrNeedR, posR, wrFinish,
  \* more of axi_clk and slow_clk
  wrNeedPipe,  \* image_wr_need_temp1, image_wr_need_temp2, image_wr_need
  retFlag,     \* image_one_return_finish_flag
  retReadyR,   \* image_one_return_finish_ready_r, _r1
  beginSlow,   \* image_begin_inter_r of interrupt.v
  finishSlow,  \* image_finish_inter_in_slow_clk_domain, _r, image_finish_inter
  rdFinish,    \* image_rd_finish
  inforAxi,    \* infor_update_in_clk_domain, _r
  updateAxi,   \* image_rd_update_in_clk_domain, _r
  imageReady,  \* image_rd_ready
  imageNeed,   \* image_rd_need
  headImage,   \* the last head read asks for an image: image_en of iterate_head.v
  \* more of deal_clk
  req,         \* maxpooling_finish_req
  ackR,        \* maxpooling_finish_ack_r, _r1
  algReq,      \* algorithm_finish_req
  algAckR,     \* algorithm_finish_ack_r, _r1
  wrNeedTemp,  \* image_wr_need_temp
  wrFinishR,   \* image_rd_finish_r1, _r2 of image_write_buffer_control.v
  flagR,       \* image_one_return_finish_flag_r, _r1
  retReady,    \* image_one_return_finish_ready
  readyTemp,   \* image_one_return_finish_ready_temp, _temp1
  beginR,      \* image_begin_inter_r1, _r2, _r3 of interrupt.v
  loadHead,    \* load_head_rd_reg
  headQ,       \* the last head popped asks for an image
  imageUpdate, \* image_update of load_head.v
  infor,       \* infor_update_temp, infor_update
  inforDelay,  \* inforUpdate_delay, 4 bits
  inforLong,   \* infor_update_r of image_read_buffer_control.v
  imageReadyR, \* image_rd_ready_in_clk_domain, _r of load_image.v
  \* the FIFOs between the two, as the counts of their two ends
  headWrites, headSeen, headPops,   \* modulo 4
  kernelWrites, kernelReads,        \* modulo 8
  \* what is outside
  phase,       \* which edges come next
  latency,     \* edges the head read has taken
  ps, psCnt,   \* the PS: where it is, and for how many edges
  round,       \* rounds of the map the last head popped belongs to
  \* history, modulo 4
  mapsDone,    \* maps computed that must be returned
  mapsWritten, \* image writes that ended
  fetched      \* the last head read asks for no image, or its image has been read

axiVars == <<ctl, waitCnt, beginTemp, beginFlag, reqR, ack, headNeedR, algReqR,
             algAck, layerR, base, addr, wrNeedR, posR, wrFinish, wrNeedPipe,
             retFlag, retReadyR, beginSlow, finishSlow, headWrites,
             kernelWrites, latency, ps, psCnt, mapsWritten, rdFinish, inforAxi,
             updateAxi, imageReady, imageNeed, headImage, fetched>>
dealVars == <<state, headDelayCnt, interCnt, layerState, layer, convCnt,
              oneLayerFinish, activation, algorithmFinish, returned, req, ackR,
              algReq, algAckR, wrNeedTemp, wrFinishR, flagR, retReady,
              readyTemp, beginR, loadHead, headSeen, headPops, kernelReads,
              round, mapsDone, headQ, imageUpdate, infor, inforDelay,
              inforLong, imageReadyR>>
loopVars == <<axiVars, dealVars, phase>>

Transfer == INSTANCE TransferControl

Off(n) == [i \in 1..n |-> FALSE]

LoopInit ==
  /\ Transfer!Init /\ Init
  /\ wrNeedPipe = Off(3) /\ retFlag = FALSE /\ retReadyR = Off(2)
  /\ beginSlow = FALSE /\ finishSlow = Off(3)
  /\ req = FALSE /\ ackR = Off(2) /\ algReq = FALSE /\ algAckR = Off(2)
  /\ wrNeedTemp = FALSE /\ wrFinishR = Off(2) /\ flagR = Off(2)
  /\ retReady = FALSE /\ readyTemp = Off(2) /\ beginR = Off(3)
  /\ loadHead = FALSE
  /\ headWrites = 0 /\ headSeen = 0 /\ headPops = 0
  /\ kernelWrites = 0 /\ kernelReads = 0
  /\ phase = 0 /\ latency = 0 /\ ps = "gap" /\ psCnt = 0
  /\ round = RoundsPerMap /\ mapsDone = 0 /\ mapsWritten = 0
  /\ rdFinish = FALSE /\ inforAxi = Off(2) /\ updateAxi = Off(2)
  /\ imageReady = FALSE /\ imageNeed = FALSE /\ headImage = FALSE /\ fetched = TRUE
  /\ headQ = FALSE /\ imageUpdate = FALSE /\ infor = Off(2) /\ inforDelay = 0
  /\ inforLong = FALSE /\ imageReadyR = Off(2)

Shift(chain, v) ==
  [i \in 1..Len(chain) |-> IF i = 1 THEN v ELSE chain[i - 1]]

-----------------------------------------------------------------------------
\* Mutant: the level of the handshake, not its edge.
ReadyPosMutant == readyTemp[1]
\* Mutant: one register fewer on the way.
ReadyPosEarly == retReady /\ ~readyTemp[1]

(* Wires. *)
ReadyPos == readyTemp[1] /\ ~readyTemp[2]   \* image_one_return_finish_ready_pos
BeginInter == beginR[2] /\ ~beginR[3]       \* image_begin_inter_in_clk_domain
HeadEmpty == headSeen = headPops            \* load_head_empty, head_rd_need
LoadHeadRd == loadHead /\ ~HeadEmpty        \* load_head_rd
ReturnAxi == round = RoundsPerMap           \* image_return_axi
Kernels == (kernelWrites + 8 - kernelReads) % 8

(* start_control.sv: the PS raises the start line for some cycles, waits for
   the interrupt to come and go, and pauses.                                 *)
PsStep ==
  CASE ps = "gap"       -> IF psCnt = StartCycles THEN ps' = "start" /\ psCnt' = 0
                                                  ELSE ps' = ps /\ psCnt' = psCnt + 1
    [] ps = "start"     -> IF psCnt = StartCycles THEN ps' = "wait_rise" /\ psCnt' = 0
                                                  ELSE ps' = ps /\ psCnt' = psCnt + 1
    [] ps = "wait_rise" -> ps' = (IF finishSlow[3] THEN "wait_fall" ELSE ps) /\ psCnt' = 0
    [] ps = "wait_fall" -> ps' = (IF finishSlow[3] THEN ps ELSE "gap") /\ psCnt' = 0

(* interrupt.v, the handshake that takes image_wr_finish to deal_clk: the flag
   and the answer to it on axi_clk, the answer and its edge on deal_clk.     *)
ReturnFlag ==
  /\ retFlag' = (wrFinish \/ (retFlag /\ ~retReadyR[2]))
  /\ retReadyR' = Shift(retReadyR, retReady)

ReturnReady ==
  /\ flagR' = Shift(flagR, retFlag)
  /\ retReady' = flagR[2]
  /\ readyTemp' = Shift(readyTemp, retReady)

(* interrupt.v, the lines to and from the PS, on slow_clk. *)
PsLines ==
  /\ beginSlow' = (ps = "start")
  /\ finishSlow' = Shift(finishSlow, state = "inter")

(* image_read_buffer_control.v on axi_clk: the news of a head and its image flag
   cross by themselves, and are one thing only where both are seen.          *)
ReadBuffer(done) ==
  LET update == updateAxi[2] /\ inforAxi[2]
  IN  /\ rdFinish' = (ctl = "image_rd" /\ done)
      /\ inforAxi' = Shift(inforAxi, inforLong)
      /\ updateAxi' = Shift(updateAxi, imageUpdate)
      /\ imageReady' = (rdFinish \/ (imageReady /\ ~update /\ ~algReqR[2]))
      /\ imageNeed' = (update \/ (imageNeed /\ ~rdFinish))

(* The head that arrives: whether it asks for an image.  The first of a network
   does, and none whose kernels came with an earlier head.                   *)
Asks(done) ==
  IF ctl = "head_rd" /\ done
    THEN /\ headImage' \in (IF Kernels > 0 THEN {FALSE}
                            ELSE IF imageReady THEN BOOLEAN ELSE {TRUE})
         /\ fetched' = ~headImage'
    ELSE /\ UNCHANGED headImage
         /\ fetched' = (fetched \/ (ctl = "image_rd" /\ done))

(* What DDR's answer brings: a head into its FIFO, the kernels of some rounds of
   the map, or the end of a write.                                           *)
Arrives(done) ==
  /\ headWrites' = IF ctl = "head_rd" /\ done THEN (headWrites + 1) % 4 ELSE headWrites
  /\ IF ctl = "kernel_rd" /\ done
       THEN \E k \in 1..KernelBatch : /\ k <= RoundsPerMap + 1 - round
                                      /\ kernelWrites' = (kernelWrites + k) % 8
       ELSE UNCHANGED kernelWrites
  /\ mapsWritten' = IF ctl = "image_wr" /\ done THEN (mapsWritten + 1) % 4 ELSE mapsWritten

(* One edge of axi_clk, and of slow_clk.  DDR finishes the operation in hand
   now or later, a head in bounded time; the head says whether an image is to
   be read, and carries no kernels when those of its round came with an earlier
   one.                                                                      *)
AxiEdge(done) ==
  /\ done => ctl \in Transfer!DataStates
  /\ ctl = "head_rd" /\ latency = HeadLatency => done
  /\ latency' = IF ctl = "head_rd" /\ ~done THEN latency + 1 ELSE 0
  /\ Transfer!Clk(ps = "start", req, HeadEmpty, wrNeedPipe[3], algReq,
                  oneLayerFinish, done, headImage /\ imageNeed, Kernels > 0)
  /\ wrNeedPipe' = Shift(wrNeedPipe, wrNeedTemp)
  /\ ReturnFlag /\ PsLines /\ ReadBuffer(done) /\ Arrives(done) /\ Asks(done) /\ PsStep

\* Mutant: the start of an image asks for no head.
ReqMutant(maxpooling) ==
  maxpooling \/ (req /\ ~(ackR[2] \/ algReqR[2]))

(* maxpooling_finish_req *)
ReqNext(maxpooling) ==
  maxpooling \/ Transfer!BeginPos \/ (req /\ ~(ackR[2] \/ algReqR[2]))

(* image_wr_need_temp *)
WrNeedNext(maxpooling) ==
  (maxpooling /\ ReturnAxi) \/ (wrNeedTemp /\ ~wrFinishR[2])

(* information_read_write.v, the two requests on deal_clk and what they see of
   their acknowledgement.                                                    *)
Requests(maxpooling) ==
  /\ req' = ReqNext(maxpooling)
  /\ ackR' = Shift(ackR, ack)
  /\ algReq' = (algorithmFinish \/ (algReq /\ ~algAckR[2]))
  /\ algAckR' = Shift(algAckR, algAck)

(* The head FIFO, seen from its reader; the end of the algorithm resets it. *)
HeadFifo ==
  /\ headSeen' = headWrites
  /\ headPops' = IF algReqR[2] THEN headWrites
                 ELSE IF LoadHeadRd THEN (headPops + 1) % 4 ELSE headPops

\* Mutant: the news of a head crosses as the pulse it is.
StretchMutant == inforDelay' = 0 /\ inforLong' = infor[2]

(* image_read_buffer_control.v on deal_clk: the pulse of a new head is made
   fifteen edges long.                                                       *)
Stretch ==
  /\ inforDelay' = IF inforDelay # 0 \/ infor[2] THEN (inforDelay + 1) % 16 ELSE 0
  /\ inforLong' = (inforDelay # 0)

(* load_head.v: a head is asked for until it is there; its image_return_axi and
   image_update.                                                             *)
LoadHead ==
  /\ headQ' = IF LoadHeadRd THEN headImage ELSE headQ
  /\ imageUpdate' = headQ
  /\ infor' = Shift(infor, LoadHeadRd)
  /\ loadHead' = (state = "load_head" \/ (loadHead /\ ~LoadHeadRd))
  /\ round' = IF LoadHeadRd THEN (round % RoundsPerMap) + 1 ELSE round

(* One edge of deal_clk.  The compute side finishes what it was told to do now
   or later.  The floating-point pipelines between the last kernel word and
   maxpooling_finish are longer than the transfer side's way back to ready.  *)
DealEdge(kernelFinish, imageFinish, maxpooling) ==
  /\ kernelFinish => state = "load_kernel" /\ Kernels > 0
  /\ imageFinish => state = "load_image" /\ imageReadyR[2]
  /\ maxpooling => state = "deal_image" /\ ctl = "ready"
  /\ Clk(BeginInter, kernelFinish, imageFinish, maxpooling, ReturnAxi, ReadyPos)
  /\ beginR' = Shift(beginR, beginSlow)
  /\ Requests(maxpooling)
  /\ wrNeedTemp' = WrNeedNext(maxpooling)
  /\ wrFinishR' = Shift(wrFinishR, wrFinish)
  /\ ReturnReady /\ HeadFifo /\ LoadHead /\ Stretch
  /\ imageReadyR' = Shift(imageReadyR, imageReady)
  /\ kernelReads' = IF kernelFinish THEN (kernelReads + 1) % 8 ELSE kernelReads
  /\ mapsDone' = IF maxpooling /\ ReturnAxi THEN (mapsDone + 1) % 4 ELSE mapsDone

(* Edges at 0: both, 4 deal, 5 axi, 8 deal, 10 axi, 12 deal, 15 axi, 16 deal,
   in periods of 20 (0.75 ns each).                                          *)
Both(done, k, i, m) ==
  /\ phase = 0 /\ phase' = 1
  /\ AxiEdge(done) /\ DealEdge(k, i, m)

AxiOnly(done) ==
  /\ phase \in {2, 4, 6} /\ phase' = phase + 1
  /\ AxiEdge(done) /\ UNCHANGED dealVars

DealOnly(k, i, m) ==
  /\ phase \in {1, 3, 5, 7} /\ phase' = (phase + 1) % 8
  /\ DealEdge(k, i, m) /\ UNCHANGED axiVars

LoopNext ==
  \E done, k, i, m \in BOOLEAN :
    Both(done, k, i, m) \/ AxiOnly(done) \/ DealOnly(k, i, m)

LoopSpec == LoopInit /\ [][LoopNext]_loopVars

(* The clocks run; DDR and the compute side answer in the end. *)
FairSpec ==
  /\ LoopSpec
  /\ WF_loopVars(LoopNext)
  /\ SF_loopVars(AxiOnly(TRUE))
  /\ SF_loopVars(DealOnly(TRUE, FALSE, FALSE))
  /\ SF_loopVars(DealOnly(FALSE, TRUE, FALSE))
  /\ SF_loopVars(DealOnly(FALSE, FALSE, TRUE))

-----------------------------------------------------------------------------
HeadsAhead == (headWrites + 4 - headPops) % 4

LoopTypeOK ==
  /\ Transfer!TypeOK /\ TypeOK
  /\ wrNeedPipe \in [1..3 -> BOOLEAN] /\ retFlag \in BOOLEAN
  /\ retReadyR \in [1..2 -> BOOLEAN] /\ beginSlow \in BOOLEAN
  /\ finishSlow \in [1..3 -> BOOLEAN]
  /\ req \in BOOLEAN /\ ackR \in [1..2 -> BOOLEAN]
  /\ algReq \in BOOLEAN /\ algAckR \in [1..2 -> BOOLEAN]
  /\ wrNeedTemp \in BOOLEAN /\ wrFinishR \in [1..2 -> BOOLEAN]
  /\ flagR \in [1..2 -> BOOLEAN] /\ retReady \in BOOLEAN
  /\ readyTemp \in [1..2 -> BOOLEAN] /\ beginR \in [1..3 -> BOOLEAN]
  /\ loadHead \in BOOLEAN
  /\ headWrites \in 0..3 /\ headSeen \in 0..3 /\ headPops \in 0..3
  /\ mapsDone \in 0..3 /\ mapsWritten \in 0..3
  /\ kernelWrites \in 0..7 /\ kernelReads \in 0..7
  /\ phase \in 0..7 /\ latency \in 0..HeadLatency
  /\ ps \in {"gap", "start", "wait_rise", "wait_fall"} /\ psCnt \in 0..StartCycles
  /\ round \in 1..RoundsPerMap
  /\ rdFinish \in BOOLEAN /\ inforAxi \in [1..2 -> BOOLEAN]
  /\ updateAxi \in [1..2 -> BOOLEAN] /\ imageReady \in BOOLEAN
  /\ imageNeed \in BOOLEAN /\ headImage \in BOOLEAN /\ fetched \in BOOLEAN
  /\ headQ \in BOOLEAN /\ imageUpdate \in BOOLEAN /\ infor \in [1..2 -> BOOLEAN]
  /\ inforDelay \in 0..15 /\ inforLong \in BOOLEAN
  /\ imageReadyR \in [1..2 -> BOOLEAN]

(* A request is acknowledged only by the head read it asks for: none is
   dropped in favour of an image write.                                      *)
NoRequestLost == ack => ctl = "head_rd"

(* The next head is fetched once per round, and none after the last: when the
   network is done, the head after its last one is not on its way.           *)
NoHeadPastEnd ==
  /\ HeadsAhead \in {0, 1}
  /\ state \in {"inter", "idle"} /\ ps # "start" =>
       HeadsAhead = 0 /\ ctl \in {"idle", "end", "wait", "image_wr"}

(* Every map that must be returned is written to DDR once, whatever
   image_wr_need still shows when its write ends.                            *)
OneWritePerMap ==
  /\ (mapsDone + 4 - mapsWritten) % 4 \in {0, 1}
  /\ ctl = "image_wr" => mapsDone # mapsWritten

(* The kernels of a round are not taken before its head has been. *)
HeadBeforeKernels == state = "load_kernel" => ~loadHead

(* The image a head asks for is read before its kernels, and nothing is
   convolved with the image that lay there before: the transfer side looks
   whether the buffer wants the image, the compute side whether it is there,
   each a fixed number of edges after the head, without a handshake
   (information_read_write.v:297, load_image.v:184).                         *)
ImageOfHead ==
  /\ ctl \in {"kernel_rd", "kernel_judge"} => fetched
  /\ state = "load_image" /\ imageReadyR[2] => fetched

(* The banks of DDR change over exactly with the layer, though the pulse that
   changes them crosses to a slower clock without a handshake.               *)
BankOfLayer ==
  /\ ctl = "image_rd" => addr.rd = 1 + ((layer - 1) % 2)
  /\ ctl = "image_wr" => addr.wr = 1 + (layer % 2)

(* The pulses ProcessControl takes come only when it has asked for them. *)
ProcessSpec == Spec

(* Every start of the PS is answered by an interrupt. *)
Answered == (ps = "start") ~> (ps = "wait_fall")
=============================================================================
