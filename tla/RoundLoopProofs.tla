--------------------------- MODULE RoundLoopProofs ---------------------------
(* Proofs about RoundLoop, for every number of layers and of rounds per map,
   every kernel batch, and every HeadDelay, HeadLatency and StartCycles the
   timing assumption allows.

   The two clocks run rigidly, so the argument is one of deadlines.  NextAxi and
   NextDeal are the times to the next edges, A(n) and D(n) to the n-th edge of
   axi_clk and of deal_clk; a conjunct such as ReqBy(X) says that what it is about
   has settled by time X from now, whatever it is at.  KernelTime is when
   process_control takes the kernels of a round, JudgeTime and IdleTime are when
   the transfer side can be ready for a request again, BeginTime when the PS can
   start the next image.  That a pulse, a level or a handshake of one clock is
   seen once, and not twice, by the other is then a matter of arithmetic: each
   step takes Dt from every deadline.  The conjuncts need one another, and are
   proved together: LoopIInv.  What the transfer side knows of the image a head
   asks for needs all of them and none of them needs it: Images, proved on top. *)
EXTENDS RoundLoop, ProcessControlProofs, SequenceTheorems

-----------------------------------------------------------------------------
(* Time. A step of the loop is one edge of axi_clk, of deal_clk or of both. *)

(* The edges that come next are of deal_clk alone. *)
Odd == phase \in {1, 3, 5, 7}

(* Time to the next edge of axi_clk, and of deal_clk, in 0.75 ns. *)
NextAxi == CASE phase = 0 -> 4 [] phase = 2 -> 1 [] phase = 4 -> 2 [] phase = 6 -> 3
        [] OTHER -> 5
NextDeal == CASE phase = 3 -> 3 [] phase = 5 -> 2 [] phase = 7 -> 1 [] OTHER -> 4

(* Time to the n-th edge of axi_clk from now, and of deal_clk. *)
A(n) == NextAxi + 5 * (n - 1)
D(n) == NextDeal + 4 * (n - 1)

-----------------------------------------------------------------------------
(* Deadlines: the time by which each part of the loop is due to act again. *)

(* Between two images; AtRest, with the start line of the PS low. *)
Rest == state \in {"inter", "idle"}
AtRest == Rest /\ ps # "start"

(* The states of process_control before it takes the kernels of a round. *)
Pre == {"start", "load_head", "wait_add_zero"}

(* The earliest time the start line of the PS can rise. *)
BeginTime == IF ps = "gap" THEN A(StartCycles + 1 - psCnt) ELSE A(StartCycles + 2)

(* When load_head_waitAddZero ends: rigid, once a round has begun. *)
KernelTime == D(CASE state = "wait_add_zero" -> HeadDelay + 1 - headDelayCnt
                  [] state = "load_head" -> HeadDelay + 2
                  [] OTHER -> HeadDelay + 3)

(* The earliest time the transfer side is in idle again. *)
IdleTime == CASE ctl = "end" -> A(17) [] ctl = "wait" -> A(16 - waitCnt) [] OTHER -> 0

(* The earliest time the transfer side leaves iterate_judge. *)
JudgeTime == CASE ctl = "head_rd" -> A(22)
               [] ctl = "iterate_head_wait" -> A(21 - waitCnt)
               [] ctl = "iterate_head" -> A(17)
               [] ctl = "iterate_judge_wait" -> A(16 - waitCnt)
               [] OTHER -> 0

-----------------------------------------------------------------------------
(* The conjuncts of the invariant. *)

(* A counter that is not counting is 0. *)
Counters ==
  /\ state # "wait_add_zero" => headDelayCnt = 0
  /\ ctl \notin {"iterate_head_wait", "iterate_judge_wait", "wait"} => waitCnt = 0
  /\ ctl = "iterate_head_wait" => waitCnt <= 3

(* The start line is down, and what is left of it in the two chains has
   drained before X.                                                       *)
BeginBy(X) ==
  /\ beginTemp[1] => beginTemp[2] /\ A(1) + 12 <= X
  /\ beginTemp[2] => beginTemp[3] /\ A(2) <= X
  /\ beginTemp[3] => A(1) <= X
  /\ beginSlow => beginR[1]
  /\ beginR[1] => beginR[2] /\ (beginSlow \/ D(3) <= X)
  /\ beginR[2] => beginR[3] /\ (beginR[1] \/ D(2) <= X)
  /\ beginR[3] => beginR[2] \/ D(1) <= X
  /\ ~posR

(* The chains of the start line drain before the kernels are taken. *)
StartTime == IF ps = "wait_rise" /\ state \in Pre THEN KernelTime ELSE 0

(* The start line, in the chain of each clock: which registers have seen it,
   how many edges after its rise, and which process_control waits for it.   *)
Begins ==
  /\ beginSlow <=> beginTemp[1]
  /\ ps = "start" =>
       /\ (beginTemp[1] <=> psCnt >= 1) /\ (beginTemp[2] <=> psCnt >= 2)
       /\ (beginTemp[3] <=> psCnt >= 3) /\ (posR <=> psCnt = 3)
       /\ beginR[1] => psCnt >= 1
       /\ beginR[2] => beginR[1]
       /\ beginR[3] => beginR[2]
       /\ psCnt >= 1 /\ ~beginR[1] => D(3) <= A(4 - psCnt)
       /\ beginR[1] /\ ~beginR[2] => D(2) <= A(4 - psCnt)
       /\ beginR[2] /\ ~beginR[3] => D(1) <= A(4 - psCnt)
       /\ beginR[3] <=> state # "idle"
       /\ state # "idle" => state \in Pre /\ A(StartCycles + 1 - psCnt) + 17 <= KernelTime
  /\ ps # "start" => BeginBy(StartTime)
  /\ ps \in {"wait_fall", "gap"} => Rest
  /\ ps = "gap" => state = "idle"
  /\ ps \in {"wait_rise", "wait_fall"} => psCnt = 0

(* The interrupt to the PS goes up and down one register after the other, and
   is down whenever an image is being processed.                             *)
Finishes ==
  /\ state = "inter" => (finishSlow[3] => finishSlow[2]) /\ (finishSlow[2] => finishSlow[1])
  /\ finishSlow[1] /\ finishSlow[3] => finishSlow[2]
  /\ ~Rest \/ ps \in {"start", "gap"} => ~finishSlow[1] /\ ~finishSlow[2] /\ ~finishSlow[3]
  /\ ps = "wait_fall" => /\ finishSlow[1] => finishSlow[2]
                         /\ finishSlow[2] => finishSlow[3]
                         /\ state = "inter" => finishSlow[1]

(* The handshake of algorithm_finish: its six registers go up one after the
   other, and down in the same order.                                        *)
AlgUp(n) ==
  /\ algReq <=> n >= 1
  /\ algReqR[1] <=> n >= 2
  /\ algReqR[2] <=> n >= 3
  /\ algAck <=> n >= 4
  /\ algAckR[1] <=> n >= 5
  /\ algAckR[2] <=> n >= 6
AlgDown(n) ==
  /\ algReq <=> n < 1
  /\ algReqR[1] <=> n < 2
  /\ algReqR[2] <=> n < 3
  /\ algAck <=> n < 4
  /\ algAckR[1] <=> n < 5
  /\ algAckR[2] <=> n < 6

(* Wherever the handshake of algorithm_finish is, it is over by X. *)
AlgBy(X) ==
  \/ ~algorithmFinish /\ AlgUp(0)
  \/ algorithmFinish /\ AlgUp(0) /\ D(1) + 50 <= X
  \/ /\ ~algorithmFinish
     /\ \/ AlgUp(1) /\ A(1) + 45 <= X
        \/ AlgUp(2) /\ A(1) + 40 <= X
        \/ AlgUp(3) /\ A(1) + 35 <= X
        \/ AlgUp(4) /\ D(1) + 31 <= X
        \/ AlgUp(5) /\ D(1) + 27 <= X
        \/ AlgUp(6) /\ D(1) + 23 <= X
        \/ AlgDown(1) /\ A(1) + 18 <= X
        \/ AlgDown(2) /\ A(1) + 13 <= X
        \/ AlgDown(3) /\ A(1) + 8 <= X
        \/ AlgDown(4) /\ D(1) + 4 <= X
        \/ AlgDown(5) /\ D(1) <= X

(* image_begin_flag, still up after the end of the network, falls before X. *)
FlagBy(X) ==
  beginFlag => /\ ~algAck
               /\ \/ algorithmFinish /\ D(1) + 15 <= X
                  \/ algReq /\ ~algReqR[1] /\ A(3) <= X
                  \/ algReqR[1] /\ ~algReqR[2] /\ A(2) <= X
                  \/ algReqR[2] /\ A(1) <= X

(* Between images the handshake is over before the PS can start the next. *)
AlgTime == IF AtRest THEN BeginTime ELSE 0

(* The handshake of algorithm_finish (information_read_write.v) and the flag
   image_begin_flag it clears.                                              *)
Algs ==
  /\ AlgBy(AlgTime)
  /\ AtRest => FlagBy(IdleTime)
  /\ ~Rest /\ ps # "start" => beginFlag
  /\ ps = "start" => (beginFlag <=> psCnt >= 3)

(* What is left of a request that has been withdrawn has passed by X. *)
ReqFalls(X) ==
  /\ reqR[1] => A(4) <= X
  /\ reqR[2] => A(3) <= X
  /\ reqR[3] => A(2) <= X
  /\ reqR[4] => A(1) <= X

(* A request that was acknowledged, and its acknowledgement, are gone by X. *)
ReqBy(X) ==
  /\ req => \/ ackR[2] /\ D(1) + 20 <= X
            \/ ackR[1] /\ ~ackR[2] /\ D(2) + 20 <= X
            \/ ack /\ ~ackR[1] /\ ~ackR[2] /\ NextDeal < NextAxi /\ D(3) + 20 <= X
  /\ ~req => ReqFalls(X)
  /\ ack => A(1) + 8 <= X
  /\ ackR[1] => ack \/ D(2) <= X
  /\ ackR[2] => D(1) <= X

(* No acknowledgement is on its way. *)
NoAck == ~ack /\ ~ackR[1] /\ ~ackR[2]

(* The request is up and not yet seen at the end of its chain. *)
ReqUp ==
  /\ req /\ NoAck
  /\ reqR[4] => reqR[3]
  /\ reqR[3] => reqR[2]
  /\ reqR[2] => reqR[1]

(* The start of the PS has not yet become a request. *)
Unmade == ps = "start" /\ (psCnt < 2 \/ (psCnt = 2 /\ Odd))

(* Registers the request has still to pass. *)
Missing == IF reqR[4] THEN 0 ELSE IF reqR[3] THEN 1 ELSE IF reqR[2] THEN 2
           ELSE IF reqR[1] THEN 3 ELSE 4

(* When the head that is asked for is there, at the latest. *)
AskTime == A((CASE ctl = "ready" -> Missing + 2
                [] ctl = "idle" -> 7
                [] ctl = "wait" -> 23 - waitCnt
                [] OTHER -> 24) + HeadLatency + (IF beginFlag THEN 0 ELSE 3 - psCnt))

(* The head FIFO is empty, and nothing is on its way to its reader. *)
NoHead == headWrites = headPops /\ headSeen = headPops

(* A round wants its head: the request is up or about to be made, the transfer
   side on its way to ready, and the head there 16 units before the kernels
   are taken.                                                                 *)
Wanted ==
  /\ ctl \in {"end", "wait", "idle", "ready"}
  /\ ~beginFlag => ctl # "ready"
  /\ NoHead /\ headNeedR
  /\ IF Unmade THEN ReqBy(0) ELSE ReqUp
  /\ AskTime + 16 <= KernelTime
  /\ state = "wait_add_zero" => loadHead

(* The request of a start has been made. *)
Late == ps = "start" => psCnt > 3

(* The head is being read. *)
Reading ==
  /\ Late
  /\ ctl = "head_rd" /\ NoHead
  /\ latency <= HeadLatency
  /\ A(HeadLatency + 1 - latency) + 16 <= KernelTime
  /\ ReqBy(JudgeTime)
  /\ ack => latency = 0
  /\ state = "wait_add_zero" => loadHead

(* Where the transfer side may be between two heads. *)
AfterHead == {"iterate_head_wait", "iterate_head", "iterate_judge_wait",
              "iterate_judge", "image_rd", "kernel_rd", "kernel_judge", "end",
              "wait", "idle", "ready"}

(* The head is in the FIFO. *)
Arrived ==
  /\ Late
  /\ ctl \in AfterHead /\ HeadsAhead = 1
  /\ headSeen \in {headWrites, headPops}
  /\ headSeen = headPops => D(2) + 5 <= KernelTime
  /\ headSeen # headPops => D(1) + 5 <= KernelTime
  /\ ReqBy(JudgeTime) /\ ~ack
  /\ state = "wait_add_zero" => loadHead

(* The head has been taken. *)
Popped ==
  /\ Late
  /\ ctl \in AfterHead /\ NoHead
  /\ ReqBy(JudgeTime) /\ ~ack
  /\ ~loadHead

(* A request to write that was served, and the news of its end, are gone by X. *)
NeedBy(X) ==
  /\ wrNeedTemp => \/ wrFinishR[2] /\ D(1) + 20 <= X
                   \/ wrFinishR[1] /\ ~wrFinishR[2] /\ D(2) + 20 <= X
                   \/ /\ wrFinish /\ ~wrFinishR[1] /\ ~wrFinishR[2]
                      /\ NextDeal < NextAxi /\ D(3) + 20 <= X
  /\ ~wrNeedTemp => /\ wrNeedPipe[1] => A(4) <= X
                    /\ wrNeedPipe[2] => A(3) <= X
                    /\ wrNeedPipe[3] => A(2) <= X
                    /\ wrNeedR => A(1) <= X
  /\ wrFinish => A(1) + 8 <= X
  /\ wrFinishR[1] => wrFinish \/ D(2) <= X
  /\ wrFinishR[2] => D(1) <= X

(* The handshake of interrupt.v that takes the end of a write to deal_clk: six
   registers that go up one after the other.                                  *)
RetUp(n) ==
  /\ retFlag <=> n >= 1
  /\ flagR[1] <=> n >= 2
  /\ flagR[2] <=> n >= 3
  /\ retReady <=> n >= 4
  /\ readyTemp[1] <=> n >= 5
  /\ readyTemp[2] <=> n >= 6

(* It is at rest. *)
RetLow == ~wrFinish /\ RetUp(0) /\ ~retReadyR[1] /\ ~retReadyR[2]

(* When its pulse ends the round, and when its flag falls. *)
ToEnd == IF readyTemp[1] THEN D(1) ELSE D(2)
ToDrop == A(IF retReadyR[2] THEN 1 ELSE IF retReadyR[1] THEN 2 ELSE 3)

(* The end of a write is on its way, and ends the round before X. *)
RetRises(X) ==
  /\ \/ wrFinish /\ RetUp(0) /\ A(1) + 20 <= X
     \/ /\ ~wrFinish
        /\ \/ RetUp(1) /\ D(5) <= X
           \/ RetUp(2) /\ D(4) <= X
           \/ RetUp(3) /\ D(3) <= X
           \/ RetUp(4) /\ D(2) <= X
           \/ RetUp(5) /\ D(1) <= X
  /\ retReadyR[2] => retReadyR[1]
  /\ retReadyR[1] => retReady
  /\ retReady => ToEnd < ToDrop

(* What is left of it is gone by X. *)
RetBy(X) ==
  /\ ~wrFinish
  /\ retFlag => /\ flagR[1] /\ flagR[2] /\ retReady
                /\ ToDrop + 22 <= X
  /\ retReadyR[2] => retReadyR[1] \/ A(1) <= X
  /\ retReadyR[1] => retReady \/ A(2) <= X
  /\ flagR[1] => flagR[2] /\ (retFlag \/ D(1) + 18 <= X)
  /\ flagR[2] => retReady /\ (flagR[1] \/ D(1) + 14 <= X)
  /\ retReady => readyTemp[1] /\ (flagR[2] \/ D(1) + 10 <= X)
  /\ readyTemp[1] => readyTemp[2] /\ (retReady \/ D(2) <= X)
  /\ readyTemp[2] => readyTemp[1] \/ D(1) <= X

(* A map is being returned: its write is asked for or under way ... *)
SendBefore ==
  /\ ctl \in {"ready", "image_wr"}
  /\ RetLow /\ wrNeedTemp /\ ~wrFinishR[1] /\ ~wrFinishR[2]
  /\ ctl = "ready" => /\ ~reqR[4] /\ ~wrNeedR
                      /\ (wrNeedPipe[1] <=> reqR[1]) /\ (wrNeedPipe[2] <=> reqR[2])
                      /\ (wrNeedPipe[3] <=> reqR[3])
  /\ ctl = "image_wr" => wrNeedPipe[1] /\ wrNeedPipe[2] /\ wrNeedPipe[3]
  /\ mapsDone = (mapsWritten + 1) % 4

(* ... or done, and the news of it on its way. *)
SendAfter ==
  /\ ctl \in {"end", "wait"}
  /\ RetRises(IdleTime - 23)
  /\ mapsDone = mapsWritten

(* While a map is returned the head of the next round is asked for, not read. *)
Sending == NoHead /\ headNeedR /\ ReqUp /\ ~loadHead

(* The state of a round: what process_control is at, and where its head is. *)
Rounds ==
  /\ AtRest => /\ ctl \in {"end", "wait", "idle"} /\ NoHead /\ ~loadHead
               /\ req => /\ ReqUp /\ ~algAck /\ (algorithmFinish \/ algReq)
                         /\ algReqR[2] => NextDeal < NextAxi
               /\ ~req => NoAck /\ ReqFalls(BeginTime)
  /\ state = "idle" /\ ps = "start" => Wanted /\ ~loadHead
  /\ state \in {"start", "load_head"} => (Wanted \/ Reading \/ Arrived) /\ ~loadHead
  /\ state = "wait_add_zero" =>
       \/ Wanted \/ Reading \/ Arrived
       \/ Popped /\ (headNeedR \/ A(1) <= KernelTime)
  /\ state \in {"load_kernel", "load_image", "deal_image"} => Popped /\ headNeedR
  /\ state = "send_image" => Sending /\ (SendBefore \/ SendAfter)
  /\ state = "end" => Sending /\ ctl \in {"end", "wait"} /\ D(1) + 19 <= IdleTime

(* The handshake of interrupt.v is over before the next write can end. *)
AnswerTime ==
  CASE state = "end" -> D(1) + 34
    [] state \in Pre -> KernelTime
    [] AtRest -> BeginTime
    [] OTHER -> 0

Answers == state # "send_image" => RetBy(AnswerTime)

(* The request to write and the maps: one write for each, and none other. *)
Needs ==
  /\ ctl = "image_wr" => state = "send_image"
  /\ ~(state = "send_image" /\ ctl \in {"ready", "image_wr"}) => NeedBy(IdleTime)
  /\ state # "send_image" => mapsDone = mapsWritten

(* The layer whose banks are due. *)
Lay == IF state = "idle" \/ layerState = "start" THEN 1 ELSE layer
BaseIs(l) == base.rd = 1 + ((l - 1) % 2) /\ base.wr = 1 + (l % 2)
AddrIs(l) == addr.rd = 1 + ((l - 1) % 2) /\ addr.wr = 1 + (l % 2)
LayLow == ~oneLayerFinish /\ ~layerR[1] /\ ~layerR[2]

(* After the last layer the pulse of its end drains before X. *)
LayBy(X) ==
  /\ oneLayerFinish => state = "inter" /\ D(IF layerState = "end" THEN 2 ELSE 1) + 15 <= X
  /\ layerR[1] => oneLayerFinish \/ A(2) <= X
  /\ layerR[2] => layerR[1] \/ A(1) <= X

(* The pulse of a layer's end passes layerR and swaps the banks before X. *)
BankBy(X) ==
  \/ LayLow /\ BaseIs(Lay) /\ AddrIs(Lay)
  \/ /\ oneLayerFinish /\ ~layerR[1] /\ ~layerR[2] /\ NextAxi <= NextDeal
     /\ state = "start" /\ BaseIs(Lay - 1) /\ A(1) + 10 <= X
  \/ /\ layerR[1] /\ ~layerR[2] /\ BaseIs(Lay - 1) /\ A(2) <= X
     /\ oneLayerFinish => state = "start" /\ NextDeal < NextAxi
  \/ ~oneLayerFinish /\ ~layerR[1] /\ layerR[2] /\ BaseIs(Lay) /\ A(1) <= X

(* On which edges the answer to a write can rise: it never ends a round on the
   deal edge before one the two clocks share, so one_layer_finish is seen.   *)
AnswerPhases ==
  /\ RetUp(1) => Odd
  /\ RetUp(2) => phase # 1
  /\ RetUp(3) => phase \notin {2, 3}
  /\ RetUp(4) => phase \notin {4, 5}
  /\ RetUp(5) => phase \notin {6, 7}

(* The banks follow the layer. *)
Banks ==
  /\ ps = "start" => /\ LayLow /\ Lay = 1
                     /\ psCnt >= 3 => BaseIs(1) /\ addr.rd = 1
                     /\ psCnt >= 4 => AddrIs(1)
                     /\ psCnt <= 3 => ctl \in {"end", "wait", "idle"}
  /\ ps # "start" /\ ~Rest => BankBy(IdleTime)
  /\ AtRest => LayBy(BeginTime)
  /\ state \in {"send_image", "end"} => LayLow
  /\ state = "send_image" => AnswerPhases
  /\ state = "end" => phase # 0
  /\ state = "start" => \/ ctl \in {"end", "wait", "idle", "ready"}
                        \/ ctl = "head_rd" /\ NextDeal < NextAxi

-----------------------------------------------------------------------------
(* The steps of the two clocks. *)

(* Time to the next edge of either clock. *)
Dt == IF NextAxi <= NextDeal THEN NextAxi ELSE NextDeal

(* One step of the clocks: a when axi_clk has an edge, d when deal_clk has. *)
Tick(a, d) ==
  /\ a \in BOOLEAN /\ d \in BOOLEAN
  /\ a <=> NextAxi <= NextDeal
  /\ d <=> NextDeal <= NextAxi
  /\ NextAxi \in 1..5 /\ NextDeal \in 1..4 /\ NextAxi' \in 1..5 /\ NextDeal' \in 1..4
  /\ Dt \in 1..4
  /\ a => Dt = NextAxi /\ NextAxi' = 5
  /\ ~a => NextAxi' = NextAxi - Dt
  /\ d => Dt = NextDeal /\ NextDeal' = 4
  /\ ~d => NextDeal' = NextDeal - Dt
  /\ Odd => ~a
  /\ ~Odd => a
  /\ Odd' <=> a

(* One step of the loop at such a step of the clocks. *)
Step(a, d, done, k, i, m) ==
  /\ done \in BOOLEAN /\ k \in BOOLEAN /\ i \in BOOLEAN /\ m \in BOOLEAN
  /\ a => AxiEdge(done)
  /\ ~a => UNCHANGED axiVars
  /\ d => DealEdge(k, i, m)
  /\ ~d => UNCHANGED dealVars

(* The eight phases are such steps. *)
LEMMA Ticks ==
  ASSUME phase \in 0..7
  PROVE  /\ phase = 0 /\ phase' = 1 => Tick(TRUE, TRUE)
         /\ phase \in {2, 4, 6} /\ phase' = phase + 1 => Tick(TRUE, FALSE)
         /\ phase \in {1, 3, 5, 7} /\ phase' = (phase + 1) % 8 => Tick(FALSE, TRUE)
<1>1. ASSUME phase = 0, phase' = 1 PROVE Tick(TRUE, TRUE)
  BY <1>1, SMT DEF Tick, Dt, NextAxi, NextDeal, Odd
<1>2. ASSUME phase = 2, phase' = 3 PROVE Tick(TRUE, FALSE)
  BY <1>2, SMT DEF Tick, Dt, NextAxi, NextDeal, Odd
<1>3. ASSUME phase = 4, phase' = 5 PROVE Tick(TRUE, FALSE)
  BY <1>3, SMT DEF Tick, Dt, NextAxi, NextDeal, Odd
<1>4. ASSUME phase = 6, phase' = 7 PROVE Tick(TRUE, FALSE)
  BY <1>4, SMT DEF Tick, Dt, NextAxi, NextDeal, Odd
<1>5. ASSUME phase = 1, phase' = 2 PROVE Tick(FALSE, TRUE)
  BY <1>5, SMT DEF Tick, Dt, NextAxi, NextDeal, Odd
<1>6. ASSUME phase = 3, phase' = 4 PROVE Tick(FALSE, TRUE)
  BY <1>6, SMT DEF Tick, Dt, NextAxi, NextDeal, Odd
<1>7. ASSUME phase = 5, phase' = 6 PROVE Tick(FALSE, TRUE)
  BY <1>7, SMT DEF Tick, Dt, NextAxi, NextDeal, Odd
<1>8. ASSUME phase = 7, phase' = 0 PROVE Tick(FALSE, TRUE)
  BY <1>8, SMT DEF Tick, Dt, NextAxi, NextDeal, Odd
<1>9. phase \in {2, 4, 6} /\ phase' = phase + 1 => Tick(TRUE, FALSE)
  <2>1. 2 + 1 = 3 /\ 4 + 1 = 5 /\ 6 + 1 = 7
    BY SMT
  <2> QED BY <1>2, <1>3, <1>4, <2>1, Zenon
<1>10. phase \in {1, 3, 5, 7} /\ phase' = (phase + 1) % 8 => Tick(FALSE, TRUE)
  <2>1. (1 + 1) % 8 = 2 /\ (3 + 1) % 8 = 4 /\ (5 + 1) % 8 = 6 /\ (7 + 1) % 8 = 0
    BY SMT
  <2> QED BY <1>5, <1>6, <1>7, <1>8, <2>1, Zenon
<1> QED BY <1>1, <1>9, <1>10

(* Every step of the loop is one. *)
LEMMA NextIsStep ==
  ASSUME LoopNext, phase \in 0..7
  PROVE  \E a, d, done, k, i, m : Tick(a, d) /\ Step(a, d, done, k, i, m)
<1>1. PICK done \in BOOLEAN, k \in BOOLEAN, i \in BOOLEAN, m \in BOOLEAN :
        Both(done, k, i, m) \/ AxiOnly(done) \/ DealOnly(k, i, m)
  BY DEF LoopNext
<1>2. CASE Both(done, k, i, m)
  <2>1. Tick(TRUE, TRUE) /\ Step(TRUE, TRUE, done, k, i, m)
    BY <1>2, Ticks DEF Both, Step
  <2> QED BY <2>1
<1>3. CASE AxiOnly(done)
  <2>1. Tick(TRUE, FALSE) /\ Step(TRUE, FALSE, done, k, i, m)
    BY <1>3, Ticks DEF AxiOnly, Step
  <2> QED BY <2>1
<1>4. CASE DealOnly(k, i, m)
  <2>1. Tick(FALSE, TRUE) /\ Step(FALSE, TRUE, done, k, i, m)
    BY <1>4, Ticks DEF DealOnly, Step
  <2> QED BY <2>1
<1> QED BY <1>1, <1>2, <1>3, <1>4

-----------------------------------------------------------------------------
(* The synchronisers. *)

(* A synchroniser is a shift register: its new value, for each length in use. *)
LEMMA Shifts ==
  ASSUME NEW c, NEW v
  PROVE  /\ c \in [1..2 -> BOOLEAN] =>
              Shift(c, v) = [i \in 1..2 |-> IF i = 1 THEN v ELSE c[i - 1]]
         /\ c \in [1..3 -> BOOLEAN] =>
              Shift(c, v) = [i \in 1..3 |-> IF i = 1 THEN v ELSE c[i - 1]]
         /\ c \in [1..4 -> BOOLEAN] =>
              Shift(c, v) = [i \in 1..4 |-> IF i = 1 THEN v ELSE c[i - 1]]
<1>1. ASSUME NEW n \in 2..4, c \in [1..n -> BOOLEAN]
      PROVE  Len(c) = n
  BY <1>1, SMT
<1>2. c \in [1..2 -> BOOLEAN] => Len(c) = 2
  BY <1>1, SMT
<1>3. c \in [1..3 -> BOOLEAN] => Len(c) = 3
  BY <1>1, SMT
<1>4. c \in [1..4 -> BOOLEAN] => Len(c) = 4
  BY <1>1, SMT
<1> QED BY <1>2, <1>3, <1>4, Zenon DEF Shift

(* TransferControl and RoundLoop shift alike. *)
LEMMA SameShift == \A c, v : Transfer!Shift(c, v) = Shift(c, v)
<1> QED BY Zenon DEF Shift, Transfer!Shift

(* The same register by register, for chains of two ... *)
LEMMA Chain2 ==
  ASSUME NEW c, NEW v, c \in [1..2 -> BOOLEAN], v \in BOOLEAN
  PROVE  /\ Shift(c, v) \in [1..2 -> BOOLEAN]
         /\ Shift(c, v)[1] = v
         /\ Shift(c, v)[2] = c[1]
<1>1. Shift(c, v) = [i \in 1..2 |-> IF i = 1 THEN v ELSE c[i - 1]]
  BY Shifts
<1>2. \A i \in 1..2 : i # 1 => i - 1 \in 1..2
  BY SMT
<1>3. Shift(c, v) \in [1..2 -> BOOLEAN]
  BY <1>1, <1>2
<1> QED BY <1>1, <1>3, SMT

(* ... of three registers ... *)
LEMMA Chain3 ==
  ASSUME NEW c, NEW v, c \in [1..3 -> BOOLEAN], v \in BOOLEAN
  PROVE  /\ Shift(c, v) \in [1..3 -> BOOLEAN]
         /\ Shift(c, v)[1] = v
         /\ Shift(c, v)[2] = c[1]
         /\ Shift(c, v)[3] = c[2]
<1>1. Shift(c, v) = [i \in 1..3 |-> IF i = 1 THEN v ELSE c[i - 1]]
  BY Shifts
<1>2. \A i \in 1..3 : i # 1 => i - 1 \in 1..3
  BY SMT
<1>3. Shift(c, v) \in [1..3 -> BOOLEAN]
  BY <1>1, <1>2
<1> QED BY <1>1, <1>3, SMT

(* ... and of four. *)
LEMMA Chain4 ==
  ASSUME NEW c, NEW v, c \in [1..4 -> BOOLEAN], v \in BOOLEAN
  PROVE  /\ Shift(c, v) \in [1..4 -> BOOLEAN]
         /\ Shift(c, v)[1] = v
         /\ Shift(c, v)[2] = c[1]
         /\ Shift(c, v)[3] = c[2]
         /\ Shift(c, v)[4] = c[3]
<1>1. Shift(c, v) = [i \in 1..4 |-> IF i = 1 THEN v ELSE c[i - 1]]
  BY Shifts
<1>2. \A i \in 1..4 : i # 1 => i - 1 \in 1..4
  BY SMT
<1>3. Shift(c, v) \in [1..4 -> BOOLEAN]
  BY <1>1, <1>2
<1> QED BY <1>1, <1>3, SMT

(* The shift registers clocked by axi_clk. *)
LEMMA AxiChains ==
  ASSUME LoopTypeOK, NEW done, AxiEdge(done)
  PROVE  /\ (beginTemp'[1] <=> (ps = "start")) /\ (beginTemp'[2] <=> beginTemp[1])
              /\ (beginTemp'[3] <=> beginTemp[2])
         /\ beginTemp' \in [1..3 -> BOOLEAN]
         /\ (reqR'[1] <=> req) /\ (reqR'[2] <=> reqR[1]) /\ (reqR'[3] <=> reqR[2])
              /\ (reqR'[4] <=> reqR[3])
         /\ reqR' \in [1..4 -> BOOLEAN]
         /\ (algReqR'[1] <=> algReq) /\ (algReqR'[2] <=> algReqR[1])
         /\ algReqR' \in [1..2 -> BOOLEAN]
         /\ (layerR'[1] <=> oneLayerFinish) /\ (layerR'[2] <=> layerR[1])
         /\ layerR' \in [1..2 -> BOOLEAN]
         /\ (wrNeedPipe'[1] <=> wrNeedTemp) /\ (wrNeedPipe'[2] <=> wrNeedPipe[1])
              /\ (wrNeedPipe'[3] <=> wrNeedPipe[2])
         /\ wrNeedPipe' \in [1..3 -> BOOLEAN]
         /\ (retReadyR'[1] <=> retReady) /\ (retReadyR'[2] <=> retReadyR[1])
         /\ retReadyR' \in [1..2 -> BOOLEAN]
         /\ (finishSlow'[1] <=> (state = "inter")) /\ (finishSlow'[2] <=> finishSlow[1])
              /\ (finishSlow'[3] <=> finishSlow[2])
         /\ finishSlow' \in [1..3 -> BOOLEAN]
         /\ (inforAxi'[1] <=> inforLong) /\ (inforAxi'[2] <=> inforAxi[1])
         /\ inforAxi' \in [1..2 -> BOOLEAN]
         /\ (updateAxi'[1] <=> imageUpdate) /\ (updateAxi'[2] <=> updateAxi[1])
         /\ updateAxi' \in [1..2 -> BOOLEAN]
<1>1. /\ beginTemp' = Shift(beginTemp, ps = "start")
      /\ reqR' = Shift(reqR, req)
      /\ algReqR' = Shift(algReqR, algReq)
      /\ layerR' = Shift(layerR, oneLayerFinish)
      /\ wrNeedPipe' = Shift(wrNeedPipe, wrNeedTemp)
      /\ retReadyR' = Shift(retReadyR, retReady)
      /\ finishSlow' = Shift(finishSlow, state = "inter")
      /\ inforAxi' = Shift(inforAxi, inforLong)
      /\ updateAxi' = Shift(updateAxi, imageUpdate)
  BY SameShift, Zenon DEF AxiEdge, Transfer!Clk, ReturnFlag, PsLines, ReadBuffer
<1>2. /\ beginTemp \in [1..3 -> BOOLEAN]
      /\ reqR \in [1..4 -> BOOLEAN]
      /\ algReqR \in [1..2 -> BOOLEAN]
      /\ layerR \in [1..2 -> BOOLEAN]
      /\ wrNeedPipe \in [1..3 -> BOOLEAN]
      /\ retReadyR \in [1..2 -> BOOLEAN]
      /\ finishSlow \in [1..3 -> BOOLEAN]
      /\ inforAxi \in [1..2 -> BOOLEAN]
      /\ updateAxi \in [1..2 -> BOOLEAN]
  BY Zenon DEF LoopTypeOK, Transfer!TypeOK
<1>3. /\ (ps = "start") \in BOOLEAN
      /\ (req) \in BOOLEAN
      /\ (algReq) \in BOOLEAN
      /\ (oneLayerFinish) \in BOOLEAN
      /\ (wrNeedTemp) \in BOOLEAN
      /\ (retReady) \in BOOLEAN
      /\ (state = "inter") \in BOOLEAN
      /\ (inforLong) \in BOOLEAN
      /\ (imageUpdate) \in BOOLEAN
  BY Zenon DEF LoopTypeOK, TypeOK, LoadHeadRd, Transfer!TypeOK
<1>4. /\ (beginTemp'[1] <=> (ps = "start")) /\ (beginTemp'[2] <=> beginTemp[1])
           /\ (beginTemp'[3] <=> beginTemp[2])
      /\ beginTemp' \in [1..3 -> BOOLEAN]
  <2>1. beginTemp' = Shift(beginTemp, ps = "start") /\ beginTemp \in [1..3 -> BOOLEAN]
             /\ (ps = "start") \in BOOLEAN
    BY <1>1, <1>2, <1>3, Zenon
  <2> QED BY <2>1, Chain3
<1>5. /\ (reqR'[1] <=> req) /\ (reqR'[2] <=> reqR[1]) /\ (reqR'[3] <=> reqR[2])
           /\ (reqR'[4] <=> reqR[3])
      /\ reqR' \in [1..4 -> BOOLEAN]
  <2>1. reqR' = Shift(reqR, req) /\ reqR \in [1..4 -> BOOLEAN] /\ (req) \in BOOLEAN
    BY <1>1, <1>2, <1>3, Zenon
  <2> QED BY <2>1, Chain4
<1>6. /\ (algReqR'[1] <=> algReq) /\ (algReqR'[2] <=> algReqR[1])
      /\ algReqR' \in [1..2 -> BOOLEAN]
  <2>1. algReqR' = Shift(algReqR, algReq) /\ algReqR \in [1..2 -> BOOLEAN]
             /\ (algReq) \in BOOLEAN
    BY <1>1, <1>2, <1>3, Zenon
  <2> QED BY <2>1, Chain2
<1>7. /\ (layerR'[1] <=> oneLayerFinish) /\ (layerR'[2] <=> layerR[1])
      /\ layerR' \in [1..2 -> BOOLEAN]
  <2>1. layerR' = Shift(layerR, oneLayerFinish) /\ layerR \in [1..2 -> BOOLEAN]
             /\ (oneLayerFinish) \in BOOLEAN
    BY <1>1, <1>2, <1>3, Zenon
  <2> QED BY <2>1, Chain2
<1>8. /\ (wrNeedPipe'[1] <=> wrNeedTemp) /\ (wrNeedPipe'[2] <=> wrNeedPipe[1])
           /\ (wrNeedPipe'[3] <=> wrNeedPipe[2])
      /\ wrNeedPipe' \in [1..3 -> BOOLEAN]
  <2>1. wrNeedPipe' = Shift(wrNeedPipe, wrNeedTemp) /\ wrNeedPipe \in [1..3 -> BOOLEAN]
             /\ (wrNeedTemp) \in BOOLEAN
    BY <1>1, <1>2, <1>3, Zenon
  <2> QED BY <2>1, Chain3
<1>9. /\ (retReadyR'[1] <=> retReady) /\ (retReadyR'[2] <=> retReadyR[1])
      /\ retReadyR' \in [1..2 -> BOOLEAN]
  <2>1. retReadyR' = Shift(retReadyR, retReady) /\ retReadyR \in [1..2 -> BOOLEAN]
             /\ (retReady) \in BOOLEAN
    BY <1>1, <1>2, <1>3, Zenon
  <2> QED BY <2>1, Chain2
<1>10. /\ (finishSlow'[1] <=> (state = "inter")) /\ (finishSlow'[2] <=> finishSlow[1])
            /\ (finishSlow'[3] <=> finishSlow[2])
      /\ finishSlow' \in [1..3 -> BOOLEAN]
  <2>1. finishSlow' = Shift(finishSlow, state = "inter")
             /\ finishSlow \in [1..3 -> BOOLEAN] /\ (state = "inter") \in BOOLEAN
    BY <1>1, <1>2, <1>3, Zenon
  <2> QED BY <2>1, Chain3
<1>11. /\ (inforAxi'[1] <=> inforLong) /\ (inforAxi'[2] <=> inforAxi[1])
      /\ inforAxi' \in [1..2 -> BOOLEAN]
  <2>1. inforAxi' = Shift(inforAxi, inforLong) /\ inforAxi \in [1..2 -> BOOLEAN]
             /\ (inforLong) \in BOOLEAN
    BY <1>1, <1>2, <1>3, Zenon
  <2> QED BY <2>1, Chain2
<1>12. /\ (updateAxi'[1] <=> imageUpdate) /\ (updateAxi'[2] <=> updateAxi[1])
      /\ updateAxi' \in [1..2 -> BOOLEAN]
  <2>1. updateAxi' = Shift(updateAxi, imageUpdate) /\ updateAxi \in [1..2 -> BOOLEAN]
             /\ (imageUpdate) \in BOOLEAN
    BY <1>1, <1>2, <1>3, Zenon
  <2> QED BY <2>1, Chain2
<1> QED BY <1>4, <1>5, <1>6, <1>7, <1>8, <1>9, <1>10, <1>11, <1>12

(* The shift registers clocked by deal_clk. *)
LEMMA DealChains ==
  ASSUME LoopTypeOK, NEW k, NEW i, NEW m, DealEdge(k, i, m)
  PROVE  /\ (beginR'[1] <=> beginSlow) /\ (beginR'[2] <=> beginR[1])
              /\ (beginR'[3] <=> beginR[2])
         /\ beginR' \in [1..3 -> BOOLEAN]
         /\ (ackR'[1] <=> ack) /\ (ackR'[2] <=> ackR[1])
         /\ ackR' \in [1..2 -> BOOLEAN]
         /\ (algAckR'[1] <=> algAck) /\ (algAckR'[2] <=> algAckR[1])
         /\ algAckR' \in [1..2 -> BOOLEAN]
         /\ (wrFinishR'[1] <=> wrFinish) /\ (wrFinishR'[2] <=> wrFinishR[1])
         /\ wrFinishR' \in [1..2 -> BOOLEAN]
         /\ (flagR'[1] <=> retFlag) /\ (flagR'[2] <=> flagR[1])
         /\ flagR' \in [1..2 -> BOOLEAN]
         /\ (readyTemp'[1] <=> retReady) /\ (readyTemp'[2] <=> readyTemp[1])
         /\ readyTemp' \in [1..2 -> BOOLEAN]
         /\ (infor'[1] <=> LoadHeadRd) /\ (infor'[2] <=> infor[1])
         /\ infor' \in [1..2 -> BOOLEAN]
         /\ (imageReadyR'[1] <=> imageReady) /\ (imageReadyR'[2] <=> imageReadyR[1])
         /\ imageReadyR' \in [1..2 -> BOOLEAN]
<1>1. /\ beginR' = Shift(beginR, beginSlow)
      /\ ackR' = Shift(ackR, ack)
      /\ algAckR' = Shift(algAckR, algAck)
      /\ wrFinishR' = Shift(wrFinishR, wrFinish)
      /\ flagR' = Shift(flagR, retFlag)
      /\ readyTemp' = Shift(readyTemp, retReady)
      /\ infor' = Shift(infor, LoadHeadRd)
      /\ imageReadyR' = Shift(imageReadyR, imageReady)
  BY SameShift, Zenon DEF DealEdge, Requests, ReturnReady, LoadHead, HeadFifo, Stretch
<1>2. /\ beginR \in [1..3 -> BOOLEAN]
      /\ ackR \in [1..2 -> BOOLEAN]
      /\ algAckR \in [1..2 -> BOOLEAN]
      /\ wrFinishR \in [1..2 -> BOOLEAN]
      /\ flagR \in [1..2 -> BOOLEAN]
      /\ readyTemp \in [1..2 -> BOOLEAN]
      /\ infor \in [1..2 -> BOOLEAN]
      /\ imageReadyR \in [1..2 -> BOOLEAN]
  BY Zenon DEF LoopTypeOK, Transfer!TypeOK
<1>3. /\ (beginSlow) \in BOOLEAN
      /\ (ack) \in BOOLEAN
      /\ (algAck) \in BOOLEAN
      /\ (wrFinish) \in BOOLEAN
      /\ (retFlag) \in BOOLEAN
      /\ (retReady) \in BOOLEAN
      /\ (LoadHeadRd) \in BOOLEAN
      /\ (imageReady) \in BOOLEAN
  BY Zenon DEF LoopTypeOK, TypeOK, LoadHeadRd, Transfer!TypeOK
<1>4. /\ (beginR'[1] <=> beginSlow) /\ (beginR'[2] <=> beginR[1]) /\ (beginR'[3] <=> beginR[2])
      /\ beginR' \in [1..3 -> BOOLEAN]
  <2>1. beginR' = Shift(beginR, beginSlow) /\ beginR \in [1..3 -> BOOLEAN]
             /\ (beginSlow) \in BOOLEAN
    BY <1>1, <1>2, <1>3, Zenon
  <2> QED BY <2>1, Chain3
<1>5. /\ (ackR'[1] <=> ack) /\ (ackR'[2] <=> ackR[1])
      /\ ackR' \in [1..2 -> BOOLEAN]
  <2>1. ackR' = Shift(ackR, ack) /\ ackR \in [1..2 -> BOOLEAN] /\ (ack) \in BOOLEAN
    BY <1>1, <1>2, <1>3, Zenon
  <2> QED BY <2>1, Chain2
<1>6. /\ (algAckR'[1] <=> algAck) /\ (algAckR'[2] <=> algAckR[1])
      /\ algAckR' \in [1..2 -> BOOLEAN]
  <2>1. algAckR' = Shift(algAckR, algAck) /\ algAckR \in [1..2 -> BOOLEAN]
             /\ (algAck) \in BOOLEAN
    BY <1>1, <1>2, <1>3, Zenon
  <2> QED BY <2>1, Chain2
<1>7. /\ (wrFinishR'[1] <=> wrFinish) /\ (wrFinishR'[2] <=> wrFinishR[1])
      /\ wrFinishR' \in [1..2 -> BOOLEAN]
  <2>1. wrFinishR' = Shift(wrFinishR, wrFinish) /\ wrFinishR \in [1..2 -> BOOLEAN]
             /\ (wrFinish) \in BOOLEAN
    BY <1>1, <1>2, <1>3, Zenon
  <2> QED BY <2>1, Chain2
<1>8. /\ (flagR'[1] <=> retFlag) /\ (flagR'[2] <=> flagR[1])
      /\ flagR' \in [1..2 -> BOOLEAN]
  <2>1. flagR' = Shift(flagR, retFlag) /\ flagR \in [1..2 -> BOOLEAN] /\ (retFlag) \in BOOLEAN
    BY <1>1, <1>2, <1>3, Zenon
  <2> QED BY <2>1, Chain2
<1>9. /\ (readyTemp'[1] <=> retReady) /\ (readyTemp'[2] <=> readyTemp[1])
      /\ readyTemp' \in [1..2 -> BOOLEAN]
  <2>1. readyTemp' = Shift(readyTemp, retReady) /\ readyTemp \in [1..2 -> BOOLEAN]
             /\ (retReady) \in BOOLEAN
    BY <1>1, <1>2, <1>3, Zenon
  <2> QED BY <2>1, Chain2
<1>10. /\ (infor'[1] <=> LoadHeadRd) /\ (infor'[2] <=> infor[1])
      /\ infor' \in [1..2 -> BOOLEAN]
  <2>1. infor' = Shift(infor, LoadHeadRd) /\ infor \in [1..2 -> BOOLEAN]
             /\ (LoadHeadRd) \in BOOLEAN
    BY <1>1, <1>2, <1>3, Zenon
  <2> QED BY <2>1, Chain2
<1>11. /\ (imageReadyR'[1] <=> imageReady) /\ (imageReadyR'[2] <=> imageReadyR[1])
      /\ imageReadyR' \in [1..2 -> BOOLEAN]
  <2>1. imageReadyR' = Shift(imageReadyR, imageReady) /\ imageReadyR \in [1..2 -> BOOLEAN]
             /\ (imageReady) \in BOOLEAN
    BY <1>1, <1>2, <1>3, Zenon
  <2> QED BY <2>1, Chain2
<1> QED BY <1>4, <1>5, <1>6, <1>7, <1>8, <1>9, <1>10, <1>11

-----------------------------------------------------------------------------
(* The inductive invariant, and a step as each state machine sees it. *)

(* The inductive invariant. *)
LoopIInv ==
  /\ LoopTypeOK /\ IInv /\ Counters
  /\ Begins /\ Finishes /\ Algs /\ Rounds /\ Answers /\ Needs /\ Banks

(* What the assumptions say of the constants. *)
LEMMA Numbers ==
  /\ HeadDelay \in Nat /\ HeadLatency \in Nat /\ StartCycles \in Nat
  /\ InterDelay \in Nat /\ StartCycles >= 10
  /\ 4 * HeadDelay >= 5 * HeadLatency + 142
  /\ 4 * HeadDelay >= 5 * StartCycles + 20
<1> QED BY HeadDelayAssumption, RoundsAssumption, TimingAssumption, InterDelayAssumption

(* The two pulses that cross to deal_clk come when process_control waits for
   them: begin in idle, the end of a write in send_image.                   *)
LEMMA PulsesAsked ==
  ASSUME LoopIInv, phase \in 0..7, NextAxi \in 1..5, NextDeal \in 1..4
  PROVE  /\ BeginInter => state = "idle" /\ ps = "start"
         /\ ReadyPos => state = "send_image"
<1>1. ASSUME BeginInter PROVE state = "idle" /\ ps = "start"
  <2>1. CASE ps = "start"
    BY <1>1, <2>1, Zenon DEF LoopIInv, Begins, BeginInter
  <2>2. CASE ps # "start"
    BY <1>1, <2>2, Zenon DEF LoopIInv, Begins, BeginInter, BeginBy
  <2> QED BY <2>1, <2>2
<1>2. ASSUME ReadyPos, state # "send_image" PROVE FALSE
  BY <1>2, Zenon DEF LoopIInv, Answers, RetBy, ReadyPos
<1> QED BY <1>1, <1>2

(* A step, as process_control sees it. *)
LEMMA StateMoves ==
  ASSUME LoopIInv, NEW a, NEW d, NEW done, NEW k, NEW i, NEW m,
         Tick(a, d), Step(a, d, done, k, i, m)
  PROVE  /\ ~d => state' = state /\ headDelayCnt' = headDelayCnt
         /\ d => /\ Edge(BeginInter, k, i, m, ReturnAxi, ReadyPos)
                 /\ headDelayCnt' = HeadDelayNext
                 /\ k => state = "load_kernel"
                 /\ i => state = "load_image"
                 /\ m => state = "deal_image" /\ ctl = "ready"
                 /\ state = "idle" => state' = IF BeginInter THEN "start" ELSE "idle"
                 /\ state = "start" => state' = "load_head"
                 /\ state = "load_head" => state' = "wait_add_zero"
                 /\ state = "wait_add_zero" =>
                      state' = IF headDelayCnt = HeadDelay THEN "load_kernel" ELSE "wait_add_zero"
                 /\ state = "load_kernel" => state' = IF k THEN "load_image" ELSE "load_kernel"
                 /\ state = "load_image" => state' = IF i THEN "deal_image" ELSE "load_image"
                 /\ state = "deal_image" =>
                      state' = IF ~m THEN "deal_image" ELSE IF ReturnAxi THEN "send_image" ELSE "start"
                 /\ state = "send_image" => state' = IF ReadyPos THEN "end" ELSE "send_image"
                 /\ state = "end" => state' = IF AlgorithmFinishTemp THEN "inter" ELSE "start"
                 /\ state = "inter" => state' = IF interCnt = InterDelay THEN "idle" ELSE "inter"
<1>1. ASSUME ~d PROVE state' = state /\ headDelayCnt' = headDelayCnt
  BY <1>1, Zenon DEF Step, dealVars
<1>2. ASSUME d
      PROVE  /\ Clk(BeginInter, k, i, m, ReturnAxi, ReadyPos)
             /\ k => state = "load_kernel"
             /\ i => state = "load_image"
             /\ m => state = "deal_image" /\ ctl = "ready"
             /\ k \in BOOLEAN /\ i \in BOOLEAN /\ m \in BOOLEAN
  BY <1>2, Zenon DEF Step, DealEdge
<1>3. ASSUME d PROVE Edge(BeginInter, k, i, m, ReturnAxi, ReadyPos)
  <2>1. BeginInter \in BOOLEAN /\ ReturnAxi \in BOOLEAN /\ ReadyPos \in BOOLEAN
    BY Zenon DEF BeginInter, ReturnAxi, ReadyPos
  <2>2. /\ BeginInter => state = "idle"
        /\ ReadyPos => state = "send_image"
    BY PulsesAsked DEF Tick, LoopIInv, LoopTypeOK
  <2> QED BY <1>2, <1>3, <2>1, <2>2 DEF Edge
<1>4. ASSUME d
      PROVE  /\ state' = StateNext(BeginInter, k, i, m, ReturnAxi, ReadyPos)
             /\ headDelayCnt' = HeadDelayNext
  BY <1>2, <1>4, Zenon DEF Clk
<1> QED BY <1>1, <1>2, <1>3, <1>4, SMT DEF StateNext, EndNext

(* A step, as inf_write_read_control sees it. *)
LEMMA CtlMoves ==
  ASSUME LoopIInv, NEW a, NEW d, NEW done, NEW k, NEW i, NEW m,
         Tick(a, d), Step(a, d, done, k, i, m)
  PROVE  /\ ~a => ctl' = ctl /\ waitCnt' = waitCnt
         /\ a => /\ done => ctl \in {"image_wr", "head_rd", "image_rd", "kernel_rd"}
                 /\ ctl = "head_rd" /\ latency = HeadLatency => done
                 /\ ctl = "idle" => ctl' = IF beginFlag THEN "ready" ELSE "idle"
                 /\ ctl = "ready" => ctl' = IF wrNeedPipe[3] THEN "image_wr"
                                           ELSE IF headNeedR
                                                /\ reqR[4] THEN "head_rd" ELSE "ready"
                 /\ ctl = "image_wr" => ctl' = IF done THEN "end" ELSE "image_wr"
                 /\ ctl = "head_rd" => ctl' = IF done THEN "iterate_head_wait" ELSE "head_rd"
                 /\ ctl = "iterate_head_wait" =>
                      ctl' = IF waitCnt = 3 THEN "iterate_head" ELSE "iterate_head_wait"
                 /\ ctl = "iterate_head" => ctl' = "iterate_judge_wait"
                 /\ ctl = "iterate_judge_wait" =>
                      ctl' = IF waitCnt = 15 THEN "iterate_judge" ELSE "iterate_judge_wait"
                 /\ ctl = "iterate_judge" => ctl' \in {"image_rd", "end", "kernel_rd"}
                 /\ ctl = "image_rd" => ctl' = IF done THEN "kernel_rd" ELSE "image_rd"
                 /\ ctl = "kernel_rd" => ctl' = IF done THEN "kernel_judge" ELSE "kernel_rd"
                 /\ ctl = "kernel_judge" => ctl' = "end"
                 /\ ctl = "end" => ctl' = "wait"
                 /\ ctl = "wait" => ctl' = IF waitCnt = 15 THEN "idle" ELSE "wait"
                 /\ waitCnt' = IF ctl' = ctl
                      /\ ctl \in {"iterate_head_wait", "iterate_judge_wait", "wait"}
                                 THEN waitCnt + 1 ELSE 0
<1>1. ASSUME ~a PROVE ctl' = ctl /\ waitCnt' = waitCnt
  BY <1>1, Zenon DEF Step, axiVars
<1>2. ASSUME a
      PROVE  /\ ctl' = Transfer!CtlNext(wrNeedPipe[3], done, headImage /\ imageNeed, Kernels > 0)
             /\ waitCnt' = Transfer!WaitCntNext(ctl')
             /\ done => ctl \in {"image_wr", "head_rd", "image_rd", "kernel_rd"}
             /\ ctl = "head_rd" /\ latency = HeadLatency => done
  BY <1>2, Zenon DEF Step, AxiEdge, Transfer!Clk, Transfer!DataStates
<1>3. ASSUME a
      PROVE  /\ ctl = "idle" => ctl' = IF beginFlag THEN "ready" ELSE "idle"
             /\ ctl = "ready" => ctl' = IF wrNeedPipe[3] THEN "image_wr"
                                       ELSE IF headNeedR /\ reqR[4] THEN "head_rd" ELSE "ready"
             /\ ctl = "image_wr" => ctl' = IF done THEN "end" ELSE "image_wr"
             /\ ctl = "head_rd" => ctl' = IF done THEN "iterate_head_wait" ELSE "head_rd"
             /\ ctl = "iterate_head_wait" =>
                  ctl' = IF waitCnt = 3 THEN "iterate_head" ELSE "iterate_head_wait"
             /\ ctl = "iterate_head" => ctl' = "iterate_judge_wait"
             /\ ctl = "iterate_judge_wait" =>
                  ctl' = IF waitCnt = 15 THEN "iterate_judge" ELSE "iterate_judge_wait"
             /\ ctl = "iterate_judge" => ctl' \in {"image_rd", "end", "kernel_rd"}
             /\ ctl = "image_rd" => ctl' = IF done THEN "kernel_rd" ELSE "image_rd"
             /\ ctl = "kernel_rd" => ctl' = IF done THEN "kernel_judge" ELSE "kernel_rd"
             /\ ctl = "kernel_judge" => ctl' = "end"
             /\ ctl = "end" => ctl' = "wait"
             /\ ctl = "wait" => ctl' = IF waitCnt = 15 THEN "idle" ELSE "wait"
  BY <1>2, <1>3, SMT DEF Transfer!CtlNext, Transfer!HeadGoes, Transfer!WaitOver,
       Transfer!HeadWait, Transfer!JudgeWait, Transfer!EndWait
<1>4. ASSUME a
      PROVE  waitCnt' = IF ctl' = ctl
                  /\ ctl \in {"iterate_head_wait", "iterate_judge_wait", "wait"}
                          THEN waitCnt + 1 ELSE 0
  BY <1>2, <1>4, SMT DEF Transfer!WaitCntNext
<1> QED BY <1>1, <1>2, <1>3, <1>4, Zenon

(* A step, as the PS sees it. *)
LEMMA PsMoves ==
  ASSUME LoopIInv, NEW a, NEW d, NEW done, NEW k, NEW i, NEW m,
         Tick(a, d), Step(a, d, done, k, i, m)
  PROVE  /\ ~a => ps' = ps /\ psCnt' = psCnt
         /\ a => /\ ps = "gap" => IF psCnt = StartCycles THEN ps' = "start" /\ psCnt' = 0
                                                         ELSE ps' = "gap" /\ psCnt' = psCnt + 1
                 /\ ps = "start" => IF psCnt = StartCycles THEN ps' = "wait_rise" /\ psCnt' = 0
                                                         ELSE ps' = "start"
                                                              /\ psCnt' = psCnt + 1
                 /\ ps = "wait_rise" => ps' = (IF finishSlow[3] THEN "wait_fall" ELSE "wait_rise") /\ psCnt' = 0
                 /\ ps = "wait_fall" => ps' = (IF finishSlow[3] THEN "wait_fall" ELSE "gap") /\ psCnt' = 0
<1>1. ASSUME ~a PROVE ps' = ps /\ psCnt' = psCnt
  BY <1>1, Zenon DEF Step, axiVars
<1>2. ASSUME a PROVE PsStep
  BY <1>2, Zenon DEF Step, AxiEdge
<1>3. ASSUME a, ps = "gap"
      PROVE  IF psCnt = StartCycles THEN ps' = "start" /\ psCnt' = 0
                                    ELSE ps' = "gap" /\ psCnt' = psCnt + 1
  BY <1>2, <1>3, Zenon DEF PsStep
<1>4. ASSUME a, ps = "start"
      PROVE  IF psCnt = StartCycles THEN ps' = "wait_rise" /\ psCnt' = 0
                                    ELSE ps' = "start" /\ psCnt' = psCnt + 1
  BY <1>2, <1>4, Zenon DEF PsStep
<1>5. ASSUME a, ps = "wait_rise"
      PROVE  ps' = (IF finishSlow[3] THEN "wait_fall" ELSE "wait_rise") /\ psCnt' = 0
  BY <1>2, <1>5, Zenon DEF PsStep
<1>6. ASSUME a, ps = "wait_fall"
      PROVE  ps' = (IF finishSlow[3] THEN "wait_fall" ELSE "gap") /\ psCnt' = 0
  BY <1>2, <1>6, Zenon DEF PsStep
<1> QED BY <1>1, <1>3, <1>4, <1>5, <1>6, Zenon

(* The ranges of what is counted. *)
LEMMA Ranges ==
  ASSUME LoopIInv
  PROVE  /\ ps \in {"gap", "start", "wait_rise", "wait_fall"} /\ psCnt \in 0..StartCycles
         /\ state \in States /\ headDelayCnt \in 0..HeadDelay
         /\ ctl \in Transfer!Ctls /\ waitCnt \in 0..15 /\ latency \in 0..HeadLatency
<1> QED BY DEF LoopIInv, LoopTypeOK, TypeOK, Transfer!TypeOK

-----------------------------------------------------------------------------
(* Time passes: a deadline never comes closer than by what a step takes. *)

(* Time passes for every deadline, unless a new one is set. *)
LEMMA IdleTimePasses ==
  ASSUME LoopIInv, NEW a, NEW d, NEW done, NEW k, NEW i, NEW m,
         Tick(a, d), Step(a, d, done, k, i, m)
  PROVE  IdleTime \in Nat /\ IdleTime' >= IdleTime - Dt
<1>1. IdleTime \in Nat
  BY Ranges, SMT DEF IdleTime, A, Tick
<1>2. IdleTime' >= IdleTime - Dt
  BY Ranges, CtlMoves, SMT DEF IdleTime, A, Tick, Transfer!Ctls
<1> QED BY <1>1, <1>2

(* Likewise the time of its judgement. *)
LEMMA JudgeTimePasses ==
  ASSUME LoopIInv, NEW a, NEW d, NEW done, NEW k, NEW i, NEW m,
         Tick(a, d), Step(a, d, done, k, i, m)
  PROVE  JudgeTime \in Nat /\ JudgeTime' >= JudgeTime - Dt
<1>1. JudgeTime \in Nat
  BY Ranges, SMT DEF JudgeTime, A, Tick, LoopIInv, Counters
<1>2. JudgeTime' >= JudgeTime - Dt
  BY Ranges, CtlMoves, SMT DEF JudgeTime, A, Tick, Transfer!Ctls, LoopIInv, Counters
<1> QED BY <1>1, <1>2

(* KernelTime is exact: it is HeadDelay edges at the start of a round and loses
   what a step takes.                                                      *)
LEMMA KernelTimePasses ==
  ASSUME LoopIInv, NEW a, NEW d, NEW done, NEW k, NEW i, NEW m,
         Tick(a, d), Step(a, d, done, k, i, m)
  PROVE  /\ KernelTime \in Nat
         /\ state \in Pre => KernelTime >= Dt
              /\ (state' \in Pre => KernelTime' = KernelTime - Dt)
         /\ state' \in Pre /\ state \notin Pre => KernelTime' = 4 * HeadDelay + 12
         /\ state = "wait_add_zero" /\ state' # "wait_add_zero" =>
              state' = "load_kernel" /\ KernelTime = Dt /\ d
         /\ state \in {"start", "load_head"} => KernelTime >= 4 * HeadDelay + 5
<1>1. KernelTime \in Nat
  BY Ranges, Numbers, SMT DEF KernelTime, D, Tick
<1>2. headDelayCnt' = IF d THEN HeadDelayNext ELSE headDelayCnt
  BY StateMoves
<1>3. state # "wait_add_zero" => headDelayCnt = 0
  BY DEF LoopIInv, Counters
<1> QED BY <1>1, <1>2, <1>3, StateMoves, Ranges, Numbers, SMT
     DEF KernelTime, D, Tick, Pre, States, HeadDelayNext

(* BeginTime loses at most what a step takes, until the start line rises. *)
LEMMA BeginTimePasses ==
  ASSUME LoopIInv, NEW a, NEW d, NEW done, NEW k, NEW i, NEW m,
         Tick(a, d), Step(a, d, done, k, i, m)
  PROVE  /\ BeginTime \in Nat
         /\ ps # "start" /\ ps' # "start" => BeginTime' >= BeginTime - Dt
         /\ ps # "start" /\ ps' = "start" => BeginTime = Dt /\ a /\ ps = "gap"
         /\ ps # "gap" => BeginTime >= 56
<1>1. BeginTime \in Nat
  BY Ranges, Numbers, SMT DEF BeginTime, A, Tick
<1> QED BY <1>1, Ranges, Numbers, PsMoves, SMT DEF BeginTime, A, Tick

(* Counters is kept. *)
LEMMA CountersStep ==
  ASSUME LoopIInv, NEW a, NEW d, NEW done, NEW k, NEW i, NEW m,
         Tick(a, d), Step(a, d, done, k, i, m)
  PROVE  Counters'
<1>1. state' # "wait_add_zero" => headDelayCnt' = 0
  BY StateMoves, Ranges, Numbers, SMT DEF HeadDelayNext, LoopIInv, Counters, States, Tick
<1>2. ctl' \notin {"iterate_head_wait", "iterate_judge_wait", "wait"} => waitCnt' = 0
  BY CtlMoves, Ranges, SMT DEF LoopIInv, Counters, Tick, Transfer!Ctls
<1>3. ctl' = "iterate_head_wait" => waitCnt' <= 3
  BY CtlMoves, Ranges, SMT DEF LoopIInv, Counters, Tick, Transfer!Ctls
<1> QED BY <1>1, <1>2, <1>3 DEF Counters

-----------------------------------------------------------------------------
(* The start of the PS and its interrupt. *)

(* A step, as the chains of the start line see it. *)
LEMMA BeginMoves ==
  ASSUME LoopIInv, NEW a, NEW d, NEW done, NEW k, NEW i, NEW m,
         Tick(a, d), Step(a, d, done, k, i, m)
  PROVE  /\ a => /\ (beginSlow' <=> ps = "start") /\ (beginTemp'[1] <=> ps = "start")
                 /\ (beginTemp'[2] <=> beginTemp[1]) /\ (beginTemp'[3] <=> beginTemp[2])
                 /\ (posR' <=> beginTemp[2] /\ ~beginTemp[3])
         /\ ~a => /\ (beginSlow' <=> beginSlow) /\ (beginTemp'[1] <=> beginTemp[1])
                  /\ (beginTemp'[2] <=> beginTemp[2]) /\ (beginTemp'[3] <=> beginTemp[3])
                  /\ (posR' <=> posR)
         /\ d => /\ (beginR'[1] <=> beginSlow) /\ (beginR'[2] <=> beginR[1])
                 /\ (beginR'[3] <=> beginR[2])
         /\ ~d => /\ (beginR'[1] <=> beginR[1]) /\ (beginR'[2] <=> beginR[2])
                  /\ (beginR'[3] <=> beginR[3])
<1>1. LoopTypeOK
  BY DEF LoopIInv
<1>2. ASSUME a
      PROVE  /\ (beginSlow' <=> ps = "start") /\ (beginTemp'[1] <=> ps = "start")
             /\ (beginTemp'[2] <=> beginTemp[1]) /\ (beginTemp'[3] <=> beginTemp[2])
             /\ (posR' <=> beginTemp[2] /\ ~beginTemp[3])
  <2>1. AxiEdge(done)
    BY <1>2 DEF Step
  <2>2. /\ (beginTemp'[1] <=> ps = "start")
        /\ (beginTemp'[2] <=> beginTemp[1]) /\ (beginTemp'[3] <=> beginTemp[2])
    BY <1>1, <2>1, AxiChains
  <2>3. beginSlow' <=> ps = "start"
    BY <2>1, Zenon DEF AxiEdge, PsLines
  <2>4. posR' <=> beginTemp[2] /\ ~beginTemp[3]
    BY <2>1, Zenon DEF AxiEdge, Transfer!Clk, Transfer!BeginPos
  <2> QED BY <2>2, <2>3, <2>4
<1>3. ASSUME ~a
      PROVE  /\ (beginSlow' <=> beginSlow) /\ (beginTemp'[1] <=> beginTemp[1])
             /\ (beginTemp'[2] <=> beginTemp[2]) /\ (beginTemp'[3] <=> beginTemp[3])
             /\ (posR' <=> posR)
  <2>1. beginSlow' = beginSlow /\ beginTemp' = beginTemp /\ posR' = posR
    BY <1>3, Zenon DEF Step, axiVars
  <2> QED BY <2>1, Zenon
<1>4. ASSUME d PROVE /\ (beginR'[1] <=> beginSlow) /\ (beginR'[2] <=> beginR[1])
                     /\ (beginR'[3] <=> beginR[2])
  BY <1>1, <1>4, DealChains DEF Step
<1>5. ASSUME ~d
      PROVE  /\ (beginR'[1] <=> beginR[1]) /\ (beginR'[2] <=> beginR[2])
             /\ (beginR'[3] <=> beginR[3])
  <2>1. beginR' = beginR
    BY <1>5, Zenon DEF Step, dealVars
  <2> QED BY <2>1, Zenon
<1> QED BY <1>2, <1>3, <1>4, <1>5, Zenon

(* The next edges of the two clocks as rigid numbers. *)
Clock(na, nd, na1, nd1, dt) ==
  na = NextAxi /\ nd = NextDeal /\ na1 = NextAxi' /\ nd1 = NextDeal' /\ dt = Dt

(* What a step does to the times to the next edges. *)
Beat(a, d, na, nd, na1, nd1, dt) ==
  /\ na \in Int /\ nd \in Int /\ na1 \in Int /\ nd1 \in Int /\ dt \in Int
  /\ a \in BOOLEAN /\ d \in BOOLEAN
  /\ a <=> na <= nd
  /\ d <=> nd <= na
  /\ na \in 1..5 /\ nd \in 1..4 /\ na1 \in 1..5 /\ nd1 \in 1..4
  /\ dt \in 1..4
  /\ a => dt = na /\ na1 = 5
  /\ ~a => na1 = na - dt
  /\ d => dt = nd /\ nd1 = 4
  /\ ~d => nd1 = nd - dt

(* Every step has such numbers. *)
LEMMA Clocks ==
  ASSUME NEW a, NEW d, Tick(a, d)
  PROVE  \E na \in Int, nd \in Int, na1 \in Int, nd1 \in Int, dt \in Int :
           Clock(na, nd, na1, nd1, dt) /\ Beat(a, d, na, nd, na1, nd1, dt)
<1>1. PICK na \in Int, nd \in Int, na1 \in Int, nd1 \in Int, dt \in Int :
        /\ na = NextAxi /\ nd = NextDeal /\ na1 = NextAxi' /\ nd1 = NextDeal' /\ dt = Dt
  <2>1. /\ NextAxi \in Int /\ NextDeal \in Int /\ NextAxi' \in Int /\ NextDeal' \in Int
        /\ Dt \in Int
    BY SMT DEF Tick
  <2> QED BY <2>1
<1>2. Clock(na, nd, na1, nd1, dt)
  BY <1>1, Zenon DEF Clock
<1>3. Beat(a, d, na, nd, na1, nd1, dt)
  BY <1>1, Zenon DEF Beat, Tick
<1> QED BY <1>2, <1>3

(* The start line rises through both chains; the round begins on deal_clk when
   it has passed the third register.                                          *)
LEMMA BeginRises ==
  ASSUME LoopIInv, NEW a, NEW d, NEW done, NEW k, NEW i, NEW m,
         Tick(a, d), Step(a, d, done, k, i, m), ps' = "start"
  PROVE  /\ (beginTemp'[1] <=> psCnt' >= 1) /\ (beginTemp'[2] <=> psCnt' >= 2)
         /\ (beginTemp'[3] <=> psCnt' >= 3) /\ (posR' <=> psCnt' = 3)
         /\ beginR'[1] => psCnt' >= 1
         /\ beginR'[2] => beginR'[1]
         /\ beginR'[3] => beginR'[2]
         /\ psCnt' >= 1 /\ ~beginR'[1] => D(3)' <= A(4 - psCnt)'
         /\ beginR'[1] /\ ~beginR'[2] => D(2)' <= A(4 - psCnt)'
         /\ beginR'[2] /\ ~beginR'[3] => D(1)' <= A(4 - psCnt)'
         /\ (beginR'[3] <=> state' # "idle")
         /\ state' # "idle" => state' \in Pre /\ A(StartCycles + 1 - psCnt)' + 17 <= KernelTime'
<1>1. CASE ps = "gap"
  <2>1. state = "idle" /\ ~BeginInter
    BY <1>1, PulsesAsked DEF LoopIInv, Begins, LoopTypeOK, Tick
  <2>2. state' = "idle"
    BY <2>1, StateMoves
  <2>3. psCnt' = 0 /\ a
    BY <1>1, PsMoves
  <2>4. /\ ~beginTemp[1] /\ ~beginTemp[2] /\ ~beginTemp[3] /\ ~posR /\ ~beginSlow
        /\ ~beginR[1] /\ ~beginR[2] /\ ~beginR[3]
    <3>1. BeginBy(0)
      BY <1>1, Zenon DEF LoopIInv, Begins, StartTime
    <3>3. beginSlow <=> beginTemp[1]
      BY Zenon DEF LoopIInv, Begins
    <3>2. BeginBy(0) => ~beginTemp[1] /\ ~beginTemp[2] /\ ~beginTemp[3] /\ ~posR
                          /\ ~beginR[1] /\ ~beginR[2] /\ ~beginR[3]
      <4>1. /\ ~(A(1) <= 0) /\ ~(A(2) <= 0) /\ ~(A(1) + 12 <= 0)
            /\ ~(D(1) <= 0) /\ ~(D(2) <= 0) /\ ~(D(3) <= 0)
        BY SMT DEF A, D, Tick
      <4> QED BY <3>3, <4>1, Zenon DEF BeginBy
    <3> QED BY <3>1, <3>2, <3>3, Zenon
  <2>5. /\ ~beginTemp'[1] /\ ~beginTemp'[2] /\ ~beginTemp'[3] /\ ~posR'
        /\ ~beginR'[1] /\ ~beginR'[2] /\ ~beginR'[3]
    BY <1>1, <2>3, <2>4, BeginMoves, Zenon
  <2>6. ~(psCnt' >= 1) /\ ~(psCnt' >= 2) /\ ~(psCnt' >= 3) /\ psCnt' # 3
    BY <2>3, SMT
  <2> QED BY <2>2, <2>5, <2>6, Zenon
<1>2. CASE ps = "start"
  <2>1. /\ beginSlow <=> beginTemp[1]
        /\ (beginTemp[1] <=> psCnt >= 1) /\ (beginTemp[2] <=> psCnt >= 2)
        /\ (beginTemp[3] <=> psCnt >= 3) /\ (posR <=> psCnt = 3)
        /\ beginR[1] => psCnt >= 1
        /\ beginR[2] => beginR[1]
        /\ beginR[3] => beginR[2]
        /\ psCnt >= 1 /\ ~beginR[1] => D(3) <= A(4 - psCnt)
        /\ beginR[1] /\ ~beginR[2] => D(2) <= A(4 - psCnt)
        /\ beginR[2] /\ ~beginR[3] => D(1) <= A(4 - psCnt)
        /\ (beginR[3] <=> state # "idle")
    BY <1>2, Zenon DEF LoopIInv, Begins
  <2>2. psCnt \in Nat /\ psCnt' = IF a THEN psCnt + 1 ELSE psCnt
    BY <1>2, PsMoves, Ranges, SMT DEF Tick
  <2>3. /\ (beginTemp'[1] <=> psCnt' >= 1) /\ (beginTemp'[2] <=> psCnt' >= 2)
        /\ (beginTemp'[3] <=> psCnt' >= 3) /\ (posR' <=> psCnt' = 3)
    BY <1>2, <2>1, <2>2, BeginMoves, SMT DEF Tick
  <2>4. /\ beginR'[1] => psCnt' >= 1
        /\ beginR'[2] => beginR'[1]
        /\ beginR'[3] => beginR'[2]
    BY <1>2, <2>1, <2>2, BeginMoves, SMT DEF Tick
  <2>5. /\ d => /\ (beginR'[1] <=> beginSlow) /\ (beginR'[2] <=> beginR[1])
                /\ (beginR'[3] <=> beginR[2])
        /\ ~d => /\ (beginR'[1] <=> beginR[1]) /\ (beginR'[2] <=> beginR[2])
                 /\ (beginR'[3] <=> beginR[3])
    BY BeginMoves
  <2>6. PICK p \in Int, p1 \in Int : p = psCnt /\ p1 = psCnt'
    <3>1. psCnt \in Int /\ psCnt' \in Int
      BY <2>2, SMT DEF Tick
    <3> QED BY <3>1
  <2>8. PICK na \in Int, nd \in Int, na1 \in Int, nd1 \in Int, dt \in Int :
          Clock(na, nd, na1, nd1, dt) /\ Beat(a, d, na, nd, na1, nd1, dt)
    BY Clocks
  <2>7. /\ p1 = IF a THEN p + 1 ELSE p
        /\ p \in Nat
        /\ beginSlow <=> p >= 1
        /\ p >= 1 /\ ~beginR[1] => nd + 4 * (3 - 1) <= na + 5 * (4 - p - 1)
        /\ beginR[1] /\ ~beginR[2] => nd + 4 * (2 - 1) <= na + 5 * (4 - p - 1)
        /\ beginR[2] /\ ~beginR[3] => nd + 4 * (1 - 1) <= na + 5 * (4 - p - 1)
        /\ beginR[1] => p >= 1
    BY <2>1, <2>2, <2>6, <2>8, Zenon DEF A, D, Clock
  <2>9. /\ p1 >= 1 /\ ~beginR'[1] => nd1 + 4 * (3 - 1) <= na1 + 5 * (4 - p1 - 1)
        /\ beginR'[1] /\ ~beginR'[2] => nd1 + 4 * (2 - 1) <= na1 + 5 * (4 - p1 - 1)
        /\ beginR'[2] /\ ~beginR'[3] => nd1 + 4 * (1 - 1) <= na1 + 5 * (4 - p1 - 1)
    BY <2>5, <2>7, <2>8, SMT DEF Beat
  <2>10. /\ psCnt' >= 1 /\ ~beginR'[1] => D(3)' <= A(4 - psCnt)'
         /\ beginR'[1] /\ ~beginR'[2] => D(2)' <= A(4 - psCnt)'
         /\ beginR'[2] /\ ~beginR'[3] => D(1)' <= A(4 - psCnt)'
    BY <2>6, <2>9, <2>8, Zenon DEF A, D, Clock
  <2>11. beginR'[3] <=> state' # "idle"
    <3>1. state = "idle" \/ state \in Pre
      BY <1>2, Zenon DEF LoopIInv, Begins
    <3>2. state \in Pre => state' # "idle"
      BY StateMoves, Zenon DEF Pre, Tick
    <3>3. state = "idle" /\ d => (state' # "idle" <=> beginR[2])
      BY <2>1, StateMoves, Zenon DEF BeginInter
    <3>4. state = "idle" /\ ~d => state' = "idle"
      BY StateMoves, Zenon
    <3>5. "idle" \notin Pre
      BY DEF Pre
    <3> QED BY <2>1, <2>5, <3>1, <3>2, <3>3, <3>4, <3>5, Zenon DEF Tick
  <2>12. ASSUME state' # "idle"
         PROVE  state' \in Pre /\ A(StartCycles + 1 - psCnt)' + 17 <= KernelTime'
    <3>1. state = "idle" \/ (state \in Pre /\ A(StartCycles + 1 - psCnt) + 17 <= KernelTime)
      BY <1>2, Zenon DEF LoopIInv, Begins
    <3>2. p1 <= StartCycles /\ p <= StartCycles /\ p1 \in Nat
      BY <1>2, <2>6, <2>2, PsMoves, Ranges, Numbers, SMT DEF Tick
    <3>3. CASE state = "idle"
      <4>1. state' = "start" /\ "start" \in Pre /\ "idle" \notin Pre
        BY <2>12, <3>3, StateMoves, Zenon DEF Pre, Tick
      <4>2. KernelTime' = 4 * HeadDelay + 12
        BY <3>3, <4>1, KernelTimePasses
      <4>3. na1 + 5 * ((StartCycles + 1 - p1) - 1) + 17 <= 4 * HeadDelay + 12
        BY <2>8, <3>2, Numbers, SMT DEF Beat
      <4>4. A(StartCycles + 1 - psCnt)' = na1 + 5 * ((StartCycles + 1 - p1) - 1)
        BY <2>6, <2>8, Zenon DEF A, Clock
      <4> QED BY <4>1, <4>2, <4>3, <4>4, Zenon
    <3>4. CASE state \in Pre /\ A(StartCycles + 1 - psCnt) + 17 <= KernelTime
      <4>1. PICK kt \in Int : kt = KernelTime
        BY KernelTimePasses
      <4>2. na + 5 * ((StartCycles + 1 - p) - 1) + 17 <= kt
        <5>1. A(StartCycles + 1 - psCnt) = na + 5 * ((StartCycles + 1 - p) - 1)
          BY <2>6, <2>8, Zenon DEF A, Clock
        <5> QED BY <3>4, <4>1, <5>1, Zenon
      <4>3. kt >= 18
        BY <2>8, <3>2, <4>2, Numbers, SMT DEF Beat
      <4>4. state' \in Pre
        <5>1. state = "wait_add_zero" /\ state' # "wait_add_zero" => kt = dt
          BY <2>8, <4>1, KernelTimePasses, Zenon DEF Clock
        <5>2. kt # dt
          BY <2>8, <4>3, SMT DEF Beat
        <5> QED BY <3>4, <5>1, <5>2, StateMoves, Zenon DEF Pre, Tick
      <4>5. KernelTime' = kt - dt
        BY <2>8, <3>4, <4>1, <4>4, KernelTimePasses, Zenon DEF Clock
      <4>6. na1 + 5 * ((StartCycles + 1 - p1) - 1) + 17 <= kt - dt
        BY <2>7, <2>8, <3>2, <4>2, Numbers, SMT DEF Beat
      <4>7. A(StartCycles + 1 - psCnt)' = na1 + 5 * ((StartCycles + 1 - p1) - 1)
        BY <2>6, <2>8, Zenon DEF A, Clock
      <4> QED BY <4>4, <4>5, <4>6, <4>7, Zenon
    <3> QED BY <3>1, <3>3, <3>4
  <2>13. state' # "idle" => state' \in Pre /\ A(StartCycles + 1 - psCnt)' + 17 <= KernelTime'
    BY <2>12
  <2>14. /\ (beginTemp'[1] <=> psCnt' >= 1) /\ (beginTemp'[2] <=> psCnt' >= 2)
         /\ (beginTemp'[3] <=> psCnt' >= 3) /\ (posR' <=> psCnt' = 3)
         /\ beginR'[1] => psCnt' >= 1
         /\ beginR'[2] => beginR'[1]
         /\ beginR'[3] => beginR'[2]
    BY <2>3, <2>4
  <2> QED BY <2>14, <2>10, <2>11, <2>13
<1>3. CASE ps \notin {"gap", "start"}
  BY <1>3, PsMoves, Ranges DEF Tick
<1> QED BY <1>1, <1>2, <1>3

(* What is left of the start line drains. *)
LEMMA BeginFalls ==
  ASSUME LoopIInv, NEW a, NEW d, NEW done, NEW k, NEW i, NEW m,
         Tick(a, d), Step(a, d, done, k, i, m),
         NEW X \in Int, NEW Y \in Int, Y >= X - Dt, ps # "start", BeginBy(X)
  PROVE  BeginBy(Y)'
<1>1. PICK na \in Int, nd \in Int, na1 \in Int, nd1 \in Int, dt \in Int :
        Clock(na, nd, na1, nd1, dt) /\ Beat(a, d, na, nd, na1, nd1, dt)
  BY Clocks
<1>2. /\ beginTemp[1] => beginTemp[2] /\ na + 5 * (1 - 1) + 12 <= X
      /\ beginTemp[2] => beginTemp[3] /\ na + 5 * (2 - 1) <= X
      /\ beginTemp[3] => na + 5 * (1 - 1) <= X
      /\ beginSlow => beginR[1]
      /\ beginR[1] => beginR[2] /\ (beginSlow \/ nd + 4 * (3 - 1) <= X)
      /\ beginR[2] => beginR[3] /\ (beginR[1] \/ nd + 4 * (2 - 1) <= X)
      /\ beginR[3] => beginR[2] \/ nd + 4 * (1 - 1) <= X
      /\ ~posR
  BY <1>1, Zenon DEF BeginBy, A, D, Clock
<1>3. Y >= X - dt
  BY <1>1, Zenon DEF Clock
<1>4. /\ a => /\ ~beginSlow' /\ ~beginTemp'[1]
              /\ (beginTemp'[2] <=> beginTemp[1]) /\ (beginTemp'[3] <=> beginTemp[2])
              /\ (posR' <=> beginTemp[2] /\ ~beginTemp[3])
      /\ ~a => /\ (beginSlow' <=> beginSlow) /\ (beginTemp'[1] <=> beginTemp[1])
               /\ (beginTemp'[2] <=> beginTemp[2]) /\ (beginTemp'[3] <=> beginTemp[3])
               /\ (posR' <=> posR)
      /\ d => /\ (beginR'[1] <=> beginSlow) /\ (beginR'[2] <=> beginR[1])
              /\ (beginR'[3] <=> beginR[2])
      /\ ~d => /\ (beginR'[1] <=> beginR[1]) /\ (beginR'[2] <=> beginR[2])
               /\ (beginR'[3] <=> beginR[3])
      /\ (beginSlow <=> beginTemp[1])
  <2>1. (beginSlow <=> beginTemp[1])
    BY Zenon DEF LoopIInv, Begins
  <2> QED BY <2>1, BeginMoves
<1>5. /\ beginTemp'[1] => beginTemp'[2] /\ na1 + 5 * (1 - 1) + 12 <= Y
      /\ beginTemp'[2] => beginTemp'[3] /\ na1 + 5 * (2 - 1) <= Y
      /\ beginTemp'[3] => na1 + 5 * (1 - 1) <= Y
      /\ ~posR'
  BY <1>1, <1>2, <1>3, <1>4, SMT DEF Beat
<1>6. /\ beginSlow' => beginR'[1]
      /\ beginR'[1] => beginR'[2] /\ (beginSlow' \/ nd1 + 4 * (3 - 1) <= Y)
      /\ beginR'[2] => beginR'[3] /\ (beginR'[1] \/ nd1 + 4 * (2 - 1) <= Y)
      /\ beginR'[3] => beginR'[2] \/ nd1 + 4 * (1 - 1) <= Y
  BY <1>1, <1>2, <1>3, <1>4, SMT DEF Beat
<1> QED BY <1>1, <1>5, <1>6, Zenon DEF BeginBy, A, D, Clock

(* Between two images the compute side stays at rest. *)
LEMMA RestStays ==
  ASSUME LoopIInv, NEW a, NEW d, NEW done, NEW k, NEW i, NEW m,
         Tick(a, d), Step(a, d, done, k, i, m)
  PROVE  /\ state = "idle" /\ ps # "start" => state' = "idle"
         /\ Rest /\ ps # "start" => Rest'
         /\ ~Rest => ~Rest' \/ (state = "end" /\ state' = "inter" /\ d)
         /\ state = "inter" => Rest'
<1>1. BeginInter => state = "idle" /\ ps = "start"
  BY PulsesAsked DEF LoopIInv, LoopTypeOK, Tick
<1>2. state \in States
  BY Ranges
<1> QED BY <1>1, <1>2, StateMoves, SMT DEF Rest, States, Tick

(* The deadline of what is left of a start: nothing can be left when the kernels
   are read, nor when the PS goes on.                                        *)
LEMMA StartTimePasses ==
  ASSUME LoopIInv, NEW a, NEW d, NEW done, NEW k, NEW i, NEW m,
         Tick(a, d), Step(a, d, done, k, i, m), ps # "start"
  PROVE  StartTime \in Nat /\ StartTime' \in Nat /\ StartTime' >= StartTime - Dt
<1>1. KernelTime \in Nat /\ KernelTime' \in Nat
  <2>1. KernelTime' = KernelTime - Dt \/ KernelTime' = 4 * HeadDelay + 12 \/ state' \notin Pre
    BY KernelTimePasses, Zenon
  <2>2. state \in Pre => KernelTime >= Dt
    BY KernelTimePasses, Zenon
  <2>3. headDelayCnt' \in 0..HeadDelay
    BY StateMoves, Ranges, Numbers, SMT DEF HeadDelayNext, Tick
  <2>4. KernelTime' \in Nat
    BY <2>3, Ranges, Numbers, SMT DEF KernelTime, D, Tick
  <2> QED BY <2>4, KernelTimePasses
<1>2. StartTime \in Nat /\ StartTime' \in Nat
  BY <1>1, SMT DEF StartTime
<1>3. Dt \in Nat
  BY SMT DEF Tick
<1>4. CASE ps = "wait_rise" /\ state \in Pre
  <2>1. CASE state' \in Pre
    <3>1. ps' = "wait_rise"
      <4>1. ~finishSlow[3]
        BY <1>4, Zenon DEF LoopIInv, Finishes, Rest, Pre
      <4> QED BY <1>4, <4>1, PsMoves, Zenon
    <3>2. StartTime = KernelTime /\ StartTime' = KernelTime'
      BY <1>4, <2>1, <3>1, Zenon DEF StartTime
    <3>3. KernelTime' = KernelTime - Dt
      BY <1>4, <2>1, KernelTimePasses
    <3> QED BY <1>1, <1>2, <1>3, <3>2, <3>3, SMT
  <2>2. CASE state' \notin Pre
    <3>1. state = "wait_add_zero" /\ state' # "wait_add_zero"
      BY <1>4, <2>2, StateMoves, Zenon DEF Pre, Tick
    <3>2. KernelTime = Dt
      BY <3>1, KernelTimePasses
    <3>3. StartTime = KernelTime
      BY <1>4, Zenon DEF StartTime
    <3> QED BY <1>2, <1>3, <3>2, <3>3, SMT
  <2> QED BY <2>1, <2>2
<1>5. CASE ~(ps = "wait_rise" /\ state \in Pre)
  <2>1. StartTime = 0
    BY <1>5, Zenon DEF StartTime
  <2> QED BY <1>2, <1>3, <2>1, SMT
<1> QED BY <1>2, <1>4, <1>5

(* The start pulse is longer than the way of the begin to the compute side. *)
LEMMA StartEnds ==
  ASSUME LoopIInv, NEW a, NEW d, NEW done, NEW k, NEW i, NEW m,
         Tick(a, d), Step(a, d, done, k, i, m), ps = "start", ps' # "start"
  PROVE  /\ a /\ psCnt = StartCycles /\ ps' = "wait_rise"
         /\ beginTemp[1] /\ beginTemp[2] /\ beginTemp[3] /\ ~posR /\ beginSlow
         /\ beginR[1] /\ beginR[2] /\ beginR[3]
         /\ state \in Pre /\ state' \in Pre /\ NextAxi + 17 <= KernelTime
<1>1. a /\ psCnt = StartCycles /\ ps' = "wait_rise"
  BY PsMoves DEF Tick
<1>2. PICK na \in Int, nd \in Int, na1 \in Int, nd1 \in Int, dt \in Int :
        Clock(na, nd, na1, nd1, dt) /\ Beat(a, d, na, nd, na1, nd1, dt)
  BY Clocks
<1>3. /\ beginTemp[1] /\ beginTemp[2] /\ beginTemp[3] /\ ~posR /\ beginSlow
      /\ beginR[1] /\ beginR[2] /\ beginR[3]
      /\ state \in Pre /\ A(StartCycles + 1 - psCnt) + 17 <= KernelTime
  <2>1. PICK p \in Int : p = psCnt
    BY Ranges, SMT
  <2>2. p >= 10
    BY <1>1, <2>1, Numbers, Zenon
  <2>3. /\ beginSlow <=> beginTemp[1]
        /\ (beginTemp[1] <=> p >= 1) /\ (beginTemp[2] <=> p >= 2)
        /\ (beginTemp[3] <=> p >= 3) /\ (posR <=> p = 3)
        /\ p >= 1 /\ ~beginR[1] => nd + 4 * (3 - 1) <= na + 5 * (4 - p - 1)
        /\ beginR[1] /\ ~beginR[2] => nd + 4 * (2 - 1) <= na + 5 * (4 - p - 1)
        /\ beginR[2] /\ ~beginR[3] => nd + 4 * (1 - 1) <= na + 5 * (4 - p - 1)
    BY <1>2, <2>1, Zenon DEF LoopIInv, Begins, A, D, Clock
  <2>4. beginTemp[1] /\ beginTemp[2] /\ beginTemp[3] /\ ~posR /\ beginSlow
    BY <2>2, <2>3, SMT
  <2>5. beginR[1] /\ beginR[2] /\ beginR[3]
    BY <1>2, <2>2, <2>3, SMT DEF Beat
  <2> QED BY <2>4, <2>5, Zenon DEF LoopIInv, Begins
<1>4. PICK kt \in Int, kt1 \in Int : kt = KernelTime /\ kt1 = kt - dt
  BY <1>2, KernelTimePasses, SMT DEF Beat
<1>5. A(StartCycles + 1 - psCnt) = na
  <2>1. StartCycles + 1 - psCnt = 1
    BY <1>1, Numbers, SMT
  <2>2. na + 5 * (1 - 1) = na
    BY <1>2, SMT DEF Beat
  <2> QED BY <1>2, <2>1, <2>2, Zenon DEF A, Clock
<1>6. na + 17 <= kt /\ dt = na
  BY <1>1, <1>2, <1>3, <1>4, <1>5, Zenon DEF Beat
<1>7. state' \in Pre
  <2>1. state = "wait_add_zero" /\ state' # "wait_add_zero" => kt = dt
    BY <1>2, <1>4, KernelTimePasses, Zenon DEF Clock
  <2>2. kt # dt
    BY <1>2, <1>6, SMT DEF Beat
  <2> QED BY <1>3, <2>1, <2>2, StateMoves, Zenon DEF Pre, Tick
<1>8. NextAxi + 17 <= KernelTime
  BY <1>2, <1>4, <1>6, Zenon DEF Clock
<1> QED BY <1>1, <1>3, <1>7, <1>8

(* Begins is kept. *)
LEMMA BeginsStep ==
  ASSUME LoopIInv, NEW a, NEW d, NEW done, NEW k, NEW i, NEW m,
         Tick(a, d), Step(a, d, done, k, i, m)
  PROVE  Begins'
<1>1. beginSlow' <=> beginTemp'[1]
  <2>1. beginSlow <=> beginTemp[1]
    BY Zenon DEF LoopIInv, Begins
  <2> QED BY <2>1, BeginMoves
<1>2. ASSUME ps' # "start" PROVE BeginBy(StartTime)'
  <2>1. CASE ps # "start"
    <3>1. PICK X \in Int, Y \in Int : X = StartTime /\ Y = StartTime'
      BY <2>1, StartTimePasses
    <3>2. BeginBy(X)
      <4>1. BeginBy(StartTime)
        BY <2>1, Zenon DEF LoopIInv, Begins
      <4> QED BY <3>1, <4>1, Zenon
    <3>3. Y >= X - Dt
      BY <2>1, <3>1, StartTimePasses, Zenon
    <3>4. BeginBy(Y)'
      BY <2>1, <3>2, <3>3, BeginFalls
    <3> QED BY <3>1, <3>4, Zenon DEF BeginBy
  <2>2. CASE ps = "start"
    <3>1. a /\ psCnt = StartCycles /\ ps' = "wait_rise"
      BY <1>2, <2>2, StartEnds
    <3>2. PICK na \in Int, nd \in Int, na1 \in Int, nd1 \in Int, dt \in Int :
            Clock(na, nd, na1, nd1, dt) /\ Beat(a, d, na, nd, na1, nd1, dt)
      BY Clocks
    <3>3. /\ beginTemp[1] /\ beginTemp[2] /\ beginTemp[3] /\ ~posR /\ beginSlow
          /\ beginR[1] /\ beginR[2] /\ beginR[3]
          /\ state \in Pre /\ state' \in Pre /\ NextAxi + 17 <= KernelTime
      BY <1>2, <2>2, StartEnds
    <3>4. PICK kt \in Int, kt1 \in Int : kt = KernelTime /\ kt1 = kt - dt
      BY <3>2, KernelTimePasses, SMT DEF Beat
    <3>6. na + 17 <= kt /\ dt = na
      BY <3>1, <3>2, <3>3, <3>4, Zenon DEF Beat, Clock
    <3>7. state' \in Pre
      BY <3>3
    <3>8. StartTime' = kt1
      <4>1. StartTime' = KernelTime'
        BY <3>1, <3>7, Zenon DEF StartTime
      <4>2. KernelTime' = KernelTime - Dt
        BY <3>3, <3>7, KernelTimePasses
      <4> QED BY <3>2, <3>4, <4>1, <4>2, Zenon DEF Clock
    <3>9. /\ beginTemp'[1] /\ beginTemp'[2] /\ beginTemp'[3] /\ ~posR' /\ beginSlow'
          /\ beginR'[1] /\ beginR'[2] /\ beginR'[3]
      BY <2>2, <3>1, <3>3, BeginMoves DEF Tick
    <3>10. na1 + 5 * (1 - 1) + 12 <= kt1 /\ na1 + 5 * (2 - 1) <= kt1 /\ na1 + 5 * (1 - 1) <= kt1
      BY <3>1, <3>2, <3>4, <3>6, SMT DEF Beat
    <3>11. A(1)' + 12 <= StartTime' /\ A(2)' <= StartTime' /\ A(1)' <= StartTime'
      BY <3>2, <3>8, <3>10, Zenon DEF A, Clock
    <3> QED BY <3>9, <3>11, Zenon DEF BeginBy
  <2> QED BY <2>1, <2>2
<1>3. ps' \in {"wait_fall", "gap"} => Rest'
  <2>1. ps' \in {"wait_fall", "gap"} => Rest /\ ps # "start"
    <3>1. finishSlow[3] => Rest
      BY Zenon DEF LoopIInv, Finishes
    <3>2. ps \in {"wait_fall", "gap"} => Rest
      BY Zenon DEF LoopIInv, Begins
    <3> QED BY <3>1, <3>2, PsMoves, Ranges DEF Tick
  <2> QED BY <2>1, RestStays
<1>4. ps' = "gap" => state' = "idle"
  <2>1. ps = "gap" => state = "idle"
    BY Zenon DEF LoopIInv, Begins
  <2>2. ps = "wait_fall" /\ ~finishSlow[3] => state = "idle"
    BY Zenon DEF LoopIInv, Begins, Finishes, Rest
  <2> QED BY <2>1, <2>2, RestStays, PsMoves, Ranges DEF Tick
<1>5. ps' \in {"wait_rise", "wait_fall"} => psCnt' = 0
  <2>1. ps \in {"wait_rise", "wait_fall"} => psCnt = 0
    BY Zenon DEF LoopIInv, Begins
  <2> QED BY <2>1, PsMoves, Ranges DEF Tick
<1> QED BY <1>1, <1>2, <1>3, <1>4, <1>5, BeginRises DEF Begins

(* Finishes is kept. *)
LEMMA FinishesStep ==
  ASSUME LoopIInv, NEW a, NEW d, NEW done, NEW k, NEW i, NEW m,
         Tick(a, d), Step(a, d, done, k, i, m)
  PROVE  Finishes'
<1>1. ASSUME a
      PROVE  /\ finishSlow'[1] <=> state = "inter"
             /\ finishSlow'[2] <=> finishSlow[1]
             /\ finishSlow'[3] <=> finishSlow[2]
  BY <1>1, AxiChains DEF Step, LoopIInv
<1>2. ASSUME ~a
      PROVE  /\ finishSlow'[1] <=> finishSlow[1]
             /\ finishSlow'[2] <=> finishSlow[2]
             /\ finishSlow'[3] <=> finishSlow[3]
  <2>1. finishSlow' = finishSlow
    BY <1>2, Zenon DEF Step, axiVars
  <2> QED BY <2>1, Zenon
<1>3. /\ state = "inter" => (finishSlow[3] => finishSlow[2]) /\ (finishSlow[2] => finishSlow[1])
      /\ finishSlow[1] /\ finishSlow[3] => finishSlow[2]
      /\ ~Rest \/ ps \in {"start", "gap"} => ~finishSlow[1] /\ ~finishSlow[2] /\ ~finishSlow[3]
      /\ ps = "wait_fall" => /\ finishSlow[1] => finishSlow[2]
                             /\ finishSlow[2] => finishSlow[3]
                             /\ state = "inter" => finishSlow[1]
  BY Zenon DEF LoopIInv, Finishes
<1>4. /\ ps \in {"wait_fall", "gap"} => Rest
      /\ ps = "gap" => state = "idle"
      /\ ps = "start" => state # "inter"
      /\ state = "inter" => Rest
      /\ state = "end" => ~Rest
  BY Zenon DEF LoopIInv, Begins, Rest, Pre
<1>5. state' = "inter" => state = "inter" \/ state = "end"
  BY StateMoves, Ranges DEF States, Tick
<1>6. Rest /\ ~Rest' => ps = "start"
  BY RestStays
<1>7. state' = "inter" => (finishSlow'[3] => finishSlow'[2])
           /\ (finishSlow'[2] => finishSlow'[1])
  BY <1>1, <1>2, <1>3, <1>4, <1>5, Zenon
<1>8. finishSlow'[1] /\ finishSlow'[3] => finishSlow'[2]
  BY <1>1, <1>2, <1>3, <1>4, <1>5, Zenon
<1>9. ps' \in {"start", "gap"} => ps \in {"start", "gap"}
           \/ (ps = "wait_fall" /\ a /\ ~finishSlow[3])
  BY PsMoves, Ranges DEF Tick
<1>10. ASSUME ~Rest' \/ ps' \in {"start", "gap"}
       PROVE  ~finishSlow'[1] /\ ~finishSlow'[2] /\ ~finishSlow'[3]
  <2>1. CASE ~Rest \/ ps \in {"start", "gap"}
    BY <1>1, <1>2, <1>3, <1>4, <2>1 DEF Rest
  <2>2. CASE ps = "wait_fall" /\ a /\ ~finishSlow[3]
    BY <1>1, <1>2, <1>3, <1>4, <2>2
  <2> QED BY <1>6, <1>9, <1>10, <2>1, <2>2
<1>11. ps' = "wait_fall" => ps = "wait_fall" \/ (ps = "wait_rise" /\ a /\ finishSlow[3])
  BY PsMoves, Ranges DEF Tick
<1>12. ASSUME ps' = "wait_fall"
       PROVE  /\ finishSlow'[1] => finishSlow'[2]
              /\ finishSlow'[2] => finishSlow'[3]
              /\ state' = "inter" => finishSlow'[1]
  <2>1. CASE ps = "wait_fall"
    BY <1>1, <1>2, <1>3, <1>4, <1>5, <2>1
  <2>2. CASE ps = "wait_rise" /\ a /\ finishSlow[3]
    BY <1>1, <1>2, <1>3, <1>4, <1>5, <2>2
  <2> QED BY <1>11, <1>12, <2>1, <2>2
<1> QED BY <1>7, <1>8, <1>10, <1>12, Zenon DEF Finishes

-----------------------------------------------------------------------------
(* The end of the network. *)

(* A step, as the handshake of algorithm_finish sees it. *)
LEMMA AlgMoves ==
  ASSUME LoopIInv, NEW a, NEW d, NEW done, NEW k, NEW i, NEW m,
         Tick(a, d), Step(a, d, done, k, i, m)
  PROVE  /\ a => /\ (algReqR'[1] <=> algReq) /\ (algReqR'[2] <=> algReqR[1])
                 /\ (algAck' <=> algReqR[2])
                 /\ (beginFlag' <=> beginTemp[2] \/ (beginFlag /\ ~algReqR[2]))
         /\ ~a => /\ (algReqR'[1] <=> algReqR[1]) /\ (algReqR'[2] <=> algReqR[2])
                  /\ (algAck' <=> algAck) /\ (beginFlag' <=> beginFlag)
         /\ d => /\ (algReq' <=> algorithmFinish \/ (algReq /\ ~algAckR[2]))
                 /\ (algAckR'[1] <=> algAck) /\ (algAckR'[2] <=> algAckR[1])
                 /\ (algorithmFinish' <=> AlgorithmFinishTemp)
         /\ ~d => /\ (algReq' <=> algReq) /\ (algorithmFinish' <=> algorithmFinish)
                  /\ (algAckR'[1] <=> algAckR[1]) /\ (algAckR'[2] <=> algAckR[2])
<1>1. LoopTypeOK
  BY DEF LoopIInv
<1>2. ASSUME a
      PROVE  /\ (algReqR'[1] <=> algReq) /\ (algReqR'[2] <=> algReqR[1])
             /\ (algAck' <=> algReqR[2])
             /\ (beginFlag' <=> beginTemp[2] \/ (beginFlag /\ ~algReqR[2]))
  <2>1. AxiEdge(done)
    BY <1>2 DEF Step
  <2>2. algAck' = algReqR[2] /\ beginFlag' = (beginTemp[2] \/ (beginFlag /\ ~algReqR[2]))
    BY <2>1, Zenon DEF AxiEdge, Transfer!Clk, Transfer!BeginFlagNext
  <2> QED BY <1>1, <2>1, <2>2, AxiChains
<1>3. ASSUME ~a
      PROVE  /\ (algReqR'[1] <=> algReqR[1]) /\ (algReqR'[2] <=> algReqR[2])
             /\ (algAck' <=> algAck) /\ (beginFlag' <=> beginFlag)
  <2>1. algReqR' = algReqR /\ algAck' = algAck /\ beginFlag' = beginFlag
    BY <1>3, Zenon DEF Step, axiVars
  <2> QED BY <2>1, Zenon
<1>4. ASSUME d
      PROVE  /\ (algReq' <=> algorithmFinish \/ (algReq /\ ~algAckR[2]))
             /\ (algAckR'[1] <=> algAck) /\ (algAckR'[2] <=> algAckR[1])
             /\ (algorithmFinish' <=> AlgorithmFinishTemp)
  <2>1. DealEdge(k, i, m)
    BY <1>4 DEF Step
  <2>2. algReq' = (algorithmFinish \/ (algReq /\ ~algAckR[2]))
             /\ algorithmFinish' = AlgorithmFinishTemp
    BY <2>1, Zenon DEF DealEdge, Requests, Clk
  <2> QED BY <1>1, <2>1, <2>2, DealChains
<1>5. ASSUME ~d
      PROVE  /\ (algReq' <=> algReq) /\ (algorithmFinish' <=> algorithmFinish)
             /\ (algAckR'[1] <=> algAckR[1]) /\ (algAckR'[2] <=> algAckR[2])
  <2>1. algReq' = algReq /\ algorithmFinish' = algorithmFinish /\ algAckR' = algAckR
    BY <1>5, Zenon DEF Step, dealVars
  <2> QED BY <2>1, Zenon
<1> QED BY <1>2, <1>3, <1>4, <1>5

(* The shapes of the handshake, register by register. *)
LEMMA AlgShapes ==
  /\ AlgUp(0) <=> ~algReq /\ ~algReqR[1] /\ ~algReqR[2] /\ ~algAck /\ ~algAckR[1] /\ ~algAckR[2]
  /\ AlgUp(0)' <=> ~algReq' /\ ~algReqR'[1] /\ ~algReqR'[2] /\ ~algAck' /\ ~algAckR'[1]
       /\ ~algAckR'[2]
  /\ AlgUp(1) <=> algReq /\ ~algReqR[1] /\ ~algReqR[2] /\ ~algAck /\ ~algAckR[1] /\ ~algAckR[2]
  /\ AlgUp(1)' <=> algReq' /\ ~algReqR'[1] /\ ~algReqR'[2] /\ ~algAck' /\ ~algAckR'[1]
       /\ ~algAckR'[2]
  /\ AlgUp(2) <=> algReq /\ algReqR[1] /\ ~algReqR[2] /\ ~algAck /\ ~algAckR[1] /\ ~algAckR[2]
  /\ AlgUp(2)' <=> algReq' /\ algReqR'[1] /\ ~algReqR'[2] /\ ~algAck' /\ ~algAckR'[1]
       /\ ~algAckR'[2]
  /\ AlgUp(3) <=> algReq /\ algReqR[1] /\ algReqR[2] /\ ~algAck /\ ~algAckR[1] /\ ~algAckR[2]
  /\ AlgUp(3)' <=> algReq' /\ algReqR'[1] /\ algReqR'[2] /\ ~algAck' /\ ~algAckR'[1]
       /\ ~algAckR'[2]
  /\ AlgUp(4) <=> algReq /\ algReqR[1] /\ algReqR[2] /\ algAck /\ ~algAckR[1] /\ ~algAckR[2]
  /\ AlgUp(4)' <=> algReq' /\ algReqR'[1] /\ algReqR'[2] /\ algAck' /\ ~algAckR'[1]
       /\ ~algAckR'[2]
  /\ AlgUp(5) <=> algReq /\ algReqR[1] /\ algReqR[2] /\ algAck /\ algAckR[1] /\ ~algAckR[2]
  /\ AlgUp(5)' <=> algReq' /\ algReqR'[1] /\ algReqR'[2] /\ algAck' /\ algAckR'[1]
       /\ ~algAckR'[2]
  /\ AlgUp(6) <=> algReq /\ algReqR[1] /\ algReqR[2] /\ algAck /\ algAckR[1] /\ algAckR[2]
  /\ AlgUp(6)' <=> algReq' /\ algReqR'[1] /\ algReqR'[2] /\ algAck' /\ algAckR'[1]
       /\ algAckR'[2]
  /\ AlgDown(1) <=> ~algReq /\ algReqR[1] /\ algReqR[2] /\ algAck /\ algAckR[1] /\ algAckR[2]
  /\ AlgDown(1)' <=> ~algReq' /\ algReqR'[1] /\ algReqR'[2] /\ algAck' /\ algAckR'[1]
       /\ algAckR'[2]
  /\ AlgDown(2) <=> ~algReq /\ ~algReqR[1] /\ algReqR[2] /\ algAck /\ algAckR[1] /\ algAckR[2]
  /\ AlgDown(2)' <=> ~algReq' /\ ~algReqR'[1] /\ algReqR'[2] /\ algAck' /\ algAckR'[1]
       /\ algAckR'[2]
  /\ AlgDown(3) <=> ~algReq /\ ~algReqR[1] /\ ~algReqR[2] /\ algAck /\ algAckR[1] /\ algAckR[2]
  /\ AlgDown(3)' <=> ~algReq' /\ ~algReqR'[1] /\ ~algReqR'[2] /\ algAck' /\ algAckR'[1]
       /\ algAckR'[2]
  /\ AlgDown(4) <=> ~algReq /\ ~algReqR[1] /\ ~algReqR[2] /\ ~algAck /\ algAckR[1] /\ algAckR[2]
  /\ AlgDown(4)' <=> ~algReq' /\ ~algReqR'[1] /\ ~algReqR'[2] /\ ~algAck' /\ algAckR'[1]
       /\ algAckR'[2]
  /\ AlgDown(5) <=> ~algReq /\ ~algReqR[1] /\ ~algReqR[2] /\ ~algAck /\ ~algAckR[1]
       /\ algAckR[2]
  /\ AlgDown(5)' <=> ~algReq' /\ ~algReqR'[1] /\ ~algReqR'[2] /\ ~algAck' /\ ~algAckR'[1]
       /\ algAckR'[2]
<1>1. /\ AlgUp(0) <=> ~algReq /\ ~algReqR[1] /\ ~algReqR[2] /\ ~algAck /\ ~algAckR[1]
           /\ ~algAckR[2]
      /\ AlgUp(0)' <=> ~algReq' /\ ~algReqR'[1] /\ ~algReqR'[2] /\ ~algAck' /\ ~algAckR'[1]
           /\ ~algAckR'[2]
  BY SMT DEF AlgUp
<1>2. /\ AlgUp(1) <=> algReq /\ ~algReqR[1] /\ ~algReqR[2] /\ ~algAck /\ ~algAckR[1]
           /\ ~algAckR[2]
      /\ AlgUp(1)' <=> algReq' /\ ~algReqR'[1] /\ ~algReqR'[2] /\ ~algAck' /\ ~algAckR'[1]
           /\ ~algAckR'[2]
  BY SMT DEF AlgUp
<1>3. /\ AlgUp(2) <=> algReq /\ algReqR[1] /\ ~algReqR[2] /\ ~algAck /\ ~algAckR[1]
           /\ ~algAckR[2]
      /\ AlgUp(2)' <=> algReq' /\ algReqR'[1] /\ ~algReqR'[2] /\ ~algAck' /\ ~algAckR'[1]
           /\ ~algAckR'[2]
  BY SMT DEF AlgUp
<1>4. /\ AlgUp(3) <=> algReq /\ algReqR[1] /\ algReqR[2] /\ ~algAck /\ ~algAckR[1]
           /\ ~algAckR[2]
      /\ AlgUp(3)' <=> algReq' /\ algReqR'[1] /\ algReqR'[2] /\ ~algAck' /\ ~algAckR'[1]
           /\ ~algAckR'[2]
  BY SMT DEF AlgUp
<1>5. /\ AlgUp(4) <=> algReq /\ algReqR[1] /\ algReqR[2] /\ algAck /\ ~algAckR[1] /\ ~algAckR[2]
      /\ AlgUp(4)' <=> algReq' /\ algReqR'[1] /\ algReqR'[2] /\ algAck' /\ ~algAckR'[1]
           /\ ~algAckR'[2]
  BY SMT DEF AlgUp
<1>6. /\ AlgUp(5) <=> algReq /\ algReqR[1] /\ algReqR[2] /\ algAck /\ algAckR[1] /\ ~algAckR[2]
      /\ AlgUp(5)' <=> algReq' /\ algReqR'[1] /\ algReqR'[2] /\ algAck' /\ algAckR'[1]
           /\ ~algAckR'[2]
  BY SMT DEF AlgUp
<1>7. /\ AlgUp(6) <=> algReq /\ algReqR[1] /\ algReqR[2] /\ algAck /\ algAckR[1] /\ algAckR[2]
      /\ AlgUp(6)' <=> algReq' /\ algReqR'[1] /\ algReqR'[2] /\ algAck' /\ algAckR'[1]
           /\ algAckR'[2]
  BY SMT DEF AlgUp
<1>8. /\ AlgDown(1) <=> ~algReq /\ algReqR[1] /\ algReqR[2] /\ algAck /\ algAckR[1]
           /\ algAckR[2]
      /\ AlgDown(1)' <=> ~algReq' /\ algReqR'[1] /\ algReqR'[2] /\ algAck' /\ algAckR'[1]
           /\ algAckR'[2]
  BY SMT DEF AlgDown
<1>9. /\ AlgDown(2) <=> ~algReq /\ ~algReqR[1] /\ algReqR[2] /\ algAck /\ algAckR[1]
           /\ algAckR[2]
      /\ AlgDown(2)' <=> ~algReq' /\ ~algReqR'[1] /\ algReqR'[2] /\ algAck' /\ algAckR'[1]
           /\ algAckR'[2]
  BY SMT DEF AlgDown
<1>10. /\ AlgDown(3) <=> ~algReq /\ ~algReqR[1] /\ ~algReqR[2] /\ algAck /\ algAckR[1]
            /\ algAckR[2]
       /\ AlgDown(3)' <=> ~algReq' /\ ~algReqR'[1] /\ ~algReqR'[2] /\ algAck'
            /\ algAckR'[1] /\ algAckR'[2]
  BY SMT DEF AlgDown
<1>11. /\ AlgDown(4) <=> ~algReq /\ ~algReqR[1] /\ ~algReqR[2] /\ ~algAck /\ algAckR[1]
            /\ algAckR[2]
       /\ AlgDown(4)' <=> ~algReq' /\ ~algReqR'[1] /\ ~algReqR'[2] /\ ~algAck'
            /\ algAckR'[1] /\ algAckR'[2]
  BY SMT DEF AlgDown
<1>12. /\ AlgDown(5) <=> ~algReq /\ ~algReqR[1] /\ ~algReqR[2] /\ ~algAck /\ ~algAckR[1]
            /\ algAckR[2]
       /\ AlgDown(5)' <=> ~algReq' /\ ~algReqR'[1] /\ ~algReqR'[2] /\ ~algAck'
            /\ ~algAckR'[1] /\ algAckR'[2]
  BY SMT DEF AlgDown
<1> QED BY <1>1, <1>2, <1>3, <1>4, <1>5, <1>6, <1>7, <1>8, <1>9, <1>10, <1>11, <1>12

(* The handshake goes on to its end in time. *)
LEMMA AlgFalls ==
  ASSUME LoopIInv, NEW a, NEW d, NEW done, NEW k, NEW i, NEW m,
         Tick(a, d), Step(a, d, done, k, i, m),
         NEW X \in Int, NEW Y \in Int, Y >= X - Dt, AlgBy(X),
         d => ~AlgorithmFinishTemp
  PROVE  AlgBy(Y)'
<1>1. PICK na \in Int, nd \in Int, na1 \in Int, nd1 \in Int, dt \in Int :
        Clock(na, nd, na1, nd1, dt) /\ Beat(a, d, na, nd, na1, nd1, dt)
  BY Clocks
<1>2. Y >= X - dt
  BY <1>1, Zenon DEF Clock
<1>3. CASE ~algorithmFinish /\ AlgUp(0)
  <2>1. ~algorithmFinish' /\ AlgUp(0)'
    BY <1>3, AlgMoves, AlgShapes DEF Tick
  <2> QED BY <2>1, Zenon DEF AlgBy
<1>4. CASE algorithmFinish /\ AlgUp(0) /\ D(1) + 50 <= X
  <2>1. nd + 4 * (1 - 1) + 50 <= X
    BY <1>1, <1>4, Zenon DEF D, Clock
  <2>2. \/ algorithmFinish' /\ AlgUp(0)' /\ nd1 + 4 * (1 - 1) + 50 <= Y
        \/ ~algorithmFinish' /\ AlgUp(1)' /\ na1 + 5 * (1 - 1) + 45 <= Y
    <3>1. algorithmFinish /\ AlgUp(0)
      BY <1>4
    <3>2. CASE d
      <4>1. ~algorithmFinish' /\ AlgUp(1)'
        BY <3>1, <3>2, AlgMoves, AlgShapes DEF Tick
      <4>2. na1 + 5 * (1 - 1) + 45 <= Y
        BY <1>1, <1>2, <2>1, <3>2, SMT DEF Beat
      <4> QED BY <4>1, <4>2
    <3>3. CASE ~d
      <4>1. algorithmFinish' /\ AlgUp(0)'
        BY <3>1, <3>3, AlgMoves, AlgShapes DEF Tick
      <4>2. nd1 + 4 * (1 - 1) + 50 <= Y
        BY <1>1, <1>2, <2>1, <3>3, SMT DEF Beat
      <4> QED BY <4>1, <4>2
    <3> QED BY <3>2, <3>3
  <2> QED BY <1>1, <2>2, Zenon DEF AlgBy, A, D, Clock
<1>5. CASE ~algorithmFinish /\ AlgUp(1) /\ A(1) + 45 <= X
  <2>1. na + 5 * (1 - 1) + 45 <= X
    BY <1>1, <1>5, Zenon DEF A, D, Clock
  <2>2. ~algorithmFinish /\ AlgUp(1)
    BY <1>5
  <2>3. CASE a
    <3>1. ~algorithmFinish' /\ AlgUp(2)'
      BY <2>2, <2>3, AlgMoves, AlgShapes DEF Tick
    <3>2. na1 + 5 * (1 - 1) + 40 <= Y
      BY <1>1, <1>2, <2>1, <2>3, SMT DEF Beat
    <3> QED BY <1>1, <3>1, <3>2, Zenon DEF AlgBy, A, D, Clock
  <2>4. CASE ~a
    <3>1. ~algorithmFinish' /\ AlgUp(1)'
      BY <2>2, <2>4, AlgMoves, AlgShapes DEF Tick
    <3>2. na1 + 5 * (1 - 1) + 45 <= Y
      BY <1>1, <1>2, <2>1, <2>4, SMT DEF Beat
    <3> QED BY <1>1, <3>1, <3>2, Zenon DEF AlgBy, A, D, Clock
  <2> QED BY <2>3, <2>4
<1>6. CASE ~algorithmFinish /\ AlgUp(2) /\ A(1) + 40 <= X
  <2>1. na + 5 * (1 - 1) + 40 <= X
    BY <1>1, <1>6, Zenon DEF A, D, Clock
  <2>2. ~algorithmFinish /\ AlgUp(2)
    BY <1>6
  <2>3. CASE a
    <3>1. ~algorithmFinish' /\ AlgUp(3)'
      BY <2>2, <2>3, AlgMoves, AlgShapes DEF Tick
    <3>2. na1 + 5 * (1 - 1) + 35 <= Y
      BY <1>1, <1>2, <2>1, <2>3, SMT DEF Beat
    <3> QED BY <1>1, <3>1, <3>2, Zenon DEF AlgBy, A, D, Clock
  <2>4. CASE ~a
    <3>1. ~algorithmFinish' /\ AlgUp(2)'
      BY <2>2, <2>4, AlgMoves, AlgShapes DEF Tick
    <3>2. na1 + 5 * (1 - 1) + 40 <= Y
      BY <1>1, <1>2, <2>1, <2>4, SMT DEF Beat
    <3> QED BY <1>1, <3>1, <3>2, Zenon DEF AlgBy, A, D, Clock
  <2> QED BY <2>3, <2>4
<1>7. CASE ~algorithmFinish /\ AlgUp(3) /\ A(1) + 35 <= X
  <2>1. na + 5 * (1 - 1) + 35 <= X
    BY <1>1, <1>7, Zenon DEF A, D, Clock
  <2>2. ~algorithmFinish /\ AlgUp(3)
    BY <1>7
  <2>3. CASE a
    <3>1. ~algorithmFinish' /\ AlgUp(4)'
      BY <2>2, <2>3, AlgMoves, AlgShapes DEF Tick
    <3>2. nd1 + 4 * (1 - 1) + 31 <= Y
      BY <1>1, <1>2, <2>1, <2>3, SMT DEF Beat
    <3> QED BY <1>1, <3>1, <3>2, Zenon DEF AlgBy, A, D, Clock
  <2>4. CASE ~a
    <3>1. ~algorithmFinish' /\ AlgUp(3)'
      BY <2>2, <2>4, AlgMoves, AlgShapes DEF Tick
    <3>2. na1 + 5 * (1 - 1) + 35 <= Y
      BY <1>1, <1>2, <2>1, <2>4, SMT DEF Beat
    <3> QED BY <1>1, <3>1, <3>2, Zenon DEF AlgBy, A, D, Clock
  <2> QED BY <2>3, <2>4
<1>8. CASE ~algorithmFinish /\ AlgUp(4) /\ D(1) + 31 <= X
  <2>1. nd + 4 * (1 - 1) + 31 <= X
    BY <1>1, <1>8, Zenon DEF A, D, Clock
  <2>2. ~algorithmFinish /\ AlgUp(4)
    BY <1>8
  <2>3. CASE d
    <3>1. ~algorithmFinish' /\ AlgUp(5)'
      BY <2>2, <2>3, AlgMoves, AlgShapes DEF Tick
    <3>2. nd1 + 4 * (1 - 1) + 27 <= Y
      BY <1>1, <1>2, <2>1, <2>3, SMT DEF Beat
    <3> QED BY <1>1, <3>1, <3>2, Zenon DEF AlgBy, A, D, Clock
  <2>4. CASE ~d
    <3>1. ~algorithmFinish' /\ AlgUp(4)'
      BY <2>2, <2>4, AlgMoves, AlgShapes DEF Tick
    <3>2. nd1 + 4 * (1 - 1) + 31 <= Y
      BY <1>1, <1>2, <2>1, <2>4, SMT DEF Beat
    <3> QED BY <1>1, <3>1, <3>2, Zenon DEF AlgBy, A, D, Clock
  <2> QED BY <2>3, <2>4
<1>9. CASE ~algorithmFinish /\ AlgUp(5) /\ D(1) + 27 <= X
  <2>1. nd + 4 * (1 - 1) + 27 <= X
    BY <1>1, <1>9, Zenon DEF A, D, Clock
  <2>2. ~algorithmFinish /\ AlgUp(5)
    BY <1>9
  <2>3. CASE d
    <3>1. ~algorithmFinish' /\ AlgUp(6)'
      BY <2>2, <2>3, AlgMoves, AlgShapes DEF Tick
    <3>2. nd1 + 4 * (1 - 1) + 23 <= Y
      BY <1>1, <1>2, <2>1, <2>3, SMT DEF Beat
    <3> QED BY <1>1, <3>1, <3>2, Zenon DEF AlgBy, A, D, Clock
  <2>4. CASE ~d
    <3>1. ~algorithmFinish' /\ AlgUp(5)'
      BY <2>2, <2>4, AlgMoves, AlgShapes DEF Tick
    <3>2. nd1 + 4 * (1 - 1) + 27 <= Y
      BY <1>1, <1>2, <2>1, <2>4, SMT DEF Beat
    <3> QED BY <1>1, <3>1, <3>2, Zenon DEF AlgBy, A, D, Clock
  <2> QED BY <2>3, <2>4
<1>10. CASE ~algorithmFinish /\ AlgUp(6) /\ D(1) + 23 <= X
  <2>1. nd + 4 * (1 - 1) + 23 <= X
    BY <1>1, <1>10, Zenon DEF A, D, Clock
  <2>2. ~algorithmFinish /\ AlgUp(6)
    BY <1>10
  <2>3. CASE d
    <3>1. ~algorithmFinish' /\ AlgDown(1)'
      BY <2>2, <2>3, AlgMoves, AlgShapes DEF Tick
    <3>2. na1 + 5 * (1 - 1) + 18 <= Y
      BY <1>1, <1>2, <2>1, <2>3, SMT DEF Beat
    <3> QED BY <1>1, <3>1, <3>2, Zenon DEF AlgBy, A, D, Clock
  <2>4. CASE ~d
    <3>1. ~algorithmFinish' /\ AlgUp(6)'
      BY <2>2, <2>4, AlgMoves, AlgShapes DEF Tick
    <3>2. nd1 + 4 * (1 - 1) + 23 <= Y
      BY <1>1, <1>2, <2>1, <2>4, SMT DEF Beat
    <3> QED BY <1>1, <3>1, <3>2, Zenon DEF AlgBy, A, D, Clock
  <2> QED BY <2>3, <2>4
<1>11. CASE ~algorithmFinish /\ AlgDown(1) /\ A(1) + 18 <= X
  <2>1. na + 5 * (1 - 1) + 18 <= X
    BY <1>1, <1>11, Zenon DEF A, D, Clock
  <2>2. ~algorithmFinish /\ AlgDown(1)
    BY <1>11
  <2>3. CASE a
    <3>1. ~algorithmFinish' /\ AlgDown(2)'
      BY <2>2, <2>3, AlgMoves, AlgShapes DEF Tick
    <3>2. na1 + 5 * (1 - 1) + 13 <= Y
      BY <1>1, <1>2, <2>1, <2>3, SMT DEF Beat
    <3> QED BY <1>1, <3>1, <3>2, Zenon DEF AlgBy, A, D, Clock
  <2>4. CASE ~a
    <3>1. ~algorithmFinish' /\ AlgDown(1)'
      BY <2>2, <2>4, AlgMoves, AlgShapes DEF Tick
    <3>2. na1 + 5 * (1 - 1) + 18 <= Y
      BY <1>1, <1>2, <2>1, <2>4, SMT DEF Beat
    <3> QED BY <1>1, <3>1, <3>2, Zenon DEF AlgBy, A, D, Clock
  <2> QED BY <2>3, <2>4
<1>12. CASE ~algorithmFinish /\ AlgDown(2) /\ A(1) + 13 <= X
  <2>1. na + 5 * (1 - 1) + 13 <= X
    BY <1>1, <1>12, Zenon DEF A, D, Clock
  <2>2. ~algorithmFinish /\ AlgDown(2)
    BY <1>12
  <2>3. CASE a
    <3>1. ~algorithmFinish' /\ AlgDown(3)'
      BY <2>2, <2>3, AlgMoves, AlgShapes DEF Tick
    <3>2. na1 + 5 * (1 - 1) + 8 <= Y
      BY <1>1, <1>2, <2>1, <2>3, SMT DEF Beat
    <3> QED BY <1>1, <3>1, <3>2, Zenon DEF AlgBy, A, D, Clock
  <2>4. CASE ~a
    <3>1. ~algorithmFinish' /\ AlgDown(2)'
      BY <2>2, <2>4, AlgMoves, AlgShapes DEF Tick
    <3>2. na1 + 5 * (1 - 1) + 13 <= Y
      BY <1>1, <1>2, <2>1, <2>4, SMT DEF Beat
    <3> QED BY <1>1, <3>1, <3>2, Zenon DEF AlgBy, A, D, Clock
  <2> QED BY <2>3, <2>4
<1>13. CASE ~algorithmFinish /\ AlgDown(3) /\ A(1) + 8 <= X
  <2>1. na + 5 * (1 - 1) + 8 <= X
    BY <1>1, <1>13, Zenon DEF A, D, Clock
  <2>2. ~algorithmFinish /\ AlgDown(3)
    BY <1>13
  <2>3. CASE a
    <3>1. ~algorithmFinish' /\ AlgDown(4)'
      BY <2>2, <2>3, AlgMoves, AlgShapes DEF Tick
    <3>2. nd1 + 4 * (1 - 1) + 4 <= Y
      BY <1>1, <1>2, <2>1, <2>3, SMT DEF Beat
    <3> QED BY <1>1, <3>1, <3>2, Zenon DEF AlgBy, A, D, Clock
  <2>4. CASE ~a
    <3>1. ~algorithmFinish' /\ AlgDown(3)'
      BY <2>2, <2>4, AlgMoves, AlgShapes DEF Tick
    <3>2. na1 + 5 * (1 - 1) + 8 <= Y
      BY <1>1, <1>2, <2>1, <2>4, SMT DEF Beat
    <3> QED BY <1>1, <3>1, <3>2, Zenon DEF AlgBy, A, D, Clock
  <2> QED BY <2>3, <2>4
<1>14. CASE ~algorithmFinish /\ AlgDown(4) /\ D(1) + 4 <= X
  <2>1. nd + 4 * (1 - 1) + 4 <= X
    BY <1>1, <1>14, Zenon DEF A, D, Clock
  <2>2. ~algorithmFinish /\ AlgDown(4)
    BY <1>14
  <2>3. CASE d
    <3>1. ~algorithmFinish' /\ AlgDown(5)'
      BY <2>2, <2>3, AlgMoves, AlgShapes DEF Tick
    <3>2. nd1 + 4 * (1 - 1) <= Y
      BY <1>1, <1>2, <2>1, <2>3, SMT DEF Beat
    <3> QED BY <1>1, <3>1, <3>2, Zenon DEF AlgBy, A, D, Clock
  <2>4. CASE ~d
    <3>1. ~algorithmFinish' /\ AlgDown(4)'
      BY <2>2, <2>4, AlgMoves, AlgShapes DEF Tick
    <3>2. nd1 + 4 * (1 - 1) + 4 <= Y
      BY <1>1, <1>2, <2>1, <2>4, SMT DEF Beat
    <3> QED BY <1>1, <3>1, <3>2, Zenon DEF AlgBy, A, D, Clock
  <2> QED BY <2>3, <2>4
<1>15. CASE ~algorithmFinish /\ AlgDown(5) /\ D(1) <= X
  <2>1. nd + 4 * (1 - 1) <= X
    BY <1>1, <1>15, Zenon DEF A, D, Clock
  <2>2. ~algorithmFinish /\ AlgDown(5)
    BY <1>15
  <2>3. CASE d
    <3>1. ~algorithmFinish' /\ AlgUp(0)'
      BY <2>2, <2>3, AlgMoves, AlgShapes DEF Tick
    <3> QED BY <3>1, Zenon DEF AlgBy
  <2>4. CASE ~d
    <3>1. ~algorithmFinish' /\ AlgDown(5)'
      BY <2>2, <2>4, AlgMoves, AlgShapes DEF Tick
    <3>2. nd1 + 4 * (1 - 1) <= Y
      BY <1>1, <1>2, <2>1, <2>4, SMT DEF Beat
    <3> QED BY <1>1, <3>1, <3>2, Zenon DEF AlgBy, A, D, Clock
  <2> QED BY <2>3, <2>4
<1> QED BY <1>3, <1>4, <1>5, <1>6, <1>7, <1>8, <1>9, <1>10, <1>11, <1>12, <1>13, <1>14,
     <1>15, Zenon DEF AlgBy

(* At its deadline it is over. *)
LEMMA AlgLow ==
  ASSUME NEW a, NEW d, Tick(a, d), NEW X \in Int, AlgBy(X), X <= Dt
  PROVE  ~algorithmFinish /\ (AlgUp(0) \/ (X # 0 /\ AlgDown(5)))
<1>1. /\ ~(D(1) + 50 <= X) /\ ~(A(1) + 45 <= X) /\ ~(A(1) + 40 <= X) /\ ~(A(1) + 35 <= X)
      /\ ~(D(1) + 31 <= X) /\ ~(D(1) + 27 <= X) /\ ~(D(1) + 23 <= X) /\ ~(A(1) + 18 <= X)
      /\ ~(A(1) + 13 <= X) /\ ~(A(1) + 8 <= X) /\ ~(D(1) + 4 <= X)
  BY SMT DEF A, D, Tick, Dt
<1>2. X = 0 => ~(D(1) <= X)
  BY SMT DEF D, Tick
<1> QED BY <1>1, <1>2, Zenon DEF AlgBy

(* Its deadline loses at most what a step takes. *)
LEMMA AlgTimePasses ==
  ASSUME LoopIInv, NEW a, NEW d, NEW done, NEW k, NEW i, NEW m,
         Tick(a, d), Step(a, d, done, k, i, m)
  PROVE  AlgTime \in Nat /\ AlgTime' \in Nat /\ AlgTime' >= AlgTime - Dt
<1>1. BeginTime \in Nat /\ BeginTime' \in Nat /\ Dt \in Nat
  <2>1. psCnt' \in 0..StartCycles
    BY PsMoves, Ranges, Numbers, SMT DEF Tick
  <2>2. ps' \in {"gap", "start", "wait_rise", "wait_fall"}
    BY PsMoves, Ranges, SMT DEF Tick
  <2>3. PICK n1 \in Int, p1 \in Int : n1 = NextAxi' /\ p1 = psCnt' /\ n1 \in 1..5
    BY <2>1, Numbers, SMT DEF Tick
  <2>4. p1 \in 0..StartCycles
    BY <2>1, <2>3, Zenon
  <2>5. n1 + 5 * ((StartCycles + 1 - p1) - 1) \in Nat
             /\ n1 + 5 * ((StartCycles + 2) - 1) \in Nat
    <3>1. p1 \in Int /\ 0 <= p1 /\ p1 <= StartCycles
      BY <2>3, <2>4, Numbers, SMT
    <3>2. n1 \in 1..5
      BY <2>3
    <3>3. n1 + 5 * ((StartCycles + 1 - p1) - 1) >= 0 /\ n1 + 5 * ((StartCycles + 2) - 1) >= 0
      BY <3>1, <3>2, Numbers, SMT
    <3> QED BY <3>1, <3>2, <3>3, Numbers, SMT
  <2>6. A(StartCycles + 1 - psCnt)' \in Nat /\ A(StartCycles + 2)' \in Nat
    BY <2>3, <2>5, Zenon DEF A
  <2>7. BeginTime' \in Nat
    BY <2>6, Zenon DEF BeginTime
  <2>8. Dt \in Nat
    BY SMT DEF Tick
  <2> QED BY <2>7, <2>8, BeginTimePasses
<1>2. AlgTime \in Nat /\ AlgTime' \in Nat
  BY <1>1, Zenon DEF AlgTime
<1>3. CASE AtRest
  <2>1. AlgTime = BeginTime
    BY <1>3, Zenon DEF AlgTime
  <2>2. ps # "start" /\ Rest'
    BY <1>3, RestStays DEF AtRest
  <2>3. CASE ps' = "start"
    <3>1. BeginTime = Dt
      BY <2>2, <2>3, BeginTimePasses
    <3> QED BY <1>1, <1>2, <2>1, <3>1, SMT
  <2>4. CASE ps' # "start"
    <3>1. AlgTime' = BeginTime'
      BY <2>2, <2>4, Zenon DEF AlgTime, AtRest
    <3>2. BeginTime' >= BeginTime - Dt
      BY <2>2, <2>4, BeginTimePasses
    <3> QED BY <2>1, <3>1, <3>2, <1>2, Zenon
  <2> QED BY <2>3, <2>4
<1>4. CASE ~AtRest
  <2>1. AlgTime = 0
    BY <1>4, Zenon DEF AlgTime
  <2> QED BY <1>1, <1>2, <2>1, SMT
<1> QED BY <1>2, <1>3, <1>4

(* algorithm_finish comes when the last map is back. *)
LEMMA AlgRises ==
  ASSUME LoopIInv, NEW a, NEW d, NEW done, NEW k, NEW i, NEW m,
         Tick(a, d), Step(a, d, done, k, i, m)
  PROVE  /\ d /\ AlgorithmFinishTemp <=> state = "end" /\ state' = "inter" /\ d
         /\ state = "end" => ps = "wait_rise"
<1>1. AlgorithmFinishTemp => state = "end"
  BY Zenon DEF LoopIInv, IInv, CountBound, AlgorithmFinishTemp
<1>2. state = "end" => ps = "wait_rise"
  BY Ranges, Zenon DEF LoopIInv, Begins, Rest, Pre
<1>3. state = "end" /\ d => state' = IF AlgorithmFinishTemp THEN "inter" ELSE "start"
  BY StateMoves
<1> QED BY <1>1, <1>2, <1>3

(* Its conjunct of Algs is kept. *)
LEMMA AlgByStep ==
  ASSUME LoopIInv, NEW a, NEW d, NEW done, NEW k, NEW i, NEW m,
         Tick(a, d), Step(a, d, done, k, i, m)
  PROVE  AlgBy(AlgTime)'
<1>1. PICK X \in Int, Y \in Int : X = AlgTime /\ Y = AlgTime'
  BY AlgTimePasses
<1>2. AlgBy(X) /\ Y >= X - Dt
  <2>1. AlgBy(AlgTime)
    BY Zenon DEF LoopIInv, Algs
  <2> QED BY <1>1, <2>1, AlgTimePasses, Zenon
<1>3. CASE ~(d /\ AlgorithmFinishTemp)
  <2>1. AlgBy(Y)'
    BY <1>2, <1>3, AlgFalls
  <2> QED BY <1>1, <2>1, Zenon DEF AlgBy
<1>4. CASE d /\ AlgorithmFinishTemp
  <2>1. state = "end" /\ state' = "inter" /\ ps = "wait_rise"
    BY <1>4, AlgRises
  <2>2. X = 0
    BY <1>1, <2>1, Zenon DEF AlgTime, AtRest, Rest
  <2>3. AlgUp(0)
    <3>1. X <= Dt
      BY <2>2, SMT DEF Tick
    <3> QED BY <1>2, <2>2, <3>1, AlgLow
  <2>4. algorithmFinish' /\ AlgUp(0)'
    <3>1. ~algorithmFinish
      BY <1>2, <2>2, AlgLow, SMT DEF Tick
    <3> QED BY <1>4, <2>3, <3>1, AlgMoves, AlgShapes DEF Tick
  <2>5. D(1)' + 50 <= AlgTime'
    <3>1. ps' \in {"wait_rise", "wait_fall"}
      BY <2>1, PsMoves DEF Tick
    <3>2. AlgTime' = A(StartCycles + 2)'
      BY <2>1, <3>1, Zenon DEF AlgTime, AtRest, Rest, BeginTime
    <3>3. PICK na \in Int, nd \in Int, na1 \in Int, nd1 \in Int, dt \in Int :
            Clock(na, nd, na1, nd1, dt) /\ Beat(a, d, na, nd, na1, nd1, dt)
      BY Clocks
    <3>4. nd1 + 4 * (1 - 1) + 50 <= na1 + 5 * ((StartCycles + 2) - 1)
      BY <1>4, <3>3, Numbers, SMT DEF Beat
    <3> QED BY <3>2, <3>3, <3>4, Zenon DEF A, D, Clock
  <2> QED BY <2>4, <2>5, Zenon DEF AlgBy
<1> QED BY <1>3, <1>4

(* image_begin_flag, set by a start and cleared at the end of the algorithm,
   before the transfer side is back in inf_write_read_idle.                  *)
LEMMA FlagFalls ==
  ASSUME LoopIInv, NEW a, NEW d, NEW done, NEW k, NEW i, NEW m,
         Tick(a, d), Step(a, d, done, k, i, m),
         NEW X \in Int, NEW Y \in Int, Y >= X - Dt, FlagBy(X), AtRest
  PROVE  FlagBy(Y)'
<1>1. PICK na \in Int, nd \in Int, na1 \in Int, nd1 \in Int, dt \in Int :
        Clock(na, nd, na1, nd1, dt) /\ Beat(a, d, na, nd, na1, nd1, dt)
  BY Clocks
<1>2. Y >= X - dt
  BY <1>1, Zenon DEF Clock
<1>3. ~beginTemp[2]
  <2>1. BeginBy(0)
    BY Zenon DEF LoopIInv, Begins, AtRest, Rest, Pre, StartTime
  <2>2. ~(A(2) <= 0)
    BY SMT DEF A, Tick
  <2> QED BY <2>1, <2>2, Zenon DEF BeginBy
<1>4. d => ~AlgorithmFinishTemp
  BY AlgRises DEF AtRest, Rest
<1>5. AlgBy(AlgTime)
  BY Zenon DEF LoopIInv, Algs
<1> SUFFICES ASSUME beginFlag'
             PROVE  /\ ~algAck'
                    /\ \/ algorithmFinish' /\ D(1)' + 15 <= Y
                       \/ algReq' /\ ~algReqR'[1] /\ A(3)' <= Y
                       \/ algReqR'[1] /\ ~algReqR'[2] /\ A(2)' <= Y
                       \/ algReqR'[2] /\ A(1)' <= Y
  BY Zenon DEF FlagBy
<1>6. beginFlag /\ (a => ~algReqR[2])
  BY <1>3, AlgMoves DEF Tick
<1>7. ~algAck
  BY <1>6, Zenon DEF FlagBy
<1>8. CASE algorithmFinish /\ D(1) + 15 <= X
  <2>1. AlgUp(0)
    BY <1>5, <1>8, Zenon DEF AlgBy
  <2>2. ~algReq /\ ~algReqR[1] /\ ~algReqR[2]
    BY <2>1, AlgShapes
  <2>3. nd + 4 * (1 - 1) + 15 <= X
    BY <1>1, <1>8, Zenon DEF D, Clock
  <2>4. CASE d
    <3>1. algReq' /\ ~algReqR'[1] /\ ~algAck'
      BY <1>7, <1>8, <2>2, <2>4, AlgMoves DEF Tick
    <3>2. na1 + 5 * (3 - 1) <= Y
      BY <1>1, <1>2, <2>3, <2>4, SMT DEF Beat
    <3> QED BY <1>1, <3>1, <3>2, Zenon DEF A, Clock
  <2>5. CASE ~d
    <3>1. algorithmFinish' /\ ~algAck'
      BY <1>7, <1>8, <2>2, <2>5, AlgMoves DEF Tick
    <3>2. nd1 + 4 * (1 - 1) + 15 <= Y
      BY <1>1, <1>2, <2>3, <2>5, SMT DEF Beat
    <3> QED BY <1>1, <3>1, <3>2, Zenon DEF D, Clock
  <2> QED BY <2>4, <2>5
<1>9. CASE algReq /\ ~algReqR[1] /\ A(3) <= X
  <2>1. AlgUp(1)
    BY <1>5, <1>9, AlgShapes, Zenon DEF AlgBy
  <2>2. ~algReqR[2] /\ ~algAckR[2]
    BY <2>1, AlgShapes
  <2>3. na + 5 * (3 - 1) <= X
    BY <1>1, <1>9, Zenon DEF A, Clock
  <2>4. CASE a
    <3>1. algReqR'[1] /\ ~algReqR'[2] /\ ~algAck'
      BY <1>9, <2>2, <2>4, AlgMoves DEF Tick
    <3>2. na1 + 5 * (2 - 1) <= Y
      BY <1>1, <1>2, <2>3, <2>4, SMT DEF Beat
    <3> QED BY <1>1, <3>1, <3>2, Zenon DEF A, Clock
  <2>5. CASE ~a
    <3>1. algReq' /\ ~algReqR'[1] /\ ~algAck'
      BY <1>7, <1>9, <2>2, <2>5, AlgMoves DEF Tick
    <3>2. na1 + 5 * (3 - 1) <= Y
      BY <1>1, <1>2, <2>3, <2>5, SMT DEF Beat
    <3> QED BY <1>1, <3>1, <3>2, Zenon DEF A, Clock
  <2> QED BY <2>4, <2>5
<1>10. CASE algReqR[1] /\ ~algReqR[2] /\ A(2) <= X
  <2>3. na + 5 * (2 - 1) <= X
    BY <1>1, <1>10, Zenon DEF A, Clock
  <2>4. CASE a
    <3>1. algReqR'[2] /\ ~algAck'
      BY <1>10, <2>4, AlgMoves DEF Tick
    <3>2. na1 + 5 * (1 - 1) <= Y
      BY <1>1, <1>2, <2>3, <2>4, SMT DEF Beat
    <3> QED BY <1>1, <3>1, <3>2, Zenon DEF A, Clock
  <2>5. CASE ~a
    <3>1. algReqR'[1] /\ ~algReqR'[2] /\ ~algAck'
      BY <1>7, <1>10, <2>5, AlgMoves DEF Tick
    <3>2. na1 + 5 * (2 - 1) <= Y
      BY <1>1, <1>2, <2>3, <2>5, SMT DEF Beat
    <3> QED BY <1>1, <3>1, <3>2, Zenon DEF A, Clock
  <2> QED BY <2>4, <2>5
<1>11. CASE algReqR[2] /\ A(1) <= X
  <2>1. ~a
    BY <1>6, <1>11 DEF Tick
  <2>2. algReqR'[2] /\ ~algAck'
    BY <1>7, <1>11, <2>1, AlgMoves DEF Tick
  <2>3. na + 5 * (1 - 1) <= X
    BY <1>1, <1>11, Zenon DEF A, Clock
  <2>4. na1 + 5 * (1 - 1) <= Y
    BY <1>1, <1>2, <2>1, <2>3, SMT DEF Beat
  <2> QED BY <1>1, <2>2, <2>4, Zenon DEF A, Clock
<1> QED BY <1>6, <1>8, <1>9, <1>10, <1>11, Zenon DEF FlagBy

(* Algs is kept. *)
LEMMA AlgsStep ==
  ASSUME LoopIInv, NEW a, NEW d, NEW done, NEW k, NEW i, NEW m,
         Tick(a, d), Step(a, d, done, k, i, m)
  PROVE  Algs'
<1>1. AlgBy(AlgTime) /\ (AtRest => FlagBy(IdleTime)) /\ (~Rest /\ ps # "start" => beginFlag)
      /\ (ps = "start" => (beginFlag <=> psCnt >= 3))
  BY Zenon DEF LoopIInv, Algs
<1>2. IdleTime \in Nat /\ IdleTime' >= IdleTime - Dt /\ IdleTime' \in Nat
  <2>1. waitCnt' \in 0..15 /\ ctl' \in Transfer!Ctls
    BY CtlMoves, Ranges, SMT DEF Transfer!Ctls, Tick, LoopIInv, Counters
  <2>2. IdleTime' \in Nat
    BY <2>1, SMT DEF IdleTime, A, Tick
  <2> QED BY <2>2, IdleTimePasses
<1>3. ~AtRest => AlgUp(0) /\ ~algorithmFinish
  <2>1. ~AtRest => AlgTime = 0
    BY Zenon DEF AlgTime
  <2>2. 0 <= Dt
    BY SMT DEF Tick
  <2>3. ASSUME ~AtRest PROVE AlgBy(0)
    BY <1>1, <2>1, <2>3, Zenon
  <2> QED BY <2>2, <2>3, AlgLow
<1>4. ASSUME AtRest' PROVE FlagBy(IdleTime)'
  <2>1. CASE AtRest
    <3>1. PICK X \in Int, Y \in Int : X = IdleTime /\ Y = IdleTime'
      BY <1>2
    <3>2. FlagBy(Y)'
      <4>1. FlagBy(X) /\ Y >= X - Dt
        BY <1>1, <1>2, <2>1, <3>1, Zenon
      <4> QED BY <2>1, <4>1, FlagFalls
    <3> QED BY <3>1, <3>2, Zenon DEF FlagBy
  <2>2. CASE ~AtRest
    <3>1. ps # "start"
      BY <1>4, <2>2, StartEnds DEF AtRest, Rest, Pre
    <3>2. state = "end" /\ state' = "inter" /\ d
      BY <1>4, <2>2, <3>1, RestStays DEF AtRest
    <3>3. AlgorithmFinishTemp
      BY <3>2, AlgRises
    <3>4. algorithmFinish' /\ ~algAck'
      BY <1>3, <2>2, <3>2, <3>3, AlgMoves, AlgShapes DEF Tick
    <3>5. D(1)' + 15 <= IdleTime'
      <4>1. PICK na \in Int, nd \in Int, na1 \in Int, nd1 \in Int, dt \in Int :
              Clock(na, nd, na1, nd1, dt) /\ Beat(a, d, na, nd, na1, nd1, dt)
        BY Clocks
      <4>2. PICK X \in Int, Y \in Int : X = IdleTime /\ Y = IdleTime'
        BY <1>2
      <4>3. nd + 4 * (1 - 1) + 19 <= X /\ Y >= X - dt
        BY <1>2, <3>2, <4>1, <4>2, Zenon DEF LoopIInv, Rounds, D, Clock
      <4>4. nd1 + 4 * (1 - 1) + 15 <= Y
        BY <3>2, <4>1, <4>3, SMT DEF Beat
      <4> QED BY <4>1, <4>2, <4>4, Zenon DEF D, Clock
    <3> QED BY <3>4, <3>5, Zenon DEF FlagBy
  <2> QED BY <2>1, <2>2
<1>5. ASSUME ~Rest', ps' # "start" PROVE beginFlag'
  <2>1. CASE ps = "start"
    <3>1. beginTemp[2] /\ a
      BY <1>5, <2>1, StartEnds
    <3> QED BY <3>1, AlgMoves
  <2>2. CASE ps # "start"
    <3>1. ~Rest
      BY <1>5, <2>2, RestStays
    <3>2. beginFlag /\ ~algReqR[2]
      BY <1>1, <1>3, <2>2, <3>1, AlgShapes DEF AtRest
    <3> QED BY <3>2, AlgMoves DEF Tick
  <2> QED BY <2>1, <2>2
<1>6. ASSUME ps' = "start" PROVE beginFlag' <=> psCnt' >= 3
  <2>1. CASE ps = "start"
    <3>1. ~algReqR[2]
      BY <1>3, <2>1, AlgShapes DEF AtRest
    <3>2. (beginTemp[2] <=> psCnt >= 2) /\ (beginFlag <=> psCnt >= 3)
      BY <1>1, <2>1, Zenon DEF LoopIInv, Begins
    <3>3. psCnt' = IF a THEN psCnt + 1 ELSE psCnt
      BY <1>6, <2>1, PsMoves DEF Tick
    <3>4. PICK p \in Int, p1 \in Int : p = psCnt /\ p1 = psCnt' /\ p1 = IF a THEN p + 1 ELSE p
      BY <3>3, Ranges, SMT
    <3>5. p1 >= 3 <=> IF a THEN p >= 2 ELSE p >= 3
      BY <3>4, SMT
    <3>6. p >= 3 => p >= 2
      BY SMT
    <3>7. a => (beginFlag' <=> p >= 2)
      BY <3>1, <3>2, <3>4, <3>6, AlgMoves
    <3>8. ~a => (beginFlag' <=> p >= 3)
      BY <3>2, <3>4, AlgMoves
    <3> QED BY <3>4, <3>5, <3>7, <3>8, Zenon DEF Tick
  <2>2. CASE ps = "gap"
    <3>1. psCnt' = 0 /\ a /\ BeginTime = Dt /\ AtRest
      BY <1>6, <2>2, PsMoves, BeginTimePasses DEF Tick, LoopIInv, Begins, AtRest
    <3>2. ~algorithmFinish /\ ~algReq /\ ~algReqR[1] /\ ~algReqR[2]
      <4>1. PICK X \in Int : X = AlgTime /\ X <= Dt
        BY <3>1, SMT DEF AlgTime, Tick
      <4>2. AlgBy(X)
        BY <1>1, <4>1, Zenon
      <4>3. ~algorithmFinish /\ (AlgUp(0) \/ AlgDown(5))
        BY <4>1, <4>2, AlgLow
      <4> QED BY <4>3, AlgShapes
    <3>3. ~beginFlag
      BY <1>1, <3>1, <3>2, Zenon DEF FlagBy
    <3>4. ~beginTemp[2]
      <4>1. BeginBy(0)
        BY <2>2, Zenon DEF LoopIInv, Begins, StartTime
      <4>2. ~(A(2) <= 0)
        BY SMT DEF A, Tick
      <4> QED BY <4>1, <4>2, Zenon DEF BeginBy
    <3>5. ~beginFlag'
      BY <3>1, <3>3, <3>4, AlgMoves
    <3>6. ~(psCnt' >= 3)
      BY <3>1, SMT
    <3> QED BY <3>5, <3>6
  <2> QED BY <1>6, <2>1, <2>2, PsMoves, Ranges DEF Tick
<1> QED BY <1>4, <1>5, <1>6, AlgByStep DEF Algs

-----------------------------------------------------------------------------
(* The requests for a head and for a write, and the news of its end. *)

(* The registers of the request for a head, of the request to write, and of
   the answer of the PS's interrupt line.                                    *)
LEMMA ReqMoves ==
  ASSUME LoopIInv, NEW a, NEW d, NEW done, NEW k, NEW i, NEW m,
         Tick(a, d), Step(a, d, done, k, i, m)
  PROVE  /\ a => /\ (reqR'[1] <=> req) /\ (reqR'[2] <=> reqR[1])
                 /\ (reqR'[3] <=> reqR[2]) /\ (reqR'[4] <=> reqR[3])
                 /\ (ack' <=> ctl = "ready" /\ headNeedR /\ reqR[4])
                 /\ (headNeedR' <=> headSeen = headPops)
         /\ ~a => /\ (reqR'[1] <=> reqR[1]) /\ (reqR'[2] <=> reqR[2])
                  /\ (reqR'[3] <=> reqR[3]) /\ (reqR'[4] <=> reqR[4])
                  /\ (ack' <=> ack) /\ (headNeedR' <=> headNeedR)
         /\ d => /\ (ackR'[1] <=> ack) /\ (ackR'[2] <=> ackR[1])
                 /\ (req' <=> m \/ (beginTemp[2] /\ ~beginTemp[3])
                              \/ (req /\ ~(ackR[2] \/ algReqR[2])))
         /\ ~d => (ackR'[1] <=> ackR[1]) /\ (ackR'[2] <=> ackR[2]) /\ (req' <=> req)
<1>1. LoopTypeOK
  BY DEF LoopIInv
<1>2. ASSUME a
      PROVE  /\ (reqR'[1] <=> req) /\ (reqR'[2] <=> reqR[1])
             /\ (reqR'[3] <=> reqR[2]) /\ (reqR'[4] <=> reqR[3])
             /\ (ack' <=> ctl = "ready" /\ headNeedR /\ reqR[4])
             /\ (headNeedR' <=> headSeen = headPops)
  <2>1. AxiEdge(done)
    BY <1>2 DEF Step
  <2>2. ack' = (ctl = "ready" /\ headNeedR /\ reqR[4]) /\ headNeedR' = (headSeen = headPops)
    BY <2>1, Zenon DEF AxiEdge, Transfer!Clk, Transfer!AckNext, Transfer!HeadGoes, HeadEmpty
  <2> QED BY <1>1, <2>1, <2>2, AxiChains
<1>3. ASSUME ~a
      PROVE  /\ (reqR'[1] <=> reqR[1]) /\ (reqR'[2] <=> reqR[2])
             /\ (reqR'[3] <=> reqR[3]) /\ (reqR'[4] <=> reqR[4])
             /\ (ack' <=> ack) /\ (headNeedR' <=> headNeedR)
  <2>1. reqR' = reqR /\ ack' = ack /\ headNeedR' = headNeedR
    BY <1>3, Zenon DEF Step, axiVars
  <2> QED BY <2>1, Zenon
<1>4. ASSUME d
      PROVE  /\ (ackR'[1] <=> ack) /\ (ackR'[2] <=> ackR[1])
             /\ (req' <=> m \/ (beginTemp[2] /\ ~beginTemp[3])
                          \/ (req /\ ~(ackR[2] \/ algReqR[2])))
  <2>1. DealEdge(k, i, m)
    BY <1>4 DEF Step
  <2>2. req' = (m \/ (beginTemp[2] /\ ~beginTemp[3]) \/ (req /\ ~(ackR[2] \/ algReqR[2])))
    BY <2>1, Zenon DEF DealEdge, Requests, ReqNext, Transfer!BeginPos
  <2> QED BY <1>1, <2>1, <2>2, DealChains
<1>5. ASSUME ~d
      PROVE  (ackR'[1] <=> ackR[1]) /\ (ackR'[2] <=> ackR[2]) /\ (req' <=> req)
  <2>1. req' = req /\ ackR' = ackR
    BY <1>5, Zenon DEF Step, dealVars
  <2> QED BY <2>1, Zenon
<1> QED BY <1>2, <1>3, <1>4, <1>5

(* A step, as the request to write sees it. *)
LEMMA NeedMoves ==
  ASSUME LoopIInv, NEW a, NEW d, NEW done, NEW k, NEW i, NEW m,
         Tick(a, d), Step(a, d, done, k, i, m)
  PROVE  /\ a => /\ (wrNeedPipe'[1] <=> wrNeedTemp) /\ (wrNeedPipe'[2] <=> wrNeedPipe[1])
                 /\ (wrNeedPipe'[3] <=> wrNeedPipe[2]) /\ (wrNeedR' <=> wrNeedPipe[3])
                 /\ (wrFinish' <=> ctl = "image_wr" /\ done)
         /\ ~a => /\ (wrNeedPipe'[1] <=> wrNeedPipe[1]) /\ (wrNeedPipe'[2] <=> wrNeedPipe[2])
                  /\ (wrNeedPipe'[3] <=> wrNeedPipe[3]) /\ (wrNeedR' <=> wrNeedR)
                  /\ (wrFinish' <=> wrFinish)
         /\ d => /\ (wrFinishR'[1] <=> wrFinish) /\ (wrFinishR'[2] <=> wrFinishR[1])
                 /\ (wrNeedTemp' <=> (m /\ ReturnAxi) \/ (wrNeedTemp /\ ~wrFinishR[2]))
         /\ ~d => /\ (wrFinishR'[1] <=> wrFinishR[1]) /\ (wrFinishR'[2] <=> wrFinishR[2])
                  /\ (wrNeedTemp' <=> wrNeedTemp)
<1>1. LoopTypeOK
  BY DEF LoopIInv
<1>2. ASSUME a
      PROVE  /\ (wrNeedPipe'[1] <=> wrNeedTemp) /\ (wrNeedPipe'[2] <=> wrNeedPipe[1])
             /\ (wrNeedPipe'[3] <=> wrNeedPipe[2]) /\ (wrNeedR' <=> wrNeedPipe[3])
             /\ (wrFinish' <=> ctl = "image_wr" /\ done)
  <2>1. AxiEdge(done)
    BY <1>2 DEF Step
  <2>2. wrNeedR' = wrNeedPipe[3] /\ wrFinish' = (ctl = "image_wr" /\ done)
    BY <2>1, Zenon DEF AxiEdge, Transfer!Clk
  <2> QED BY <1>1, <2>1, <2>2, AxiChains
<1>3. ASSUME ~a
      PROVE  /\ (wrNeedPipe'[1] <=> wrNeedPipe[1]) /\ (wrNeedPipe'[2] <=> wrNeedPipe[2])
             /\ (wrNeedPipe'[3] <=> wrNeedPipe[3]) /\ (wrNeedR' <=> wrNeedR)
             /\ (wrFinish' <=> wrFinish)
  <2>1. wrNeedPipe' = wrNeedPipe /\ wrNeedR' = wrNeedR /\ wrFinish' = wrFinish
    BY <1>3, Zenon DEF Step, axiVars
  <2> QED BY <2>1, Zenon
<1>4. ASSUME d
      PROVE  /\ (wrFinishR'[1] <=> wrFinish) /\ (wrFinishR'[2] <=> wrFinishR[1])
             /\ (wrNeedTemp' <=> (m /\ ReturnAxi) \/ (wrNeedTemp /\ ~wrFinishR[2]))
  <2>1. DealEdge(k, i, m)
    BY <1>4 DEF Step
  <2>2. wrNeedTemp' = ((m /\ ReturnAxi) \/ (wrNeedTemp /\ ~wrFinishR[2]))
    BY <2>1, Zenon DEF DealEdge, WrNeedNext
  <2> QED BY <1>1, <2>1, <2>2, DealChains
<1>5. ASSUME ~d
      PROVE  /\ (wrFinishR'[1] <=> wrFinishR[1]) /\ (wrFinishR'[2] <=> wrFinishR[2])
             /\ (wrNeedTemp' <=> wrNeedTemp)
  <2>1. wrNeedTemp' = wrNeedTemp /\ wrFinishR' = wrFinishR
    BY <1>5, Zenon DEF Step, dealVars
  <2> QED BY <2>1, Zenon
<1> QED BY <1>2, <1>3, <1>4, <1>5

(* A step, as the handshake of interrupt.v sees it. *)
LEMMA RetMoves ==
  ASSUME LoopIInv, NEW a, NEW d, NEW done, NEW k, NEW i, NEW m,
         Tick(a, d), Step(a, d, done, k, i, m)
  PROVE  /\ a => /\ (retFlag' <=> wrFinish \/ (retFlag /\ ~retReadyR[2]))
                 /\ (retReadyR'[1] <=> retReady) /\ (retReadyR'[2] <=> retReadyR[1])
         /\ ~a => /\ (retFlag' <=> retFlag)
                  /\ (retReadyR'[1] <=> retReadyR[1]) /\ (retReadyR'[2] <=> retReadyR[2])
         /\ d => /\ (flagR'[1] <=> retFlag) /\ (flagR'[2] <=> flagR[1])
                 /\ (retReady' <=> flagR[2])
                 /\ (readyTemp'[1] <=> retReady) /\ (readyTemp'[2] <=> readyTemp[1])
         /\ ~d => /\ (flagR'[1] <=> flagR[1]) /\ (flagR'[2] <=> flagR[2])
                  /\ (retReady' <=> retReady)
                  /\ (readyTemp'[1] <=> readyTemp[1]) /\ (readyTemp'[2] <=> readyTemp[2])
<1>1. LoopTypeOK
  BY DEF LoopIInv
<1>2. ASSUME a
      PROVE  /\ (retFlag' <=> wrFinish \/ (retFlag /\ ~retReadyR[2]))
             /\ (retReadyR'[1] <=> retReady) /\ (retReadyR'[2] <=> retReadyR[1])
  <2>1. AxiEdge(done)
    BY <1>2 DEF Step
  <2>2. retFlag' = (wrFinish \/ (retFlag /\ ~retReadyR[2]))
    BY <2>1, Zenon DEF AxiEdge, ReturnFlag
  <2> QED BY <1>1, <2>1, <2>2, AxiChains
<1>3. ASSUME ~a
      PROVE  /\ (retFlag' <=> retFlag)
             /\ (retReadyR'[1] <=> retReadyR[1]) /\ (retReadyR'[2] <=> retReadyR[2])
  <2>1. retFlag' = retFlag /\ retReadyR' = retReadyR
    BY <1>3, Zenon DEF Step, axiVars
  <2> QED BY <2>1, Zenon
<1>4. ASSUME d
      PROVE  /\ (flagR'[1] <=> retFlag) /\ (flagR'[2] <=> flagR[1])
             /\ (retReady' <=> flagR[2])
             /\ (readyTemp'[1] <=> retReady) /\ (readyTemp'[2] <=> readyTemp[1])
  <2>1. DealEdge(k, i, m)
    BY <1>4 DEF Step
  <2>2. retReady' = flagR[2]
    BY <2>1, Zenon DEF DealEdge, ReturnReady
  <2> QED BY <1>1, <2>1, <2>2, DealChains
<1>5. ASSUME ~d
      PROVE  /\ (flagR'[1] <=> flagR[1]) /\ (flagR'[2] <=> flagR[2])
             /\ (retReady' <=> retReady)
             /\ (readyTemp'[1] <=> readyTemp[1]) /\ (readyTemp'[2] <=> readyTemp[2])
  <2>1. flagR' = flagR /\ retReady' = retReady /\ readyTemp' = readyTemp
    BY <1>5, Zenon DEF Step, dealVars
  <2> QED BY <2>1, Zenon
<1> QED BY <1>2, <1>3, <1>4, <1>5

(* The head FIFO, and load_head.v's request for a head. *)
LEMMA HeadMoves ==
  ASSUME LoopIInv, NEW a, NEW d, NEW done, NEW k, NEW i, NEW m,
         Tick(a, d), Step(a, d, done, k, i, m)
  PROVE  /\ headWrites' = IF a /\ ctl = "head_rd" /\ done THEN (headWrites + 1) % 4
                                                         ELSE headWrites
         /\ a => latency' = IF ctl = "head_rd" /\ ~done THEN latency + 1 ELSE 0
         /\ ~a => latency' = latency
         /\ d => /\ headSeen' = headWrites
                 /\ headPops' = IF algReqR[2] THEN headWrites
                                ELSE IF LoadHeadRd THEN (headPops + 1) % 4 ELSE headPops
                 /\ (loadHead' <=> state = "load_head" \/ (loadHead /\ ~LoadHeadRd))
         /\ ~d => headSeen' = headSeen /\ headPops' = headPops /\ (loadHead' <=> loadHead)
<1>1. ASSUME a
      PROVE  /\ headWrites' = IF ctl = "head_rd"
                  /\ done THEN (headWrites + 1) % 4 ELSE headWrites
             /\ latency' = IF ctl = "head_rd" /\ ~done THEN latency + 1 ELSE 0
  BY <1>1, Zenon DEF Step, AxiEdge, Arrives
<1>2. ASSUME ~a PROVE headWrites' = headWrites /\ latency' = latency
  BY <1>2, Zenon DEF Step, axiVars
<1>3. ASSUME d
      PROVE  /\ headSeen' = headWrites
             /\ headPops' = IF algReqR[2] THEN headWrites
                            ELSE IF LoadHeadRd THEN (headPops + 1) % 4 ELSE headPops
             /\ (loadHead' <=> state = "load_head" \/ (loadHead /\ ~LoadHeadRd))
  <2>1. HeadFifo /\ LoadHead
    BY <1>3, Zenon DEF Step, DealEdge
  <2>2. loadHead' = (state = "load_head" \/ (loadHead /\ ~LoadHeadRd))
    BY <2>1, Zenon DEF LoadHead
  <2>3. /\ headSeen' = headWrites
        /\ headPops' = IF algReqR[2] THEN headWrites
                       ELSE IF LoadHeadRd THEN (headPops + 1) % 4 ELSE headPops
    BY <2>1, Zenon DEF HeadFifo
  <2> QED BY <2>2, <2>3
<1>4. ASSUME ~d PROVE headSeen' = headSeen /\ headPops' = headPops /\ (loadHead' <=> loadHead)
  <2>1. headSeen' = headSeen /\ headPops' = headPops /\ loadHead' = loadHead
    BY <1>4, Zenon DEF Step, dealVars
  <2> QED BY <2>1, Zenon
<1> QED BY <1>1, <1>2, <1>3, <1>4

(* A request that was served goes down before anyone looks again. *)
LEMMA ReqByStep ==
  ASSUME LoopIInv, NEW a, NEW d, NEW done, NEW k, NEW i, NEW m,
         Tick(a, d), Step(a, d, done, k, i, m),
         NEW X \in Int, NEW Y \in Int, Y >= X - Dt, ReqBy(X),
         d => ~m /\ ~(beginTemp[2] /\ ~beginTemp[3]) /\ ~algReqR[2],
         a => ~ack'
  PROVE  ReqBy(Y)'
<1>1. PICK na \in Int, nd \in Int, na1 \in Int, nd1 \in Int, dt \in Int :
        Clock(na, nd, na1, nd1, dt) /\ Beat(a, d, na, nd, na1, nd1, dt)
  BY Clocks
<1>2. Y >= X - dt
  BY <1>1, Zenon DEF Clock
<1>3. /\ req => \/ ackR[2] /\ nd + 4 * (1 - 1) + 20 <= X
                \/ ackR[1] /\ ~ackR[2] /\ nd + 4 * (2 - 1) + 20 <= X
                \/ ack /\ ~ackR[1] /\ ~ackR[2] /\ nd < na /\ nd + 4 * (3 - 1) + 20 <= X
      /\ ~req => /\ reqR[1] => na + 5 * (4 - 1) <= X
                 /\ reqR[2] => na + 5 * (3 - 1) <= X
                 /\ reqR[3] => na + 5 * (2 - 1) <= X
                 /\ reqR[4] => na + 5 * (1 - 1) <= X
      /\ ack => na + 5 * (1 - 1) + 8 <= X
      /\ ackR[1] => ack \/ nd + 4 * (2 - 1) <= X
      /\ ackR[2] => nd + 4 * (1 - 1) <= X
  BY <1>1, Zenon DEF ReqBy, ReqFalls, A, D, Clock
<1>4. /\ a => /\ (reqR'[1] <=> req) /\ (reqR'[2] <=> reqR[1])
              /\ (reqR'[3] <=> reqR[2]) /\ (reqR'[4] <=> reqR[3])
              /\ ~ack'
      /\ ~a => /\ (reqR'[1] <=> reqR[1]) /\ (reqR'[2] <=> reqR[2])
               /\ (reqR'[3] <=> reqR[3]) /\ (reqR'[4] <=> reqR[4])
               /\ (ack' <=> ack)
      /\ d => /\ (ackR'[1] <=> ack) /\ (ackR'[2] <=> ackR[1])
              /\ (req' <=> req /\ ~ackR[2])
      /\ ~d => (ackR'[1] <=> ackR[1]) /\ (ackR'[2] <=> ackR[2]) /\ (req' <=> req)
  BY ReqMoves
<1>5. req' => \/ ackR'[2] /\ nd1 + 4 * (1 - 1) + 20 <= Y
              \/ ackR'[1] /\ ~ackR'[2] /\ nd1 + 4 * (2 - 1) + 20 <= Y
              \/ ack' /\ ~ackR'[1] /\ ~ackR'[2] /\ nd1 < na1 /\ nd1 + 4 * (3 - 1) + 20 <= Y
  BY <1>1, <1>2, <1>3, <1>4, SMT DEF Beat
<1>6. ~req' => /\ reqR'[1] => na1 + 5 * (4 - 1) <= Y
               /\ reqR'[2] => na1 + 5 * (3 - 1) <= Y
               /\ reqR'[3] => na1 + 5 * (2 - 1) <= Y
               /\ reqR'[4] => na1 + 5 * (1 - 1) <= Y
  BY <1>1, <1>2, <1>3, <1>4, SMT DEF Beat
<1>7. /\ ack' => na1 + 5 * (1 - 1) + 8 <= Y
      /\ ackR'[1] => ack' \/ nd1 + 4 * (2 - 1) <= Y
      /\ ackR'[2] => nd1 + 4 * (1 - 1) <= Y
  BY <1>1, <1>2, <1>3, <1>4, SMT DEF Beat
<1> QED BY <1>1, <1>5, <1>6, <1>7, Zenon DEF ReqBy, ReqFalls, A, D, Clock

(* What is left of a request to write drains. *)
LEMMA NeedByStep ==
  ASSUME LoopIInv, NEW a, NEW d, NEW done, NEW k, NEW i, NEW m,
         Tick(a, d), Step(a, d, done, k, i, m),
         NEW X \in Int, NEW Y \in Int, Y >= X - Dt, NeedBy(X),
         d => ~(m /\ ReturnAxi), ctl # "image_wr"
  PROVE  NeedBy(Y)'
<1>1. PICK na \in Int, nd \in Int, na1 \in Int, nd1 \in Int, dt \in Int :
        Clock(na, nd, na1, nd1, dt) /\ Beat(a, d, na, nd, na1, nd1, dt)
  BY Clocks
<1>2. Y >= X - dt
  BY <1>1, Zenon DEF Clock
<1>3. /\ wrNeedTemp => \/ wrFinishR[2] /\ nd + 4 * (1 - 1) + 20 <= X
                       \/ wrFinishR[1] /\ ~wrFinishR[2] /\ nd + 4 * (2 - 1) + 20 <= X
                       \/ /\ wrFinish /\ ~wrFinishR[1] /\ ~wrFinishR[2]
                          /\ nd < na /\ nd + 4 * (3 - 1) + 20 <= X
      /\ ~wrNeedTemp => /\ wrNeedPipe[1] => na + 5 * (4 - 1) <= X
                        /\ wrNeedPipe[2] => na + 5 * (3 - 1) <= X
                        /\ wrNeedPipe[3] => na + 5 * (2 - 1) <= X
                        /\ wrNeedR => na + 5 * (1 - 1) <= X
      /\ wrFinish => na + 5 * (1 - 1) + 8 <= X
      /\ wrFinishR[1] => wrFinish \/ nd + 4 * (2 - 1) <= X
      /\ wrFinishR[2] => nd + 4 * (1 - 1) <= X
  BY <1>1, Zenon DEF NeedBy, A, D, Clock
<1>4. /\ a => /\ (wrNeedPipe'[1] <=> wrNeedTemp) /\ (wrNeedPipe'[2] <=> wrNeedPipe[1])
              /\ (wrNeedPipe'[3] <=> wrNeedPipe[2]) /\ (wrNeedR' <=> wrNeedPipe[3])
              /\ ~wrFinish'
      /\ ~a => /\ (wrNeedPipe'[1] <=> wrNeedPipe[1]) /\ (wrNeedPipe'[2] <=> wrNeedPipe[2])
               /\ (wrNeedPipe'[3] <=> wrNeedPipe[3]) /\ (wrNeedR' <=> wrNeedR)
               /\ (wrFinish' <=> wrFinish)
      /\ d => /\ (wrFinishR'[1] <=> wrFinish) /\ (wrFinishR'[2] <=> wrFinishR[1])
              /\ (wrNeedTemp' <=> wrNeedTemp /\ ~wrFinishR[2])
      /\ ~d => /\ (wrFinishR'[1] <=> wrFinishR[1]) /\ (wrFinishR'[2] <=> wrFinishR[2])
               /\ (wrNeedTemp' <=> wrNeedTemp)
  BY NeedMoves
<1>5. wrNeedTemp' => \/ wrFinishR'[2] /\ nd1 + 4 * (1 - 1) + 20 <= Y
                     \/ wrFinishR'[1] /\ ~wrFinishR'[2] /\ nd1 + 4 * (2 - 1) + 20 <= Y
                     \/ /\ wrFinish' /\ ~wrFinishR'[1] /\ ~wrFinishR'[2]
                        /\ nd1 < na1 /\ nd1 + 4 * (3 - 1) + 20 <= Y
  BY <1>1, <1>2, <1>3, <1>4, SMT DEF Beat
<1>6. ~wrNeedTemp' => /\ wrNeedPipe'[1] => na1 + 5 * (4 - 1) <= Y
                      /\ wrNeedPipe'[2] => na1 + 5 * (3 - 1) <= Y
                      /\ wrNeedPipe'[3] => na1 + 5 * (2 - 1) <= Y
                      /\ wrNeedR' => na1 + 5 * (1 - 1) <= Y
  BY <1>1, <1>2, <1>3, <1>4, SMT DEF Beat
<1>7. /\ wrFinish' => na1 + 5 * (1 - 1) + 8 <= Y
      /\ wrFinishR'[1] => wrFinish' \/ nd1 + 4 * (2 - 1) <= Y
      /\ wrFinishR'[2] => nd1 + 4 * (1 - 1) <= Y
  BY <1>1, <1>2, <1>3, <1>4, SMT DEF Beat
<1> QED BY <1>1, <1>5, <1>6, <1>7, Zenon DEF NeedBy, A, D, Clock

(* The handshake of image_wr_finish runs back to where it was. *)
LEMMA RetByStep ==
  ASSUME LoopIInv, NEW a, NEW d, NEW done, NEW k, NEW i, NEW m,
         Tick(a, d), Step(a, d, done, k, i, m),
         NEW X \in Int, NEW Y \in Int, Y >= X - Dt, RetBy(X), ctl # "image_wr"
  PROVE  RetBy(Y)'
<1>1. PICK na \in Int, nd \in Int, na1 \in Int, nd1 \in Int, dt \in Int :
        Clock(na, nd, na1, nd1, dt) /\ Beat(a, d, na, nd, na1, nd1, dt)
  BY Clocks
<1>2. Y >= X - dt
  BY <1>1, Zenon DEF Clock
<1>3. /\ ~wrFinish
      /\ retFlag => /\ flagR[1] /\ flagR[2] /\ retReady
                    /\ (IF retReadyR[2] THEN na ELSE IF retReadyR[1] THEN na + 5 ELSE na + 10) + 22 <= X
      /\ retReadyR[2] => retReadyR[1] \/ na <= X
      /\ retReadyR[1] => retReady \/ na + 5 <= X
      /\ flagR[1] => flagR[2] /\ (retFlag \/ nd + 18 <= X)
      /\ flagR[2] => retReady /\ (flagR[1] \/ nd + 14 <= X)
      /\ retReady => readyTemp[1] /\ (flagR[2] \/ nd + 10 <= X)
      /\ readyTemp[1] => readyTemp[2] /\ (retReady \/ nd + 4 <= X)
      /\ readyTemp[2] => readyTemp[1] \/ nd <= X
  <2>1. A(1) = na /\ A(2) = na + 5 /\ A(3) = na + 10 /\ D(1) = nd /\ D(2) = nd + 4
    <3>1. na + 5 * (1 - 1) = na /\ na + 5 * (2 - 1) = na + 5 /\ na + 5 * (3 - 1) = na + 10
          /\ nd + 4 * (1 - 1) = nd /\ nd + 4 * (2 - 1) = nd + 4
      BY <1>1, SMT DEF Beat
    <3> QED BY <1>1, <3>1, Zenon DEF A, D, Clock
  <2>2. ToDrop = IF retReadyR[2] THEN na ELSE IF retReadyR[1] THEN na + 5 ELSE na + 10
    BY <2>1, Zenon DEF ToDrop
  <2> QED BY <2>1, <2>2, Zenon DEF RetBy
<1>4. /\ a => /\ (retFlag' <=> retFlag /\ ~retReadyR[2])
              /\ (retReadyR'[1] <=> retReady) /\ (retReadyR'[2] <=> retReadyR[1])
              /\ ~wrFinish'
      /\ ~a => /\ (retFlag' <=> retFlag) /\ ~wrFinish'
               /\ (retReadyR'[1] <=> retReadyR[1]) /\ (retReadyR'[2] <=> retReadyR[2])
      /\ d => /\ (flagR'[1] <=> retFlag) /\ (flagR'[2] <=> flagR[1])
              /\ (retReady' <=> flagR[2])
              /\ (readyTemp'[1] <=> retReady) /\ (readyTemp'[2] <=> readyTemp[1])
      /\ ~d => /\ (flagR'[1] <=> flagR[1]) /\ (flagR'[2] <=> flagR[2])
               /\ (retReady' <=> retReady)
               /\ (readyTemp'[1] <=> readyTemp[1]) /\ (readyTemp'[2] <=> readyTemp[2])
  BY <1>3, RetMoves, NeedMoves
<1>5. retFlag' => /\ flagR'[1] /\ flagR'[2] /\ retReady'
                  /\ (IF retReadyR'[2] THEN na1 ELSE IF retReadyR'[1] THEN na1 + 5 ELSE na1 + 10) + 22 <= Y
  BY <1>1, <1>2, <1>3, <1>4, SMT DEF Beat
<1>6. /\ retReadyR'[2] => retReadyR'[1] \/ na1 <= Y
      /\ retReadyR'[1] => retReady' \/ na1 + 5 <= Y
  BY <1>1, <1>2, <1>3, <1>4, SMT DEF Beat
<1>7. /\ flagR'[1] => flagR'[2] /\ (retFlag' \/ nd1 + 18 <= Y)
      /\ flagR'[2] => retReady' /\ (flagR'[1] \/ nd1 + 14 <= Y)
  BY <1>1, <1>2, <1>3, <1>4, SMT DEF Beat
<1>8. /\ retReady' => readyTemp'[1] /\ (flagR'[2] \/ nd1 + 10 <= Y)
      /\ readyTemp'[1] => readyTemp'[2] /\ (retReady' \/ nd1 + 4 <= Y)
      /\ readyTemp'[2] => readyTemp'[1] \/ nd1 <= Y
  BY <1>1, <1>2, <1>3, <1>4, SMT DEF Beat
<1>9. ~wrFinish'
  BY <1>4, Zenon DEF Beat
<1>10. A(1)' = na1 /\ A(2)' = na1 + 5 /\ A(3)' = na1 + 10 /\ D(1)' = nd1 /\ D(2)' = nd1 + 4
  <2>1. na1 + 5 * (1 - 1) = na1 /\ na1 + 5 * (2 - 1) = na1 + 5 /\ na1 + 5 * (3 - 1) = na1 + 10
        /\ nd1 + 4 * (1 - 1) = nd1 /\ nd1 + 4 * (2 - 1) = nd1 + 4
    BY <1>1, SMT DEF Beat
  <2> QED BY <1>1, <2>1, Zenon DEF A, D, Clock
<1>11. ToDrop' = IF retReadyR'[2] THEN na1 ELSE IF retReadyR'[1] THEN na1 + 5 ELSE na1 + 10
  <2>1. ToDrop' = IF retReadyR'[2] THEN A(1)' ELSE IF retReadyR'[1] THEN A(2)' ELSE A(3)'
    BY Zenon DEF ToDrop, A
  <2> QED BY <1>10, <2>1, Zenon
<1> QED BY <1>5, <1>6, <1>7, <1>8, <1>9, <1>10, <1>11, Zenon DEF RetBy

(* The shapes of the handshake of interrupt.v, register by register. *)
LEMMA RetShapes ==
  /\ RetUp(0) <=> ~retFlag /\ ~flagR[1] /\ ~flagR[2] /\ ~retReady /\ ~readyTemp[1]
       /\ ~readyTemp[2]
  /\ RetUp(0)' <=> ~retFlag' /\ ~flagR'[1] /\ ~flagR'[2] /\ ~retReady' /\ ~readyTemp'[1]
       /\ ~readyTemp'[2]
  /\ RetUp(1) <=> retFlag /\ ~flagR[1] /\ ~flagR[2] /\ ~retReady /\ ~readyTemp[1]
       /\ ~readyTemp[2]
  /\ RetUp(1)' <=> retFlag' /\ ~flagR'[1] /\ ~flagR'[2] /\ ~retReady' /\ ~readyTemp'[1]
       /\ ~readyTemp'[2]
  /\ RetUp(2) <=> retFlag /\ flagR[1] /\ ~flagR[2] /\ ~retReady /\ ~readyTemp[1]
       /\ ~readyTemp[2]
  /\ RetUp(2)' <=> retFlag' /\ flagR'[1] /\ ~flagR'[2] /\ ~retReady' /\ ~readyTemp'[1]
       /\ ~readyTemp'[2]
  /\ RetUp(3) <=> retFlag /\ flagR[1] /\ flagR[2] /\ ~retReady /\ ~readyTemp[1] /\ ~readyTemp[2]
  /\ RetUp(3)' <=> retFlag' /\ flagR'[1] /\ flagR'[2] /\ ~retReady' /\ ~readyTemp'[1]
       /\ ~readyTemp'[2]
  /\ RetUp(4) <=> retFlag /\ flagR[1] /\ flagR[2] /\ retReady /\ ~readyTemp[1] /\ ~readyTemp[2]
  /\ RetUp(4)' <=> retFlag' /\ flagR'[1] /\ flagR'[2] /\ retReady' /\ ~readyTemp'[1]
       /\ ~readyTemp'[2]
  /\ RetUp(5) <=> retFlag /\ flagR[1] /\ flagR[2] /\ retReady /\ readyTemp[1] /\ ~readyTemp[2]
  /\ RetUp(5)' <=> retFlag' /\ flagR'[1] /\ flagR'[2] /\ retReady' /\ readyTemp'[1]
       /\ ~readyTemp'[2]
<1>1. /\ RetUp(0) <=> ~retFlag /\ ~flagR[1] /\ ~flagR[2] /\ ~retReady /\ ~readyTemp[1]
           /\ ~readyTemp[2]
      /\ RetUp(0)' <=> ~retFlag' /\ ~flagR'[1] /\ ~flagR'[2] /\ ~retReady'
           /\ ~readyTemp'[1] /\ ~readyTemp'[2]
  BY SMT DEF RetUp
<1>2. /\ RetUp(1) <=> retFlag /\ ~flagR[1] /\ ~flagR[2] /\ ~retReady /\ ~readyTemp[1]
           /\ ~readyTemp[2]
      /\ RetUp(1)' <=> retFlag' /\ ~flagR'[1] /\ ~flagR'[2] /\ ~retReady' /\ ~readyTemp'[1]
           /\ ~readyTemp'[2]
  BY SMT DEF RetUp
<1>3. /\ RetUp(2) <=> retFlag /\ flagR[1] /\ ~flagR[2] /\ ~retReady /\ ~readyTemp[1]
           /\ ~readyTemp[2]
      /\ RetUp(2)' <=> retFlag' /\ flagR'[1] /\ ~flagR'[2] /\ ~retReady' /\ ~readyTemp'[1]
           /\ ~readyTemp'[2]
  BY SMT DEF RetUp
<1>4. /\ RetUp(3) <=> retFlag /\ flagR[1] /\ flagR[2] /\ ~retReady /\ ~readyTemp[1]
           /\ ~readyTemp[2]
      /\ RetUp(3)' <=> retFlag' /\ flagR'[1] /\ flagR'[2] /\ ~retReady' /\ ~readyTemp'[1]
           /\ ~readyTemp'[2]
  BY SMT DEF RetUp
<1>5. /\ RetUp(4) <=> retFlag /\ flagR[1] /\ flagR[2] /\ retReady /\ ~readyTemp[1]
           /\ ~readyTemp[2]
      /\ RetUp(4)' <=> retFlag' /\ flagR'[1] /\ flagR'[2] /\ retReady' /\ ~readyTemp'[1]
           /\ ~readyTemp'[2]
  BY SMT DEF RetUp
<1>6. /\ RetUp(5) <=> retFlag /\ flagR[1] /\ flagR[2] /\ retReady /\ readyTemp[1]
           /\ ~readyTemp[2]
      /\ RetUp(5)' <=> retFlag' /\ flagR'[1] /\ flagR'[2] /\ retReady' /\ readyTemp'[1]
           /\ ~readyTemp'[2]
  BY SMT DEF RetUp
<1> QED BY <1>1, <1>2, <1>3, <1>4, <1>5, <1>6

(* The times to the next edges, as numbers. *)
LEMMA Times ==
  ASSUME NEW a, NEW d, NEW na, NEW nd, NEW na1, NEW nd1, NEW dt,
         Clock(na, nd, na1, nd1, dt), Beat(a, d, na, nd, na1, nd1, dt)
  PROVE  /\ A(1) = na /\ A(2) = na + 5 /\ A(3) = na + 10 /\ A(4) = na + 15
         /\ A(1)' = na1 /\ A(2)' = na1 + 5 /\ A(3)' = na1 + 10 /\ A(4)' = na1 + 15
         /\ D(1) = nd /\ D(2) = nd + 4 /\ D(3) = nd + 8 /\ D(4) = nd + 12 /\ D(5) = nd + 16
         /\ D(1)' = nd1 /\ D(2)' = nd1 + 4 /\ D(3)' = nd1 + 8 /\ D(4)' = nd1 + 12
         /\ D(5)' = nd1 + 16
<1>1. ASSUME NEW x \in Int
      PROVE  /\ x + 5 * (1 - 1) = x /\ x + 5 * (2 - 1) = x + 5 /\ x + 5 * (3 - 1) = x + 10
             /\ x + 5 * (4 - 1) = x + 15
             /\ x + 4 * (1 - 1) = x /\ x + 4 * (2 - 1) = x + 4 /\ x + 4 * (3 - 1) = x + 8
             /\ x + 4 * (4 - 1) = x + 12 /\ x + 4 * (5 - 1) = x + 16
  BY SMT
<1>2. na \in Int /\ nd \in Int /\ na1 \in Int /\ nd1 \in Int
  BY DEF Beat
<1>3. A(1) = na /\ A(2) = na + 5 /\ A(3) = na + 10 /\ A(4) = na + 15
  BY <1>1, <1>2, Zenon DEF A, Clock
<1>4. A(1)' = na1 /\ A(2)' = na1 + 5 /\ A(3)' = na1 + 10 /\ A(4)' = na1 + 15
  BY <1>1, <1>2, Zenon DEF A, Clock
<1>5. D(1) = nd /\ D(2) = nd + 4 /\ D(3) = nd + 8 /\ D(4) = nd + 12 /\ D(5) = nd + 16
  BY <1>1, <1>2, Zenon DEF D, Clock
<1>6. D(1)' = nd1 /\ D(2)' = nd1 + 4 /\ D(3)' = nd1 + 8 /\ D(4)' = nd1 + 12 /\ D(5)' = nd1 + 16
  BY <1>1, <1>2, Zenon DEF D, Clock
<1> QED BY <1>3, <1>4, <1>5, <1>6

(* The two ends of that handshake, likewise. *)
LEMMA Ends ==
  ASSUME NEW a, NEW d, NEW na, NEW nd, NEW na1, NEW nd1, NEW dt,
         Clock(na, nd, na1, nd1, dt), Beat(a, d, na, nd, na1, nd1, dt)
  PROVE  /\ ToDrop = IF retReadyR[2] THEN na ELSE IF retReadyR[1] THEN na + 5 ELSE na + 10
         /\ ToDrop' = IF retReadyR'[2] THEN na1 ELSE IF retReadyR'[1] THEN na1 + 5 ELSE na1 + 10
         /\ ToEnd = IF readyTemp[1] THEN nd ELSE nd + 4
         /\ ToEnd' = IF readyTemp'[1] THEN nd1 ELSE nd1 + 4
<1>1. /\ ToDrop = IF retReadyR[2] THEN A(1) ELSE IF retReadyR[1] THEN A(2) ELSE A(3)
      /\ ToEnd = IF readyTemp[1] THEN D(1) ELSE D(2)
  BY Zenon DEF ToDrop, ToEnd
<1>2. /\ ToDrop' = IF retReadyR'[2] THEN A(1)' ELSE IF retReadyR'[1] THEN A(2)' ELSE A(3)'
      /\ ToEnd' = IF readyTemp'[1] THEN D(1)' ELSE D(2)'
  BY Zenon DEF ToDrop, ToEnd, A, D
<1>3. /\ A(1) = na /\ A(2) = na + 5 /\ A(3) = na + 10 /\ A(4) = na + 15
      /\ A(1)' = na1 /\ A(2)' = na1 + 5 /\ A(3)' = na1 + 10 /\ A(4)' = na1 + 15
      /\ D(1) = nd /\ D(2) = nd + 4 /\ D(3) = nd + 8 /\ D(4) = nd + 12 /\ D(5) = nd + 16
      /\ D(1)' = nd1 /\ D(2)' = nd1 + 4 /\ D(3)' = nd1 + 8 /\ D(4)' = nd1 + 12
      /\ D(5)' = nd1 + 16
  BY Times
<1> QED BY <1>1, <1>2, <1>3, Zenon

(* image_wr_finish on its way to process_control_send. *)
LEMMA RetRisesStep ==
  ASSUME LoopIInv, NEW a, NEW d, NEW done, NEW k, NEW i, NEW m,
         Tick(a, d), Step(a, d, done, k, i, m),
         NEW X \in Int, NEW Y \in Int, Y >= X - Dt, RetRises(X), ctl # "image_wr"
  PROVE  /\ d /\ ReadyPos => D(1) <= X /\ RetBy(D(1) + 34)'
         /\ ~(d /\ ReadyPos) => RetRises(Y)'
<1>1. PICK na \in Int, nd \in Int, na1 \in Int, nd1 \in Int, dt \in Int :
        Clock(na, nd, na1, nd1, dt) /\ Beat(a, d, na, nd, na1, nd1, dt)
  BY Clocks
<1>t. /\ A(1) = na /\ A(2) = na + 5 /\ A(3) = na + 10 /\ A(4) = na + 15
      /\ A(1)' = na1 /\ A(2)' = na1 + 5 /\ A(3)' = na1 + 10 /\ A(4)' = na1 + 15
      /\ D(1) = nd /\ D(2) = nd + 4 /\ D(3) = nd + 8 /\ D(4) = nd + 12 /\ D(5) = nd + 16
      /\ D(1)' = nd1 /\ D(2)' = nd1 + 4 /\ D(3)' = nd1 + 8 /\ D(4)' = nd1 + 12
      /\ D(5)' = nd1 + 16
  BY <1>1, Times
<1>e. /\ ToDrop = IF retReadyR[2] THEN na ELSE IF retReadyR[1] THEN na + 5 ELSE na + 10
      /\ ToDrop' = IF retReadyR'[2] THEN na1 ELSE IF retReadyR'[1] THEN na1 + 5 ELSE na1 + 10
      /\ ToEnd = IF readyTemp[1] THEN nd ELSE nd + 4
      /\ ToEnd' = IF readyTemp'[1] THEN nd1 ELSE nd1 + 4
  BY <1>1, Ends
<1>2. Y >= X - dt
  BY <1>1, Zenon DEF Clock
<1>3. /\ \/ wrFinish /\ RetUp(0) /\ na + 20 <= X
         \/ ~wrFinish /\ RetUp(1) /\ nd + 16 <= X
         \/ ~wrFinish /\ RetUp(2) /\ nd + 12 <= X
         \/ ~wrFinish /\ RetUp(3) /\ nd + 8 <= X
         \/ ~wrFinish /\ RetUp(4) /\ nd + 4 <= X
         \/ ~wrFinish /\ RetUp(5) /\ nd <= X
      /\ retReadyR[2] => retReadyR[1]
      /\ retReadyR[1] => retReady
      /\ retReady => (IF readyTemp[1] THEN nd ELSE nd + 4)
                       < (IF retReadyR[2] THEN na ELSE IF retReadyR[1] THEN na + 5 ELSE na + 10)
  BY <1>t, <1>e, Zenon DEF RetRises
<1>4. /\ a => /\ (retFlag' <=> wrFinish \/ (retFlag /\ ~retReadyR[2]))
              /\ (retReadyR'[1] <=> retReady) /\ (retReadyR'[2] <=> retReadyR[1])
              /\ ~wrFinish'
      /\ ~a => /\ (retFlag' <=> retFlag) /\ (wrFinish' <=> wrFinish)
               /\ (retReadyR'[1] <=> retReadyR[1]) /\ (retReadyR'[2] <=> retReadyR[2])
      /\ d => /\ (flagR'[1] <=> retFlag) /\ (flagR'[2] <=> flagR[1])
              /\ (retReady' <=> flagR[2])
              /\ (readyTemp'[1] <=> retReady) /\ (readyTemp'[2] <=> readyTemp[1])
      /\ ~d => /\ (flagR'[1] <=> flagR[1]) /\ (flagR'[2] <=> flagR[2])
               /\ (retReady' <=> retReady)
               /\ (readyTemp'[1] <=> readyTemp[1]) /\ (readyTemp'[2] <=> readyTemp[2])
  BY RetMoves, NeedMoves
<1>5. CASE wrFinish /\ RetUp(0) /\ na + 20 <= X
  <2>1. wrFinish /\ ~retFlag /\ ~flagR[1] /\ ~flagR[2] /\ ~retReady /\ ~readyTemp[1]
             /\ ~readyTemp[2] /\ na + 20 <= X
    BY <1>5, RetShapes, Zenon
  <2>2. ~ReadyPos
    BY <2>1, Zenon DEF ReadyPos
  <2>3. CASE a
    <3>1. ~wrFinish' /\ retFlag' /\ ~flagR'[1] /\ ~flagR'[2] /\ ~retReady'
               /\ ~readyTemp'[1] /\ ~readyTemp'[2]
      BY <1>1, <1>3, <1>4, <2>1, <2>3, SMT DEF Beat
    <3>2. nd1 + 16 <= Y
      BY <1>1, <1>2, <2>1, <2>3, SMT DEF Beat
    <3>3. /\ retReadyR'[2] => retReadyR'[1]
          /\ retReadyR'[1] => retReady'
          /\ retReady' => (IF readyTemp'[1] THEN nd1 ELSE nd1 + 4)
                           < (IF retReadyR'[2] THEN na1 ELSE IF retReadyR'[1] THEN na1 + 5 ELSE na1 + 10)
      BY <1>1, <1>3, <1>4, <2>1, <2>3, <3>1, SMT DEF Beat
    <3>4. ~wrFinish' /\ RetUp(1)'
      BY <3>1, RetShapes, Zenon
    <3>5. RetRises(Y)'
      BY <3>2, <3>3, <3>4, <1>t, <1>e, Zenon DEF RetRises
    <3> QED BY <2>2, <3>5
  <2>4. CASE ~a
    <3>1. wrFinish' /\ ~retFlag' /\ ~flagR'[1] /\ ~flagR'[2] /\ ~retReady'
               /\ ~readyTemp'[1] /\ ~readyTemp'[2]
      BY <1>1, <1>3, <1>4, <2>1, <2>4, SMT DEF Beat
    <3>2. na1 + 20 <= Y
      BY <1>1, <1>2, <2>1, <2>4, SMT DEF Beat
    <3>3. /\ retReadyR'[2] => retReadyR'[1]
          /\ retReadyR'[1] => retReady'
          /\ retReady' => (IF readyTemp'[1] THEN nd1 ELSE nd1 + 4)
                           < (IF retReadyR'[2] THEN na1 ELSE IF retReadyR'[1] THEN na1 + 5 ELSE na1 + 10)
      BY <1>1, <1>3, <1>4, <2>1, <2>4, <3>1, SMT DEF Beat
    <3>4. wrFinish' /\ RetUp(0)'
      BY <3>1, RetShapes, Zenon
    <3>5. RetRises(Y)'
      BY <3>2, <3>3, <3>4, <1>t, <1>e, Zenon DEF RetRises
    <3> QED BY <2>2, <3>5
  <2> QED BY <2>3, <2>4
<1>6. CASE ~wrFinish /\ RetUp(1) /\ nd + 16 <= X
  <2>1. ~wrFinish /\ retFlag /\ ~flagR[1] /\ ~flagR[2] /\ ~retReady /\ ~readyTemp[1]
             /\ ~readyTemp[2] /\ nd + 16 <= X
    BY <1>6, RetShapes, Zenon
  <2>2. ~ReadyPos
    BY <2>1, Zenon DEF ReadyPos
  <2>3. CASE d
    <3>1. ~wrFinish' /\ retFlag' /\ flagR'[1] /\ ~flagR'[2] /\ ~retReady' /\ ~readyTemp'[1]
               /\ ~readyTemp'[2]
      BY <1>1, <1>3, <1>4, <2>1, <2>3, SMT DEF Beat
    <3>2. nd1 + 12 <= Y
      BY <1>1, <1>2, <2>1, <2>3, SMT DEF Beat
    <3>3. /\ retReadyR'[2] => retReadyR'[1]
          /\ retReadyR'[1] => retReady'
          /\ retReady' => (IF readyTemp'[1] THEN nd1 ELSE nd1 + 4)
                           < (IF retReadyR'[2] THEN na1 ELSE IF retReadyR'[1] THEN na1 + 5 ELSE na1 + 10)
      BY <1>1, <1>3, <1>4, <2>1, <2>3, <3>1, SMT DEF Beat
    <3>4. ~wrFinish' /\ RetUp(2)'
      BY <3>1, RetShapes, Zenon
    <3>5. RetRises(Y)'
      BY <3>2, <3>3, <3>4, <1>t, <1>e, Zenon DEF RetRises
    <3> QED BY <2>2, <3>5
  <2>4. CASE ~d
    <3>1. ~wrFinish' /\ retFlag' /\ ~flagR'[1] /\ ~flagR'[2] /\ ~retReady'
               /\ ~readyTemp'[1] /\ ~readyTemp'[2]
      BY <1>1, <1>3, <1>4, <2>1, <2>4, SMT DEF Beat
    <3>2. nd1 + 16 <= Y
      BY <1>1, <1>2, <2>1, <2>4, SMT DEF Beat
    <3>3. /\ retReadyR'[2] => retReadyR'[1]
          /\ retReadyR'[1] => retReady'
          /\ retReady' => (IF readyTemp'[1] THEN nd1 ELSE nd1 + 4)
                           < (IF retReadyR'[2] THEN na1 ELSE IF retReadyR'[1] THEN na1 + 5 ELSE na1 + 10)
      BY <1>1, <1>3, <1>4, <2>1, <2>4, <3>1, SMT DEF Beat
    <3>4. ~wrFinish' /\ RetUp(1)'
      BY <3>1, RetShapes, Zenon
    <3>5. RetRises(Y)'
      BY <3>2, <3>3, <3>4, <1>t, <1>e, Zenon DEF RetRises
    <3> QED BY <2>2, <3>5
  <2> QED BY <2>3, <2>4
<1>7. CASE ~wrFinish /\ RetUp(2) /\ nd + 12 <= X
  <2>1. ~wrFinish /\ retFlag /\ flagR[1] /\ ~flagR[2] /\ ~retReady /\ ~readyTemp[1]
             /\ ~readyTemp[2] /\ nd + 12 <= X
    BY <1>7, RetShapes, Zenon
  <2>2. ~ReadyPos
    BY <2>1, Zenon DEF ReadyPos
  <2>3. CASE d
    <3>1. ~wrFinish' /\ retFlag' /\ flagR'[1] /\ flagR'[2] /\ ~retReady' /\ ~readyTemp'[1]
               /\ ~readyTemp'[2]
      BY <1>1, <1>3, <1>4, <2>1, <2>3, SMT DEF Beat
    <3>2. nd1 + 8 <= Y
      BY <1>1, <1>2, <2>1, <2>3, SMT DEF Beat
    <3>3. /\ retReadyR'[2] => retReadyR'[1]
          /\ retReadyR'[1] => retReady'
          /\ retReady' => (IF readyTemp'[1] THEN nd1 ELSE nd1 + 4)
                           < (IF retReadyR'[2] THEN na1 ELSE IF retReadyR'[1] THEN na1 + 5 ELSE na1 + 10)
      BY <1>1, <1>3, <1>4, <2>1, <2>3, <3>1, SMT DEF Beat
    <3>4. ~wrFinish' /\ RetUp(3)'
      BY <3>1, RetShapes, Zenon
    <3>5. RetRises(Y)'
      BY <3>2, <3>3, <3>4, <1>t, <1>e, Zenon DEF RetRises
    <3> QED BY <2>2, <3>5
  <2>4. CASE ~d
    <3>1. ~wrFinish' /\ retFlag' /\ flagR'[1] /\ ~flagR'[2] /\ ~retReady' /\ ~readyTemp'[1]
               /\ ~readyTemp'[2]
      BY <1>1, <1>3, <1>4, <2>1, <2>4, SMT DEF Beat
    <3>2. nd1 + 12 <= Y
      BY <1>1, <1>2, <2>1, <2>4, SMT DEF Beat
    <3>3. /\ retReadyR'[2] => retReadyR'[1]
          /\ retReadyR'[1] => retReady'
          /\ retReady' => (IF readyTemp'[1] THEN nd1 ELSE nd1 + 4)
                           < (IF retReadyR'[2] THEN na1 ELSE IF retReadyR'[1] THEN na1 + 5 ELSE na1 + 10)
      BY <1>1, <1>3, <1>4, <2>1, <2>4, <3>1, SMT DEF Beat
    <3>4. ~wrFinish' /\ RetUp(2)'
      BY <3>1, RetShapes, Zenon
    <3>5. RetRises(Y)'
      BY <3>2, <3>3, <3>4, <1>t, <1>e, Zenon DEF RetRises
    <3> QED BY <2>2, <3>5
  <2> QED BY <2>3, <2>4
<1>8. CASE ~wrFinish /\ RetUp(3) /\ nd + 8 <= X
  <2>1. ~wrFinish /\ retFlag /\ flagR[1] /\ flagR[2] /\ ~retReady /\ ~readyTemp[1]
             /\ ~readyTemp[2] /\ nd + 8 <= X
    BY <1>8, RetShapes, Zenon
  <2>2. ~ReadyPos
    BY <2>1, Zenon DEF ReadyPos
  <2>3. CASE d
    <3>1. ~wrFinish' /\ retFlag' /\ flagR'[1] /\ flagR'[2] /\ retReady' /\ ~readyTemp'[1]
               /\ ~readyTemp'[2]
      BY <1>1, <1>3, <1>4, <2>1, <2>3, SMT DEF Beat
    <3>2. nd1 + 4 <= Y
      BY <1>1, <1>2, <2>1, <2>3, SMT DEF Beat
    <3>3. /\ retReadyR'[2] => retReadyR'[1]
          /\ retReadyR'[1] => retReady'
          /\ retReady' => (IF readyTemp'[1] THEN nd1 ELSE nd1 + 4)
                           < (IF retReadyR'[2] THEN na1 ELSE IF retReadyR'[1] THEN na1 + 5 ELSE na1 + 10)
      BY <1>1, <1>3, <1>4, <2>1, <2>3, <3>1, SMT DEF Beat
    <3>4. ~wrFinish' /\ RetUp(4)'
      BY <3>1, RetShapes, Zenon
    <3>5. RetRises(Y)'
      BY <3>2, <3>3, <3>4, <1>t, <1>e, Zenon DEF RetRises
    <3> QED BY <2>2, <3>5
  <2>4. CASE ~d
    <3>1. ~wrFinish' /\ retFlag' /\ flagR'[1] /\ flagR'[2] /\ ~retReady' /\ ~readyTemp'[1]
               /\ ~readyTemp'[2]
      BY <1>1, <1>3, <1>4, <2>1, <2>4, SMT DEF Beat
    <3>2. nd1 + 8 <= Y
      BY <1>1, <1>2, <2>1, <2>4, SMT DEF Beat
    <3>3. /\ retReadyR'[2] => retReadyR'[1]
          /\ retReadyR'[1] => retReady'
          /\ retReady' => (IF readyTemp'[1] THEN nd1 ELSE nd1 + 4)
                           < (IF retReadyR'[2] THEN na1 ELSE IF retReadyR'[1] THEN na1 + 5 ELSE na1 + 10)
      BY <1>1, <1>3, <1>4, <2>1, <2>4, <3>1, SMT DEF Beat
    <3>4. ~wrFinish' /\ RetUp(3)'
      BY <3>1, RetShapes, Zenon
    <3>5. RetRises(Y)'
      BY <3>2, <3>3, <3>4, <1>t, <1>e, Zenon DEF RetRises
    <3> QED BY <2>2, <3>5
  <2> QED BY <2>3, <2>4
<1>9. CASE ~wrFinish /\ RetUp(4) /\ nd + 4 <= X
  <2>1. ~wrFinish /\ retFlag /\ flagR[1] /\ flagR[2] /\ retReady /\ ~readyTemp[1]
             /\ ~readyTemp[2] /\ nd + 4 <= X
    BY <1>9, RetShapes, Zenon
  <2>2. ~ReadyPos
    BY <2>1, Zenon DEF ReadyPos
  <2>3. CASE d
    <3>1. ~wrFinish' /\ retFlag' /\ flagR'[1] /\ flagR'[2] /\ retReady' /\ readyTemp'[1]
               /\ ~readyTemp'[2]
      BY <1>1, <1>3, <1>4, <2>1, <2>3, SMT DEF Beat
    <3>2. nd1 <= Y
      BY <1>1, <1>2, <2>1, <2>3, SMT DEF Beat
    <3>3. /\ retReadyR'[2] => retReadyR'[1]
          /\ retReadyR'[1] => retReady'
          /\ retReady' => (IF readyTemp'[1] THEN nd1 ELSE nd1 + 4)
                           < (IF retReadyR'[2] THEN na1 ELSE IF retReadyR'[1] THEN na1 + 5 ELSE na1 + 10)
      BY <1>1, <1>3, <1>4, <2>1, <2>3, <3>1, SMT DEF Beat
    <3>4. ~wrFinish' /\ RetUp(5)'
      BY <3>1, RetShapes, Zenon
    <3>5. RetRises(Y)'
      BY <3>2, <3>3, <3>4, <1>t, <1>e, Zenon DEF RetRises
    <3> QED BY <2>2, <3>5
  <2>4. CASE ~d
    <3>1. ~wrFinish' /\ retFlag' /\ flagR'[1] /\ flagR'[2] /\ retReady' /\ ~readyTemp'[1]
               /\ ~readyTemp'[2]
      BY <1>1, <1>3, <1>4, <2>1, <2>4, SMT DEF Beat
    <3>2. nd1 + 4 <= Y
      BY <1>1, <1>2, <2>1, <2>4, SMT DEF Beat
    <3>3. /\ retReadyR'[2] => retReadyR'[1]
          /\ retReadyR'[1] => retReady'
          /\ retReady' => (IF readyTemp'[1] THEN nd1 ELSE nd1 + 4)
                           < (IF retReadyR'[2] THEN na1 ELSE IF retReadyR'[1] THEN na1 + 5 ELSE na1 + 10)
      BY <1>1, <1>3, <1>4, <2>1, <2>4, <3>1, SMT DEF Beat
    <3>4. ~wrFinish' /\ RetUp(4)'
      BY <3>1, RetShapes, Zenon
    <3>5. RetRises(Y)'
      BY <3>2, <3>3, <3>4, <1>t, <1>e, Zenon DEF RetRises
    <3> QED BY <2>2, <3>5
  <2> QED BY <2>3, <2>4
<1>10. CASE ~wrFinish /\ RetUp(5) /\ nd <= X
  <2>1. ~wrFinish /\ retFlag /\ flagR[1] /\ flagR[2] /\ retReady /\ readyTemp[1]
             /\ ~readyTemp[2] /\ nd <= X
    BY <1>10, RetShapes, Zenon
  <2>2. ReadyPos
    BY <2>1, Zenon DEF ReadyPos
  <2>3. CASE ~d
    <3>1. ~wrFinish' /\ retFlag' /\ flagR'[1] /\ flagR'[2] /\ retReady' /\ readyTemp'[1]
               /\ ~readyTemp'[2]
      BY <1>1, <1>3, <1>4, <2>1, <2>3, SMT DEF Beat
    <3>2. nd1 <= Y
      BY <1>1, <1>2, <2>1, <2>3, SMT DEF Beat
    <3>3. /\ retReadyR'[2] => retReadyR'[1]
          /\ retReadyR'[1] => retReady'
          /\ retReady' => (IF readyTemp'[1] THEN nd1 ELSE nd1 + 4)
                           < (IF retReadyR'[2] THEN na1 ELSE IF retReadyR'[1] THEN na1 + 5 ELSE na1 + 10)
      BY <1>1, <1>3, <1>4, <2>1, <2>3, <3>1, SMT DEF Beat
    <3>4. ~wrFinish' /\ RetUp(5)'
      BY <3>1, RetShapes, Zenon
    <3>5. RetRises(Y)'
      BY <3>2, <3>3, <3>4, <1>t, <1>e, Zenon DEF RetRises
    <3> QED BY <2>3, <3>5
  <2>4. CASE d
    <3>1. D(1) <= X
      BY <2>1, <1>t, Zenon
    <3>2. /\ ~wrFinish'
          /\ retFlag' => /\ flagR'[1] /\ flagR'[2] /\ retReady'
                         /\ (IF retReadyR'[2] THEN na1 ELSE IF retReadyR'[1] THEN na1 + 5 ELSE na1 + 10) + 22 <= nd1 + 34
          /\ retReadyR'[2] => retReadyR'[1] \/ na1 <= nd1 + 34
          /\ retReadyR'[1] => retReady' \/ na1 + 5 <= nd1 + 34
          /\ flagR'[1] => flagR'[2] /\ (retFlag' \/ nd1 + 18 <= nd1 + 34)
      BY <1>1, <1>3, <1>4, <2>1, <2>4, SMT DEF Beat
    <3>3. /\ flagR'[2] => retReady' /\ (flagR'[1] \/ nd1 + 14 <= nd1 + 34)
          /\ retReady' => readyTemp'[1] /\ (flagR'[2] \/ nd1 + 10 <= nd1 + 34)
          /\ readyTemp'[1] => readyTemp'[2] /\ (retReady' \/ nd1 + 4 <= nd1 + 34)
          /\ readyTemp'[2] => readyTemp'[1] \/ nd1 <= nd1 + 34
      BY <1>1, <1>4, <2>1, <2>4, SMT DEF Beat
    <3>4. (D(1) + 34)' = nd1 + 34
      BY <1>t, Zenon
    <3>5. RetBy(D(1) + 34)'
      BY <3>2, <3>3, <3>4, <1>t, <1>e, Zenon DEF RetBy
    <3> QED BY <2>2, <2>4, <3>1, <3>5
  <2> QED BY <2>3, <2>4
<1> QED BY <1>3, <1>5, <1>6, <1>7, <1>8, <1>9, <1>10

(* The deadlines are natural numbers, before and after a step. *)
LEMMA NextNumbers ==
  ASSUME LoopIInv, NEW a, NEW d, NEW done, NEW k, NEW i, NEW m,
         Tick(a, d), Step(a, d, done, k, i, m)
  PROVE  /\ KernelTime' \in Nat /\ BeginTime' \in Nat /\ IdleTime' \in Nat /\ JudgeTime' \in Nat
         /\ KernelTime \in Nat /\ BeginTime \in Nat /\ IdleTime \in Nat /\ JudgeTime \in Nat
         /\ Dt \in Nat
<1>1. BeginTime' \in Nat
  <2>1. psCnt' \in 0..StartCycles
    BY PsMoves, Ranges, Numbers, SMT DEF Tick
  <2>3. PICK n1 \in Int, p1 \in Int : n1 = NextAxi' /\ p1 = psCnt' /\ n1 \in 1..5
    BY <2>1, Numbers, SMT DEF Tick
  <2>4. p1 \in 0..StartCycles
    BY <2>1, <2>3, Zenon
  <2>5. n1 + 5 * ((StartCycles + 1 - p1) - 1) \in Nat
             /\ n1 + 5 * ((StartCycles + 2) - 1) \in Nat
    <3>1. p1 \in Int /\ 0 <= p1 /\ p1 <= StartCycles
      BY <2>3, <2>4, Numbers, SMT
    <3>2. n1 \in 1..5
      BY <2>3
    <3>3. n1 + 5 * ((StartCycles + 1 - p1) - 1) >= 0 /\ n1 + 5 * ((StartCycles + 2) - 1) >= 0
      BY <3>1, <3>2, Numbers, SMT
    <3> QED BY <3>1, <3>2, <3>3, Numbers, SMT
  <2>6. A(StartCycles + 1 - psCnt)' \in Nat /\ A(StartCycles + 2)' \in Nat
    BY <2>3, <2>5, Zenon DEF A
  <2> QED BY <2>6, Zenon DEF BeginTime
<1>2. KernelTime' \in Nat
  <2>1. headDelayCnt' \in 0..HeadDelay
    BY StateMoves, Ranges, Numbers, SMT DEF HeadDelayNext, Tick
  <2> QED BY <2>1, Ranges, Numbers, SMT DEF KernelTime, D, Tick
<1>3. waitCnt' \in 0..15 /\ ctl' \in Transfer!Ctls
           /\ (ctl' = "iterate_head_wait" => waitCnt' <= 3)
  <2>1. waitCnt' \in 0..15 /\ ctl' \in Transfer!Ctls
    BY CtlMoves, Ranges, SMT DEF Transfer!Ctls, Tick, LoopIInv, Counters
  <2> QED BY <2>1, CountersStep DEF Counters
<1>4. IdleTime' \in Nat
  BY <1>3, SMT DEF IdleTime, A, Tick
<1>5. JudgeTime' \in Nat
  BY <1>3, SMT DEF JudgeTime, A, Tick
<1>6. Dt \in Nat
  BY SMT DEF Tick
<1> QED BY <1>1, <1>2, <1>4, <1>5, <1>6, KernelTimePasses, BeginTimePasses, IdleTimePasses,
     JudgeTimePasses

(* AnswerTime loses at most what a step takes. *)
LEMMA AnswerTimePasses ==
  ASSUME LoopIInv, NEW a, NEW d, NEW done, NEW k, NEW i, NEW m,
         Tick(a, d), Step(a, d, done, k, i, m),
         state # "send_image", state' # "send_image"
  PROVE  AnswerTime \in Nat /\ AnswerTime' \in Nat /\ AnswerTime' >= AnswerTime - Dt
<1>1. PICK na \in Int, nd \in Int, na1 \in Int, nd1 \in Int, dt \in Int :
        Clock(na, nd, na1, nd1, dt) /\ Beat(a, d, na, nd, na1, nd1, dt)
  BY Clocks
<1>2. D(1) = nd /\ D(1)' = nd1 /\ Dt = dt
  BY <1>1, Times DEF Clock
<1>3. PICK kt \in Int, kt1 \in Int, bt \in Int, bt1 \in Int :
        /\ kt = KernelTime /\ kt1 = KernelTime' /\ bt = BeginTime /\ bt1 = BeginTime'
        /\ kt >= 0 /\ kt1 >= 0 /\ bt >= 0 /\ bt1 >= 0
  <2>1. KernelTime \in Int /\ KernelTime' \in Int /\ BeginTime \in Int /\ BeginTime' \in Int
        /\ KernelTime >= 0 /\ KernelTime' >= 0 /\ BeginTime >= 0 /\ BeginTime' >= 0
    BY NextNumbers, SMT
  <2> QED BY <2>1
<1>4. /\ state = "end" => AnswerTime = nd + 34
      /\ state \in Pre => AnswerTime = kt
      /\ AtRest => AnswerTime = bt
      /\ state # "end" /\ state \notin Pre /\ ~AtRest => AnswerTime = 0
  BY <1>2, <1>3, SMT DEF AnswerTime, AtRest, Rest, Pre
<1>5. /\ state' = "end" => AnswerTime' = nd1 + 34
      /\ state' \in Pre => AnswerTime' = kt1
      /\ AtRest' => AnswerTime' = bt1
      /\ state' # "end" /\ state' \notin Pre /\ ~AtRest' => AnswerTime' = 0
  <2>1. AnswerTime' = IF state' = "end" THEN D(1)' + 34
                      ELSE IF state' \in Pre THEN KernelTime'
                      ELSE IF AtRest' THEN BeginTime' ELSE 0
    BY SMT DEF AnswerTime, AtRest, Rest, Pre
  <2> QED BY <1>2, <1>3, <2>1, SMT DEF AtRest, Rest, Pre
<1>6. PICK t \in Int, t1 \in Int : t = AnswerTime /\ t1 = AnswerTime' /\ t >= 0 /\ t1 >= 0
  <2>1. nd + 34 >= 0 /\ nd1 + 34 >= 0 /\ nd + 34 \in Int /\ nd1 + 34 \in Int
    BY <1>1, SMT DEF Beat
  <2>2. AnswerTime \in {nd + 34, kt, bt, 0} /\ AnswerTime' \in {nd1 + 34, kt1, bt1, 0}
    BY <1>4, <1>5, Zenon
  <2> QED BY <1>3, <2>1, <2>2
<1>7. t1 >= t - dt
  <2>1. CASE state = "end"
    <3>1. CASE ~d
      <4>1. state' = "end"
        BY <2>1, <3>1, StateMoves
      <4>2. t = nd + 34 /\ t1 = nd1 + 34
        BY <1>4, <1>5, <1>6, <2>1, <4>1, Zenon
      <4> QED BY <1>1, <3>1, <4>2, SMT DEF Beat
    <3>2. CASE d
      <4>1. t = nd + 34 /\ dt = nd
        BY <1>1, <1>4, <1>6, <2>1, <3>2, Zenon DEF Beat
      <4>2. CASE state' = "start"
        <5>1. KernelTime' = 4 * HeadDelay + 12
          BY <2>1, <4>2, KernelTimePasses DEF Pre
        <5>2. t1 = 4 * HeadDelay + 12
          BY <1>3, <1>5, <1>6, <4>2, <5>1, Zenon DEF Pre
        <5> QED BY <1>1, <4>1, <5>2, Numbers, SMT DEF Beat
      <4>3. CASE state' = "inter"
        <5>1. ps' \in {"wait_rise", "wait_fall"}
          BY <2>1, AlgRises, PsMoves DEF Tick
        <5>2. AtRest' /\ BeginTime' = A(StartCycles + 2)'
          BY <4>3, <5>1, Zenon DEF AtRest, Rest, BeginTime
        <5>3. t1 = na1 + 5 * ((StartCycles + 2) - 1)
          BY <1>1, <1>3, <1>5, <1>6, <5>2, Zenon DEF A, Clock
        <5> QED BY <1>1, <4>1, <5>3, Numbers, SMT DEF Beat
      <4> QED BY <2>1, <3>2, <4>2, <4>3, StateMoves
    <3> QED BY <3>1, <3>2
  <2>2. CASE state \in Pre
    <3>1. t = kt
      BY <1>4, <1>6, <2>2, Zenon
    <3>2. CASE state' \in Pre
      <4>1. kt1 = kt - dt /\ t1 = kt1
        BY <1>2, <1>3, <1>5, <1>6, <2>2, <3>2, KernelTimePasses, Zenon
      <4> QED BY <1>1, <3>1, <4>1, SMT DEF Beat
    <3>3. CASE state' \notin Pre
      <4>1. state = "wait_add_zero" /\ state' # "wait_add_zero"
        BY <2>2, <3>3, StateMoves, Zenon DEF Pre, Tick
      <4>2. kt = dt
        BY <1>2, <1>3, <4>1, KernelTimePasses, Zenon
      <4> QED BY <1>1, <1>6, <3>1, <4>2, SMT DEF Beat
    <3> QED BY <3>2, <3>3
  <2>3. CASE AtRest
    <3>1. t = bt /\ ps # "start" /\ Rest'
      BY <1>4, <1>6, <2>3, RestStays, Zenon DEF AtRest
    <3>2. CASE ps' = "start"
      <4>1. bt = dt
        BY <1>2, <1>3, <3>1, <3>2, BeginTimePasses, Zenon
      <4> QED BY <1>1, <1>6, <3>1, <4>1, SMT DEF Beat
    <3>3. CASE ps' # "start"
      <4>1. BeginTime' >= BeginTime - Dt
        BY <3>1, <3>3, BeginTimePasses
      <4>2. bt1 >= bt - dt /\ t1 = bt1
        BY <1>2, <1>3, <1>5, <1>6, <3>1, <3>3, <4>1, Zenon DEF AtRest
      <4> QED BY <3>1, <4>2, Zenon
    <3> QED BY <3>2, <3>3
  <2>4. CASE state # "end" /\ state \notin Pre /\ ~AtRest
    <3>1. t = 0
      BY <1>4, <1>6, <2>4, Zenon
    <3> QED BY <1>1, <1>6, <3>1, SMT DEF Beat
  <2> QED BY <2>1, <2>2, <2>3, <2>4
<1>8. AnswerTime \in Nat /\ AnswerTime' \in Nat
  BY <1>6, SMT
<1> QED BY <1>2, <1>6, <1>7, <1>8, Zenon

(* Answers is kept. *)
LEMMA AnswersStep ==
  ASSUME LoopIInv, NEW a, NEW d, NEW done, NEW k, NEW i, NEW m,
         Tick(a, d), Step(a, d, done, k, i, m)
  PROVE  Answers'
<1> SUFFICES ASSUME state' # "send_image" PROVE RetBy(AnswerTime)'
  BY Zenon DEF Answers
<1>1. CASE state # "send_image"
  <2>1. PICK X \in Int, Y \in Int : X = AnswerTime /\ Y = AnswerTime'
    BY <1>1, AnswerTimePasses
  <2>2. RetBy(X) /\ Y >= X - Dt
    <3>1. RetBy(AnswerTime)
      BY <1>1, Zenon DEF LoopIInv, Answers
    <3>2. AnswerTime' >= AnswerTime - Dt
      BY <1>1, AnswerTimePasses
    <3> QED BY <2>1, <3>1, <3>2, Zenon
  <2>3. ctl # "image_wr"
    BY <1>1, Zenon DEF LoopIInv, Needs
  <2>4. RetBy(Y)'
    BY <2>2, <2>3, RetByStep
  <2> QED BY <2>1, <2>4, Zenon DEF RetBy
<1>2. CASE state = "send_image"
  <2>1. d /\ ReadyPos /\ state' = "end"
    BY <1>2, StateMoves DEF Tick
  <2>2. SendAfter
    <3>1. SendBefore \/ SendAfter
      BY <1>2, Zenon DEF LoopIInv, Rounds
    <3>2. SendBefore => ~readyTemp[1]
      BY RetShapes, Zenon DEF SendBefore, RetLow
    <3> QED BY <2>1, <3>1, <3>2, Zenon DEF ReadyPos
  <2>3. PICK X \in Int, Y \in Int : X = IdleTime - 23 /\ Y = X - Dt
    <3>1. IdleTime - 23 \in Int /\ (IdleTime - 23) - Dt \in Int
      BY NextNumbers, SMT
    <3> QED BY <3>1
  <2>4. RetRises(X) /\ Y >= X - Dt /\ ctl # "image_wr"
    <3>1. Y >= X - Dt
      BY <2>3, SMT
    <3> QED BY <2>2, <2>3, <3>1, Zenon DEF SendAfter
  <2>5. RetBy(D(1) + 34)'
    BY <2>1, <2>4, RetRisesStep
  <2>6. AnswerTime' = (D(1) + 34)'
    <3>1. state' = "end" => AnswerTime' = D(1)' + 34
      BY SMT DEF AnswerTime, AtRest, Rest, Pre
    <3> QED BY <2>1, <3>1, Zenon
  <2> QED BY <2>5, <2>6, Zenon DEF RetBy
<1> QED BY <1>1, <1>2

-----------------------------------------------------------------------------
(* Maps: one write for each. *)

(* A data state is left when DDR has finished, and only then. *)
LEMMA DataMoves ==
  ASSUME LoopIInv, NEW a, NEW d, NEW done, NEW k, NEW i, NEW m,
         Tick(a, d), Step(a, d, done, k, i, m), a
  PROVE  /\ done \in BOOLEAN
         /\ done => /\ ctl = "image_wr" => ctl' = "end"
                    /\ ctl = "head_rd" => ctl' = "iterate_head_wait"
                    /\ ctl = "image_rd" => ctl' = "kernel_rd"
                    /\ ctl = "kernel_rd" => ctl' = "kernel_judge"
         /\ ~done => (ctl \in {"image_wr", "head_rd", "image_rd", "kernel_rd"} => ctl' = ctl)
<1>1. /\ ctl' = Transfer!CtlNext(wrNeedPipe[3], done, headImage /\ imageNeed, Kernels > 0)
      /\ done \in BOOLEAN
  BY Zenon DEF Step, AxiEdge, Transfer!Clk
<1>2. ASSUME done
      PROVE  /\ ctl = "image_wr" => ctl' = "end"
             /\ ctl = "head_rd" => ctl' = "iterate_head_wait"
             /\ ctl = "image_rd" => ctl' = "kernel_rd"
             /\ ctl = "kernel_rd" => ctl' = "kernel_judge"
  BY <1>1, <1>2, SMT DEF Transfer!CtlNext
<1>3. ASSUME ~done, ctl \in {"image_wr", "head_rd", "image_rd", "kernel_rd"}
      PROVE  ctl' = ctl
  BY <1>1, <1>3, SMT DEF Transfer!CtlNext
<1> QED BY <1>1, <1>2, <1>3

(* A step, as the counts of maps see it. *)
LEMMA MapMoves ==
  ASSUME LoopIInv, NEW a, NEW d, NEW done, NEW k, NEW i, NEW m,
         Tick(a, d), Step(a, d, done, k, i, m)
  PROVE  /\ mapsDone' = IF d /\ m /\ ReturnAxi THEN (mapsDone + 1) % 4 ELSE mapsDone
         /\ mapsWritten' = IF a /\ ctl = "image_wr" /\ done THEN (mapsWritten + 1) % 4
                                                         ELSE mapsWritten
<1>1. mapsDone' = IF d /\ m /\ ReturnAxi THEN (mapsDone + 1) % 4 ELSE mapsDone
  <2>1. CASE d
    BY <2>1, Zenon DEF Step, DealEdge
  <2>2. CASE ~d
    BY <2>2, Zenon DEF Step, dealVars
  <2> QED BY <2>1, <2>2
<1>2. mapsWritten' = IF a /\ ctl = "image_wr"
           /\ done THEN (mapsWritten + 1) % 4 ELSE mapsWritten
  <2>1. CASE a
    BY <2>1, Zenon DEF Step, AxiEdge, Arrives
  <2>2. CASE ~a
    BY <2>2, Zenon DEF Step, axiVars
  <2> QED BY <2>1, <2>2
<1> QED BY <1>1, <1>2

(* A deadline of 0 has passed. *)
LEMMA NeedLow ==
  ASSUME NextAxi \in 1..5, NextDeal \in 1..4, NeedBy(0)
  PROVE  /\ ~wrNeedTemp /\ ~wrNeedPipe[1] /\ ~wrNeedPipe[2] /\ ~wrNeedPipe[3] /\ ~wrNeedR
         /\ ~wrFinish /\ ~wrFinishR[1] /\ ~wrFinishR[2]
<1>1. /\ A(1) > 0 /\ A(2) > 0 /\ A(3) > 0 /\ A(4) > 0 /\ D(1) > 0 /\ D(2) > 0 /\ D(3) > 0
      /\ A(1) \in Int /\ D(1) \in Int /\ D(2) \in Int /\ D(3) \in Int
  BY SMT DEF A, D
<1>2. /\ ~(A(1) <= 0) /\ ~(A(2) <= 0) /\ ~(A(3) <= 0) /\ ~(A(4) <= 0)
      /\ ~(D(1) <= 0) /\ ~(D(2) <= 0) /\ ~(D(3) <= 0)
      /\ ~(A(1) + 8 <= 0) /\ ~(D(1) + 20 <= 0) /\ ~(D(2) + 20 <= 0) /\ ~(D(3) + 20 <= 0)
  BY <1>1, SMT DEF A, D
<1> QED BY <1>2, Zenon DEF NeedBy

(* What is gone by 0 is gone: the request ... *)
LEMMA ReqLow ==
  ASSUME NextAxi \in 1..5, NextDeal \in 1..4, ReqBy(0)
  PROVE  ~req /\ ~reqR[1] /\ ~reqR[2] /\ ~reqR[3] /\ ~reqR[4] /\ NoAck
<1>1. /\ ~(A(1) <= 0) /\ ~(A(2) <= 0) /\ ~(A(3) <= 0) /\ ~(A(4) <= 0)
      /\ ~(D(1) <= 0) /\ ~(D(2) <= 0) /\ ~(D(3) <= 0)
      /\ ~(A(1) + 8 <= 0) /\ ~(D(1) + 20 <= 0) /\ ~(D(2) + 20 <= 0) /\ ~(D(3) + 20 <= 0)
  BY SMT DEF A, D
<1> QED BY <1>1, Zenon DEF ReqBy, ReqFalls, NoAck

(* ... and the news of a write's end. *)
LEMMA RetIsLow ==
  ASSUME NextAxi \in 1..5, NextDeal \in 1..4, RetBy(0)
  PROVE  RetLow
<1>1. /\ ~(A(1) <= 0) /\ ~(A(2) <= 0) /\ ~(D(1) <= 0) /\ ~(D(2) <= 0)
      /\ ~(D(1) + 18 <= 0) /\ ~(D(1) + 14 <= 0) /\ ~(D(1) + 10 <= 0)
  BY SMT DEF A, D
<1>2. ~(ToDrop + 22 <= 0)
  BY SMT DEF ToDrop, A
<1>3. ~retFlag /\ ~wrFinish
  BY <1>2, Zenon DEF RetBy
<1>4. /\ ~flagR[1] /\ ~flagR[2] /\ ~retReady /\ ~readyTemp[1] /\ ~readyTemp[2]
      /\ ~retReadyR[1] /\ ~retReadyR[2]
  BY <1>1, <1>3, Zenon DEF RetBy
<1> QED BY <1>3, <1>4, RetShapes, Zenon DEF RetLow

(* The transfer side goes on to a write for a map, and to nothing else, while
   the compute side waits for it.                                            *)
LEMMA SendStays ==
  ASSUME LoopIInv, NEW a, NEW d, NEW done, NEW k, NEW i, NEW m,
         Tick(a, d), Step(a, d, done, k, i, m), state = "send_image", SendBefore
  PROVE  /\ state' = "send_image"
         /\ ctl' \in {"ready", "image_wr", "end"}
         /\ ctl' = "end" <=> ctl = "image_wr" /\ a /\ done
<1>1. ~ReadyPos
  BY RetShapes, Zenon DEF SendBefore, RetLow, ReadyPos
<1>2. state' = "send_image"
  BY <1>1, StateMoves DEF Tick
<1>3. CASE ~a
  BY <1>2, <1>3, CtlMoves DEF SendBefore
<1>4. CASE a /\ ctl = "ready"
  <2>1. ~reqR[4]
    BY <1>4, Zenon DEF SendBefore
  <2> QED BY <1>2, <1>4, <2>1, CtlMoves
<1>5. CASE a /\ ctl = "image_wr"
  <2>1. done \in BOOLEAN
    BY Zenon DEF Step
  <2>2. CASE done
    BY <1>2, <1>5, <2>2, CtlMoves
  <2>3. CASE ~done
    <3>1. ctl' = "image_wr"
      BY <1>5, <2>1, <2>3, DataMoves
    <3> QED BY <1>2, <1>5, <2>3, <3>1
  <2> QED BY <2>1, <2>2, <2>3
<1>6. ctl \in {"ready", "image_wr"} /\ a \in BOOLEAN
  BY Zenon DEF SendBefore, Tick
<1> QED BY <1>3, <1>4, <1>5, <1>6

(* A write begins only while a map waits to be returned. *)
LEMMA WriteStarts ==
  ASSUME LoopIInv, NEW a, NEW d, Tick(a, d), ctl \in {"ready", "image_wr"},
         ctl = "ready" => wrNeedPipe[3]
  PROVE  state = "send_image" /\ SendBefore
<1>1. CASE state = "send_image"
  <2>1. ~SendAfter
    BY Zenon DEF SendAfter
  <2> QED BY <1>1, <2>1, Zenon DEF LoopIInv, Rounds
<1>2. CASE state # "send_image"
  <2>1. ctl = "ready" /\ NeedBy(IdleTime)
    BY <1>2, Zenon DEF LoopIInv, Needs
  <2>2. IdleTime = 0
    BY <2>1 DEF IdleTime
  <2>3. NeedBy(0)
    BY <2>1, <2>2, Zenon
  <2> QED BY <2>1, <2>3, NeedLow DEF Tick
<1> QED BY <1>1, <1>2

(* Needs is kept. *)
LEMMA NeedsStep ==
  ASSUME LoopIInv, NEW a, NEW d, NEW done, NEW k, NEW i, NEW m,
         Tick(a, d), Step(a, d, done, k, i, m)
  PROVE  Needs'
<1>1. ctl' = "image_wr" => state' = "send_image"
  <2> SUFFICES ASSUME ctl' = "image_wr" PROVE state' = "send_image"
    OBVIOUS
  <2>1. ctl \in {"ready", "image_wr"} /\ (ctl = "ready" => wrNeedPipe[3])
    BY CtlMoves, Ranges DEF Tick, Transfer!Ctls
  <2>2. state = "send_image" /\ SendBefore
    BY <2>1, WriteStarts
  <2> QED BY <2>2, SendStays
<1>2. ASSUME ~(state' = "send_image" /\ ctl' \in {"ready", "image_wr"})
      PROVE  NeedBy(IdleTime)'
  <2>1. CASE state = "send_image" /\ ctl \in {"ready", "image_wr"}
    <3>1. SendBefore
      <4>1. ~SendAfter
        BY <2>1, Zenon DEF SendAfter
      <4> QED BY <2>1, <4>1, Zenon DEF LoopIInv, Rounds
    <3>2. a /\ done /\ ctl = "image_wr" /\ ctl' = "end"
      BY <1>2, <2>1, <3>1, SendStays
    <3>3. wrNeedTemp /\ ~wrFinishR[1] /\ ~wrFinishR[2] /\ ~wrFinish
      BY <3>1, Zenon DEF SendBefore, RetLow
    <3>4. wrNeedTemp' /\ ~wrFinishR'[1] /\ ~wrFinishR'[2] /\ wrFinish'
      BY <3>2, <3>3, NeedMoves, Zenon DEF Tick
    <3>5. PICK na \in Int, nd \in Int, na1 \in Int, nd1 \in Int, dt \in Int :
            Clock(na, nd, na1, nd1, dt) /\ Beat(a, d, na, nd, na1, nd1, dt)
      BY Clocks
    <3>6. PICK Y \in Int : Y = IdleTime' /\ Y = na1 + 5 * (17 - 1)
      <4>1. IdleTime' = A(17)'
        BY <3>2 DEF IdleTime
      <4>2. A(17)' = na1 + 5 * (17 - 1)
        BY <3>5, Zenon DEF A, Clock
      <4> QED BY <4>1, <4>2, <3>5
    <3>7. nd1 < na1 /\ nd1 + 4 * (3 - 1) + 20 <= Y /\ na1 + 5 * (1 - 1) + 8 <= Y
      BY <3>2, <3>5, <3>6, SMT DEF Beat
    <3>8. NeedBy(Y)'
      BY <3>4, <3>5, <3>7, Zenon DEF NeedBy, A, D, Clock
    <3> QED BY <3>6, <3>8, Zenon DEF NeedBy
  <2>2. CASE ~(state = "send_image" /\ ctl \in {"ready", "image_wr"})
    <3>1. NeedBy(IdleTime) /\ ctl # "image_wr"
      BY <2>2, Zenon DEF LoopIInv, Needs
    <3>2. CASE d /\ m /\ ReturnAxi
      <4>1. state = "deal_image" /\ ctl = "ready" /\ state' = "send_image"
        BY <3>2, StateMoves
      <4>2. Popped
        BY <4>1, Zenon DEF LoopIInv, Rounds
      <4>3. ~reqR[4]
        <5>1. JudgeTime = 0
          BY <4>1 DEF JudgeTime
        <5>2. ReqBy(0)
          BY <4>2, <5>1, Zenon DEF Popped
        <5> QED BY <5>2, ReqLow DEF Tick
      <4>4. ~wrNeedPipe[3]
        BY <4>1, WriteStarts
      <4>5. ctl' = "ready"
        BY <4>1, <4>3, <4>4, CtlMoves DEF Tick
      <4> QED BY <1>2, <4>1, <4>5
    <3>3. CASE ~(d /\ m /\ ReturnAxi)
      <4>1. PICK X \in Int, Y \in Int : X = IdleTime /\ Y = IdleTime' /\ Y >= X - Dt
        <5>1. IdleTime \in Int /\ IdleTime' \in Int /\ IdleTime' >= IdleTime - Dt
          BY NextNumbers, IdleTimePasses, SMT
        <5> QED BY <5>1
      <4>2. NeedBy(X)
        BY <3>1, <4>1, Zenon
      <4>3. NeedBy(Y)'
        BY <3>1, <3>3, <4>1, <4>2, NeedByStep
      <4> QED BY <4>1, <4>3, Zenon DEF NeedBy
    <3> QED BY <3>2, <3>3
  <2> QED BY <2>1, <2>2
<1>3. ASSUME state' # "send_image" PROVE mapsDone' = mapsWritten'
  <2>1. mapsDone = mapsWritten /\ ctl # "image_wr" 
    <3>1. CASE state # "send_image"
      BY <3>1, Zenon DEF LoopIInv, Needs
    <3>2. CASE state = "send_image"
      <4>1. ~SendBefore
        BY <1>3, <3>2, SendStays
      <4>2. SendAfter
        BY <3>2, <4>1, Zenon DEF LoopIInv, Rounds
      <4> QED BY <4>2, Zenon DEF SendAfter
    <3> QED BY <3>1, <3>2
  <2>2. ~(d /\ m /\ ReturnAxi)
    BY <1>3, StateMoves
  <2> QED BY <2>1, <2>2, MapMoves
<1> QED BY <1>1, <1>2, <1>3, Zenon DEF Needs

-----------------------------------------------------------------------------
(* Rounds: between images, on the way to the kernels, computing, returning. *)

(* Between two images the end of the algorithm is over and done with. *)
LEMMA AlgSettled ==
  ASSUME LoopIInv, NextAxi \in 1..5, NextDeal \in 1..4, ~AtRest
  PROVE  /\ ~algorithmFinish /\ ~algReq /\ ~algReqR[1] /\ ~algReqR[2] /\ ~algAck
         /\ ~algAckR[1] /\ ~algAckR[2]
<1>1. AlgBy(0)
  BY Zenon DEF LoopIInv, Algs, AlgTime
<1>2. /\ ~(D(1) + 50 <= 0) /\ ~(A(1) + 45 <= 0) /\ ~(A(1) + 40 <= 0) /\ ~(A(1) + 35 <= 0)
      /\ ~(D(1) + 31 <= 0) /\ ~(D(1) + 27 <= 0) /\ ~(D(1) + 23 <= 0)
      /\ ~(A(1) + 18 <= 0) /\ ~(A(1) + 13 <= 0) /\ ~(A(1) + 8 <= 0)
      /\ ~(D(1) + 4 <= 0) /\ ~(D(1) <= 0)
  BY SMT DEF A, D
<1>3. ~algorithmFinish /\ AlgUp(0)
  BY <1>1, <1>2, Zenon DEF AlgBy
<1> QED BY <1>3, SMT DEF AlgUp

(* The start of an image, at the one edge it lasts. *)
LEMMA BeginWhen ==
  ASSUME LoopIInv, beginTemp[2] /\ ~beginTemp[3]
  PROVE  ps = "start" /\ psCnt = 2
<1>1. ps = "start"
  BY Zenon DEF LoopIInv, Begins, BeginBy
<1>2. psCnt >= 2 /\ ~(psCnt >= 3)
  BY <1>1, Zenon DEF LoopIInv, Begins
<1> QED BY <1>1, <1>2, Ranges, Numbers, SMT

(* No head comes but from a read. *)
LEMMA NoHeadStays ==
  ASSUME LoopIInv, NEW a, NEW d, NEW done, NEW k, NEW i, NEW m,
         Tick(a, d), Step(a, d, done, k, i, m), NoHead, ctl # "head_rd"
  PROVE  /\ NoHead'
         /\ headNeedR \/ a => headNeedR'
         /\ loadHead' <=> loadHead \/ (d /\ state = "load_head")
<1>1. headWrites = headPops /\ headSeen = headPops /\ ~LoadHeadRd
  BY Zenon DEF NoHead, LoadHeadRd, HeadEmpty
<1>2. headWrites' = headWrites
  BY HeadMoves
<1>3. headPops' = headPops /\ headSeen' = headSeen
  <2>1. CASE d
    BY <1>1, <2>1, HeadMoves
  <2>2. CASE ~d
    BY <2>2, HeadMoves DEF Tick
  <2> QED BY <2>1, <2>2
<1>4. headNeedR \/ a => headNeedR'
  <2>1. CASE a
    BY <1>1, <2>1, ReqMoves
  <2>2. CASE ~a
    BY <2>2, ReqMoves DEF Tick
  <2> QED BY <2>1, <2>2
<1>5. loadHead' <=> loadHead \/ (d /\ state = "load_head")
  <2>1. CASE d
    BY <1>1, <2>1, HeadMoves
  <2>2. CASE ~d
    BY <2>2, HeadMoves DEF Tick
  <2> QED BY <2>1, <2>2
<1> QED BY <1>1, <1>2, <1>3, <1>4, <1>5, Zenon DEF NoHead

(* Shape of a request that is up, and of the moves around it. *)
LEMMA ReqUpStays ==
  ASSUME LoopIInv, NEW a, NEW d, NEW done, NEW k, NEW i, NEW m,
         Tick(a, d), Step(a, d, done, k, i, m), ReqUp,
         d => ~algReqR[2],
         a => ~(ctl = "ready" /\ headNeedR /\ reqR[4])
  PROVE  ReqUp'
<1>1. /\ req /\ ~ack /\ ~ackR[1] /\ ~ackR[2]
      /\ reqR[4] => reqR[3]
      /\ reqR[3] => reqR[2]
      /\ reqR[2] => reqR[1]
  BY Zenon DEF ReqUp, NoAck
<1>2. ~ack' /\ (reqR'[4] => reqR'[3]) /\ (reqR'[3] => reqR'[2]) /\ (reqR'[2] => reqR'[1])
  <2>1. CASE a
    BY <1>1, <2>1, ReqMoves
  <2>2. CASE ~a
    BY <1>1, <2>2, ReqMoves DEF Tick
  <2> QED BY <2>1, <2>2
<1>3. req' /\ ~ackR'[1] /\ ~ackR'[2]
  <2>1. CASE d
    BY <1>1, <2>1, ReqMoves
  <2>2. CASE ~d
    BY <1>1, <2>2, ReqMoves DEF Tick
  <2> QED BY <2>1, <2>2
<1> QED BY <1>2, <1>3, Zenon DEF ReqUp, NoAck

(* The PS while an image is being processed. *)
LEMMA PsOnWay ==
  ASSUME LoopIInv, NEW a, NEW d, NEW done, NEW k, NEW i, NEW m,
         Tick(a, d), Step(a, d, done, k, i, m), ~AtRest
  PROVE  /\ ps # "gap"
         /\ ps # "start" => ps' # "start"
         /\ Late => Late'
<1>1. ps # "gap"
  BY Zenon DEF LoopIInv, Begins, AtRest, Rest
<1>2. ps # "start" => ps' # "start"
  BY <1>1, PsMoves, Ranges DEF Tick
<1>3. ASSUME Late, ps' = "start" PROVE psCnt' > 3
  <2>1. ps = "start" /\ psCnt > 3
    BY <1>2, <1>3 DEF Late
  <2> QED BY <1>3, <2>1, PsMoves, Ranges, Numbers, SMT DEF Tick
<1> QED BY <1>1, <1>2, <1>3, Zenon DEF Late

(* The part of Rounds for the time between images. *)
RestRound ==
  /\ ctl \in {"end", "wait", "idle"} /\ NoHead /\ ~loadHead
  /\ req => /\ ReqUp /\ ~algAck /\ (algorithmFinish \/ algReq)
            /\ algReqR[2] => NextDeal < NextAxi
  /\ ~req => NoAck /\ ReqFalls(BeginTime)

(* What the shape of algorithm_finish_req says while it is on its way up. *)
LEMMA AlgOnWay ==
  ASSUME NEW X, AlgBy(X), ~algAck
  PROVE  /\ algorithmFinish \/ algReq => ~algAckR[1] /\ ~algAckR[2]
         /\ algReqR[2] => ~algorithmFinish /\ (algReq => A(1) + 35 <= X)
<1>1. /\ AlgUp(0) => ~algReq /\ ~algReqR[2] /\ ~algAckR[1] /\ ~algAckR[2]
      /\ AlgUp(1) => algReq /\ ~algReqR[2] /\ ~algAckR[1] /\ ~algAckR[2]
      /\ AlgUp(2) => algReq /\ ~algReqR[2] /\ ~algAckR[1] /\ ~algAckR[2]
      /\ AlgUp(3) => algReq /\ algReqR[2] /\ ~algAckR[1] /\ ~algAckR[2]
      /\ ~AlgUp(4) /\ ~AlgUp(5) /\ ~AlgUp(6)
  BY SMT DEF AlgUp
<1>2. /\ AlgDown(1) => ~algReq
      /\ AlgDown(2) => ~algReq
      /\ AlgDown(3) => ~algReq
      /\ AlgDown(4) => ~algReq
      /\ AlgDown(5) => ~algReq
  BY SMT DEF AlgDown
<1>3. \/ AlgUp(0)
      \/ ~algorithmFinish /\ (AlgUp(1) \/ AlgUp(2))
      \/ ~algorithmFinish /\ AlgUp(3) /\ A(1) + 35 <= X
      \/ ~algorithmFinish /\ ~algReq
  BY <1>1, <1>2, Zenon DEF AlgBy
<1> QED BY <1>1, <1>3, Zenon

(* The transfer side runs down to idle, and stays there. *)
LEMMA RestCtl ==
  ASSUME LoopIInv, NEW a, NEW d, NEW done, NEW k, NEW i, NEW m,
         Tick(a, d), Step(a, d, done, k, i, m), AtRest
  PROVE  ctl' \in {"end", "wait", "idle"}
<1>1. ctl = "idle" => ~beginFlag
  <2> SUFFICES ASSUME ctl = "idle" PROVE ~beginFlag
    OBVIOUS
  <2>1. IdleTime = 0
    BY DEF IdleTime
  <2>2. FlagBy(0)
    BY <2>1, Zenon DEF LoopIInv, Algs
  <2>3. ~(D(1) + 15 <= 0) /\ ~(A(3) <= 0) /\ ~(A(2) <= 0) /\ ~(A(1) <= 0)
    BY SMT DEF A, D, Tick
  <2> QED BY <2>2, <2>3, Zenon DEF FlagBy
<1>2. ctl \in {"end", "wait", "idle"}
  BY Zenon DEF LoopIInv, Rounds
<1>3. CASE a
  BY <1>1, <1>2, <1>3, CtlMoves
<1>4. CASE ~a
  BY <1>2, <1>4, CtlMoves DEF Tick
<1> QED BY <1>3, <1>4

(* RestRound is kept ... *)
LEMMA RestRoundStays ==
  ASSUME LoopIInv, NEW a, NEW d, NEW done, NEW k, NEW i, NEW m,
         Tick(a, d), Step(a, d, done, k, i, m), AtRest, ps' # "start"
  PROVE  RestRound'
<1>1. RestRound /\ ps # "start" /\ Rest
  BY Zenon DEF LoopIInv, Rounds, RestRound, AtRest
<1>2. ctl' \in {"end", "wait", "idle"}
  BY RestCtl
<1>3. ctl # "head_rd" /\ ctl # "ready" /\ state # "load_head" /\ state # "deal_image"
  BY <1>1 DEF RestRound, Rest
<1>4. NoHead' /\ ~loadHead'
  BY <1>1, <1>3, NoHeadStays, Zenon DEF RestRound
<1>5. ~m \/ ~d
  BY <1>3, StateMoves
<1>6. ~(beginTemp[2] /\ ~beginTemp[3])
  BY <1>1, BeginWhen
<1>7. AlgBy(BeginTime)
  BY Zenon DEF LoopIInv, Algs, AlgTime
<1>8. NoAck
  BY <1>1, Zenon DEF RestRound, ReqUp
<1>9. NoAck'
  <2>1. CASE a
    BY <1>3, <1>8, <2>1, ReqMoves DEF NoAck, Tick
  <2>2. CASE ~a
    BY <1>8, <2>2, ReqMoves DEF NoAck, Tick
  <2> QED BY <2>1, <2>2
<1>10. PICK X \in Int, Y \in Int : X = BeginTime /\ Y = BeginTime' /\ Y >= X - Dt
  <2>1. BeginTime \in Int /\ BeginTime' \in Int /\ BeginTime' >= BeginTime - Dt
    BY <1>1, NextNumbers, BeginTimePasses, SMT
  <2> QED BY <2>1
<1>11. PICK na \in Int, nd \in Int, na1 \in Int, nd1 \in Int, dt \in Int :
         Clock(na, nd, na1, nd1, dt) /\ Beat(a, d, na, nd, na1, nd1, dt)
  BY Clocks
<1>12. Y >= X - dt
  BY <1>10, <1>11, Zenon DEF Clock
<1>13. req' => req /\ ~(d /\ algReqR[2])
  <2>1. CASE d
    <3>1. m = FALSE
      BY <1>5, <2>1, Zenon DEF Step
    <3> QED BY <1>6, <2>1, <3>1, ReqMoves
  <2>2. CASE ~d
    BY <2>2, ReqMoves DEF Tick
  <2> QED BY <2>1, <2>2
<1>14. ASSUME req'
       PROVE  /\ ReqUp' /\ ~algAck' /\ (algorithmFinish' \/ algReq')
              /\ algReqR'[2] => NextDeal' < NextAxi'
  <2>1. req /\ ~(d /\ algReqR[2])
    BY <1>13, <1>14
  <2>2. /\ ReqUp /\ ~algAck /\ (algorithmFinish \/ algReq)
        /\ algReqR[2] => NextDeal < NextAxi
    BY <1>1, <2>1, Zenon DEF RestRound
  <2>3. ReqUp'
    BY <1>3, <2>1, <2>2, ReqUpStays
  <2>4. ~algReqR[2]
    <3>1. CASE a
      <4>1. ~(nd < na)
        BY <1>11, <3>1, SMT DEF Beat
      <4> QED BY <1>11, <2>2, <4>1, Zenon DEF Clock
    <3>2. CASE ~a
      <4>1. d
        BY <1>11, <3>2, SMT DEF Beat
      <4> QED BY <2>1, <4>1
    <3> QED BY <3>1, <3>2
  <2>5. ~algAck'
    BY <2>2, <2>4, AlgMoves DEF Tick
  <2>6. algorithmFinish' \/ algReq'
    <3>1. ~algAckR[2]
      BY <1>7, <2>2, AlgOnWay
    <3>2. CASE d
      BY <2>2, <3>1, <3>2, AlgMoves
    <3>3. CASE ~d
      BY <2>2, <3>3, AlgMoves DEF Tick
    <3> QED BY <3>2, <3>3
  <2>7. algReqR'[2] => NextDeal' < NextAxi'
    <3>1. CASE a
      <4>1. nd1 < na1
        BY <1>11, <3>1, SMT DEF Beat
      <4> QED BY <1>11, <4>1, Zenon DEF Clock
    <3>2. CASE ~a
      BY <2>4, <3>2, AlgMoves DEF Tick
    <3> QED BY <3>1, <3>2
  <2> QED BY <2>3, <2>5, <2>6, <2>7
<1>15. ASSUME ~req' PROVE ReqFalls(BeginTime)'
  <2>1. CASE ~req
    <3>1. /\ reqR[1] => na + 5 * (4 - 1) <= X
          /\ reqR[2] => na + 5 * (3 - 1) <= X
          /\ reqR[3] => na + 5 * (2 - 1) <= X
          /\ reqR[4] => na + 5 * (1 - 1) <= X
      BY <1>1, <1>10, <1>11, <2>1, Zenon DEF RestRound, ReqFalls, A, Clock
    <3>2. /\ a => /\ ~reqR'[1] /\ (reqR'[2] <=> reqR[1])
                  /\ (reqR'[3] <=> reqR[2]) /\ (reqR'[4] <=> reqR[3])
          /\ ~a => /\ (reqR'[1] <=> reqR[1]) /\ (reqR'[2] <=> reqR[2])
                   /\ (reqR'[3] <=> reqR[3]) /\ (reqR'[4] <=> reqR[4])
      BY <2>1, ReqMoves
    <3>3. /\ reqR'[1] => na1 + 5 * (4 - 1) <= Y
          /\ reqR'[2] => na1 + 5 * (3 - 1) <= Y
          /\ reqR'[3] => na1 + 5 * (2 - 1) <= Y
          /\ reqR'[4] => na1 + 5 * (1 - 1) <= Y
      BY <1>11, <1>12, <3>1, <3>2, SMT DEF Beat
    <3> QED BY <1>10, <1>11, <3>3, Zenon DEF ReqFalls, A, Clock
  <2>2. CASE req
    <3>1. /\ ReqUp /\ ~algAck /\ (algorithmFinish \/ algReq)
          /\ algReqR[2] => NextDeal < NextAxi
      BY <1>1, <2>2, Zenon DEF RestRound
    <3>2. d /\ algReqR[2]
      <4>1. ~ackR[2]
        BY <1>8 DEF NoAck
      <4>2. CASE d
        BY <1>15, <2>2, <4>1, <4>2, ReqMoves
      <4>3. CASE ~d
        BY <1>15, <2>2, <4>3, ReqMoves DEF Tick
      <4> QED BY <4>2, <4>3
    <3>3. A(1) + 35 <= BeginTime
      BY <1>7, <3>1, <3>2, AlgOnWay
    <3>4. na + 35 <= X /\ ~a
      <4>1. A(1) = na
        BY <1>11, Times
      <4>2. nd < na
        BY <1>11, <3>1, <3>2, Zenon DEF Clock
      <4>3. ~a
        BY <1>11, <4>2, SMT DEF Beat
      <4> QED BY <1>10, <3>3, <4>1, <4>3, Zenon
    <3>5. na1 + 5 * (4 - 1) <= Y /\ na1 + 5 * (3 - 1) <= Y /\ na1 + 5 * (2 - 1) <= Y
          /\ na1 + 5 * (1 - 1) <= Y
      BY <1>11, <1>12, <3>4, SMT DEF Beat
    <3> QED BY <1>10, <1>11, <3>5, Zenon DEF ReqFalls, A, Clock
  <2> QED BY <2>1, <2>2
<1> QED BY <1>2, <1>4, <1>9, <1>14, <1>15, Zenon DEF RestRound

(* ... and holds when the network is done. *)
LEMMA EndRests ==
  ASSUME LoopIInv, NEW a, NEW d, NEW done, NEW k, NEW i, NEW m,
         Tick(a, d), Step(a, d, done, k, i, m), state = "end", state' = "inter", d
  PROVE  RestRound'
<1>1. Sending /\ ctl \in {"end", "wait"} /\ D(1) + 19 <= IdleTime
  BY Zenon DEF LoopIInv, Rounds
<1>2. ctl' \in {"end", "wait", "idle"} /\ ctl # "head_rd" /\ ctl # "ready"
  <2>1. CASE a
    BY <1>1, <2>1, CtlMoves
  <2>2. CASE ~a
    BY <1>1, <2>2, CtlMoves DEF Tick
  <2> QED BY <1>1, <2>1, <2>2
<1>3. NoHead /\ ReqUp /\ ~loadHead
  BY <1>1 DEF Sending
<1>4. NoHead' /\ ~loadHead'
  BY <1>2, <1>3, NoHeadStays
<1>5. ~AtRest
  BY DEF AtRest, Rest
<1>6. /\ ~algorithmFinish /\ ~algReq /\ ~algReqR[1] /\ ~algReqR[2] /\ ~algAck
  BY <1>5, AlgSettled DEF Tick
<1>7. ReqUp'
  BY <1>2, <1>3, <1>6, ReqUpStays
<1>8. req'
  BY <1>7 DEF ReqUp
<1>9. ~algAck' /\ ~algReqR'[2]
  BY <1>6, AlgMoves DEF Tick
<1>10. algorithmFinish'
  BY AlgRises, AlgMoves
<1> QED BY <1>2, <1>4, <1>7, <1>8, <1>9, <1>10, Zenon DEF RestRound

(* Together. *)
LEMMA RestRoundStep ==
  ASSUME LoopIInv, NEW a, NEW d, NEW done, NEW k, NEW i, NEW m,
         Tick(a, d), Step(a, d, done, k, i, m), AtRest'
  PROVE  RestRound'
<1>1. ps' # "start" /\ Rest'
  BY Zenon DEF AtRest
<1>2. CASE AtRest
  BY <1>1, <1>2, RestRoundStays
<1>3. CASE ~AtRest
  <2>1. ~Rest
    <3>1. Rest => ps = "start"
      BY <1>3 DEF AtRest
    <3>2. ps = "start" => state' \in Pre
      BY <1>1, StartEnds
    <3>3. ~(state' \in Pre /\ Rest')
      BY DEF Pre, Rest
    <3> QED BY <1>1, <3>1, <3>2, <3>3
  <2>2. state = "end" /\ state' = "inter" /\ d
    BY <1>1, <2>1, RestStays
  <2> QED BY <2>2, EndRests
<1> QED BY <1>2, <1>3

(* Edges of axi_clk until the head that is asked for is there. *)
AskCount == (CASE ctl = "ready" -> Missing + 2
               [] ctl = "idle" -> 7
               [] ctl = "wait" -> 23 - waitCnt
               [] OTHER -> 24) + HeadLatency + (IF beginFlag THEN 0 ELSE 3 - psCnt)

(* What a start finds: nothing asked for, no head. *)
LEMMA GapEnds ==
  ASSUME LoopIInv, NEW a, NEW d, NEW done, NEW k, NEW i, NEW m,
         Tick(a, d), Step(a, d, done, k, i, m), ps # "start", ps' = "start"
  PROVE  /\ Wanted' /\ ~loadHead' /\ state' = "idle"
<1>1. ps = "gap" /\ a /\ BeginTime = Dt /\ psCnt' = 0
  <2>1. ps = "gap" /\ a /\ BeginTime = Dt
    BY BeginTimePasses
  <2>2. psCnt' = 0
    BY <2>1, PsMoves
  <2> QED BY <2>1, <2>2
<1>2. state = "idle" /\ AtRest /\ RestRound /\ ps # "start"
  BY <1>1, Zenon DEF LoopIInv, Begins, AtRest, Rest, Rounds, RestRound
<1>3. state' = "idle"
  BY <1>2, RestStays
<1>4. PICK na \in Int, nd \in Int, na1 \in Int, nd1 \in Int, dt \in Int :
        Clock(na, nd, na1, nd1, dt) /\ Beat(a, d, na, nd, na1, nd1, dt)
  BY Clocks
<1>5. ~algorithmFinish /\ ~algReq
  <2>1. PICK X \in Int : X = BeginTime /\ X <= Dt
    <3>1. Dt \in Int /\ Dt <= Dt
      BY SMT DEF Tick
    <3> QED BY <1>1, <3>1
  <2>2. AlgBy(X)
    BY <1>2, <2>1, Zenon DEF LoopIInv, Algs, AlgTime
  <2>3. ~algorithmFinish /\ (AlgUp(0) \/ AlgDown(5))
    BY <2>1, <2>2, AlgLow
  <2>4. (AlgUp(0) => ~algReq) /\ (AlgDown(5) => ~algReq)
    BY SMT DEF AlgUp, AlgDown
  <2> QED BY <2>3, <2>4
<1>6. ~req /\ NoAck /\ ReqFalls(BeginTime)
  BY <1>2, <1>5, Zenon DEF RestRound
<1>7. ~reqR[1] /\ ~reqR[2] /\ ~reqR[3]
  <2>1. BeginTime = na
    BY <1>1, <1>4, Zenon DEF Clock, Beat
  <2>2. A(4) = na + 15 /\ A(3) = na + 10 /\ A(2) = na + 5
    BY <1>4, Times
  <2>3. ~(na + 15 <= na) /\ ~(na + 10 <= na) /\ ~(na + 5 <= na)
    BY <1>4, SMT DEF Beat
  <2> QED BY <1>6, <2>1, <2>2, <2>3, Zenon DEF ReqFalls
<1>8. ctl \in {"end", "wait", "idle"} /\ NoHead /\ ~loadHead
  BY <1>2 DEF RestRound
<1>9. ctl' \in {"end", "wait", "idle"} /\ ctl # "head_rd" /\ ctl # "ready"
  BY <1>2, <1>8, RestCtl
<1>10. NoHead' /\ headNeedR' /\ ~loadHead'
  <2>1. state # "load_head"
    BY <1>2
  <2> QED BY <1>1, <1>8, <1>9, <2>1, NoHeadStays
<1>11. /\ ~req' /\ ~reqR'[1] /\ ~reqR'[2] /\ ~reqR'[3] /\ ~reqR'[4] /\ NoAck'
  <2>1. ~ack' /\ ~reqR'[1] /\ ~reqR'[2] /\ ~reqR'[3] /\ ~reqR'[4]
    BY <1>1, <1>6, <1>7, <1>9, ReqMoves
  <2>2. ~ack /\ ~ackR[1] /\ ~ackR[2]
    BY <1>6 DEF NoAck
  <2>3. ~ackR'[1] /\ ~ackR'[2] /\ ~req'
    <3>1. CASE d
      <4>1. m = FALSE
        <5>1. ~m
          BY <1>2, <3>1, StateMoves
        <5> QED BY <5>1, Zenon DEF Step
      <4>2. ~(beginTemp[2] /\ ~beginTemp[3])
        BY BeginWhen
      <4> QED BY <1>6, <2>2, <3>1, <4>1, <4>2, ReqMoves
    <3>2. CASE ~d
      BY <1>6, <2>2, <3>2, ReqMoves DEF Tick
    <3> QED BY <3>1, <3>2
  <2> QED BY <2>1, <2>3, Zenon DEF NoAck
<1>12. ReqBy(0)'
  BY <1>11, Zenon DEF ReqBy, ReqFalls, NoAck
<1>13. Unmade'
  <2>1. psCnt' < 2
    BY <1>1, SMT
  <2> QED BY <2>1, Zenon DEF Unmade
<1>14. AskTime' + 16 <= KernelTime'
  <2>1. KernelTime' = nd1 + 4 * ((HeadDelay + 3) - 1)
    <3>1. KernelTime' = D(HeadDelay + 3)'
      BY <1>3 DEF KernelTime
    <3>2. D(HeadDelay + 3)' = nd1 + 4 * ((HeadDelay + 3) - 1)
      BY <1>4, Zenon DEF D, Clock
    <3> QED BY <3>1, <3>2
  <2>2. AskCount' \in Int /\ AskCount' <= 27 + HeadLatency
    <3>1. waitCnt' \in 0..15
      BY CtlMoves, Ranges, SMT DEF Tick, Transfer!Ctls, LoopIInv, Counters
    <3> QED BY <1>1, <1>9, <3>1, Numbers, SMT DEF AskCount
  <2>3. PICK n1 \in Int : n1 = AskCount' /\ n1 <= 27 + HeadLatency
    BY <2>2
  <2>4. AskTime' = na1 + 5 * (n1 - 1)
    <3>1. AskTime' = A(AskCount)'
      BY Zenon DEF AskTime, AskCount
    <3> QED BY <1>4, <2>3, <3>1, Zenon DEF A, Clock
  <2>5. na1 + 5 * (n1 - 1) + 16 <= nd1 + 4 * ((HeadDelay + 3) - 1)
    <3>1. na1 <= 5 /\ nd1 >= 1 /\ na1 \in Int /\ nd1 \in Int
      BY <1>4, SMT DEF Beat
    <3>2. HeadDelay \in Int /\ HeadLatency \in Int /\ 4 * HeadDelay >= 5 * HeadLatency + 142
      BY Numbers, SMT
    <3>6. n1 \in Int /\ n1 <= 27 + HeadLatency
      BY <2>3, Zenon
    <3>3. 5 * (n1 - 1) <= 130 + 5 * HeadLatency
      BY <3>6, <3>2, SMT
    <3>4. 4 * ((HeadDelay + 3) - 1) = 4 * HeadDelay + 8
      BY <3>2, SMT
    <3>5. n1 \in Int /\ 5 * (n1 - 1) \in Int
      BY <3>6, SMT
    <3> QED BY <3>1, <3>2, <3>3, <3>4, <3>5, SMT
  <2> QED BY <2>1, <2>4, <2>5, Zenon
<1>15. Wanted'
  <2>1. ctl' # "ready" /\ state' # "wait_add_zero"
    BY <1>3, <1>9
  <2> QED BY <1>9, <1>10, <1>12, <1>13, <1>14, <2>1, Zenon DEF Wanted
<1> QED BY <1>3, <1>10, <1>15

(* A round is on its way to its kernels. *)
OnWay == (state = "idle" /\ ps = "start") \/ state \in Pre

(* The head is asked for in time: every edge brings the request closer. *)
LEMMA AskNumbers ==
  ASSUME LoopIInv
  PROVE  AskCount \in Int /\ (beginFlag \/ psCnt <= 3 => AskCount >= 2 + HeadLatency)
<1>1. Missing \in 0..4
  BY SMT DEF Missing
<1> QED BY <1>1, Ranges, Numbers, SMT DEF AskCount

(* Every edge takes the request one register on. *)
LEMMA MissingShrinks ==
  ASSUME LoopIInv, NEW a, NEW d, NEW done, NEW k, NEW i, NEW m,
         Tick(a, d), Step(a, d, done, k, i, m), ReqUp
  PROVE  /\ Missing \in 0..4 /\ Missing' \in 0..4
         /\ a /\ ~reqR[4] => Missing' = Missing - 1
         /\ ~a => Missing' = Missing
<1>1. Missing \in 0..4 /\ Missing' \in 0..4
  BY SMT DEF Missing
<1>2. /\ req
      /\ reqR[4] => reqR[3]
      /\ reqR[3] => reqR[2]
      /\ reqR[2] => reqR[1]
  BY Zenon DEF ReqUp
<1>3. ASSUME a, ~reqR[4] PROVE Missing' = Missing - 1
  <2>1. /\ reqR'[1] /\ (reqR'[2] <=> reqR[1]) /\ (reqR'[3] <=> reqR[2])
             /\ (reqR'[4] <=> reqR[3])
    BY <1>2, <1>3, ReqMoves
  <2> QED BY <1>2, <1>3, <2>1, SMT DEF Missing
<1>4. ASSUME ~a PROVE Missing' = Missing
  <2>1. /\ (reqR'[1] <=> reqR[1]) /\ (reqR'[2] <=> reqR[2]) /\ (reqR'[3] <=> reqR[3])
        /\ (reqR'[4] <=> reqR[4])
    BY <1>4, ReqMoves DEF Tick
  <2> QED BY <2>1, SMT DEF Missing
<1> QED BY <1>1, <1>3, <1>4

(* image_begin_flag is set at a fixed edge of the start, and stays. *)
LEMMA FlagMoves ==
  ASSUME LoopIInv, NEW a, NEW d, NEW done, NEW k, NEW i, NEW m,
         Tick(a, d), Step(a, d, done, k, i, m), OnWay
  PROVE  /\ beginFlag => beginFlag'
         /\ ~a => (beginFlag' <=> beginFlag)
         /\ ~beginFlag => /\ ps = "start" /\ psCnt \in 0..2
                          /\ a => psCnt' = psCnt + 1 /\ (beginFlag' <=> psCnt = 2)
                          /\ ~a => psCnt' = psCnt
<1>1. ~AtRest
  BY DEF OnWay, AtRest, Rest, Pre
<1>2. ~algReqR[2]
  BY <1>1, AlgSettled DEF Tick
<1>3. beginFlag => beginFlag'
  <2>1. CASE a
    BY <1>2, <2>1, AlgMoves
  <2>2. CASE ~a
    BY <2>2, AlgMoves DEF Tick
  <2> QED BY <2>1, <2>2
<1>4. ~a => (beginFlag' <=> beginFlag)
  BY AlgMoves DEF Tick
<1>5. ASSUME ~beginFlag
      PROVE  /\ ps = "start" /\ psCnt \in 0..2
             /\ a => psCnt' = psCnt + 1 /\ (beginFlag' <=> psCnt = 2)
             /\ ~a => psCnt' = psCnt
  <2>1. ps = "start"
    <3>1. ~Rest \/ ps = "start"
      BY DEF OnWay, Rest, Pre
    <3> QED BY <1>5, <3>1, Zenon DEF LoopIInv, Algs
  <2>2. ~(psCnt >= 3)
    BY <1>5, <2>1, Zenon DEF LoopIInv, Algs
  <2>3. psCnt \in 0..2
    BY <2>2, Ranges, Numbers, SMT
  <2>4. ASSUME a PROVE psCnt' = psCnt + 1 /\ ps' = "start"
    <3>1. psCnt # StartCycles
      BY <2>3, Numbers, SMT
    <3> QED BY <2>1, <2>4, <3>1, PsMoves, Zenon
  <2>5. ASSUME a PROVE beginFlag' <=> psCnt = 2
    <3>1. beginFlag' <=> psCnt' >= 3
      BY <2>4, <2>5, AlgsStep DEF Algs
    <3> QED BY <2>3, <2>4, <2>5, <3>1, SMT
  <2>6. ~a => psCnt' = psCnt
    BY PsMoves DEF Tick
  <2> QED BY <2>1, <2>3, <2>4, <2>5, <2>6
<1> QED BY <1>3, <1>4, <1>5

(* Every edge of axi_clk brings the head closer. *)
LEMMA AskDrops ==
  ASSUME LoopIInv, NEW a, NEW d, NEW done, NEW k, NEW i, NEW m,
         Tick(a, d), Step(a, d, done, k, i, m), OnWay, Wanted,
         ~(a /\ ctl = "ready" /\ reqR[4])
  PROVE  /\ ctl' \in {"end", "wait", "idle", "ready"}
         /\ ~beginFlag' => ctl' # "ready"
         /\ AskCount' \in Int
         /\ a => AskCount' <= AskCount - 1
         /\ ~a => AskCount' = AskCount
<1>1. /\ ctl \in {"end", "wait", "idle", "ready"}
      /\ ~beginFlag => ctl # "ready"
  BY DEF Wanted
<1>2. ctl = "ready" => ~wrNeedPipe[3]
  <2>1. state # "send_image"
    BY DEF OnWay, Pre
  <2> QED BY <2>1, WriteStarts
<1>3. PICK b \in 0..3, b1 \in 0..3 :
        /\ b = IF beginFlag THEN 0 ELSE 3 - psCnt
        /\ b1 = IF beginFlag' THEN 0 ELSE 3 - psCnt'
        /\ ~a => b1 = b
        /\ a => b1 <= b /\ (b # 0 => b1 = b - 1)
  <2>1. (IF beginFlag THEN 0 ELSE 3 - psCnt) \in 0..3
    BY FlagMoves, SMT
  <2>2. (IF beginFlag' THEN 0 ELSE 3 - psCnt') \in 0..3
    <3>1. ~beginFlag' => psCnt' \in 0..3
      <4>1. ~beginFlag' => ~beginFlag /\ psCnt \in 0..2
        BY FlagMoves
      <4>2. ~beginFlag' => psCnt' = psCnt \/ psCnt' = psCnt + 1
        BY <4>1, FlagMoves DEF Tick
      <4> QED BY <4>1, <4>2, SMT
    <3> QED BY <3>1, SMT
  <2>3. ~a => (IF beginFlag' THEN 0 ELSE 3 - psCnt') = (IF beginFlag THEN 0 ELSE 3 - psCnt)
    <3> SUFFICES ASSUME ~a
                 PROVE  (IF beginFlag' THEN 0 ELSE 3 - psCnt') = (IF beginFlag THEN 0 ELSE 3 - psCnt)
      OBVIOUS
    <3>1. (beginFlag' <=> beginFlag) /\ (~beginFlag => psCnt' = psCnt)
      BY FlagMoves DEF Tick
    <3> QED BY <3>1, Zenon
  <2>4. ASSUME a
        PROVE  /\ (IF beginFlag' THEN 0 ELSE 3 - psCnt') <= (IF beginFlag THEN 0 ELSE 3 - psCnt)
               /\ (IF beginFlag THEN 0 ELSE 3 - psCnt) # 0 =>
                   (IF beginFlag' THEN 0 ELSE 3 - psCnt') = (IF beginFlag THEN 0 ELSE 3 - psCnt) - 1
    <3>1. CASE beginFlag
      <4>1. beginFlag'
        BY <3>1, FlagMoves
      <4>2. (IF beginFlag' THEN 0 ELSE 3 - psCnt') = 0
                 /\ (IF beginFlag THEN 0 ELSE 3 - psCnt) = 0
        BY <3>1, <4>1, Zenon
      <4> QED BY <4>2, SMT
    <3>2. CASE ~beginFlag
      <4>1. psCnt \in 0..2 /\ psCnt' = psCnt + 1 /\ (beginFlag' <=> psCnt = 2)
        BY <2>4, <3>2, FlagMoves
      <4>2. (IF beginFlag' THEN 0 ELSE 3 - psCnt') = (3 - psCnt) - 1
        BY <4>1, SMT
      <4>3. (IF beginFlag THEN 0 ELSE 3 - psCnt) = 3 - psCnt
        BY <3>2, Zenon
      <4> QED BY <4>1, <4>2, <4>3, SMT
    <3> QED BY <3>1, <3>2
  <2> QED BY <2>1, <2>2, <2>3, <2>4
<1>4. /\ beginFlag => b = 0
      /\ ~beginFlag => b >= 1
  BY <1>3, FlagMoves, SMT
<1>5. ~Unmade \/ ctl # "ready"
  BY <1>1, Ranges, Numbers, FlagMoves, SMT DEF Unmade, LoopIInv, Algs
<1>6. ctl = "ready" => ReqUp
  BY <1>5 DEF Wanted
<1>7. Missing' \in 0..4 /\ Missing \in 0..4
  BY SMT DEF Missing
<1>8. /\ ctl = "ready" => AskCount = Missing + 2 + HeadLatency + b
      /\ ctl = "idle" => AskCount = 7 + HeadLatency + b
      /\ ctl = "wait" => AskCount = (23 - waitCnt) + HeadLatency + b
      /\ ctl = "end" => AskCount = 24 + HeadLatency + b
  BY <1>3, Zenon DEF AskCount
<1>9. /\ ctl' = "ready" => AskCount' = Missing' + 2 + HeadLatency + b1
      /\ ctl' = "idle" => AskCount' = 7 + HeadLatency + b1
      /\ ctl' = "wait" => AskCount' = (23 - waitCnt') + HeadLatency + b1
      /\ ctl' = "end" => AskCount' = 24 + HeadLatency + b1
  BY <1>3, Zenon DEF AskCount
<1>10. waitCnt \in 0..15 /\ waitCnt' \in 0..15 /\ HeadLatency \in Int
  BY Ranges, Numbers, CtlMoves, SMT DEF Tick, Transfer!Ctls, LoopIInv, Counters
<1>11. CASE ~a
  <2>1. ctl' = ctl /\ waitCnt' = waitCnt
    BY <1>11, CtlMoves DEF Tick
  <2>2. ctl = "ready" => Missing' = Missing
    BY <1>6, <1>11, MissingShrinks DEF Tick
  <2>3. b1 = b
    BY <1>3, <1>11, Zenon DEF Tick
  <2>4. ~beginFlag' => ctl' # "ready"
    BY <1>1, <1>11, <2>1, FlagMoves DEF Tick
  <2>5. AskCount' = AskCount /\ AskCount' \in Int
    <3>1. AskCount \in Int
      BY AskNumbers
    <3>2. AskCount' = AskCount
      BY <1>1, <1>8, <1>9, <2>1, <2>2, <2>3, Zenon
    <3> QED BY <3>1, <3>2
  <2> QED BY <1>1, <1>11, <2>1, <2>4, <2>5
<1>12. CASE a
  <2>1. CASE ctl = "ready"
    <3>1. ~reqR[4]
      BY <1>12, <2>1
    <3>2. ctl' = "ready"
      BY <1>2, <1>12, <2>1, <3>1, CtlMoves
    <3>3. beginFlag /\ beginFlag'
      BY <1>1, <2>1, FlagMoves
    <3>4. Missing' = Missing - 1
      BY <1>6, <1>12, <2>1, <3>1, MissingShrinks
    <3>5. b1 <= b
      BY <1>3, <1>12
    <3>6. AskCount' <= AskCount - 1 /\ AskCount' \in Int
      BY <1>7, <1>8, <1>9, <1>10, <2>1, <3>2, <3>4, <3>5, SMT
    <3> QED BY <1>12, <3>2, <3>3, <3>6
  <2>2. CASE ctl = "idle" /\ beginFlag
    <3>1. ctl' = "ready" /\ beginFlag' /\ b1 <= b
      BY <1>3, <1>12, <2>2, CtlMoves, FlagMoves
    <3>2. Missing' <= 4
      BY <1>7, SMT
    <3>3. AskCount' <= AskCount - 1 /\ AskCount' \in Int
      <4>1. PICK n1 \in 0..4 : n1 = Missing'
        BY <1>7
      <4>2. AskCount' = n1 + 2 + HeadLatency + b1 /\ AskCount = 7 + HeadLatency + b /\ b1 <= b
        BY <1>8, <1>9, <2>2, <3>1, <4>1, Zenon
      <4> QED BY <1>10, <4>2, SMT
    <3> QED BY <1>12, <3>1, <3>3
  <2>3. CASE ctl = "idle" /\ ~beginFlag
    <3>1. ctl' = "idle"
      BY <1>12, <2>3, CtlMoves
    <3>2. b1 = b - 1
      BY <1>3, <1>4, <1>12, <2>3, SMT
    <3>3. AskCount' <= AskCount - 1 /\ AskCount' \in Int
      BY <1>8, <1>9, <1>10, <2>3, <3>1, <3>2, SMT
    <3> QED BY <1>12, <3>1, <3>3
  <2>4. CASE ctl = "wait"
    <3>1. ctl' = IF waitCnt = 15 THEN "idle" ELSE "wait"
      BY <1>12, <2>4, CtlMoves
    <3>2. ctl' = "wait" => waitCnt' = waitCnt + 1
      BY <1>12, <2>4, CtlMoves
    <3>3. b1 <= b
      BY <1>3, <1>12
    <3>4. AskCount' <= AskCount - 1 /\ AskCount' \in Int
      BY <1>8, <1>9, <1>10, <2>4, <3>1, <3>2, <3>3, SMT
    <3> QED BY <1>12, <3>1, <3>4
  <2>5. CASE ctl = "end"
    <3>1. ctl' = "wait" /\ waitCnt' = 0
      BY <1>12, <2>5, CtlMoves
    <3>2. b1 <= b
      BY <1>3, <1>12
    <3>3. AskCount' <= AskCount - 1 /\ AskCount' \in Int
      BY <1>8, <1>9, <1>10, <2>5, <3>1, <3>2, SMT
    <3> QED BY <1>12, <3>1, <3>3
  <2> QED BY <1>1, <2>1, <2>2, <2>3, <2>4, <2>5
<1> QED BY <1>11, <1>12

(* The kernels are not taken before the deadline, which moves with the time. *)
LEMMA KernelWaits ==
  ASSUME LoopIInv, NEW a, NEW d, NEW done, NEW k, NEW i, NEW m,
         Tick(a, d), Step(a, d, done, k, i, m), OnWay, KernelTime # Dt
  PROVE  /\ KernelTime' >= KernelTime - Dt
         /\ state' \in Pre \cup {"idle"}
         /\ state' = "wait_add_zero" <=> state = "wait_add_zero" \/ (d /\ state = "load_head")
         /\ ~d => state' = state
         /\ state' = "idle" => state = "idle"
         /\ d /\ state = "load_head" => state' = "wait_add_zero"
<1>1. ~d => state' = state
  BY StateMoves DEF Tick
<1>2. state = "wait_add_zero" => state' = "wait_add_zero"
  BY KernelTimePasses
<1>3. d => /\ state = "idle" => state' \in {"idle", "start"}
           /\ state = "start" => state' = "load_head"
           /\ state = "load_head" => state' = "wait_add_zero"
  BY StateMoves
<1>4. /\ state' \in Pre \cup {"idle"}
      /\ state' = "wait_add_zero" <=> state = "wait_add_zero" \/ (d /\ state = "load_head")
      /\ state' = "idle" => state = "idle"
      /\ d /\ state = "load_head" => state' = "wait_add_zero"
  <2>1. CASE d
    BY <1>2, <1>3, <2>1 DEF OnWay, Pre
  <2>2. CASE ~d
    BY <1>1, <2>2 DEF OnWay, Pre
  <2> QED BY <2>1, <2>2
<1>5. KernelTime' >= KernelTime - Dt
  <2>1. CASE state \in Pre
    <3>1. state' \in Pre
      BY <1>4, <2>1 DEF Pre
    <3>2. KernelTime' = KernelTime - Dt
      BY <2>1, <3>1, KernelTimePasses
    <3>3. KernelTime - Dt \in Int
      BY NextNumbers, SMT
    <3> QED BY <3>2, <3>3, SMT
  <2>2. CASE state = "idle"
    <3>1. PICK na \in Int, nd \in Int, na1 \in Int, nd1 \in Int, dt \in Int :
            Clock(na, nd, na1, nd1, dt) /\ Beat(a, d, na, nd, na1, nd1, dt)
      BY Clocks
    <3>2. state' \in {"idle", "start"}
      BY <1>1, <1>3, <2>2
    <3>3. KernelTime = D(HeadDelay + 3) /\ KernelTime' = D(HeadDelay + 3)'
      BY <2>2, <3>2 DEF KernelTime
    <3>4. KernelTime = nd + 4 * ((HeadDelay + 3) - 1)
               /\ KernelTime' = nd1 + 4 * ((HeadDelay + 3) - 1)
          /\ Dt = dt
      BY <3>1, <3>3, Zenon DEF D, Clock
    <3>5. nd1 >= nd - dt
      BY <3>1, SMT DEF Beat
    <3> QED BY <3>1, <3>4, <3>5, Numbers, SMT DEF Beat
  <2> QED BY <2>1, <2>2 DEF OnWay
<1> QED BY <1>1, <1>4, <1>5

(* A wanted head is not late: the kernels are not taken on this edge. *)
LEMMA WantedTimes ==
  ASSUME LoopIInv, NEW a, NEW d, NEW done, NEW k, NEW i, NEW m,
         Tick(a, d), Step(a, d, done, k, i, m), OnWay, Wanted
  PROVE  KernelTime # Dt
<1>1. PICK na \in Int, nd \in Int, na1 \in Int, nd1 \in Int, dt \in Int :
        Clock(na, nd, na1, nd1, dt) /\ Beat(a, d, na, nd, na1, nd1, dt)
  BY Clocks
<1>2. beginFlag \/ psCnt <= 3
  BY FlagMoves, SMT
<1>3. PICK n \in Int : n = AskCount /\ n >= 2
  <2>1. AskCount \in Int /\ AskCount >= 2
    BY <1>2, AskNumbers, Numbers, SMT
  <2> QED BY <2>1
<1>4. PICK kt \in Int : kt = KernelTime
  BY NextNumbers
<1>5. na + 5 * (n - 1) + 16 <= kt
  <2>1. AskTime = A(AskCount)
    BY Zenon DEF AskTime, AskCount
  <2>2. AskTime = na + 5 * (n - 1)
    BY <1>1, <1>3, <2>1, Zenon DEF A, Clock
  <2> QED BY <1>4, <2>2, Zenon DEF Wanted
<1>6. n \in Int /\ n >= 2
  BY <1>3, Zenon
<1>7. kt # dt
  BY <1>1, <1>5, <1>6, SMT DEF Beat
<1> QED BY <1>1, <1>4, <1>7, Zenon DEF Clock

(* The request is made, and stays until it is acknowledged. *)
LEMMA WantedMade ==
  ASSUME LoopIInv, NEW a, NEW d, NEW done, NEW k, NEW i, NEW m,
         Tick(a, d), Step(a, d, done, k, i, m), OnWay, Wanted,
         ~(a /\ ctl = "ready" /\ reqR[4])
  PROVE  IF Unmade' THEN ReqBy(0)' ELSE ReqUp'
<1>1. ~AtRest
  BY DEF OnWay, AtRest, Rest, Pre
<1>2. ~algReqR[2]
  BY <1>1, AlgSettled DEF Tick
<1>3. m = FALSE \/ d = FALSE
  <2>1. ~(d /\ m)
    BY StateMoves DEF OnWay, Pre
  <2> QED BY <2>1, Zenon DEF Step, Tick
<1>4. CASE Unmade
  <2>1. ps = "start" /\ (psCnt < 2 \/ (psCnt = 2 /\ Odd))
    BY <1>4, Zenon DEF Unmade
  <2>2. ReqBy(0)
    BY <1>4, Zenon DEF Wanted
  <2>3. ~req /\ ~reqR[1] /\ ~reqR[2] /\ ~reqR[3] /\ ~reqR[4] /\ NoAck
    BY <2>2, ReqLow DEF Tick
  <2>4. ~reqR'[1] /\ ~reqR'[2] /\ ~reqR'[3] /\ ~reqR'[4] /\ NoAck'
    <3>1. ~reqR'[1] /\ ~reqR'[2] /\ ~reqR'[3] /\ ~reqR'[4] /\ ~ack'
      <4>1. CASE a
        BY <2>3, <4>1, ReqMoves
      <4>2. CASE ~a
        BY <2>3, <4>2, ReqMoves DEF Tick, NoAck
      <4> QED BY <4>1, <4>2
    <3>2. ~ackR'[1] /\ ~ackR'[2]
      <4>1. CASE d
        BY <2>3, <4>1, ReqMoves DEF NoAck
      <4>2. CASE ~d
        BY <2>3, <4>2, ReqMoves DEF Tick, NoAck
      <4> QED BY <4>1, <4>2
    <3> QED BY <3>1, <3>2, Zenon DEF NoAck
  <2>5. CASE psCnt < 2
    <3>1. ~(beginTemp[2] /\ ~beginTemp[3])
      <4>1. psCnt # 2
        BY <2>5, SMT
      <4> QED BY <4>1, BeginWhen
    <3>2. ~req'
      <4>1. CASE d
        <5>1. m = FALSE
          BY <1>3, <4>1
        <5> QED BY <2>3, <3>1, <4>1, <5>1, ReqMoves
      <4>2. CASE ~d
        BY <2>3, <4>2, ReqMoves DEF Tick
      <4> QED BY <4>1, <4>2
    <3>3. Unmade'
      <4>1. CASE a
        <5>1. psCnt # StartCycles /\ psCnt + 1 <= 2
          BY <2>5, Ranges, Numbers, SMT
        <5>2. ps' = "start" /\ psCnt' = psCnt + 1
          BY <2>1, <4>1, <5>1, PsMoves
        <5>3. Odd'
          BY <4>1 DEF Tick
        <5>4. psCnt' < 2 \/ psCnt' = 2
          BY <5>1, <5>2, Ranges, SMT
        <5> QED BY <5>2, <5>3, <5>4, Zenon DEF Unmade
      <4>2. CASE ~a
        <5>1. ps' = "start" /\ psCnt' = psCnt
          BY <2>1, <4>2, PsMoves DEF Tick
        <5> QED BY <2>5, <5>1, Zenon DEF Unmade
      <4> QED BY <4>1, <4>2
    <3>4. ReqBy(0)'
      BY <2>4, <3>2, Zenon DEF ReqBy, ReqFalls, NoAck
    <3> QED BY <3>3, <3>4
  <2>6. CASE psCnt = 2 /\ Odd
    <3>1. ~a /\ d
      <4>1. ~a
        BY <2>6 DEF Tick
      <4>2. NextDeal <= NextAxi
        BY <4>1, SMT DEF Tick
      <4> QED BY <4>1, <4>2 DEF Tick
    <3>2. beginTemp[2] /\ ~beginTemp[3]
      <4>1. psCnt >= 2 /\ ~(psCnt >= 3)
        BY <2>6, SMT
      <4> QED BY <2>1, <4>1, Zenon DEF LoopIInv, Begins
    <3>3. req'
      BY <3>1, <3>2, ReqMoves
    <3>4. ps' = "start" /\ psCnt' = 2 /\ ~Odd'
      BY <2>1, <2>6, <3>1, PsMoves DEF Tick
    <3>5. ~Unmade'
      <4>1. ~(psCnt' < 2)
        BY <3>4, SMT
      <4> QED BY <3>4, <4>1, Zenon DEF Unmade
    <3>6. ReqUp'
      BY <2>4, <3>3, Zenon DEF ReqUp
    <3> QED BY <3>5, <3>6
  <2> QED BY <2>1, <2>5, <2>6
<1>5. CASE ~Unmade
  <2>1. ReqUp
    BY <1>5, Zenon DEF Wanted
  <2>2. ReqUp'
    BY <1>2, <2>1, ReqUpStays
  <2>3. ~Unmade'
    <3> SUFFICES ASSUME Unmade' PROVE FALSE
      OBVIOUS
    <3>1. ps' = "start" /\ (psCnt' < 2 \/ (psCnt' = 2 /\ Odd'))
      BY Zenon DEF Unmade
    <3>2. ps = "start"
      BY <1>1, <3>1, PsOnWay
    <3>3. ~(psCnt < 2) /\ ~(psCnt = 2 /\ Odd)
      BY <1>5, <3>2, Zenon DEF Unmade
    <3>4. CASE a
      <4>1. psCnt' = psCnt + 1
        BY <3>1, <3>2, <3>4, PsMoves
      <4> QED BY <3>1, <3>3, <4>1, Ranges, SMT
    <3>5. CASE ~a
      <4>1. psCnt' = psCnt /\ ~Odd'
        BY <3>5, PsMoves DEF Tick
      <4>2. psCnt = 2 /\ ~Odd
        BY <3>1, <3>3, <4>1, SMT
      <4> QED BY <3>5, <4>2 DEF Tick
    <3> QED BY <3>4, <3>5
  <2> QED BY <2>2, <2>3
<1> QED BY <1>4, <1>5

(* load_head_rd_reg is set when, and only when, load_head has been left. *)
Asked == state = "wait_add_zero" => loadHead
NotYet == state # "wait_add_zero" => ~loadHead

(* It stays set until the head is taken. *)
LEMMA AskedStays ==
  ASSUME LoopIInv, NEW a, NEW d, NEW done, NEW k, NEW i, NEW m,
         Tick(a, d), Step(a, d, done, k, i, m), OnWay, KernelTime # Dt,
         Asked, NotYet, ~LoadHeadRd
  PROVE  Asked' /\ NotYet'
<1>1. state' = "wait_add_zero" <=> state = "wait_add_zero" \/ (d /\ state = "load_head")
  BY KernelWaits
<1>2. loadHead' <=> loadHead \/ (d /\ state = "load_head")
  <2>1. CASE d
    BY <2>1, HeadMoves
  <2>2. CASE ~d
    BY <2>2, HeadMoves DEF Tick
  <2> QED BY <2>1, <2>2
<1> QED BY <1>1, <1>2, Zenon DEF Asked, NotYet

(* An empty FIFO is not read. *)
LEMMA NoHeadNoRead ==
  ASSUME NoHead
  PROVE  ~LoadHeadRd
<1> QED BY Zenon DEF NoHead, LoadHeadRd, HeadEmpty

(* A wanted head stays wanted until its read begins ... *)
LEMMA WantedStays ==
  ASSUME LoopIInv, NEW a, NEW d, NEW done, NEW k, NEW i, NEW m,
         Tick(a, d), Step(a, d, done, k, i, m), OnWay, Wanted, NotYet,
         ~(a /\ ctl = "ready" /\ reqR[4])
  PROVE  Wanted' /\ NotYet'
<1>1. KernelTime # Dt
  BY WantedTimes
<1>2. NoHead /\ headNeedR /\ Asked /\ ctl # "head_rd"
  BY Zenon DEF Wanted, Asked
<1>3. NoHead' /\ headNeedR'
  BY <1>2, NoHeadStays
<1>4. Asked' /\ NotYet'
  BY <1>1, <1>2, NoHeadNoRead, AskedStays
<1>5. /\ ctl' \in {"end", "wait", "idle", "ready"}
      /\ ~beginFlag' => ctl' # "ready"
      /\ AskCount' \in Int
      /\ a => AskCount' <= AskCount - 1
      /\ ~a => AskCount' = AskCount
  BY AskDrops
<1>6. IF Unmade' THEN ReqBy(0)' ELSE ReqUp'
  BY WantedMade
<1>7. AskTime' + 16 <= KernelTime'
  <2>1. PICK na \in Int, nd \in Int, na1 \in Int, nd1 \in Int, dt \in Int :
          Clock(na, nd, na1, nd1, dt) /\ Beat(a, d, na, nd, na1, nd1, dt)
    BY Clocks
  <2>2. PICK n \in Int, n1 \in Int : n = AskCount /\ n1 = AskCount'
    BY <1>5, AskNumbers
  <2>3. (a => n1 <= n - 1) /\ (~a => n1 = n)
    BY <1>5, <2>2, Zenon DEF Tick
  <2>4. PICK kt \in Int, kt1 \in Int : kt = KernelTime /\ kt1 = KernelTime' /\ kt1 >= kt - Dt
    <3>1. KernelTime \in Int /\ KernelTime' \in Int /\ KernelTime' >= KernelTime - Dt
      BY <1>1, NextNumbers, KernelWaits, SMT
    <3> QED BY <3>1
  <2>5. kt1 >= kt - dt
    BY <2>1, <2>4, Zenon DEF Clock
  <2>6. AskTime = na + 5 * (n - 1)
    <3>1. AskTime = A(AskCount)
      BY Zenon DEF AskTime, AskCount
    <3> QED BY <2>1, <2>2, <3>1, Zenon DEF A, Clock
  <2>7. AskTime' = na1 + 5 * (n1 - 1)
    <3>1. AskTime' = A(AskCount)'
      BY Zenon DEF AskTime, AskCount
    <3> QED BY <2>1, <2>2, <3>1, Zenon DEF A, Clock
  <2>8. na + 5 * (n - 1) + 16 <= kt
    BY <2>4, <2>6, Zenon DEF Wanted
  <2>9. n \in Int /\ n1 \in Int /\ kt \in Int /\ kt1 \in Int
    BY <2>2, <2>4, Zenon
  <2>10. na1 + 5 * (n1 - 1) + 16 <= kt1
    BY <2>1, <2>3, <2>5, <2>8, <2>9, SMT DEF Beat
  <2> QED BY <2>4, <2>7, <2>10, Zenon
<1> QED BY <1>3, <1>4, <1>5, <1>6, <1>7, Zenon DEF Wanted, Asked

(* ... which it does when ready sees the request. *)
LEMMA WantedRead ==
  ASSUME LoopIInv, NEW a, NEW d, NEW done, NEW k, NEW i, NEW m,
         Tick(a, d), Step(a, d, done, k, i, m), OnWay, Wanted, NotYet,
         a, ctl = "ready", reqR[4]
  PROVE  Reading' /\ NotYet'
<1>1. KernelTime # Dt /\ ~AtRest
  <2>1. ~AtRest
    BY DEF OnWay, AtRest, Rest, Pre
  <2> QED BY <2>1, WantedTimes
<1>2. NoHead /\ headNeedR /\ Asked /\ beginFlag
  BY Zenon DEF Wanted, Asked
<1>3. NoHead'
  BY <1>2, NoHeadStays
<1>4. Asked' /\ NotYet'
  BY <1>1, <1>2, NoHeadNoRead, AskedStays
<1>5. ~wrNeedPipe[3]
  <2>1. state # "send_image"
    BY DEF OnWay, Pre
  <2> QED BY <2>1, WriteStarts
<1>6. ctl' = "head_rd"
  BY <1>2, <1>5, CtlMoves
<1>7. latency' = 0
  BY HeadMoves
<1>8. Late'
  <2>1. ps = "start" => psCnt >= 3
    BY <1>2, Zenon DEF LoopIInv, Algs
  <2>2. ps' = "start" => ps = "start"
    BY <1>1, PsOnWay
  <2>3. ps' = "start" => psCnt' = psCnt + 1
    BY <2>2, PsMoves
  <2>4. ps' = "start" => psCnt' > 3
    BY <2>1, <2>2, <2>3, Ranges, Numbers, SMT
  <2> QED BY <2>4, Zenon DEF Late
<1>9. ReqUp /\ ~Unmade
  <2>1. ~Unmade
    <3>1. ps = "start" => psCnt >= 3
      BY <1>2, Zenon DEF LoopIInv, Algs
    <3> QED BY <3>1, Ranges, Numbers, SMT DEF Unmade
  <2> QED BY <2>1, Zenon DEF Wanted
<1>10. req' /\ ack' /\ ~ackR'[1] /\ ~ackR'[2]
  <2>1. req /\ ~ack /\ ~ackR[1] /\ ~ackR[2]
    BY <1>9, Zenon DEF ReqUp, NoAck
  <2>2. ack'
    BY <1>2, ReqMoves
  <2>3. ~algReqR[2]
    BY <1>1, AlgSettled DEF Tick
  <2>4. CASE d
    BY <2>1, <2>2, <2>3, <2>4, ReqMoves
  <2>5. CASE ~d
    BY <2>1, <2>2, <2>5, ReqMoves DEF Tick
  <2> QED BY <2>4, <2>5
<1>11. PICK na \in Int, nd \in Int, na1 \in Int, nd1 \in Int, dt \in Int :
         Clock(na, nd, na1, nd1, dt) /\ Beat(a, d, na, nd, na1, nd1, dt)
  BY Clocks
<1>12. ReqBy(JudgeTime)'
  <2>1. PICK Y \in Int : Y = JudgeTime' /\ Y = na1 + 5 * (22 - 1)
    <3>1. JudgeTime' = A(22)'
      BY <1>6 DEF JudgeTime
    <3>2. A(22)' = na1 + 5 * (22 - 1)
      BY <1>11, Zenon DEF A, Clock
    <3> QED BY <3>1, <3>2, <1>11
  <2>2. nd1 < na1 /\ nd1 + 4 * (3 - 1) + 20 <= Y /\ na1 + 5 * (1 - 1) + 8 <= Y
    BY <1>11, <2>1, SMT DEF Beat
  <2>3. ReqBy(Y)'
    BY <1>10, <1>11, <2>2, Zenon DEF ReqBy, A, D, Clock
  <2> QED BY <2>1, <2>3, Zenon DEF ReqBy, ReqFalls
<1>13. A(HeadLatency + 1 - latency)' + 16 <= KernelTime'
  <2>1. PICK kt \in Int, kt1 \in Int : kt = KernelTime /\ kt1 = KernelTime' /\ kt1 >= kt - Dt
    <3>1. KernelTime \in Int /\ KernelTime' \in Int /\ KernelTime' >= KernelTime - Dt
      <4>1. KernelTime' >= KernelTime - Dt
        BY <1>1, KernelWaits
      <4>2. KernelTime \in Nat /\ KernelTime' \in Nat
        BY NextNumbers, Zenon
      <4> QED BY <4>1, <4>2, SMT
    <3> QED BY <3>1
  <2>2. kt1 >= kt - dt /\ kt \in Int /\ kt1 \in Int
    BY <1>11, <2>1, Zenon DEF Clock
  <2>3. AskCount = 2 + HeadLatency
    <3>1. Missing = 0
      BY DEF Missing
    <3> QED BY <1>2, <3>1, Numbers, SMT DEF AskCount
  <2>4. AskTime = na + 5 * ((2 + HeadLatency) - 1)
    <3>1. AskTime = A(AskCount)
      BY Zenon DEF AskTime, AskCount
    <3> QED BY <1>11, <2>3, <3>1, Zenon DEF A, Clock
  <2>5. na + 5 * ((2 + HeadLatency) - 1) + 16 <= kt
    BY <2>1, <2>4, Zenon DEF Wanted
  <2>6. na1 + 5 * ((HeadLatency + 1 - 0) - 1) + 16 <= kt1
    BY <1>11, <2>2, <2>5, Numbers, SMT DEF Beat
  <2>7. A(HeadLatency + 1 - latency)' = na1 + 5 * ((HeadLatency + 1 - 0) - 1)
    BY <1>7, <1>11, Zenon DEF A, Clock
  <2> QED BY <2>1, <2>6, <2>7, Zenon
<1>14. latency' <= HeadLatency
  BY <1>7, Numbers, SMT
<1> QED BY <1>3, <1>4, <1>6, <1>7, <1>8, <1>12, <1>13, <1>14, Zenon DEF Reading, Asked

(* A request that was served is not seen again. *)
LEMMA ServedStays ==
  ASSUME LoopIInv, NEW a, NEW d, NEW done, NEW k, NEW i, NEW m,
         Tick(a, d), Step(a, d, done, k, i, m), ~AtRest, Late, ReqBy(JudgeTime), d => m = FALSE
  PROVE  /\ ReqBy(JudgeTime)'
         /\ ctl = "ready" => ~reqR[4]
         /\ a => ~ack'
<1>1. ctl = "ready" => ~reqR[4]
  <2> SUFFICES ASSUME ctl = "ready" PROVE ~reqR[4]
    OBVIOUS
  <2>1. JudgeTime = 0
    BY DEF JudgeTime
  <2>2. ReqBy(0)
    BY <2>1, Zenon
  <2> QED BY <2>2, ReqLow DEF Tick
<1>2. a => ~ack'
  BY <1>1, ReqMoves
<1>3. d => ~algReqR[2]
  BY AlgSettled DEF Tick
<1>4. ~(beginTemp[2] /\ ~beginTemp[3])
  <2>1. beginTemp[2] /\ ~beginTemp[3] => ps = "start" /\ psCnt = 2
    BY BeginWhen
  <2>2. ~(ps = "start" /\ psCnt = 2)
    <3>1. ~(2 > 3)
      BY SMT
    <3> QED BY <3>1 DEF Late
  <2> QED BY <2>1, <2>2
<1>5. PICK X \in Int, Y \in Int : X = JudgeTime /\ Y = JudgeTime' /\ Y >= X - Dt
  <2>1. JudgeTime \in Int /\ JudgeTime' \in Int /\ JudgeTime' >= JudgeTime - Dt
    BY NextNumbers, JudgeTimePasses, SMT
  <2> QED BY <2>1
<1>6. ReqBy(X)
  BY <1>5, Zenon
<1>7. ReqBy(Y)'
  <2>1. d => ~m /\ ~(beginTemp[2] /\ ~beginTemp[3]) /\ ~algReqR[2]
    BY <1>3, <1>4, Zenon
  <2> QED BY <1>2, <1>5, <1>6, <2>1, ReqByStep
<1>8. ReqBy(JudgeTime)'
  BY <1>5, <1>7, Zenon DEF ReqBy, ReqFalls
<1> QED BY <1>1, <1>2, <1>8

(* The read goes on until DDR finishes it, in time. *)
LEMMA ReadingStays ==
  ASSUME LoopIInv, NEW a, NEW d, NEW done, NEW k, NEW i, NEW m,
         Tick(a, d), Step(a, d, done, k, i, m), state \in Pre, Reading, NotYet
  PROVE  /\ a /\ done => Arrived' /\ NotYet'
         /\ ~(a /\ done) => Reading' /\ NotYet'
<1>1. OnWay /\ ~AtRest /\ ~(d /\ m)
  <2>1. OnWay
    BY DEF OnWay
  <2>2. ~AtRest
    BY DEF AtRest, Rest, Pre
  <2>3. ~(d /\ m)
    BY StateMoves DEF Pre
  <2> QED BY <2>1, <2>2, <2>3
<1>2. d => m = FALSE
  BY <1>1, Zenon DEF Step
<1>3. /\ Late /\ ctl = "head_rd" /\ NoHead /\ latency <= HeadLatency
      /\ A(HeadLatency + 1 - latency) + 16 <= KernelTime
      /\ ReqBy(JudgeTime) /\ (ack => latency = 0) /\ Asked
  BY Zenon DEF Reading, Asked
<1>4. ReqBy(JudgeTime)' /\ (a => ~ack')
  BY <1>1, <1>2, <1>3, ServedStays
<1>5. Late'
  BY <1>1, <1>3, PsOnWay
<1>6. PICK na \in Int, nd \in Int, na1 \in Int, nd1 \in Int, dt \in Int :
        Clock(na, nd, na1, nd1, dt) /\ Beat(a, d, na, nd, na1, nd1, dt)
  BY Clocks
<1>7. PICK l \in 0..HeadLatency, l1 \in Int : l = latency /\ l1 = latency'
  <2>1. latency \in 0..HeadLatency
    BY Ranges
  <2>2. latency' \in Int
    <3>1. a => latency' \in {0, latency + 1}
      BY HeadMoves
    <3>2. ~a => latency' = latency
      BY HeadMoves DEF Tick
    <3> QED BY <2>1, <3>1, <3>2, Numbers, SMT DEF Tick
  <2> QED BY <2>1, <2>2
<1>8. l \in Int /\ 0 <= l /\ l <= HeadLatency
  BY <1>7, Numbers, SMT
<1>9. PICK kt \in Int, kt1 \in Int : kt = KernelTime /\ kt1 = KernelTime'
  BY NextNumbers, SMT
<1>10. na + 5 * ((HeadLatency + 1 - l) - 1) + 16 <= kt
  <2>1. A(HeadLatency + 1 - latency) = na + 5 * ((HeadLatency + 1 - l) - 1)
    BY <1>6, <1>7, Zenon DEF A, Clock
  <2> QED BY <1>3, <1>9, <2>1, Zenon
<1>11. KernelTime # Dt
  <2>1. kt \in Int
    BY <1>9, Zenon
  <2>2. kt # dt
    BY <1>6, <1>8, <1>10, <2>1, Numbers, SMT DEF Beat
  <2> QED BY <1>6, <1>9, <2>2, Zenon DEF Clock
<1>12. kt1 >= kt - dt /\ kt \in Int /\ kt1 \in Int
  <2>1. KernelTime' >= KernelTime - Dt
    BY <1>1, <1>11, KernelWaits
  <2> QED BY <1>6, <1>9, <2>1, Zenon DEF Clock
<1>13. Asked' /\ NotYet'
  BY <1>1, <1>3, <1>11, NoHeadNoRead, AskedStays
<1>14. headWrites = headPops /\ headSeen = headPops /\ ~LoadHeadRd
  BY <1>3, NoHeadNoRead, Zenon DEF NoHead
<1>15. ~algReqR[2]
  BY <1>1, AlgSettled DEF Tick
<1>16. headPops' = headPops /\ headSeen' = headSeen
  <2>1. CASE d
    BY <1>14, <1>15, <2>1, HeadMoves
  <2>2. CASE ~d
    BY <2>2, HeadMoves DEF Tick
  <2> QED BY <2>1, <2>2
<1>17. ASSUME a, done PROVE Arrived'
  <2>1. ctl' = "iterate_head_wait"
    BY <1>3, <1>17, DataMoves
  <2>2. headWrites' = (headPops' + 1) % 4 /\ headPops' \in 0..3
    <3>1. headPops \in 0..3
      BY DEF LoopIInv, LoopTypeOK
    <3> QED BY <1>3, <1>14, <1>16, <1>17, <3>1, HeadMoves
  <2>3. HeadsAhead' = 1
    <3>1. HeadsAhead' = (headWrites' + 4 - headPops') % 4
      BY DEF HeadsAhead
    <3> QED BY <2>2, <3>1, SMT
  <2>4. headSeen' = headPops'
    BY <1>14, <1>16
  <2>5. D(2)' + 5 <= KernelTime'
    <3>1. nd1 + 4 * (2 - 1) + 5 <= kt1
      BY <1>6, <1>8, <1>10, <1>12, <1>17, Numbers, SMT DEF Beat
    <3> QED BY <1>6, <1>9, <3>1, Zenon DEF D, Clock
  <2>6. ~ack'
    BY <1>4, <1>17
  <2>7. ctl' \in AfterHead
    BY <2>1 DEF AfterHead
  <2> QED BY <1>4, <1>5, <1>13, <2>3, <2>4, <2>5, <2>6, <2>7, Zenon DEF Arrived, Asked
<1>18. ASSUME ~(a /\ done) PROVE Reading'
  <2>1. ctl' = "head_rd" /\ headWrites' = headWrites
    <3>1. headWrites' = headWrites
      BY <1>18, HeadMoves
    <3>2. CASE a
      <4>1. ~done /\ done \in BOOLEAN
        BY <1>18, <3>2, DataMoves
      <4> QED BY <1>3, <3>1, <3>2, <4>1, DataMoves
    <3>3. CASE ~a
      BY <1>3, <3>1, <3>3, CtlMoves DEF Tick
    <3> QED BY <3>2, <3>3
  <2>2. NoHead'
    BY <1>14, <1>16, <2>1, Zenon DEF NoHead
  <2>3. (a => l1 = l + 1 /\ l # HeadLatency) /\ (~a => l1 = l)
    <3>1. ASSUME a PROVE l1 = l + 1 /\ l # HeadLatency
      <4>1. ~done /\ done \in BOOLEAN
        BY <1>18, <3>1, DataMoves
      <4>2. latency' = latency + 1
        <5>1. done = FALSE
          BY <4>1
        <5> QED BY <1>3, <3>1, <5>1, HeadMoves
      <4>3. ctl = "head_rd" /\ latency = HeadLatency => done
        BY <3>1, CtlMoves
      <4> QED BY <1>3, <1>7, <4>1, <4>2, <4>3, Zenon
    <3>2. ASSUME ~a PROVE l1 = l
      <4>1. latency' = latency
        BY <3>2, HeadMoves DEF Tick
      <4> QED BY <1>7, <4>1, Zenon
    <3> QED BY <3>1, <3>2
  <2>4. l1 <= HeadLatency /\ l1 \in Int
    BY <1>7, <1>8, <2>3, Numbers, SMT DEF Tick
  <2>5. na1 + 5 * ((HeadLatency + 1 - l1) - 1) + 16 <= kt1
    BY <1>6, <1>8, <1>10, <1>12, <2>3, <2>4, Numbers, SMT DEF Beat
  <2>6. A(HeadLatency + 1 - latency)' + 16 <= KernelTime'
    <3>1. A(HeadLatency + 1 - latency)' = na1 + 5 * ((HeadLatency + 1 - l1) - 1)
      BY <1>6, <1>7, Zenon DEF A, Clock
    <3> QED BY <1>9, <2>5, <3>1, Zenon
  <2>7. ack' => latency' = 0
    <3>1. CASE a
      BY <1>4, <3>1
    <3>2. CASE ~a
      <4>1. (ack' <=> ack) /\ latency' = latency
        BY <3>2, ReqMoves, HeadMoves DEF Tick
      <4> QED BY <1>3, <4>1, Zenon
    <3> QED BY <3>1, <3>2
  <2>8. latency' <= HeadLatency
    BY <1>7, <2>4, Zenon
  <2> QED BY <1>4, <1>5, <1>13, <2>1, <2>2, <2>6, <2>7, <2>8, Zenon DEF Reading, Asked
<1>19. done \in BOOLEAN /\ a \in BOOLEAN
  BY Zenon DEF Step, Tick
<1> QED BY <1>13, <1>17, <1>18, <1>19

(* With its request served, the transfer side comes back to ready and stays. *)
LEMMA AfterStays ==
  ASSUME LoopIInv, NEW a, NEW d, NEW done, NEW k, NEW i, NEW m,
         Tick(a, d), Step(a, d, done, k, i, m), ~AtRest, Late, ReqBy(JudgeTime),
         d => m = FALSE, state # "send_image", ctl \in AfterHead
  PROVE  ctl' \in AfterHead /\ headWrites' = headWrites
<1>1. ctl = "ready" => ~reqR[4] /\ ~wrNeedPipe[3]
  BY ServedStays, WriteStarts
<1>2. headWrites' = headWrites
  <2>1. ctl # "head_rd"
    BY DEF AfterHead
  <2> QED BY <2>1, HeadMoves
<1>3. CASE a
  <2>1. CASE ctl \in {"image_rd", "kernel_rd"}
    BY <1>2, <1>3, <2>1, DataMoves DEF AfterHead
  <2>2. CASE ctl = "ready"
    BY <1>1, <1>2, <1>3, <2>2, CtlMoves DEF AfterHead
  <2>3. CASE ctl \notin {"image_rd", "kernel_rd", "ready"}
    BY <1>2, <1>3, <2>3, CtlMoves DEF AfterHead
  <2> QED BY <2>1, <2>2, <2>3
<1>4. CASE ~a
  BY <1>2, <1>4, CtlMoves DEF Tick
<1> QED BY <1>3, <1>4

(* The head stays until it is taken, in load_head_waitAddZero. *)
LEMMA ArrivedStays ==
  ASSUME LoopIInv, NEW a, NEW d, NEW done, NEW k, NEW i, NEW m,
         Tick(a, d), Step(a, d, done, k, i, m), state \in Pre, Arrived, NotYet
  PROVE  /\ ~(d /\ LoadHeadRd) => Arrived' /\ NotYet'
         /\ d /\ LoadHeadRd => /\ state' = "wait_add_zero" /\ Popped'
                               /\ A(1)' <= KernelTime'
<1>1. OnWay /\ ~AtRest /\ ~(d /\ m) /\ state # "send_image"
  <2>1. OnWay /\ state # "send_image"
    BY DEF OnWay, Pre
  <2>2. ~AtRest
    BY DEF AtRest, Rest, Pre
  <2>3. ~(d /\ m)
    BY StateMoves DEF Pre
  <2> QED BY <2>1, <2>2, <2>3
<1>2. d => m = FALSE
  BY <1>1, Zenon DEF Step
<1>3. /\ Late /\ ctl \in AfterHead /\ HeadsAhead = 1
      /\ headSeen \in {headWrites, headPops}
      /\ headSeen = headPops => D(2) + 5 <= KernelTime
      /\ headSeen # headPops => D(1) + 5 <= KernelTime
      /\ ReqBy(JudgeTime) /\ ~ack /\ Asked
  BY Zenon DEF Arrived, Asked
<1>4. ReqBy(JudgeTime)' /\ (a => ~ack')
  BY <1>1, <1>2, <1>3, ServedStays
<1>5. ~ack'
  <2>1. ~a => (ack' <=> ack)
    BY ReqMoves DEF Tick
  <2> QED BY <1>3, <1>4, <2>1
<1>6. Late' /\ ctl' \in AfterHead /\ headWrites' = headWrites
  BY <1>1, <1>2, <1>3, PsOnWay, AfterStays
<1>7. PICK na \in Int, nd \in Int, na1 \in Int, nd1 \in Int, dt \in Int :
        Clock(na, nd, na1, nd1, dt) /\ Beat(a, d, na, nd, na1, nd1, dt)
  BY Clocks
<1>8. PICK kt \in Int, kt1 \in Int : kt = KernelTime /\ kt1 = KernelTime'
  BY NextNumbers, SMT
<1>9. kt \in Int /\ kt1 \in Int
  BY <1>8, Zenon
<1>10. /\ headSeen = headPops => nd + 4 * (2 - 1) + 5 <= kt
       /\ headSeen # headPops => nd + 4 * (1 - 1) + 5 <= kt
  BY <1>3, <1>7, <1>8, Zenon DEF D, Clock
<1>11. KernelTime # Dt
  <2>1. kt # dt
    BY <1>7, <1>9, <1>10, SMT DEF Beat
  <2> QED BY <1>7, <1>8, <2>1, Zenon DEF Clock
<1>12. kt1 >= kt - dt
  <2>1. KernelTime' >= KernelTime - Dt
    BY <1>1, <1>11, KernelWaits
  <2> QED BY <1>7, <1>8, <2>1, Zenon DEF Clock
<1>13. ~algReqR[2]
  BY <1>1, AlgSettled DEF Tick
<1>14. headWrites \in 0..3 /\ headPops \in 0..3 /\ headSeen \in 0..3
       /\ (headWrites + 4 - headPops) % 4 = 1
  <2>1. headWrites \in 0..3 /\ headPops \in 0..3 /\ headSeen \in 0..3
    BY DEF LoopIInv, LoopTypeOK
  <2> QED BY <1>3, <2>1 DEF HeadsAhead
<1>15. headWrites # headPops /\ headWrites = (headPops + 1) % 4
  BY <1>14, SMT
<1>16. ASSUME ~(d /\ LoadHeadRd) PROVE Arrived' /\ NotYet'
  <2>1. CASE d
    <3>1. ~LoadHeadRd
      BY <1>16, <2>1
    <3>2. headSeen' = headWrites /\ headPops' = headPops
      BY <1>13, <2>1, <3>1, HeadMoves
    <3>3. HeadsAhead' = 1
      BY <1>6, <1>14, <3>2 DEF HeadsAhead
    <3>4. D(1)' + 5 <= KernelTime'
      <4>1. CASE headSeen = headPops
        <5>1. nd1 + 4 * (1 - 1) + 5 <= kt1
          BY <1>7, <1>9, <1>10, <1>12, <2>1, <4>1, SMT DEF Beat
        <5> QED BY <1>7, <1>8, <5>1, Zenon DEF D, Clock
      <4>2. CASE headSeen # headPops
        <5>1. ~loadHead
          BY <3>1, <4>2, Zenon DEF LoadHeadRd, HeadEmpty
        <5>2. state \in {"start", "load_head"}
          BY <1>3, <5>1 DEF Pre, Asked
        <5>3. kt >= 4 * HeadDelay + 5
          BY <1>8, <5>2, KernelTimePasses, Zenon
        <5>4. nd1 + 4 * (1 - 1) + 5 <= kt1
          BY <1>7, <1>9, <1>12, <5>3, Numbers, SMT DEF Beat
        <5> QED BY <1>7, <1>8, <5>4, Zenon DEF D, Clock
      <4> QED BY <4>1, <4>2
    <3>5. Asked' /\ NotYet'
      BY <1>1, <1>3, <1>11, <3>1, AskedStays
    <3>6. headSeen' = headWrites' /\ headSeen' # headPops'
      BY <1>6, <1>15, <3>2, Zenon
    <3> QED BY <1>4, <1>5, <1>6, <3>3, <3>4, <3>5, <3>6, Zenon DEF Arrived, Asked
  <2>2. CASE ~d
    <3>1. headSeen' = headSeen /\ headPops' = headPops /\ (loadHead' <=> loadHead)
               /\ state' = state
      BY <2>2, HeadMoves, StateMoves DEF Tick
    <3>2. HeadsAhead' = 1
      BY <1>6, <1>14, <3>1 DEF HeadsAhead
    <3>3. /\ headSeen' = headPops' => D(2)' + 5 <= KernelTime'
          /\ headSeen' # headPops' => D(1)' + 5 <= KernelTime'
      <4>1. /\ headSeen = headPops => nd1 + 4 * (2 - 1) + 5 <= kt1
            /\ headSeen # headPops => nd1 + 4 * (1 - 1) + 5 <= kt1
        BY <1>7, <1>9, <1>10, <1>12, <2>2, SMT DEF Beat
      <4> QED BY <1>7, <1>8, <3>1, <4>1, Zenon DEF D, Clock
    <3>4. Asked' /\ NotYet'
      BY <1>3, <3>1, Zenon DEF Asked, NotYet
    <3>5. headSeen' \in {headWrites', headPops'}
      BY <1>3, <1>6, <3>1
    <3> QED BY <1>4, <1>5, <1>6, <3>2, <3>3, <3>4, <3>5, Zenon DEF Arrived, Asked
  <2> QED BY <2>1, <2>2
<1>17. ASSUME d, LoadHeadRd
       PROVE  state' = "wait_add_zero" /\ Popped' /\ A(1)' <= KernelTime'
  <2>1. loadHead /\ headSeen # headPops
    BY <1>17, Zenon DEF LoadHeadRd, HeadEmpty
  <2>2. state = "wait_add_zero"
    BY <2>1 DEF NotYet
  <2>3. state' = "wait_add_zero"
    BY <1>1, <1>11, <2>2, KernelWaits
  <2>4. headSeen' = headWrites /\ headPops' = (headPops + 1) % 4
    BY <1>13, <1>17, HeadMoves
  <2>5. ~loadHead'
    <3>1. state # "load_head"
      BY <2>2
    <3> QED BY <1>17, <3>1, HeadMoves
  <2>6. NoHead'
    BY <1>6, <1>15, <2>4, Zenon DEF NoHead
  <2>7. A(1)' <= KernelTime'
    <3>1. na1 + 5 * (1 - 1) <= kt1
      BY <1>7, <1>9, <1>10, <1>12, <1>17, <2>1, SMT DEF Beat
    <3> QED BY <1>7, <1>8, <3>1, Zenon DEF A, Clock
  <2> QED BY <1>4, <1>5, <1>6, <2>3, <2>5, <2>6, <2>7, Zenon DEF Popped
<1>18. d \in BOOLEAN /\ LoadHeadRd \in BOOLEAN
  BY Zenon DEF Tick, LoadHeadRd
<1> QED BY <1>16, <1>17, <1>18

(* After that no other comes before the round has ended. *)
LEMMA PoppedStays ==
  ASSUME LoopIInv, NEW a, NEW d, NEW done, NEW k, NEW i, NEW m,
         Tick(a, d), Step(a, d, done, k, i, m),
         state \in {"wait_add_zero", "load_kernel", "load_image", "deal_image"},
         Popped, headNeedR \/ (state = "wait_add_zero" /\ A(1) <= KernelTime),
         ~(d /\ m)
  PROVE  Popped' /\ (headNeedR' \/ (state' = "wait_add_zero" /\ A(1)' <= KernelTime'))
<1>1. ~AtRest /\ state # "send_image" /\ state # "load_head"
  BY DEF AtRest, Rest
<1>2. d => m = FALSE
  BY Zenon DEF Step
<1>3. Late /\ ctl \in AfterHead /\ NoHead /\ ReqBy(JudgeTime) /\ ~ack /\ ~loadHead
  BY Zenon DEF Popped
<1>4. ReqBy(JudgeTime)' /\ ~ack'
  <2>1. ReqBy(JudgeTime)' /\ (a => ~ack')
    BY <1>1, <1>2, <1>3, ServedStays
  <2>2. ~a => (ack' <=> ack)
    BY ReqMoves DEF Tick
  <2> QED BY <1>3, <2>1, <2>2
<1>5. Late' /\ ctl' \in AfterHead /\ ctl # "head_rd"
  <2>1. ctl # "head_rd"
    BY <1>3 DEF AfterHead
  <2> QED BY <1>1, <1>2, <1>3, <2>1, PsOnWay, AfterStays
<1>6. NoHead' /\ (headNeedR \/ a => headNeedR') /\ ~loadHead'
  BY <1>1, <1>3, <1>5, NoHeadStays
<1>7. Popped'
  BY <1>4, <1>5, <1>6, Zenon DEF Popped
<1>8. ASSUME ~headNeedR, ~a
      PROVE  state' = "wait_add_zero" /\ A(1)' <= KernelTime'
  <2>1. state = "wait_add_zero" /\ A(1) <= KernelTime
    BY <1>8
  <2>2. PICK na \in Int, nd \in Int, na1 \in Int, nd1 \in Int, dt \in Int :
          Clock(na, nd, na1, nd1, dt) /\ Beat(a, d, na, nd, na1, nd1, dt)
    BY Clocks
  <2>3. PICK kt \in Int, kt1 \in Int : kt = KernelTime /\ kt1 = KernelTime'
    BY NextNumbers, SMT
  <2>4. na + 5 * (1 - 1) <= kt /\ kt \in Int /\ kt1 \in Int
    BY <2>1, <2>2, <2>3, Zenon DEF A, Clock
  <2>5. kt # dt
    BY <1>8, <2>2, <2>4, SMT DEF Beat
  <2>6. KernelTime # Dt /\ OnWay
    <3>1. OnWay
      BY <2>1 DEF OnWay, Pre
    <3> QED BY <2>2, <2>3, <2>5, <3>1, Zenon DEF Clock
  <2>7. state' = "wait_add_zero" /\ KernelTime' >= KernelTime - Dt
    BY <2>1, <2>6, KernelWaits
  <2>8. kt1 >= kt - dt
    BY <2>2, <2>3, <2>7, Zenon DEF Clock
  <2>9. na1 + 5 * (1 - 1) <= kt1
    BY <1>8, <2>2, <2>4, <2>8, SMT DEF Beat
  <2> QED BY <2>2, <2>3, <2>7, <2>9, Zenon DEF A, Clock
<1> QED BY <1>6, <1>7, <1>8

(* The end of a round: another one is asked for, or the map is sent first. *)
LEMMA RoundEnds ==
  ASSUME LoopIInv, NEW a, NEW d, NEW done, NEW k, NEW i, NEW m,
         Tick(a, d), Step(a, d, done, k, i, m),
         d, m, state = "deal_image"
  PROVE  /\ NoHead' /\ headNeedR' /\ ReqUp' /\ ~loadHead' /\ ctl' = "ready"
         /\ ~ReturnAxi => state' = "start" /\ Wanted'
         /\ ReturnAxi => state' = "send_image" /\ SendBefore'
<1>1. /\ Popped /\ headNeedR /\ ctl = "ready"
  <2>1. ctl = "ready"
    BY StateMoves
  <2> QED BY <2>1, Zenon DEF LoopIInv, Rounds
<1>2. ~AtRest /\ ps # "start"
  <2>1. ~AtRest
    BY DEF AtRest, Rest
  <2>2. ps # "start"
    <3>1. ps = "start" => state = "idle" \/ state \in Pre
      BY Zenon DEF LoopIInv, Begins
    <3> QED BY <3>1 DEF Pre
  <2> QED BY <2>1, <2>2
<1>3. ~req /\ ~reqR[1] /\ ~reqR[2] /\ ~reqR[3] /\ ~reqR[4] /\ NoAck
  <2>1. JudgeTime = 0
    BY <1>1 DEF JudgeTime
  <2>2. ReqBy(0)
    BY <1>1, <2>1, Zenon DEF Popped
  <2> QED BY <2>2, ReqLow DEF Tick
<1>4. /\ ~wrNeedTemp /\ ~wrNeedPipe[1] /\ ~wrNeedPipe[2] /\ ~wrNeedPipe[3] /\ ~wrNeedR
      /\ ~wrFinish /\ ~wrFinishR[1] /\ ~wrFinishR[2]
  <2>1. IdleTime = 0
    BY <1>1 DEF IdleTime
  <2>2. NeedBy(IdleTime)
    BY Zenon DEF LoopIInv, Needs
  <2>3. NeedBy(0)
    BY <2>1, <2>2, Zenon
  <2> QED BY <2>3, NeedLow DEF Tick
<1>5. RetLow
  <2>1. AnswerTime = 0
    BY <1>2, SMT DEF AnswerTime, Pre
  <2>2. RetBy(AnswerTime)
    BY Zenon DEF LoopIInv, Answers
  <2>3. RetBy(0)
    BY <2>1, <2>2, Zenon
  <2> QED BY <2>3, RetIsLow DEF Tick
<1>6. ctl' = "ready"
  <2>1. CASE a
    BY <1>1, <1>3, <1>4, <2>1, CtlMoves
  <2>2. CASE ~a
    BY <1>1, <2>2, CtlMoves DEF Tick
  <2> QED BY <2>1, <2>2
<1>7. NoHead' /\ headNeedR' /\ ~loadHead'
  <2>1. NoHead /\ ~loadHead /\ ctl # "head_rd" /\ state # "load_head"
    BY <1>1, Zenon DEF Popped
  <2> QED BY <1>1, <2>1, NoHeadStays
<1>8. /\ req' /\ NoAck' /\ ~reqR'[1] /\ ~reqR'[2] /\ ~reqR'[3] /\ ~reqR'[4]
  <2>1. ~ack /\ ~ackR[1] /\ ~ackR[2]
    BY <1>3 DEF NoAck
  <2>2. req' /\ ~ackR'[1] /\ ~ackR'[2]
    BY <2>1, ReqMoves
  <2>3. ~ack' /\ ~reqR'[1] /\ ~reqR'[2] /\ ~reqR'[3] /\ ~reqR'[4]
    <3>1. CASE a
      BY <1>3, <2>1, <3>1, ReqMoves
    <3>2. CASE ~a
      BY <1>3, <2>1, <3>2, ReqMoves DEF Tick
    <3> QED BY <3>1, <3>2
  <2> QED BY <2>2, <2>3, Zenon DEF NoAck
<1>9. ReqUp'
  BY <1>8, Zenon DEF ReqUp
<1>10. ps' # "start"
  BY <1>2, PsOnWay
<1>11. ASSUME ~ReturnAxi PROVE state' = "start" /\ Wanted'
  <2>1. state' = "start"
    BY <1>11, StateMoves
  <2>2. beginFlag'
    <3>1. ~algReqR[2]
      BY <1>2, AlgSettled DEF Tick
    <3>2. beginFlag
      <4>1. ~Rest
        BY DEF Rest
      <4> QED BY <1>2, <4>1, Zenon DEF LoopIInv, Algs
    <3>3. CASE a
      BY <3>1, <3>2, <3>3, AlgMoves
    <3>4. CASE ~a
      BY <3>2, <3>4, AlgMoves DEF Tick
    <3> QED BY <3>3, <3>4
  <2>3. AskTime' + 16 <= KernelTime'
    <3>1. PICK na \in Int, nd \in Int, na1 \in Int, nd1 \in Int, dt \in Int :
            Clock(na, nd, na1, nd1, dt) /\ Beat(a, d, na, nd, na1, nd1, dt)
      BY Clocks
    <3>2. KernelTime' = 4 * HeadDelay + 12
      BY <2>1, KernelTimePasses DEF Pre
    <3>3. AskCount' = 6 + HeadLatency
      <4>1. Missing' = 4
        BY <1>8, SMT DEF Missing
      <4>2. AskCount' = Missing' + 2 + HeadLatency + 0
        BY <1>6, <2>2, Zenon DEF AskCount
      <4> QED BY <4>1, <4>2, Numbers, SMT
    <3>4. AskTime' = na1 + 5 * ((6 + HeadLatency) - 1)
      <4>1. AskTime' = A(AskCount)'
        BY Zenon DEF AskTime, AskCount
      <4> QED BY <3>1, <3>3, <4>1, Zenon DEF A, Clock
    <3>5. na1 + 5 * ((6 + HeadLatency) - 1) + 16 <= 4 * HeadDelay + 12
      BY <3>1, Numbers, SMT DEF Beat
    <3> QED BY <3>2, <3>4, <3>5, Zenon
  <2>4. ~Unmade'
    BY <1>10, Zenon DEF Unmade
  <2> QED BY <1>6, <1>7, <1>9, <2>1, <2>2, <2>3, <2>4, Zenon DEF Wanted
<1>12. ASSUME ReturnAxi PROVE state' = "send_image" /\ SendBefore'
  <2>1. state' = "send_image"
    BY <1>12, StateMoves
  <2>2. /\ ~wrFinishR'[1] /\ ~wrFinishR'[2] /\ wrNeedTemp' /\ ~wrFinish'
    <3>1. CASE a
      BY <1>1, <1>4, <1>12, <3>1, NeedMoves
    <3>2. CASE ~a
      BY <1>4, <1>12, <3>2, NeedMoves DEF Tick
    <3> QED BY <3>1, <3>2
  <2>3. ~wrNeedPipe'[1] /\ ~wrNeedPipe'[2] /\ ~wrNeedPipe'[3] /\ ~wrNeedR'
    <3>1. CASE a
      BY <1>4, <3>1, NeedMoves
    <3>2. CASE ~a
      BY <1>4, <3>2, NeedMoves DEF Tick
    <3> QED BY <3>1, <3>2
  <2>4. RetLow'
    <3>1. /\ ~retFlag /\ ~flagR[1] /\ ~flagR[2] /\ ~retReady /\ ~readyTemp[1] /\ ~readyTemp[2]
          /\ ~retReadyR[1] /\ ~retReadyR[2] /\ ~wrFinish
      BY <1>5, RetShapes, Zenon DEF RetLow
    <3>2. ~retFlag' /\ ~retReadyR'[1] /\ ~retReadyR'[2]
      <4>1. CASE a
        BY <3>1, <4>1, RetMoves
      <4>2. CASE ~a
        BY <3>1, <4>2, RetMoves DEF Tick
      <4> QED BY <4>1, <4>2
    <3>3. ~flagR'[1] /\ ~flagR'[2] /\ ~retReady' /\ ~readyTemp'[1] /\ ~readyTemp'[2]
      BY <3>1, RetMoves
    <3> QED BY <2>2, <3>2, <3>3, RetShapes, Zenon DEF RetLow
  <2>5. mapsDone' = (mapsWritten' + 1) % 4
    <3>1. mapsDone = mapsWritten
      BY Zenon DEF LoopIInv, Needs
    <3>2. mapsDone' = (mapsDone + 1) % 4 /\ mapsWritten' = mapsWritten
      BY <1>1, <1>12, MapMoves
    <3> QED BY <3>1, <3>2
  <2>6. ctl' # "image_wr"
    BY <1>6
  <2> QED BY <1>6, <1>8, <2>1, <2>2, <2>3, <2>4, <2>5, <2>6, Zenon DEF SendBefore
<1> QED BY <1>6, <1>7, <1>9, <1>11, <1>12

(* While the map is being sent, the request of the next head stands. *)
LEMMA SendingStays ==
  ASSUME LoopIInv, NEW a, NEW d, NEW done, NEW k, NEW i, NEW m,
         Tick(a, d), Step(a, d, done, k, i, m), state \in {"send_image", "end"}
  PROVE  Sending'
<1>1. ~AtRest /\ state # "load_head"
  BY DEF AtRest, Rest
<1>2. Sending /\ (ctl = "ready" => ~reqR[4]) /\ ctl # "head_rd"
  <2>1. CASE state = "send_image"
    <3>1. Sending /\ (SendBefore \/ SendAfter)
      BY <2>1, Zenon DEF LoopIInv, Rounds
    <3>2. CASE SendBefore
      BY <3>1, <3>2 DEF SendBefore
    <3>3. CASE SendAfter
      BY <3>1, <3>3 DEF SendAfter
    <3> QED BY <3>1, <3>2, <3>3
  <2>2. CASE state = "end"
    <3>1. Sending /\ ctl \in {"end", "wait"}
      BY <2>2, Zenon DEF LoopIInv, Rounds
    <3> QED BY <3>1
  <2> QED BY <2>1, <2>2
<1>3. NoHead /\ headNeedR /\ ReqUp /\ ~loadHead
  BY <1>2, Zenon DEF Sending
<1>4. ReqUp'
  <2>1. d => ~algReqR[2]
    BY <1>1, AlgSettled DEF Tick
  <2> QED BY <1>2, <1>3, <2>1, ReqUpStays
<1>5. NoHead' /\ headNeedR' /\ ~loadHead'
  BY <1>1, <1>2, <1>3, NoHeadStays
<1> QED BY <1>4, <1>5, Zenon DEF Sending

(* The write of the map is made once ... *)
LEMMA SendBeforeStays ==
  ASSUME LoopIInv, NEW a, NEW d, NEW done, NEW k, NEW i, NEW m,
         Tick(a, d), Step(a, d, done, k, i, m), state = "send_image", SendBefore
  PROVE  SendBefore' \/ SendAfter'
<1>1. /\ ctl \in {"ready", "image_wr"} /\ RetLow /\ wrNeedTemp
      /\ ~wrFinishR[1] /\ ~wrFinishR[2] /\ mapsDone = (mapsWritten + 1) % 4
  BY Zenon DEF SendBefore
<1>2. /\ ~retFlag /\ ~flagR[1] /\ ~flagR[2] /\ ~retReady /\ ~readyTemp[1] /\ ~readyTemp[2]
      /\ ~retReadyR[1] /\ ~retReadyR[2] /\ ~wrFinish
  BY <1>1, RetShapes, Zenon DEF RetLow
<1>3. RetUp(0)' /\ ~retReadyR'[1] /\ ~retReadyR'[2]
  <2>1. ~retFlag' /\ ~retReadyR'[1] /\ ~retReadyR'[2]
    <3>1. CASE a
      BY <1>2, <3>1, RetMoves
    <3>2. CASE ~a
      BY <1>2, <3>2, RetMoves DEF Tick
    <3> QED BY <3>1, <3>2
  <2>2. ~flagR'[1] /\ ~flagR'[2] /\ ~retReady' /\ ~readyTemp'[1] /\ ~readyTemp'[2]
    <3>1. CASE d
      BY <1>2, <3>1, RetMoves
    <3>2. CASE ~d
      BY <1>2, <3>2, RetMoves DEF Tick
    <3> QED BY <3>1, <3>2
  <2> QED BY <2>1, <2>2, RetShapes, Zenon
<1>4. ~wrFinishR'[1] /\ ~wrFinishR'[2] /\ wrNeedTemp'
  <2>1. CASE d
    BY <1>1, <1>2, <2>1, NeedMoves
  <2>2. CASE ~d
    BY <1>1, <1>2, <2>2, NeedMoves DEF Tick
  <2> QED BY <2>1, <2>2
<1>5. mapsDone' = mapsDone
  BY MapMoves, StateMoves
<1>6. Sending
  BY Zenon DEF LoopIInv, Rounds
<1>7. ReqUp
  BY <1>6, Zenon DEF Sending
<1>8. ASSUME a, ctl = "ready" PROVE SendBefore'
  <2>1. /\ ~reqR[4] /\ ~wrNeedR /\ (wrNeedPipe[1] <=> reqR[1])
        /\ (wrNeedPipe[2] <=> reqR[2]) /\ (wrNeedPipe[3] <=> reqR[3])
    BY <1>8, Zenon DEF SendBefore
  <2>2. /\ req /\ (reqR[3] => reqR[2]) /\ (reqR[2] => reqR[1])
    BY <1>7, Zenon DEF ReqUp
  <2>3. ctl' = IF wrNeedPipe[3] THEN "image_wr" ELSE "ready"
    BY <1>8, <2>1, CtlMoves
  <2>4. /\ (wrNeedPipe'[1] <=> wrNeedTemp) /\ (wrNeedPipe'[2] <=> wrNeedPipe[1])
        /\ (wrNeedPipe'[3] <=> wrNeedPipe[2]) /\ (wrNeedR' <=> wrNeedPipe[3])
        /\ ~wrFinish'
    BY <1>8, NeedMoves
  <2>5. /\ (reqR'[1] <=> req) /\ (reqR'[2] <=> reqR[1]) /\ (reqR'[3] <=> reqR[2])
        /\ (reqR'[4] <=> reqR[3])
    BY <1>8, ReqMoves
  <2>6. ctl' \in {"ready", "image_wr"}
    BY <2>3
  <2>7. ctl' = "ready" => /\ ~reqR'[4] /\ ~wrNeedR'
                          /\ (wrNeedPipe'[1] <=> reqR'[1]) /\ (wrNeedPipe'[2] <=> reqR'[2])
                          /\ (wrNeedPipe'[3] <=> reqR'[3])
    BY <1>1, <2>1, <2>2, <2>3, <2>4, <2>5
  <2>8. ctl' = "image_wr" => wrNeedPipe'[1] /\ wrNeedPipe'[2] /\ wrNeedPipe'[3]
    BY <1>1, <2>1, <2>2, <2>3, <2>4, <2>5
  <2>9. RetLow'
    BY <1>3, <2>4, Zenon DEF RetLow
  <2>10. mapsWritten' = mapsWritten
    BY <1>8, MapMoves
  <2>11. mapsDone' = (mapsWritten' + 1) % 4
    BY <1>1, <1>5, <2>10
  <2> QED BY <1>4, <2>6, <2>7, <2>8, <2>9, <2>11, Zenon DEF SendBefore
<1>9. ASSUME a, ctl = "image_wr", ~done PROVE SendBefore'
  <2>1. wrNeedPipe[1] /\ wrNeedPipe[2] /\ wrNeedPipe[3]
    BY <1>9, Zenon DEF SendBefore
  <2>2. done = FALSE
    BY <1>9 DEF Step
  <2>3. ctl' = "image_wr"
    BY <1>9, <2>2, CtlMoves
  <2>4. /\ (wrNeedPipe'[1] <=> wrNeedTemp) /\ (wrNeedPipe'[2] <=> wrNeedPipe[1])
        /\ (wrNeedPipe'[3] <=> wrNeedPipe[2]) /\ ~wrFinish'
    BY <1>9, <2>2, NeedMoves
  <2>5. RetLow'
    BY <1>3, <2>4, Zenon DEF RetLow
  <2>6. mapsWritten' = mapsWritten
    BY <2>2, MapMoves
  <2>7. mapsDone' = (mapsWritten' + 1) % 4
    BY <1>1, <1>5, <2>6
  <2>8. ctl' \in {"ready", "image_wr"} /\ ctl' # "ready"
    BY <2>3
  <2> QED BY <1>1, <1>4, <2>1, <2>4, <2>5, <2>7, <2>8, Zenon DEF SendBefore
<1>10. ASSUME a, ctl = "image_wr", done PROVE SendAfter'
  <2>1. ctl' = "end"
    BY <1>10, DataMoves
  <2>2. wrFinish'
    BY <1>10, NeedMoves
  <2>3. mapsWritten' = (mapsWritten + 1) % 4
    BY <1>10, MapMoves
  <2>4. mapsDone' = mapsWritten'
    BY <1>1, <1>5, <2>3
  <2>5. PICK na \in Int, nd \in Int, na1 \in Int, nd1 \in Int, dt \in Int :
          Clock(na, nd, na1, nd1, dt) /\ Beat(a, d, na, nd, na1, nd1, dt)
    BY Clocks
  <2>6. IdleTime' = na1 + 5 * (17 - 1)
    <3>1. IdleTime' = A(17)'
      BY <2>1, Zenon DEF IdleTime
    <3> QED BY <2>5, <3>1, Zenon DEF A, Clock
  <2>7. na1 = 5
    BY <1>10, <2>5, SMT DEF Beat
  <2>8. A(1)' = na1 + 5 * (1 - 1)
    BY <2>5, Zenon DEF A, Clock
  <2>9. A(1)' + 20 <= IdleTime' - 23
    BY <2>6, <2>7, <2>8, SMT
  <2>10. ~retReady'
    BY <1>3, RetShapes
  <2>11. RetRises(IdleTime - 23)'
    BY <1>3, <2>2, <2>9, <2>10, Zenon DEF RetRises
  <2>12. ctl' \in {"end", "wait"}
    BY <2>1
  <2> QED BY <2>4, <2>11, <2>12, Zenon DEF SendAfter
<1>11. ASSUME ~a PROVE SendBefore'
  <2>1. ctl' = ctl
    BY <1>11, CtlMoves DEF Tick
  <2>2. /\ (wrNeedPipe'[1] <=> wrNeedPipe[1]) /\ (wrNeedPipe'[2] <=> wrNeedPipe[2])
        /\ (wrNeedPipe'[3] <=> wrNeedPipe[3]) /\ (wrNeedR' <=> wrNeedR)
        /\ (wrFinish' <=> wrFinish)
    BY <1>11, NeedMoves DEF Tick
  <2>3. /\ (reqR'[1] <=> reqR[1]) /\ (reqR'[2] <=> reqR[2])
        /\ (reqR'[3] <=> reqR[3]) /\ (reqR'[4] <=> reqR[4])
    BY <1>11, ReqMoves DEF Tick
  <2>4. mapsWritten' = mapsWritten
    BY <1>11, MapMoves DEF Tick
  <2>5. mapsDone' = (mapsWritten' + 1) % 4
    BY <1>1, <1>5, <2>4
  <2>6. RetLow'
    BY <1>2, <1>3, <2>2, Zenon DEF RetLow
  <2>7. /\ ctl = "ready" => /\ ~reqR[4] /\ ~wrNeedR
                            /\ (wrNeedPipe[1] <=> reqR[1]) /\ (wrNeedPipe[2] <=> reqR[2])
                            /\ (wrNeedPipe[3] <=> reqR[3])
        /\ ctl = "image_wr" => wrNeedPipe[1] /\ wrNeedPipe[2] /\ wrNeedPipe[3]
    BY Zenon DEF SendBefore
  <2>8. /\ ctl' = "ready" => /\ ~reqR'[4] /\ ~wrNeedR'
                            /\ (wrNeedPipe'[1] <=> reqR'[1]) /\ (wrNeedPipe'[2] <=> reqR'[2])
                            /\ (wrNeedPipe'[3] <=> reqR'[3])
        /\ ctl' = "image_wr" => wrNeedPipe'[1] /\ wrNeedPipe'[2] /\ wrNeedPipe'[3]
    BY <2>1, <2>2, <2>3, <2>7
  <2> QED BY <1>1, <1>4, <2>1, <2>5, <2>6, <2>8, Zenon DEF SendBefore
<1>12. a \in BOOLEAN /\ done \in BOOLEAN
  BY Zenon DEF Tick, Step
<1> QED BY <1>1, <1>8, <1>9, <1>10, <1>11, <1>12

(* The wait after an operation does not end before its time. *)
LEMMA IdleWaits ==
  ASSUME LoopIInv, NEW a, NEW d, NEW done, NEW k, NEW i, NEW m,
         Tick(a, d), Step(a, d, done, k, i, m), ctl \in {"end", "wait"},
         IdleTime > 5
  PROVE  ctl' \in {"end", "wait"}
<1>1. CASE a
  <2>1. CASE ctl = "end"
    BY <1>1, <2>1, CtlMoves
  <2>2. CASE ctl = "wait"
    <3>1. waitCnt # 15
      <4> SUFFICES ASSUME waitCnt = 15 PROVE FALSE
        OBVIOUS
      <4>1. IdleTime = A(16 - waitCnt)
        BY <2>2, Zenon DEF IdleTime
      <4>2. A(16 - waitCnt) = NextAxi
        <5>1. 16 - waitCnt = 1
          BY SMT
        <5>2. A(1) = NextAxi + 5 * (1 - 1)
          BY Zenon DEF A
        <5>3. NextAxi \in 1..5
          BY Zenon DEF Tick
        <5>4. NextAxi + 5 * (1 - 1) = NextAxi
          BY <5>3, SMT
        <5> QED BY <5>1, <5>2, <5>4, Zenon
      <4>3. NextAxi \in 1..5
        BY Zenon DEF Tick
      <4> QED BY <4>1, <4>2, <4>3, SMT
    <3> QED BY <1>1, <2>2, <3>1, CtlMoves
  <2> QED BY <2>1, <2>2
<1>2. CASE ~a
  BY <1>2, CtlMoves DEF Tick
<1> QED BY <1>1, <1>2

(* ... and ends the round before the next request is looked at. *)
LEMMA SendAfterStays ==
  ASSUME LoopIInv, NEW a, NEW d, NEW done, NEW k, NEW i, NEW m,
         Tick(a, d), Step(a, d, done, k, i, m), state = "send_image", SendAfter
  PROVE  /\ d /\ ReadyPos => ctl' \in {"end", "wait"} /\ D(1)' + 19 <= IdleTime'
         /\ ~(d /\ ReadyPos) => SendAfter'
<1>1. ctl \in {"end", "wait"} /\ RetRises(IdleTime - 23) /\ mapsDone = mapsWritten
  BY Zenon DEF SendAfter
<1>2. PICK na \in Int, nd \in Int, na1 \in Int, nd1 \in Int, dt \in Int :
        Clock(na, nd, na1, nd1, dt) /\ Beat(a, d, na, nd, na1, nd1, dt)
  BY Clocks
<1>3. PICK it \in Int, it1 \in Int : it = IdleTime /\ it1 = IdleTime'
  BY NextNumbers, SMT
<1>4. it1 >= it - dt /\ it \in Int /\ it1 \in Int
  <2>1. IdleTime' >= IdleTime - Dt
    BY IdleTimePasses
  <2> QED BY <1>2, <1>3, <2>1, Zenon DEF Clock
<1>5. PICK X \in Int, Y \in Int : X = it - 23 /\ Y = it1 - 23
  BY SMT
<1>6. Y >= X - dt /\ X \in Int /\ Y \in Int
  BY <1>2, <1>4, <1>5, SMT DEF Beat
<1>7. RetRises(X) /\ Y >= X - Dt
  BY <1>1, <1>2, <1>3, <1>5, <1>6, Zenon DEF Clock
<1>8. ctl # "image_wr"
  BY <1>1
<1>9. /\ d /\ ReadyPos => D(1) <= X
      /\ ~(d /\ ReadyPos) => RetRises(Y)'
  BY <1>6, <1>7, <1>8, RetRisesStep
<1>10. X > 0
  <2>1. \/ A(1) + 20 <= X \/ D(5) <= X \/ D(4) <= X \/ D(3) <= X \/ D(2) <= X \/ D(1) <= X
    BY <1>7, Zenon DEF RetRises
  <2>2. \/ na + 5 * (1 - 1) + 20 <= X \/ nd + 4 * (5 - 1) <= X \/ nd + 4 * (4 - 1) <= X
        \/ nd + 4 * (3 - 1) <= X \/ nd + 4 * (2 - 1) <= X \/ nd + 4 * (1 - 1) <= X
    BY <1>2, <2>1, Zenon DEF A, D, Clock
  <2> QED BY <1>2, <1>6, <2>2, SMT DEF Beat
<1>11. ctl' \in {"end", "wait"}
  <2>1. it > 5
    BY <1>4, <1>5, <1>10, SMT
  <2>2. IdleTime > 5
    BY <1>3, <2>1, Zenon
  <2> QED BY <1>1, <2>2, IdleWaits
<1>12. ASSUME d, ReadyPos PROVE D(1)' + 19 <= IdleTime'
  <2>1. D(1) <= X
    BY <1>9, <1>12
  <2>2. nd + 4 * (1 - 1) <= X
    BY <1>2, <2>1, Zenon DEF D, Clock
  <2>3. nd1 + 4 * (1 - 1) + 19 <= it1
    BY <1>2, <1>4, <1>5, <1>12, <2>2, SMT DEF Beat
  <2> QED BY <1>2, <1>3, <2>3, Zenon DEF D, Clock
<1>13. ASSUME ~(d /\ ReadyPos) PROVE SendAfter'
  <2>1. RetRises(Y)'
    BY <1>9, <1>13, Zenon DEF Tick, ReadyPos
  <2>2. RetRises(IdleTime - 23)'
    BY <1>3, <1>5, <2>1, Zenon DEF RetRises
  <2>3. mapsDone' = mapsWritten'
    <3>1. mapsDone' = mapsDone
      BY MapMoves, StateMoves
    <3>2. mapsWritten' = mapsWritten
      BY <1>8, MapMoves
    <3> QED BY <1>1, <3>1, <3>2
  <2> QED BY <1>11, <2>2, <2>3, Zenon DEF SendAfter
<1> QED BY <1>11, <1>12, <1>13, Zenon

(* The end of a round that returned a map: the next wants its head, or the
   network is done.                                                        *)
LEMMA EndMoves ==
  ASSUME LoopIInv, NEW a, NEW d, NEW done, NEW k, NEW i, NEW m,
         Tick(a, d), Step(a, d, done, k, i, m), state = "end"
  PROVE  /\ ctl' \in {"end", "wait"}
         /\ state' = "end" => D(1)' + 19 <= IdleTime'
         /\ state' = "start" => Wanted' /\ ~loadHead'
         /\ state' \in {"end", "start", "inter"}
         /\ state' = "inter" => d
<1>1. ctl \in {"end", "wait"} /\ D(1) + 19 <= IdleTime
  BY Zenon DEF LoopIInv, Rounds
<1>2. NoHead' /\ headNeedR' /\ ReqUp' /\ ~loadHead'
  BY SendingStays, Zenon DEF Sending
<1>3. PICK na \in Int, nd \in Int, na1 \in Int, nd1 \in Int, dt \in Int :
        Clock(na, nd, na1, nd1, dt) /\ Beat(a, d, na, nd, na1, nd1, dt)
  BY Clocks
<1>4. PICK it \in Int, it1 \in Int : it = IdleTime /\ it1 = IdleTime'
  BY NextNumbers, SMT
<1>5. it1 >= it - dt /\ it \in Int /\ it1 \in Int /\ nd + 4 * (1 - 1) + 19 <= it
  <2>1. IdleTime' >= IdleTime - Dt
    BY IdleTimePasses
  <2> QED BY <1>1, <1>3, <1>4, <2>1, Zenon DEF Clock, D
<1>6. ctl' \in {"end", "wait"}
  <2>1. it > 5
    BY <1>3, <1>5, SMT DEF Beat
  <2>2. IdleTime > 5
    BY <1>4, <2>1, Zenon
  <2> QED BY <1>1, <2>2, IdleWaits
<1>7. state' \in {"end", "start", "inter"} /\ (d => state' # "end") /\ (~d => state' = "end")
  <2>1. CASE d
    BY <2>1, StateMoves
  <2>2. CASE ~d
    BY <2>2, StateMoves DEF Tick
  <2> QED BY <2>1, <2>2
<1>8. ASSUME state' = "end" PROVE D(1)' + 19 <= IdleTime'
  <2>1. ~d
    BY <1>7, <1>8
  <2>2. nd1 + 4 * (1 - 1) + 19 <= it1
    BY <1>3, <1>5, <2>1, SMT DEF Beat
  <2> QED BY <1>3, <1>4, <2>2, Zenon DEF Clock, D
<1>9. ASSUME state' = "start" PROVE Wanted'
  <2>1. ~AtRest /\ ~Rest /\ ps # "start"
    <3>1. ps = "start" => state = "idle" \/ state \in Pre
      BY Zenon DEF LoopIInv, Begins
    <3> QED BY <3>1 DEF AtRest, Rest, Pre
  <2>2. ps' # "start"
    BY <2>1, PsOnWay
  <2>3. beginFlag'
    <3>1. ~algReqR[2]
      BY <2>1, AlgSettled DEF Tick
    <3>2. beginFlag
      BY <2>1, Zenon DEF LoopIInv, Algs
    <3>3. CASE a
      BY <3>1, <3>2, <3>3, AlgMoves
    <3>4. CASE ~a
      BY <3>2, <3>4, AlgMoves DEF Tick
    <3> QED BY <3>3, <3>4
  <2>4. AskTime' + 16 <= KernelTime'
    <3>1. KernelTime' = 4 * HeadDelay + 12
      BY <1>9, KernelTimePasses DEF Pre
    <3>2. PICK c \in Int : c = AskCount' /\ c <= 24 + HeadLatency
      <4>1. CASE ctl' = "end"
        <5>1. AskCount' = 24 + HeadLatency + 0
          BY <2>3, <4>1, Zenon DEF AskCount
        <5> QED BY <5>1, Numbers, SMT
      <4>2. CASE ctl' = "wait"
        <5>1. AskCount' = 23 - waitCnt' + HeadLatency + 0
          BY <2>3, <4>2, Zenon DEF AskCount
        <5>2. waitCnt' \in Nat
          <6>1. waitCnt \in 0..15
            BY Ranges
          <6>2. waitCnt' \in {waitCnt, waitCnt + 1, 0}
            <7>1. CASE a
              BY <7>1, CtlMoves
            <7>2. CASE ~a
              BY <7>2, CtlMoves DEF Tick
            <7> QED BY <7>1, <7>2
          <6> QED BY <6>1, <6>2, SMT
        <5>3. PICK w \in Nat : w = waitCnt'
          BY <5>2
        <5>4. w \in Nat /\ AskCount' = 23 - w + HeadLatency + 0
          BY <5>1, <5>3, Zenon
        <5> QED BY <5>4, Numbers, SMT
      <4> QED BY <1>6, <4>1, <4>2
    <3>3. AskTime' = na1 + 5 * (c - 1)
      <4>1. AskTime' = A(AskCount)'
        BY Zenon DEF AskTime, AskCount
      <4> QED BY <1>3, <3>2, <4>1, Zenon DEF A, Clock
    <3>4. c \in Int /\ c <= 24 + HeadLatency
      BY <3>2, Zenon
    <3>5. na1 + 5 * (c - 1) + 16 <= 4 * HeadDelay + 12
      BY <1>3, <3>4, Numbers, SMT DEF Beat
    <3> QED BY <3>1, <3>3, <3>5, Zenon
  <2>5. ~Unmade'
    BY <2>2, Zenon DEF Unmade
  <2>6. ctl' \in {"end", "wait", "idle", "ready"} /\ state' # "wait_add_zero"
    BY <1>6, <1>9
  <2> QED BY <1>2, <2>3, <2>4, <2>5, <2>6, Zenon DEF Wanted
<1> QED BY <1>2, <1>6, <1>7, <1>8, <1>9, Zenon DEF Tick

(* The kernels are not loaded while the head is asked for or on its way. *)
LEMMA HeadTimes ==
  ASSUME LoopIInv, NEW a, NEW d, NEW done, NEW k, NEW i, NEW m,
         Tick(a, d), Step(a, d, done, k, i, m), OnWay, Wanted \/ Reading \/ Arrived
  PROVE  KernelTime # Dt
<1>1. PICK na \in Int, nd \in Int, na1 \in Int, nd1 \in Int, dt \in Int :
        Clock(na, nd, na1, nd1, dt) /\ Beat(a, d, na, nd, na1, nd1, dt)
  BY Clocks
<1>2. PICK kt \in Int : kt = KernelTime
  BY NextNumbers, SMT
<1>3. CASE Wanted
  BY <1>3, WantedTimes
<1>4. CASE Reading
  <2>1. PICK l \in 0..HeadLatency : l = latency
    BY Ranges
  <2>2. A(HeadLatency + 1 - latency) + 16 <= KernelTime
    BY <1>4, Zenon DEF Reading
  <2>3. na + 5 * ((HeadLatency + 1 - l) - 1) + 16 <= kt
    BY <1>1, <1>2, <2>1, <2>2, Zenon DEF A, Clock
  <2>4. l \in Int /\ l <= HeadLatency /\ kt \in Int
    BY <1>2, <2>1, Numbers, SMT
  <2>5. kt # dt
    BY <1>1, <2>3, <2>4, Numbers, SMT DEF Beat
  <2> QED BY <1>1, <1>2, <2>5, Zenon DEF Clock
<1>5. CASE Arrived
  <2>1. /\ headSeen = headPops => D(2) + 5 <= KernelTime
        /\ headSeen # headPops => D(1) + 5 <= KernelTime
    BY <1>5, Zenon DEF Arrived
  <2>2. /\ headSeen = headPops => nd + 4 * (2 - 1) + 5 <= kt
        /\ headSeen # headPops => nd + 4 * (1 - 1) + 5 <= kt
    BY <1>1, <1>2, <2>1, Zenon DEF D, Clock
  <2>3. kt \in Int
    BY <1>2, Zenon
  <2>4. kt # dt
    BY <1>1, <2>2, <2>3, SMT DEF Beat
  <2> QED BY <1>1, <1>2, <2>4, Zenon DEF Clock
<1> QED BY <1>3, <1>4, <1>5

(* Nothing is read before the start has reached the compute side. *)
LEMMA IdleReadsNot ==
  ASSUME LoopIInv, NEW a, NEW d, Tick(a, d), state = "idle", ps = "start"
  PROVE  ctl # "ready"
<1> SUFFICES ASSUME ctl = "ready" PROVE FALSE
  OBVIOUS
<1>1. psCnt \in Int /\ psCnt > 3
  <2>1. psCnt \in 0..StartCycles
    BY Ranges
  <2>2. ~(psCnt <= 3)
    BY Zenon DEF LoopIInv, Banks
  <2> QED BY <2>1, <2>2, Numbers, SMT
<1>2. /\ psCnt >= 1 /\ ~beginR[1] => D(3) <= A(4 - psCnt)
      /\ beginR[1] /\ ~beginR[2] => D(2) <= A(4 - psCnt)
      /\ beginR[2] /\ ~beginR[3] => D(1) <= A(4 - psCnt)
      /\ ~beginR[3]
  BY Zenon DEF LoopIInv, Begins
<1>3. D(3) <= A(4 - psCnt) \/ D(2) <= A(4 - psCnt) \/ D(1) <= A(4 - psCnt)
  <2>1. psCnt >= 1
    BY <1>1, SMT
  <2> QED BY <1>2, <2>1
<1>4. PICK na \in Int, nd \in Int, na1 \in Int, nd1 \in Int, dt \in Int :
        Clock(na, nd, na1, nd1, dt) /\ Beat(a, d, na, nd, na1, nd1, dt)
  BY Clocks
<1>5. PICK p \in Int : p = psCnt /\ p > 3
  BY <1>1
<1>6. p \in Int /\ p > 3
  BY <1>5, Zenon
<1>7. \/ nd + 4 * (3 - 1) <= na + 5 * ((4 - p) - 1)
      \/ nd + 4 * (2 - 1) <= na + 5 * ((4 - p) - 1)
      \/ nd + 4 * (1 - 1) <= na + 5 * ((4 - p) - 1)
  BY <1>3, <1>4, <1>5, Zenon DEF A, D, Clock
<1> QED BY <1>4, <1>6, <1>7, SMT DEF Beat

(* A round on its way to its kernels: wanted, being read, arrived, taken. *)
LEMMA HeadStep ==
  ASSUME LoopIInv, NEW a, NEW d, NEW done, NEW k, NEW i, NEW m,
         Tick(a, d), Step(a, d, done, k, i, m), state \in Pre,
         Wanted \/ Reading \/ Arrived, NotYet
  PROVE  /\ state' \in Pre
         /\ \/ (Wanted' \/ Reading' \/ Arrived') /\ NotYet'
            \/ state' = "wait_add_zero" /\ Popped' /\ A(1)' <= KernelTime'
<1>1. OnWay
  BY DEF OnWay
<1>2. state' \in Pre
  <2>1. KernelTime # Dt
    BY <1>1, HeadTimes
  <2>2. state' \in Pre \cup {"idle"} /\ (state' = "idle" => state = "idle")
    BY <1>1, <2>1, KernelWaits
  <2> QED BY <2>2 DEF Pre
<1>3. CASE Wanted
  <2>1. CASE a /\ ctl = "ready" /\ reqR[4]
    BY <1>1, <1>2, <1>3, <2>1, WantedRead
  <2>2. CASE ~(a /\ ctl = "ready" /\ reqR[4])
    BY <1>1, <1>2, <1>3, <2>2, WantedStays
  <2> QED BY <2>1, <2>2
<1>4. CASE Reading
  BY <1>2, <1>4, ReadingStays
<1>5. CASE Arrived
  BY <1>2, <1>5, ArrivedStays
<1> QED BY <1>2, <1>3, <1>4, <1>5

(* The first round of an image wants its head from the start. *)
LEMMA IdleStep ==
  ASSUME LoopIInv, NEW a, NEW d, NEW done, NEW k, NEW i, NEW m,
         Tick(a, d), Step(a, d, done, k, i, m), state = "idle", ps = "start"
  PROVE  Wanted' /\ NotYet'
<1>1. OnWay
  BY DEF OnWay
<1>2. Wanted /\ NotYet
  BY Zenon DEF LoopIInv, Rounds, NotYet
<1>3. ~(a /\ ctl = "ready" /\ reqR[4])
  BY IdleReadsNot
<1> QED BY <1>1, <1>2, <1>3, WantedStays

(* Rounds, for a round on its way. *)
LEMMA HeadParts ==
  ASSUME LoopIInv, state \in Pre
  PROVE  \/ (Wanted \/ Reading \/ Arrived) /\ NotYet
         \/ state = "wait_add_zero" /\ Popped /\ (headNeedR \/ A(1) <= KernelTime)
<1>1. CASE state \in {"start", "load_head"}
  BY <1>1, Zenon DEF LoopIInv, Rounds, NotYet
<1>2. CASE state = "wait_add_zero"
  <2>1. NotYet
    BY <1>2 DEF NotYet
  <2> QED BY <1>2, <2>1, Zenon DEF LoopIInv, Rounds
<1> QED BY <1>1, <1>2 DEF Pre

(* Where a state comes from. *)
LEMMA StateFrom ==
  ASSUME LoopIInv, NEW a, NEW d, NEW done, NEW k, NEW i, NEW m,
         Tick(a, d), Step(a, d, done, k, i, m)
  PROVE  /\ state' = "idle" /\ ps = "start" => state = "idle"
         /\ state' = "start" => \/ state \in {"idle", "start", "end"}
                                \/ state = "deal_image" /\ d /\ m /\ ~ReturnAxi
         /\ state' = "start" /\ state = "idle" => ps = "start"
         /\ state' = "load_head" => state \in {"start", "load_head"}
         /\ state' = "wait_add_zero" => state \in {"load_head", "wait_add_zero"}
         /\ state' \in {"load_kernel", "load_image", "deal_image"} =>
              /\ state \in {"wait_add_zero", "load_kernel", "load_image", "deal_image"}
              /\ ~(d /\ m)
         /\ state' = "send_image" => \/ state = "send_image" /\ ~(d /\ ReadyPos)
                                     \/ state = "deal_image" /\ d /\ m /\ ReturnAxi
         /\ state' = "end" => \/ state = "end"
                              \/ state = "send_image" /\ d /\ ReadyPos
<1>1. state \in {"idle", "start", "load_head", "wait_add_zero", "load_kernel", "load_image",
                 "deal_image", "send_image", "end", "inter"}
  BY Ranges DEF States
<1>2. ps = "start" => state \in {"idle", "start", "load_head", "wait_add_zero"}
  <2>1. ps = "start" => state = "idle" \/ state \in Pre
    BY Zenon DEF LoopIInv, Begins
  <2> QED BY <2>1 DEF Pre
<1>3. BeginInter => ps = "start"
  BY PulsesAsked, Zenon DEF LoopIInv, LoopTypeOK, Tick
<1>4. BeginInter \in BOOLEAN /\ ReadyPos \in BOOLEAN /\ ReturnAxi \in BOOLEAN
      /\ AlgorithmFinishTemp \in BOOLEAN /\ d \in BOOLEAN
  BY Zenon DEF BeginInter, ReadyPos, ReturnAxi, AlgorithmFinishTemp, Tick
<1>5. k \in BOOLEAN /\ i \in BOOLEAN /\ m \in BOOLEAN
  BY Zenon DEF Step
<1>6. CASE d
  BY <1>1, <1>2, <1>3, <1>4, <1>5, <1>6, StateMoves
<1>7. CASE ~d
  <2>1. state' = state
    BY <1>7, StateMoves, <1>4
  <2>2. ~(d /\ m)
    BY <1>7
  <2>3. state = "idle" => state' # "start"
    BY <2>1
  <2> QED BY <1>1, <1>2, <1>7, <2>1, <2>2, <2>3
<1> QED BY <1>6, <1>7

(* While a round is computed its head has been taken and no other asked for. *)
LEMMA ComputingStays ==
  ASSUME LoopIInv, NEW a, NEW d, NEW done, NEW k, NEW i, NEW m,
         Tick(a, d), Step(a, d, done, k, i, m),
         state' \in {"wait_add_zero", "load_kernel", "load_image", "deal_image"},
         state \in {"load_kernel", "load_image", "deal_image"}
  PROVE  Popped' /\ headNeedR'
<1>1. ~(d /\ m) /\ state' # "wait_add_zero"
  BY StateFrom
<1>2. Popped /\ headNeedR
  BY Zenon DEF LoopIInv, Rounds
<1>3. state # "wait_add_zero"
  BY SMT
<1> QED BY <1>1, <1>2, <1>3, PoppedStays

(* Rounds is kept. *)
LEMMA RoundsStep ==
  ASSUME LoopIInv, NEW a, NEW d, NEW done, NEW k, NEW i, NEW m,
         Tick(a, d), Step(a, d, done, k, i, m)
  PROVE  Rounds'
<1>1. AtRest' => /\ ctl' \in {"end", "wait", "idle"} /\ NoHead' /\ ~loadHead'
                 /\ req' => /\ ReqUp' /\ ~algAck' /\ (algorithmFinish' \/ algReq')
                            /\ algReqR'[2] => NextDeal' < NextAxi'
                 /\ ~req' => NoAck' /\ ReqFalls(BeginTime)'
  <2>1. AtRest' => RestRound'
    BY RestRoundStep
  <2> QED BY <2>1, Zenon DEF RestRound
<1>2. state' = "idle" /\ ps' = "start" => Wanted' /\ ~loadHead'
  <2> SUFFICES ASSUME state' = "idle", ps' = "start" PROVE Wanted' /\ ~loadHead'
    OBVIOUS
  <2>1. CASE ps # "start"
    BY <2>1, GapEnds
  <2>2. CASE ps = "start"
    <3>1. state = "idle"
      BY <2>2, StateFrom
    <3>2. Wanted' /\ NotYet'
      BY <2>2, <3>1, IdleStep
    <3>3. state' # "wait_add_zero"
      BY SMT
    <3> QED BY <3>2, <3>3, Zenon DEF NotYet
  <2> QED BY <2>1, <2>2
<1>3. state' \in {"start", "load_head"} => (Wanted' \/ Reading' \/ Arrived') /\ ~loadHead'
  <2> SUFFICES ASSUME state' \in {"start", "load_head"}
               PROVE  (Wanted' \/ Reading' \/ Arrived') /\ ~loadHead'
    OBVIOUS
  <2>1. state' # "wait_add_zero"
    BY SMT
  <2>2. \/ state \in {"start", "load_head"}
        \/ state = "idle" /\ ps = "start"
        \/ state = "end" /\ state' = "start"
        \/ state = "deal_image" /\ d /\ m /\ ~ReturnAxi
    BY StateFrom
  <2>3. CASE state \in {"start", "load_head"}
    <3>1. state \in Pre /\ state # "wait_add_zero"
      BY <2>3 DEF Pre
    <3>2. (Wanted \/ Reading \/ Arrived) /\ NotYet
      BY <3>1, HeadParts
    <3>3. (Wanted' \/ Reading' \/ Arrived') /\ NotYet'
      BY <2>1, <3>1, <3>2, HeadStep
    <3> QED BY <2>1, <3>3, Zenon DEF NotYet
  <2>4. CASE state = "idle" /\ ps = "start"
    <3>1. Wanted' /\ NotYet'
      BY <2>4, IdleStep
    <3> QED BY <2>1, <3>1, Zenon DEF NotYet
  <2>5. CASE state = "end" /\ state' = "start"
    BY <2>5, EndMoves
  <2>6. CASE state = "deal_image" /\ d /\ m /\ ~ReturnAxi
    BY <2>6, RoundEnds
  <2> QED BY <2>2, <2>3, <2>4, <2>5, <2>6
<1>4. state' = "wait_add_zero" =>
        \/ Wanted' \/ Reading' \/ Arrived'
        \/ Popped' /\ (headNeedR' \/ A(1)' <= KernelTime')
  <2> SUFFICES ASSUME state' = "wait_add_zero"
               PROVE  \/ Wanted' \/ Reading' \/ Arrived'
                      \/ Popped' /\ (headNeedR' \/ A(1)' <= KernelTime')
    OBVIOUS
  <2>1. state \in {"load_head", "wait_add_zero"}
    BY StateFrom
  <2>2. state \in Pre
    BY <2>1 DEF Pre
  <2>3. CASE (Wanted \/ Reading \/ Arrived) /\ NotYet
    BY <2>2, <2>3, HeadStep
  <2>4. CASE state = "wait_add_zero" /\ Popped /\ (headNeedR \/ A(1) <= KernelTime)
    <3>1. ~(d /\ m)
      BY <2>4, StateMoves
    <3> QED BY <2>4, <3>1, PoppedStays
  <2> QED BY <2>2, <2>3, <2>4, HeadParts
<1>5. state' \in {"load_kernel", "load_image", "deal_image"} => Popped' /\ headNeedR'
  <2> SUFFICES ASSUME state' \in {"load_kernel", "load_image", "deal_image"}
               PROVE  Popped' /\ headNeedR'
    OBVIOUS
  <2>1. /\ state \in {"wait_add_zero", "load_kernel", "load_image", "deal_image"}
        /\ ~(d /\ m) /\ state' # "wait_add_zero"
    BY StateFrom
  <2>2. CASE state = "wait_add_zero"
    <3>1. state \in Pre /\ state' \notin Pre
      BY <2>2 DEF Pre
    <3>2. Popped /\ (headNeedR \/ A(1) <= KernelTime)
      BY <2>2, <3>1, HeadParts, HeadStep
    <3> QED BY <2>1, <2>2, <3>2, PoppedStays
  <2>3. CASE state \in {"load_kernel", "load_image", "deal_image"}
    BY <2>3, ComputingStays
  <2> QED BY <2>1, <2>2, <2>3
<1>6. state' = "send_image" => Sending' /\ (SendBefore' \/ SendAfter')
  <2> SUFFICES ASSUME state' = "send_image" PROVE Sending' /\ (SendBefore' \/ SendAfter')
    OBVIOUS
  <2>1. \/ state = "send_image" /\ ~(d /\ ReadyPos)
        \/ state = "deal_image" /\ d /\ m /\ ReturnAxi
    BY StateFrom
  <2>2. CASE state = "send_image" /\ ~(d /\ ReadyPos)
    <3>1. Sending'
      BY <2>2, SendingStays
    <3>2. SendBefore \/ SendAfter
      BY <2>2, Zenon DEF LoopIInv, Rounds
    <3>3. SendBefore' \/ SendAfter'
      BY <2>2, <3>2, SendBeforeStays, SendAfterStays
    <3> QED BY <3>1, <3>3
  <2>3. CASE state = "deal_image" /\ d /\ m /\ ReturnAxi
    <3>1. NoHead' /\ headNeedR' /\ ReqUp' /\ ~loadHead' /\ SendBefore'
      BY <2>3, RoundEnds
    <3> QED BY <3>1, Zenon DEF Sending
  <2> QED BY <2>1, <2>2, <2>3
<1>7. state' = "end" => Sending' /\ ctl' \in {"end", "wait"} /\ D(1)' + 19 <= IdleTime'
  <2> SUFFICES ASSUME state' = "end"
               PROVE  Sending' /\ ctl' \in {"end", "wait"} /\ D(1)' + 19 <= IdleTime'
    OBVIOUS
  <2>1. \/ state = "end"
        \/ state = "send_image" /\ d /\ ReadyPos
    BY StateFrom, Zenon
  <2>2. Sending'
    BY <2>1, SendingStays
  <2>3. CASE state = "end"
    BY <2>2, <2>3, EndMoves
  <2>4. CASE state = "send_image" /\ d /\ ReadyPos
    <3>1. SendBefore \/ SendAfter
      BY <2>4, Zenon DEF LoopIInv, Rounds
    <3>2. ~SendBefore
      BY <2>4, SendStays
    <3> QED BY <2>2, <2>4, <3>1, <3>2, SendAfterStays
  <2> QED BY <2>1, <2>3, <2>4
<1> QED BY <1>1, <1>2, <1>3, <1>4, <1>5, <1>6, <1>7, Zenon DEF Rounds

-----------------------------------------------------------------------------
(* Layers and banks. *)

(* A step, as the pulse of a layer's end sees it. *)
LEMMA LayerMoves ==
  ASSUME LoopIInv, NEW a, NEW d, NEW done, NEW k, NEW i, NEW m,
         Tick(a, d), Step(a, d, done, k, i, m)
  PROVE  /\ a => (layerR'[1] <=> oneLayerFinish) /\ (layerR'[2] <=> layerR[1])
         /\ ~a => (layerR'[1] <=> layerR[1]) /\ (layerR'[2] <=> layerR[2])
         /\ ~d => /\ (oneLayerFinish' <=> oneLayerFinish)
                  /\ layerState' = layerState /\ layer' = layer /\ state' = state
<1>1. LoopTypeOK
  BY DEF LoopIInv
<1>2. ASSUME a PROVE (layerR'[1] <=> oneLayerFinish) /\ (layerR'[2] <=> layerR[1])
  <2>1. AxiEdge(done)
    BY <1>2 DEF Step
  <2> QED BY <1>1, <2>1, AxiChains
<1>3. ASSUME ~a PROVE (layerR'[1] <=> layerR[1]) /\ (layerR'[2] <=> layerR[2])
  <2>1. layerR' = layerR
    BY <1>3, Zenon DEF Step, axiVars
  <2> QED BY <2>1, Zenon
<1>4. ASSUME ~d PROVE /\ (oneLayerFinish' <=> oneLayerFinish)
                      /\ layerState' = layerState /\ layer' = layer /\ state' = state
  <2>1. oneLayerFinish' = oneLayerFinish /\ layerState' = layerState /\ layer' = layer
        /\ state' = state
    BY <1>4, Zenon DEF Step, dealVars
  <2> QED BY <2>1, Zenon
<1> QED BY <1>2, <1>3, <1>4, Zenon

(* A step, as the banks see it. *)
LEMMA BankMoves ==
  ASSUME LoopIInv, NEW a, NEW d, NEW done, NEW k, NEW i, NEW m,
         Tick(a, d), Step(a, d, done, k, i, m)
  PROVE  /\ base.rd \in 1..2 /\ base.wr \in 1..2 /\ addr.rd \in 1..2 /\ addr.wr \in 1..2
         /\ a => /\ base'.rd = IF beginTemp[2] /\ ~beginTemp[3] THEN 1
                               ELSE IF layerR[1] THEN 3 - base.rd ELSE base.rd
                 /\ base'.wr = IF beginTemp[2] /\ ~beginTemp[3] THEN 2
                               ELSE IF layerR[1] THEN 3 - base.wr ELSE base.wr
                 /\ addr'.rd = IF beginTemp[2] /\ ~beginTemp[3] THEN 1
                               ELSE IF (wrNeedPipe[3] /\ ~wrNeedR) \/ layerR[2]
                                 THEN base.rd ELSE addr.rd
                 /\ addr'.wr = IF posR \/ layerR[2] THEN base.wr ELSE addr.wr
         /\ ~a => base' = base /\ addr' = addr
<1>1. base.rd \in 1..2 /\ base.wr \in 1..2 /\ addr.rd \in 1..2 /\ addr.wr \in 1..2
  <2>1. base \in [{"rd", "wr"} -> 1..2] /\ addr \in [{"rd", "wr"} -> 1..2]
    BY DEF LoopIInv, LoopTypeOK, Transfer!TypeOK
  <2> QED BY <2>1
<1>2. ASSUME a
      PROVE  /\ base'.rd = IF beginTemp[2] /\ ~beginTemp[3] THEN 1
                           ELSE IF layerR[1] THEN 3 - base.rd ELSE base.rd
             /\ base'.wr = IF beginTemp[2] /\ ~beginTemp[3] THEN 2
                           ELSE IF layerR[1] THEN 3 - base.wr ELSE base.wr
             /\ addr'.rd = IF beginTemp[2] /\ ~beginTemp[3] THEN 1
                           ELSE IF (wrNeedPipe[3] /\ ~wrNeedR) \/ layerR[2]
                             THEN base.rd ELSE addr.rd
             /\ addr'.wr = IF posR \/ layerR[2] THEN base.wr ELSE addr.wr
  <2>1. AxiEdge(done)
    BY <1>2 DEF Step
  <2>2. base' = Transfer!BaseNext /\ addr' = Transfer!AddrNext(wrNeedPipe[3])
    BY <2>1, Zenon DEF AxiEdge, Transfer!Clk
  <2>3. base' = IF beginTemp[2] /\ ~beginTemp[3] THEN [rd |-> 1, wr |-> 2]
                ELSE IF layerR[1] THEN [rd |-> 3 - base.rd, wr |-> 3 - base.wr] ELSE base
    BY <2>2, Zenon DEF Transfer!BaseNext, Transfer!BeginPos
  <2>4. addr' = [rd |-> IF beginTemp[2] /\ ~beginTemp[3] THEN 1
                        ELSE IF (wrNeedPipe[3] /\ ~wrNeedR) \/ layerR[2]
                          THEN base.rd ELSE addr.rd,
                 wr |-> IF posR \/ layerR[2] THEN base.wr ELSE addr.wr]
    BY <2>2, Zenon DEF Transfer!AddrNext, Transfer!BeginPos
  <2> QED BY <2>3, <2>4
<1>3. ASSUME ~a PROVE base' = base /\ addr' = addr
  BY <1>3, Zenon DEF Step, axiVars
<1> QED BY <1>1, <1>2, <1>3, Zenon

(* What an edge of deal_clk does to the layer in each state. *)
LEMMA LayMoves ==
  ASSUME LoopIInv, NEW a, NEW d, NEW done, NEW k, NEW i, NEW m,
         Tick(a, d), Step(a, d, done, k, i, m), d
  PROVE  /\ state \notin {"send_image", "end", "inter"} => ~oneLayerFinish' /\ Lay' = Lay
         /\ state = "send_image" => /\ ~oneLayerFinish => ~oneLayerFinish'
                                    /\ Lay' = Lay
         /\ state = "end" /\ state' = "start" => \/ oneLayerFinish' /\ Lay' = Lay + 1
                                                 \/ ~oneLayerFinish' /\ Lay' = Lay
         /\ state = "inter" /\ layerState = "end" =>
              state' = "inter" /\ layerState' # "end" /\ (oneLayerFinish' <=> oneLayerFinish)
         /\ state = "inter" /\ layerState # "end" => ~oneLayerFinish' /\ layerState' # "end"
<1>1. IInv /\ TypeOK /\ Together /\ Edge(BeginInter, k, i, m, ReturnAxi, ReadyPos)
  <2>1. IInv /\ Edge(BeginInter, k, i, m, ReturnAxi, ReadyPos)
    BY StateMoves DEF LoopIInv
  <2> QED BY <2>1 DEF IInv
<1>2. CASE layerState = "count"
  <2>1. state \notin {"idle", "inter"}
    BY <1>1, <1>2, Zenon DEF Together
  <2>2. Lay = layer
    BY <1>2, <2>1, Zenon DEF Lay
  <2>3. ASSUME state' # "idle", layerState' # "start" PROVE Lay' = layer'
    BY <2>3, Zenon DEF Lay
  <2>4. \/ /\ state = "send_image" /\ ReadyPos /\ state' = "end"
           /\ layerState' = "count" /\ layer' = layer /\ oneLayerFinish' = oneLayerFinish
        \/ /\ state = "end" /\ state' = "start" /\ ~ReadyPos /\ convCnt = Returns[layer]
           /\ layerState' = "count" /\ layer' = layer + 1
        \/ state = "end" /\ state' = "inter"
        \/ /\ state = "send_image" => state' = "send_image"
           /\ state = "end" => state' = "start"
           /\ layerState' = "count" /\ layer' = layer /\ oneLayerFinish' = FALSE
    BY <1>1, <1>2, CountSteps, Zenon
  <2>5. ASSUME ~ReadyPos, convCnt = Returns[layer] PROVE oneLayerFinish'
    <3>1. LayerChange
      BY <1>1, <1>2, <2>5, LayerSteps
    <3> QED BY <3>1, Zenon DEF LayerChange
  <2>6. state \in {"start", "load_head", "wait_add_zero", "load_kernel", "load_image",
                   "deal_image", "send_image", "end"}
    BY <1>1, <2>1 DEF TypeOK, States
  <2>7. state' # "idle"
    BY <2>6, StateMoves
  <2> QED BY <2>1, <2>2, <2>3, <2>4, <2>5, <2>7
<1>3. CASE layerState # "count"
  <2>1. \/ /\ state = "idle" /\ layerState = "idle" /\ oneLayerFinish' = FALSE
           /\ state' = (IF BeginInter THEN "start" ELSE "idle")
           /\ layerState' = (IF BeginInter THEN "start" ELSE "idle")
        \/ /\ state = "start" /\ layerState = "start" /\ state' = "load_head"
           /\ layerState' = "count" /\ layer' = 1 /\ oneLayerFinish' = FALSE
        \/ /\ state = "inter" /\ layerState = "end" /\ interCnt = 0
           /\ state' = "inter" /\ layerState' = "idle" /\ oneLayerFinish' = oneLayerFinish
        \/ /\ state = "inter" /\ layerState = "idle"
           /\ layerState' = "idle" /\ oneLayerFinish' = FALSE
    BY <1>1, <1>3, OffSteps, Zenon
  <2>2. CASE state = "idle"
    <3>1. Lay = 1
      BY <2>2, Zenon DEF Lay
    <3>2. state' = "idle" \/ layerState' = "start"
      BY <2>1, <2>2
    <3>3. Lay' = 1
      BY <3>2, Zenon DEF Lay
    <3> QED BY <2>1, <2>2, <3>1, <3>3
  <2>3. CASE state = "start"
    <3>1. layerState = "start" /\ state' = "load_head" /\ layerState' = "count" /\ layer' = 1
      BY <2>1, <2>3
    <3>2. Lay = 1
      BY <3>1, Zenon DEF Lay
    <3>3. state' # "idle" /\ layerState' # "start"
      BY <3>1
    <3>4. Lay' = 1
      BY <3>1, <3>3, Zenon DEF Lay
    <3> QED BY <2>1, <2>3, <3>2, <3>4
  <2>4. CASE state = "inter"
    BY <2>1, <2>4
  <2> QED BY <2>1, <2>2, <2>3, <2>4
<1> QED BY <1>2, <1>3

(* The two clocks share one edge in a period. *)
LEMMA BothAtZero ==
  ASSUME phase \in 0..7, NextAxi = NextDeal
  PROVE  phase = 0
BY SMT DEF NextAxi, NextDeal

(* The banks swap when the pulse passes layerR, and between starts only then. *)
LEMMA BankSteps ==
  ASSUME LoopIInv, NEW a, NEW d, NEW done, NEW k, NEW i, NEW m,
         Tick(a, d), Step(a, d, done, k, i, m), ps # "start"
  PROVE  /\ ~(beginTemp[2] /\ ~beginTemp[3]) /\ ~posR
         /\ ~layerR[1] \/ ~a => base'.rd = base.rd /\ base'.wr = base.wr
         /\ layerR[1] /\ a => base'.rd = 3 - base.rd /\ base'.wr = 3 - base.wr
         /\ layerR[2] /\ a => addr'.rd = base.rd /\ addr'.wr = base.wr
         /\ ~layerR[2] \/ ~a => addr'.rd \in {base.rd, addr.rd} /\ addr'.wr = addr.wr
<1>1. ~(beginTemp[2] /\ ~beginTemp[3])
  BY BeginWhen
<1>2. ~posR
  BY Zenon DEF LoopIInv, Begins, BeginBy
<1>3. CASE a
  BY <1>1, <1>2, <1>3, BankMoves
<1>4. CASE ~a
  BY <1>1, <1>2, <1>4, BankMoves DEF Tick
<1> QED BY <1>1, <1>2, <1>3, <1>4

(* The swap is over before the next transfer. *)
LEMMA BankByStep ==
  ASSUME LoopIInv, NEW a, NEW d, NEW done, NEW k, NEW i, NEW m,
         Tick(a, d), Step(a, d, done, k, i, m), ps # "start", ~Rest, ~Rest'
  PROVE  BankBy(IdleTime)'
<1>1. PICK na \in Int, nd \in Int, na1 \in Int, nd1 \in Int, dt \in Int :
        Clock(na, nd, na1, nd1, dt) /\ Beat(a, d, na, nd, na1, nd1, dt)
  BY Clocks
<1>2. PICK X \in Int, Y \in Int : X = IdleTime /\ Y = IdleTime'
  BY NextNumbers, SMT
<1>3. Y >= X - dt /\ X \in Int /\ Y \in Int
  <2>1. IdleTime' >= IdleTime - Dt
    BY IdleTimePasses
  <2> QED BY <1>1, <1>2, <2>1, Zenon DEF Clock
<1>4. PICK L \in Int : L = Lay
  <2>1. layer \in Layers
    BY DEF LoopIInv, LoopTypeOK, TypeOK
  <2>2. layer \in Int
    BY <2>1, Constants, SMT
  <2> QED BY <2>2, SMT DEF Lay
<1>5. L \in Int /\ a \in BOOLEAN /\ d \in BOOLEAN
  BY <1>4, Zenon DEF Tick
<1>6. BankBy(X)
  <2>1. BankBy(IdleTime)
    BY Zenon DEF LoopIInv, Banks
  <2> QED BY <1>2, <2>1, Zenon
<1>7. SUFFICES BankBy(Y)'
  BY <1>2, Zenon DEF BankBy
<1>8. state # "idle" /\ state # "inter" /\ state' # "idle" /\ state' # "inter"
  BY DEF Rest
<1>9. base.rd \in 1..2 /\ base.wr \in 1..2 /\ addr.rd \in 1..2 /\ addr.wr \in 1..2
  BY BankMoves
<1>10. ASSUME state \notin {"send_image", "end"}
       PROVE  /\ Lay' = Lay
              /\ d => ~oneLayerFinish'
              /\ ~d => (oneLayerFinish' <=> oneLayerFinish) /\ state' = state
  <2>1. CASE d
    BY <1>8, <1>10, <2>1, LayMoves
  <2>2. CASE ~d
    BY <1>5, <2>2, LayerMoves, Zenon DEF Lay
  <2> QED BY <2>1, <2>2
<1>11. CASE LayLow /\ BaseIs(Lay) /\ AddrIs(Lay)
  <2>1. ~oneLayerFinish /\ ~layerR[1] /\ ~layerR[2]
    BY <1>11 DEF LayLow
  <2>2. ~layerR'[1] /\ ~layerR'[2]
    BY <1>5, <2>1, LayerMoves
  <2>3. base.rd = 1 + ((L - 1) % 2) /\ base.wr = 1 + (L % 2)
        /\ addr.rd = 1 + ((L - 1) % 2) /\ addr.wr = 1 + (L % 2)
    BY <1>4, <1>11, Zenon DEF BaseIs, AddrIs
  <2>4. base'.rd = 1 + ((L - 1) % 2) /\ base'.wr = 1 + (L % 2)
        /\ addr'.rd = 1 + ((L - 1) % 2) /\ addr'.wr = 1 + (L % 2)
    BY <2>1, <2>3, BankSteps
  <2>5. CASE ~oneLayerFinish' /\ Lay' = Lay
    <3>1. LayLow'
      BY <2>2, <2>5, Zenon DEF LayLow
    <3>2. BaseIs(Lay)' /\ AddrIs(Lay)'
      BY <1>4, <2>4, <2>5, Zenon DEF BaseIs, AddrIs
    <3> QED BY <3>1, <3>2, Zenon DEF BankBy
  <2>6. CASE d /\ state = "end" /\ state' = "start" /\ oneLayerFinish' /\ Lay' = Lay + 1
    <3>1. ~a
      <4>1. phase # 0 /\ phase \in 0..7
        BY <2>6, Zenon DEF LoopIInv, Banks, LoopTypeOK
      <4>2. NextAxi # NextDeal
        BY <4>1, BothAtZero
      <4>3. na # nd
        BY <1>1, <4>2, Zenon DEF Clock
      <4> QED BY <1>1, <2>6, <4>3, SMT DEF Beat
    <3>2. D(1) + 19 <= IdleTime
      BY <2>6, Zenon DEF LoopIInv, Rounds
    <3>3. nd + 4 * (1 - 1) + 19 <= X
      BY <1>1, <1>2, <3>2, Zenon DEF D, Clock
    <3>4. na1 <= nd1 /\ na1 + 5 * (1 - 1) + 10 <= Y
      BY <1>1, <1>3, <2>6, <3>1, <3>3, SMT DEF Beat
    <3>5. NextAxi' <= NextDeal' /\ A(1)' + 10 <= Y
      BY <1>1, <3>4, Zenon DEF A, Clock
    <3>6. base'.rd = 1 + (((L + 1) - 1 - 1) % 2) /\ base'.wr = 1 + (((L + 1) - 1) % 2)
      <4>1. (L + 1) - 1 - 1 = L - 1 /\ (L + 1) - 1 = L
        BY <1>5, SMT
      <4> QED BY <2>4, <4>1
    <3>7. BaseIs(Lay - 1)'
      <4>1. Lay' = L + 1
        BY <1>4, <2>6
      <4> QED BY <3>6, <4>1, Zenon DEF BaseIs
    <3> QED BY <2>2, <2>6, <3>5, <3>7, Zenon DEF BankBy
  <2>7. \/ ~oneLayerFinish' /\ Lay' = Lay
        \/ d /\ state = "end" /\ state' = "start" /\ oneLayerFinish' /\ Lay' = Lay + 1
    <3>1. CASE state \notin {"send_image", "end"}
      BY <1>5, <1>10, <2>1, <3>1
    <3>2. CASE state \in {"send_image", "end"} /\ ~d
      BY <1>5, <2>1, <3>2, LayerMoves, Zenon DEF Lay
    <3>3. CASE state = "send_image" /\ d
      BY <2>1, <3>3, LayMoves
    <3>4. CASE state = "end" /\ d
      <4>1. state' = "start"
        BY <1>8, <3>4, StateMoves
      <4> QED BY <3>4, <4>1, LayMoves
    <3> QED BY <1>5, <3>1, <3>2, <3>3, <3>4
  <2> QED BY <2>5, <2>6, <2>7
<1>12. CASE ~LayLow
  <2>1. state \notin {"send_image", "end"}
    BY <1>12, Zenon DEF LoopIInv, Banks
  <2>2. /\ Lay' = L
        /\ d => ~oneLayerFinish'
        /\ ~d => (oneLayerFinish' <=> oneLayerFinish) /\ state' = state
    BY <1>4, <1>10, <2>1
  <2>3. CASE /\ oneLayerFinish /\ ~layerR[1] /\ ~layerR[2] /\ NextAxi <= NextDeal
             /\ state = "start" /\ BaseIs(Lay - 1) /\ A(1) + 10 <= X
    <3>1. na <= nd /\ na + 5 * (1 - 1) + 10 <= X
      BY <1>1, <2>3, Zenon DEF A, Clock
    <3>2. a
      BY <1>1, <3>1, SMT DEF Beat
    <3>3. layerR'[1] /\ ~layerR'[2]
      BY <2>3, <3>2, LayerMoves
    <3>4. base'.rd = base.rd /\ base'.wr = base.wr
      BY <2>3, BankSteps
    <3>5. BaseIs(Lay - 1)'
      BY <1>4, <2>2, <2>3, <3>4, Zenon DEF BaseIs
    <3>6. na1 + 5 * (2 - 1) <= Y /\ (~d => nd1 < na1)
      BY <1>1, <1>3, <3>1, <3>2, SMT DEF Beat
    <3>7. A(2)' <= Y /\ (~d => NextDeal' < NextAxi')
      BY <1>1, <3>6, Zenon DEF A, Clock
    <3>8. oneLayerFinish' => state' = "start" /\ NextDeal' < NextAxi'
      BY <1>5, <2>2, <2>3, <3>7
    <3> QED BY <3>3, <3>5, <3>7, <3>8, Zenon DEF BankBy
  <2>4. CASE /\ layerR[1] /\ ~layerR[2] /\ BaseIs(Lay - 1) /\ A(2) <= X
             /\ oneLayerFinish => state = "start" /\ NextDeal < NextAxi
    <3>1. na + 5 * (2 - 1) <= X /\ (oneLayerFinish => nd < na)
      BY <1>1, <2>4, Zenon DEF A, Clock
    <3>2. base.rd = 1 + ((L - 1 - 1) % 2) /\ base.wr = 1 + ((L - 1) % 2)
      BY <1>4, <2>4, Zenon DEF BaseIs
    <3>3. CASE a
      <4>1. ~oneLayerFinish
        BY <1>1, <3>1, <3>3, SMT DEF Beat
      <4>2. ~layerR'[1] /\ layerR'[2] /\ ~oneLayerFinish'
        BY <1>5, <2>2, <2>4, <3>3, <4>1, LayerMoves
      <4>3. base'.rd = 3 - base.rd /\ base'.wr = 3 - base.wr
        BY <2>4, <3>3, BankSteps
      <4>4. 3 - (1 + ((L - 1 - 1) % 2)) = 1 + ((L - 1) % 2)
            /\ 3 - (1 + ((L - 1) % 2)) = 1 + (L % 2)
        BY <1>5, SMT
      <4>5. BaseIs(Lay)'
        BY <2>2, <3>2, <4>3, <4>4, Zenon DEF BaseIs
      <4>6. na1 + 5 * (1 - 1) <= Y
        BY <1>1, <1>3, <3>1, <3>3, SMT DEF Beat
      <4>7. A(1)' <= Y
        BY <1>1, <4>6, Zenon DEF A, Clock
      <4> QED BY <4>2, <4>5, <4>7, Zenon DEF BankBy
    <3>4. CASE ~a
      <4>1. layerR'[1] /\ ~layerR'[2]
        BY <1>5, <2>4, <3>4, LayerMoves
      <4>2. d
        BY <1>1, <3>4, SMT DEF Beat
      <4>3. ~oneLayerFinish'
        BY <2>2, <4>2
      <4>4. base'.rd = base.rd /\ base'.wr = base.wr
        BY <3>4, BankSteps
      <4>5. BaseIs(Lay - 1)'
        BY <2>2, <3>2, <4>4, Zenon DEF BaseIs
      <4>6. na1 + 5 * (2 - 1) <= Y
        BY <1>1, <1>3, <3>1, <3>4, SMT DEF Beat
      <4>7. A(2)' <= Y
        BY <1>1, <4>6, Zenon DEF A, Clock
      <4> QED BY <4>1, <4>3, <4>5, <4>7, Zenon DEF BankBy
    <3> QED BY <3>3, <3>4
  <2>5. CASE ~oneLayerFinish /\ ~layerR[1] /\ layerR[2] /\ BaseIs(Lay) /\ A(1) <= X
    <3>1. na + 5 * (1 - 1) <= X
      BY <1>1, <2>5, Zenon DEF A, Clock
    <3>2. ~layerR'[1] /\ ~oneLayerFinish'
      BY <1>5, <2>2, <2>5, LayerMoves
    <3>3. base'.rd = base.rd /\ base'.wr = base.wr
      BY <2>5, BankSteps
    <3>4. BaseIs(Lay)'
      BY <1>4, <2>2, <2>5, <3>3, Zenon DEF BaseIs
    <3>5. CASE a
      <4>1. addr'.rd = base.rd /\ addr'.wr = base.wr
        BY <2>5, <3>5, BankSteps
      <4>2. AddrIs(Lay)'
        BY <3>3, <3>4, <4>1, Zenon DEF BaseIs, AddrIs
      <4>3. ~layerR'[2]
        BY <2>5, <3>5, LayerMoves
      <4> QED BY <3>2, <3>4, <4>2, <4>3, Zenon DEF BankBy, LayLow
    <3>6. CASE ~a
      <4>1. layerR'[2]
        BY <1>5, <2>5, <3>6, LayerMoves
      <4>2. na1 + 5 * (1 - 1) <= Y
        BY <1>1, <1>3, <3>1, <3>6, SMT DEF Beat
      <4>3. A(1)' <= Y
        BY <1>1, <4>2, Zenon DEF A, Clock
      <4> QED BY <3>2, <3>4, <4>1, <4>3, Zenon DEF BankBy
    <3> QED BY <3>5, <3>6
  <2> QED BY <1>6, <1>12, <2>3, <2>4, <2>5, Zenon DEF BankBy
<1> QED BY <1>6, <1>11, <1>12, Zenon DEF BankBy, LayLow

(* After the last layer nothing is left to swap. *)
LEMMA LayByStep ==
  ASSUME LoopIInv, NEW a, NEW d, NEW done, NEW k, NEW i, NEW m,
         Tick(a, d), Step(a, d, done, k, i, m), AtRest, AtRest'
  PROVE  LayBy(BeginTime)'
<1>1. PICK na \in Int, nd \in Int, na1 \in Int, nd1 \in Int, dt \in Int :
        Clock(na, nd, na1, nd1, dt) /\ Beat(a, d, na, nd, na1, nd1, dt)
  BY Clocks
<1>2. PICK X \in Int, Y \in Int : X = BeginTime /\ Y = BeginTime'
  BY NextNumbers, SMT
<1>3. Y >= X - dt /\ X \in Int /\ Y \in Int
  <2>1. BeginTime' >= BeginTime - Dt
    BY BeginTimePasses DEF AtRest
  <2> QED BY <1>1, <1>2, <2>1, Zenon DEF Clock
<1>4. LayBy(X)
  <2>1. LayBy(BeginTime)
    BY Zenon DEF LoopIInv, Banks
  <2> QED BY <1>2, <2>1, Zenon
<1>5. SUFFICES LayBy(Y)'
  BY <1>2, Zenon DEF LayBy
<1>6. /\ oneLayerFinish => /\ state = "inter"
                           /\ nd + 4 * ((IF layerState = "end" THEN 2 ELSE 1) - 1) + 15 <= X
      /\ layerR[1] => oneLayerFinish \/ na + 5 * (2 - 1) <= X
      /\ layerR[2] => layerR[1] \/ na + 5 * (1 - 1) <= X
  BY <1>1, <1>4, Zenon DEF LayBy, A, D, Clock
<1>7. a \in BOOLEAN /\ d \in BOOLEAN /\ state \in {"idle", "inter"}
  BY Zenon DEF Tick, AtRest, Rest
<1>8. ASSUME oneLayerFinish'
      PROVE  /\ oneLayerFinish /\ state' = "inter"
             /\ D(IF layerState = "end" THEN 2 ELSE 1)' + 15 <= Y
  <2>1. CASE d
    <3>1. oneLayerFinish /\ state = "inter" /\ layerState = "end" /\ state' = "inter"
          /\ layerState' # "end"
      BY <1>7, <1>8, <2>1, LayMoves
    <3>2. nd1 + 4 * (1 - 1) + 15 <= Y
      BY <1>1, <1>3, <1>6, <2>1, <3>1, SMT DEF Beat
    <3>3. D(1)' + 15 <= Y
      BY <1>1, <3>2, Zenon DEF D, Clock
    <3> QED BY <3>1, <3>3, Zenon
  <2>2. CASE ~d
    <3>1. oneLayerFinish /\ state' = state /\ layerState' = layerState
      BY <1>7, <1>8, <2>2, LayerMoves
    <3>2. nd1 + 4 * ((IF layerState = "end" THEN 2 ELSE 1) - 1) + 15 <= Y
      BY <1>1, <1>3, <1>6, <2>2, <3>1, SMT DEF Beat
    <3>3. D(IF layerState = "end" THEN 2 ELSE 1)' + 15 <= Y
      BY <1>1, <3>1, <3>2, Zenon DEF D, Clock
    <3> QED BY <1>6, <3>1, <3>3
  <2> QED BY <1>7, <2>1, <2>2
<1>9. ASSUME oneLayerFinish, ~oneLayerFinish' PROVE d /\ na1 + 5 * (2 - 1) <= Y
  <2>1. d
    BY <1>7, <1>9, LayerMoves
  <2> QED BY <1>1, <1>3, <1>6, <1>9, <2>1, SMT DEF Beat
<1>10. layerR'[1] => oneLayerFinish' \/ A(2)' <= Y
  <2> SUFFICES ASSUME layerR'[1], ~oneLayerFinish' PROVE A(2)' <= Y
    OBVIOUS
  <2>1. na1 + 5 * (2 - 1) <= Y
    <3>1. CASE oneLayerFinish
      BY <1>9, <3>1
    <3>2. CASE ~oneLayerFinish
      <4>1. ~a /\ layerR[1]
        BY <1>7, <3>2, LayerMoves
      <4> QED BY <1>1, <1>3, <1>6, <3>2, <4>1, SMT DEF Beat
    <3> QED BY <3>1, <3>2
  <2> QED BY <1>1, <2>1, Zenon DEF A, Clock
<1>11. layerR'[2] => layerR'[1] \/ A(1)' <= Y
  <2> SUFFICES ASSUME layerR'[2], ~layerR'[1] PROVE A(1)' <= Y
    OBVIOUS
  <2>1. na1 + 5 * (1 - 1) <= Y
    <3>1. CASE a
      <4>1. layerR[1] /\ ~oneLayerFinish
        BY <3>1, LayerMoves
      <4> QED BY <1>1, <1>3, <1>6, <3>1, <4>1, SMT DEF Beat
    <3>2. CASE ~a
      <4>1. layerR[2] /\ ~layerR[1]
        BY <1>7, <3>2, LayerMoves
      <4> QED BY <1>1, <1>3, <1>6, <3>2, <4>1, SMT DEF Beat
    <3> QED BY <1>7, <3>1, <3>2
  <2> QED BY <1>1, <2>1, Zenon DEF A, Clock
<1> QED BY <1>8, <1>10, <1>11, Zenon DEF LayBy

(* one_layer_finish of the last layer has the time of the interrupt. *)
LEMMA LastLayer ==
  ASSUME LoopIInv, NEW a, NEW d, NEW done, NEW k, NEW i, NEW m,
         Tick(a, d), Step(a, d, done, k, i, m), ~AtRest, AtRest'
  PROVE  LayBy(BeginTime)'
<1>1. Rest' /\ ps' # "start"
  BY DEF AtRest
<1>2. ps # "start"
  <2> SUFFICES ASSUME ps = "start" PROVE FALSE
    OBVIOUS
  <2>1. state' \in Pre
    BY <1>1, StartEnds
  <2> QED BY <1>1, <2>1 DEF Rest, Pre
<1>3. state = "end" /\ state' = "inter" /\ d
  <2>1. ~Rest
    BY <1>2 DEF AtRest
  <2> QED BY <1>1, <2>1, RestStays
<1>4. LayLow
  BY <1>3, Zenon DEF LoopIInv, Banks
<1>5. ~layerR'[1] /\ ~layerR'[2]
  <2>1. ~oneLayerFinish /\ ~layerR[1] /\ ~layerR[2]
    BY <1>4 DEF LayLow
  <2> QED BY <2>1, LayerMoves DEF Tick
<1>6. ps # "gap"
  BY <1>3, PsOnWay DEF AtRest, Rest
<1>7. PICK na \in Int, nd \in Int, na1 \in Int, nd1 \in Int, dt \in Int :
        Clock(na, nd, na1, nd1, dt) /\ Beat(a, d, na, nd, na1, nd1, dt)
  BY Clocks
<1>8. PICK X \in Int, Y \in Int : X = BeginTime /\ Y = BeginTime'
  BY NextNumbers, SMT
<1>9. Y >= X - dt /\ X \in Int /\ Y \in Int /\ X >= 56
  <2>1. BeginTime' >= BeginTime - Dt /\ BeginTime >= 56
    BY <1>1, <1>2, <1>6, BeginTimePasses
  <2> QED BY <1>7, <1>8, <2>1, Zenon DEF Clock
<1>10. D(IF layerState = "end" THEN 2 ELSE 1)' + 15 <= BeginTime'
  <2>1. /\ nd1 + 4 * (2 - 1) + 15 <= Y /\ nd1 + 4 * (1 - 1) + 15 <= Y
    BY <1>7, <1>9, SMT DEF Beat
  <2> QED BY <1>7, <1>8, <2>1, Zenon DEF D, Clock
<1> QED BY <1>3, <1>5, <1>10, Zenon DEF LayBy

(* A start finds the banks at rest, and sets them. *)
LEMMA StartBanks ==
  ASSUME LoopIInv, NEW a, NEW d, NEW done, NEW k, NEW i, NEW m,
         Tick(a, d), Step(a, d, done, k, i, m), ps' = "start"
  PROVE  /\ LayLow' /\ Lay' = 1
         /\ psCnt' >= 3 => BaseIs(1)' /\ addr'.rd = 1
         /\ psCnt' >= 4 => AddrIs(1)'
         /\ psCnt' <= 3 => ctl' \in {"end", "wait", "idle"}
<1>1. a \in BOOLEAN /\ d \in BOOLEAN
  BY Zenon DEF Tick
<1>2. CASE ps # "start"
  <2>1. state' = "idle"
    BY <1>2, GapEnds
  <2>2. BeginTime = Dt /\ a /\ ps = "gap"
    BY <1>2, BeginTimePasses
  <2>3. state = "idle" /\ AtRest
    <3>1. state = "idle"
      BY <2>2, Zenon DEF LoopIInv, Begins
    <3> QED BY <1>2, <3>1 DEF AtRest, Rest
  <2>4. psCnt' = 0
    BY <1>2, <2>2, PsMoves
  <2>5. ctl' \in {"end", "wait", "idle"}
    BY <2>3, RestCtl
  <2>6. PICK na \in Int, nd \in Int, na1 \in Int, nd1 \in Int, dt \in Int :
          Clock(na, nd, na1, nd1, dt) /\ Beat(a, d, na, nd, na1, nd1, dt)
    BY Clocks
  <2>7. LayBy(BeginTime)
    BY <2>3, Zenon DEF LoopIInv, Banks
  <2>8. /\ ~oneLayerFinish
        /\ layerR[1] => oneLayerFinish \/ na + 5 * (2 - 1) <= dt
    BY <2>2, <2>3, <2>6, <2>7, Zenon DEF LayBy, A, Clock
  <2>9. ~layerR[1]
    BY <2>2, <2>6, <2>8, SMT DEF Beat
  <2>10. ~layerR'[1] /\ ~layerR'[2]
    BY <2>2, <2>8, <2>9, LayerMoves
  <2>11. ~oneLayerFinish'
    BY <1>1, <2>3, <2>8, LayMoves, LayerMoves
  <2>12. Lay' = 1
    BY <2>1, Zenon DEF Lay
  <2>13. ~(psCnt' >= 3) /\ ~(psCnt' >= 4)
    BY <2>4, SMT
  <2> QED BY <2>5, <2>10, <2>11, <2>12, <2>13, Zenon DEF LayLow
<1>3. CASE ps = "start"
  <2>1. /\ LayLow /\ Lay = 1
        /\ psCnt >= 3 => BaseIs(1) /\ addr.rd = 1
        /\ psCnt >= 4 => AddrIs(1)
        /\ psCnt <= 3 => ctl \in {"end", "wait", "idle"}
        /\ beginTemp[1] <=> psCnt >= 1
        /\ beginTemp[2] <=> psCnt >= 2
        /\ beginTemp[3] <=> psCnt >= 3
        /\ posR <=> psCnt = 3
        /\ beginFlag <=> psCnt >= 3
        /\ state = "idle" \/ state \in Pre
    BY <1>3, Zenon DEF LoopIInv, Banks, Begins, Algs
  <2>2. psCnt \in Int /\ psCnt >= 0 /\ (a => psCnt' = psCnt + 1) /\ (~a => psCnt' = psCnt)
    <3>1. psCnt \in 0..StartCycles
      BY Ranges
    <3>2. psCnt \in Int /\ psCnt >= 0
      BY <3>1, Numbers, SMT
    <3>3. CASE a
      BY <1>3, <3>2, <3>3, PsMoves
    <3>4. CASE ~a
      BY <3>2, <3>4, PsMoves DEF Tick
    <3> QED BY <3>2, <3>3, <3>4
  <2>3. ~oneLayerFinish /\ ~layerR[1] /\ ~layerR[2]
    BY <2>1 DEF LayLow
  <2>4. ~layerR'[1] /\ ~layerR'[2]
    BY <1>1, <2>3, LayerMoves
  <2>5. ~oneLayerFinish' /\ Lay' = 1
    <3>1. state \notin {"send_image", "end", "inter"}
      BY <2>1 DEF Pre
    <3>2. CASE d
      BY <2>1, <3>1, <3>2, LayMoves
    <3>3. CASE ~d
      <4>1. /\ (oneLayerFinish' <=> oneLayerFinish)
            /\ layerState' = layerState /\ layer' = layer /\ state' = state
        BY <3>3, LayerMoves DEF Tick
      <4>2. Lay' = Lay
        BY <4>1, Zenon DEF Lay
      <4> QED BY <2>1, <2>3, <4>1, <4>2
    <3> QED BY <1>1, <3>2, <3>3
  <2>6. psCnt' <= 3 => ctl' \in {"end", "wait", "idle"}
    <3>1. CASE a
      <4> SUFFICES ASSUME psCnt' <= 3 PROVE ctl' \in {"end", "wait", "idle"}
        OBVIOUS
      <4>1. psCnt <= 2
        BY <2>2, <3>1, SMT
      <4>2. ctl \in {"end", "wait", "idle"} /\ ~beginFlag
        BY <2>1, <2>2, <4>1, SMT
      <4> QED BY <3>1, <4>2, CtlMoves
    <3>2. CASE ~a
      BY <2>1, <2>2, <3>2, CtlMoves DEF Tick
    <3> QED BY <1>1, <3>1, <3>2
  <2>7. /\ base.rd \in 1..2 /\ base.wr \in 1..2 /\ addr.rd \in 1..2 /\ addr.wr \in 1..2
        /\ psCnt >= 3 => base.rd = 1 /\ base.wr = 2 /\ addr.rd = 1
        /\ psCnt >= 4 => addr.wr = 2
    <3>1. 1 + ((1 - 1) % 2) = 1 /\ 1 + (1 % 2) = 2
      BY SMT
    <3> QED BY <2>1, <3>1, BankMoves, Zenon DEF BaseIs, AddrIs
  <2>8. /\ psCnt' >= 3 => base'.rd = 1 /\ base'.wr = 2 /\ addr'.rd = 1
        /\ psCnt' >= 4 => addr'.wr = 2
    <3>1. CASE a
      <4>1. CASE psCnt <= 1
        BY <2>2, <3>1, <4>1, SMT
      <4>2. CASE psCnt = 2
        <5>1. beginTemp[2] /\ ~beginTemp[3]
          BY <2>1, <4>2, SMT
        <5>2. ~(psCnt' >= 4)
          BY <2>2, <3>1, <4>2, SMT
        <5> QED BY <3>1, <5>1, <5>2, BankMoves
      <4>3. CASE psCnt >= 3
        <5>1. beginTemp[2] /\ beginTemp[3]
          BY <2>1, <2>2, <4>3, SMT
        <5>2. base'.rd = 1 /\ base'.wr = 2 /\ addr'.rd = 1
          BY <2>3, <2>7, <3>1, <4>3, <5>1, BankMoves
        <5>3. addr'.wr = 2
          <6>1. CASE psCnt = 3
            BY <2>1, <2>7, <3>1, <4>3, <6>1, BankMoves
          <6>2. CASE psCnt # 3
            <7>1. psCnt >= 4
              BY <2>2, <4>3, <6>2, SMT
            <7> QED BY <2>1, <2>3, <2>7, <3>1, <6>2, <7>1, BankMoves
          <6> QED BY <6>1, <6>2
        <5> QED BY <5>2, <5>3
      <4> QED BY <2>2, <4>1, <4>2, <4>3, SMT
    <3>2. CASE ~a
      BY <2>2, <2>7, <3>2, BankMoves DEF Tick
    <3> QED BY <1>1, <3>1, <3>2
  <2>9. /\ psCnt' >= 3 => BaseIs(1)' /\ addr'.rd = 1
        /\ psCnt' >= 4 => AddrIs(1)'
    <3>1. 1 + ((1 - 1) % 2) = 1 /\ 1 + (1 % 2) = 2
      BY SMT
    <3>2. psCnt' >= 4 => psCnt' >= 3
      BY <2>2, SMT
    <3> QED BY <2>8, <3>1, <3>2, Zenon DEF BaseIs, AddrIs
  <2> QED BY <2>4, <2>5, <2>6, <2>9, Zenon DEF LayLow
<1> QED BY <1>2, <1>3

(* The answer to a write rises one register per edge of deal_clk. *)
LEMMA AnswerClimbs ==
  ASSUME LoopIInv, NEW a, NEW d, NEW done, NEW k, NEW i, NEW m,
         Tick(a, d), Step(a, d, done, k, i, m), NEW X, RetRises(X)
  PROVE  /\ RetUp(1)' => a
         /\ RetUp(2)' => IF d THEN RetUp(1) ELSE RetUp(2)
         /\ RetUp(3)' => IF d THEN RetUp(2) ELSE RetUp(3)
         /\ RetUp(4)' => IF d THEN RetUp(3) ELSE RetUp(4)
         /\ RetUp(5)' => IF d THEN RetUp(4) ELSE RetUp(5)
<1>1. RetUp(0) \/ RetUp(1) \/ RetUp(2) \/ RetUp(3) \/ RetUp(4) \/ RetUp(5)
  BY Zenon DEF RetRises
<1>2. /\ retFlag \/ ~flagR[1]
      /\ flagR[1] \/ ~flagR[2]
      /\ flagR[2] \/ ~retReady
      /\ retReady \/ ~readyTemp[1]
      /\ ~readyTemp[2]
  BY <1>1, RetShapes
<1>3. CASE d
  <2>1. /\ (flagR'[1] <=> retFlag) /\ (flagR'[2] <=> flagR[1]) /\ (retReady' <=> flagR[2])
        /\ (readyTemp'[1] <=> retReady) /\ (readyTemp'[2] <=> readyTemp[1])
    BY <1>3, RetMoves
  <2>2. RetUp(1)' => a
    <3>1. ~a => (retFlag' <=> retFlag)
      BY RetMoves DEF Tick
    <3> QED BY <2>1, <3>1, RetShapes DEF Tick
  <2> QED BY <1>2, <1>3, <2>1, <2>2, RetShapes
<1>4. CASE ~d
  <2>1. /\ (flagR'[1] <=> flagR[1]) /\ (flagR'[2] <=> flagR[2]) /\ (retReady' <=> retReady)
        /\ (readyTemp'[1] <=> readyTemp[1]) /\ (readyTemp'[2] <=> readyTemp[2])
    BY <1>4, RetMoves DEF Tick
  <2>2. a
    <3>1. PICK na \in Int, nd \in Int, na1 \in Int, nd1 \in Int, dt \in Int :
            Clock(na, nd, na1, nd1, dt) /\ Beat(a, d, na, nd, na1, nd1, dt)
      BY Clocks
    <3> QED BY <1>4, <3>1, SMT DEF Beat
  <2> QED BY <1>2, <1>4, <2>1, <2>2, RetShapes
<1> QED BY <1>3, <1>4 DEF Tick

(* AnswerPhases is kept. *)
LEMMA AnswerPhasesStep ==
  ASSUME LoopIInv, NEW a, NEW d, NEW done, NEW k, NEW i, NEW m,
         Tick(a, d), Step(a, d, done, k, i, m), phase' \in 0..7,
         state = "send_image", SendAfter
  PROVE  /\ AnswerPhases'
         /\ d /\ ReadyPos => phase' # 0
<1>1. AnswerPhases /\ RetRises(IdleTime - 23) /\ phase \in 0..7
  BY Zenon DEF LoopIInv, LoopTypeOK, Banks, SendAfter
<1>2. /\ RetUp(1)' => a
      /\ RetUp(2)' => IF d THEN RetUp(1) ELSE RetUp(2)
      /\ RetUp(3)' => IF d THEN RetUp(2) ELSE RetUp(3)
      /\ RetUp(4)' => IF d THEN RetUp(3) ELSE RetUp(4)
      /\ RetUp(5)' => IF d THEN RetUp(4) ELSE RetUp(5)
  BY <1>1, AnswerClimbs
<1>3. ReadyPos => RetUp(5)
  <2>1. RetUp(0) \/ RetUp(1) \/ RetUp(2) \/ RetUp(3) \/ RetUp(4) \/ RetUp(5)
    BY <1>1, Zenon DEF RetRises
  <2> QED BY <2>1, RetShapes DEF ReadyPos
<1>4. PICK p \in 0..7, p1 \in 0..7 : p = phase /\ p1 = phase'
  BY <1>1
<1>5. p \in 0..7 /\ p1 \in 0..7
  BY <1>4, Zenon
<1>6. PICK na \in Int, nd \in Int, na1 \in Int, nd1 \in Int, dt \in Int :
        Clock(na, nd, na1, nd1, dt) /\ Beat(a, d, na, nd, na1, nd1, dt)
  BY Clocks
<1>7. /\ p = 0 => na = 4 /\ nd = 4
      /\ p = 1 => na = 5 /\ nd = 4
      /\ p = 2 => na = 1 /\ nd = 4
      /\ p = 3 => na = 5 /\ nd = 3
      /\ p = 4 => na = 2 /\ nd = 4
      /\ p = 5 => na = 5 /\ nd = 2
      /\ p = 6 => na = 3 /\ nd = 4
      /\ p = 7 => na = 5 /\ nd = 1
      /\ p1 = 0 => na1 = 4 /\ nd1 = 4
      /\ p1 = 1 => na1 = 5 /\ nd1 = 4
      /\ p1 = 2 => na1 = 1 /\ nd1 = 4
      /\ p1 = 3 => na1 = 5 /\ nd1 = 3
      /\ p1 = 4 => na1 = 2 /\ nd1 = 4
      /\ p1 = 5 => na1 = 5 /\ nd1 = 2
      /\ p1 = 6 => na1 = 3 /\ nd1 = 4
      /\ p1 = 7 => na1 = 5 /\ nd1 = 1
  <2>1. /\ p = 0 => na = 4 /\ nd = 4
        /\ p = 1 => na = 5 /\ nd = 4
        /\ p = 2 => na = 1 /\ nd = 4
        /\ p = 3 => na = 5 /\ nd = 3
        /\ p = 4 => na = 2 /\ nd = 4
        /\ p = 5 => na = 5 /\ nd = 2
        /\ p = 6 => na = 3 /\ nd = 4
        /\ p = 7 => na = 5 /\ nd = 1
    BY <1>4, <1>6 DEF Clock, NextAxi, NextDeal
  <2>2. /\ p1 = 0 => na1 = 4 /\ nd1 = 4
        /\ p1 = 1 => na1 = 5 /\ nd1 = 4
        /\ p1 = 2 => na1 = 1 /\ nd1 = 4
        /\ p1 = 3 => na1 = 5 /\ nd1 = 3
        /\ p1 = 4 => na1 = 2 /\ nd1 = 4
        /\ p1 = 5 => na1 = 5 /\ nd1 = 2
        /\ p1 = 6 => na1 = 3 /\ nd1 = 4
        /\ p1 = 7 => na1 = 5 /\ nd1 = 1
    BY <1>4, <1>6 DEF Clock, NextAxi, NextDeal
  <2> QED BY <2>1, <2>2
<1>8. /\ RetUp(1) => p \in {1, 3, 5, 7}
      /\ RetUp(2) => p # 1
      /\ RetUp(3) => p \notin {2, 3}
      /\ RetUp(4) => p \notin {4, 5}
      /\ RetUp(5) => p \notin {6, 7}
  BY <1>1, <1>4 DEF AnswerPhases, Odd
<1>9. /\ RetUp(1)' => Odd'
      /\ RetUp(2)' => p1 # 1
      /\ RetUp(3)' => p1 \notin {2, 3}
      /\ RetUp(4)' => p1 \notin {4, 5}
      /\ RetUp(5)' => p1 \notin {6, 7}
      /\ d /\ ReadyPos => p1 # 0
  <2>1. RetUp(1)' => Odd'
    BY <1>2, Zenon DEF Tick
  <2>2. /\ d /\ p \in {1, 3, 5, 7} => p1 # 1
        /\ ~d /\ p # 1 => p1 # 1
        /\ d /\ p # 1 => p1 \notin {2, 3}
        /\ ~d /\ p \notin {2, 3} => p1 \notin {2, 3}
        /\ d /\ p \notin {2, 3} => p1 \notin {4, 5}
        /\ ~d /\ p \notin {4, 5} => p1 \notin {4, 5}
        /\ d /\ p \notin {4, 5} => p1 \notin {6, 7}
        /\ ~d /\ p \notin {6, 7} => p1 \notin {6, 7}
        /\ d /\ p \notin {6, 7} => p1 # 0
    BY <1>5, <1>6, <1>7, SMT DEF Beat
  <2> QED BY <1>2, <1>3, <1>8, <2>1, <2>2, Zenon DEF Tick
<1> QED BY <1>4, <1>9, Zenon DEF AnswerPhases

(* The first cycle of a round sees no more of its head than its request. *)
LEMMA StartReads ==
  ASSUME LoopIInv, NEW a, NEW d, NEW done, NEW k, NEW i, NEW m,
         Tick(a, d), Step(a, d, done, k, i, m), state' = "start"
  PROVE  \/ ctl' \in {"end", "wait", "idle", "ready"}
         \/ ctl' = "head_rd" /\ NextDeal' < NextAxi'
<1>1. \/ state = "idle" /\ ps = "start"
      \/ state = "end"
      \/ state = "deal_image" /\ d /\ m /\ ~ReturnAxi
      \/ state = "start"
  BY StateFrom
<1>2. Wanted' => ctl' \in {"end", "wait", "idle", "ready"}
  BY Zenon DEF Wanted
<1>3. CASE state = "idle" /\ ps = "start"
  BY <1>2, <1>3, IdleStep
<1>4. CASE state = "end"
  BY <1>4, EndMoves
<1>5. CASE state = "deal_image" /\ d /\ m /\ ~ReturnAxi
  BY <1>2, <1>5, RoundEnds
<1>6. CASE state = "start"
  <2>1. ~d
    BY <1>6, StateMoves
  <2>2. PICK na \in Int, nd \in Int, na1 \in Int, nd1 \in Int, dt \in Int :
          Clock(na, nd, na1, nd1, dt) /\ Beat(a, d, na, nd, na1, nd1, dt)
    BY Clocks
  <2>3. a /\ ~(nd < na) /\ nd1 < na1
    BY <2>1, <2>2, SMT DEF Beat
  <2>4. NextDeal' < NextAxi' /\ ~(NextDeal < NextAxi)
    BY <2>2, <2>3, Zenon DEF Clock
  <2>5. ctl \in {"end", "wait", "idle", "ready"}
    BY <1>6, <2>4, Zenon DEF LoopIInv, Banks
  <2>6. ctl = "ready" => ~wrNeedPipe[3]
    BY <1>6, WriteStarts
  <2>7. ctl' \in {"end", "wait", "idle", "ready", "head_rd"}
    BY <2>3, <2>5, <2>6, CtlMoves
  <2> QED BY <2>4, <2>7
<1> QED BY <1>1, <1>3, <1>4, <1>5, <1>6

(* No layer ends while a map is returned. *)
LEMMA LayLowStays ==
  ASSUME LoopIInv, NEW a, NEW d, NEW done, NEW k, NEW i, NEW m,
         Tick(a, d), Step(a, d, done, k, i, m), state' \in {"send_image", "end"}
  PROVE  LayLow'
<1>1. LayLow /\ (d => state \in {"send_image", "deal_image"})
  <2>1. \/ state = "send_image"
        \/ state = "end"
        \/ state = "deal_image" /\ d /\ m /\ ReturnAxi
    BY StateFrom
  <2>2. CASE state = "send_image"
    BY <2>2, Zenon DEF LoopIInv, Banks
  <2>3. CASE state = "end"
    <3>1. d => state' \in {"start", "inter"}
      BY <2>3, StateMoves
    <3>2. ~d
      BY <3>1 DEF Tick
    <3> QED BY <2>3, <3>2, Zenon DEF LoopIInv, Banks
  <2>4. CASE state = "deal_image" /\ d /\ m /\ ReturnAxi
    <3>1. ctl = "ready"
      BY <2>4, StateMoves
    <3>2. IdleTime = 0
      BY <3>1 DEF IdleTime
    <3>3. ps # "start" /\ ~Rest
      <4>1. ps = "start" => state = "idle" \/ state \in Pre
        BY Zenon DEF LoopIInv, Begins
      <4> QED BY <2>4, <4>1 DEF Pre, Rest
    <3>4. BankBy(0)
      <4>1. BankBy(IdleTime)
        BY <3>3, Zenon DEF LoopIInv, Banks
      <4> QED BY <3>2, <4>1, Zenon
    <3>5. PICK na \in Int, nd \in Int, na1 \in Int, nd1 \in Int, dt \in Int :
            Clock(na, nd, na1, nd1, dt) /\ Beat(a, d, na, nd, na1, nd1, dt)
      BY Clocks
    <3>6. LayLow \/ na + 5 * (1 - 1) + 10 <= 0 \/ na + 5 * (2 - 1) <= 0 \/ na + 5 * (1 - 1) <= 0
      BY <3>4, <3>5, Zenon DEF BankBy, A, Clock
    <3>7. LayLow
      BY <3>5, <3>6, SMT DEF Beat
    <3> QED BY <2>4, <3>7
  <2> QED BY <2>1, <2>2, <2>3, <2>4
<1>2. ~oneLayerFinish /\ ~layerR[1] /\ ~layerR[2]
  BY <1>1 DEF LayLow
<1>3. ~layerR'[1] /\ ~layerR'[2]
  BY <1>2, LayerMoves DEF Tick
<1>4. ~oneLayerFinish'
  <2>1. CASE d
    BY <1>1, <1>2, <2>1, LayMoves
  <2>2. CASE ~d
    BY <1>2, <2>2, LayerMoves DEF Tick
  <2> QED BY <2>1, <2>2
<1> QED BY <1>3, <1>4 DEF LayLow

(* Banks is kept. *)
LEMMA BanksStep ==
  ASSUME LoopIInv, NEW a, NEW d, NEW done, NEW k, NEW i, NEW m,
         Tick(a, d), Step(a, d, done, k, i, m), phase' \in 0..7, phase' = 0 => ~a
  PROVE  Banks'
<1>1. ps' = "start" => /\ LayLow' /\ Lay' = 1
                       /\ psCnt' >= 3 => BaseIs(1)' /\ addr'.rd = 1
                       /\ psCnt' >= 4 => AddrIs(1)'
                       /\ psCnt' <= 3 => ctl' \in {"end", "wait", "idle"}
  BY StartBanks
<1>2. ps' # "start" /\ ~Rest' => BankBy(IdleTime)'
  <2> SUFFICES ASSUME ps' # "start", ~Rest' PROVE BankBy(IdleTime)'
    OBVIOUS
  <2>1. CASE ps = "start"
    <3>1. /\ a /\ psCnt = StartCycles /\ ps' = "wait_rise"
          /\ beginTemp[1] /\ beginTemp[2] /\ beginTemp[3] /\ ~posR
          /\ state \in Pre /\ state' \in Pre
      BY <2>1, StartEnds
    <3>2. psCnt >= 3 /\ psCnt >= 4
      BY <3>1, Numbers, SMT
    <3>3. LayLow /\ Lay = 1 /\ BaseIs(1) /\ AddrIs(1)
      BY <2>1, <3>2, Zenon DEF LoopIInv, Banks
    <3>4. ~oneLayerFinish /\ ~layerR[1] /\ ~layerR[2]
      BY <3>3 DEF LayLow
    <3>5. ~layerR'[1] /\ ~layerR'[2]
      BY <3>1, <3>4, LayerMoves
    <3>6. ~oneLayerFinish' /\ Lay' = 1
      <4>1. state \notin {"send_image", "end", "inter"}
        BY <3>1 DEF Pre
      <4>2. CASE d
        BY <3>3, <4>1, <4>2, LayMoves
      <4>3. CASE ~d
        <5>1. /\ (oneLayerFinish' <=> oneLayerFinish)
              /\ layerState' = layerState /\ layer' = layer /\ state' = state
          BY <4>3, LayerMoves DEF Tick
        <5>2. Lay' = Lay
          BY <5>1, Zenon DEF Lay
        <5> QED BY <3>3, <3>4, <5>1, <5>2
      <4> QED BY <4>2, <4>3 DEF Tick
    <3>7. LayLow'
      BY <3>5, <3>6, Zenon DEF LayLow
    <3>8. base'.rd = base.rd /\ base'.wr = base.wr
          /\ addr'.rd \in {base.rd, addr.rd} /\ addr'.wr = addr.wr
      BY <3>1, <3>4, BankMoves
    <3>9. base.rd = addr.rd
      BY <3>3, Zenon DEF BaseIs, AddrIs
    <3>10. BaseIs(1)' /\ AddrIs(1)'
      <4>1. addr'.rd = addr.rd
        BY <3>8, <3>9
      <4> QED BY <3>3, <3>8, <4>1, Zenon DEF BaseIs, AddrIs
    <3>11. BaseIs(Lay)' /\ AddrIs(Lay)'
      BY <3>6, <3>10, Zenon DEF BaseIs, AddrIs
    <3> QED BY <3>7, <3>11, Zenon DEF BankBy
  <2>2. CASE ps # "start"
    <3>1. ~Rest
      BY <2>2, RestStays
    <3> QED BY <2>2, <3>1, BankByStep
  <2> QED BY <2>1, <2>2
<1>3. AtRest' => LayBy(BeginTime)'
  BY LayByStep, LastLayer
<1>4. state' \in {"send_image", "end"} => LayLow'
  BY LayLowStays
<1>5. ASSUME state = "send_image"
      PROVE  /\ state' = "send_image" => AnswerPhases'
             /\ state' = "end" => phase' # 0
  <2>1. SendBefore \/ SendAfter
    BY <1>5, Zenon DEF LoopIInv, Rounds
  <2>2. CASE SendAfter
    <3>1. /\ AnswerPhases'
          /\ d /\ ReadyPos => phase' # 0
      BY <1>5, <2>2, AnswerPhasesStep
    <3>2. state' = "end" => d /\ ReadyPos
      BY <1>5, StateFrom
    <3> QED BY <3>1, <3>2
  <2>3. CASE SendBefore
    <3>1. state' = "send_image"
      BY <1>5, <2>3, SendStays
    <3>2. SendBefore' \/ SendAfter'
      BY <1>5, <2>3, SendBeforeStays
    <3>3. RetUp(0)
      BY <2>3, Zenon DEF SendBefore, RetLow
    <3>4. RetUp(0)'
      <4>1. ~retFlag /\ ~flagR[1] /\ ~flagR[2] /\ ~retReady /\ ~readyTemp[1] /\ ~readyTemp[2]
            /\ ~wrFinish
        BY <2>3, <3>3, RetShapes, Zenon DEF SendBefore, RetLow
      <4>2. ~retFlag'
        <5>1. CASE a
          BY <4>1, <5>1, RetMoves
        <5>2. CASE ~a
          BY <4>1, <5>2, RetMoves DEF Tick
        <5> QED BY <5>1, <5>2
      <4>3. ~flagR'[1] /\ ~flagR'[2] /\ ~retReady' /\ ~readyTemp'[1] /\ ~readyTemp'[2]
        BY <4>1, RetMoves DEF Tick
      <4> QED BY <4>2, <4>3, RetShapes
    <3>5. ~RetUp(1)' /\ ~RetUp(2)' /\ ~RetUp(3)' /\ ~RetUp(4)' /\ ~RetUp(5)'
      BY <3>4, RetShapes
    <3> QED BY <3>1, <3>5, Zenon DEF AnswerPhases
  <2> QED BY <2>1, <2>2, <2>3
<1>6. state' = "send_image" => AnswerPhases'
  <2>1. state' = "send_image" => \/ state = "send_image"
                                 \/ state = "deal_image" /\ d /\ m /\ ReturnAxi
    BY StateFrom
  <2>2. CASE state = "deal_image" /\ d /\ m /\ ReturnAxi
    <3>1. SendBefore'
      BY <2>2, RoundEnds
    <3>2. RetUp(0)'
      BY <3>1, Zenon DEF SendBefore, RetLow
    <3>3. ~RetUp(1)' /\ ~RetUp(2)' /\ ~RetUp(3)' /\ ~RetUp(4)' /\ ~RetUp(5)'
      BY <3>2, RetShapes
    <3> QED BY <3>3, Zenon DEF AnswerPhases
  <2> QED BY <1>5, <2>1, <2>2
<1>7. state' = "end" => phase' # 0
  <2>1. state' = "end" => state = "end" \/ state = "send_image"
    BY StateFrom
  <2>2. ASSUME state = "end", state' = "end" PROVE phase' # 0
    <3>1. ~d
      BY <2>2, StateMoves
    <3>2. PICK na \in Int, nd \in Int, na1 \in Int, nd1 \in Int, dt \in Int :
            Clock(na, nd, na1, nd1, dt) /\ Beat(a, d, na, nd, na1, nd1, dt)
      BY Clocks
    <3>3. a
      BY <3>1, <3>2, SMT DEF Beat
    <3> QED BY <3>3
  <2> QED BY <1>5, <2>1, <2>2
<1>8. state' = "start" => \/ ctl' \in {"end", "wait", "idle", "ready"}
                          \/ ctl' = "head_rd" /\ NextDeal' < NextAxi'
  BY StartReads
<1> QED BY <1>1, <1>2, <1>3, <1>4, <1>6, <1>7, <1>8, Zenon DEF Banks

-----------------------------------------------------------------------------
(* Types. *)

(* The types, clock by clock. *)
AxiTypes ==
  /\ Transfer!TypeOK
  /\ wrNeedPipe \in [1..3 -> BOOLEAN] /\ retFlag \in BOOLEAN
  /\ retReadyR \in [1..2 -> BOOLEAN] /\ beginSlow \in BOOLEAN
  /\ finishSlow \in [1..3 -> BOOLEAN]
  /\ headWrites \in 0..3 /\ mapsWritten \in 0..3 /\ kernelWrites \in 0..7
  /\ latency \in 0..HeadLatency
  /\ ps \in {"gap", "start", "wait_rise", "wait_fall"} /\ psCnt \in 0..StartCycles
  /\ rdFinish \in BOOLEAN /\ inforAxi \in [1..2 -> BOOLEAN]
  /\ updateAxi \in [1..2 -> BOOLEAN] /\ imageReady \in BOOLEAN
  /\ imageNeed \in BOOLEAN /\ headImage \in BOOLEAN /\ fetched \in BOOLEAN

DealTypes ==
  /\ TypeOK
  /\ req \in BOOLEAN /\ ackR \in [1..2 -> BOOLEAN]
  /\ algReq \in BOOLEAN /\ algAckR \in [1..2 -> BOOLEAN]
  /\ wrNeedTemp \in BOOLEAN /\ wrFinishR \in [1..2 -> BOOLEAN]
  /\ flagR \in [1..2 -> BOOLEAN] /\ retReady \in BOOLEAN
  /\ readyTemp \in [1..2 -> BOOLEAN] /\ beginR \in [1..3 -> BOOLEAN]
  /\ loadHead \in BOOLEAN
  /\ headSeen \in 0..3 /\ headPops \in 0..3
  /\ mapsDone \in 0..3 /\ kernelReads \in 0..7
  /\ round \in 1..RoundsPerMap
  /\ headQ \in BOOLEAN /\ imageUpdate \in BOOLEAN /\ infor \in [1..2 -> BOOLEAN]
  /\ inforDelay \in 0..15 /\ inforLong \in BOOLEAN
  /\ imageReadyR \in [1..2 -> BOOLEAN]

(* They are the parts of LoopTypeOK. *)
LEMMA TypeParts == LoopTypeOK <=> AxiTypes /\ DealTypes /\ phase \in 0..7
BY Zenon DEF LoopTypeOK, AxiTypes, DealTypes

(* The registers of the transfer side keep their types. *)
LEMMA TransferTypes ==
  ASSUME LoopIInv, NEW a, NEW d, NEW done, NEW k, NEW i, NEW m,
         Tick(a, d), Step(a, d, done, k, i, m), a
  PROVE  Transfer!TypeOK'
<1>1. AxiEdge(done) /\ LoopTypeOK
  BY DEF Step, LoopIInv
<1>2. ctl' \in Transfer!Ctls
  <2>1. ctl \in {"idle", "ready", "head_rd", "iterate_head_wait", "iterate_head",
                 "iterate_judge_wait", "iterate_judge", "image_rd", "kernel_rd",
                 "kernel_judge", "image_wr", "end", "wait"}
    BY Ranges DEF Transfer!Ctls
  <2>2. ctl' \in {"idle", "ready", "head_rd", "iterate_head_wait", "iterate_head",
                  "iterate_judge_wait", "iterate_judge", "image_rd", "kernel_rd",
                  "kernel_judge", "image_wr", "end", "wait"}
    BY <2>1, CtlMoves
  <2> QED BY <2>2 DEF Transfer!Ctls
<1>3. waitCnt' \in 0..15
  <2>1. waitCnt \in 0..15 /\ (ctl = "iterate_head_wait" => waitCnt <= 3)
    BY Ranges, Zenon DEF LoopIInv, Counters
  <2>2. waitCnt' = 0 \/ (waitCnt' = waitCnt + 1 /\ waitCnt # 15)
    <3>1. waitCnt' = IF ctl' = ctl
               /\ ctl \in {"iterate_head_wait", "iterate_judge_wait", "wait"}
                       THEN waitCnt + 1 ELSE 0
      BY CtlMoves
    <3>2. waitCnt = 15 /\ ctl \in {"iterate_judge_wait", "wait"} => ctl' # ctl
      BY CtlMoves
    <3>3. waitCnt = 15 => ctl # "iterate_head_wait"
      BY <2>1, SMT
    <3>4. CASE ctl' = ctl /\ ctl \in {"iterate_judge_wait", "wait"}
      BY <3>1, <3>2, <3>4
    <3>5. CASE ctl' = ctl /\ ctl = "iterate_head_wait"
      BY <3>1, <3>3, <3>5
    <3>6. CASE ~(ctl' = ctl /\ ctl \in {"iterate_head_wait", "iterate_judge_wait", "wait"})
      <4>1. waitCnt' = 0
        BY <3>1, <3>6, Zenon
      <4> QED BY <4>1, Zenon
    <3> QED BY <3>4, <3>5, <3>6
  <2> QED BY <2>1, <2>2, SMT
<1>4. /\ beginTemp' \in [1..3 -> BOOLEAN] /\ reqR' \in [1..4 -> BOOLEAN]
      /\ algReqR' \in [1..2 -> BOOLEAN] /\ layerR' \in [1..2 -> BOOLEAN]
  BY <1>1, AxiChains
<1>5. /\ beginFlag' \in BOOLEAN /\ ack' \in BOOLEAN /\ headNeedR' \in BOOLEAN
      /\ algAck' \in BOOLEAN /\ wrNeedR' \in BOOLEAN /\ posR' \in BOOLEAN
      /\ wrFinish' \in BOOLEAN
  <2>1. /\ beginFlag' = (beginTemp[2] \/ (beginFlag /\ ~algReqR[2]))
        /\ ack' = (ctl = "ready" /\ headNeedR /\ reqR[4])
        /\ headNeedR' = (headSeen = headPops)
        /\ algAck' = algReqR[2] /\ wrNeedR' = wrNeedPipe[3]
        /\ posR' = (beginTemp[2] /\ ~beginTemp[3])
        /\ wrFinish' = (ctl = "image_wr" /\ done)
    BY <1>1, Zenon DEF AxiEdge, Transfer!Clk, Transfer!BeginFlagNext, Transfer!AckNext,
       Transfer!HeadGoes, Transfer!BeginPos, HeadEmpty
  <2>2. algReqR \in [1..2 -> BOOLEAN] /\ wrNeedPipe \in [1..3 -> BOOLEAN]
    BY <1>1 DEF LoopTypeOK, Transfer!TypeOK
  <2>3. algReqR[2] \in BOOLEAN /\ wrNeedPipe[3] \in BOOLEAN
    BY <2>2
  <2> QED BY <2>1, <2>3, Zenon
<1>6. base' \in [{"rd", "wr"} -> 1..2] /\ addr' \in [{"rd", "wr"} -> 1..2]
  <2>1. base \in [{"rd", "wr"} -> 1..2] /\ base.rd \in 1..2 /\ base.wr \in 1..2
        /\ addr.rd \in 1..2 /\ addr.wr \in 1..2
    <3>1. base \in [{"rd", "wr"} -> 1..2]
      BY <1>1 DEF LoopTypeOK, Transfer!TypeOK
    <3> QED BY <3>1, BankMoves
  <2>2. 3 - base.rd \in 1..2 /\ 3 - base.wr \in 1..2 /\ 1 \in 1..2 /\ 2 \in 1..2
    BY <2>1, SMT
  <2>3. ASSUME NEW x \in 1..2, NEW y \in 1..2
        PROVE  [rd |-> x, wr |-> y] \in [{"rd", "wr"} -> 1..2]
    OBVIOUS
  <2>4. base' = IF beginTemp[2] /\ ~beginTemp[3] THEN [rd |-> 1, wr |-> 2]
                ELSE IF layerR[1] THEN [rd |-> 3 - base.rd, wr |-> 3 - base.wr] ELSE base
    BY <1>1, Zenon DEF AxiEdge, Transfer!Clk, Transfer!BaseNext, Transfer!BeginPos
  <2>5. addr' = [rd |-> IF beginTemp[2] /\ ~beginTemp[3] THEN 1
                        ELSE IF (wrNeedPipe[3] /\ ~wrNeedR) \/ layerR[2]
                          THEN base.rd ELSE addr.rd,
                 wr |-> IF posR \/ layerR[2] THEN base.wr ELSE addr.wr]
    BY <1>1, Zenon DEF AxiEdge, Transfer!Clk, Transfer!AddrNext, Transfer!BeginPos
  <2>6. base' \in [{"rd", "wr"} -> 1..2]
    BY <2>1, <2>2, <2>3, <2>4
  <2>7. addr' \in [{"rd", "wr"} -> 1..2]
    <3>1. (IF beginTemp[2] /\ ~beginTemp[3] THEN 1
           ELSE IF (wrNeedPipe[3] /\ ~wrNeedR) \/ layerR[2] THEN base.rd ELSE addr.rd) \in 1..2
      BY <2>1, <2>2
    <3>2. (IF posR \/ layerR[2] THEN base.wr ELSE addr.wr) \in 1..2
      BY <2>1
    <3> QED BY <2>3, <2>5, <3>1, <3>2
  <2> QED BY <2>6, <2>7
<1> QED BY <1>2, <1>3, <1>4, <1>5, <1>6, Zenon DEF Transfer!TypeOK

(* So do all registers of axi_clk ... *)
LEMMA AxiTypesStep ==
  ASSUME LoopIInv, NEW a, NEW d, NEW done, NEW k, NEW i, NEW m,
         Tick(a, d), Step(a, d, done, k, i, m), a
  PROVE  AxiTypes'
<1>1. AxiEdge(done) /\ LoopTypeOK /\ AxiTypes
  BY TypeParts DEF Step, LoopIInv
<1>2. /\ wrNeedPipe' \in [1..3 -> BOOLEAN] /\ retReadyR' \in [1..2 -> BOOLEAN]
      /\ finishSlow' \in [1..3 -> BOOLEAN] /\ inforAxi' \in [1..2 -> BOOLEAN]
      /\ updateAxi' \in [1..2 -> BOOLEAN]
  BY <1>1, AxiChains
<1>3. retFlag' \in BOOLEAN /\ beginSlow' \in BOOLEAN
  BY <1>1, Zenon DEF AxiEdge, ReturnFlag, PsLines
<1>4. /\ rdFinish' \in BOOLEAN /\ imageReady' \in BOOLEAN /\ imageNeed' \in BOOLEAN
  BY <1>1, Zenon DEF AxiEdge, ReadBuffer
<1>5. headImage' \in BOOLEAN /\ fetched' \in BOOLEAN
  <2>1. Asks(done) /\ headImage \in BOOLEAN
    BY <1>1, Zenon DEF AxiEdge, AxiTypes
  <2>2. CASE ctl = "head_rd" /\ done
    <3>1. /\ headImage' \in (IF Kernels > 0 THEN {FALSE}
                             ELSE IF imageReady THEN BOOLEAN ELSE {TRUE})
          /\ fetched' = ~headImage'
      BY <2>1, <2>2, Zenon DEF Asks
    <3> QED BY <3>1
  <2>3. CASE ~(ctl = "head_rd" /\ done)
    <3>1. headImage' = headImage /\ fetched' = (fetched \/ (ctl = "image_rd" /\ done))
      BY <2>1, <2>3, Zenon DEF Asks
    <3> QED BY <2>1, <3>1, Zenon
  <2> QED BY <2>2, <2>3
<1>6. headWrites' \in 0..3 /\ mapsWritten' \in 0..3
  <2>1. headWrites \in 0..3 /\ mapsWritten \in 0..3
    BY <1>1, Zenon DEF AxiTypes
  <2>2. headWrites' \in {headWrites, (headWrites + 1) % 4}
    BY HeadMoves
  <2>3. mapsWritten' \in {mapsWritten, (mapsWritten + 1) % 4}
    BY MapMoves
  <2> QED BY <2>1, <2>2, <2>3, SMT
<1>7. kernelWrites' \in 0..7
  <2>1. Arrives(done) /\ kernelWrites \in 0..7
    BY <1>1, Zenon DEF AxiEdge, AxiTypes
  <2>2. kernelWrites' = kernelWrites
             \/ \E n \in 1..KernelBatch : kernelWrites' = (kernelWrites + n) % 8
    BY <2>1, Zenon DEF Arrives
  <2>3. ASSUME NEW n \in 1..KernelBatch PROVE (kernelWrites + n) % 8 \in 0..7
    <3>1. n \in Int
      BY <2>3, RoundsAssumption, SMT
    <3> QED BY <2>1, <3>1, SMT
  <2> QED BY <2>1, <2>2, <2>3
<1>8. latency' \in 0..HeadLatency
  <2>1. latency \in 0..HeadLatency
             /\ (latency' = 0 \/ (latency' = latency + 1 /\ latency # HeadLatency))
    <3>1. latency' = (IF ctl = "head_rd" /\ ~done THEN latency + 1 ELSE 0)
          /\ (ctl = "head_rd" /\ latency = HeadLatency => done)
      BY HeadMoves, CtlMoves
    <3>2. latency \in 0..HeadLatency
      BY Ranges
    <3>3. CASE ctl = "head_rd" /\ ~done
      BY <3>1, <3>2, <3>3
    <3>4. CASE ~(ctl = "head_rd" /\ ~done)
      <4>1. latency' = 0
        BY <3>1, <3>4, Zenon
      <4> QED BY <3>2, <4>1, Zenon
    <3> QED BY <3>3, <3>4
  <2> QED BY <2>1, Numbers, SMT
<1>9. ps' \in {"gap", "start", "wait_rise", "wait_fall"} /\ psCnt' \in 0..StartCycles
  <2>1. ps \in {"gap", "start", "wait_rise", "wait_fall"} /\ psCnt \in 0..StartCycles
    BY Ranges
  <2>2. ps' \in {"gap", "start", "wait_rise", "wait_fall"}
        /\ (psCnt' = 0 \/ (psCnt' = psCnt + 1 /\ psCnt # StartCycles))
    <3>1. CASE ps = "gap" /\ psCnt = StartCycles
      <4>1. ps' = "start" /\ psCnt' = 0
        BY <3>1, PsMoves, Zenon
      <4> QED BY <4>1, Zenon
    <3>2. CASE ps = "gap" /\ psCnt # StartCycles
      <4>1. ps' = "gap" /\ psCnt' = psCnt + 1
        BY <3>2, PsMoves, Zenon
      <4> QED BY <3>2, <4>1, Zenon
    <3>3. CASE ps = "start" /\ psCnt = StartCycles
      <4>1. ps' = "wait_rise" /\ psCnt' = 0
        BY <3>3, PsMoves, Zenon
      <4> QED BY <4>1, Zenon
    <3>4. CASE ps = "start" /\ psCnt # StartCycles
      <4>1. ps' = "start" /\ psCnt' = psCnt + 1
        BY <3>4, PsMoves, Zenon
      <4> QED BY <3>4, <4>1, Zenon
    <3>5. CASE ps = "wait_rise"
      <4>1. ps' = (IF finishSlow[3] THEN "wait_fall" ELSE "wait_rise") /\ psCnt' = 0
        BY <3>5, PsMoves, Zenon
      <4> QED BY <4>1, Zenon
    <3>6. CASE ps = "wait_fall"
      <4>1. ps' = (IF finishSlow[3] THEN "wait_fall" ELSE "gap") /\ psCnt' = 0
        BY <3>6, PsMoves, Zenon
      <4> QED BY <4>1, Zenon
    <3> QED BY <2>1, <3>1, <3>2, <3>3, <3>4, <3>5, <3>6
  <2> QED BY <2>1, <2>2, Numbers, SMT
<1>10. Transfer!TypeOK'
  BY TransferTypes
<1> QED BY <1>2, <1>3, <1>4, <1>5, <1>6, <1>7, <1>8, <1>9, <1>10, Zenon DEF AxiTypes

(* ... and of deal_clk. *)
LEMMA DealTypesStep ==
  ASSUME LoopIInv, NEW a, NEW d, NEW done, NEW k, NEW i, NEW m,
         Tick(a, d), Step(a, d, done, k, i, m), d
  PROVE  DealTypes'
<1>1. DealEdge(k, i, m) /\ LoopTypeOK /\ DealTypes /\ IInv
  BY TypeParts DEF Step, LoopIInv
<1>2. /\ ackR' \in [1..2 -> BOOLEAN] /\ algAckR' \in [1..2 -> BOOLEAN]
      /\ wrFinishR' \in [1..2 -> BOOLEAN] /\ flagR' \in [1..2 -> BOOLEAN]
      /\ readyTemp' \in [1..2 -> BOOLEAN] /\ beginR' \in [1..3 -> BOOLEAN]
      /\ infor' \in [1..2 -> BOOLEAN] /\ imageReadyR' \in [1..2 -> BOOLEAN]
  BY <1>1, DealChains
<1>3. TypeOK'
  <2>1. Edge(BeginInter, k, i, m, ReturnAxi, ReadyPos)
    BY StateMoves
  <2> QED BY <1>1, <2>1, TypeStep
<1>4. req' \in BOOLEAN /\ algReq' \in BOOLEAN /\ wrNeedTemp' \in BOOLEAN
  BY <1>1, Zenon DEF DealEdge, Requests, ReqNext, WrNeedNext
<1>5. retReady' \in BOOLEAN
  <2>1. flagR \in [1..2 -> BOOLEAN] /\ retReady' = flagR[2]
    BY <1>1, Zenon DEF DealEdge, ReturnReady, DealTypes
  <2> QED BY <2>1
<1>6. loadHead' \in BOOLEAN /\ headQ' \in BOOLEAN /\ imageUpdate' \in BOOLEAN
      /\ round' \in 1..RoundsPerMap
  <2>1. LoadHead /\ headQ \in BOOLEAN /\ headImage \in BOOLEAN /\ round \in 1..RoundsPerMap
    BY <1>1, Zenon DEF DealEdge, DealTypes, LoopTypeOK
  <2>2. loadHead' = (state = "load_head" \/ (loadHead /\ ~LoadHeadRd))
        /\ headQ' = (IF LoadHeadRd THEN headImage ELSE headQ) /\ imageUpdate' = headQ
        /\ round' = IF LoadHeadRd THEN (round % RoundsPerMap) + 1 ELSE round
    BY <2>1, Zenon DEF LoadHead
  <2>3. (round % RoundsPerMap) + 1 \in 1..RoundsPerMap
    BY <2>1, RoundsAssumption, SMT
  <2>4. loadHead' \in BOOLEAN
    BY <2>2, Zenon
  <2> QED BY <2>1, <2>2, <2>3, <2>4
<1>7. headSeen' \in 0..3 /\ headPops' \in 0..3
  <2>1. headWrites \in 0..3 /\ headPops \in 0..3
    BY <1>1, Zenon DEF LoopTypeOK
  <2>2. headSeen' = headWrites /\ headPops' \in {headWrites, headPops, (headPops + 1) % 4}
    BY HeadMoves
  <2> QED BY <2>1, <2>2, SMT
<1>8. mapsDone' \in 0..3 /\ kernelReads' \in 0..7
  <2>1. mapsDone \in 0..3 /\ kernelReads \in 0..7
    BY <1>1, Zenon DEF DealTypes
  <2>2. mapsDone' \in {mapsDone, (mapsDone + 1) % 4}
    BY MapMoves
  <2>3. kernelReads' = IF k THEN (kernelReads + 1) % 8 ELSE kernelReads
    BY <1>1, Zenon DEF DealEdge
  <2> QED BY <2>1, <2>2, <2>3, SMT
<1>9. inforDelay' \in 0..15 /\ inforLong' \in BOOLEAN
  <2>1. Stretch /\ inforDelay \in 0..15
    BY <1>1, Zenon DEF DealEdge, DealTypes
  <2>2. inforDelay' = (IF inforDelay # 0 \/ infor[2] THEN (inforDelay + 1) % 16 ELSE 0)
        /\ inforLong' = (inforDelay # 0)
    BY <2>1, Zenon DEF Stretch
  <2>3. (inforDelay + 1) % 16 \in 0..15
    BY <2>1, SMT
  <2> QED BY <2>2, <2>3
<1> QED BY <1>2, <1>3, <1>4, <1>5, <1>6, <1>7, <1>8, <1>9, Zenon DEF DealTypes

(* Together. *)
LEMMA LoopTypeStep ==
  ASSUME LoopIInv, NEW a, NEW d, NEW done, NEW k, NEW i, NEW m,
         Tick(a, d), Step(a, d, done, k, i, m), phase' \in 0..7
  PROVE  LoopTypeOK'
<1>1. AxiTypes /\ DealTypes
  BY TypeParts DEF LoopIInv
<1>2. AxiTypes'
  <2>1. CASE a
    BY <2>1, AxiTypesStep
  <2>2. CASE ~a
    <3>1. UNCHANGED axiVars
      BY <2>2 DEF Step
    <3>2. /\ ctl' = ctl /\ waitCnt' = waitCnt /\ beginTemp' = beginTemp
          /\ beginFlag' = beginFlag /\ reqR' = reqR /\ ack' = ack
          /\ headNeedR' = headNeedR /\ algReqR' = algReqR /\ algAck' = algAck
          /\ layerR' = layerR /\ base' = base /\ addr' = addr
          /\ wrNeedR' = wrNeedR /\ posR' = posR /\ wrFinish' = wrFinish
      BY <3>1, Zenon DEF axiVars
    <3>3. /\ wrNeedPipe' = wrNeedPipe /\ retFlag' = retFlag /\ retReadyR' = retReadyR
          /\ beginSlow' = beginSlow /\ finishSlow' = finishSlow
          /\ headWrites' = headWrites /\ kernelWrites' = kernelWrites
          /\ latency' = latency /\ ps' = ps /\ psCnt' = psCnt
          /\ mapsWritten' = mapsWritten /\ rdFinish' = rdFinish
          /\ inforAxi' = inforAxi /\ updateAxi' = updateAxi
          /\ imageReady' = imageReady /\ imageNeed' = imageNeed
          /\ headImage' = headImage /\ fetched' = fetched
      BY <3>1, Zenon DEF axiVars
    <3>4. Transfer!TypeOK'
      BY <1>1, <3>2, Zenon DEF AxiTypes, Transfer!TypeOK
    <3> QED BY <1>1, <3>3, <3>4, Zenon DEF AxiTypes
  <2> QED BY <2>1, <2>2
<1>3. DealTypes'
  <2>1. CASE d
    BY <2>1, DealTypesStep
  <2>2. CASE ~d
    <3>1. UNCHANGED dealVars
      BY <2>2 DEF Step
    <3>2. /\ state' = state /\ headDelayCnt' = headDelayCnt /\ interCnt' = interCnt
          /\ layerState' = layerState /\ layer' = layer /\ convCnt' = convCnt
          /\ oneLayerFinish' = oneLayerFinish /\ activation' = activation
          /\ algorithmFinish' = algorithmFinish /\ returned' = returned
      BY <3>1, Zenon DEF dealVars
    <3>3. /\ req' = req /\ ackR' = ackR /\ algReq' = algReq /\ algAckR' = algAckR
          /\ wrNeedTemp' = wrNeedTemp /\ wrFinishR' = wrFinishR /\ flagR' = flagR
          /\ retReady' = retReady /\ readyTemp' = readyTemp /\ beginR' = beginR
          /\ loadHead' = loadHead /\ headSeen' = headSeen /\ headPops' = headPops
          /\ kernelReads' = kernelReads /\ round' = round /\ mapsDone' = mapsDone
          /\ headQ' = headQ /\ imageUpdate' = imageUpdate /\ infor' = infor
          /\ inforDelay' = inforDelay /\ inforLong' = inforLong
          /\ imageReadyR' = imageReadyR
      BY <3>1, Zenon DEF dealVars
    <3>4. TypeOK'
      BY <1>1, <3>2, Zenon DEF DealTypes, TypeOK
    <3> QED BY <1>1, <3>3, <3>4, Zenon DEF DealTypes
  <2> QED BY <2>1, <2>2
<1>4. LoopTypeOK' <=> AxiTypes' /\ DealTypes' /\ phase' \in 0..7
  BY Zenon DEF LoopTypeOK, AxiTypes, DealTypes
<1> QED BY <1>2, <1>3, <1>4

-----------------------------------------------------------------------------
(* The invariant is inductive. *)

(* The process side of an edge is an edge of ProcessControl. *)
LEMMA ProcessStep ==
  ASSUME LoopIInv, NEW a, NEW d, NEW done, NEW k, NEW i, NEW m,
         Tick(a, d), Step(a, d, done, k, i, m)
  PROVE  IInv'
<1>1. IInv
  BY DEF LoopIInv
<1>2. CASE d
  <2>1. Edge(BeginInter, k, i, m, ReturnAxi, ReadyPos)
    BY <1>2, StateMoves
  <2> QED BY <1>1, <2>1, TypeStep, TogetherStep, CountBoundStep, CountExactStep,
             PulseStep, ActivationStep DEF IInv
<1>3. CASE ~d
  <2>1. UNCHANGED dealVars
    BY <1>3 DEF Step
  <2>2. /\ state' = state /\ headDelayCnt' = headDelayCnt /\ interCnt' = interCnt
        /\ layerState' = layerState /\ layer' = layer /\ convCnt' = convCnt
        /\ oneLayerFinish' = oneLayerFinish /\ activation' = activation
        /\ algorithmFinish' = algorithmFinish /\ returned' = returned
    BY <2>1, Zenon DEF dealVars
  <2>3. TypeOK' /\ Together' /\ Pulse' /\ ActivationLag'
    BY <1>1, <2>2, Zenon DEF IInv, TypeOK, Together, Pulse, ActivationLag
  <2>4. CountBound' /\ CountExact'
    BY <1>1, <2>2, Zenon DEF IInv, CountBound, CountExact
  <2> QED BY <2>3, <2>4 DEF IInv
<1> QED BY <1>2, <1>3

(* A step keeps the inductive invariant ... *)
LEMMA EdgeKeeps ==
  ASSUME LoopIInv, LoopNext
  PROVE  LoopIInv'
<1>1. phase \in 0..7 /\ phase' \in 0..7
  <2>1. phase \in 0..7
    BY Zenon DEF LoopIInv, LoopTypeOK
  <2>2. \/ phase' = 1
        \/ phase' = phase + 1 /\ phase \in {2, 4, 6}
        \/ phase' = (phase + 1) % 8
    BY Zenon DEF LoopNext, Both, AxiOnly, DealOnly
  <2> QED BY <2>1, <2>2, SMT
<1>2. PICK a, d, done, k, i, m : Tick(a, d) /\ Step(a, d, done, k, i, m)
  BY <1>1, NextIsStep
<1>3. phase' = 0 => ~a
  BY <1>2 DEF Tick, Odd
<1>4. LoopTypeOK' /\ IInv'
  BY <1>1, <1>2, LoopTypeStep, ProcessStep
<1>5. Counters' /\ Begins' /\ Finishes' /\ Algs'
  BY <1>2, CountersStep, BeginsStep, FinishesStep, AlgsStep
<1>6. Rounds' /\ Answers' /\ Needs' /\ Banks'
  BY <1>1, <1>2, <1>3, RoundsStep, AnswersStep, NeedsStep, BanksStep
<1> QED BY <1>4, <1>5, <1>6 DEF LoopIInv

(* ... and so does a stutter ... *)
LEMMA StutterKeeps ==
  ASSUME LoopIInv, UNCHANGED loopVars
  PROVE  LoopIInv'
<1>1. UNCHANGED axiVars /\ UNCHANGED dealVars /\ phase' = phase
  BY Zenon DEF loopVars
<1>2. /\ ctl' = ctl /\ waitCnt' = waitCnt /\ beginTemp' = beginTemp
      /\ beginFlag' = beginFlag /\ reqR' = reqR /\ ack' = ack
      /\ headNeedR' = headNeedR /\ algReqR' = algReqR /\ algAck' = algAck
      /\ layerR' = layerR /\ base' = base /\ addr' = addr
      /\ wrNeedR' = wrNeedR /\ posR' = posR /\ wrFinish' = wrFinish
      /\ wrNeedPipe' = wrNeedPipe /\ retFlag' = retFlag /\ retReadyR' = retReadyR
      /\ beginSlow' = beginSlow /\ finishSlow' = finishSlow /\ headWrites' = headWrites
      /\ kernelWrites' = kernelWrites /\ latency' = latency /\ ps' = ps
      /\ psCnt' = psCnt /\ mapsWritten' = mapsWritten /\ rdFinish' = rdFinish
      /\ inforAxi' = inforAxi /\ updateAxi' = updateAxi /\ imageReady' = imageReady
      /\ imageNeed' = imageNeed /\ headImage' = headImage /\ fetched' = fetched
  BY <1>1, Zenon DEF axiVars
<1>3. /\ state' = state /\ headDelayCnt' = headDelayCnt /\ interCnt' = interCnt
      /\ layerState' = layerState /\ layer' = layer /\ convCnt' = convCnt
      /\ oneLayerFinish' = oneLayerFinish /\ activation' = activation
           /\ algorithmFinish' = algorithmFinish
      /\ returned' = returned /\ req' = req /\ ackR' = ackR
      /\ algReq' = algReq /\ algAckR' = algAckR /\ wrNeedTemp' = wrNeedTemp
      /\ wrFinishR' = wrFinishR /\ flagR' = flagR /\ retReady' = retReady
      /\ readyTemp' = readyTemp /\ beginR' = beginR /\ loadHead' = loadHead
      /\ headSeen' = headSeen /\ headPops' = headPops /\ kernelReads' = kernelReads
      /\ round' = round /\ mapsDone' = mapsDone /\ headQ' = headQ
      /\ imageUpdate' = imageUpdate /\ infor' = infor /\ inforDelay' = inforDelay
      /\ inforLong' = inforLong /\ imageReadyR' = imageReadyR
  BY <1>1, Zenon DEF dealVars
<1>4. NextAxi' = NextAxi /\ NextDeal' = NextDeal /\ (Odd' <=> Odd)
      /\ (Rest' <=> Rest) /\ (AtRest' <=> AtRest) /\ (ReturnAxi' <=> ReturnAxi)
  BY <1>1, <1>2, <1>3, Zenon DEF NextAxi, NextDeal, Odd, Rest, AtRest, ReturnAxi
<1>5. /\ BeginTime' = BeginTime /\ KernelTime' = KernelTime
      /\ IdleTime' = IdleTime /\ JudgeTime' = JudgeTime
  BY <1>2, <1>3, <1>4, Zenon DEF BeginTime, KernelTime, IdleTime, JudgeTime, A, D
<1>6. /\ StartTime' = StartTime /\ AlgTime' = AlgTime /\ AnswerTime' = AnswerTime
      /\ AskTime' = AskTime
  <2>1. StartTime' = StartTime /\ AlgTime' = AlgTime
    BY <1>2, <1>3, <1>4, <1>5, Zenon DEF StartTime, AlgTime
  <2>2. AnswerTime' = AnswerTime
    BY <1>2, <1>3, <1>4, <1>5, SMT DEF AnswerTime, D
  <2>3. Missing' = Missing
    BY <1>2, Zenon DEF Missing
  <2>4. AskTime' = AskTime
    BY <1>2, <1>4, <2>3, Zenon DEF AskTime, A
  <2> QED BY <2>1, <2>2, <2>4
<1>7. LoopTypeOK'
  <2>1. Transfer!TypeOK'
    BY <1>2, Zenon DEF LoopIInv, LoopTypeOK, Transfer!TypeOK
  <2>2. TypeOK'
    BY <1>3, Zenon DEF LoopIInv, LoopTypeOK, TypeOK
  <2>3. AxiTypes /\ DealTypes /\ phase \in 0..7
    BY TypeParts DEF LoopIInv
  <2>4. AxiTypes'
    BY <1>2, <2>1, <2>3, Zenon DEF AxiTypes
  <2>5. DealTypes'
    BY <1>3, <2>2, <2>3, Zenon DEF DealTypes
  <2>6. LoopTypeOK' <=> AxiTypes' /\ DealTypes' /\ phase' \in 0..7
    BY Zenon DEF LoopTypeOK, AxiTypes, DealTypes
  <2> QED BY <1>1, <2>3, <2>4, <2>5, <2>6
<1>8. IInv'
  <2>1. TypeOK' /\ Together' /\ Pulse' /\ ActivationLag'
    BY <1>3, Zenon DEF LoopIInv, IInv, TypeOK, Together, Pulse, ActivationLag
  <2>2. CountBound' /\ CountExact'
    BY <1>3, Zenon DEF LoopIInv, IInv, CountBound, CountExact
  <2> QED BY <2>1, <2>2 DEF IInv
<1>9. Counters' /\ Finishes'
  BY <1>2, <1>3, <1>4, Zenon DEF LoopIInv, Counters, Finishes
<1>10. Begins'
  BY <1>2, <1>3, <1>4, <1>5, <1>6, Zenon DEF LoopIInv, Begins, BeginBy, A, D
<1>11. Algs'
  <2>1. AlgBy(AlgTime)' <=> AlgBy(AlgTime)
    BY <1>2, <1>3, <1>4, <1>6, SMT DEF AlgBy, AlgUp, AlgDown, A, D
  <2>2. FlagBy(IdleTime)' <=> FlagBy(IdleTime)
    BY <1>2, <1>3, <1>4, <1>5, Zenon DEF FlagBy, A, D
  <2> QED BY <1>2, <1>3, <1>4, <2>1, <2>2, Zenon DEF LoopIInv, Algs
<1>12. Answers' /\ Needs'
  <2>1. ToDrop' = ToDrop
    BY <1>2, <1>4, Zenon DEF ToDrop, A
  <2>2. RetBy(AnswerTime)' <=> RetBy(AnswerTime)
    BY <1>2, <1>3, <1>4, <1>6, <2>1, Zenon DEF RetBy, A, D
  <2>3. NeedBy(IdleTime)' <=> NeedBy(IdleTime)
    BY <1>2, <1>3, <1>4, <1>5, Zenon DEF NeedBy, A, D
  <2>4. Answers'
    BY <1>3, <2>2, Zenon DEF LoopIInv, Answers
  <2>5. Needs'
    BY <1>2, <1>3, <2>3, Zenon DEF LoopIInv, Needs
  <2> QED BY <2>4, <2>5
<1>13. Rounds'
  <2>1. (ReqUp' <=> ReqUp) /\ (NoAck' <=> NoAck) /\ (NoHead' <=> NoHead)
        /\ (Unmade' <=> Unmade) /\ (Late' <=> Late) /\ HeadsAhead' = HeadsAhead
    BY <1>2, <1>3, <1>4, Zenon DEF ReqUp, NoAck, NoHead, Unmade, Late, HeadsAhead
  <2>2. /\ ReqFalls(BeginTime)' <=> ReqFalls(BeginTime)
        /\ ReqBy(0)' <=> ReqBy(0)
        /\ ReqBy(JudgeTime)' <=> ReqBy(JudgeTime)
    BY <1>2, <1>3, <1>4, <1>5, Zenon DEF ReqFalls, ReqBy, A, D
  <2>3. (Wanted' <=> Wanted) /\ (Reading' <=> Reading)
    BY <1>2, <1>3, <1>4, <1>5, <1>6, <2>1, <2>2, Zenon DEF Wanted, Reading, A
  <2>4. (Arrived' <=> Arrived) /\ (Popped' <=> Popped)
    BY <1>2, <1>3, <1>4, <1>5, <1>6, <2>1, <2>2, Zenon DEF Arrived, Popped, D
  <2>5. (Sending' <=> Sending) /\ (SendBefore' <=> SendBefore)
    BY <1>2, <1>3, <2>1, Zenon DEF Sending, SendBefore, RetLow, RetUp
  <2>6. SendAfter' <=> SendAfter
    <3>1. ToEnd' = ToEnd /\ ToDrop' = ToDrop
      BY <1>2, <1>3, <1>4, Zenon DEF ToEnd, ToDrop, A, D
    <3>2. RetRises(IdleTime - 23)' <=> RetRises(IdleTime - 23)
      BY <1>2, <1>3, <1>4, <1>5, <3>1, SMT DEF RetRises, RetUp, A, D
    <3> QED BY <1>2, <1>3, <3>2, Zenon DEF SendAfter
  <2> QED BY <1>2, <1>3, <1>4, <1>5, <2>1, <2>2, <2>3, <2>4, <2>5, <2>6, Zenon
             DEF LoopIInv, Rounds, A, D
<1>14. Banks'
  <2>1. Lay' = Lay /\ (LayLow' <=> LayLow) /\ (AnswerPhases' <=> AnswerPhases)
    <3>1. Lay' = Lay /\ (LayLow' <=> LayLow)
      BY <1>2, <1>3, Zenon DEF Lay, LayLow
    <3>2. AnswerPhases' <=> AnswerPhases
      BY <1>1, <1>2, <1>3, <1>4, SMT DEF AnswerPhases, RetUp
    <3> QED BY <3>1, <3>2
  <2>2. (BankBy(IdleTime)' <=> BankBy(IdleTime)) /\ (LayBy(BeginTime)' <=> LayBy(BeginTime))
    BY <1>2, <1>3, <1>4, <1>5, <2>1, Zenon DEF BankBy, LayBy, BaseIs, AddrIs, A, D
  <2> QED BY <1>1, <1>2, <1>3, <1>4, <2>1, <2>2, Zenon DEF LoopIInv, Banks, BaseIs, AddrIs
<1> QED BY <1>7, <1>8, <1>9, <1>10, <1>11, <1>12, <1>13, <1>14 DEF LoopIInv

(* The chains as they are written in Init are functions. *)
LEMMA TupleTypes ==
  ASSUME NEW s
  PROVE  /\ s = <<FALSE, FALSE>> => s \in [1..2 -> BOOLEAN]
         /\ s = <<FALSE, FALSE, FALSE>> => s \in [1..3 -> BOOLEAN]
         /\ s = <<FALSE, FALSE, FALSE, FALSE>> => s \in [1..4 -> BOOLEAN]
<1>1. ASSUME s = <<FALSE, FALSE>> PROVE s \in [1..2 -> BOOLEAN]
  <2>1. s \in Seq(BOOLEAN) /\ Len(s) = 2
    BY <1>1
  <2> QED BY <2>1, LenProperties, Zenon
<1>2. ASSUME s = <<FALSE, FALSE, FALSE>> PROVE s \in [1..3 -> BOOLEAN]
  <2>1. s \in Seq(BOOLEAN) /\ Len(s) = 3
    BY <1>2
  <2> QED BY <2>1, LenProperties, Zenon
<1>3. ASSUME s = <<FALSE, FALSE, FALSE, FALSE>> PROVE s \in [1..4 -> BOOLEAN]
  <2>1. s \in Seq(BOOLEAN) /\ Len(s) = 4
    BY <1>3
  <2> QED BY <2>1, LenProperties, Zenon
<1> QED BY <1>1, <1>2, <1>3

(* ... and it holds at reset. *)
LEMMA InitLoopIInv == LoopInit => LoopIInv
<1> SUFFICES ASSUME LoopInit PROVE LoopIInv
  OBVIOUS
<1>1. Transfer!Init /\ Init /\ IInv
  BY InitIInv DEF LoopInit
<1>2. /\ Off(2) \in [1..2 -> BOOLEAN] /\ Off(3) \in [1..3 -> BOOLEAN]
      /\ Off(2)[1] = FALSE /\ Off(2)[2] = FALSE
      /\ Off(3)[1] = FALSE /\ Off(3)[2] = FALSE /\ Off(3)[3] = FALSE
  BY DEF Off
<1>3. /\ beginTemp \in [1..3 -> BOOLEAN] /\ reqR \in [1..4 -> BOOLEAN]
      /\ algReqR \in [1..2 -> BOOLEAN] /\ layerR \in [1..2 -> BOOLEAN]
      /\ beginTemp[1] = FALSE /\ beginTemp[2] = FALSE /\ beginTemp[3] = FALSE
      /\ reqR[1] = FALSE /\ reqR[2] = FALSE /\ reqR[3] = FALSE /\ reqR[4] = FALSE
      /\ algReqR[1] = FALSE /\ algReqR[2] = FALSE
      /\ layerR[1] = FALSE /\ layerR[2] = FALSE
  <2>1. beginTemp = <<FALSE, FALSE, FALSE>> /\ reqR = <<FALSE, FALSE, FALSE, FALSE>>
        /\ algReqR = <<FALSE, FALSE>> /\ layerR = <<FALSE, FALSE>>
    BY <1>1 DEF Transfer!Init
  <2>2. beginTemp \in [1..3 -> BOOLEAN] /\ reqR \in [1..4 -> BOOLEAN]
    BY <2>1, TupleTypes, Zenon
  <2>3. algReqR \in [1..2 -> BOOLEAN] /\ layerR \in [1..2 -> BOOLEAN]
    BY <2>1, TupleTypes, Zenon
  <2>4. beginTemp[1] = FALSE /\ beginTemp[2] = FALSE /\ beginTemp[3] = FALSE
    BY <2>1
  <2>5. reqR[1] = FALSE /\ reqR[2] = FALSE /\ reqR[3] = FALSE /\ reqR[4] = FALSE
    BY <2>1
  <2>6. /\ algReqR[1] = FALSE /\ algReqR[2] = FALSE
        /\ layerR[1] = FALSE /\ layerR[2] = FALSE
    BY <2>1
  <2> QED BY <2>2, <2>3, <2>4, <2>5, <2>6
<1>4. /\ ctl = "idle" /\ waitCnt = 0 /\ beginFlag = FALSE /\ ack = FALSE
      /\ headNeedR = FALSE /\ algAck = FALSE /\ wrNeedR = FALSE /\ posR = FALSE
      /\ wrFinish = FALSE /\ base = [rd |-> 1, wr |-> 2] /\ addr = [rd |-> 1, wr |-> 2]
  BY <1>1 DEF Transfer!Init
<1>5. /\ state = "idle" /\ headDelayCnt = 0 /\ layerState = "idle"
      /\ oneLayerFinish = FALSE /\ algorithmFinish = FALSE
  BY <1>1 DEF Init
<1>6. /\ wrNeedPipe = Off(3) /\ retFlag = FALSE /\ retReadyR = Off(2)
      /\ beginSlow = FALSE /\ finishSlow = Off(3) /\ headWrites = 0
      /\ kernelWrites = 0 /\ latency = 0 /\ ps = "gap" /\ psCnt = 0
      /\ mapsWritten = 0 /\ rdFinish = FALSE /\ inforAxi = Off(2)
      /\ updateAxi = Off(2) /\ imageReady = FALSE /\ imageNeed = FALSE
      /\ headImage = FALSE /\ fetched = TRUE
  BY DEF LoopInit
<1>7. /\ req = FALSE /\ ackR = Off(2) /\ algReq = FALSE /\ algAckR = Off(2)
      /\ wrNeedTemp = FALSE /\ wrFinishR = Off(2) /\ flagR = Off(2)
      /\ retReady = FALSE /\ readyTemp = Off(2) /\ beginR = Off(3)
      /\ loadHead = FALSE /\ headSeen = 0 /\ headPops = 0 /\ kernelReads = 0
      /\ phase = 0 /\ round = RoundsPerMap /\ mapsDone = 0 /\ headQ = FALSE
      /\ imageUpdate = FALSE /\ infor = Off(2) /\ inforDelay = 0
      /\ inforLong = FALSE /\ imageReadyR = Off(2)
  BY DEF LoopInit
<1>8. LoopTypeOK
  <2>1. Transfer!TypeOK
    <3>1. /\ base \in [{"rd", "wr"} -> 1..2] /\ addr \in [{"rd", "wr"} -> 1..2]
          /\ waitCnt \in 0..15
      BY <1>4
    <3> QED BY <1>3, <1>4, <3>1, Zenon DEF Transfer!TypeOK, Transfer!Ctls
  <2>2. TypeOK
    BY <1>1 DEF IInv
  <2>3. /\ 0 \in 0..3 /\ 0 \in 0..7 /\ 0 \in 0..15 /\ 0 \in 0..HeadLatency
        /\ 0 \in 0..StartCycles /\ RoundsPerMap \in 1..RoundsPerMap
    BY Numbers, RoundsAssumption, SMT
  <2>4. AxiTypes
    BY <1>2, <1>6, <2>1, <2>3, Zenon DEF AxiTypes
  <2>5. DealTypes
    BY <1>2, <1>7, <2>2, <2>3, Zenon DEF DealTypes
  <2>6. phase \in 0..7
    BY <1>7, <2>3
  <2> QED BY <2>4, <2>5, <2>6, TypeParts
<1>9. AtRest /\ Rest
  BY <1>5, <1>6 DEF AtRest, Rest
<1>10. Counters /\ Finishes
  BY <1>2, <1>4, <1>5, <1>6, <1>9, Zenon DEF Counters, Finishes
<1>11. Begins
  BY <1>2, <1>3, <1>4, <1>5, <1>6, <1>7, <1>9, Zenon DEF Begins, BeginBy
<1>12. Algs
  <2>1. AlgUp(0)
    BY <1>2, <1>3, <1>4, <1>7, SMT DEF AlgUp
  <2> QED BY <1>4, <1>5, <1>6, <1>9, <2>1, Zenon DEF Algs, AlgBy, FlagBy
<1>13. Rounds
  BY <1>2, <1>3, <1>4, <1>5, <1>6, <1>7, <1>9, Zenon
     DEF Rounds, NoHead, NoAck, ReqFalls
<1>14. Answers
  BY <1>2, <1>4, <1>5, <1>6, <1>7, Zenon DEF Answers, RetBy
<1>15. Needs
  BY <1>2, <1>4, <1>5, <1>6, <1>7, Zenon DEF Needs, NeedBy
<1>16. Banks
  BY <1>3, <1>5, <1>6, <1>9, Zenon DEF Banks, LayBy
<1> QED BY <1>1, <1>8, <1>10, <1>11, <1>12, <1>13, <1>14, <1>15, <1>16 DEF LoopIInv

-----------------------------------------------------------------------------
(* The theorems. *)

(* The inductive invariant holds on every edge of the two clocks. *)
THEOREM LoopInvariant == LoopSpec => []LoopIInv
<1>1. LoopIInv /\ [LoopNext]_loopVars => LoopIInv'
  BY EdgeKeeps, StutterKeeps
<1> QED BY InitLoopIInv, <1>1, PTL DEF LoopSpec

(* Type correctness of the loop, the registers of both clocks, the FIFO counts
   and the counters of the PS included.                                       *)
THEOREM LoopTypeCorrect == LoopSpec => []LoopTypeOK
<1>1. LoopIInv => LoopTypeOK
  BY DEF LoopIInv
<1> QED BY <1>1, LoopInvariant, PTL

(* The clocks count down to their next edge. *)
LEMMA Nexts ==
  ASSUME LoopIInv
  PROVE  NextAxi \in 1..5 /\ NextDeal \in 1..4
<1>1. phase \in 0..7
  BY Zenon DEF LoopIInv, LoopTypeOK
<1> QED BY <1>1, SMT DEF NextAxi, NextDeal

(* Where a round stands is where the transfer side is. *)
LEMMA RoundCases ==
  ASSUME LoopIInv
  PROVE  \/ AtRest /\ ctl \in {"end", "wait", "idle"} /\ NoHead
         \/ state = "send_image" /\ Sending /\ (SendBefore \/ SendAfter)
         \/ state = "end" /\ Sending /\ ctl \in {"end", "wait"}
         \/ state \in Pre \cup {"idle"} /\ Wanted
         \/ state \in Pre /\ (Reading \/ Arrived)
         \/ state \in {"wait_add_zero", "load_kernel", "load_image", "deal_image"} /\ Popped
<1>1. Rounds /\ Begins /\ state \in States
  BY Ranges DEF LoopIInv
<1>2. CASE AtRest
  BY <1>1, <1>2, Zenon DEF Rounds
<1>3. CASE state = "send_image"
  BY <1>1, <1>3, Zenon DEF Rounds
<1>4. CASE state = "end"
  BY <1>1, <1>4, Zenon DEF Rounds
<1>5. CASE ~AtRest /\ state \notin {"send_image", "end"}
  <2>1. state # "inter"
    BY <1>1, <1>5, Zenon DEF Begins, AtRest, Rest, Pre
  <2>2. \/ state = "idle" /\ ps = "start"
        \/ state \in {"start", "load_head", "wait_add_zero"}
        \/ state \in {"load_kernel", "load_image", "deal_image"}
    BY <1>1, <1>5, <2>1, Zenon DEF AtRest, Rest, States
  <2>3. CASE state = "idle" /\ ps = "start"
    BY <1>1, <2>3, Zenon DEF Rounds
  <2>4. CASE state \in {"start", "load_head"}
    BY <1>1, <2>4, Zenon DEF Rounds, Pre
  <2>5. CASE state = "wait_add_zero"
    BY <1>1, <2>5, Zenon DEF Rounds, Pre
  <2>6. CASE state \in {"load_kernel", "load_image", "deal_image"}
    BY <1>1, <2>6, Zenon DEF Rounds
  <2> QED BY <2>2, <2>3, <2>4, <2>5, <2>6
<1> QED BY <1>2, <1>3, <1>4, <1>5

(* maxpooling_finish_ack is given only for a head read: no request of the
   compute side is consumed by the write that goes before it
   (information_read_write.v).                                             *)
THEOREM RequestsAreKept == LoopSpec => []NoRequestLost
<1>1. LoopIInv => NoRequestLost
  <2> SUFFICES ASSUME LoopIInv, ack PROVE ctl = "head_rd"
    BY DEF NoRequestLost
  <2>1. ack = TRUE
    <3>1. ack \in BOOLEAN
      BY Zenon DEF LoopIInv, LoopTypeOK, Transfer!TypeOK
    <3> QED BY <3>1
  <2>2. CASE AtRest
    <3>1. /\ req => ReqUp
          /\ ~req => NoAck
      BY <2>2, Zenon DEF LoopIInv, Rounds
    <3> QED BY <2>1, <3>1, Zenon DEF ReqUp, NoAck
  <2>3. CASE Sending
    BY <2>1, <2>3, Zenon DEF Sending, ReqUp, NoAck
  <2>4. CASE Wanted
    <3>1. CASE Unmade
      <4>1. ReqBy(0)
        BY <2>4, <3>1, Zenon DEF Wanted
      <4>2. A(1) + 8 <= 0
        BY <2>1, <4>1, Zenon DEF ReqBy
      <4> QED BY <4>2, Nexts, SMT DEF A
    <3>2. CASE ~Unmade
      <4>1. ReqUp
        BY <2>4, <3>2, Zenon DEF Wanted
      <4> QED BY <2>1, <4>1, Zenon DEF ReqUp, NoAck
    <3> QED BY <3>1, <3>2
  <2>5. CASE Reading
    BY <2>5 DEF Reading
  <2>6. CASE Arrived \/ Popped
    BY <2>1, <2>6, Zenon DEF Arrived, Popped
  <2> QED BY RoundCases, <2>2, <2>3, <2>4, <2>5, <2>6
<1> QED BY <1>1, LoopInvariant, PTL

(* The transfer side reads one head per round and none after the last one of
   the network, though the end of the network reaches it as a signal of its own.*)
THEOREM NoHeadAfterTheLast == LoopSpec => []NoHeadPastEnd
<1>1. LoopIInv => NoHeadPastEnd
  <2> SUFFICES ASSUME LoopIInv PROVE NoHeadPastEnd
    OBVIOUS
  <2>1. ASSUME NoHead PROVE HeadsAhead = 0
    <3>1. headWrites = headPops /\ headPops \in 0..3
      BY <2>1, Zenon DEF NoHead, LoopIInv, LoopTypeOK
    <3> QED BY <3>1, SMT DEF HeadsAhead
  <2>2. NoHead \/ HeadsAhead = 1
    BY RoundCases, Zenon DEF Sending, Wanted, Reading, Arrived, Popped
  <2>3. ASSUME AtRest PROVE ctl \in {"end", "wait", "idle"} /\ NoHead
    BY <2>3, Zenon DEF LoopIInv, Rounds
  <2>4. HeadsAhead \in {0, 1}
    BY <2>1, <2>2
  <2>5. ASSUME state \in {"inter", "idle"}, ps # "start"
        PROVE  HeadsAhead = 0 /\ ctl \in {"idle", "end", "wait", "image_wr"}
    <3>1. AtRest
      BY <2>5 DEF AtRest, Rest
    <3> QED BY <3>1, <2>1, <2>3
  <2> QED BY <2>4, <2>5 DEF NoHeadPastEnd
<1> QED BY <1>1, LoopInvariant, PTL

(* Every map that is returned is written to DDR once: image_wr_need, still up
   behind its synchroniser when the write ends, starts no second write.      *)
THEOREM MapsAreWrittenOnce == LoopSpec => []OneWritePerMap
<1>1. LoopIInv => OneWritePerMap
  <2> SUFFICES ASSUME LoopIInv PROVE OneWritePerMap
    OBVIOUS
  <2>1. mapsDone \in 0..3 /\ mapsWritten \in 0..3
    BY Zenon DEF LoopIInv, LoopTypeOK
  <2>2. state = "send_image" => SendBefore \/ SendAfter
    BY Zenon DEF LoopIInv, Rounds
  <2>3. \/ mapsDone = mapsWritten /\ ctl # "image_wr"
        \/ mapsDone = (mapsWritten + 1) % 4
    BY <2>2, Zenon DEF LoopIInv, Needs, SendBefore, SendAfter
  <2> QED BY <2>1, <2>3, SMT DEF OneWritePerMap
<1> QED BY <1>1, LoopInvariant, PTL

(* The fixed wait is enough: when process_control leaves load_head_waitAddZero the
   head of the round has been taken, for every HeadLatency and StartCycles the
   timing assumption allows.                                                  *)
THEOREM HeadComesFirst == LoopSpec => []HeadBeforeKernels
<1>1. LoopIInv => HeadBeforeKernels
  BY Zenon DEF LoopIInv, Rounds, Popped, HeadBeforeKernels
<1> QED BY <1>1, LoopInvariant, PTL

(* The read and write banks of DDR are those of the layer at work, though
   one_layer_finish crosses to the slower clock as a pulse.                *)
THEOREM BanksFollowLayers == LoopSpec => []BankOfLayer
<1>1. LoopIInv => BankOfLayer
  <2> SUFFICES ASSUME LoopIInv, ctl \in {"image_rd", "image_wr"}
               PROVE  AddrIs(layer)
    BY Zenon DEF BankOfLayer, AddrIs
  <2>1. state \in Pre \cup {"load_kernel", "load_image", "deal_image", "send_image"}
        /\ state # "start" /\ Late
    <3>1. CASE ctl = "image_rd"
      <4>1. state \in Pre \cup {"load_kernel", "load_image", "deal_image"}
                 /\ (Arrived \/ Popped)
        BY <3>1, RoundCases, Zenon DEF Sending, SendBefore, SendAfter, Wanted, Reading, Pre
      <4>2. state # "start"
        BY <3>1, Zenon DEF LoopIInv, Banks
      <4> QED BY <4>1, <4>2, Zenon DEF Arrived, Popped
    <3>2. CASE ctl = "image_wr"
      <4>1. state = "send_image"
        BY <3>2, Zenon DEF LoopIInv, Needs
      <4>2. ps # "start"
        BY <4>1, Zenon DEF LoopIInv, Begins, Pre
      <4> QED BY <4>1, <4>2, Zenon DEF Late
    <3> QED BY <3>1, <3>2
  <2>2. layerState = "count"
    <3>1. state \in Busy
      BY <2>1, Zenon DEF Pre, Busy
    <3> QED BY <3>1, Zenon DEF LoopIInv, IInv, Together
  <2>3. Lay = layer /\ ~Rest
    BY <2>1, <2>2, Zenon DEF Lay, Pre, Rest
  <2>4. CASE ps = "start"
    <3>1. psCnt \in Int /\ psCnt > 3
      BY <2>1, <2>4, Ranges, Numbers DEF Late
    <3>2. psCnt >= 4
      BY <3>1, SMT
    <3>3. Lay = 1 /\ AddrIs(1)
      BY <2>4, <3>2, Zenon DEF LoopIInv, Banks
    <3> QED BY <2>3, <3>3, Zenon
  <2>5. CASE ps # "start"
    <3>1. IdleTime = 0
      BY DEF IdleTime
    <3>2. BankBy(0)
      BY <2>3, <2>5, <3>1, Zenon DEF LoopIInv, Banks
    <3>3. ~(A(1) + 10 <= 0) /\ ~(A(2) <= 0) /\ ~(A(1) <= 0)
      BY Nexts, SMT DEF A
    <3>4. AddrIs(Lay)
      BY <3>2, <3>3, Zenon DEF BankBy
    <3> QED BY <2>3, <3>4, Zenon
  <2> QED BY <2>4, <2>5
<1> QED BY <1>1, LoopInvariant, PTL

(* An edge of deal_clk in the loop is a step of ProcessControl alone. *)
LEMMA EdgeIsNext ==
  ASSUME NEW k, NEW i, NEW m, state \in States,
         Edge(BeginInter, k, i, m, ReturnAxi, ReadyPos),
         k => state = "load_kernel", i => state = "load_image", m => state = "deal_image"
  PROVE  Next
<1> DEFINE b == BeginInter
           r == ReturnAxi
           rd == ReadyPos
<1>1. /\ b \in BOOLEAN /\ k \in BOOLEAN /\ i \in BOOLEAN
      /\ m \in BOOLEAN /\ r \in BOOLEAN /\ rd \in BOOLEAN
      /\ b => state = "idle"
      /\ rd => state = "send_image"
      /\ Clk(b, k, i, m, r, rd)
  BY Zenon DEF Edge
<1> HIDE DEF b, r, rd
<1>2. CASE state = "idle"
  <2>1. k = FALSE /\ i = FALSE /\ m = FALSE /\ rd = FALSE
    BY <1>1, <1>2
  <2>2. Clk(b, FALSE, FALSE, FALSE, FALSE, FALSE)
    BY <1>1, <1>2, <2>1, Zenon DEF Clk, StateNext
  <2> QED BY <1>1, <1>2, <2>2, Zenon DEF Begin, Next
<1>3. CASE state = "load_kernel"
  <2>1. b = FALSE /\ i = FALSE /\ m = FALSE /\ rd = FALSE
    BY <1>1, <1>3
  <2>2. Clk(FALSE, k, FALSE, FALSE, FALSE, FALSE)
    BY <1>1, <1>3, <2>1, Zenon DEF Clk, StateNext
  <2> QED BY <1>1, <1>3, <2>2, Zenon DEF Load, Next
<1>4. CASE state = "load_image"
  <2>1. b = FALSE /\ k = FALSE /\ m = FALSE /\ rd = FALSE
    BY <1>1, <1>4
  <2>2. Clk(FALSE, FALSE, i, FALSE, FALSE, FALSE)
    BY <1>1, <1>4, <2>1, Zenon DEF Clk, StateNext
  <2> QED BY <1>1, <1>4, <2>2, Zenon DEF Load, Next
<1>5. CASE state = "deal_image"
  <2>1. b = FALSE /\ k = FALSE /\ i = FALSE /\ rd = FALSE
    BY <1>1, <1>5
  <2>2. Clk(FALSE, FALSE, FALSE, m, r, FALSE)
    BY <1>1, <2>1, Zenon
  <2> QED BY <1>1, <1>5, <2>2, Zenon DEF Deal, Next
<1>6. CASE state = "send_image"
  <2>1. b = FALSE /\ k = FALSE /\ i = FALSE /\ m = FALSE
    BY <1>1, <1>6
  <2>2. Clk(FALSE, FALSE, FALSE, FALSE, FALSE, rd)
    BY <1>1, <1>6, <2>1, Zenon DEF Clk, StateNext
  <2> QED BY <1>1, <1>6, <2>2, Zenon DEF Send, Next
<1>7. CASE state \in {"start", "load_head", "wait_add_zero", "end", "inter"}
  <2>1. b = FALSE /\ k = FALSE /\ i = FALSE /\ m = FALSE /\ rd = FALSE
    BY <1>1, <1>7
  <2>2. Clk(FALSE, FALSE, FALSE, FALSE, FALSE, FALSE)
    BY <1>1, <1>7, <2>1, Zenon DEF Clk, StateNext
  <2> QED BY <1>7, <2>2, Zenon DEF Advance, Next
<1> QED BY <1>2, <1>3, <1>4, <1>5, <1>6, <1>7 DEF States

(* Every step of the loop is a step of ProcessControl or leaves it alone: the
   pulses it takes come only in the states that wait for them, so all that
   ProcessControlProofs proves holds of the loop.                            *)
THEOREM ProcessAlone == LoopSpec => ProcessSpec
<1>1. LoopInit => Init
  BY DEF LoopInit
<1>2. LoopIInv /\ [LoopNext]_loopVars => [Next]_vars
  <2> SUFFICES ASSUME LoopIInv, [LoopNext]_loopVars PROVE [Next]_vars
    OBVIOUS
  <2>1. ASSUME UNCHANGED dealVars PROVE UNCHANGED vars
    BY <2>1, Zenon DEF dealVars, vars
  <2>2. CASE LoopNext
    <3>1. phase \in 0..7
      BY Zenon DEF LoopIInv, LoopTypeOK
    <3>2. PICK a, d, done, k, i, m : Tick(a, d) /\ Step(a, d, done, k, i, m)
      BY <2>2, <3>1, NextIsStep
    <3>3. CASE d
      <4>1. /\ Edge(BeginInter, k, i, m, ReturnAxi, ReadyPos)
            /\ k => state = "load_kernel"
            /\ i => state = "load_image"
            /\ m => state = "deal_image"
        BY <3>2, <3>3, StateMoves
      <4>2. Next
        BY <4>1, Ranges, EdgeIsNext
      <4> QED BY <4>2
    <3>4. CASE ~d
      BY <2>1, <3>2, <3>4 DEF Step
    <3> QED BY <3>3, <3>4
  <2>3. CASE UNCHANGED loopVars
    BY <2>1, <2>3, Zenon DEF loopVars
  <2> QED BY <2>2, <2>3
<1> QED BY <1>1, <1>2, LoopInvariant, PTL DEF LoopSpec, ProcessSpec, Spec

-----------------------------------------------------------------------------
(* The image a head asks for.  The news that a head has been taken, and its
   image flag, travel to the transfer side without a handshake; it looks at
   them JudgeTime after it asked for the head, and must not find news of an
   earlier head there.                                                        *)

(* The transfer side has read the head, and not yet judged what it asks for. *)
Judging == {"iterate_head_wait", "iterate_head", "iterate_judge_wait", "iterate_judge"}

(* The earliest time the transfer side is in idle again, seen from its judgement. *)
BackTime == CASE ctl = "iterate_head_wait" -> A(39 - waitCnt)
              [] ctl = "iterate_head" -> A(35)
              [] ctl = "iterate_judge_wait" -> A(34 - waitCnt)
              [] ctl \in {"iterate_judge", "image_rd", "kernel_rd", "kernel_judge"} -> A(18)
              [] OTHER -> IdleTime

(* A head is in the FIFO, and when it is taken. *)
HeadHere == state \in Pre /\ HeadsAhead = 1
PopTime == D(IF state = "start" THEN 3
             ELSE IF state = "load_head" \/ headSeen = headPops THEN 2 ELSE 1)

(* The pulse of a head that was taken is over; or it is over by X. *)
Quiet == ~infor[1] /\ ~infor[2] /\ inforDelay = 0
InforBy(X) ==
  /\ infor[1] => D(17) <= X
  /\ infor[2] => D(16) <= X
  /\ inforDelay # 0 => D(16 - inforDelay) <= X

(* The news that a head asks for an image is at the transfer side by X. *)
NewsBy(X) ==
  /\ headQ
  /\ \/ infor[1] /\ ~infor[2] /\ inforDelay = 0 /\ D(3) + 15 <= X
     \/ /\ imageUpdate
        /\ \/ infor[2] /\ inforDelay = 0 /\ D(2) + 15 <= X
           \/ inforDelay = 1 /\ D(1) + 15 <= X
           \/ inforLong /\ inforDelay >= 2 /\ A(1) <= D(16 - inforDelay) /\ A(3) <= X
           \/ inforAxi[1] /\ updateAxi[1] /\ A(2) <= X
           \/ inforAxi[2] /\ updateAxi[2] /\ A(1) <= X
           \/ imageNeed

(* Where the pulse of a head may be on its way. *)
Telling == {"wait_add_zero", "load_kernel", "load_image", "deal_image"}

(* The head asks for an image that has not been read: nobody has touched its
   kernels, and the transfer side will know of it when it judges.            *)
Unfetched ==
  /\ headImage /\ kernelWrites = kernelReads
  /\ state \in Pre \cup {"load_kernel"}
  /\ ctl \in Judging \cup {"image_rd"}
  /\ ctl # "image_rd" =>
       IF HeadHere THEN PopTime + 27 <= JudgeTime ELSE NewsBy(JudgeTime)

Images ==
  /\ rdFinish => ctl = "kernel_rd"
  /\ state \notin Telling \/ loadHead => Quiet
  /\ InforBy(BackTime)
  /\ HeadHere => PopTime + 68 <= BackTime
  /\ ~fetched => Unfetched

(* A step, as the registers that carry the news see it. *)
LEMMA ImageMoves ==
  ASSUME LoopIInv, NEW a, NEW d, NEW done, NEW k, NEW i, NEW m,
         Tick(a, d), Step(a, d, done, k, i, m)
  PROVE  /\ a => /\ (rdFinish' <=> ctl = "image_rd" /\ done)
                 /\ (inforAxi'[1] <=> inforLong) /\ (inforAxi'[2] <=> inforAxi[1])
                 /\ (updateAxi'[1] <=> imageUpdate) /\ (updateAxi'[2] <=> updateAxi[1])
                 /\ (imageNeed' <=> (updateAxi[2] /\ inforAxi[2]) \/ (imageNeed /\ ~rdFinish))
                 /\ ctl = "head_rd" /\ done =>
                      (headImage' => ~(Kernels > 0)) /\ (fetched' <=> ~headImage')
                 /\ ~(ctl = "head_rd" /\ done) =>
                      /\ (headImage' <=> headImage)
                      /\ (fetched' <=> fetched \/ (ctl = "image_rd" /\ done))
                 /\ ctl # "kernel_rd" => kernelWrites' = kernelWrites
         /\ ~a => /\ (rdFinish' <=> rdFinish)
                  /\ (inforAxi'[1] <=> inforAxi[1]) /\ (inforAxi'[2] <=> inforAxi[2])
                  /\ (updateAxi'[1] <=> updateAxi[1]) /\ (updateAxi'[2] <=> updateAxi[2])
                  /\ (imageNeed' <=> imageNeed) /\ (headImage' <=> headImage)
                  /\ (fetched' <=> fetched) /\ kernelWrites' = kernelWrites
         /\ d => /\ (headQ' <=> IF LoadHeadRd THEN headImage ELSE headQ)
                 /\ (imageUpdate' <=> headQ)
                 /\ (infor'[1] <=> LoadHeadRd) /\ (infor'[2] <=> infor[1])
                 /\ inforDelay' = (IF inforDelay # 0 \/ infor[2] THEN (inforDelay + 1) % 16
                                                                  ELSE 0)
                 /\ (inforLong' <=> inforDelay # 0)
                 /\ kernelReads' # kernelReads => k /\ Kernels > 0
         /\ ~d => /\ (headQ' <=> headQ) /\ (imageUpdate' <=> imageUpdate)
                  /\ (infor'[1] <=> infor[1]) /\ (infor'[2] <=> infor[2])
                  /\ inforDelay' = inforDelay /\ (inforLong' <=> inforLong)
                  /\ kernelReads' = kernelReads
<1>1. LoopTypeOK
  BY DEF LoopIInv
<1>2. ASSUME a
      PROVE  /\ (rdFinish' <=> ctl = "image_rd" /\ done)
             /\ (imageNeed' <=> (updateAxi[2] /\ inforAxi[2]) \/ (imageNeed /\ ~rdFinish))
             /\ ctl = "head_rd" /\ done =>
                  (headImage' => ~(Kernels > 0)) /\ (fetched' <=> ~headImage')
             /\ ~(ctl = "head_rd" /\ done) =>
                  /\ (headImage' <=> headImage)
                  /\ (fetched' <=> fetched \/ (ctl = "image_rd" /\ done))
             /\ ctl # "kernel_rd" => kernelWrites' = kernelWrites
  <2>1. AxiEdge(done)
    BY <1>2, Zenon DEF Step
  <2>2. ReadBuffer(done) /\ Asks(done) /\ Arrives(done)
    BY <2>1, Zenon DEF AxiEdge
  <2>3. /\ rdFinish' = (ctl = "image_rd" /\ done)
        /\ imageNeed' = ((updateAxi[2] /\ inforAxi[2]) \/ (imageNeed /\ ~rdFinish))
    BY <2>2, Zenon DEF ReadBuffer
  <2>4. ctl = "head_rd" /\ done =>
          /\ headImage' \in (IF Kernels > 0 THEN {FALSE} ELSE IF imageReady THEN BOOLEAN ELSE {TRUE})
          /\ fetched' = ~headImage'
    BY <2>2, Zenon DEF Asks
  <2>5. ~(ctl = "head_rd" /\ done) =>
          /\ headImage' = headImage
          /\ fetched' = (fetched \/ (ctl = "image_rd" /\ done))
    BY <2>2, Zenon DEF Asks
  <2>6. ctl # "kernel_rd" => kernelWrites' = kernelWrites
    BY <2>2, Zenon DEF Arrives
  <2>7. ctl = "head_rd" /\ done /\ Kernels > 0 => headImage' = FALSE
    BY <2>4, Zenon
  <2>8. ctl = "head_rd" /\ done =>
          (headImage' => ~(Kernels > 0)) /\ (fetched' <=> ~headImage')
    BY <2>4, <2>7, Zenon
  <2>9. ~(ctl = "head_rd" /\ done) =>
          /\ (headImage' <=> headImage)
          /\ (fetched' <=> fetched \/ (ctl = "image_rd" /\ done))
    BY <2>5, Zenon
  <2> QED BY <2>3, <2>6, <2>8, <2>9, Zenon
<1>3. ASSUME a
      PROVE  /\ (inforAxi'[1] <=> inforLong) /\ (inforAxi'[2] <=> inforAxi[1])
             /\ (updateAxi'[1] <=> imageUpdate) /\ (updateAxi'[2] <=> updateAxi[1])
  <2>1. AxiEdge(done)
    BY <1>3, Zenon DEF Step
  <2> QED BY <1>1, <2>1, AxiChains
<1>4. ASSUME ~a
      PROVE  /\ rdFinish' = rdFinish /\ inforAxi' = inforAxi /\ updateAxi' = updateAxi
             /\ imageNeed' = imageNeed /\ headImage' = headImage
             /\ fetched' = fetched /\ kernelWrites' = kernelWrites
  BY <1>4, Zenon DEF Step, axiVars
<1>5. ASSUME d
      PROVE  /\ (headQ' <=> IF LoadHeadRd THEN headImage ELSE headQ)
             /\ (imageUpdate' <=> headQ)
             /\ inforDelay' = (IF inforDelay # 0 \/ infor[2] THEN (inforDelay + 1) % 16 ELSE 0)
             /\ (inforLong' <=> inforDelay # 0)
             /\ kernelReads' # kernelReads => k /\ Kernels > 0
  <2>1. DealEdge(k, i, m)
    BY <1>5, Zenon DEF Step
  <2>2. LoadHead /\ Stretch
    BY <2>1, Zenon DEF DealEdge
  <2>3. /\ k => Kernels > 0
        /\ ~k => kernelReads' = kernelReads
    BY <2>1, Zenon DEF DealEdge
  <2>4. /\ headQ' = (IF LoadHeadRd THEN headImage ELSE headQ)
        /\ imageUpdate' = headQ
    BY <2>2, Zenon DEF LoadHead
  <2>5. /\ inforDelay' = (IF inforDelay # 0 \/ infor[2] THEN (inforDelay + 1) % 16 ELSE 0)
        /\ inforLong' = (inforDelay # 0)
    BY <2>2, Zenon DEF Stretch
  <2> QED BY <2>3, <2>4, <2>5, Zenon
<1>6. ASSUME d PROVE (infor'[1] <=> LoadHeadRd) /\ (infor'[2] <=> infor[1])
  <2>1. DealEdge(k, i, m)
    BY <1>6, Zenon DEF Step
  <2> QED BY <1>1, <2>1, DealChains
<1>7. ASSUME ~d
      PROVE  /\ headQ' = headQ /\ imageUpdate' = imageUpdate /\ infor' = infor
             /\ inforDelay' = inforDelay /\ inforLong' = inforLong
             /\ kernelReads' = kernelReads
  BY <1>7, Zenon DEF Step, dealVars
<1>8. ~a => /\ (rdFinish' <=> rdFinish)
            /\ (inforAxi'[1] <=> inforAxi[1]) /\ (inforAxi'[2] <=> inforAxi[2])
            /\ (updateAxi'[1] <=> updateAxi[1]) /\ (updateAxi'[2] <=> updateAxi[2])
            /\ (imageNeed' <=> imageNeed) /\ (headImage' <=> headImage)
            /\ (fetched' <=> fetched) /\ kernelWrites' = kernelWrites
  BY <1>4, Zenon
<1>9. ~d => /\ (headQ' <=> headQ) /\ (imageUpdate' <=> imageUpdate)
            /\ (infor'[1] <=> infor[1]) /\ (infor'[2] <=> infor[2])
            /\ inforDelay' = inforDelay /\ (inforLong' <=> inforLong)
            /\ kernelReads' = kernelReads
  BY <1>7, Zenon
<1> QED BY <1>2, <1>3, <1>5, <1>6, <1>8, <1>9

(* Time passes for that deadline too. *)
LEMMA BackTimePasses ==
  ASSUME LoopIInv, NEW a, NEW d, NEW done, NEW k, NEW i, NEW m,
         Tick(a, d), Step(a, d, done, k, i, m)
  PROVE  /\ BackTime \in Nat /\ BackTime' \in Int
         /\ BackTime' >= BackTime - Dt
         /\ a /\ ctl = "head_rd" /\ done => BackTime' = 195 /\ JudgeTime' = 105
<1>1. ctl = "iterate_head_wait" => waitCnt <= 3
  BY DEF LoopIInv, Counters
<1>2. ctl \in {"iterate_head_wait", "iterate_judge_wait", "wait"} \/ waitCnt = 0
  BY DEF LoopIInv, Counters
<1>3. waitCnt' \in 0..16
  BY Ranges, CtlMoves, SMT DEF Tick
<1>4. BackTime \in Nat
  BY Ranges, SMT DEF BackTime, IdleTime, A, Tick
<1>5. BackTime' \in Int
  BY <1>3, SMT DEF BackTime, IdleTime, A, Tick
<1>6. BackTime' >= BackTime - Dt
  BY <1>1, <1>2, Ranges, CtlMoves, SMT DEF BackTime, IdleTime, A, Tick, Transfer!Ctls
<1>7. a /\ ctl = "head_rd" /\ done => BackTime' = 195 /\ JudgeTime' = 105
  <2> SUFFICES ASSUME a, ctl = "head_rd", done PROVE BackTime' = 195 /\ JudgeTime' = 105
    OBVIOUS
  <2>1. ctl' = "iterate_head_wait" /\ waitCnt' = 0
    BY CtlMoves
  <2>2. NextAxi' = 5
    BY DEF Tick
  <2> QED BY <2>1, <2>2, SMT DEF BackTime, JudgeTime, A
<1> QED BY <1>4, <1>5, <1>6, <1>7

(* A head is in the FIFO, or none is and nothing is read from it. *)
LEMMA HeadOrNone ==
  ASSUME LoopIInv
  PROVE  /\ NoHead => HeadsAhead = 0 /\ ~HeadHere /\ ~LoadHeadRd
         /\ ~NoHead => HeadHere /\ Arrived /\ NotYet /\ state \in Pre
         /\ ctl = "head_rd" => state \in Pre /\ Reading /\ NotYet
<1>1. NoHead => HeadsAhead = 0 /\ ~HeadHere /\ ~LoadHeadRd
  <2>1. ASSUME NoHead PROVE HeadsAhead = 0
    <3>1. headWrites = headPops /\ headPops \in 0..3
      BY <2>1, Zenon DEF NoHead, LoopIInv, LoopTypeOK
    <3> QED BY <3>1, SMT DEF HeadsAhead
  <2> QED BY <2>1, NoHeadNoRead DEF HeadHere
<1>2. ASSUME ~NoHead PROVE HeadHere /\ Arrived /\ NotYet /\ state \in Pre
  <2>1. state \in Pre /\ Arrived
    BY <1>2, RoundCases, Zenon DEF Sending, Wanted, Reading, Popped
  <2>2. NotYet
    BY <1>2, <2>1, HeadParts, Zenon DEF Popped
  <2>3. HeadsAhead = 1
    BY <2>1 DEF Arrived
  <2> QED BY <2>1, <2>2, <2>3 DEF HeadHere
<1>3. ASSUME ctl = "head_rd" PROVE state \in Pre /\ Reading /\ NotYet
  <2>1. ctl \notin AfterHead /\ ctl \notin {"end", "wait", "idle", "ready", "image_wr"}
    BY <1>3 DEF AfterHead
  <2>2. state \in Pre /\ Reading
    BY <2>1, RoundCases, Zenon DEF SendBefore, SendAfter, Wanted, Arrived, Popped
  <2>3. NotYet
    BY <2>1, <2>2, HeadParts, Zenon DEF Popped
  <2> QED BY <2>2, <2>3
<1> QED BY <1>1, <1>2, <1>3

(* A head comes with the end of its read, and goes when it is taken: PopTime is
   exact in between.                                                          *)
LEMMA HeadComesAndGoes ==
  ASSUME LoopIInv, NEW a, NEW d, NEW done, NEW k, NEW i, NEW m,
         Tick(a, d), Step(a, d, done, k, i, m)
  PROVE  /\ PopTime \in Nat /\ PopTime' \in Int /\ PopTime' <= 12
         /\ HeadHere' => \/ HeadHere /\ ~(d /\ LoadHeadRd) /\ PopTime' = PopTime - Dt
                         \/ ~HeadHere /\ a /\ ctl = "head_rd" /\ done
         /\ HeadHere /\ ~HeadHere' => d /\ LoadHeadRd
         /\ d /\ LoadHeadRd => HeadHere /\ ~HeadHere' /\ PopTime = Dt /\ loadHead
         /\ a /\ ctl = "head_rd" /\ done => HeadHere'
<1>1. PopTime \in Nat /\ PopTime' \in Int /\ PopTime' <= 12
  <2>1. NextDeal \in 1..4 /\ NextDeal' \in 1..4
    BY DEF Tick
  <2>2. PopTime \in {NextDeal, NextDeal + 4, NextDeal + 8}
    BY <2>1, SMT DEF PopTime, D
  <2>3. PICK n \in Int : n = NextDeal' /\ n \in 1..4
    BY <2>1
  <2>4. PopTime' = D(1)' \/ PopTime' = D(2)' \/ PopTime' = D(3)'
    BY Zenon DEF PopTime, D
  <2>5. PopTime' = n + 4 * (1 - 1) \/ PopTime' = n + 4 * (2 - 1) \/ PopTime' = n + 4 * (3 - 1)
    BY <2>3, <2>4, Zenon DEF D
  <2>6. PopTime' \in Int /\ PopTime' <= 12
    BY <2>3, <2>5, SMT
  <2>7. PopTime \in Nat
    BY <2>1, <2>2, SMT
  <2> QED BY <2>6, <2>7
<1>2. ASSUME NoHead, ~(a /\ ctl = "head_rd" /\ done) PROVE ~HeadHere'
  <2>1. headWrites' = headWrites
    BY <1>2, HeadMoves
  <2>2. headWrites = headPops /\ ~LoadHeadRd
    BY <1>2, HeadOrNone DEF NoHead
  <2>3. headPops' = headPops
    BY <2>2, HeadMoves DEF Tick
  <2>4. headPops \in 0..3
    BY Zenon DEF LoopIInv, LoopTypeOK
  <2>5. HeadsAhead' = 0
    BY <2>1, <2>2, <2>3, <2>4, SMT DEF HeadsAhead
  <2> QED BY <2>5 DEF HeadHere
<1>3. ASSUME ~NoHead
      PROVE  /\ HeadHere
             /\ ~(d /\ LoadHeadRd) => HeadHere' /\ PopTime' = PopTime - Dt
             /\ d /\ LoadHeadRd => ~HeadHere' /\ PopTime = Dt /\ loadHead
  <2>1. HeadHere /\ Arrived /\ NotYet /\ state \in Pre
    BY <1>3, HeadOrNone
  <2>2. state' \in Pre
    BY <2>1, HeadStep
  <2>3. ASSUME ~(d /\ LoadHeadRd) PROVE HeadHere' /\ PopTime' = PopTime - Dt
    <3>1. Arrived'
      BY <2>1, <2>3, ArrivedStays
    <3>2. HeadHere'
      BY <2>2, <3>1 DEF Arrived, HeadHere
    <3>3. CASE d
      <4>1. ~algReqR[2]
        <5>1. ~AtRest
          BY <2>1 DEF AtRest, Rest, Pre
        <5> QED BY <5>1, AlgSettled DEF Tick
      <4>2. headSeen' = headWrites /\ headPops' = headPops
        BY <2>3, <3>3, <4>1, HeadMoves
      <4>3. headWrites # headPops
        <5>1. HeadsAhead = 1 /\ headPops \in 0..3
          BY <2>1, Zenon DEF HeadHere, LoopIInv, LoopTypeOK
        <5> QED BY <5>1, SMT DEF HeadsAhead
      <4>4. state = "wait_add_zero" => headSeen = headPops
        BY <2>1, <2>3, <3>3, Zenon DEF Arrived, LoadHeadRd, HeadEmpty
      <4>5. /\ state = "start" => state' = "load_head"
            /\ state = "load_head" => state' = "wait_add_zero"
            /\ state = "wait_add_zero" => state' = "wait_add_zero"
        BY <2>2, <3>3, StateMoves DEF Pre
      <4>6. /\ NextDeal = Dt /\ NextDeal' = 4
            /\ NextDeal \in 1..4
        BY <3>3 DEF Tick
      <4> QED BY <2>1, <3>2, <4>2, <4>3, <4>4, <4>5, <4>6, SMT DEF PopTime, D, Pre
    <3>4. CASE ~d
      <4>1. state' = state /\ headSeen' = headSeen /\ headPops' = headPops
        BY <3>4, StateMoves, HeadMoves
      <4>2. NextDeal' = NextDeal - Dt /\ NextDeal \in 1..4 /\ Dt \in 1..4
        BY <3>4 DEF Tick
      <4> QED BY <3>2, <4>1, <4>2, SMT DEF PopTime, D
    <3> QED BY <3>3, <3>4
  <2>4. ASSUME d, LoadHeadRd PROVE ~HeadHere' /\ PopTime = Dt /\ loadHead
    <3>1. Popped'
      BY <2>1, <2>4, ArrivedStays
    <3>2. ~HeadHere'
      <4>1. headWrites' = headPops' /\ headPops' \in 0..3
        <5>1. headWrites' = headPops'
          BY <3>1, Zenon DEF Popped, NoHead
        <5>2. headWrites' \in 0..3
          <6>1. headWrites \in 0..3
            BY Zenon DEF LoopIInv, LoopTypeOK
          <6> QED BY <6>1, HeadMoves, SMT
        <5> QED BY <5>1, <5>2
      <4>2. HeadsAhead' = 0
        <5>1. PICK p \in 0..3 : headWrites' = p /\ headPops' = p
          BY <4>1
        <5>2. (p + 4 - p) % 4 = 0
          BY SMT
        <5> QED BY <5>1, <5>2, Zenon DEF HeadsAhead
      <4> QED BY <4>2 DEF HeadHere
    <3>3. loadHead /\ headSeen # headPops
      BY <2>4 DEF LoadHeadRd, HeadEmpty
    <3>4. state = "wait_add_zero"
      BY <2>1, <3>3 DEF NotYet
    <3>5. PopTime = D(1)
      BY <3>3, <3>4 DEF PopTime
    <3>6. D(1) = Dt
      BY <2>4, SMT DEF D, Tick
    <3> QED BY <3>2, <3>3, <3>5, <3>6
  <2> QED BY <2>1, <2>3, <2>4
<1>4. a /\ ctl = "head_rd" /\ done => HeadHere'
  <2> SUFFICES ASSUME a, ctl = "head_rd", done PROVE HeadHere'
    OBVIOUS
  <2>1. state \in Pre /\ Reading /\ NotYet
    BY HeadOrNone
  <2>2. Arrived' /\ state' \in Pre
    BY <2>1, ReadingStays, HeadStep
  <2> QED BY <2>2 DEF Arrived, HeadHere
<1>5. NoHead => ~HeadHere /\ ~LoadHeadRd
  BY HeadOrNone
<1> QED BY <1>1, <1>2, <1>3, <1>4, <1>5, Zenon

(* A head is taken in load_head_waitAddZero, while it is asked for. *)
LEMMA ReadsInWait ==
  ASSUME LoopIInv, LoadHeadRd
  PROVE  loadHead /\ HeadHere /\ state = "wait_add_zero"
<1>1. loadHead
  BY DEF LoadHeadRd
<1>2. HeadHere /\ NotYet
  BY HeadOrNone
<1> QED BY <1>1, <1>2 DEF NotYet

(* The pulse of a head is fifteen edges long, and two registers on the way. *)
LEMMA InforByStep ==
  ASSUME LoopIInv, NEW a, NEW d, NEW done, NEW k, NEW i, NEW m,
         Tick(a, d), Step(a, d, done, k, i, m),
         NEW X \in Int, NEW Y \in Int, Y >= X - Dt, InforBy(X),
         d /\ LoadHeadRd => Dt + 68 <= X
  PROVE  InforBy(Y)'
<1>1. PICK na \in Int, nd \in Int, na1 \in Int, nd1 \in Int, dt \in Int :
        Clock(na, nd, na1, nd1, dt) /\ Beat(a, d, na, nd, na1, nd1, dt)
  BY Clocks
<1>2. PICK p \in 0..15 : p = inforDelay
  BY Zenon DEF LoopIInv, LoopTypeOK
<1>3. /\ infor[1] => nd + 4 * (17 - 1) <= X
      /\ infor[2] => nd + 4 * (16 - 1) <= X
      /\ p # 0 => nd + 4 * ((16 - p) - 1) <= X
  BY <1>1, <1>2, Zenon DEF InforBy, D, Clock
<1>4. Y >= X - dt
  BY <1>1, Zenon DEF Clock
<1>5. CASE ~d
  <2>1. (infor'[1] <=> infor[1]) /\ (infor'[2] <=> infor[2]) /\ inforDelay' = p
    BY <1>2, <1>5, ImageMoves
  <2>2. nd1 = nd - dt
    BY <1>1, <1>5 DEF Beat
  <2>3. /\ infor'[1] => nd1 + 4 * (17 - 1) <= Y
        /\ infor'[2] => nd1 + 4 * (16 - 1) <= Y
        /\ p # 0 => nd1 + 4 * ((16 - p) - 1) <= Y
    BY <1>2, <1>3, <1>4, <2>1, <2>2, SMT
  <2> QED BY <1>1, <2>1, <2>3, Zenon DEF InforBy, D, Clock
<1>6. CASE d
  <2>1. /\ (infor'[1] <=> LoadHeadRd) /\ (infor'[2] <=> infor[1])
        /\ inforDelay' = (IF p # 0 \/ infor[2] THEN (p + 1) % 16 ELSE 0)
    BY <1>2, <1>6, ImageMoves
  <2>2. PICK q \in Int : /\ q = inforDelay'
                         /\ q = (IF p # 0 \/ infor[2] THEN (p + 1) % 16 ELSE 0)
    BY <1>2, <2>1, SMT
  <2>3. nd1 = 4 /\ dt = nd
    BY <1>1, <1>6 DEF Beat
  <2>4. infor'[1] => dt + 68 <= X
    BY <1>1, <1>6, <2>1, Zenon DEF Clock
  <2>5. infor'[1] => nd1 + 4 * (17 - 1) <= Y
    BY <1>4, <2>3, <2>4, SMT
  <2>6. infor'[2] => nd1 + 4 * (16 - 1) <= Y
    BY <1>3, <1>4, <2>1, <2>3, SMT
  <2>7. q # 0 => nd1 + 4 * ((16 - q) - 1) <= Y
    BY <1>2, <1>3, <1>4, <2>2, <2>3, SMT
  <2> QED BY <1>1, <2>2, <2>5, <2>6, <2>7, Zenon DEF InforBy, D, Clock
<1> QED BY <1>5, <1>6

(* What is over by now is over. *)
LEMMA QuietNow ==
  ASSUME LoopIInv, InforBy(0)
  PROVE  Quiet
<1>1. PICK p \in 0..15 : p = inforDelay
  BY Zenon DEF LoopIInv, LoopTypeOK
<1>2. NextDeal \in 1..4
  BY Nexts
<1>3. ~(D(17) <= 0) /\ ~(D(16) <= 0)
  BY <1>2, SMT DEF D
<1>4. ~(D(16 - p) <= 0)
  BY <1>1, <1>2, SMT DEF D
<1> QED BY <1>1, <1>3, <1>4, Zenon DEF InforBy, Quiet

(* The pulse of a head is over before the next one is asked for. *)
LEMMA QuietStep ==
  ASSUME LoopIInv, NEW a, NEW d, NEW done, NEW k, NEW i, NEW m,
         Tick(a, d), Step(a, d, done, k, i, m), Images
  PROVE  state' \notin Telling \/ loadHead' => Quiet'
<1> SUFFICES ASSUME state' \notin Telling \/ loadHead'
             PROVE  Quiet'
  OBVIOUS
<1>1. Quiet /\ ~(d /\ LoadHeadRd)
  <2>1. ASSUME d, LoadHeadRd PROVE state' \in Telling /\ ~loadHead'
    <3>1. state = "wait_add_zero"
      BY <2>1, ReadsInWait
    <3>2. state' \in Telling
      BY <2>1, <3>1, StateMoves DEF Telling
    <3>3. ~loadHead'
      BY <2>1, <3>1, HeadMoves
    <3> QED BY <3>2, <3>3
  <2>2. CASE state \notin Telling \/ loadHead
    BY <2>1, <2>2 DEF Images
  <2>3. CASE state \in Telling /\ ~loadHead
    <3>1. ~loadHead'
      <4>1. state # "load_head"
        BY <2>3 DEF Telling
      <4> QED BY <2>3, <4>1, HeadMoves DEF Tick
    <3>2. d /\ m /\ state = "deal_image"
      BY <2>3, <3>1, StateMoves DEF Telling, Tick
    <3>3. ctl = "ready"
      BY <3>2, StateMoves
    <3>4. BackTime = 0
      BY <3>3, SMT DEF BackTime, IdleTime
    <3>5. Quiet
      BY <3>4, QuietNow DEF Images
    <3> QED BY <2>1, <3>1, <3>5, <2>3 DEF LoadHeadRd
  <2> QED BY <2>2, <2>3
<1>2. CASE d
  BY <1>1, <1>2, ImageMoves DEF Quiet
<1>3. CASE ~d
  BY <1>1, <1>3, ImageMoves DEF Quiet
<1> QED BY <1>2, <1>3

(* The news on its way is there in time. *)
LEMMA NewsByStep ==
  ASSUME LoopIInv, NEW a, NEW d, NEW done, NEW k, NEW i, NEW m,
         Tick(a, d), Step(a, d, done, k, i, m),
         NEW X \in Int, NEW Y \in Int, Y >= X - Dt, NewsBy(X), ~LoadHeadRd, ~rdFinish
  PROVE  NewsBy(Y)'
<1>1. PICK na \in Int, nd \in Int, na1 \in Int, nd1 \in Int, dt \in Int :
        Clock(na, nd, na1, nd1, dt) /\ Beat(a, d, na, nd, na1, nd1, dt)
  BY Clocks
<1>2. PICK p \in 0..15 : p = inforDelay
  BY Zenon DEF LoopIInv, LoopTypeOK
<1>3. Y >= X - dt
  BY <1>1, Zenon DEF Clock
<1>4. headQ /\ headQ'
  BY ImageMoves DEF NewsBy, Tick
<1>5. imageUpdate \/ d => imageUpdate'
  BY <1>4, ImageMoves DEF Tick
<1>6. CASE infor[1] /\ ~infor[2] /\ inforDelay = 0 /\ D(3) + 15 <= X
  <2>1. nd + 4 * (3 - 1) + 15 <= X
    BY <1>1, <1>6, Zenon DEF D, Clock
  <2>2. CASE d
    <3>1. infor'[2] /\ inforDelay' = 0
      BY <1>6, <2>2, ImageMoves
    <3>2. nd1 + 4 * (2 - 1) + 15 <= Y
      BY <1>1, <1>3, <2>1, <2>2, SMT DEF Beat
    <3>3. D(2)' + 15 <= Y
      BY <1>1, <3>2, Zenon DEF D, Clock
    <3> QED BY <1>4, <1>5, <2>2, <3>1, <3>3, Zenon DEF NewsBy
  <2>3. CASE ~d
    <3>1. infor'[1] /\ ~infor'[2] /\ inforDelay' = 0
      BY <1>6, <2>3, ImageMoves
    <3>2. nd1 + 4 * (3 - 1) + 15 <= Y
      BY <1>1, <1>3, <2>1, <2>3, SMT DEF Beat
    <3>3. D(3)' + 15 <= Y
      BY <1>1, <3>2, Zenon DEF D, Clock
    <3> QED BY <1>4, <3>1, <3>3, Zenon DEF NewsBy
  <2> QED BY <2>2, <2>3
<1>7. CASE imageUpdate /\ infor[2] /\ inforDelay = 0 /\ D(2) + 15 <= X
  <2>1. nd + 4 * (2 - 1) + 15 <= X
    BY <1>1, <1>7, Zenon DEF D, Clock
  <2>2. CASE d
    <3>1. inforDelay' = 1
      <4>1. inforDelay' = (inforDelay + 1) % 16
        BY <1>7, <2>2, ImageMoves
      <4>2. (0 + 1) % 16 = 1
        BY SMT
      <4> QED BY <1>7, <4>1, <4>2, Zenon
    <3>2. nd1 + 4 * (1 - 1) + 15 <= Y
      BY <1>1, <1>3, <2>1, <2>2, SMT DEF Beat
    <3>3. D(1)' + 15 <= Y
      BY <1>1, <3>2, Zenon DEF D, Clock
    <3> QED BY <1>4, <1>5, <2>2, <3>1, <3>3, Zenon DEF NewsBy
  <2>3. CASE ~d
    <3>1. infor'[2] /\ inforDelay' = 0
      BY <1>7, <2>3, ImageMoves
    <3>2. nd1 + 4 * (2 - 1) + 15 <= Y
      BY <1>1, <1>3, <2>1, <2>3, SMT DEF Beat
    <3>3. D(2)' + 15 <= Y
      BY <1>1, <3>2, Zenon DEF D, Clock
    <3> QED BY <1>4, <1>5, <1>7, <3>1, <3>3, Zenon DEF NewsBy
  <2> QED BY <2>2, <2>3
<1>8. CASE imageUpdate /\ inforDelay = 1 /\ D(1) + 15 <= X
  <2>1. nd + 4 * (1 - 1) + 15 <= X
    BY <1>1, <1>8, Zenon DEF D, Clock
  <2>2. CASE d
    <3>1. inforDelay' = 2 /\ inforLong'
      <4>1. inforDelay' = (inforDelay + 1) % 16 /\ inforLong'
        <5>1. inforDelay # 0
          BY <1>8, SMT
        <5> QED BY <2>2, <5>1, ImageMoves
      <4>2. (1 + 1) % 16 = 2
        BY SMT
      <4> QED BY <1>8, <4>1, <4>2, Zenon
    <3>2. /\ na1 + 5 * (1 - 1) <= nd1 + 4 * ((16 - 2) - 1)
          /\ na1 + 5 * (3 - 1) <= Y
      BY <1>1, <1>3, <2>1, <2>2, SMT DEF Beat
    <3>3. A(1)' <= D(16 - 2)' /\ A(3)' <= Y
      BY <1>1, <3>2, Zenon DEF A, D, Clock
    <3>4. A(1)' <= D(16 - inforDelay)'
      BY <3>1, <3>3, Zenon DEF D
    <3>5. inforDelay' >= 2
      BY <3>1, SMT
    <3> QED BY <1>4, <1>5, <2>2, <3>1, <3>3, <3>4, <3>5, Zenon DEF NewsBy
  <2>3. CASE ~d
    <3>1. inforDelay' = 1
      BY <1>8, <2>3, ImageMoves
    <3>2. nd1 + 4 * (1 - 1) + 15 <= Y
      BY <1>1, <1>3, <2>1, <2>3, SMT DEF Beat
    <3>3. D(1)' + 15 <= Y
      BY <1>1, <3>2, Zenon DEF D, Clock
    <3> QED BY <1>4, <1>5, <1>8, <3>1, <3>3, Zenon DEF NewsBy
  <2> QED BY <2>2, <2>3
<1>9. CASE /\ imageUpdate /\ inforLong /\ inforDelay >= 2
           /\ A(1) <= D(16 - inforDelay) /\ A(3) <= X
  <2>1. /\ p >= 2 /\ na + 5 * (1 - 1) <= nd + 4 * ((16 - p) - 1)
        /\ na + 5 * (3 - 1) <= X
    BY <1>1, <1>2, <1>9, Zenon DEF A, D, Clock
  <2>2. CASE a
    <3>1. inforAxi'[1] /\ updateAxi'[1]
      BY <1>9, <2>2, ImageMoves
    <3>2. na1 + 5 * (2 - 1) <= Y
      BY <1>1, <1>3, <2>1, <2>2, SMT DEF Beat
    <3>3. A(2)' <= Y
      BY <1>1, <3>2, Zenon DEF A, Clock
    <3> QED BY <1>4, <1>5, <1>9, <3>1, <3>3, Zenon DEF NewsBy
  <2>3. CASE ~a
    <3>1. d
      BY <1>1, <2>3, SMT DEF Beat
    <3>2. p < 15
      BY <1>1, <1>2, <2>1, <2>3, SMT DEF Beat
    <3>3. inforDelay' = p + 1 /\ inforLong'
      <4>1. p # 0 /\ (p + 1) % 16 = p + 1
        BY <1>2, <2>1, <3>2, SMT
      <4>2. inforDelay' = (p + 1) % 16 /\ inforLong'
        BY <1>2, <3>1, <4>1, ImageMoves
      <4> QED BY <4>1, <4>2
    <3>4. /\ na1 + 5 * (1 - 1) <= nd1 + 4 * ((16 - (p + 1)) - 1)
          /\ na1 + 5 * (3 - 1) <= Y /\ p + 1 >= 2
      BY <1>1, <1>2, <1>3, <2>1, <2>3, <3>1, SMT DEF Beat
    <3>5. A(1)' <= D(16 - (p + 1))' /\ A(3)' <= Y
      BY <1>1, <3>4, Zenon DEF A, D, Clock
    <3>6. A(1)' <= D(16 - inforDelay)' /\ inforDelay' >= 2
      BY <3>3, <3>4, <3>5, Zenon DEF D
    <3> QED BY <1>4, <1>5, <3>1, <3>3, <3>5, <3>6, Zenon DEF NewsBy
  <2> QED BY <2>2, <2>3
<1>10. CASE imageUpdate /\ inforAxi[1] /\ updateAxi[1] /\ A(2) <= X
  <2>1. na + 5 * (2 - 1) <= X
    BY <1>1, <1>10, Zenon DEF A, Clock
  <2>2. CASE a
    <3>1. inforAxi'[2] /\ updateAxi'[2]
      BY <1>10, <2>2, ImageMoves
    <3>2. na1 + 5 * (1 - 1) <= Y
      BY <1>1, <1>3, <2>1, <2>2, SMT DEF Beat
    <3>3. A(1)' <= Y
      BY <1>1, <3>2, Zenon DEF A, Clock
    <3> QED BY <1>4, <1>5, <1>10, <3>1, <3>3, Zenon DEF NewsBy
  <2>3. CASE ~a
    <3>1. inforAxi'[1] /\ updateAxi'[1]
      BY <1>10, <2>3, ImageMoves
    <3>2. na1 + 5 * (2 - 1) <= Y
      BY <1>1, <1>3, <2>1, <2>3, SMT DEF Beat
    <3>3. A(2)' <= Y
      BY <1>1, <3>2, Zenon DEF A, Clock
    <3> QED BY <1>4, <1>5, <1>10, <3>1, <3>3, Zenon DEF NewsBy
  <2> QED BY <2>2, <2>3
<1>11. CASE imageUpdate /\ inforAxi[2] /\ updateAxi[2] /\ A(1) <= X
  <2>1. na + 5 * (1 - 1) <= X
    BY <1>1, <1>11, Zenon DEF A, Clock
  <2>2. CASE a
    BY <1>4, <1>5, <1>11, <2>2, ImageMoves DEF NewsBy
  <2>3. CASE ~a
    <3>1. inforAxi'[2] /\ updateAxi'[2]
      BY <1>11, <2>3, ImageMoves
    <3>2. na1 + 5 * (1 - 1) <= Y
      BY <1>1, <1>3, <2>1, <2>3, SMT DEF Beat
    <3>3. A(1)' <= Y
      BY <1>1, <3>2, Zenon DEF A, Clock
    <3> QED BY <1>4, <1>5, <1>11, <3>1, <3>3, Zenon DEF NewsBy
  <2> QED BY <2>2, <2>3
<1>12. CASE imageUpdate /\ imageNeed
  <2>1. imageNeed'
    BY <1>12, ImageMoves DEF Tick
  <2> QED BY <1>4, <1>5, <1>12, <2>1, Zenon DEF NewsBy
<1> QED BY <1>6, <1>7, <1>8, <1>9, <1>10, <1>11, <1>12, Zenon DEF NewsBy

(* News that is due now has arrived. *)
LEMMA NewsNow ==
  ASSUME LoopIInv, NewsBy(0)
  PROVE  imageNeed
<1>1. NextAxi \in 1..5 /\ NextDeal \in 1..4
  BY Nexts
<1>2. /\ ~(D(3) + 15 <= 0) /\ ~(D(2) + 15 <= 0) /\ ~(D(1) + 15 <= 0)
      /\ ~(A(3) <= 0) /\ ~(A(2) <= 0) /\ ~(A(1) <= 0)
  BY <1>1, SMT DEF A, D
<1> QED BY <1>2, Zenon DEF NewsBy

(* The judgement, when the buffer wants the image the head asks for. *)
LEMMA JudgedForImage ==
  ASSUME LoopIInv, NEW a, NEW d, NEW done, NEW k, NEW i, NEW m,
         Tick(a, d), Step(a, d, done, k, i, m), a, ctl = "iterate_judge",
         headImage, imageNeed
  PROVE  ctl' = "image_rd"
<1>1. ctl' = Transfer!CtlNext(wrNeedPipe[3], done, headImage /\ imageNeed, Kernels > 0)
  BY Zenon DEF Step, AxiEdge, Transfer!Clk
<1> QED BY <1>1, SMT DEF Transfer!CtlNext

(* A head that is read is judged after it is taken. *)
LEMMA UnfetchedNew ==
  ASSUME LoopIInv, NEW a, NEW d, NEW done, NEW k, NEW i, NEW m,
         Tick(a, d), Step(a, d, done, k, i, m), ~fetched',
         a, ctl = "head_rd", done
  PROVE  Unfetched'
<1>1. headImage' /\ ~(Kernels > 0)
  BY ImageMoves
<1>2. kernelWrites' = kernelWrites /\ kernelReads' = kernelReads
  BY <1>1, ImageMoves DEF Tick
<1>3. kernelWrites = kernelReads
  <2>1. kernelWrites \in 0..7 /\ kernelReads \in 0..7
    BY Zenon DEF LoopIInv, LoopTypeOK
  <2> QED BY <1>1, <2>1, SMT DEF Kernels
<1>4. ctl' = "iterate_head_wait"
  BY CtlMoves
<1>5. HeadHere' /\ PopTime' \in Int /\ PopTime' <= 12
  BY HeadComesAndGoes
<1>6. state' \in Pre
  BY <1>5 DEF HeadHere
<1>7. JudgeTime' = 105
  BY BackTimePasses
<1>8. PopTime' + 27 <= JudgeTime'
  <2>1. PICK p \in Int : p = PopTime' /\ p <= 12
    BY <1>5
  <2>2. p \in Int /\ p <= 12
    BY <2>1, Zenon
  <2>3. p + 27 <= 105
    BY <2>2, SMT
  <2> QED BY <1>7, <2>1, <2>3, Zenon
<1> QED BY <1>1, <1>2, <1>3, <1>4, <1>5, <1>6, <1>8, Zenon DEF Unfetched, Judging

(* It stays so until its image has been read. *)
LEMMA UnfetchedStays ==
  ASSUME LoopIInv, NEW a, NEW d, NEW done, NEW k, NEW i, NEW m,
         Tick(a, d), Step(a, d, done, k, i, m), Images, ~fetched',
         ~(a /\ ctl = "head_rd" /\ done)
  PROVE  Unfetched'
<1>1. ~fetched /\ Unfetched
  <2>1. ~fetched
    BY ImageMoves DEF Tick
  <2> QED BY <2>1 DEF Images
<1>2. /\ headImage /\ kernelWrites = kernelReads
      /\ state \in Pre \cup {"load_kernel"}
      /\ ctl \in Judging \cup {"image_rd"}
      /\ ctl # "image_rd" =>
           IF HeadHere THEN PopTime + 27 <= JudgeTime ELSE NewsBy(JudgeTime)
  BY <1>1, Zenon DEF Unfetched
<1>3. ~(Kernels > 0)
  <2>1. kernelWrites \in 0..7 /\ kernelReads \in 0..7
    BY Zenon DEF LoopIInv, LoopTypeOK
  <2> QED BY <1>2, <2>1, SMT DEF Kernels
<1>4. headImage' /\ kernelWrites' = kernelReads'
  <2>1. ctl # "kernel_rd"
    BY <1>2 DEF Judging
  <2>2. headImage'
    BY <1>2, ImageMoves DEF Tick
  <2>3. kernelWrites' = kernelWrites /\ kernelReads' = kernelReads
    BY <1>3, <2>1, ImageMoves DEF Tick
  <2> QED BY <1>2, <2>2, <2>3
<1>5. state' \in Pre \cup {"load_kernel"}
  <2>1. d /\ k => Kernels > 0
    BY Zenon DEF Step, DealEdge
  <2> QED BY <1>2, <1>3, <2>1, StateMoves DEF Pre, Tick
<1>6. PopTime \in Nat /\ JudgeTime \in Nat /\ JudgeTime' \in Nat /\ Dt \in Nat
      /\ JudgeTime' >= JudgeTime - Dt /\ PopTime' \in Int
  BY HeadComesAndGoes, JudgeTimePasses, NextNumbers
<1>7. ctl' \in Judging \cup {"image_rd"} /\ (ctl = "image_rd" => ctl' = "image_rd")
  <2>1. CASE ctl = "image_rd"
    <3>1. ~(a /\ done)
      BY <2>1, ImageMoves DEF Tick
    <3> QED BY <2>1, <3>1, CtlMoves DEF Tick
  <2>2. CASE ctl = "iterate_judge"
    <3>1. JudgeTime = 0
      BY <2>2, SMT DEF JudgeTime
    <3>2. ~(PopTime + 27 <= JudgeTime)
      BY <1>6, <3>1, SMT
    <3>3. NewsBy(0)
      BY <1>2, <2>2, <3>1, <3>2
    <3>4. imageNeed
      BY <3>3, NewsNow
    <3> QED BY <1>2, <2>2, <3>4, JudgedForImage, CtlMoves DEF Tick, Judging
  <2>3. CASE ctl \in Judging /\ ctl # "iterate_judge"
    BY <2>3, CtlMoves DEF Tick, Judging
  <2> QED BY <1>2, <2>1, <2>2, <2>3
<1>8. ASSUME ctl' # "image_rd"
      PROVE  IF HeadHere' THEN PopTime' + 27 <= JudgeTime' ELSE NewsBy(JudgeTime)'
  <2>1. /\ HeadHere => PopTime + 27 <= JudgeTime
        /\ ~HeadHere => NewsBy(JudgeTime)
    BY <1>2, <1>7, <1>8
  <2>2. CASE HeadHere'
    <3>1. HeadHere /\ PopTime' = PopTime - Dt
      BY <2>2, HeadComesAndGoes
    <3>2. PopTime' + 27 <= JudgeTime'
      BY <1>6, <2>1, <3>1, SMT
    <3> QED BY <2>2, <3>2
  <2>3. CASE ~HeadHere' /\ HeadHere
    <3>1. d /\ LoadHeadRd /\ PopTime = Dt /\ loadHead
      BY <2>3, HeadComesAndGoes
    <3>2. Quiet
      BY <3>1 DEF Images
    <3>3. headQ' /\ infor'[1] /\ ~infor'[2] /\ inforDelay' = 0
      BY <1>2, <3>1, <3>2, ImageMoves DEF Quiet
    <3>4. JudgeTime' >= 27
      BY <1>6, <2>1, <2>3, <3>1, SMT
    <3>5. D(3)' = 12
      <4>1. NextDeal' = 4
        BY <3>1 DEF Tick
      <4>2. 4 + 4 * (3 - 1) = 12
        BY SMT
      <4> QED BY <4>1, <4>2, Zenon DEF D
    <3>6. D(3)' + 15 <= JudgeTime'
      BY <1>6, <3>4, <3>5, SMT
    <3>7. NewsBy(JudgeTime)'
      BY <3>3, <3>6, Zenon DEF NewsBy
    <3> QED BY <2>3, <3>7
  <2>4. CASE ~HeadHere' /\ ~HeadHere
    <3>1. ~LoadHeadRd
      BY <2>4, ReadsInWait
    <3>2. ~rdFinish
      <4>1. ctl # "kernel_rd"
        BY <1>2 DEF Judging
      <4> QED BY <4>1 DEF Images
    <3>3. PICK X \in Int, Y \in Int : X = JudgeTime /\ Y = JudgeTime'
      BY <1>6
    <3>4. NewsBy(X) /\ Y >= X - Dt
      BY <1>6, <2>1, <2>4, <3>3
    <3>5. NewsBy(Y)'
      BY <3>1, <3>2, <3>4, NewsByStep
    <3>6. NewsBy(JudgeTime)'
      BY <3>3, <3>5, Zenon DEF NewsBy
    <3> QED BY <2>4, <3>6
  <2> QED BY <2>2, <2>3, <2>4
<1> QED BY <1>4, <1>5, <1>7, <1>8, Zenon DEF Unfetched

(* Images is kept ... *)
LEMMA ImagesStep ==
  ASSUME LoopIInv, NEW a, NEW d, NEW done, NEW k, NEW i, NEW m,
         Tick(a, d), Step(a, d, done, k, i, m), Images
  PROVE  Images'
<1>1. rdFinish' => ctl' = "kernel_rd"
  <2>1. CASE a
    BY <2>1, ImageMoves, DataMoves
  <2>2. CASE ~a
    BY <2>2, ImageMoves, CtlMoves DEF Images
  <2> QED BY <2>1, <2>2
<1>2. state' \notin Telling \/ loadHead' => Quiet'
  BY QuietStep
<1>3. PICK X \in Int, Y \in Int : X = BackTime /\ Y = BackTime'
  BY BackTimePasses
<1>4. Y >= X - Dt /\ Dt \in Nat
  BY <1>3, BackTimePasses, NextNumbers
<1>5. HeadHere => PopTime + 68 <= X
  BY <1>3 DEF Images
<1>6. InforBy(BackTime)'
  <2>1. InforBy(X)
    BY <1>3 DEF Images
  <2>2. d /\ LoadHeadRd => Dt + 68 <= X
    BY <1>5, HeadComesAndGoes
  <2>3. InforBy(Y)'
    BY <1>4, <2>1, <2>2, InforByStep
  <2> QED BY <1>3, <2>3, Zenon DEF InforBy
<1>7. HeadHere' => PopTime' + 68 <= BackTime'
  <2>1. CASE HeadHere /\ PopTime' = PopTime - Dt
    <3>1. PopTime \in Nat /\ PopTime + 68 <= X
      BY <1>5, <2>1, HeadComesAndGoes
    <3>2. PopTime' + 68 <= Y
      BY <1>4, <2>1, <3>1, SMT
    <3> QED BY <1>3, <3>2, Zenon
  <2>2. CASE a /\ ctl = "head_rd" /\ done
    <3>1. PopTime' \in Int /\ PopTime' <= 12 /\ BackTime' = 195
      BY <2>2, HeadComesAndGoes, BackTimePasses
    <3>2. PICK p \in Int : p = PopTime' /\ p <= 12
      BY <3>1
    <3>3. p \in Int /\ p <= 12
      BY <3>2, Zenon
    <3>4. p + 68 <= 195
      BY <3>3, SMT
    <3> QED BY <3>1, <3>2, <3>4, Zenon
  <2> QED BY <2>1, <2>2, HeadComesAndGoes
<1>8. ~fetched' => Unfetched'
  BY UnfetchedNew, UnfetchedStays
<1> QED BY <1>1, <1>2, <1>6, <1>7, <1>8 DEF Images

(* ... by a stutter too ... *)
LEMMA ImagesStutter ==
  ASSUME Images, UNCHANGED loopVars
  PROVE  Images'
<1>1. UNCHANGED axiVars /\ UNCHANGED dealVars /\ phase' = phase
  BY Zenon DEF loopVars
<1>2. /\ ctl' = ctl /\ waitCnt' = waitCnt /\ headWrites' = headWrites
      /\ kernelWrites' = kernelWrites /\ rdFinish' = rdFinish
      /\ inforAxi' = inforAxi /\ updateAxi' = updateAxi
      /\ imageNeed' = imageNeed /\ headImage' = headImage /\ fetched' = fetched
  BY <1>1, Zenon DEF axiVars
<1>3. /\ state' = state /\ loadHead' = loadHead /\ headSeen' = headSeen
      /\ headPops' = headPops /\ kernelReads' = kernelReads /\ headQ' = headQ
      /\ imageUpdate' = imageUpdate /\ infor' = infor /\ inforDelay' = inforDelay
      /\ inforLong' = inforLong
  BY <1>1, Zenon DEF dealVars
<1>4. NextAxi' = NextAxi /\ NextDeal' = NextDeal
  BY <1>1, Zenon DEF NextAxi, NextDeal
<1>5. /\ BackTime' = BackTime /\ JudgeTime' = JudgeTime /\ PopTime' = PopTime
      /\ (HeadHere' <=> HeadHere) /\ (Quiet' <=> Quiet)
  BY <1>2, <1>3, <1>4, Zenon
     DEF BackTime, IdleTime, JudgeTime, PopTime, HeadHere, HeadsAhead, Quiet, A, D
<1>6. InforBy(BackTime)' <=> InforBy(BackTime)
  BY <1>3, <1>4, <1>5, Zenon DEF InforBy, D
<1>7. NewsBy(JudgeTime)' <=> NewsBy(JudgeTime)
  BY <1>2, <1>3, <1>4, <1>5, Zenon DEF NewsBy, A, D
<1>8. Unfetched' <=> Unfetched
  BY <1>2, <1>3, <1>5, <1>7, Zenon DEF Unfetched
<1> QED BY <1>2, <1>3, <1>5, <1>6, <1>8, Zenon DEF Images

(* ... and it holds at reset. *)
LEMMA InitImages == LoopInit => Images
<1> SUFFICES ASSUME LoopInit PROVE Images
  OBVIOUS
<1>1. /\ rdFinish = FALSE /\ infor = Off(2) /\ inforDelay = 0 /\ fetched = TRUE
      /\ headWrites = 0 /\ headPops = 0 /\ headSeen = 0
  BY Zenon DEF LoopInit
<1>2. ~infor[1] /\ ~infor[2]
  BY <1>1, SMT DEF Off
<1>3. ~HeadHere
  BY <1>1, SMT DEF HeadHere, HeadsAhead
<1> QED BY <1>1, <1>2, <1>3, Zenon DEF Images, Quiet, InforBy

(* The kernels of a head are not read, and nothing is convolved, before the
   image the head asks for has been read: the news of the head, made fifteen
   edges long, is at the transfer side when it judges, and none of an earlier
   head is (image_read_buffer_control.v, information_read_write.v).           *)
THEOREM ImageComesFirst == LoopSpec => []ImageOfHead
<1>1. LoopIInv /\ Images => ImageOfHead
  <2> SUFFICES ASSUME LoopIInv, Images, ~fetched
               PROVE  ctl \notin {"kernel_rd", "kernel_judge"} /\ state # "load_image"
    BY Zenon DEF ImageOfHead
  <2>1. /\ state \in Pre \cup {"load_kernel"}
        /\ ctl \in Judging \cup {"image_rd"}
    BY Zenon DEF Images, Unfetched
  <2> QED BY <2>1 DEF Pre, Judging
<1>2. LoopIInv /\ Images /\ [LoopNext]_loopVars => Images'
  <2> SUFFICES ASSUME LoopIInv, Images, [LoopNext]_loopVars PROVE Images'
    OBVIOUS
  <2>1. CASE LoopNext
    <3>1. phase \in 0..7
      BY Zenon DEF LoopIInv, LoopTypeOK
    <3>2. PICK a, d, done, k, i, m : Tick(a, d) /\ Step(a, d, done, k, i, m)
      BY <2>1, <3>1, NextIsStep
    <3> QED BY <3>2, ImagesStep
  <2>2. CASE UNCHANGED loopVars
    BY <2>2, ImagesStutter
  <2> QED BY <2>1, <2>2
<1> QED BY <1>1, <1>2, InitImages, LoopInvariant, PTL DEF LoopSpec
=============================================================================
