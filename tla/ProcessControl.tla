--------------------------- MODULE ProcessControl ---------------------------
(* interrupt.v on deal_clk: the state machine that takes an image through its
   rounds (load head, load kernel, load image, compute, send the result back)
   and inter_finish_counter, which counts the maps sent back, layer by layer,
   and says when the network is done.  Two state machines that watch the same
   pulses and never look at each other: process_control_end must see
   algorithm_finish in the one cycle it lasts.

   Clk is one edge of deal_clk with every register of the file that is
   clocked by it; its parameters are the pulses that arrive at that edge.    *)
EXTENDS Integers

CONSTANTS
  NLayers,     \* LAYER_NUM
  Returns,     \* LAYERi_RETURN_NUM: maps layer i sends back
  HeadDelay,   \* 8'hFF, cycles of load_head_waitAddZero less one
  InterDelay   \* INTER_DELAY

Layers == 1..NLayers
MaxCount == 1023     \* conv_cnt has 10 bits

ASSUME NLayersAssumption == NLayers \in Nat \ {0}
ASSUME ReturnsAssumption == Returns \in [Layers -> 1..MaxCount]
ASSUME HeadDelayAssumption == HeadDelay \in Nat
ASSUME InterDelayAssumption == InterDelay \in Nat \ {0}

States == {"idle", "start", "load_head", "wait_add_zero", "load_kernel",
           "load_image", "deal_image", "send_image", "end", "inter"}

VARIABLES
  state,            \* process_control_state
  headDelayCnt,     \* load_head_delay_cnt
  interCnt,         \* inter_cnt
  layerState,       \* conv_layer_change_state: idle, start, a layer, end
  layer,            \* which layer, when layerState = "count"
  convCnt,          \* conv_cnt
  oneLayerFinish,   \* one_layer_finish
  activation,       \* activation_choose
  algorithmFinish,  \* algorithm_finish
  returned          \* history: maps of this image sent back, per layer

vars == <<state, headDelayCnt, interCnt, layerState, layer, convCnt,
          oneLayerFinish, activation, algorithmFinish, returned>>

Init ==
  /\ state = "idle" /\ headDelayCnt = 0 /\ interCnt = 0
  /\ layerState = "idle" /\ layer = 1 /\ convCnt = 0
  /\ oneLayerFinish = FALSE /\ activation = FALSE /\ algorithmFinish = FALSE
  /\ returned = [l \in Layers |-> 0]

-----------------------------------------------------------------------------
\* Mutant: conv_cnt is compared as if it were incremented at once.
AlgorithmFinishEarly ==
  layerState = "count" /\ layer = NLayers /\ convCnt + 1 = Returns[NLayers]

(* algorithm_finish of inter_finish_counter: a wire. *)
AlgorithmFinishTemp ==
  layerState = "count" /\ layer = NLayers /\ convCnt = Returns[NLayers]

(* process_control_end *)
EndNext == IF AlgorithmFinishTemp THEN "inter" ELSE "start"

(* The case statement on process_control_state: where one edge leads. *)
StateNext(begin, kernelFinish, imageFinish, maxpooling, returnAxi, ready) ==
  CASE state = "idle"          -> IF begin THEN "start" ELSE state
    [] state = "start"         -> "load_head"
    [] state = "load_head"     -> "wait_add_zero"
    [] state = "wait_add_zero" -> IF headDelayCnt = HeadDelay THEN "load_kernel"
                                                              ELSE state
    [] state = "load_kernel"   -> IF kernelFinish THEN "load_image" ELSE state
    [] state = "load_image"    -> IF imageFinish THEN "deal_image" ELSE state
    [] state = "deal_image"    -> IF maxpooling
                                    THEN IF returnAxi THEN "send_image" ELSE "start"
                                    ELSE state
    [] state = "send_image"    -> IF ready THEN "end" ELSE state
    [] state = "end"           -> EndNext
    [] state = "inter"         -> IF interCnt = InterDelay THEN "idle" ELSE state

\* Mutant: load_head_delay_cnt stays where it is.
HeadDelayMutant ==
  IF state = "wait_add_zero" /\ headDelayCnt # HeadDelay THEN headDelayCnt + 1
                                                        ELSE headDelayCnt

(* load_head_delay_cnt and inter_cnt: cleared at their limit, which comes
   before the test of the state.                                             *)
HeadDelayNext ==
  IF headDelayCnt = HeadDelay THEN 0
  ELSE IF state = "wait_add_zero" THEN headDelayCnt + 1 ELSE headDelayCnt

\* Mutant: the interrupt counter is cleared only when the state has changed.
InterCntMutant == IF state = "inter" THEN interCnt + 1 ELSE 0

InterCntNext ==
  IF interCnt = InterDelay THEN 0
  ELSE IF state = "inter" THEN interCnt + 1 ELSE interCnt

-----------------------------------------------------------------------------
(* inter_finish_counter, conv_layer_change_state idle, start and end. *)
LayerOff(begin) ==
  /\ layerState # "count"
  /\ layerState' = CASE layerState = "idle"  -> IF begin THEN "start" ELSE "idle"
                     [] layerState = "start" -> "count"
                     [] layerState = "end"   -> "idle"
  /\ layer' = IF layerState = "start" THEN 1 ELSE layer
  /\ convCnt' = IF layerState = "idle" THEN 0 ELSE convCnt
  /\ oneLayerFinish' = (layerState # "idle" /\ oneLayerFinish)
  /\ returned' = IF layerState = "start" THEN [l \in Layers |-> 0] ELSE returned

(* A layer: a map was sent back. *)
LayerReturn ==
  /\ layerState = "count"
  /\ convCnt' = (convCnt + 1) % (MaxCount + 1)
  /\ returned' = [returned EXCEPT ![layer] = @ + 1]
  /\ UNCHANGED <<layerState, layer, oneLayerFinish>>

\* Mutant: conv_cnt goes on counting in the next layer.
LayerChangeMutant ==
  /\ layerState = "count"
  /\ convCnt = Returns[layer]
  /\ oneLayerFinish' = TRUE
  /\ IF layer = NLayers THEN layerState' = "end" /\ layer' = layer
                        ELSE layerState' = "count" /\ layer' = layer + 1
  /\ UNCHANGED <<convCnt, returned>>

\* Mutant: the last layer ends one map early.
LayerChangeEarly ==
  /\ layerState = "count"
  /\ convCnt = Returns[layer] \/ (layer = NLayers /\ convCnt = Returns[layer] - 1)
  /\ convCnt' = 0
  /\ oneLayerFinish' = TRUE
  /\ IF layer = NLayers THEN layerState' = "end" /\ layer' = layer
                        ELSE layerState' = "count" /\ layer' = layer + 1
  /\ UNCHANGED returned

(* ... all its maps were. *)
LayerChange ==
  /\ layerState = "count"
  /\ convCnt = Returns[layer]
  /\ convCnt' = 0
  /\ oneLayerFinish' = TRUE
  /\ IF layer = NLayers THEN layerState' = "end" /\ layer' = layer
                        ELSE layerState' = "count" /\ layer' = layer + 1
  /\ UNCHANGED returned

\* Mutant: the pulse is cleared by the next map, not by the next cycle.
LayerHoldMutant ==
  /\ layerState = "count"
  /\ convCnt # Returns[layer]
  /\ oneLayerFinish' = (oneLayerFinish /\ convCnt = 0)
  /\ UNCHANGED <<layerState, layer, convCnt, returned>>

LayerHold ==
  /\ layerState = "count"
  /\ convCnt # Returns[layer]
  /\ oneLayerFinish' = FALSE
  /\ UNCHANGED <<layerState, layer, convCnt, returned>>

LayerStep(begin, ready) ==
  \/ LayerOff(begin)
  \/ ready /\ LayerReturn
  \/ ~ready /\ LayerChange
  \/ ~ready /\ LayerHold

\* Mutant: the activation follows the start of the count.
ActivationMutant == layerState = "count" /\ layer = NLayers /\ convCnt > 0

ActivationNext == layerState = "count" /\ layer = NLayers

-----------------------------------------------------------------------------
Clk(begin, kernelFinish, imageFinish, maxpooling, returnAxi, ready) ==
  /\ state' = StateNext(begin, kernelFinish, imageFinish, maxpooling, returnAxi, ready)
  /\ headDelayCnt' = HeadDelayNext
  /\ interCnt' = InterCntNext
  /\ LayerStep(begin, ready)
  /\ activation' = ActivationNext
  /\ algorithmFinish' = AlgorithmFinishTemp

(* What the rest of the accelerator owes this file: a pulse comes only when
   something asked for it.  RoundLoop discharges this.                       *)
Begin == \E begin \in BOOLEAN :
           state = "idle" /\ Clk(begin, FALSE, FALSE, FALSE, FALSE, FALSE)
Load == \E done \in BOOLEAN :
           \/ state = "load_kernel" /\ Clk(FALSE, done, FALSE, FALSE, FALSE, FALSE)
           \/ state = "load_image" /\ Clk(FALSE, FALSE, done, FALSE, FALSE, FALSE)
Deal == \E done, returnAxi \in BOOLEAN :
           state = "deal_image" /\ Clk(FALSE, FALSE, FALSE, done, returnAxi, FALSE)
Send == \E ready \in BOOLEAN :
           state = "send_image" /\ Clk(FALSE, FALSE, FALSE, FALSE, FALSE, ready)
Advance ==
  /\ state \in {"start", "load_head", "wait_add_zero", "end", "inter"}
  /\ Clk(FALSE, FALSE, FALSE, FALSE, FALSE, FALSE)

Next == Begin \/ Load \/ Deal \/ Send \/ Advance

Spec == Init /\ [][Next]_vars

-----------------------------------------------------------------------------
TypeOK ==
  /\ state \in States
  /\ headDelayCnt \in 0..HeadDelay /\ interCnt \in 0..InterDelay
  /\ layerState \in {"idle", "start", "count", "end"}
  /\ layer \in Layers /\ convCnt \in 0..MaxCount
  /\ oneLayerFinish \in BOOLEAN /\ activation \in BOOLEAN
  /\ algorithmFinish \in BOOLEAN
  /\ returned \in [Layers -> 0..MaxCount]

(* The interrupt means that every layer has sent back all its maps, no more
   and no less.                                                              *)
InterruptMeansDone == state = "inter" => returned = Returns

(* The one cycle of algorithm_finish is the cycle process_control_end looks,
   so no image ends without its interrupt.                                   *)
FinishIsCaught == AlgorithmFinishTemp => state = "end"

(* one_layer_finish of every layer but the last lasts one cycle of deal_clk:
   two would swap the image banks of information_read_write.v twice.         *)
OneCyclePulse ==
  [][oneLayerFinish /\ layerState = "count" => ~oneLayerFinish']_vars

(* While an image is computed, the last layer's activation is chosen exactly
   in the last layer.                                                        *)
ActivationOfLayer == state = "deal_image" => (activation <=> layer = NLayers)

(* The two state machines keep step: a round in progress belongs to a layer,
   and between two images both are at rest, so that neither misses a begin.  *)
InStep ==
  /\ state = "idle" => layerState = "idle" /\ interCnt = 0
  /\ state \notin {"idle", "start", "inter"} => layerState = "count"
=============================================================================
