------------------------- MODULE ProcessControlProofs -------------------------
(* Proofs about ProcessControl, for every number of layers, every number of
   maps they send back, and every length of the two delays.                  *)
EXTENDS ProcessControl, TLAPS

-----------------------------------------------------------------------------
(* The inductive invariant. *)

Busy == {"load_head", "wait_add_zero", "load_kernel", "load_image",
         "deal_image", "send_image", "end"}

(* Where one state machine is tells where the other is. *)
Together ==
  /\ state = "idle" => layerState = "idle"
  /\ state = "start" => layerState \in {"start", "count"}
  /\ state \in Busy => layerState = "count"
  /\ state = "inter" /\ interCnt = 0 => layerState = "end"
  /\ state = "inter" /\ interCnt # 0 => layerState = "idle"
  /\ state # "inter" => interCnt = 0

(* A full layer exists only in process_control_end. *)
CountBound ==
  /\ layerState = "start" => convCnt = 0
  /\ layerState = "count" => convCnt <= Returns[layer]
  /\ layerState = "count" /\ convCnt = Returns[layer] => state = "end"

(* The counter tells what was returned. *)
CountExact ==
  /\ layerState = "count" =>
       \A l \in Layers : returned[l] = IF l < layer THEN Returns[l]
                                       ELSE IF l = layer THEN convCnt ELSE 0
  /\ state = "inter" => returned = Returns

(* one_layer_finish is up only in the cycle after the change of layer. *)
Pulse ==
  /\ layerState = "start" => ~oneLayerFinish
  /\ oneLayerFinish /\ layerState = "count" => state = "start"

(* activation_choose is one cycle behind the layer. *)
ActivationLag ==
  state \in Busy \ {"load_head"} => (activation <=> layer = NLayers)

IInv == TypeOK /\ Together /\ CountBound /\ CountExact /\ Pulse /\ ActivationLag

-----------------------------------------------------------------------------
LEMMA Constants ==
  /\ NLayers \in Nat /\ NLayers >= 1 /\ 1 \in Layers /\ NLayers \in Layers
  /\ \A l \in Layers : Returns[l] \in 1..MaxCount /\ l \in Nat /\ 1 <= l /\ l <= NLayers
  /\ 0 \in 0..MaxCount /\ 0 \in 0..HeadDelay /\ 0 \in 0..InterDelay /\ InterDelay # 0
<1>1. NLayers \in Nat /\ NLayers >= 1 /\ 1 \in Layers /\ NLayers \in Layers
  BY NLayersAssumption, SMT DEF Layers
<1>2. ASSUME NEW l \in Layers
      PROVE  Returns[l] \in 1..MaxCount /\ l \in Nat /\ 1 <= l /\ l <= NLayers
  <2>1. Returns[l] \in 1..MaxCount
    BY ReturnsAssumption
  <2>2. l \in Nat /\ 1 <= l /\ l <= NLayers
    BY <1>1, SMT DEF Layers
  <2> QED BY <2>1, <2>2
<1>3. 0 \in 0..HeadDelay /\ 0 \in 0..InterDelay /\ InterDelay # 0
  BY HeadDelayAssumption, InterDelayAssumption, SMT
<1>4. 0 \in 0..MaxCount
  BY SMT DEF MaxCount
<1> QED BY <1>1, <1>2, <1>3, <1>4

LEMMA InitIInv == Init => IInv
<1> SUFFICES ASSUME Init PROVE IInv
  OBVIOUS
<1>1. TypeOK
  <2>1. returned \in [Layers -> 0..MaxCount]
    BY Constants DEF Init
  <2> QED BY <2>1, Constants, Zenon DEF Init, TypeOK, States
<1>2. Together /\ CountBound /\ CountExact /\ Pulse /\ ActivationLag
  BY Zenon DEF Init, Together, CountBound, CountExact, Pulse, ActivationLag, Busy
<1> QED BY <1>1, <1>2 DEF IInv

(* An edge of deal_clk with the pulses ProcessControl can meet. *)
Edge(b, k, i, m, r, rd) ==
  /\ b \in BOOLEAN /\ k \in BOOLEAN /\ i \in BOOLEAN
  /\ m \in BOOLEAN /\ r \in BOOLEAN /\ rd \in BOOLEAN
  /\ b => state = "idle"
  /\ rd => state = "send_image"
  /\ Clk(b, k, i, m, r, rd)

LEMMA NextIsEdge ==
  ASSUME Next
  PROVE  \E b, k, i, m, r, rd : Edge(b, k, i, m, r, rd)
<1>1. CASE Begin
  <2>1. PICK b \in BOOLEAN : state = "idle" /\ Clk(b, FALSE, FALSE, FALSE, FALSE, FALSE)
    BY <1>1 DEF Begin
  <2>2. Edge(b, FALSE, FALSE, FALSE, FALSE, FALSE)
    BY <2>1, Zenon DEF Edge
  <2> QED BY <2>2
<1>2. CASE Load
  <2>1. PICK done \in BOOLEAN :
          \/ Clk(FALSE, done, FALSE, FALSE, FALSE, FALSE)
          \/ Clk(FALSE, FALSE, done, FALSE, FALSE, FALSE)
    BY <1>2 DEF Load
  <2>2. \/ Edge(FALSE, done, FALSE, FALSE, FALSE, FALSE)
        \/ Edge(FALSE, FALSE, done, FALSE, FALSE, FALSE)
    BY <2>1, Zenon DEF Edge
  <2> QED BY <2>2
<1>3. CASE Deal
  <2>1. PICK done \in BOOLEAN, r \in BOOLEAN : Clk(FALSE, FALSE, FALSE, done, r, FALSE)
    BY <1>3 DEF Deal
  <2>2. Edge(FALSE, FALSE, FALSE, done, r, FALSE)
    BY <2>1, Zenon DEF Edge
  <2> QED BY <2>2
<1>4. CASE Send
  <2>1. PICK rd \in BOOLEAN :
          state = "send_image" /\ Clk(FALSE, FALSE, FALSE, FALSE, FALSE, rd)
    BY <1>4 DEF Send
  <2>2. Edge(FALSE, FALSE, FALSE, FALSE, FALSE, rd)
    BY <2>1, Zenon DEF Edge
  <2> QED BY <2>2
<1>5. CASE Advance
  <2>1. Edge(FALSE, FALSE, FALSE, FALSE, FALSE, FALSE)
    BY <1>5, Zenon DEF Advance, Edge
  <2> QED BY <2>1
<1> QED BY <1>1, <1>2, <1>3, <1>4, <1>5 DEF Next

-----------------------------------------------------------------------------
(* Where an edge leads the process state machine. *)
LEMMA StateSteps ==
  ASSUME NEW b, NEW k, NEW i, NEW m, NEW r, NEW rd,
         Edge(b, k, i, m, r, rd), state \in States
  PROVE  /\ state' \in States
         /\ state = "idle" => state' = IF b THEN "start" ELSE "idle"
         /\ state = "start" => state' = "load_head"
         /\ state = "load_head" => state' = "wait_add_zero"
         /\ state = "wait_add_zero" => state' \in {"wait_add_zero", "load_kernel"}
         /\ state = "load_kernel" => state' \in {"load_kernel", "load_image"}
         /\ state = "load_image" => state' \in {"load_image", "deal_image"}
         /\ state = "deal_image" => state' \in {"deal_image", "send_image", "start"}
         /\ state = "send_image" => state' = IF rd THEN "end" ELSE "send_image"
         /\ state = "end" => state' = IF AlgorithmFinishTemp THEN "inter" ELSE "start"
         /\ state = "inter" => state' = IF interCnt = InterDelay THEN "idle" ELSE "inter"
<1>1. state' = StateNext(b, k, i, m, r, rd)
  BY DEF Edge, Clk
<1> QED BY <1>1, SMT DEF StateNext, EndNext, States

(* ... and the layer state machine. *)
LEMMA LayerSteps ==
  ASSUME NEW b, NEW k, NEW i, NEW m, NEW r, NEW rd,
         Edge(b, k, i, m, r, rd), TypeOK
  PROVE  /\ layerState = "idle" =>
              /\ layerState' = IF b THEN "start" ELSE "idle"
              /\ layer' = layer /\ convCnt' = 0 /\ oneLayerFinish' = FALSE
              /\ returned' = returned
         /\ layerState = "start" =>
              /\ layerState' = "count" /\ layer' = 1 /\ convCnt' = convCnt
              /\ oneLayerFinish' = oneLayerFinish
              /\ returned' = [l \in Layers |-> 0]
         /\ layerState = "end" =>
              /\ layerState' = "idle" /\ layer' = layer /\ convCnt' = convCnt
              /\ oneLayerFinish' = oneLayerFinish /\ returned' = returned
         /\ layerState = "count" /\ rd => LayerReturn
         /\ layerState = "count" /\ ~rd /\ convCnt = Returns[layer] => LayerChange
         /\ layerState = "count" /\ ~rd /\ convCnt # Returns[layer] => LayerHold
<1>1. LayerStep(b, rd) /\ b \in BOOLEAN /\ rd \in BOOLEAN
  BY Zenon DEF Edge, Clk
<1>2. oneLayerFinish \in BOOLEAN /\ layerState \in {"idle", "start", "count", "end"}
  BY Zenon DEF TypeOK
<1>3. CASE layerState # "count"
  <2>1. LayerOff(b)
    BY <1>1, <1>3, Zenon DEF LayerStep, LayerReturn, LayerChange, LayerHold
  <2>2. CASE layerState = "idle"
    <3>1. /\ layerState' = IF b THEN "start" ELSE "idle"
          /\ layer' = layer /\ convCnt' = 0 /\ returned' = returned
      BY <1>1, <2>1, <2>2, SMT DEF LayerOff
    <3>2. oneLayerFinish' = FALSE
      BY <2>1, <2>2, Zenon DEF LayerOff
    <3> QED BY <2>2, <3>1, <3>2, Zenon
  <2>3. CASE layerState = "start"
    BY <1>2, <2>1, <2>3, SMT DEF LayerOff
  <2>4. CASE layerState = "end"
    BY <1>2, <2>1, <2>4, SMT DEF LayerOff
  <2> QED BY <1>2, <1>3, <2>2, <2>3, <2>4
<1>4. CASE layerState = "count"
  <2>1. rd => LayerReturn
    BY <1>1, <1>4, Zenon DEF LayerStep, LayerOff
  <2>2. ~rd => LayerChange \/ LayerHold
    BY <1>1, <1>4, Zenon DEF LayerStep, LayerOff
  <2>3. /\ convCnt = Returns[layer] => ~LayerHold
        /\ convCnt # Returns[layer] => ~LayerChange
    BY Zenon DEF LayerHold, LayerChange
  <2> QED BY <1>4, <2>1, <2>2, <2>3
<1> QED BY <1>3, <1>4

(* Only process_control_send_image counts a map, and only a full layer in
   process_control_end changes.                                              *)
LEMMA CountSteps ==
  ASSUME NEW b, NEW k, NEW i, NEW m, NEW r, NEW rd,
         Edge(b, k, i, m, r, rd), IInv, layerState = "count"
  PROVE  \/ /\ state = "send_image" /\ rd /\ state' = "end"
            /\ layerState' = "count" /\ layer' = layer
            /\ convCnt < Returns[layer] /\ convCnt' = convCnt + 1
            /\ returned' = [returned EXCEPT ![layer] = convCnt + 1]
            /\ oneLayerFinish' = oneLayerFinish
         \/ /\ state = "end" /\ ~rd /\ convCnt = Returns[layer]
            /\ layer # NLayers /\ state' = "start"
            /\ layerState' = "count" /\ layer' = layer + 1 /\ convCnt' = 0
            /\ returned' = returned
         \/ /\ state = "end" /\ ~rd /\ convCnt = Returns[layer]
            /\ layer = NLayers /\ state' = "inter"
            /\ layerState' = "end" /\ layer' = layer /\ convCnt' = 0
            /\ returned' = returned
         \/ /\ ~rd /\ convCnt < Returns[layer]
            /\ state = "send_image" => state' = "send_image"
            /\ state = "end" => state' = "start"
            /\ layerState' = "count" /\ layer' = layer /\ convCnt' = convCnt
            /\ oneLayerFinish' = FALSE /\ returned' = returned
<1>1. /\ TypeOK /\ Together /\ CountBound /\ CountExact
  BY DEF IInv
<1>2. /\ state \in States /\ layer \in Layers /\ convCnt \in 0..MaxCount
      /\ returned \in [Layers -> 0..MaxCount]
  BY <1>1, Zenon DEF TypeOK
<1>3. /\ Returns[layer] \in 1..MaxCount /\ MaxCount \in Int
      /\ convCnt \in Int /\ Returns[layer] \in Int /\ 0 <= convCnt
      /\ Returns[layer] <= MaxCount
  <2>1. Returns[layer] \in 1..MaxCount
    BY <1>2, Constants
  <2>2. MaxCount \in Int
    BY SMT DEF MaxCount
  <2> QED BY <1>2, <2>1, <2>2, SMT
<1>4. convCnt <= Returns[layer] /\ (convCnt = Returns[layer] => state = "end")
  BY <1>1, Zenon DEF CountBound
<1>5. /\ state = "send_image" => state' = IF rd THEN "end" ELSE "send_image"
      /\ state = "end" => state' = IF AlgorithmFinishTemp THEN "inter" ELSE "start"
  BY <1>2, StateSteps
<1>6. rd => state = "send_image"
  BY Zenon DEF Edge
<1>7. CASE rd
  <2>1. LayerReturn
    BY <1>1, <1>7, LayerSteps
  <2>2. convCnt # Returns[layer]
    BY <1>4, <1>6, <1>7, Zenon
  <2>3. convCnt < Returns[layer] /\ (convCnt + 1) % (MaxCount + 1) = convCnt + 1
    <3>1. convCnt < Returns[layer]
      BY <1>3, <1>4, <2>2, SMT
    <3>2. convCnt + 1 \in 0..MaxCount
      BY <1>3, <3>1, SMT
    <3>3. \A n \in 0..MaxCount : n % (MaxCount + 1) = n
      BY SMT DEF MaxCount
    <3> QED BY <3>1, <3>2, <3>3
  <2>4. returned[layer] = convCnt
    <3>1. ~(layer < layer)
      BY <1>2, Constants
    <3> QED BY <1>1, <1>2, <3>1, Zenon DEF CountExact
  <2> QED BY <1>5, <1>6, <1>7, <2>1, <2>3, <2>4, Zenon DEF LayerReturn
<1>8. CASE ~rd /\ convCnt = Returns[layer]
  <2>1. LayerChange /\ state = "end"
    BY <1>1, <1>4, <1>8, LayerSteps
  <2>2. AlgorithmFinishTemp <=> layer = NLayers
    BY <1>8, Zenon DEF AlgorithmFinishTemp
  <2> QED BY <1>5, <1>8, <2>1, <2>2, Zenon DEF LayerChange
<1>9. CASE ~rd /\ convCnt # Returns[layer]
  <2>1. LayerHold
    BY <1>1, <1>9, LayerSteps
  <2>2. convCnt < Returns[layer]
    BY <1>3, <1>4, <1>9, SMT
  <2>3. ~AlgorithmFinishTemp
    BY <1>9, Zenon DEF AlgorithmFinishTemp
  <2> QED BY <1>5, <1>9, <2>1, <2>2, <2>3, Zenon DEF LayerHold
<1> QED BY <1>7, <1>8, <1>9, Zenon

-----------------------------------------------------------------------------
(* The counters of the two delays stay within them. *)
LEMMA DelaySteps ==
  ASSUME NEW b, NEW k, NEW i, NEW m, NEW r, NEW rd,
         Edge(b, k, i, m, r, rd), TypeOK
  PROVE  /\ headDelayCnt' \in 0..HeadDelay /\ interCnt' \in 0..InterDelay
         /\ interCnt' = IF interCnt = InterDelay THEN 0
                        ELSE IF state = "inter" THEN interCnt + 1 ELSE interCnt
<1>1. headDelayCnt' = HeadDelayNext /\ interCnt' = InterCntNext
  BY Zenon DEF Edge, Clk
<1>2. /\ headDelayCnt \in 0..HeadDelay /\ interCnt \in 0..InterDelay
      /\ HeadDelay \in Nat /\ InterDelay \in Nat
  BY HeadDelayAssumption, InterDelayAssumption DEF TypeOK
<1>3. headDelayCnt' \in 0..HeadDelay
  BY <1>1, <1>2, SMT DEF HeadDelayNext
<1>4. interCnt' \in 0..InterDelay
  BY <1>1, <1>2, SMT DEF InterCntNext
<1> QED BY <1>1, <1>3, <1>4, Zenon DEF InterCntNext

(* Between the layers nothing is counted. *)
LEMMA OffSteps ==
  ASSUME NEW b, NEW k, NEW i, NEW m, NEW r, NEW rd,
         Edge(b, k, i, m, r, rd), IInv, layerState # "count"
  PROVE  \/ /\ state = "idle" /\ layerState = "idle"
            /\ state' = (IF b THEN "start" ELSE "idle")
            /\ layerState' = (IF b THEN "start" ELSE "idle")
            /\ layer' = layer /\ convCnt' = 0 /\ oneLayerFinish' = FALSE
            /\ returned' = returned
         \/ /\ state = "start" /\ layerState = "start" /\ state' = "load_head"
            /\ layerState' = "count" /\ layer' = 1 /\ convCnt' = 0
            /\ oneLayerFinish' = FALSE
            /\ returned' = [l \in Layers |-> 0]
         \/ /\ state = "inter" /\ layerState = "end" /\ interCnt = 0
            /\ state' = "inter" /\ layerState' = "idle" /\ layer' = layer
            /\ convCnt' = convCnt /\ oneLayerFinish' = oneLayerFinish
            /\ returned' = returned
         \/ /\ state = "inter" /\ layerState = "idle" /\ interCnt # 0
            /\ state' = (IF interCnt = InterDelay THEN "idle" ELSE "inter")
            /\ layerState' = "idle" /\ layer' = layer
            /\ convCnt' = 0 /\ oneLayerFinish' = FALSE /\ returned' = returned
<1>1. TypeOK /\ Together /\ CountBound /\ Pulse
  BY DEF IInv
<1>2. state \in States /\ oneLayerFinish \in BOOLEAN /\ interCnt \in 0..InterDelay
  BY <1>1, Zenon DEF TypeOK
<1>3. state \in {"idle", "start", "inter"}
  BY <1>1, <1>2, SMT DEF Together, Busy, States
<1>4. CASE state = "idle"
  <2>1. layerState = "idle"
    BY <1>1, <1>4, Zenon DEF Together
  <2>2. state' = IF b THEN "start" ELSE "idle"
    BY <1>2, <1>4, StateSteps
  <2>3. /\ layerState' = IF b THEN "start" ELSE "idle"
        /\ layer' = layer /\ convCnt' = 0 /\ oneLayerFinish' = FALSE
        /\ returned' = returned
    BY <1>1, <2>1, LayerSteps
  <2> QED BY <1>4, <2>1, <2>2, <2>3, Zenon
<1>5. CASE state = "start"
  <2>1. layerState = "start"
    BY <1>1, <1>5, SMT DEF Together
  <2>2. state' = "load_head"
    BY <1>2, <1>5, StateSteps
  <2>3. convCnt = 0 /\ oneLayerFinish = FALSE
    BY <1>1, <1>2, <2>1, Zenon DEF CountBound, Pulse
  <2>4. /\ layerState' = "count" /\ layer' = 1 /\ convCnt' = convCnt
        /\ oneLayerFinish' = oneLayerFinish
        /\ returned' = [l \in Layers |-> 0]
    BY <1>1, <2>1, LayerSteps
  <2> QED BY <1>5, <2>1, <2>2, <2>3, <2>4, Zenon
<1>6. CASE state = "inter"
  <2>1. state' = IF interCnt = InterDelay THEN "idle" ELSE "inter"
    BY <1>2, <1>6, StateSteps
  <2>2. ~b
    BY <1>6 DEF Edge
  <2>3. CASE interCnt = 0
    <3>1. layerState = "end"
      BY <1>1, <1>6, <2>3, Zenon DEF Together
    <3>2. /\ layerState' = "idle" /\ layer' = layer /\ convCnt' = convCnt
          /\ oneLayerFinish' = oneLayerFinish /\ returned' = returned
      BY <1>1, <3>1, LayerSteps
    <3>3. interCnt # InterDelay
      BY <2>3, Constants
    <3> QED BY <1>6, <2>1, <2>3, <3>1, <3>2, <3>3, Zenon
  <2>4. CASE interCnt # 0
    <3>1. layerState = "idle"
      BY <1>1, <1>6, <2>4, Zenon DEF Together
    <3>2. /\ layerState' = IF b THEN "start" ELSE "idle"
          /\ layer' = layer /\ convCnt' = 0 /\ oneLayerFinish' = FALSE
          /\ returned' = returned
      BY <1>1, <3>1, LayerSteps
    <3> QED BY <1>6, <2>1, <2>2, <2>4, <3>1, <3>2, Zenon
  <2> QED BY <2>3, <2>4
<1> QED BY <1>3, <1>4, <1>5, <1>6

-----------------------------------------------------------------------------
(* Each part of the invariant is kept by an edge. *)
LEMMA TypeStep ==
  ASSUME NEW b, NEW k, NEW i, NEW m, NEW r, NEW rd,
         Edge(b, k, i, m, r, rd), IInv
  PROVE  TypeOK'
<1>1. TypeOK
  BY DEF IInv
<1>2. /\ layer \in Layers /\ convCnt \in 0..MaxCount /\ MaxCount \in Int
      /\ returned \in [Layers -> 0..MaxCount] /\ NLayers \in Nat
      /\ Returns[layer] \in 1..MaxCount /\ state \in States
      /\ oneLayerFinish \in BOOLEAN
  <2>1. MaxCount \in Int
    BY SMT DEF MaxCount
  <2> QED BY <1>1, <2>1, Constants DEF TypeOK
<1>3. state' \in States
  BY <1>2, StateSteps
<1>4. headDelayCnt' \in 0..HeadDelay /\ interCnt' \in 0..InterDelay
  BY <1>1, DelaySteps
<1>5. activation' \in BOOLEAN /\ algorithmFinish' \in BOOLEAN
  BY Zenon DEF Edge, Clk, ActivationNext, AlgorithmFinishTemp
<1>6. oneLayerFinish' \in BOOLEAN
  <2>1. LayerStep(b, rd)
    BY Zenon DEF Edge, Clk
  <2> QED BY <1>2, <2>1, Zenon DEF LayerStep, LayerOff, LayerReturn, LayerChange, LayerHold
<1>7. /\ layerState' \in {"idle", "start", "count", "end"}
      /\ layer' \in Layers /\ convCnt' \in 0..MaxCount
      /\ returned' \in [Layers -> 0..MaxCount]
  <2>1. CASE layerState = "count"
    <3>1. \/ /\ layerState' = "count" /\ layer' = layer
             /\ convCnt < Returns[layer] /\ convCnt' = convCnt + 1
             /\ returned' = [returned EXCEPT ![layer] = convCnt + 1]
          \/ /\ layer # NLayers /\ layerState' = "count" /\ layer' = layer + 1
             /\ convCnt' = 0 /\ returned' = returned
          \/ /\ layerState' = "end" /\ layer' = layer /\ convCnt' = 0
             /\ returned' = returned
          \/ /\ layerState' = "count" /\ layer' = layer /\ convCnt' = convCnt
             /\ returned' = returned
      BY <2>1, CountSteps
    <3>2. convCnt < Returns[layer] => convCnt + 1 \in 0..MaxCount
      BY <1>2, SMT
    <3>3. layer # NLayers => layer + 1 \in Layers
      BY <1>2, SMT DEF Layers
    <3>4. convCnt + 1 \in 0..MaxCount =>
            [returned EXCEPT ![layer] = convCnt + 1] \in [Layers -> 0..MaxCount]
      BY <1>2, Zenon
    <3> QED BY <1>2, <3>1, <3>2, <3>3, <3>4, Constants, Zenon
  <2>2. CASE layerState # "count"
    <3>1. /\ layerState' \in {"idle", "start", "count"}
          /\ layer' \in {layer, 1} /\ convCnt' \in {convCnt, 0}
          /\ returned' = returned \/ returned' = [l \in Layers |-> 0]
      BY <2>2, OffSteps, Zenon
    <3>2. [l \in Layers |-> 0] \in [Layers -> 0..MaxCount]
      BY Constants
    <3> QED BY <1>2, <3>1, <3>2, Constants
  <2> QED BY <2>1, <2>2
<1> QED BY <1>3, <1>4, <1>5, <1>6, <1>7, Zenon DEF TypeOK

LEMMA TogetherStep ==
  ASSUME NEW b, NEW k, NEW i, NEW m, NEW r, NEW rd,
         Edge(b, k, i, m, r, rd), IInv
  PROVE  Together'
<1>1. TypeOK /\ Together
  BY DEF IInv
<1>2. state \in States /\ interCnt \in 0..InterDelay /\ InterDelay \in Nat \ {0}
  BY <1>1, InterDelayAssumption DEF TypeOK
<1>3. interCnt' = IF interCnt = InterDelay THEN 0
                  ELSE IF state = "inter" THEN interCnt + 1 ELSE interCnt
  BY <1>1, DelaySteps
<1>4. CASE layerState = "count"
  <2>1. state # "inter" /\ state # "idle"
    BY <1>1, <1>4, Zenon DEF Together
  <2>2. interCnt = 0 /\ interCnt' = 0
    BY <1>1, <1>2, <1>3, <2>1, SMT DEF Together
  <2>3. \/ state' \notin {"idle", "inter"} /\ layerState' = "count"
        \/ state' = "inter" /\ layerState' = "end"
    <3>1. \/ state' = "end" /\ layerState' = "count"
          \/ state' = "start" /\ layerState' = "count"
          \/ state' = "inter" /\ layerState' = "end"
          \/ (state = "end" => state' = "start") /\ layerState' = "count"
      BY <1>4, CountSteps, Zenon
    <3>2. state # "end" => state' \notin {"idle", "inter"}
      BY <1>2, <2>1, StateSteps, SMT DEF States
    <3> QED BY <3>1, <3>2, Zenon
  <2> QED BY <2>2, <2>3, Zenon DEF Together, Busy
<1>5. CASE layerState # "count"
  <2>1. \/ /\ state = "idle" /\ state' = (IF b THEN "start" ELSE "idle")
           /\ layerState' = (IF b THEN "start" ELSE "idle")
        \/ state = "start" /\ state' = "load_head" /\ layerState' = "count"
        \/ state = "inter" /\ interCnt = 0 /\ state' = "inter" /\ layerState' = "idle"
        \/ /\ state = "inter" /\ interCnt # 0 /\ layerState' = "idle"
           /\ state' = (IF interCnt = InterDelay THEN "idle" ELSE "inter")
    BY <1>5, OffSteps, Zenon
  <2>2. state # "inter" => interCnt = 0
    BY <1>1, Zenon DEF Together
  <2>3. /\ state # "inter" => interCnt' = 0
        /\ interCnt = InterDelay => interCnt' = 0
        /\ state = "inter" /\ interCnt # InterDelay => interCnt' # 0
    BY <1>2, <1>3, <2>2, SMT
  <2>4. interCnt = 0 => interCnt # InterDelay
    BY <1>2
  <2>5. CASE state = "idle"
    BY <2>1, <2>3, <2>5, Zenon DEF Together, Busy
  <2>6. CASE state = "start"
    BY <2>1, <2>3, <2>6, Zenon DEF Together, Busy
  <2>7. CASE state = "inter" /\ interCnt # InterDelay
    BY <2>1, <2>3, <2>7, Zenon DEF Together, Busy
  <2>8. CASE state = "inter" /\ interCnt = InterDelay
    BY <2>1, <2>3, <2>4, <2>8, Zenon DEF Together, Busy
  <2> QED BY <2>1, <2>5, <2>6, <2>7, <2>8
<1> QED BY <1>4, <1>5

LEMMA CountBoundStep ==
  ASSUME NEW b, NEW k, NEW i, NEW m, NEW r, NEW rd,
         Edge(b, k, i, m, r, rd), IInv
  PROVE  CountBound'
<1>1. layer \in Layers /\ convCnt \in Int /\ MaxCount \in Int
  <2>1. layer \in Layers /\ convCnt \in 0..MaxCount
    BY Zenon DEF IInv, TypeOK
  <2>2. MaxCount \in Int
    BY SMT DEF MaxCount
  <2> QED BY <2>1, <2>2, SMT
<1>2. ASSUME NEW l \in Layers PROVE Returns[l] \in Int /\ 0 <= Returns[l] /\ 0 # Returns[l]
  BY <1>1, Constants, SMT
<1>3. CASE layerState = "count"
  <2>1. \/ /\ layerState' = "count" /\ layer' = layer /\ state' = "end"
           /\ convCnt < Returns[layer] /\ convCnt' = convCnt + 1
        \/ /\ layer # NLayers /\ layerState' = "count"
           /\ layer' = layer + 1 /\ convCnt' = 0
        \/ layerState' = "end"
        \/ /\ layerState' = "count" /\ layer' = layer
           /\ convCnt < Returns[layer] /\ convCnt' = convCnt
    BY <1>3, CountSteps, Zenon
  <2>2. convCnt < Returns[layer] =>
          convCnt + 1 <= Returns[layer] /\ convCnt <= Returns[layer]
                                        /\ convCnt # Returns[layer]
    BY <1>1, <1>2, SMT
  <2>3. layer # NLayers => layer + 1 \in Layers
    BY <1>1, Constants, SMT DEF Layers
  <2>4. layer # NLayers => 0 <= Returns[layer + 1] /\ 0 # Returns[layer + 1]
    BY <1>2, <2>3
  <2> QED BY <2>1, <2>2, <2>4, Zenon DEF CountBound
<1>4. CASE layerState # "count"
  <2>1. \/ layerState' = "start" /\ convCnt' = 0
        \/ layerState' = "count" /\ layer' = 1 /\ convCnt' = 0
        \/ layerState' = "idle"
    BY <1>4, OffSteps, Zenon
  <2>2. 0 <= Returns[1] /\ 0 # Returns[1]
    BY <1>2, Constants
  <2> QED BY <2>1, <2>2, Zenon DEF CountBound
<1> QED BY <1>3, <1>4

LEMMA CountExactStep ==
  ASSUME NEW b, NEW k, NEW i, NEW m, NEW r, NEW rd,
         Edge(b, k, i, m, r, rd), IInv
  PROVE  CountExact'
<1>1. /\ layer \in Layers /\ returned \in [Layers -> 0..MaxCount]
      /\ Together /\ CountExact
  BY Zenon DEF IInv, TypeOK
<1>2. DOMAIN Returns = Layers /\ DOMAIN returned = Layers
      /\ Returns = [l \in Layers |-> Returns[l]]
      /\ returned = [l \in Layers |-> returned[l]]
  BY <1>1, ReturnsAssumption
<1>3. ASSUME NEW l \in Layers
      PROVE  /\ l < layer + 1 <=> l < layer \/ l = layer
             /\ l = layer => ~(l < layer)
             /\ layer = NLayers => l < layer \/ l = layer
             /\ ~(l < 1)
  BY <1>1, Constants, SMT
<1>4. CASE layerState = "count"
  <2>1. ASSUME NEW l \in Layers
        PROVE  returned[l] = IF l < layer THEN Returns[l]
                             ELSE IF l = layer THEN convCnt ELSE 0
    BY <1>1, <1>4, Zenon DEF CountExact
  <2>2. CASE /\ state' = "end" /\ layer' = layer /\ convCnt' = convCnt + 1
             /\ returned' = [returned EXCEPT ![layer] = convCnt + 1]
    <3>1. ASSUME NEW l \in Layers
          PROVE  returned'[l] = IF l < layer' THEN Returns[l]
                                ELSE IF l = layer' THEN convCnt' ELSE 0
      <4>1. returned'[l] = IF l = layer THEN convCnt + 1 ELSE returned[l]
        BY <1>2, <2>2
      <4> QED BY <1>3, <2>1, <2>2, <4>1, Zenon
    <3> QED BY <2>2, <3>1, Zenon DEF CountExact
  <2>3. CASE /\ convCnt = Returns[layer] /\ state' = "start"
             /\ layer' = layer + 1 /\ convCnt' = 0 /\ returned' = returned
    <3>1. ASSUME NEW l \in Layers
          PROVE  returned'[l] = IF l < layer' THEN Returns[l]
                                ELSE IF l = layer' THEN convCnt' ELSE 0
      BY <1>3, <2>1, <2>3
    <3> QED BY <2>3, <3>1, Zenon DEF CountExact
  <2>4. CASE /\ convCnt = Returns[layer] /\ layer = NLayers
             /\ layerState' = "end" /\ returned' = returned
    <3>1. ASSUME NEW l \in Layers PROVE returned[l] = Returns[l]
      BY <1>3, <2>1, <2>4, Zenon
    <3>2. returned = Returns
      BY <1>2, <3>1
    <3> QED BY <2>4, <3>2, Zenon DEF CountExact
  <2>5. CASE /\ layer' = layer /\ convCnt' = convCnt /\ returned' = returned
             /\ state' # "inter"
    BY <2>1, <2>5, Zenon DEF CountExact
  <2>6. \/ /\ state' = "end" /\ layer' = layer /\ convCnt' = convCnt + 1
           /\ returned' = [returned EXCEPT ![layer] = convCnt + 1]
        \/ /\ convCnt = Returns[layer] /\ state' = "start"
           /\ layer' = layer + 1 /\ convCnt' = 0 /\ returned' = returned
        \/ /\ convCnt = Returns[layer] /\ layer = NLayers
           /\ layerState' = "end" /\ returned' = returned
        \/ /\ layer' = layer /\ convCnt' = convCnt /\ returned' = returned
           /\ state = "end" => state' = "start"
    BY <1>4, CountSteps, Zenon
  <2>7. state # "end" => state' # "inter"
    <3>1. state \in States /\ state # "inter"
      BY <1>1, <1>4, Zenon DEF Together, IInv, TypeOK
    <3> QED BY <3>1, StateSteps, SMT DEF States
  <2> QED BY <2>2, <2>3, <2>4, <2>5, <2>6, <2>7
<1>5. CASE layerState # "count"
  <2>1. \/ layerState' # "count" /\ state' # "inter"
        \/ /\ state' = "load_head" /\ layer' = 1 /\ convCnt' = 0
           /\ returned' = [l \in Layers |-> 0]
        \/ state = "inter" /\ layerState' # "count" /\ returned' = returned
    BY <1>5, OffSteps, Zenon
  <2>2. state = "inter" => returned = Returns
    BY <1>1, Zenon DEF CountExact
  <2>3. CASE /\ state' = "load_head" /\ layer' = 1 /\ convCnt' = 0
             /\ returned' = [l \in Layers |-> 0]
    BY <1>3, <2>3, Zenon DEF CountExact
  <2> QED BY <2>1, <2>2, <2>3, Zenon DEF CountExact
<1> QED BY <1>4, <1>5

LEMMA PulseStep ==
  ASSUME NEW b, NEW k, NEW i, NEW m, NEW r, NEW rd,
         Edge(b, k, i, m, r, rd), IInv
  PROVE  Pulse'
<1>1. Pulse
  BY DEF IInv
<1>2. CASE layerState = "count"
  <2>1. \/ /\ state = "send_image" /\ layerState' = "count"
           /\ oneLayerFinish' = oneLayerFinish
        \/ state' = "start" /\ layerState' = "count"
        \/ layerState' = "end"
        \/ layerState' = "count" /\ oneLayerFinish' = FALSE
    BY <1>2, CountSteps, Zenon
  <2>2. layerState' # "start"
    BY <2>1, SMT
  <2>3. CASE oneLayerFinish' = oneLayerFinish /\ state = "send_image"
    <3>1. ~oneLayerFinish
      BY <1>1, <1>2, <2>3 DEF Pulse
    <3> QED BY <2>2, <2>3, <3>1, Zenon DEF Pulse
  <2>4. CASE state' = "start"
    BY <2>2, <2>4, Zenon DEF Pulse
  <2>5. CASE layerState' = "end"
    BY <2>5, SMT DEF Pulse
  <2>6. CASE oneLayerFinish' = FALSE
    BY <2>6, Zenon DEF Pulse
  <2> QED BY <2>1, <2>3, <2>4, <2>5, <2>6
<1>3. CASE layerState # "count"
  <2>1. \/ layerState' = "idle"
        \/ layerState' = "start" /\ oneLayerFinish' = FALSE
        \/ layerState' = "count" /\ oneLayerFinish' = FALSE
    BY <1>3, OffSteps, Zenon
  <2> QED BY <2>1, Zenon DEF Pulse
<1> QED BY <1>2, <1>3

LEMMA ActivationStep ==
  ASSUME NEW b, NEW k, NEW i, NEW m, NEW r, NEW rd,
         Edge(b, k, i, m, r, rd), IInv
  PROVE  ActivationLag'
<1>1. state \in States /\ Together
  BY Zenon DEF IInv, TypeOK
<1>2. activation' = ActivationNext
  BY Zenon DEF Edge, Clk
<1>3. ASSUME state' \in Busy \ {"load_head"}
      PROVE  layerState = "count" /\ layer' = layer
  <2>1. layerState = "count"
    <3>1. state \in Busy
      BY <1>1, <1>3, StateSteps, SMT DEF States, Busy
    <3> QED BY <1>1, <3>1, Zenon DEF Together
  <2>2. state' # "start"
    BY <1>3 DEF Busy
  <2> QED BY <2>1, <2>2, CountSteps, Zenon
<1>4. ASSUME state' \in Busy \ {"load_head"}
      PROVE  activation' <=> layer' = NLayers
  BY <1>2, <1>3, <1>4, Zenon DEF ActivationNext
<1> QED BY <1>4, Zenon DEF ActivationLag, Busy

-----------------------------------------------------------------------------
LEMMA NextIInv == IInv /\ [Next]_vars => IInv'
<1> SUFFICES ASSUME IInv, [Next]_vars PROVE IInv'
  OBVIOUS
<1>1. CASE Next
  <2>1. PICK b, k, i, m, r, rd : Edge(b, k, i, m, r, rd)
    BY <1>1, NextIsEdge
  <2> QED BY <2>1, TypeStep, TogetherStep, CountBoundStep, CountExactStep,
             PulseStep, ActivationStep DEF IInv
<1>2. CASE UNCHANGED vars
  <2>1. /\ UNCHANGED <<state, headDelayCnt, interCnt, layerState, layer>>
        /\ UNCHANGED <<convCnt, oneLayerFinish, activation, algorithmFinish, returned>>
    BY <1>2, Zenon DEF vars
  <2>2. TypeOK' /\ Together' /\ Pulse' /\ ActivationLag'
    BY <2>1, Zenon DEF IInv, TypeOK, Together, Pulse, ActivationLag
  <2>3. CountBound' /\ CountExact'
    BY <2>1, Zenon DEF IInv, CountBound, CountExact
  <2> QED BY <2>2, <2>3 DEF IInv
<1> QED BY <1>1, <1>2

(* interrupt.v: the two state machines keep step and the counter counts what
   was sent back, whatever the network's shape.                              *)
THEOREM Invariant == Spec => []IInv
<1> QED BY InitIInv, NextIInv, PTL DEF Spec

(* The registers of interrupt.v keep their types. *)
THEOREM TypeCorrect == Spec => []TypeOK
<1>1. IInv => TypeOK
  BY DEF IInv
<1> QED BY <1>1, Invariant, PTL

(* process_control_inter is entered only when every layer has sent back
   exactly its maps.                                                         *)
THEOREM InterruptAfterAll == Spec => []InterruptMeansDone
<1>1. IInv => InterruptMeansDone
  BY DEF IInv, CountExact, InterruptMeansDone
<1> QED BY <1>1, Invariant, PTL

(* The one cycle of algorithm_finish finds process_control_end looking. *)
THEOREM FinishNeverMissed == Spec => []FinishIsCaught
<1>1. IInv => FinishIsCaught
  BY Zenon DEF IInv, CountBound, FinishIsCaught, AlgorithmFinishTemp
<1> QED BY <1>1, Invariant, PTL

(* one_layer_finish of every layer but the last lasts one cycle, so the image
   banks are swapped once between two layers.                                *)
THEOREM PulseLastsOneCycle == Spec => OneCyclePulse
<1> DEFINE Down == oneLayerFinish /\ layerState = "count" => ~oneLayerFinish'
<1>1. IInv /\ Next => Down
  <2> SUFFICES ASSUME IInv, Next, oneLayerFinish, layerState = "count"
               PROVE  ~oneLayerFinish'
    OBVIOUS
  <2>1. PICK b, k, i, m, r, rd : Edge(b, k, i, m, r, rd)
    BY NextIsEdge
  <2>2. state = "start"
    BY Zenon DEF IInv, Pulse
  <2>3. convCnt # Returns[layer]
    BY <2>2, Zenon DEF IInv, CountBound
  <2>4. oneLayerFinish' = FALSE
    BY <2>1, <2>2, <2>3, CountSteps, Zenon
  <2> QED BY <2>4
<1>2. IInv /\ [Next]_vars => [Down]_vars
  BY <1>1
<1> QED BY <1>2, Invariant, PTL DEF Spec, OneCyclePulse

(* The last layer is computed with its own activation, and no other is. *)
THEOREM ActivationRight == Spec => []ActivationOfLayer
<1>1. IInv => ActivationOfLayer
  BY Zenon DEF IInv, ActivationLag, Busy, ActivationOfLayer
<1> QED BY <1>1, Invariant, PTL

(* Neither state machine is left behind by the other. *)
THEOREM StaysInStep == Spec => []InStep
<1>1. IInv => InStep
  BY SMT DEF IInv, TypeOK, States, Together, Busy, InStep
<1> QED BY <1>1, Invariant, PTL
=============================================================================
