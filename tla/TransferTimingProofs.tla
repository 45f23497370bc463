------------------------- MODULE TransferTimingProofs -------------------------
(* Proofs about TransferTiming: which stream a word belongs to, for any operands
   and any size of the streams.  The counts and addresses do not matter here,
   only that an operation ends with the last word of a burst.  What has to be
   shown is that the request pipeline holds exactly one pulse between two
   bursts, and none that outlives its operation.                             *)
EXTENDS TransferTiming, TLAPS

Active == {"judge", "no", "valid", "running"}
Mine(d) == ctl \in DataStates /\ Dir(ctl) = d

(* The four registers of the request of a direction. *)
Has(d, a, b, c, e) ==
  /\ req[d][1] <=> a
  /\ req[d][2] <=> b
  /\ req[d][3] <=> c
  /\ req[d][4] <=> e

Idling(d) ==
  split[d] = "idle" =>
    /\ fin[d]
    /\ \/ Has(d, FALSE, FALSE, FALSE, FALSE)
       \/ Mine(d) /\ ( \/ Has(d, TRUE, FALSE, FALSE, FALSE)
                       \/ Has(d, TRUE, TRUE, TRUE, FALSE)
                       \/ Has(d, TRUE, TRUE, FALSE, TRUE) )

Beginning(d) ==
  split[d] \in {"judge", "no", "valid"} =>
    Mine(d) /\ burst.op = ctl /\ fin[d] /\ Has(d, TRUE, TRUE, FALSE, FALSE)

Moving(d) ==
  split[d] = "running" =>
    /\ Mine(d) /\ burst.op = ctl /\ ~fin[d]
    /\ \/ Has(d, TRUE, TRUE, FALSE, FALSE)
       \/ Has(d, FALSE, TRUE, FALSE, FALSE)
       \/ Has(d, FALSE, FALSE, FALSE, FALSE)

Ending(d) ==
  split[d] = "end" =>
    fin[d] /\ ( \/ Has(d, FALSE, TRUE, FALSE, FALSE)
                \/ Has(d, FALSE, FALSE, FALSE, FALSE) )

Channel(d) ==
  /\ split[d] \in Active \cup {"idle", "end"}
  /\ Idling(d) /\ Beginning(d) /\ Moving(d) /\ Ending(d)

IInv == /\ ctl \in DataStates \cup {"ready", "judge"}
        /\ \A d \in Dirs : Channel(d)
        /\ RoutedRight

-----------------------------------------------------------------------------
LEMMA InitIInv == Init => IInv
BY DEF Init, IInv, Channel, Idling, Beginning, Moving, Ending, Has, Active, Dirs,
       DataStates, Streams, RoutedRight

(* A step of Next is an edge on which the state machine leaves an operation only
   with the last word of a burst.                                            *)
LEMMA CtlLeaves ==
  ASSUME IInv, NEW event \in {"none", "word", "last"}, NEW goal,
         ctl \in {"ready", "judge"} => goal \in DataStates \cup {"ready", "judge"},
         ctl' = CtlNext(event, goal)
  PROVE  /\ ctl' \in DataStates \cup {"ready", "judge"}
         /\ ctl \in DataStates /\ ctl' # ctl => split[Dir(ctl)] = "running" /\ event = "last"
<1>1. ctl \in {"ready", "judge", "head_rd", "image_wr", "image_rd", "kernel_rd"}
  BY DEF IInv, DataStates, Streams
<1>2. CASE ctl \in {"ready", "judge"}
  BY <1>2 DEF CtlNext, DataStates, Streams
<1>3. CASE ctl = "head_rd"
  BY <1>3 DEF CtlNext, NewFinish, DataStates, Streams, Dir
<1>4. CASE ctl = "image_wr"
  BY <1>4 DEF CtlNext, NewFinish, AllFinish, DataStates, Streams, Dir
<1>5. CASE ctl = "image_rd"
  BY <1>5 DEF CtlNext, NewFinish, AllFinish, DataStates, Streams, Dir
<1>6. CASE ctl = "kernel_rd"
  BY <1>6 DEF CtlNext, NewFinish, AllFinish, DataStates, Streams, Dir
<1> QED BY <1>1, <1>2, <1>3, <1>4, <1>5, <1>6

(* An edge keeps the invariant. *)
LEMMA EdgeIInv ==
  ASSUME IInv, NEW event \in {"none", "word", "last"}, NEW goal, NEW rewound,
         ctl \in {"ready", "judge"} => goal \in DataStates \cup {"ready", "judge"},
         event # "none" => \E e \in Dirs : split[e] = "running",
         Clk(event, goal, rewound)
  PROVE  IInv'
<1>ctl. /\ ctl' \in DataStates \cup {"ready", "judge"}
        /\ ctl \in DataStates /\ ctl' # ctl => split[Dir(ctl)] = "running" /\ event = "last"
  BY CtlLeaves DEF Clk
<1>edge. ASSUME NEW d \in Dirs
         PROVE  /\ req'[d][1] <=> Mine(d) /\ fin[d]
                /\ req'[d][2] <=> req[d][1]
                /\ req'[d][3] <=> req[d][1] /\ ~req[d][2]
                /\ req'[d][4] <=> req[d][3]
                /\ fin'[d] <=> (split[d] = "running" /\ event = "last") \/ (fin[d] /\ split[d] # "valid")
  <2>1. req'[d] = Request(d)
    BY DEF Clk
  <2>2. fin'[d] = (NewFinish(d, event) \/ (fin[d] /\ split[d] # "valid"))
    BY DEF Clk
  <2>3. req'[d] = <<ctl \in DataStates /\ Dir(ctl) = d /\ fin[d], req[d][1],
                    req[d][1] /\ ~req[d][2], req[d][3]>>
    BY <2>1 DEF Request
  <2>4. /\ req'[d][1] = (ctl \in DataStates /\ Dir(ctl) = d /\ fin[d])
        /\ req'[d][2] = req[d][1]
        /\ req'[d][3] = (req[d][1] /\ ~req[d][2])
        /\ req'[d][4] = req[d][3]
    BY <2>3
  <2> QED BY <2>2, <2>4 DEF NewFinish, Mine
<1>split. ASSUME NEW d \in Dirs
          PROVE  /\ split[d] = "idle" => split'[d] = IF req[d][4] THEN "judge" ELSE "idle"
                 /\ split[d] = "judge" => split'[d] = "no"
                 /\ split[d] = "no" => split'[d] = "valid"
                 /\ split[d] = "valid" => split'[d] = "running"
                 /\ split[d] = "running" => split'[d] = IF event = "last" THEN "end" ELSE "running"
                 /\ split[d] = "end" => split'[d] = "idle"
  <2>1. Splitter(event)
    BY DEF Clk
  <2>2. split'[d] = CASE split[d] = "idle"    -> IF req[d][4] THEN "judge" ELSE "idle"
                      [] split[d] = "judge"   -> "no"
                      [] split[d] = "no"      -> "valid"
                      [] split[d] = "valid"   -> "running"
                      [] split[d] = "running" -> IF event = "last" THEN "end" ELSE "running"
                      [] split[d] = "end"     -> "idle"
    BY <2>1 DEF Splitter
  <2> QED BY <2>2
<1>channel. \A d \in Dirs : Channel(d)
  BY DEF IInv
<1>mine. ASSUME NEW d \in Dirs, Mine(d), ~(split[d] = "running" /\ event = "last")
         PROVE  ctl' = ctl /\ Mine(d)'
  BY <1>mine, <1>ctl DEF Mine
<1>other. ASSUME NEW d \in Dirs, NEW e \in Dirs, Mine(d), split[e] = "idle", req[e][4]
          PROVE  e = d
  BY <1>other, <1>channel DEF Channel, Idling, Has, Mine
<1>burst. /\ (\E d \in Dirs : split[d] = "idle" /\ req[d][4]) => burst'.op = ctl
          /\ ~(\E d \in Dirs : split[d] = "idle" /\ req[d][4]) /\ event # "last" => burst' = burst
  BY DEF Clk, History
<1>1. ASSUME NEW d \in Dirs PROVE Channel(d)'
  <2>0. Channel(d)
    BY <1>channel
  <2>1. CASE split[d] = "idle" /\ ~req[d][4]
    <3>1. split'[d] = "idle" /\ fin'[d] /\ fin[d]
      BY <2>0, <2>1, <1>split, <1>edge DEF Channel, Idling
    <3>2. Mine(d) => Mine(d)'
      BY <2>1, <1>mine
    <3> QED BY <2>0, <2>1, <3>1, <3>2, <1>edge
          DEF Channel, Idling, Beginning, Moving, Ending, Has, Active
  <2>2. CASE split[d] = "idle" /\ req[d][4]
    <3>1. split'[d] = "judge" /\ fin'[d] /\ fin[d]
      BY <2>0, <2>2, <1>split, <1>edge DEF Channel, Idling
    <3>2. Mine(d) /\ Has(d, TRUE, TRUE, FALSE, TRUE)
      BY <2>0, <2>2 DEF Channel, Idling, Has
    <3>3. Mine(d)' /\ ctl' = ctl /\ burst'.op = ctl
      BY <2>2, <3>2, <1>mine, <1>burst
    <3>4. Has(d, TRUE, TRUE, FALSE, FALSE)'
      BY <3>1, <3>2, <1>edge DEF Has
    <3> QED BY <3>1, <3>3, <3>4 DEF Channel, Idling, Beginning, Moving, Ending, Active
  <2>3. CASE split[d] \in {"judge", "no", "valid"}
    <3>1. Mine(d) /\ burst.op = ctl /\ fin[d] /\ Has(d, TRUE, TRUE, FALSE, FALSE)
      BY <2>0, <2>3 DEF Channel, Beginning
    <3>2. Mine(d)' /\ ctl' = ctl
      BY <2>3, <3>1, <1>mine
    <3>3. event # "last" => burst'.op = ctl
      BY <2>3, <3>1, <1>burst, <1>other
    <3>4. Has(d, TRUE, TRUE, FALSE, FALSE)'
      BY <3>1, <1>edge DEF Has
    <3>5. event # "last"
      <4> SUFFICES ASSUME event = "last" PROVE FALSE
        OBVIOUS
      <4>1. PICK e \in Dirs : split[e] = "running"
        OBVIOUS
      <4>2. e = d
        BY <4>1, <3>1, <1>channel DEF Channel, Moving, Mine
      <4> QED BY <4>1, <4>2, <2>3
    <3> QED BY <2>3, <3>2, <3>3, <3>4, <3>5, <1>split, <1>edge, <3>1
          DEF Channel, Idling, Beginning, Moving, Ending, Active
  <2>4. CASE split[d] = "running" /\ event # "last"
    <3>1. Mine(d) /\ burst.op = ctl /\ ~fin[d]
      BY <2>0, <2>4 DEF Channel, Moving
    <3>2. Mine(d)' /\ ctl' = ctl /\ burst'.op = ctl
      BY <2>4, <3>1, <1>mine, <1>burst, <1>other
    <3>3. split'[d] = "running" /\ ~fin'[d]
      BY <2>4, <3>1, <1>split, <1>edge
    <3> QED BY <2>0, <2>4, <3>1, <3>2, <3>3, <1>edge
          DEF Channel, Idling, Beginning, Moving, Ending, Has, Active
  <2>5. CASE split[d] = "running" /\ event = "last"
    <3>1. ~fin[d] /\ fin'[d] /\ split'[d] = "end"
      BY <2>0, <2>5, <1>split, <1>edge DEF Channel, Moving
    <3> QED BY <2>0, <2>5, <3>1, <1>edge
          DEF Channel, Idling, Beginning, Moving, Ending, Has, Active
  <2>6. CASE split[d] = "end"
    <3>1. split'[d] = "idle" /\ fin[d] /\ fin'[d]
      BY <2>0, <2>6, <1>split, <1>edge DEF Channel, Ending
    <3>2. Mine(d) => Mine(d)'
      BY <2>6, <1>mine
    <3> QED BY <2>0, <2>6, <3>1, <3>2, <1>edge
          DEF Channel, Idling, Beginning, Moving, Ending, Has, Active
  <2> QED BY <2>0, <2>1, <2>2, <2>3, <2>4, <2>5, <2>6 DEF Channel, Active
<1>2. RoutedRight'
  <2>1. word' # "none" => split["rd"] = "running" /\ word' = burst.op
    BY DEF Clk
  <2>2. information_operation' = ctl
    BY DEF Clk, Operation
  <2>3. "rd" \in Dirs
    BY DEF Dirs
  <2>4. split["rd"] = "running" => burst.op = ctl
    BY <1>channel, <2>3 DEF Channel, Moving
  <2> QED BY <2>1, <2>2, <2>4 DEF RoutedRight
<1> QED BY <1>ctl, <1>1, <1>2 DEF IInv

LEMMA Always == Spec => []IInv
<1>1. IInv /\ [Next]_vars => IInv'
  <2> SUFFICES ASSUME IInv, [Next]_vars PROVE IInv'
    OBVIOUS
  <2>1. ASSUME NEW goal \in DataStates \cup {"ready", "judge"}, NEW rewound, Quiet(goal, rewound)
        PROVE  IInv'
    BY <2>1, EdgeIInv DEF Quiet
  <2>2. ASSUME NEW event \in {"word", "last"}, Busy(event)
        PROVE  IInv'
    BY <2>2, EdgeIInv DEF Busy
  <2>3. CASE UNCHANGED vars
    BY <2>3 DEF vars, IInv, Channel, Idling, Beginning, Moving, Ending, Has, Mine, RoutedRight
  <2> QED BY <2>1, <2>2, <2>3 DEF Next
<1> QED BY InitIInv, <1>1, PTL DEF Spec

-----------------------------------------------------------------------------
(* Every word read is routed to the buffer of the operation that asked for it
   (mux_head_image_kernel.v:35), whatever the operands.                      *)
THEOREM WordsGoHome == Spec => []RoutedRight
<1>1. IInv => RoutedRight
  BY DEF IInv
<1> QED BY Always, <1>1, PTL
=============================================================================
