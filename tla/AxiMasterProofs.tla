--------------------------- MODULE AxiMasterProofs ---------------------------
(* Proofs about AxiMaster, for all lengths of bursts and sizes of the FIFO.
   Everything about write beats hangs on one fact of the FIFO: from the word
   that ends wait_pre on, it is not empty at any edge of the burst, so that the
   pop after the FIFO ran dry, which does not look at wready, is never taken. *)
EXTENDS AxiMaster, TLAPS

Bit(b) == IF b THEN 1 ELSE 0

(* A burst in hand is the one that was asked for. *)
InHand ==
  /\ writeReq => busy = "write"
  /\ readReq => busy = "read"
  /\ control \in {"WriteAddr", "wait_pre", "write"} => busy = "write"
  /\ control \in {"ReadAddr", "read"} => busy = "read"

NeverDry ==
  /\ fifo > 0 => feeding = "on"
  /\ control = "write" => fifo > 0 /\ ~emptyR

(* What the counter of beats and the registers of the data phase know. *)
WritePhase ==
  /\ control = "write" => cnt = beats /\ beats <= len
  /\ control = "write" /\ ~durationR => ~wvalid
  /\ control # "write" => ~wvalid /\ cnt = 0
  /\ control \in {"WriteAddr", "wait_pre"} => beats = 0

ReadPhase ==
  /\ control = "read" => rleft >= 1
  /\ control \notin {"read", "end"} => ~bufferWr
  /\ stored + Bit(bufferWr) <= 256

IInv ==
  /\ TypeOK /\ InHand /\ NeverDry /\ WritePhase /\ ReadPhase
  /\ NoBeatLost /\ BurstLength /\ NoWordLost

-----------------------------------------------------------------------------
(* The registers before the first edge. *)
LEMMA InitIInv == Init => IInv
<1> SUFFICES ASSUME Init PROVE IInv
  OBVIOUS
<1>1. TypeOK
  <2>1. control \in States /\ writeReq \in BOOLEAN /\ readReq \in BOOLEAN /\ wvalid \in BOOLEAN
        /\ durationR \in BOOLEAN /\ emptyR \in BOOLEAN /\ bufferWr \in BOOLEAN
        /\ busy \in {"none", "write", "read"} /\ feeding \in {"off", "starting", "on"}
    BY DEF Init, States
  <2>2. /\ cnt \in 0..255 /\ len \in 0..255 /\ fifo \in 0..Depth /\ rleft \in 0..256
        /\ popped \in 0..256 /\ beats \in 0..256 /\ stored \in 0..256
    BY FifoAssumption, SMT DEF Init
  <2> QED BY <2>1, <2>2 DEF TypeOK
<1>2. InHand /\ NeverDry /\ WritePhase
  BY SMT DEF Init, InHand, NeverDry, WritePhase
<1>3. ReadPhase /\ NoBeatLost /\ BurstLength /\ NoWordLost
  <2>1. Bit(bufferWr) = 0 /\ (IF wvalid THEN 1 ELSE 0) = 0
    BY DEF Init, Bit
  <2> QED BY <2>1, SMT DEF Init, ReadPhase, NoBeatLost, BurstLength, NoWordLost
<1> QED BY <1>1, <1>2, <1>3 DEF IInv

(* When a word is taken from the FIFO: not in the edge of the last beat, and not
   while the one before it waits.                                            *)
LEMMA Pops ==
  ASSUME IInv, NEW wready \in BOOLEAN
  PROVE  /\ BufferRdReq(wready) => control = "write"
         /\ WriteLenCntFinish(wready) => control = "write" /\ wvalid /\ wready /\ ~BufferRdReq(wready)
         /\ wvalid /\ ~wready => ~BufferRdReq(wready)
  BY DEF IInv, WritePhase, BurstLength, NeverDry, BufferRdReq, WriteLenCntFinish

LEMMA DoneIInv == IInv /\ ImageDone => IInv'
<1> SUFFICES ASSUME IInv, ImageDone PROVE IInv'
  OBVIOUS
<1>1. /\ fifo' = 0 /\ feeding' = "off" /\ control = "idle"
      /\ UNCHANGED <<master, len, busy, rleft, popped, beats, stored>>
  BY DEF ImageDone
<1> QED BY <1>1, FifoAssumption, SMT
      DEF IInv, TypeOK, States, InHand, NeverDry, WritePhase, ReadPhase,
          NoBeatLost, BurstLength, NoWordLost, Bit, master

-----------------------------------------------------------------------------
(* One edge of the clock, conjunct by conjunct. *)
LEMMA EdgeIInv ==
  ASSUME IInv, NEW rq \in {"none", "write", "read"}, NEW wready \in BOOLEAN,
         NEW rvalid \in BOOLEAN, NEW d \in 0..2, Edge(rq, wready, rvalid, d)
  PROVE  IInv'
<1> DEFINE pop == BufferRdReq(wready)
           fin == WriteLenCntFinish(wready)
           starts == control = "idle" /\ writeReq /\ ~readReq
           rlast == control = "read" /\ rvalid /\ rleft = 1
<1>types. TypeOK /\ InHand /\ NeverDry /\ WritePhase /\ ReadPhase
          /\ NoBeatLost /\ BurstLength /\ NoWordLost
  BY DEF IInv
<1>pops. /\ pop => control = "write"
         /\ fin => control = "write" /\ wvalid /\ wready /\ ~pop
         /\ wvalid /\ ~wready => ~pop
  BY Pops
<1>fin. /\ Finish(wready, rvalid) = "write" => fin
        /\ Finish(wready, rvalid) = "read" => rlast
        /\ Finish(wready, rvalid) \in {"write", "read", "none"}
        /\ fin => Finish(wready, rvalid) = "write"
        /\ rlast => Finish(wready, rvalid) = "read"
  BY <1>types, <1>pops DEF Finish
<1>req. /\ writeReq' => rq = "write" \/ (writeReq /\ ~fin)
        /\ readReq' => rq = "read" \/ (readReq /\ ~rlast)
        /\ writeReq' \in BOOLEAN /\ readReq' \in BOOLEAN
  BY <1>fin DEF Edge, Request
<1>busy. /\ rq # "none" => busy = "none" /\ busy' = rq
         /\ rq = "none" => len' = len /\ busy' = IF fin \/ rlast THEN "none" ELSE busy
         /\ len' \in 0..255
         /\ feeding' \in {"off", "starting", "on"}
         /\ feeding = "on" => feeding' = "on"
  <2>1. Splitter(rq, Finish(wready, rvalid))
    BY DEF Edge
  <2>2. len' = len \/ len' \in Lens
    BY <2>1 DEF Splitter
  <2>3. /\ rq # "none" => busy = "none" /\ busy' = rq
        /\ rq = "none" => len' = len
    BY <2>1 DEF Splitter
  <2>4. rq = "none" => busy' = IF fin \/ rlast THEN "none" ELSE busy
    BY <2>1, <1>fin DEF Splitter
  <2>5. /\ feeding' \in {"off", "starting", "on"}
        /\ feeding = "on" => feeding' = "on"
    BY <2>1, <1>types DEF Splitter, TypeOK
  <2> QED BY <2>2, <2>3, <2>4, <2>5, <1>types, LensAssumption DEF TypeOK
<1>data. /\ d \in Deliveries /\ fifo + d <= Depth
         /\ cnt' = IF fin THEN 0 ELSE IF wready /\ wvalid THEN (cnt + 1) % 256 ELSE cnt
         /\ wvalid' = (pop \/ (control = "write" /\ ~wready /\ wvalid))
         /\ durationR' = (control = "write")
         /\ emptyR' = (fifo = 0)
         /\ fifo' = (IF pop /\ ~(fifo = 0) THEN fifo - 1 ELSE fifo) + d
         /\ popped' = IF starts THEN 0 ELSE popped + Bit(pop)
         /\ beats' = IF starts THEN 0 ELSE beats + Bit(wready /\ wvalid)
  BY DEF Edge, WriteData, CntNext, WvalidNext, empty, Bit
<1>read. /\ bufferWr' = (control = "read" /\ rvalid)
         /\ stored' = IF control = "ReadAddr" THEN 0 ELSE stored + Bit(bufferWr)
  BY DEF Edge, ReadData, Bit
<1>arms. \/ control = "idle" /\ rleft' = rleft
            /\ control' = IF readReq THEN "ReadAddr" ELSE IF writeReq THEN "WriteAddr" ELSE "idle"
         \/ control = "ReadAddr" /\ control' = "read" /\ rleft' = len + 1
         \/ control = "ReadAddr" /\ control' = "ReadAddr" /\ rleft' = rleft
         \/ control = "read" /\ rleft' = (IF rvalid THEN rleft - 1 ELSE rleft)
            /\ control' = IF rlast THEN "end" ELSE "read"
         \/ control = "WriteAddr" /\ control' \in {"WriteAddr", "wait_pre"} /\ rleft' = rleft
         \/ control = "wait_pre" /\ rleft' = rleft
            /\ control' = IF fifo = 0 THEN "wait_pre" ELSE "write"
         \/ control = "write" /\ rleft' = rleft
            /\ control' = IF fin THEN "write_resp" ELSE "write"
         \/ control = "write_resp" /\ control' \in {"write_resp", "end"} /\ rleft' = rleft
         \/ control = "end" /\ control' = "idle" /\ rleft' = rleft
  BY DEF Edge, Idle, ReadAddr, Read, WriteAddr, WaitPre, Write, WriteResp, End, empty
<1>bits. /\ wvalid' \in BOOLEAN /\ durationR' \in BOOLEAN /\ emptyR' \in BOOLEAN
         /\ bufferWr' \in BOOLEAN /\ pop \in BOOLEAN /\ fin \in BOOLEAN
  BY <1>data, <1>read DEF BufferRdReq, WriteLenCntFinish
<1>finBeats. fin => cnt = len
  BY DEF WriteLenCntFinish
<1>notFin. wready /\ wvalid /\ ~fin => cnt # len
  BY DEF WriteLenCntFinish
<1>deliver. /\ feeding # "on" => d = 0
            /\ feeding = "on" /\ fifo < ProgFull => d >= 1
  <2>1. CASE feeding # "on"
    BY <2>1, <1>data DEF Deliveries
  <2>2. CASE feeding = "on" /\ fifo < ProgFull
    <3>1. fifo \in Nat /\ ProgFull \in Nat
      BY <1>types, FifoAssumption, SMT DEF TypeOK
    <3>2. ~(fifo >= ProgFull)
      BY <2>2, <3>1, SMT
    <3>3. Deliveries = {1, 2}
      BY <2>2, <3>2 DEF Deliveries
    <3>4. d \in {1, 2}
      BY <1>data, <3>3
    <3> QED BY <2>2, <3>4, SMT
  <2> QED BY <2>1, <2>2
<1>emptyPop. control = "write" => fifo > 0 /\ ~emptyR
  BY <1>types DEF NeverDry
<1> HIDE DEF pop, fin
<1>1. TypeOK'
  BY <1>types, <1>pops, <1>req, <1>busy, <1>data, <1>read, <1>arms, <1>bits,
     <1>notFin, FifoAssumption, SMTT(30)
     DEF TypeOK, States, WritePhase, ReadPhase, NoBeatLost, BurstLength, NoWordLost, Bit
<1>2. InHand'
  BY <1>types, <1>pops, <1>req, <1>busy, <1>arms, SMTT(30) DEF InHand, TypeOK, States
<1>3. NeverDry'
  <2>1. /\ fifo \in Nat /\ ProgFull \in Nat /\ ProgFull >= 2 /\ d \in 0..2
        /\ feeding \in {"off", "starting", "on"} /\ fifo' \in Nat
    BY <1>types, <1>1, FifoAssumption, SMT DEF TypeOK
  <2>2. fifo > 0 => feeding = "on"
    BY <1>types DEF NeverDry
  <2>3. fifo' > 0 => feeding' = "on"
    BY <2>1, <2>2, <1>busy, <1>data, <1>deliver, SMT
  <2>4. ASSUME control' = "write" PROVE fifo > 0
    BY <2>4, <2>1, <1>emptyPop, <1>arms, SMT
  <2>5. fifo > 0 => fifo' > 0
    BY <2>1, <2>2, <1>data, <1>deliver, SMT
  <2>6. fifo > 0 => ~emptyR'
    <3>1. fifo > 0 => fifo # 0
      BY <2>1, SMT
    <3> QED BY <3>1, <1>data
  <2> QED BY <2>3, <2>4, <2>5, <2>6 DEF NeverDry
<1>4. WritePhase'
  BY <1>types, <1>pops, <1>busy, <1>data, <1>arms, <1>notFin, SMTT(30)
     DEF WritePhase, NoBeatLost, BurstLength, InHand, NeverDry, TypeOK, States, Bit
<1>5. ReadPhase'
  BY <1>types, <1>busy, <1>read, <1>arms, SMTT(30)
     DEF ReadPhase, NoWordLost, InHand, TypeOK, States, Bit
<1>6. NoBeatLost'
  <2>1. /\ popped \in Nat /\ beats \in Nat /\ popped = beats + Bit(wvalid)
        /\ wvalid \in BOOLEAN
    BY <1>types, SMT DEF TypeOK, NoBeatLost, Bit
  <2>2. CASE starts
    <3>1. ~wvalid'
      BY <2>2, <1>pops, <1>data
    <3> QED BY <2>2, <3>1, <1>data DEF NoBeatLost
  <2>3. CASE ~starts /\ pop
    <3>1. wvalid' /\ (wvalid => wready)
      BY <2>3, <1>pops, <1>data
    <3>2. popped' = beats' + 1
      BY <2>1, <2>3, <3>1, <1>data, SMT DEF Bit
    <3> QED BY <3>1, <3>2 DEF NoBeatLost
  <2>4. CASE ~starts /\ ~pop
    <3>1. wvalid => control = "write"
      BY <1>types DEF WritePhase
    <3>2. wvalid' <=> wvalid /\ ~wready
      BY <2>4, <3>1, <1>data
    <3>3. popped' = beats' + Bit(wvalid')
      BY <2>1, <2>4, <3>2, <1>data, SMT DEF Bit
    <3> QED BY <3>3 DEF NoBeatLost, Bit
  <2> QED BY <2>2, <2>3, <2>4
<1>7. BurstLength'
  <2>1. /\ beats \in Nat /\ len \in 0..255 /\ wvalid \in BOOLEAN
        /\ wvalid => control = "write" /\ beats <= len
        /\ control = "write" => cnt = beats /\ beats <= len /\ busy = "write"
        /\ control = "write_resp" /\ busy = "none" => beats = len + 1
    BY <1>types, SMT DEF TypeOK, BurstLength, WritePhase, InHand
  <2>2. wvalid' => control' = "write" /\ beats' <= len'
    <3> SUFFICES ASSUME wvalid' PROVE control' = "write" /\ beats' <= len'
      OBVIOUS
    <3>1. control = "write" /\ ~fin
      BY <2>1, <1>pops, <1>data
    <3>2. control' = "write" /\ len' = len
      BY <3>1, <2>1, <1>arms, <1>busy
    <3>3. beats' = beats + Bit(wready /\ wvalid)
      BY <3>1, <1>data
    <3>4. CASE wready /\ wvalid
      BY <3>1, <3>2, <3>3, <3>4, <2>1, <1>notFin, SMT DEF Bit
    <3>5. CASE ~(wready /\ wvalid)
      BY <3>1, <3>2, <3>3, <3>5, <2>1, SMT DEF Bit
    <3> QED BY <3>4, <3>5
  <2>3. control' = "write_resp" /\ busy' = "none" => beats' = len' + 1
    <3> SUFFICES ASSUME control' = "write_resp", busy' = "none" PROVE beats' = len' + 1
      OBVIOUS
    <3>1. rq = "none" /\ len' = len
      BY <1>busy
    <3>2. CASE control = "write"
      <4>1. fin /\ wready /\ wvalid
        BY <3>2, <1>arms, <1>pops
      <4> QED BY <3>1, <3>2, <4>1, <2>1, <1>data, <1>finBeats, SMT DEF Bit
    <3>3. CASE control = "write_resp"
      <4>1. ~fin /\ ~rlast /\ ~wvalid
        BY <3>3, <2>1, <1>pops
      <4>2. busy = "none"
        BY <3>1, <4>1, <1>busy
      <4> QED BY <3>1, <3>3, <4>1, <4>2, <2>1, <1>data, SMT DEF Bit
    <3> QED BY <3>2, <3>3, <1>arms
  <2> QED BY <2>2, <2>3 DEF BurstLength
<1>8. NoWordLost'
  BY <1>types, <1>busy, <1>read, <1>arms, SMTT(30)
     DEF NoWordLost, ReadPhase, InHand, TypeOK, States, Bit
<1> QED BY <1>1, <1>2, <1>3, <1>4, <1>5, <1>6, <1>7, <1>8 DEF IInv

(* Every reachable state. *)
LEMMA Always == Spec => []IInv
<1>1. IInv /\ [Next]_vars => IInv'
  <2> SUFFICES ASSUME IInv, [Next]_vars PROVE IInv'
    OBVIOUS
  <2>1. CASE Tick
    BY <2>1, EdgeIInv DEF Tick
  <2>2. CASE ImageDone
    BY <2>2, DoneIInv
  <2>3. CASE UNCHANGED vars
    BY <2>3 DEF vars, master, IInv, TypeOK, InHand, NeverDry, WritePhase, ReadPhase,
               NoBeatLost, BurstLength, NoWordLost, Bit
  <2> QED BY <2>1, <2>2, <2>3 DEF Next
<1> QED BY InitIInv, <1>1, PTL DEF Spec

-----------------------------------------------------------------------------
(* Every register keeps to its width, and the history to a burst's length. *)
THEOREM TypeCorrect == Spec => []TypeOK
<1>1. IInv => TypeOK
  BY DEF IInv
<1> QED BY Always, <1>1, PTL

(* No word is popped over one that has not been accepted (line 321). *)
THEOREM NoBeatOverwritten == Spec => []NoBeatLost
<1>1. IInv => NoBeatLost
  BY DEF IInv
<1> QED BY Always, <1>1, PTL

(* A write burst has exactly its length in beats (line 304). *)
THEOREM BeatsOfBurst == Spec => []BurstLength
<1>1. IInv => BurstLength
  BY DEF IInv
<1> QED BY Always, <1>1, PTL

(* Every read beat reaches a buffer, before the master is idle (line 395). *)
THEOREM NoReadWordLost == Spec => []NoWordLost
<1>1. IInv => NoWordLost
  BY DEF IInv
<1> QED BY Always, <1>1, PTL

(* A beat the slave has not taken stays as it is (line 336). *)
THEOREM OfferStands == Spec => ValidHolds
<1>1. IInv /\ [Next]_vars => [wvalid /\ beats' = beats => wvalid' /\ popped' = popped]_vars
  <2> SUFFICES ASSUME IInv, Next, wvalid, beats' = beats PROVE wvalid' /\ popped' = popped
    OBVIOUS
  <2>1. CASE ImageDone
    BY <2>1 DEF ImageDone, master
  <2>2. CASE Tick
    <3> PICK rq \in {"none", "write", "read"}, wready \in BOOLEAN, rvalid \in BOOLEAN, d \in 0..2 :
               Edge(rq, wready, rvalid, d)
      BY <2>2 DEF Tick
    <3>1. WriteData(wready, d)
      BY DEF Edge
    <3>2. control = "write" /\ beats \in Nat /\ popped \in Nat
      BY SMT DEF IInv, BurstLength, TypeOK
    <3>3. beats' = beats + (IF wready /\ wvalid THEN 1 ELSE 0)
      BY <3>1, <3>2 DEF WriteData
    <3>4. ~wready
      BY <3>2, <3>3, SMT
    <3>5. ~BufferRdReq(wready)
      BY <3>4, Pops
    <3>6. popped' = popped + 0
      BY <3>1, <3>2, <3>5 DEF WriteData
    <3>7. wvalid'
      BY <3>1, <3>2, <3>4 DEF WriteData, WvalidNext
    <3> QED BY <3>2, <3>6, <3>7, SMT
  <2> QED BY <2>1, <2>2 DEF Next
<1> QED BY Always, <1>1, PTL DEF Spec, ValidHolds
=============================================================================
