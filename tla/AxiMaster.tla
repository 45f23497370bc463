------------------------------ MODULE AxiMaster ------------------------------
(* axi_read_write_master.v: turns one burst request at a time into the AXI
   handshakes, moving write beats out of the prefetch FIFO of
   image_write_buffer_control.v and read beats into the buffers.  Every step is
   one edge of the AXI clock, on which all the registers of the module change.

   Environment, chosen anew on every edge: the slave's ready and valid lines;
   the boundary splitter, which pulses a request only when it has seen the
   finish of the one before; and the producer behind the prefetch FIFO.  The
   producer is clocked 5:4 faster than the AXI bus and reads the image RAM
   without a gap while the FIFO is below its programmable-full mark, so once it
   has started one or two words appear on every edge (Deliveries).            *)
EXTENDS Naturals

CONSTANTS Lens,       \* burst lengths requested, in beats - 1
          ProgFull,   \* image_prerd_toaxi_fifo_prog_full (240 of 256)
          Depth       \* capacity of the FIFO

ASSUME LensAssumption == Lens \subseteq 0..255
ASSUME FifoAssumption == ProgFull \in Nat /\ ProgFull >= 2 /\ Depth \in Nat /\ Depth >= ProgFull + 2

VARIABLES
  control,      \* axi_write_read_control
  writeReq, readReq,      \* write_req_reg, read_req_reg
  cnt,          \* write_len_cnt
  wvalid,
  durationR,    \* axi_write_read_write_duration_r
  emptyR,       \* buffer_rd_empty_r
  bufferWr,     \* buffer_wr_req: a word on its way into a buffer
  len,          \* wr_len or rd_len, held by the splitter
  busy,         \* splitter: the request in hand, "none", "write" or "read"
  feeding,      \* producer: "off", "starting" (image_fifo_pre_read set) or "on"
  fifo,         \* words the master can see in the prefetch FIFO
  rleft,        \* slave: read beats it still owes
  popped,       \* history: words taken from the FIFO for this burst
  beats,        \* history: write beats the slave has accepted in this burst
  stored        \* history: read words written to a buffer in this burst

master == <<control, writeReq, readReq, cnt, wvalid, durationR, emptyR, bufferWr>>
vars == <<master, len, busy, feeding, fifo, rleft, popped, beats, stored>>

States == {"idle", "ReadAddr", "read", "WriteAddr", "wait_pre", "write",
           "write_resp", "end"}

Init ==
  /\ control = "idle" /\ writeReq = FALSE /\ readReq = FALSE
  /\ cnt = 0 /\ wvalid = FALSE /\ durationR = FALSE /\ emptyR = TRUE
  /\ bufferWr = FALSE
  /\ len = 0 /\ busy = "none" /\ feeding = "off" /\ fifo = 0 /\ rleft = 0
  /\ popped = 0 /\ beats = 0 /\ stored = 0

-----------------------------------------------------------------------------
empty == fifo = 0

(* The last beat is taken in this cycle: write_len_cnt_finish, which drives
   wlast and wr_finish as well.                                             *)
WriteLenCntFinish(wready) == cnt = len /\ wready /\ wvalid

\* Mutant: the word after the last beat is popped too.
BufferRdReqMutant(wready) ==
  /\ control = "write"
  /\ \/ ~durationR
     \/ wready /\ ~empty
     \/ ~empty /\ emptyR

\* Mutant: a word is popped whether or not the slave has taken the last one.
BufferRdReqEager(wready) ==
  control = "write" /\ ~WriteLenCntFinish(wready) /\ ~empty

\* Mutant: nothing asks for the first word of a burst.
BufferRdReqStuck(wready) ==
  control = "write" /\ wready /\ wvalid /\ ~WriteLenCntFinish(wready) /\ ~empty

(* A word is taken from the FIFO: the first of the burst, the next one when
   the slave is ready, or the first after the FIFO ran dry.                  *)
BufferRdReq(wready) ==
  /\ control = "write"
  /\ \/ ~durationR
     \/ wready /\ ~WriteLenCntFinish(wready) /\ ~empty
     \/ ~empty /\ emptyR

\* Mutant: wvalid does not wait for wready.
WvalidMutant(wready) == BufferRdReq(wready)

WvalidNext(wready) ==
  \/ BufferRdReq(wready)
  \/ control = "write" /\ ~wready /\ wvalid

CntNext(wready) ==
  IF WriteLenCntFinish(wready) THEN 0
  ELSE IF wready /\ wvalid THEN (cnt + 1) % 256 ELSE cnt

(* Words that appear in the FIFO on one edge. *)
Deliveries ==
  CASE feeding # "on"                     -> {0}
    [] feeding = "on" /\ fifo < ProgFull  -> {1, 2}
    [] feeding = "on" /\ fifo >= ProgFull -> {0, 1, 2}

(* The write registers, the FIFO and the write history. *)
WriteData(wready, d) ==
  LET pop == BufferRdReq(wready)
      starts == control = "idle" /\ writeReq /\ ~readReq IN
  /\ d \in Deliveries
  /\ fifo + d <= Depth
  /\ cnt' = CntNext(wready)
  /\ wvalid' = WvalidNext(wready)
  /\ durationR' = (control = "write")
  /\ emptyR' = empty
  /\ fifo' = (IF pop /\ ~empty THEN fifo - 1 ELSE fifo) + d
  /\ popped' = IF starts THEN 0 ELSE popped + (IF pop THEN 1 ELSE 0)
  /\ beats'  = IF starts THEN 0 ELSE beats + (IF wready /\ wvalid THEN 1 ELSE 0)

(* write_req_reg and read_req_reg: set by the request, else cleared by the
   finish of that kind.                                                      *)
Request(rq, finish) ==
  /\ writeReq' = (rq = "write" \/ (writeReq /\ finish # "write"))
  /\ readReq'  = (rq = "read" \/ (readReq /\ finish # "read"))

(* The splitter and the producer: a request is pulsed, with its length, only
   when none is outstanding; a write request starts the prefetch, which runs
   until the last burst of the image (image_rd_finish resets the FIFO).      *)
Splitter(rq, finish) ==
  /\ rq # "none" => busy = "none"
  /\ busy' = IF rq # "none" THEN rq ELSE IF finish # "none" THEN "none" ELSE busy
  /\ IF rq = "none" THEN len' = len ELSE len' \in Lens
  /\ \/ /\ rq = "write" /\ feeding = "off"
        /\ feeding' = "starting"
     \/ /\ feeding = "starting"
        /\ feeding' \in {"starting", "on"}
     \/ /\ ~(rq = "write" /\ feeding = "off") /\ feeding # "starting"
        /\ feeding' = feeding

-----------------------------------------------------------------------------
(* The arms of the state machine. *)
Idle ==
  /\ control = "idle"
  /\ control' = IF readReq THEN "ReadAddr"
                ELSE IF writeReq THEN "WriteAddr" ELSE "idle"
  /\ UNCHANGED rleft

ReadAddr ==                       \* arready
  /\ control = "ReadAddr"
  /\ \/ control' = "read" /\ rleft' = len + 1
     \/ UNCHANGED <<control, rleft>>

WriteAddr ==                      \* awready
  /\ control = "WriteAddr"
  /\ control' \in {"WriteAddr", "wait_pre"}
  /\ UNCHANGED rleft

WaitPre ==
  /\ control = "wait_pre"
  /\ control' = IF empty THEN "wait_pre" ELSE "write"
  /\ UNCHANGED rleft

Write(wready) ==
  /\ control = "write"
  /\ control' = IF WriteLenCntFinish(wready) THEN "write_resp" ELSE "write"
  /\ UNCHANGED rleft

WriteResp ==                      \* bvalid
  /\ control = "write_resp"
  /\ control' \in {"write_resp", "end"}
  /\ UNCHANGED rleft

End == control = "end" /\ control' = "idle" /\ UNCHANGED rleft

(* A read beat (rvalid; rready answers it in the same cycle), or none. *)
Read(rvalid) ==
  /\ control = "read"
  /\ rleft' = IF rvalid THEN rleft - 1 ELSE rleft
  /\ control' = IF rvalid /\ rleft = 1 THEN "end" ELSE "read"

\* Mutant: every cycle of the data phase is stored, rvalid or not.
ReadDataMutant(rvalid) ==
  /\ bufferWr' = (control = "read")
  /\ stored' = IF control = "ReadAddr" THEN 0
               ELSE stored + (IF bufferWr THEN 1 ELSE 0)

(* buffer_wr_req follows each read beat by one edge. *)
ReadData(rvalid) ==
  /\ bufferWr' = (control = "read" /\ rvalid)
  /\ stored' = IF control = "ReadAddr" THEN 0
               ELSE stored + (IF bufferWr THEN 1 ELSE 0)

(* rd_finish is rlast; wr_finish is wlast. *)
Finish(wready, rvalid) ==
  IF WriteLenCntFinish(wready) THEN "write"
  ELSE IF control = "read" /\ rvalid /\ rleft = 1 THEN "read" ELSE "none"

Edge(rq, wready, rvalid, d) ==
  /\ Request(rq, Finish(wready, rvalid))
  /\ Splitter(rq, Finish(wready, rvalid))
  /\ WriteData(wready, d)
  /\ ReadData(rvalid)
  /\ \/ Idle \/ ReadAddr \/ Read(rvalid) \/ WriteAddr \/ WaitPre
     \/ Write(wready) \/ WriteResp \/ End

(* The producer is stopped and the FIFO reset once the image is written; no
   request is outstanding then.                                              *)
ImageDone ==
  /\ busy = "none" /\ control = "idle" /\ feeding = "on"
  /\ feeding' = "off" /\ fifo' = 0
  /\ UNCHANGED <<master, len, busy, rleft, popped, beats, stored>>

Tick == \E rq \in {"none", "write", "read"}, wready \in BOOLEAN,
           rvalid \in BOOLEAN, d \in 0..2 : Edge(rq, wready, rvalid, d)

Next == Tick \/ ImageDone

(* The clock runs; the slave answers addresses, takes and gives beats and
   responds in the end; the producer starts.                                 *)
Leaves(s) == Tick /\ control = s /\ control' # s

Fairness ==
  /\ WF_vars(Tick)
  /\ \A s \in States : WF_vars(Leaves(s))
  /\ WF_vars(Tick /\ beats' > beats)
  /\ WF_vars(Tick /\ rleft' < rleft)
  /\ WF_vars(Tick /\ feeding = "starting" /\ feeding' = "on")

Spec == Init /\ [][Next]_vars
FairSpec == Spec /\ Fairness

-----------------------------------------------------------------------------
TypeOK ==
  /\ control \in States
  /\ writeReq \in BOOLEAN /\ readReq \in BOOLEAN
  /\ cnt \in 0..255 /\ len \in 0..255
  /\ wvalid \in BOOLEAN /\ durationR \in BOOLEAN /\ emptyR \in BOOLEAN
  /\ bufferWr \in BOOLEAN
  /\ busy \in {"none", "write", "read"}
  /\ feeding \in {"off", "starting", "on"}
  /\ fifo \in 0..Depth /\ rleft \in 0..256
  /\ popped \in 0..256 /\ beats \in 0..256 /\ stored \in 0..256

(* Every word taken from the FIFO is accepted by the slave exactly once, in
   order: a word is popped only when the one before it has been accepted.    *)
NoBeatLost == popped = beats + (IF wvalid THEN 1 ELSE 0)

(* The data phase lies inside the burst: no beat is offered once wlast has
   been accepted, and the slave has then had exactly awlen + 1 beats.        *)
BurstLength ==
  /\ wvalid => control = "write" /\ beats <= len
  /\ control = "write_resp" /\ busy = "none" => beats = len + 1

(* AXI: wvalid, once high, stays until wready, and wdata (the FIFO's dout,
   hence the number of words popped) does not move under it.                 *)
ValidHolds ==
  [][wvalid /\ beats' = beats => wvalid' /\ popped' = popped]_vars

(* Every read beat reaches the buffer exactly once.  rd_finish runs ahead of
   the last word by one edge and no more: it is in before the master is idle. *)
NoWordLost ==
  /\ control = "read" => stored + (IF bufferWr THEN 1 ELSE 0) + rleft = len + 1
  /\ control = "idle" => ~bufferWr

(* A request, once pulsed, is served even when it comes while the response of
   the write before it is outstanding.                                       *)
Served == (busy # "none") ~> (busy = "none")
=============================================================================
