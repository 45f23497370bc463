---------------------------- MODULE BurstTransfer ----------------------------
(* information_read_write.v, the burst loop: an operation of `total` 64-bit
   words is cut into bursts of at most 256 by the subtracter of sub_com.v, and
   is over when as many bursts have finished as the threshold of
   wr_rd_finish_cnt_threshhold.v says.  Words are cut by one rule and counted
   by another; that the two agree is the point of this module.

   This is the loop at the grain of bursts; TransferTiming has its clock
   edges.  A burst handed to the boundary splitter is finished once, whatever
   number of AXI bursts it took (BoundarySplit, SplitServiceSpec).          *)
EXTENDS BurstArith

CONSTANTS
  Streams,  \* the data operations: image_wr, image_rd, kernel_rd
  Totals,   \* words an operation may ask for (multi_byte_double)
  Limit     \* words in the DDR area of a stream

MaxWords == 32767    \* multi_byte: 16 bits of 32-bit units, 15 bits of words

\* An operation of no words is never started (kernel_no_rd, image_toaxi_num_r).
ASSUME TotalsAssumption == Totals \subseteq 1..MaxWords
ASSUME LimitAssumption == Limit \in Nat
ASSUME StreamsAssumption == "none" \notin Streams

VARIABLES
  op,         \* inf_write_read_control, the three data states or "none"
  total,      \* multi_byte_double of the operation
  addr,       \* image_wr_addr_temp, image_rd_addr, kernel_addr, in words
  rem,        \* the subtracter: what the next sub_en will cut from
  subResult,  \* sub_com's result1: words of the burst in hand
  finishCnt,  \* rd_finish_cnt, wr_finish_cnt
  asked,      \* the splitter has the burst
  moved       \* history: words of this operation whose burst has finished

vars == <<op, total, addr, rem, subResult, finishCnt, asked, moved>>

Init ==
  /\ op = "none" /\ total = 0 /\ addr = [s \in Streams |-> 0]
  /\ rem = 0 /\ subResult = 0 /\ finishCnt = 0
  /\ asked = FALSE /\ moved = 0

-----------------------------------------------------------------------------
(* The state machine enters a data state; A_valid loads the subtracter. *)
Enter(s, n) ==
  /\ op = "none"
  /\ addr[s] + n <= Limit
  /\ op' = s /\ total' = n /\ rem' = n /\ moved' = 0
  /\ UNCHANGED <<addr, subResult, finishCnt, asked>>

\* Mutant: the finish of a burst does not set rd_finish_state again.
AskMutant ==
  /\ op # "none" /\ ~asked /\ moved = 0
  /\ subResult' = Cut(rem)
  /\ rem' = Rest(rem)
  /\ asked' = TRUE
  /\ UNCHANGED <<op, total, addr, finishCnt, moved>>

(* rd_finish_state (wr_finish_state) is set: the next burst is cut and goes to
   the splitter.                                                             *)
Ask ==
  /\ op # "none" /\ ~asked
  /\ subResult' = Cut(rem)
  /\ rem' = Rest(rem)
  /\ asked' = TRUE
  /\ UNCHANGED <<op, total, addr, finishCnt, moved>>

\* Mutant: the address advances by a full burst.
FinishMutant ==
  /\ asked
  /\ asked' = FALSE
  /\ addr' = [addr EXCEPT ![op] = @ + MaxBurst]
  /\ moved' = moved + Len(subResult) + 1
  /\ IF finishCnt = Threshold(total)
       THEN finishCnt' = 0 /\ op' = "none"
       ELSE finishCnt' = (finishCnt + 1) % 256 /\ op' = op
  /\ UNCHANGED <<total, rem, subResult>>

(* new_rd_finish, new_wr_finish: the address advances by the words cut; the
   last finish (all_rd_finish, all_wr_finish) ends the operation.            *)
Finish ==
  /\ asked
  /\ asked' = FALSE
  /\ addr' = [addr EXCEPT ![op] = @ + subResult]
  /\ moved' = moved + Len(subResult) + 1
  /\ IF finishCnt = Threshold(total)
       THEN finishCnt' = 0 /\ op' = "none"
       ELSE finishCnt' = (finishCnt + 1) % 256 /\ op' = op
  /\ UNCHANGED <<total, rem, subResult>>

(* image_begin_pos, one_layer_finish_r1, image_rd_addr_rewind: a stream starts
   again at its base.                                                        *)
Rewind(s) ==
  /\ op = "none"
  /\ addr' = [addr EXCEPT ![s] = 0]
  /\ UNCHANGED <<op, total, rem, subResult, finishCnt, asked, moved>>

Next == \/ \E s \in Streams, n \in Totals : Enter(s, n)
        \/ Ask \/ Finish
        \/ \E s \in Streams : Rewind(s)

(* The clock runs, and the splitter finishes what it was given. *)
Spec == Init /\ [][Next]_vars
FairSpec == Spec /\ WF_vars(Ask) /\ WF_vars(Finish)

-----------------------------------------------------------------------------
TypeOK ==
  /\ op \in Streams \cup {"none"}
  /\ total \in 0..MaxWords /\ rem \in 0..MaxWords
  /\ addr \in [Streams -> 0..Limit]
  /\ subResult \in 0..MaxBurst /\ finishCnt \in 0..127
  /\ asked \in BOOLEAN /\ moved \in 0..MaxWords

(* Counting bursts ends the operation exactly when its words are moved. *)
ExactlyTotal ==
  /\ op # "none" => moved < total
  /\ op = "none" => moved = total

(* No burst goes beyond the operation, and none is empty. *)
BurstInside ==
  asked => /\ Len(subResult) + 1 = subResult
           /\ subResult \in 1..MaxBurst
           /\ moved + subResult <= total

(* Every operation ends. *)
Ends == (op # "none") ~> (op = "none")

Service == INSTANCE WordService WITH
  left <- IF op = "none" THEN 0 ELSE total - moved

ServiceSpec == Service!Spec
=============================================================================
