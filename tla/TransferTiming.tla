---------------------------- MODULE TransferTiming ----------------------------
(* information_read_write.v, inside an operation, edge by edge of axi_clk.  One
   change of the state machine starts pipelines of several depths: the product
   of the head's numbers, the subtracter that cuts it, the threshold of the
   count of finishes, the address, the request to the splitter, and the
   register by which mux_head_image_kernel.v routes the words that come in.
   Nothing says when a stage is valid; each must be right when the next one
   looks at it.  An operation may follow the one before it at once.

   The waiting states are one state of any length: "ready" before a write or a
   head, "judge" after a head.  The splitter and the AXI master behind it are
   BoundarySplit and AxiMaster; here a burst takes the splitter's edges, then
   delivers words until its last.                                            *)
EXTENDS BurstArith

CONSTANTS
  Operands,  \* what the head may ask for: <<number, size x size>> in 32 bits
  Limit      \* words in the DDR area of a stream

Streams == {"image_wr", "image_rd", "kernel_rd"}
DataStates == Streams \cup {"head_rd"}
Dirs == {"rd", "wr"}

(* What multiplier_3x.v owes for a pair, in words of 64 bits. *)
Words(o) == (o[1] * o[2]) \div 2
Totals == {Words(o) : o \in Operands}

ASSUME OperandsAssumption ==
  \A o \in Operands : /\ o \in (1..8191) \X (1..65535) /\ Words(o) \in 1..32767

VARIABLES
  ctl,                    \* inf_write_read_control
  mux_q,                  \* the numbers of the stream in hand, by mux_3to1.v
  information_operation,
  aValid,                 \* A_valid, A_valid_r
  operand_bc, product,    \* the registers of multiplier_3x.v
  finish_cnt_threshold,
  fin,                    \* rd_finish_state, wr_finish_state
  req,                    \* rd_req_temp, _temp1, _temp2, _temp3, and wr_...
  sub_en, rest, cut,      \* sub_unit's S, sub_com's result1
  cnt,                    \* rd_finish_cnt, wr_finish_cnt
  addr, addrR,            \* image_wr_addr_temp, ..., rd_addr_temp1, wr_addr_temp1
  split,                  \* the two splitters
  burst,                  \* history: what the splitter was asked for, and by whom
  word,                   \* buffer_wr_req: whose word it is, or "none"
  reached, moved          \* history: end of the last burst; words of this operation

vars == <<ctl, mux_q, information_operation, aValid, operand_bc, product,
          finish_cnt_threshold, fin, req, sub_en, rest, cut, cnt, addr, addrR,
          split, burst, word, reached, moved>>

NoBurst == [op |-> "none", addr |-> 0, len |-> 0]

Init ==
  /\ ctl = "ready" /\ mux_q = <<0, 0>>
  /\ information_operation = "ready" /\ aValid = <<FALSE, FALSE>>
  /\ operand_bc = 0 /\ product = 0 /\ finish_cnt_threshold = 255
  /\ fin = [d \in Dirs |-> TRUE]
  /\ req = [d \in Dirs |-> <<FALSE, FALSE, FALSE, FALSE>>]
  /\ sub_en = FALSE /\ rest = 0 /\ cut = 0 /\ cnt = [d \in Dirs |-> 0]
  /\ addr = [s \in Streams |-> 0] /\ addrR = [d \in Dirs |-> 0]
  /\ split = [d \in Dirs |-> "idle"] /\ burst = NoBurst /\ word = "none"
  /\ reached = [s \in Streams |-> 0] /\ moved = 0

-----------------------------------------------------------------------------
Dir(c) == IF c = "image_wr" THEN "wr" ELSE "rd"

(* new_rd_finish, new_wr_finish *)
NewFinish(d, event) == split[d] = "running" /\ event = "last"
(* all_rd_finish, all_wr_finish *)
AllFinish(d, event) == NewFinish(d, event) /\ cnt[d] = finish_cnt_threshold

(* The arms of inf_write_read_control; `goal` is where a wait ends. *)
CtlNext(event, goal) ==
  CASE ctl \in {"ready", "judge"} -> goal
    [] ctl = "head_rd"   -> IF NewFinish("rd", event) THEN "judge" ELSE ctl
    [] ctl = "image_wr"  -> IF AllFinish("wr", event) THEN "ready" ELSE ctl
    [] ctl = "image_rd"  -> IF AllFinish("rd", event) THEN "kernel_rd" ELSE ctl
    [] ctl = "kernel_rd" -> IF AllFinish("rd", event) THEN "ready" ELSE ctl

Goals == CASE ctl = "ready" -> {"ready", "image_wr", "head_rd"}
           [] ctl = "judge" -> {"judge", "image_rd", "kernel_rd", "ready"}
           [] OTHER -> {ctl}

\* Mutant: the splitter is asked a register early.
RequestMutant(d) ==
  <<ctl \in DataStates /\ Dir(ctl) = d /\ fin[d], req[d][1],
    req[d][1] /\ ~req[d][2], req[d][1] /\ ~req[d][2]>>

(* A level, the edge it begins with, and that edge twice delayed. *)
Request(d) ==
  <<ctl \in DataStates /\ Dir(ctl) = d /\ fin[d], req[d][1],
    req[d][1] /\ ~req[d][2], req[d][3]>>

(* multiplier_3x.v: the number is not delayed along with the size. *)
Multiply ==
  operand_bc' = mux_q[2] /\ product' = (mux_q[1] * operand_bc) % 65536

(* sub_com.v; the subtracter is clocked only while more than a burst is left. *)
Subtract ==
  LET sub_A == IF aValid[2] THEN product \div 2 ELSE rest
  IN  /\ cut' = IF sub_en THEN Cut(sub_A) ELSE cut
      /\ rest' = IF sub_en /\ sub_A > MaxBurst THEN sub_A - MaxBurst ELSE rest

(* Heads: len[15:6], less one when len[7:0] = 0. *)
HeadThreshold(n) == (n \div 64 - (IF n % 256 = 0 THEN 1 ELSE 0)) % 256

Count(event) ==
  cnt' = [d \in Dirs |->
            IF AllFinish(d, event) THEN 0
            ELSE IF NewFinish(d, event) /\ (d = "rd" => ctl \in Streams)
                   THEN (cnt[d] + 1) % 256 ELSE cnt[d]]

Address(event, rewound) ==
  /\ addr' = [s \in Streams |->
               IF s \in rewound THEN 0
               ELSE IF ctl = s /\ NewFinish(Dir(s), event) THEN addr[s] + cut ELSE addr[s]]
  /\ addrR' = [rd |-> IF ctl \in Streams \ {"image_wr"} THEN addr[ctl] ELSE 0,
               wr |-> addr["image_wr"]]

(* AXI_4KBboundary.v, for a burst that stays in its page. *)
Splitter(event) ==
  split' = [d \in Dirs |->
    CASE split[d] = "idle"    -> IF req[d][4] THEN "judge" ELSE "idle"
      [] split[d] = "judge"   -> "no"
      [] split[d] = "no"      -> "valid"          \* addr_valid is up
      [] split[d] = "valid"   -> "running"
      [] split[d] = "running" -> IF event = "last" THEN "end" ELSE "running"
      [] split[d] = "end"     -> "idle"]

(* What the splitter latches, and what comes of it. *)
History(event, rewound) ==
  /\ burst' = IF \E d \in Dirs : split[d] = "idle" /\ req[d][4]
                THEN [op |-> ctl, addr |-> addrR[Dir(ctl)],
                      len |-> IF ctl = "head_rd" THEN 0 ELSE Len(cut)]
                ELSE IF event = "last" THEN NoBurst ELSE burst
  /\ reached' = [s \in Streams |->
                   IF s \in rewound THEN 0
                   ELSE IF burst.op = s /\ NewFinish(Dir(s), event)
                          THEN burst.addr + burst.len + 1 ELSE reached[s]]
  /\ moved' = IF ctl' # ctl THEN 0
              ELSE IF NewFinish(Dir(ctl), event) THEN moved + burst.len + 1 ELSE moved

\* Mutant: the words are routed by the state itself.
OperationMutant == information_operation' = ctl'

Operation == information_operation' = ctl

(* mux_3to1.v gives what the stream of the next state asks for: new numbers
   when the state is new, no more than there is room for, and 0 for no stream. *)
Asks ==
  CASE ctl' \notin Streams -> mux_q' = <<0, 0>>
    [] ctl' = ctl          -> UNCHANGED mux_q
    [] OTHER               -> mux_q' \in {o \in Operands : addr[ctl'] + Words(o) <= Limit}

(* One edge.  event: a word of the burst in hand, the last one, or none. *)
Clk(event, goal, rewound) ==
  /\ ctl' = CtlNext(event, goal) /\ Asks
  /\ Operation
  /\ aValid' = <<ctl \in DataStates /\ information_operation # ctl, aValid[1]>>
  /\ Multiply
  /\ finish_cnt_threshold' =
       IF ctl = "head_rd" THEN HeadThreshold(product \div 2) ELSE Threshold(product \div 2)
  /\ fin' = [d \in Dirs |-> NewFinish(d, event) \/ (fin[d] /\ split[d] # "valid")]
  /\ req' = [d \in Dirs |-> Request(d)]
  /\ sub_en' = (\E d \in Dirs : req[d][1] /\ ~req[d][2])
  /\ Subtract
  /\ Count(event)
  /\ Address(event, rewound)
  /\ Splitter(event)
  /\ word' = IF event # "none" /\ split["rd"] = "running" THEN burst.op ELSE "none"
  /\ History(event, rewound)

(* An edge without a word; a stream may start again at its base. *)
Quiet(goal, rewound) ==
  /\ goal \in Goals
  /\ rewound # {} => ctl = "ready" /\ goal \notin rewound
  /\ Clk("none", goal, rewound)

(* An edge at which the master has a word, or the last one, of the burst. *)
Busy(event) ==
  /\ \E d \in Dirs : split[d] = "running" /\ (event = "word" => d = "rd")
  /\ Clk(event, ctl, {})

Next ==
  \/ \E goal \in DataStates \cup {"ready", "judge"},
        rewound \in {{}} \cup {{s} : s \in Streams} : Quiet(goal, rewound)
  \/ \E event \in {"word", "last"} : Busy(event)

Spec == Init /\ [][Next]_vars

-----------------------------------------------------------------------------
(* A word that comes out of the AXI master's register is routed by the register
   of the operation, both one edge behind: to the buffer of whoever asked for
   it, the last word of an operation too (mux_head_image_kernel.v:35).       *)
RoutedRight == word # "none" => information_operation = word

(* In the registers, an operation begins one edge after its state. *)
op == IF ctl \in Streams /\ information_operation = ctl THEN ctl ELSE "none"

Service == INSTANCE WordService WITH
  op <- op, addr <- reached,
  left <- IF op = "none" THEN 0 ELSE Words(mux_q) - moved

(* Measured by what the splitter latches, through all the pipelines: every
   operation moves exactly the words its numbers ask for, at consecutive
   addresses, however soon it follows another.                               *)
ServiceSpec == Service!Spec
=============================================================================
