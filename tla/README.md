# A formal model of posture_rec_system

`posture_rec_system` is a convolutional-network accelerator for a Zynq
UltraScale+: Verilog in the programmable logic (PL) that fetches kernels and
feature maps from DDR over AXI, computes a network layer by layer, writes the
maps back, and raises an interrupt to the processor (PS), whose firmware starts
an image and saves the result. This directory holds TLA+ models of its control
logic, the TLC runs that check them, and TLAPS proofs of what matters most.

File names without a path are under `src/posture_rec_system.srcs/sources_1/new/`.

## 1. Inventory

| Component | Files | State | Operations | Talks to |
|---|---|---|---|---|
| 4 KB splitter | `AXI_4KBboundary.v` (two instances) | `addrSplit_control`, latched request, `addr_out`, `burst_len_out` | split a burst at a page edge, hand the halves to the master one after the other | transfer engine, AXI master |
| AXI master | `axi_read_write_master.v` | `axi_write_read_control`, request registers, `write_len_cnt`, `wvalid` | one read or write burst at a time | splitter, prefetch FIFO, buffers, DDR |
| Transfer engine | `information_read_write.v`, `sub_com.v`, `wr_rd_finish_cnt_threshhold.v`, `multiplier_3x.v`, `iterate_head.v` | `inf_write_read_control`, wait counters, addresses and banks, burst counters, copies of the heads | decide what to transfer next, cut it into bursts, count them | everything, over two clocks |
| Process control | `interrupt.v` | `process_control_state`, `conv_layer_change_state`, `conv_cnt`, delay counters | rounds of an image, layers, interrupt | load units, transfer engine, PS |
| Head path | `head_bufer_control.v`, `load_head.v` | a FIFO, `load_head_rd_reg`, the fields of the head | pop a head, publish its parameters | transfer engine, compute side |
| Kernel path | `kernel_buffer_control.v`, `wfifo_location_cal.v`, `load_kernel.v` | eight FIFOs, location counters | spread kernel words, load a round's kernels | transfer engine, convolution |
| Image read path | `image_read_buffer_control.v`, `load_image.v`, `load_data.v` and counters | image RAM, address counters, `image_rd_need` | store and replay an image | transfer engine, window |
| Convolution window | `shift_control.v`, `shift_window.v`, `stayInstep.v`, `cal_image.v`, `conv.v` | window state, channel FIFOs | feed the multipliers in step | image read path |
| Post-processing | `deal_PostImage.v`, `update.v`, `user_update_fifo.v`, `max_pooling.v`, arithmetic | FIFOs, row and column counters | accumulate, activate, pool | image write buffer |
| Image write buffer | `image_write_buffer_control.v`, `axi_read_image_cnt.v` | RAMs, `ramdata_cnt`, prefetch FIFO, `image_wr_need` | hold a map, prefetch it for AXI | AXI master, transfer engine |
| Firmware | `src/posture_rec_system.sdk/src/*.c` | global flags | start pulse, interrupt handler, SD card | PL through GPIO and interrupt |

What makes each correct:

* splitter, master, burst loop: every word moved once, in order, with no burst
  over a page, and every operation ends;
* process control: the interrupt means that every layer returned all its maps,
  and the two state machines of `interrupt.v` never drift apart;
* transfer control with process control: each finished map is written once, to
  the right bank; one head per round and none after the last; no pulse lost
  between the clocks; every start answered;
* kernel, image and post-processing FIFOs: no word dropped or duplicated at
  their limits, none left over for the next round, channels kept in step;
* firmware: no buffer overrun, no end of an image missed, both maps handed over
  before the program ends.

What makes it hard: three clocks (266.66 MHz `axi_clk` and `slow_clk`,
333.33 MHz `deal_clk`) with signals crossing through chains of registers of
different lengths; state machines that agree only because each takes the right
number of cycles; fixed waits (256, 16, 16 and 4 cycles) that stand in for
acknowledgements; pulses of one cycle read by a slower clock. PROJECT.json lists
the hazards one by one, at their lines, with the properties that cover them.

## 2. Modules

| Module | Models | Theorems in |
|---|---|---|
| `BoundarySplit` | `AXI_4KBboundary.v` | `BurstProofs` |
| `BeatService` | what the splitter promises (abstract) | |
| `AxiMaster` | `axi_read_write_master.v` | `AxiMasterProofs` |
| `BurstArith` | cut and threshold: `sub_com.v`, `wr_rd_finish_cnt_threshhold.v` | |
| `BurstTransfer` | the burst loop of `information_read_write.v`, burst by burst | `BurstProofs` |
| `TransferTiming` | the same loop register by register, with `multiplier_3x.v`, `mux_3to1.v`, `mux_head_image_kernel.v` | `TransferTimingProofs` |
| `WordService` | what the burst loop promises (abstract) | |
| `ProcessControl` | `interrupt.v` on `deal_clk` | `ProcessControlProofs` |
| `TransferControl` | `information_read_write.v`, state machine, synchronisers and banks on `axi_clk` | |
| `RoundLoop` | `TransferControl` and `ProcessControl` with everything between them | `RoundLoopProofs` |
| `KernelFifos` | `wfifo_location_cal.v`, `kernel_buffer_control.v`, `load_kernel.v` | `FifoProofs` |
| `ImageWriteBuffer` | `image_write_buffer_control.v`, `axi_read_image_cnt.v` | `ImageWriteBufferProofs` |
| `UpdateFifo` | `update.v`, `user_update_fifo.v`, `row_col_ptr_gen_for_2unite.v` | `FifoProofs` |
| `Firmware` | `main.c`, `gpio.c`, `data_store.c`, `sdcard.c`, `interruptDef.c` | `FirmwareProofs` |
| `MC*` | constants for TLC, nothing else | |

How they fit: `RoundLoop` decides what is transferred when, and takes an
operation as its last finish; `TransferTiming` is the inside of an operation
and takes a burst as its last word; `BoundarySplit` and `AxiMaster` are the
inside of a burst. `KernelFifos`, `ImageWriteBuffer` and `UpdateFifo` are what
the words pass through. What one assumes of the other is said below.

Conventions. A step is a clock edge and gives every register of the file its
next value from the present ones; combinational wires are operators. Variables
have the names of the registers (a chain `x_r`, `x_r1` is a sequence), states
the names of the Verilog parameters less their prefix. History variables are
marked as such where they are declared; no guard of a code action reads them,
and environment choices are named as such. Definitions called `...Mutant` (or
with a comment "Mutant") are slips the properties are known to catch; no
specification uses them.

**BoundarySplit.** One action per arm of the state machine. The neighbours enter
as a request pulse (`Take`, only in idle, as `rd_finish_state` and
`wr_finish_state` guarantee) and `finish`, which the master raises for a burst
it has been given. Arithmetic has the widths of the code (13-bit end, 11-bit
first length, 8-bit second length, 20-bit page number). `sent` is history.
`SplitInit`, `SplitNext`, `SplitSpec` bear the module's name because `BurstProofs`
extends it together with `BurstTransfer`; `UpdateFifo` and `RoundLoop` do the same
for the same reason.

**AxiMaster.** `Edge` is one edge of the clock with all registers; the arms of the
state machine are its disjuncts. The slave may stall or answer on any edge. The
prefetch FIFO is a count: once its producer has started, a word or two appear
on each edge while it is below `prog_full` (the producer has the faster clock
and reads the RAM without a pause), and it is reset when the map is written.
This assumption is needed. `buffer_rd_req` also pops on the FIFO's
empty-to-nonempty edge without looking at `wready`; a producer that paused
within a burst, with a beat pending, would make the master pop over that beat.
`ImageWriteBuffer` discharges it (`NeverDry`).

**BurstTransfer.** `Enter` loads the subtracter, `Ask` cuts the next burst,
`Finish` advances the address and counts. A burst handed to the splitter is
finished once: `BoundarySplit` shows that. An operation has at least one word;
`image_toaxi_num_r` sees to it for writes, the heads must for reads.

**ProcessControl.** `Clk` is one edge of `deal_clk` with the pulses that arrive at
it as parameters. `Begin`, `Load`, `Deal`, `Send`, `Advance` say which pulses can
arrive in which state: the environment's duty, discharged by `RoundLoop`
(property `ProcessSpec`). The seven layer states, alike but for their constant,
are one state and a layer number.

**TransferTiming.** `Clk` is one edge with all registers from the state machine to
the splitter's inputs and to the routing of read words. The waiting states of the
control are one state of any length: whatever follows an operation may follow it
at once, more than the code allows. `mux_q` is the output of `mux_3to1.v`: new
numbers when the state is new (from the head, or from the map to be written),
0 outside an operation. A burst takes the splitter's edges and then any number
of words. `burst`, `reached` and `moved` are history and say what the splitter
latched, which is what `WordService` judges.

**KernelFifos.** A word is its place in the DDR's kernel area. `Word` writes one to
the FIFO whose turn it is and the padding to those that have no kernel; `Load`
is an edge of `load_kernel.v`. `Iterate` is the next head: a head that brings
kernels for several rounds is followed by heads that bring none. The FIFO's
empty flag is that of the true contents: to the reader a later one is the same
as a word that comes later. Depths are left out: the transfer control does not
look at `kernel_rd_need`, so that no more is ever in a FIFO than one head
brings is a matter of the heads.

**ImageWriteBuffer.** `AxiEdge` and `DealEdge` are the edges of the two clocks, in
the phases of `RoundLoop`. The FIFO core is modelled by its two pointers, each
seen by the other side two edges late, and `prog_full` registered on top of
that. A map is the running ends of its words in the RAMs, `m[t]` words in the
first `t` of them, so that `Start`, `Size` and `Total` need no recursion; it appears when
the last round of the map fills them. A word read beyond a RAM's count is
`Garbage`.

**UpdateFifo.** `Run` of the reader and the two pointers, the RAM's pipeline of
five edges, and the FIFO of sixteen words of two pixels. The Gray-coded
pointers cross no clock here; two registers of delay are what is left of them.

**Firmware.** One action per call of `main` up to `sdcard_read`, one per statement
where `main` shares a variable with the handler, which may run between any two.
Every call of FatFs and the drivers may fail, because hardly a result is looked
at. The instance of the interrupt controller's driver is a local variable of a
function that has returned: when the interrupt is taken the processor may
fault, and what is claimed is claimed of the runs in which the stale memory is
intact. `oneImage_finished` is read anew in each turn of the loop; it is not
volatile, and an optimising build may do otherwise. Caches are not modelled.

**TransferControl, RoundLoop.** `TransferControl!Clk` is one edge of `axi_clk`.
`RoundLoop` extends `ProcessControl`, so that what is proved of the one can be used
for the other, instantiates `TransferControl`, and adds the registers between:
the request for the next round (`req`, `reqR`, `ack`, `ackR`), the end of the
algorithm (`algReq` ...), `image_wr_need` (`wrNeedTemp`, `wrNeedPipe`,
`wrFinishR`), the handshake of `image_one_return_finish` (`retFlag`, `flagR`,
`retReady`, `retReadyR`, `readyTemp`), the lines to the PS (`beginSlow`, `beginR`,
`finishSlow`), the head FIFO with its empty flag, and the handshake of the image
read buffer (`inforLong`, `imageUpdate` and their crossings, `imageNeed`,
`imageReady`): the news of a head, stretched to fifteen edges, and its image flag
cross by themselves and are one event where both are seen. `phase` runs through the
edges of the clocks, five of `deal_clk` to four of `axi_clk`. Assumed:

* the clocks are aligned, as the PLL gives them (`PLL.xci`: 266.66 MHz in,
  266.66 and 333.33 out, phase 0); no crossing is metastable;
* the compute pipelines take longer than the transfer side's way back to
  `ready` (guard of `maxpooling` in `DealEdge`);
* DDR answers a head in `HeadLatency` edges of `axi_clk`. Nothing in the code
  bounds it; `TimingAssumption` says what the wait for a head, `HeadDelay` edges of
  `deal_clk`, then has to be: `4 * HeadDelay >= 5 * HeadLatency + 142`. The code's
  255 (`8'hFF`, `interrupt.v:191`) allows 175 edges, 0.65 microseconds;
* the PS is that of `sim_1/new/start_control.sv`: it raises the start line for
  ten cycles, waits for the interrupt to rise and to fall, and pauses.
  `TimingAssumption` lets the pulse and the pause be any `StartCycles >= 10`, short
  enough to be over when the first kernels are taken
  (`4 * HeadDelay >= 5 * StartCycles + 20`: up to 200). The firmware holds the line
  between two calls of a driver (`main.c:26-27`) for a time nobody states, and
  pauses while it saves the maps;
* the end of an operation, the fields of a head (image read or not, kernels or
  not, last round of a map) and the end of a load are chosen freely, but the
  first head of a network asks for an image, and a head whose kernels came with
  an earlier one does not (after an image the kernels are read whatever
  `kernel_no_rd` says, `information_read_write.v:303`).

What these assumptions leave out: a DDR slower than the bound, against which the
design has no defence; a map finished while the write of the one before is still
on its way, where `maxpooling_finish_ack` could meet an older `image_wr_need`; and
a start that the PS makes while the interrupt is up, which the edge detector of
`interrupt.v:184` loses. No property speaks of them.

## 3. Runs

| Run | Bounds | States | What it shows |
|---|---|---|---|
| `boundary_split` | addresses at nine offsets of the first page and of a page near the top of DDR, lengths 1 to 256 | 1 158 | `InOnePage`, `Continues`, `StableUnderBurst`, `Finishes`, refinement of `BeatService` |
| `axi_master` | bursts of 1, 2 and 4 beats, FIFO of 4 with `prog_full` 2 | 1 600 | `NoBeatLost`, `NoWordLost`, `BurstLength`, `ValidHolds`, `Served` |
| `burst_transfer` | 255, 256, 257, 512 and 513 words, three streams, areas of 800 words | 151 778 | `ExactlyTotal`, `BurstInside`, `Ends`, refinement of `WordService` |
| `transfer_timing` | operations of 256, 258 and 513 words, three streams, areas of 771 words | 267 303 | `RoutedRight`, refinement of `WordService` |
| `process_control` | four layers of one to four maps, delays 6 and 2 | 150 | `InterruptMeansDone`, `FinishIsCaught`, `OneCyclePulse`, `ActivationOfLayer`, `InStep` |
| `round_loop` | two layers of one and two maps, two rounds a map, kernels of one or two rounds a read, head wait 40 | 89 325 | see below |
| `kernel_fifos` | networks of five heads, six kinds: both sizes, 4 to 8 kernels, one of 24 for three rounds | 139 818 | `RoundGetsItsKernels`, `Loaded` |
| `kernel_words` | three heads of eight filters with one kernel | | finding, see below |
| `image_write_buffer` | maps in one, two, three and eight RAMs, shorter and longer than the FIFO; FIFO of 13, `prog_full` 9, RAMs of 16 words | 66 583 | `MapInOrder`, `NeverDry` |
| `update_fifo` | maps of even and odd size; depth and widths of the code | 239 452 | `NoWordDropped`, `PixelsInOrder` |
| `firmware` | three files, buffers of 3 and 4 words, sizes around and above them | 27 447 | `ReadsInside`, `FinishKept` |
| `firmware_bsp` | the same, with the table of the package in the repository | | finding, see below |

Why the bounds are enough. The splitter's behaviour depends on the offset of the
last beat, and the offsets lie on both sides of every comparison. The master's
counter and FIFO are compared for equality, emptiness and the full mark; all
are reached, including the FIFO running dry within a burst before its first
word and filling up. Word counts lie on both sides of one and of two bursts,
where the threshold's rule changes. Four layers give a first, a last and
layers between, of different sizes. `round_loop` has a map of several rounds,
a layer of one map and one of several, changes of layer in both directions of
the bank and at the end, and goes on to the next image; the wait for a head is
shortened together with the latency of DDR, everything else has the code's
register counts. `transfer_timing` has an operation of one burst exactly, of two
with a short second and of three, in areas that hold one after the other; the
product's modulus of 16 bits does not bite at these sizes, and `OperandsAssumption`
says what the heads must keep to. In `kernel_fifos` five heads let a batch of
three rounds be followed by a layer of another shape; what a head leaves behind
shows in the next or the one after. In `image_write_buffer` the FIFO is scaled
from 256 and 240 words, the difference only to what the code needs: with fewer
than four words above `prog_full` a word is dropped, with `prog_full` below nine
the FIFO runs dry while the flag comes back, and both fail in TLC. A RAM of 16
words is longer than the FIFO, so the prefetch past the end of a map ends in
each of its three ways: stopped by the flag, among garbage, or, after all eight
RAMs, at the map's own words again. Proofs remove the bounds of the runs they
cover.

`round_loop`, the heart of the matter:

* `NoRequestLost`: `maxpooling_finish_ack` is given only with a head read. It is
  raised in ready whatever `image_wr_need` is (`information_read_write.v:345`),
  and holds because `image_wr_need` arrives one register earlier than
  `maxpooling_finish_req_r3`.
* `NoHeadPastEnd`: one head per round, none after the last. Needs
  `inf_write_read_wait`: in its 16 cycles the end of the algorithm clears the
  request and `image_begin_flag`.
* `OneWritePerMap`: the stale `image_wr_need` at the end of a write does not
  start another; again the 16 cycles.
* `HeadBeforeKernels`: the fixed wait of `load_head_waitAddZero` outlasts the head
  read, given the latency assumed.
* `BankOfLayer`: the one-cycle pulse `one_layer_finish` reaches the slower clock.
  The path of the handshake makes it start where an `axi_clk` edge follows within
  the cycle; with one register fewer on the way (mutant `ReadyPosEarly`) it is
  missed and both layers use the same bank.
* `ImageOfHead`: no kernels are fetched, and nothing is convolved, before the image
  the head asks for has been read. The transfer side looks once, a fixed time
  after the head; the fifteen edges of `inforUpdate_delay` are what makes both
  halves of the news overlap on the slower clock (mutant `StretchMutant`).
* `ProcessSpec`: the pulses `ProcessControl` gets are those it may get; with it
  what is proved of `ProcessControl` holds of the whole.
* `Answered`: every start of the PS is answered by an interrupt.

Findings. Two runs expect a violation and show a disagreement between the code and
its own words.

* `kernel_words`: `multiplier_3x.v` adds one to the product when `operand_b` is odd,
  right for the pixels of an odd image. For kernels that operand is the number of
  kernels in a filter: eight filters of one 3x3 kernel, the heads of the
  repository's own simulation, read 52 words for 48. The surplus stays in the
  FIFOs, which nothing resets. While all layers are alike the counters keep step;
  a layer of another shape is loaded with kernels that are not its own.
* `firmware_bsp`: `gpio.c:68` looks up an interrupt's number as a device id. With
  the table of the only board support package in the repository (that of the
  first-stage boot loader; the application's own is not there) the look-up fails,
  nobody looks at the result, the interrupt is never connected, and `main` polls
  for ever.

Seen while reading, without a run: the maps are opened on volume `0:`
(`data_store.c:64`), while only `1:` is mounted (`sdcard.c:25`), so with FatFs as it
is `sdcard_write` fails for each of them, and the handler does not look.

Each property has a mutant of the code, listed in PROJECT.json, that violates it.

Fairness. The clocks run (weak fairness of the steps). A slave answers, takes
and gives beats in the end, the master finishes what it was given, and the
producer of the FIFO starts: none of these is in the PL's control logic, and
all are what AXI and the neighbours promise. In `RoundLoop` the clocks are
weakly fair; DDR and the compute side are strongly fair, because the edge on
which they may answer comes and goes with the phase. In `KernelFifos` the words
asked for come and the load is begun for every head (`Answered` of `RoundLoop`).
In `Firmware` the processor runs and an image that was begun ends. Deadlock is
checked in every run but those of the firmware, whose program ends.

## 4. Proofs

All for every value of the constants, under the ASSUMEs of the modules.

* `BurstProofs`, about `BoundarySplit`: `Requests` is any set of aligned requests below the end
  of DDR. The inductive invariant adds to the types what each state of the
  machine knows (what is latched, how much was sent, what is on the outputs).
  From it: `SplitTypeCorrect`, `NeverCrossesPage`, `NeverSkips`, `StableAddress` and
  the refinement `SplitImplementsService`. `InOnePage` alone is not inductive: it
  says nothing of the state that computes the second half.
* `AxiMasterProofs`: bursts of any length, a FIFO of any size. All about write
  beats hangs on one fact, `NeverDry` of that module: from the word that ends
  `wait_pre` on, the FIFO is not empty at any edge of the burst, so the pop that
  does not look at `wready` is never taken. It needs `ProgFull >= 2`: with 1 a
  reader and a full flag together empty the FIFO. From it: `TypeCorrect`,
  `NoBeatOverwritten`, `BeatsOfBurst`, `NoReadWordLost`, `OfferStands`.
* `TransferTimingProofs`: any operands, any size of the streams. The invariant says
  what the four request registers of a direction may hold in each state of the
  splitter: one pulse between two bursts, none that outlives its operation. From
  it: `WordsGoHome`. The counts and addresses, and so the refinement, are checked
  by TLC here and proved at the grain of bursts.
* `FifoProofs`, about `UpdateFifo`: any sizes of maps, any pauses of the reader, a start latency
  of at least 6 edges and a gap of at least 5. The two directions need each
  other: the room for the words on their way (`Room`) is counted with a read
  pointer seen two edges late, which bounds the true one from below only while no
  pixel is taken that is not there; and that the pixel is there (`Ahead`) follows
  from words that come only if none is dropped. A round goes through the phases
  `Draining`, `Resting`, `Plain` or `Filling`, `Flowing`. From it: `NeverFull`,
  `NeverDry`.
* `FirmwareProofs`: buffers, files and device tables of any size. The end of an
  image goes through phases (running, waiting, flagged, saving, saved) that the
  statements of `main` cannot disturb. From it: `TypeCorrect`, `BuffersHold`,
  `FinishNotLost`.
* `BurstProofs`, about `BurstTransfer`: any set of word counts up to 32767 and any streams. The
  invariant says that remainder, burst counter and words moved are three views
  of one number: `moved = 256 * finishCnt` and `rem = total - moved` between
  bursts. From it: `TypeCorrect`, `MovesExactlyTotal`, `BurstsInside`,
  `ImplementsService`.
* `ProcessControlProofs`: any number of layers, any numbers of maps up to 1023,
  any delays. The invariant (`Together`, `CountBound`, `CountExact`, `Pulse`,
  `ActivationLag`) ties the two state machines: which states go together, that
  a full layer exists only in `process_control_end`, and what the counter says
  of the history. From it: `TypeCorrect`, `InterruptAfterAll`,
  `FinishNeverMissed`, `PulseLastsOneCycle` (of every layer but the last, whose
  pulse does not matter: the next image begins with the banks set anew),
  `ActivationRight`, `StaysInStep`.

* `FifoProofs`, about `KernelFifos`: any succession of heads, of any length. Nothing that the
  model keeps says which round a FIFO's word is for, so the invariant counts:
  with `r` rounds' kernels dealt, the place in a FIFO, the lengths of the FIFOs and
  what lies in them are functions of `r`, of the rounds loaded and of the words of
  the round in hand (`Place`, `Lengths`, `Contents`, `Budget`), though no FIFO and
  no counter is reset between heads. `KernelsOfRound` has the hypothesis
  `CountsAgree`: the words a head asks for are those its rounds take.
  `EvenKernelsAgree` shows a simple class of heads that meet it, TLC that the heads of
  the run do (`HeadsAgree`), and the finding `kernel_words` that it is needed: heads
  that miss it are in the repository.
* `ImageWriteBufferProofs`: maps of any shape, any number of them in succession, RAMs of
  any size, and any FIFO with the slack of `FifoAssumption`. Outside a map the
  registers of both clocks are functions of the edges since `image_rd_finish`
  (`Crossing`, `Cleaning`): that the FIFO is in reset, on both sides, while the
  words of the prefetch's pipeline reach it follows from the seven edges of
  `image_prerd_toaxi_fifo_rst_cnt` and the ratio of the clocks, and fails with fewer.
  Within a map everything between the RAM counters and the AXI master is one delay
  line of counts, `Issued >= Second >= Third >= Written >= wrSeen >= rd`, and the
  contents at each place are fixed by its count (`Order`); the full flag, two edges
  late, still leaves room for the four words on their way (`Room`); and five edges
  to four keep so many words ahead of the reader, phase by phase, that a pause of
  the prefetch is over before the FIFO is empty (`Paused`, `Ahead`), which needs
  `ProgFull >= 9`. From it: `WordsInOrder`, `AlwaysAWord`, `NothingDropped`.

* `RoundLoopProofs`: any number of layers, maps and rounds, any batch of kernels,
  any `HeadDelay`, `HeadLatency` and `StartCycles` that `TimingAssumption` allows; the
  ratio of the clocks and the register counts are the code's. None of the loop's
  properties is inductive by itself: that a level is not seen twice, or a pulse not
  missed, depends on how long it takes the rest of the loop to come back to it. So
  the invariant speaks of time. `NextAxi` and `NextDeal` are the times to the
  next edges, exact because the clocks run rigidly; `KernelTime`, `JudgeTime`,
  `IdleTime`, `BeginTime` and `AnswerTime` are the times at which the loop can next
  take kernels, judge a head, listen to a request, begin an image, end a write; and
  each chain of registers or handshake has a predicate, `ReqBy(X)`, `NeedBy(X)`,
  `RetBy(X)`, `AlgBy(X)`, `BeginBy(X)`, `BankBy(X)`, saying that it has settled by time
  `X` wherever it is now. A step takes the same amount from every one of these
  times, which is what makes them inductive. `LoopIInv` says which deadline holds
  for which chain in which state: `Counters`; `Begins` and `Finishes`, the lines to
  and from the PS; `Algs`, the end of the network; `Rounds`, where the head of the
  round is (`Wanted`, `Reading`, `Arrived`, `Popped`) and what remains of the request
  for it; `Answers` and `Needs`, the way of a map to DDR and the news of its end;
  `Banks`, the change of layer. `AnswerPhases`, within `Banks`, is the reason why
  the bank's pulse is seen: the handshake never ends a round on the edge of
  `deal_clk` after which both clocks have their next edge together. The
  constants 142 and 20 of `TimingAssumption` come out of the deadlines. From it:
  `LoopTypeCorrect`, `RequestsAreKept`, `NoHeadAfterTheLast`, `MapsAreWrittenOnce`,
  `HeadComesFirst`, `BanksFollowLayers`, and `ProcessAlone`: the loop implements
  `ProcessControl`, so that `InterruptAfterAll` and the other theorems about that
  module hold of the whole machine and not only of its environment's duty.

  `ImageComesFirst` needs a second invariant, `Images`, on top of the first. It
  times the news that a head asks for an image, from the edge the head is taken
  (`PopTime`, exact) through the pulse of fifteen edges and the two chains of the
  image read buffer, to the one edge at which the transfer side judges the head:
  `NewsBy(JudgeTime)`. `InforBy(BackTime)` says the pulse of the last head is over
  before the transfer side can be asked for the next, so that what it finds there is
  no older head's news; and a head with an image (`Unfetched`) brings no kernels, so
  that the compute side cannot go on without it.

Model-checked only: liveness (`Finishes`, `Ends`, `Served`, `Answered`, `Loaded`),
because the prover has no rules for fairness; the order of pixels (`PixelsInOrder`); and
the refinement of `TransferTiming`. Every safety invariant of `RoundLoop` is a theorem.

## 5. Plan

What is left, in this order:

1. `LoadImage`: the RAMs and the addressing of `load_image.v` with the
   numIncrease state machine. `image_rd_need` is in `RoundLoop` already.
2. `ShiftWindow`: `shift_control.v` with the channel FIFOs and `stayInstep.v`.
3. The write side of `update.v` and `max_pooling.v` with its FIFO, next to
   `UpdateFifo`.
4. The refinement of `TransferTiming` and `PixelsInOrder` as theorems.

## 6. Not modelled

Arithmetic: floating-point pipelines without control state, values out of
reach of model checking. The convolution window and the addressing of the image
read path: sources without a statement of what they owe, between pipelines of
fixed length; see the plan. Vendor cores, board support package, boot loaders,
captures and logs: generated or third-party, and nearly all of the repository's
lines (the tens of copies of `psu_init` alone outweigh the design many times), so
that the share of all lines a model of the design can stand for is small. The
virtual paths: delays. `one_layer_finish_int` and its stretch: nothing is
connected to it. Modules no design file instantiates. Reset in operation: the
system has none after power-up, so reset is the initial state. Metastability:
there is no timing in TLA+; the crossings are modelled by what a register holds.
The coherence of caches and DDR between PS and PL. The RAM of 64 heads in
`iterate_head.v`, beyond its last entry: heads are written and read one at a
time, so its two counters are never more than one apart.
