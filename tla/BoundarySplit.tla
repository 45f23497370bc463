---------------------------- MODULE BoundarySplit ----------------------------
(* AXI_4KBboundary.v: a burst request that would cross a 4 KB page is issued
   as two bursts, the second one starting on the page.  One action per arm of
   the addrSplit_control state machine; every action is one edge of the AXI
   clock and updates all the registers of the module.

   Environment (the two neighbours in information_read_write.v and
   axi_read_write_master.v): a request pulse arrives only when the splitter is
   idle, and the master raises `finish` only for a burst whose addr_valid
   pulse it has seen.                                                        *)
EXTENDS Integers

CONSTANTS Requests   \* requests the generator can make: [addr, len], len = beats-1

PageBytes == 4096
BeatBytes == 8
MaxLen    == 255                  \* burst_len is 8 bits wide
Pages     == 1024 * 1024           \* addr[31:12] is 20 bits wide

DdrEnd    == 524272 * PageBytes    \* 16'h7FFF_0000

\* Addresses are multiples of a beat ({rd_addr_temp,3'b000}); the four DDR areas
\* of network_parameters.vh (0x7100_0000 up) lie below DdrEnd.
ASSUME RequestsAssumption ==
  Requests \subseteq
    [addr : {a \in Nat : a < DdrEnd /\ a % BeatBytes = 0},
     len  : 0..MaxLen]

VARIABLES
  control,      \* addrSplit_control
  endAddr,      \* 13-bit: page offset of the last beat of the request
  addrTemp,     \* the request, latched
  lenTemp,
  addrValid,    \* addr_valid: one-cycle pulse to the master (rd_req, wr_req)
  addrOut,      \* addr_out, read by the master while the burst lasts
  lenOut,       \* burst_len_out, likewise
  outstanding,  \* the master has a burst in hand (environment)
  sent          \* history: beats of this request whose burst has finished

splitVars == <<control, endAddr, addrTemp, lenTemp, addrValid, addrOut, lenOut,
               outstanding, sent>>

States == {"idle", "judge", "yes1", "yes1_wait", "yes2", "yes2_wait",
           "no", "no_wait", "end"}

SplitInit ==
  /\ control = "idle" /\ endAddr = 0
  /\ addrTemp = 0 /\ lenTemp = 0
  /\ addrValid = FALSE /\ addrOut = 0 /\ lenOut = 0
  /\ outstanding = FALSE /\ sent = 0

-----------------------------------------------------------------------------
(* Mutants: plausible slips in the definitions they are named after. *)
CrossesMutant(e) == e > PageBytes                      \* last beat on the edge
FirstLenMutantBytes(a) == (PageBytes - BeatBytes) - (a % PageBytes)
SecondLenMutant(l, first) == l - first                 \* beats, not beats-1
-----------------------------------------------------------------------------
(* Page offset of the last beat; bit 12 set means it lies in the next page. *)
EndOffset(a, l) == ((a % PageBytes) + BeatBytes * l) % (2 * PageBytes)
Crosses(e) == e >= PageBytes

(* burst_len_temp1[10:3]: an 11-bit difference, in beats. *)
FirstLen(a) == (((PageBytes - BeatBytes) - (a % PageBytes)) % 2048) \div BeatBytes

(* {addr_temp[31:12] + 1, 12'h000} *)
NextPage(a) == (((a \div PageBytes) + 1) % Pages) * PageBytes

SecondLen(l, first) == (l - first - 1) % (MaxLen + 1)

(* idle clears the outputs in every cycle, with or without a request. *)
Idle ==
  /\ control = "idle"
  /\ endAddr' = 0 /\ addrValid' = FALSE
  /\ addrOut' = 0 /\ lenOut' = 0
  /\ UNCHANGED <<control, addrTemp, lenTemp, outstanding, sent>>

(* addr_req in idle: the request is latched. *)
Take(r) ==
  /\ control = "idle"
  /\ control' = "judge"
  /\ endAddr' = EndOffset(r.addr, r.len)
  /\ addrTemp' = r.addr /\ lenTemp' = r.len
  /\ addrValid' = FALSE /\ addrOut' = 0 /\ lenOut' = 0
  /\ sent' = 0
  /\ UNCHANGED outstanding

Judge ==
  /\ control = "judge"
  /\ control' = IF Crosses(endAddr) THEN "yes1" ELSE "no"
  /\ endAddr' = 0
  /\ addrValid' = FALSE
  /\ UNCHANGED <<addrTemp, lenTemp, addrOut, lenOut, outstanding, sent>>

(* yes1, yes2 and no present a burst to the master for the state that waits. *)
Present(here, wait, a, l) ==
  /\ control = here
  /\ control' = wait
  /\ addrOut' = a /\ lenOut' = l
  /\ addrValid' = TRUE
  /\ endAddr' = 0
  /\ UNCHANGED <<addrTemp, lenTemp, outstanding, sent>>

PresentFirst  == Present("yes1", "yes1_wait", addrTemp, FirstLen(addrTemp))
PresentSecond == Present("yes2", "yes2_wait", NextPage(addrTemp),
                         SecondLen(lenTemp, lenOut))
PresentWhole  == Present("no", "no_wait", addrTemp, lenTemp)

\* Mutant: the outputs are cleared once the pulse has been given.
WorkingMutant ==
  /\ control \in {"yes1_wait", "yes2_wait", "no_wait"}
  /\ addrValid' = FALSE
  /\ outstanding' = (outstanding \/ addrValid)
  /\ endAddr' = 0
  /\ addrOut' = 0 /\ lenOut' = 0
  /\ UNCHANGED <<control, addrTemp, lenTemp, sent>>

(* The master works on the burst: addr_valid falls, no finish yet. *)
Working ==
  /\ control \in {"yes1_wait", "yes2_wait", "no_wait"}
  /\ addrValid' = FALSE
  /\ outstanding' = (outstanding \/ addrValid)
  /\ endAddr' = 0
  /\ UNCHANGED <<control, addrTemp, lenTemp, addrOut, lenOut, sent>>

(* finish: the burst in hand has moved its lenOut+1 beats. *)
BurstDone(here, then) ==
  /\ control = here /\ outstanding
  /\ control' = then
  /\ outstanding' = FALSE
  /\ addrValid' = FALSE
  /\ endAddr' = 0
  /\ sent' = sent + lenOut + 1
  /\ UNCHANGED <<addrTemp, lenTemp, addrOut, lenOut>>

FinishFirstMutant == BurstDone("yes1_wait", "yes2_wait")  \* no second pulse
FinishFirst == BurstDone("yes1_wait", "yes2")
FinishLast  == \E s \in {"yes2_wait", "no_wait"} : BurstDone(s, "end")

End ==
  /\ control = "end"
  /\ control' = "idle"
  /\ addrValid' = FALSE /\ endAddr' = 0
  /\ UNCHANGED <<addrTemp, lenTemp, addrOut, lenOut, outstanding, sent>>

SplitNext ==
  \/ \E r \in Requests : Take(r)
  \/ Idle \/ Judge \/ PresentFirst \/ PresentSecond \/ PresentWhole
  \/ Working \/ FinishFirst \/ FinishLast \/ End

(* The clock runs, and the master finishes every burst it was given. *)
Fairness ==
  /\ WF_splitVars(Judge) /\ WF_splitVars(PresentFirst)
  /\ WF_splitVars(PresentSecond) /\ WF_splitVars(PresentWhole)
  /\ WF_splitVars(Working)
  /\ WF_splitVars(FinishFirst) /\ WF_splitVars(FinishLast) /\ WF_splitVars(End)

SplitSpec == SplitInit /\ [][SplitNext]_splitVars
SplitFairSpec == SplitSpec /\ Fairness

-----------------------------------------------------------------------------
SplitTypeOK ==
  /\ control \in States
  /\ endAddr \in 0..(2 * PageBytes - 1)
  /\ addrTemp \in Nat /\ lenTemp \in 0..MaxLen
  /\ addrValid \in BOOLEAN /\ addrOut \in Nat /\ lenOut \in 0..MaxLen
  /\ outstanding \in BOOLEAN /\ sent \in 0..(MaxLen + 1)

(* A burst is on offer to the master or in its hands. *)
Live == addrValid \/ outstanding

(* AXI rule the module exists for: no burst crosses a 4 KB page.            *)
InOnePage ==
  Live => (addrOut % PageBytes) + BeatBytes * (lenOut + 1) <= PageBytes

(* Each burst starts at the first beat not yet moved and never asks for
   more beats than the request has left: nothing skipped, nothing twice.    *)
Continues ==
  Live => /\ addrOut = addrTemp + BeatBytes * sent
          /\ sent + lenOut + 1 <= lenTemp + 1

(* axi_read_write_master.v reads wr_addr and wr_len combinationally during
   the whole burst: they may not move under a burst in hand.                *)
StableUnderBurst ==
  [][Live => UNCHANGED <<addrOut, lenOut>>]_splitVars

(* Every request taken is finished. *)
Finishes == (control = "judge") ~> (control = "end")

(* The splitter and master together implement BeatService. *)
SplitService == INSTANCE BeatService WITH
  pending <- control \notin {"idle", "end"},
  next    <- addrTemp + BeatBytes * sent,
  left    <- IF control \in {"idle", "end"} THEN 0 ELSE lenTemp + 1 - sent

SplitServiceSpec == SplitService!Spec
=============================================================================
