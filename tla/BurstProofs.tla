----------------------------- MODULE BurstProofs -----------------------------
(* Proofs about the way to an AXI burst, for every value of the constants:
   first BoundarySplit, which cuts a request at the 4 KB page, for every set of
   beat-aligned requests below DdrEnd and any timing of the master; then
   BurstTransfer, which cuts an operation into such requests, for every word
   count the 15 bits of multi_byte_double can hold, every number of streams and
   every area size.                                                          *)
EXTENDS BurstTransfer, BoundarySplit, TLAPS

-----------------------------------------------------------------------------
(* The 4 KB splitter, AXI_4KBboundary.v. *)

(* A request the splitter may hold. *)
IsRequest(a, l) == a \in Nat /\ a < DdrEnd /\ a % BeatBytes = 0 /\ l \in 0..MaxLen

Split(a, l) == Crosses(EndOffset(a, l))

(* What the registers hold in each state of addrSplit_control. *)
Phase ==
  /\ control \in {"idle", "judge", "yes1", "yes2", "no", "end"} => ~Live
  /\ control = "judge" => sent = 0 /\ endAddr = EndOffset(addrTemp, lenTemp)
  /\ control \in {"yes1", "yes1_wait", "yes2", "yes2_wait"} => Split(addrTemp, lenTemp)
  /\ control \in {"no", "no_wait"} => ~Split(addrTemp, lenTemp)
  /\ control \in {"yes1", "yes1_wait", "no", "no_wait"} => sent = 0
  /\ control = "yes1_wait" => addrOut = addrTemp /\ lenOut = FirstLen(addrTemp)
  /\ control = "yes2" => lenOut = FirstLen(addrTemp)
  /\ control \in {"yes2", "yes2_wait"} => sent = FirstLen(addrTemp) + 1
  /\ control = "yes2_wait" => /\ addrOut = NextPage(addrTemp)
                              /\ lenOut = SecondLen(lenTemp, FirstLen(addrTemp))
  /\ control = "no_wait" => addrOut = addrTemp /\ lenOut = lenTemp
  /\ control = "end" => sent = lenTemp + 1

SplitIInv == SplitTypeOK /\ IsRequest(addrTemp, lenTemp) /\ Phase

-----------------------------------------------------------------------------
(* Adding the 13-bit end offset never wraps (an 8-bit length cannot reach the
   second page boundary).                                                    *)
LEMMA EndOffsetValue ==
  ASSUME NEW a, NEW l, IsRequest(a, l)
  PROVE  /\ EndOffset(a, l) = (a % PageBytes) + BeatBytes * l
         /\ EndOffset(a, l) \in 0..(2 * PageBytes - 1)
  BY DEF IsRequest, EndOffset, PageBytes, BeatBytes, MaxLen

(* The two halves of a crossing request: the first ends exactly on the page
   boundary, the second starts there, and their lengths add up.              *)
LEMMA SplitArithmetic ==
  ASSUME NEW a, NEW l, IsRequest(a, l), Split(a, l)
  PROVE  /\ FirstLen(a) \in 0..MaxLen
         /\ FirstLen(a) + 1 <= l
         /\ (a % PageBytes) + BeatBytes * (FirstLen(a) + 1) = PageBytes
         /\ NextPage(a) \in Nat
         /\ NextPage(a) % PageBytes = 0
         /\ NextPage(a) = a + BeatBytes * (FirstLen(a) + 1)
         /\ SecondLen(l, FirstLen(a)) = l - FirstLen(a) - 1
<1> DEFINE o == a % PageBytes
<1>1. o \in 0..(PageBytes - 1) /\ o % BeatBytes = 0
  BY DEF IsRequest, PageBytes, BeatBytes
<1>2. o + BeatBytes * l >= PageBytes
  BY EndOffsetValue DEF Split, Crosses
<1>3. o >= 2056
  BY <1>1, <1>2 DEF IsRequest, MaxLen, PageBytes, BeatBytes
<1> HIDE DEF o
<1>4. PICK k \in 0..511 : o = 8 * k
  <2>1. o \div 8 \in 0..511 /\ o = 8 * (o \div 8)
    BY <1>1 DEF PageBytes, BeatBytes
  <2> QED BY <2>1
<1>5. FirstLen(a) \in 0..MaxLen /\ o + BeatBytes * (FirstLen(a) + 1) = PageBytes
  <2>1. 4088 - o = 8 * (511 - k) /\ 4088 - o \in 0..2032
    BY <1>3, <1>4
  <2>2. (4088 - o) % 2048 = 8 * (511 - k)
    BY <2>1, <1>4
  <2>3. (8 * (511 - k)) \div 8 = 511 - k
    BY <1>4
  <2>4. FirstLen(a) = 511 - k
    BY <2>2, <2>3 DEF FirstLen, o, PageBytes, BeatBytes
  <2> QED BY <2>1, <2>4, <1>4 DEF PageBytes, BeatBytes, MaxLen
<1>6. FirstLen(a) + 1 <= l
  BY <1>1, <1>2, <1>5 DEF IsRequest, PageBytes, BeatBytes, MaxLen
<1>7. /\ a \div PageBytes \in Nat
      /\ a = PageBytes * (a \div PageBytes) + o
      /\ (a \div PageBytes) + 1 < Pages
  BY DEF IsRequest, PageBytes, Pages, DdrEnd, o
<1>8. /\ NextPage(a) = PageBytes * ((a \div PageBytes) + 1)
      /\ NextPage(a) \in Nat
      /\ NextPage(a) % PageBytes = 0
  BY <1>7 DEF NextPage, PageBytes, Pages
<1>9. NextPage(a) = a + BeatBytes * (FirstLen(a) + 1)
  <2> DEFINE q == a \div PageBytes
  <2> DEFINE f == FirstLen(a)
  <2>1. /\ q \in Nat /\ f \in Nat /\ o \in Nat /\ a = 4096 * q + o
        /\ o + 8 * (f + 1) = 4096 /\ NextPage(a) = 4096 * (q + 1)
    BY <1>1, <1>5, <1>7, <1>8 DEF PageBytes, BeatBytes, MaxLen
  <2> HIDE DEF q, f
  <2>2. NextPage(a) = a + 8 * (f + 1)
    BY <2>1
  <2> QED BY <2>2 DEF f, BeatBytes
<1>10. SecondLen(l, FirstLen(a)) = l - FirstLen(a) - 1
  <2> DEFINE f == FirstLen(a)
  <2> DEFINE d == l - f - 1
  <2>1. f \in 0..255 /\ l \in 0..255 /\ f + 1 <= l
    BY <1>5, <1>6 DEF IsRequest, MaxLen
  <2> HIDE DEF f
  <2>3. d \in 0..255
    BY <2>1
  <2> HIDE DEF d
  <2>2. d % 256 = d
    BY <2>3
  <2> QED BY <2>2 DEF SecondLen, MaxLen, d, f
<1> QED BY <1>5, <1>6, <1>8, <1>9, <1>10 DEF o

LEMMA SecondLenInRange ==
  ASSUME NEW a, NEW l, IsRequest(a, l), Split(a, l)
  PROVE  SecondLen(l, FirstLen(a)) \in 0..MaxLen
<1> DEFINE f == FirstLen(a)
<1>1. f \in 0..255 /\ l \in 0..255 /\ f + 1 <= l
  BY SplitArithmetic DEF IsRequest, MaxLen
<1>2. SecondLen(l, f) = l - f - 1
  BY SplitArithmetic
<1> HIDE DEF f
<1>3. l - f - 1 \in 0..255
  BY <1>1
<1> QED BY <1>2, <1>3 DEF f, MaxLen

(* A request that does not cross ends inside its page. *)
LEMMA WholeArithmetic ==
  ASSUME NEW a, NEW l, IsRequest(a, l), ~Split(a, l)
  PROVE  (a % PageBytes) + BeatBytes * (l + 1) <= PageBytes
<1>1. a % PageBytes \in 0..4095 /\ (a % PageBytes) % 8 = 0
  BY DEF IsRequest, PageBytes, BeatBytes
<1>2. (a % PageBytes) + 8 * l < 4096
  BY EndOffsetValue DEF Split, Crosses, PageBytes, BeatBytes, IsRequest, MaxLen
<1> QED BY <1>1, <1>2 DEF IsRequest, PageBytes, BeatBytes, MaxLen

-----------------------------------------------------------------------------
LEMMA RequestsAreRequests ==
  ASSUME NEW r \in Requests
  PROVE  IsRequest(r.addr, r.len)
  BY RequestsAssumption DEF IsRequest

LEMMA SplitZeros ==
  /\ 0 \in 0..(2 * PageBytes - 1) /\ 0 \in 0..MaxLen /\ 0 \in 0..(MaxLen + 1)
  /\ 0 < DdrEnd /\ 0 % BeatBytes = 0
  BY SMT DEF PageBytes, MaxLen, DdrEnd, BeatBytes

(* The inductive invariant. *)
LEMMA InitSplitIInv == SplitInit => SplitIInv
<1> SUFFICES ASSUME SplitInit PROVE SplitIInv
  OBVIOUS
<1>1. SplitTypeOK
  <2>1. 0 \in Nat
    OBVIOUS
  <2> QED BY SplitZeros, <2>1, Zenon DEF SplitInit, SplitTypeOK, States
<1>2. IsRequest(addrTemp, lenTemp)
  BY SplitZeros, SMT DEF SplitInit, IsRequest, DdrEnd, PageBytes, MaxLen
<1>3. Phase
  BY SMT DEF SplitInit, Phase, Live
<1> QED BY <1>1, <1>2, <1>3 DEF SplitIInv

LEMMA NextSplitIInv == SplitIInv /\ [SplitNext]_splitVars => SplitIInv'
<1> SUFFICES ASSUME SplitIInv, [SplitNext]_splitVars PROVE SplitIInv'
  OBVIOUS
<1> USE DEF SplitIInv
<1>a. ASSUME Split(addrTemp, lenTemp)
      PROVE  /\ FirstLen(addrTemp) \in 0..MaxLen
             /\ FirstLen(addrTemp) + 1 <= lenTemp
             /\ NextPage(addrTemp) \in Nat
             /\ SecondLen(lenTemp, FirstLen(addrTemp))
                  = lenTemp - FirstLen(addrTemp) - 1
             /\ SecondLen(lenTemp, FirstLen(addrTemp)) \in 0..MaxLen
  BY <1>a, SplitArithmetic, SecondLenInRange
<1> USE SplitZeros
<1>1. ASSUME NEW r \in Requests, Take(r) PROVE SplitIInv'
  <2>1. IsRequest(r.addr, r.len)
    BY RequestsAreRequests
  <2>2. EndOffset(r.addr, r.len) \in 0..(2 * PageBytes - 1)
    BY <2>1, EndOffsetValue
  <2>3. SplitTypeOK'
    BY <1>1, <2>1, <2>2 DEF Take, SplitTypeOK, IsRequest, States, MaxLen
  <2>4. IsRequest(addrTemp, lenTemp)'
    BY <1>1, <2>1 DEF Take, IsRequest
  <2>5. Phase'
    BY <1>1, <2>1 DEF Take, Phase, Live
  <2> QED BY <2>3, <2>4, <2>5
<1>2. CASE Idle
  BY <1>2 DEF Idle, SplitTypeOK, IsRequest, Phase, Live, States, MaxLen
<1>3. CASE Judge
  <2>1. SplitTypeOK' /\ IsRequest(addrTemp, lenTemp)'
    BY <1>3 DEF Judge, SplitTypeOK, States, IsRequest
  <2>2. Phase'
    BY <1>3 DEF Judge, Phase, Live, Split
  <2> QED BY <2>1, <2>2
<1>4. CASE PresentFirst
  <2>1. Split(addrTemp, lenTemp) /\ sent = 0
    BY <1>4 DEF PresentFirst, Present, Phase
  <2>2. SplitTypeOK' /\ IsRequest(addrTemp, lenTemp)'
    BY <1>4, <1>a, <2>1 DEF PresentFirst, Present, SplitTypeOK, States, IsRequest
  <2>3. Phase'
    BY <1>4, <2>1 DEF PresentFirst, Present, Phase, Live, Split
  <2> QED BY <2>2, <2>3
<1>5. CASE PresentSecond
  <2>1. /\ Split(addrTemp, lenTemp) /\ sent = FirstLen(addrTemp) + 1
        /\ lenOut = FirstLen(addrTemp)
    BY <1>5 DEF PresentSecond, Present, Phase
  <2>2. SecondLen(lenTemp, FirstLen(addrTemp)) \in 0..MaxLen
    BY <1>a, <2>1
  <2>3. SplitTypeOK' /\ IsRequest(addrTemp, lenTemp)'
    BY <1>5, <1>a, <2>1, <2>2
       DEF PresentSecond, Present, SplitTypeOK, States, IsRequest
  <2>4. Phase'
    BY <1>5, <2>1 DEF PresentSecond, Present, Phase, Live, Split
  <2> QED BY <2>3, <2>4
<1>6. CASE PresentWhole
  <2>1. SplitTypeOK' /\ IsRequest(addrTemp, lenTemp)'
    BY <1>6 DEF PresentWhole, Present, SplitTypeOK, States, IsRequest
  <2>2. Phase'
    BY <1>6 DEF PresentWhole, Present, Phase, Live, Split
  <2> QED BY <2>1, <2>2
<1>7. CASE Working
  <2>1. SplitTypeOK' /\ IsRequest(addrTemp, lenTemp)'
    BY <1>7 DEF Working, SplitTypeOK, States, IsRequest
  <2>2. Phase'
    BY <1>7 DEF Working, Phase, Live, Split
  <2> QED BY <2>1, <2>2
<1>8. CASE FinishFirst
  <2>1. Split(addrTemp, lenTemp) /\ sent = 0 /\ lenOut = FirstLen(addrTemp)
    BY <1>8 DEF FinishFirst, BurstDone, Phase
  <2>a. sent' \in 0..(MaxLen + 1)
    BY <1>8, <2>1, SMT DEF FinishFirst, BurstDone, SplitTypeOK, MaxLen
  <2>2. SplitTypeOK' /\ IsRequest(addrTemp, lenTemp)'
    BY <1>8, <2>a DEF FinishFirst, BurstDone, SplitTypeOK, States, IsRequest
  <2>3. Phase'
    BY <1>8, <1>a, <2>1 DEF FinishFirst, BurstDone, Phase, Live, Split, MaxLen
  <2> QED BY <2>2, <2>3
<1>9. CASE FinishLast
  <2> PICK s \in {"yes2_wait", "no_wait"} : BurstDone(s, "end")
    BY <1>9 DEF FinishLast
  <2>1. sent' = lenTemp + 1
    BY <1>a DEF BurstDone, Phase, SplitTypeOK, MaxLen
  <2>a. sent' \in 0..(MaxLen + 1)
    BY <2>1, SMT DEF SplitTypeOK, MaxLen
  <2>2. SplitTypeOK' /\ IsRequest(addrTemp, lenTemp)'
    BY <2>a DEF BurstDone, SplitTypeOK, States, IsRequest
  <2>3. Phase'
    BY <2>1 DEF BurstDone, Phase, Live, Split
  <2> QED BY <2>2, <2>3
<1>10. CASE End
  BY <1>10 DEF End, SplitTypeOK, States, IsRequest, Phase, Live, Split
<1>11. CASE UNCHANGED splitVars
  BY <1>11 DEF splitVars, SplitTypeOK, IsRequest, Phase, Live, Split
<1> QED BY <1>1, <1>2, <1>3, <1>4, <1>5, <1>6, <1>7, <1>8, <1>9, <1>10, <1>11
        DEF SplitNext

(* The registers hold what Phase says, in every reachable state. *)
THEOREM SplitInvariant == SplitSpec => []SplitIInv
<1>1. SplitInit => SplitIInv
  BY InitSplitIInv
<1>2. SplitIInv /\ [SplitNext]_splitVars => SplitIInv'
  BY NextSplitIInv
<1> QED BY <1>1, <1>2, PTL DEF SplitSpec

(* Type correctness of the registers of AXI_4KBboundary.v, widths included. *)
THEOREM SplitTypeCorrect == SplitSpec => []SplitTypeOK
<1>1. SplitIInv => SplitTypeOK
  BY DEF SplitIInv
<1> QED BY <1>1, SplitInvariant, PTL

-----------------------------------------------------------------------------
(* A burst is presented only in the three waiting states. *)
LEMMA LiveStates ==
  ASSUME SplitIInv, Live
  PROVE  control \in {"yes1_wait", "yes2_wait", "no_wait"}
  BY DEF SplitIInv, SplitTypeOK, Phase, States

(* The lengths and addresses on offer, state by state. *)
LEMMA BurstFacts ==
  ASSUME SplitIInv, control \in {"yes1_wait", "yes2_wait", "no_wait"}
  PROVE  /\ (addrOut % PageBytes) + BeatBytes * (lenOut + 1) <= PageBytes
         /\ addrOut = addrTemp + BeatBytes * sent
         /\ sent + lenOut + 1 <= lenTemp + 1
         /\ control = "yes1_wait" => lenOut + 1 <= lenTemp
         /\ control \in {"yes2_wait", "no_wait"} => sent + lenOut = lenTemp
<1> USE DEF SplitIInv
<1>0. /\ IsRequest(addrTemp, lenTemp) /\ addrTemp \in Nat
      /\ lenTemp \in Int /\ 0 <= lenTemp /\ lenTemp <= 255
  BY DEF IsRequest, MaxLen
<1>1. CASE control = "yes1_wait"
  <2>1. /\ Split(addrTemp, lenTemp) /\ sent = 0 /\ addrOut = addrTemp
        /\ lenOut = FirstLen(addrTemp)
    BY <1>1 DEF Phase
  <2>2. /\ FirstLen(addrTemp) \in 0..MaxLen
        /\ FirstLen(addrTemp) + 1 <= lenTemp
        /\ (addrTemp % PageBytes) + BeatBytes * (FirstLen(addrTemp) + 1) = PageBytes
    BY <1>0, <2>1, SplitArithmetic
  <2>3. (addrOut % PageBytes) + BeatBytes * (lenOut + 1) <= PageBytes
    BY <2>1, <2>2, SMT DEF PageBytes
  <2>4. lenOut \in Int /\ lenOut + 1 <= lenTemp
    BY <2>1, <2>2, SMT DEF MaxLen
  <2>5. addrOut = addrTemp + BeatBytes * sent
    BY <1>0, <2>1, SMT DEF BeatBytes
  <2> QED BY <1>0, <1>1, <2>1, <2>3, <2>4, <2>5
<1>2. CASE control = "yes2_wait"
  <2>1. /\ Split(addrTemp, lenTemp) /\ sent = FirstLen(addrTemp) + 1
        /\ addrOut = NextPage(addrTemp)
        /\ lenOut = SecondLen(lenTemp, FirstLen(addrTemp))
    BY <1>2 DEF Phase
  <2>2. /\ FirstLen(addrTemp) \in 0..MaxLen
        /\ NextPage(addrTemp) % PageBytes = 0
        /\ NextPage(addrTemp) = addrTemp + BeatBytes * (FirstLen(addrTemp) + 1)
        /\ SecondLen(lenTemp, FirstLen(addrTemp)) = lenTemp - FirstLen(addrTemp) - 1
    BY <1>0, <2>1, SplitArithmetic
  <2>3. lenOut \in 0..255
    BY <1>0, <2>1, SecondLenInRange DEF MaxLen
  <2>4. sent \in Int /\ sent + lenOut = lenTemp
    BY <1>0, <2>1, <2>2, SMT DEF MaxLen
  <2>5. addrOut % PageBytes = 0
    BY <2>1, <2>2
  <2>6. (addrOut % PageBytes) + BeatBytes * (lenOut + 1) <= PageBytes
    BY <2>3, <2>5, SMT DEF BeatBytes, PageBytes
  <2>7. addrOut = addrTemp + BeatBytes * sent
    BY <2>1, <2>2
  <2> QED BY <1>0, <1>2, <2>3, <2>4, <2>6, <2>7
<1>3. CASE control = "no_wait"
  <2>1. /\ ~Split(addrTemp, lenTemp) /\ sent = 0
        /\ addrOut = addrTemp /\ lenOut = lenTemp
    BY <1>3 DEF Phase
  <2>2. (addrOut % PageBytes) + BeatBytes * (lenOut + 1) <= PageBytes
    BY <1>0, <2>1, WholeArithmetic
  <2>3. addrOut = addrTemp + BeatBytes * sent
    BY <1>0, <2>1, SMT DEF BeatBytes
  <2> QED BY <1>0, <1>3, <2>1, <2>2, <2>3
<1> QED BY <1>1, <1>2, <1>3

(* AXI_4KBboundary never issues a burst that crosses a 4 KB page. *)
THEOREM NeverCrossesPage == SplitSpec => []InOnePage
<1>1. SplitIInv => InOnePage
  BY BurstFacts, LiveStates DEF InOnePage
<1> QED BY <1>1, SplitInvariant, PTL

(* It never skips a beat of a request, repeats one, or asks for one too many. *)
THEOREM NeverSkips == SplitSpec => []Continues
<1>1. SplitIInv => Continues
  BY BurstFacts, LiveStates DEF Continues
<1> QED BY <1>1, SplitInvariant, PTL

(* It holds the address and length still while the master has the burst. *)
THEOREM StableAddress == SplitSpec => StableUnderBurst
<1>1. SplitIInv /\ [SplitNext]_splitVars => [Live => UNCHANGED <<addrOut, lenOut>>]_splitVars
  <2> SUFFICES ASSUME SplitIInv, Live, [SplitNext]_splitVars PROVE UNCHANGED <<addrOut, lenOut>>
    OBVIOUS
  <2>1. control \in {"yes1_wait", "yes2_wait", "no_wait"}
    BY LiveStates
  <2> QED BY <2>1 DEF SplitNext, Take, Idle, Judge, PresentFirst, PresentSecond,
       PresentWhole, Present, Working, FinishFirst, FinishLast, BurstDone, End, splitVars
<1> QED BY <1>1, SplitInvariant, PTL DEF SplitSpec, StableUnderBurst

-----------------------------------------------------------------------------
(* The refinement: each burst's end is a Move of BeatService, everything the
   state machine does in between is a stutter.                               *)
LEMMA SplitInitSimulation == SplitInit => SplitService!Init
  BY SMT DEF SplitInit, SplitService!Init, BeatBytes

LEMMA SplitStepSimulation ==
  ASSUME SplitIInv, [SplitNext]_splitVars
  PROVE  [SplitService!Next]_SplitService!vars
<1> DEFINE pending == control \notin {"idle", "end"}
<1> DEFINE next == addrTemp + BeatBytes * sent
<1> DEFINE left == IF control \in {"idle", "end"} THEN 0 ELSE lenTemp + 1 - sent
<1>0. /\ addrTemp \in Int /\ sent \in Int /\ lenTemp \in Int /\ lenOut \in Int
      /\ lenTemp <= 255 /\ 0 <= sent /\ 0 <= lenOut
  BY SMT DEF SplitIInv, SplitTypeOK, MaxLen
<1>1. ASSUME NEW r \in Requests, Take(r) PROVE SplitService!Next
  <2>1. r.addr \in Int /\ r.len \in Int
    BY RequestsAreRequests DEF IsRequest, MaxLen
  <2>2. next' = r.addr /\ left' = r.len + 1 /\ pending' /\ ~pending
    BY <1>1, <2>1, SMT DEF Take, BeatBytes
  <2>3. SplitService!Take(r)
    BY <2>2 DEF SplitService!Take
  <2> QED BY <2>3 DEF SplitService!Next
<1>2. ASSUME FinishFirst \/ FinishLast PROVE SplitService!Next
  <2>1. PICK s \in {"yes1_wait", "yes2_wait", "no_wait"} : \E t \in {"yes2", "end"} :
           /\ BurstDone(s, t)
           /\ t = "yes2" <=> s = "yes1_wait"
    BY <1>2 DEF FinishFirst, FinishLast
  <2>2. /\ (addrOut % PageBytes) + BeatBytes * (lenOut + 1) <= PageBytes
        /\ addrOut = addrTemp + BeatBytes * sent
        /\ sent + lenOut + 1 <= lenTemp + 1
        /\ s = "yes1_wait" => lenOut + 1 <= lenTemp
        /\ s # "yes1_wait" => sent + lenOut = lenTemp
    BY <2>1, BurstFacts DEF BurstDone
  <2>3. pending /\ left = lenTemp + 1 - sent
    BY <2>1 DEF BurstDone
  <2>4. lenOut + 1 \in 1..256 /\ lenOut + 1 \in 1..left
    BY <1>0, <2>2, <2>3, SMT
  <2>5. next' = next + (lenOut + 1) * BeatBytes
    BY <1>0, <2>1, SMT DEF BurstDone, BeatBytes
  <2>6. s = "yes1_wait" => sent = 0
    BY <2>1 DEF BurstDone, SplitIInv, Phase
  <2>7. left' = left - (lenOut + 1) /\ pending' = (lenOut + 1 < left)
    <3>1. CASE s = "yes1_wait"
      <4>1. pending' /\ left' = lenTemp + 1 - (sent + lenOut + 1)
        BY <2>1, <3>1 DEF BurstDone
      <4>2. lenOut + 1 < left
        BY <1>0, <2>2, <2>3, <2>6, <3>1, SMT
      <4>3. left' = left - (lenOut + 1)
        BY <1>0, <2>3, <4>1, SMT
      <4> QED BY <4>1, <4>2, <4>3
    <3>2. CASE s # "yes1_wait"
      <4>1. ~pending' /\ left' = 0
        BY <2>1, <3>2 DEF BurstDone
      <4>2. left = lenOut + 1
        BY <1>0, <2>2, <2>3, <3>2, SMT
      <4>3. ~(lenOut + 1 < left) /\ left' = left - (lenOut + 1)
        BY <1>0, <4>1, <4>2, SMT
      <4> QED BY <4>1, <4>3
    <3> QED BY <3>1, <3>2
  <2>8. (next % PageBytes) + (lenOut + 1) * BeatBytes <= PageBytes
    BY <1>0, <2>2, SMT DEF BeatBytes, PageBytes
  <2>9. SplitService!Move(lenOut + 1)
    BY <2>3, <2>4, <2>5, <2>7, <2>8
       DEF SplitService!Move, SplitService!PageBytes, SplitService!BeatBytes, PageBytes, BeatBytes
  <2> QED BY <2>4, <2>9 DEF SplitService!Next
<1>3. ASSUME \/ Idle \/ Judge \/ PresentFirst \/ PresentSecond \/ PresentWhole
             \/ Working \/ End \/ UNCHANGED splitVars
      PROVE  UNCHANGED SplitService!vars
  BY <1>3 DEF Idle, Judge, PresentFirst, PresentSecond, PresentWhole, Present,
              Working, End, splitVars, SplitService!vars
<1> QED BY <1>1, <1>2, <1>3 DEF SplitNext

(* The splitter serves every request exactly as BeatService promises. *)
THEOREM SplitImplementsService == SplitSpec => SplitServiceSpec
<1>1. SplitInit => SplitService!Init
  BY SplitInitSimulation
<1>2. SplitIInv /\ [SplitNext]_splitVars => [SplitService!Next]_SplitService!vars
  BY SplitStepSimulation
<1> QED BY <1>1, <1>2, SplitInvariant, PTL DEF SplitSpec, SplitServiceSpec, SplitService!Spec

-----------------------------------------------------------------------------
(* The burst loop of information_read_write.v. *)

(* The number of finished bursts and the words they moved determine each
   other, and the subtracter holds what is left.                             *)
Progress ==
  /\ op = "none" => moved = total /\ finishCnt = 0 /\ ~asked
  /\ op # "none" => /\ total \in 1..MaxWords
                    /\ moved = MaxBurst * finishCnt
                    /\ moved < total
                    /\ addr[op] + (total - moved) <= Limit
  /\ op # "none" /\ ~asked => rem = total - moved
  /\ asked /\ total - moved > 256 =>
       subResult = 256 /\ rem = total - moved - 256
  /\ asked /\ total - moved <= 256 => subResult = total - moved

IInv == TypeOK /\ Progress

-----------------------------------------------------------------------------
(* The threshold: c bursts are behind us exactly when at most one burst is
   left, for every total of 15 bits.                                         *)
LEMMA MaxWordsInt == MaxWords \in Int
  BY SMT DEF MaxWords

LEMMA SmallMod == \A k \in 0..127 : k % 256 = k
  BY SMT

LEMMA ThresholdArithmetic ==
  ASSUME NEW n \in 1..MaxWords, NEW c \in 0..127, 256 * c < n
  PROVE  /\ Threshold(n) \in 0..127
         /\ c <= Threshold(n)
         /\ (c = Threshold(n)) <=> (n - 256 * c <= 256)
<1> DEFINE q == n \div 256
<1> DEFINE r == n % 256
<1>1. q \in 0..127 /\ r \in 0..255 /\ n = 256 * q + r
  BY SMT DEF MaxWords
<1>2. CASE r # 0
  <2>1. Threshold(n) = q % 256
    BY <1>2, SMT DEF Threshold, MaxBurst, MaxWords
  <2> HIDE DEF q, r
  <2>2. q % 256 = q
    BY <1>1, SmallMod
  <2> QED BY <1>1, <1>2, <2>1, <2>2, SMT
<1>3. CASE r = 0
  <2>1. Threshold(n) = (q - 1) % 256
    BY <1>3, SMT DEF Threshold, MaxBurst, MaxWords
  <2> HIDE DEF q, r
  <2>2. q >= 1
    BY <1>1, <1>3, SMT DEF MaxWords
  <2>3. q - 1 \in 0..127
    BY <1>1, <2>2, SMT
  <2>4. (q - 1) % 256 = q - 1
    BY <2>3, SmallMod
  <2> QED BY <1>1, <1>3, <2>1, <2>2, <2>4, SMT
<1> QED BY <1>2, <1>3

-----------------------------------------------------------------------------
(* Zeros of the counters. *)
LEMMA Zeros ==
  /\ 0 \in 0..MaxWords /\ 0 \in 0..MaxBurst /\ 0 \in 0..127 /\ 0 \in 0..Limit
  /\ MaxBurst * 0 = 0
  BY LimitAssumption, SMT DEF MaxWords, MaxBurst

LEMMA InitIInv == Init => IInv
<1> SUFFICES ASSUME Init PROVE IInv
  OBVIOUS
<1>1. addr \in [Streams -> 0..Limit]
  BY Zeros DEF Init
<1>2. TypeOK
  BY <1>1, Zeros, Zenon DEF Init, TypeOK
<1>3. Progress
  BY Zenon DEF Init, Progress
<1> QED BY <1>2, <1>3 DEF IInv

(* The types of everything that enters the arithmetic of one operation. *)
LEMMA Types ==
  ASSUME IInv, op # "none"
  PROVE  /\ op \in Streams
         /\ total \in Int /\ moved \in Int /\ rem \in Int /\ subResult \in Int
         /\ finishCnt \in 0..127 /\ addr[op] \in 0..Limit
         /\ total \in 1..MaxWords /\ 0 <= moved /\ moved < total
         /\ moved = MaxBurst * finishCnt
         /\ addr[op] + (total - moved) <= Limit
<1>1. /\ op \in Streams /\ addr \in [Streams -> 0..Limit]
      /\ moved \in 0..MaxWords /\ rem \in 0..MaxWords /\ subResult \in 0..MaxBurst
      /\ finishCnt \in 0..127
  BY Zenon DEF IInv, TypeOK
<1>2. /\ total \in 1..MaxWords /\ moved = MaxBurst * finishCnt /\ moved < total
      /\ addr[op] + (total - moved) <= Limit
  BY Zenon DEF IInv, Progress
<1>3. addr[op] \in 0..Limit
  BY <1>1
<1>4. total \in Int
  BY <1>2, SMT DEF MaxWords
<1>5. moved \in Int /\ 0 <= moved /\ rem \in Int /\ subResult \in Int
  BY <1>1, SMT DEF MaxWords, MaxBurst
<1> QED BY <1>1, <1>2, <1>3, <1>4, <1>5, Zenon

(* The arithmetic of the burst in hand. *)
LEMMA FinishFacts ==
  ASSUME IInv, asked
  PROVE  /\ op \in Streams /\ op # "none"
         /\ subResult \in 1..256 /\ subResult <= total - moved
         /\ Len(subResult) + 1 = subResult
         /\ moved + Len(subResult) + 1 = moved + subResult
         /\ moved + subResult \in 0..MaxWords
         /\ addr[op] + subResult \in 0..Limit
         /\ (finishCnt = Threshold(total)) <=> (subResult = total - moved)
         /\ finishCnt # Threshold(total) =>
              /\ finishCnt + 1 \in 0..127
              /\ (finishCnt + 1) % 256 = finishCnt + 1
              /\ moved + subResult = MaxBurst * (finishCnt + 1)
              /\ rem = total - (moved + subResult)
              /\ moved + subResult < total
              /\ (addr[op] + subResult) + (total - (moved + subResult)) <= Limit
<1>0. op # "none"
  BY Zenon DEF IInv, Progress
<1>1. /\ op \in Streams
      /\ total \in Int /\ moved \in Int /\ rem \in Int /\ subResult \in Int
      /\ finishCnt \in 0..127 /\ addr[op] \in 0..Limit
      /\ total \in 1..MaxWords /\ 0 <= moved /\ moved < total
      /\ moved = MaxBurst * finishCnt
      /\ addr[op] + (total - moved) <= Limit
  BY <1>0, Types, Zenon
<1> DEFINE a == addr[op]
<1>2. a \in Int /\ 0 <= a /\ a + (total - moved) <= Limit /\ Limit \in Int
  BY <1>1, LimitAssumption, SMT
<1> HIDE DEF a
<1>3. /\ total - moved > 256 => subResult = 256 /\ rem = total - moved - 256
      /\ total - moved <= 256 => subResult = total - moved
  BY Zenon DEF IInv, Progress
<1>4. subResult \in 1..256 /\ subResult <= total - moved
  BY <1>1, <1>3, SMT
<1>5. Len(subResult) = subResult - 1
  <2>1. (subResult - 1) % 256 = subResult - 1
    BY <1>4, SMT
  <2> QED BY <2>1 DEF Len
<1>6. Len(subResult) + 1 = subResult /\ moved + Len(subResult) + 1 = moved + subResult
  BY <1>1, <1>5, SMT
<1>7. moved + subResult \in 0..MaxWords
  BY <1>1, <1>4, MaxWordsInt, SMT
<1>8. a + subResult \in 0..Limit
  BY <1>1, <1>2, <1>4, SMT
<1>9. 256 * finishCnt = moved /\ 256 * finishCnt < total
  BY <1>1, SMT DEF MaxBurst
<1>10. /\ Threshold(total) \in 0..127 /\ finishCnt <= Threshold(total)
       /\ (finishCnt = Threshold(total)) <=> (total - 256 * finishCnt <= 256)
  BY <1>1, <1>9, ThresholdArithmetic
<1>11. (finishCnt = Threshold(total)) <=> (total - moved <= 256)
  BY <1>9, <1>10
<1>12. (total - moved <= 256) <=> (subResult = total - moved)
  BY <1>1, <1>3, SMT
<1>13. ASSUME finishCnt # Threshold(total)
      PROVE  /\ finishCnt + 1 \in 0..127 /\ (finishCnt + 1) % 256 = finishCnt + 1
             /\ moved + subResult = MaxBurst * (finishCnt + 1)
             /\ rem = total - (moved + subResult)
             /\ moved + subResult < total
             /\ (a + subResult) + (total - (moved + subResult)) <= Limit
  <2> DEFINE t == Threshold(total)
  <2>1. t \in 0..127 /\ finishCnt <= t /\ finishCnt # t
    BY <1>10, <1>13
  <2> HIDE DEF t
  <2>2. finishCnt + 1 \in 0..127
    BY <1>1, <2>1, SMT
  <2>3. (finishCnt + 1) % 256 = finishCnt + 1
    BY <2>2, SMT
  <2>4. ~(total - moved <= 256)
    BY <1>11, <1>13, Zenon
  <2>5. total - moved > 256
    BY <1>1, <2>4, SMT
  <2>6. subResult = 256 /\ rem = total - moved - 256
    BY <1>3, <2>5, Zenon
  <2>7. /\ moved + subResult = MaxBurst * (finishCnt + 1)
        /\ rem = total - (moved + subResult)
        /\ moved + subResult < total
        /\ (a + subResult) + (total - (moved + subResult)) <= Limit
    BY <1>1, <1>2, <2>5, <2>6, SMT DEF MaxBurst
  <2> QED BY <2>2, <2>3, <2>7, Zenon
<1> QED BY <1>0, <1>1, <1>4, <1>6, <1>7, <1>8, <1>11, <1>12, <1>13, Zenon DEF a

LEMMA NextIInv == IInv /\ [Next]_vars => IInv'
<1> SUFFICES ASSUME IInv, [Next]_vars PROVE IInv'
  OBVIOUS
<1>0. TypeOK /\ Progress
  BY DEF IInv
<1>1. ASSUME NEW s \in Streams, NEW n \in Totals, Enter(s, n) PROVE IInv'
  <2>1. n \in 1..MaxWords /\ s # "none"
    BY TotalsAssumption, StreamsAssumption, Zenon
  <2>2. n \in 0..MaxWords /\ n \in Int /\ 0 < n /\ n - 0 = n
    BY <2>1, MaxWordsInt, SMT
  <2>3. TypeOK'
    BY <1>0, <1>1, <2>2, Zeros, Zenon DEF Enter, TypeOK
  <2>4. ~asked /\ finishCnt = 0
    BY <1>0, <1>1, Zenon DEF Enter, Progress
  <2>5. Progress'
    BY <1>1, <2>1, <2>2, <2>4, Zeros, Zenon DEF Enter, Progress
  <2> QED BY <2>3, <2>5 DEF IInv
<1>2. CASE Ask
  <2>0. op # "none" /\ ~asked
    BY <1>2 DEF Ask
  <2>1. /\ total \in Int /\ moved \in Int /\ rem \in Int
        /\ total \in 1..MaxWords /\ 0 <= moved /\ moved < total
    BY <2>0, Types, Zenon
  <2>2. rem = total - moved
    BY <1>0, <2>0, Zenon DEF Progress
  <2>3. /\ Cut(rem) \in 0..MaxBurst /\ Rest(rem) \in 0..MaxWords
        /\ total - moved > 256 => Cut(rem) = 256 /\ Rest(rem) = total - moved - 256
        /\ total - moved <= 256 => Cut(rem) = total - moved
    BY <2>1, <2>2, MaxWordsInt, SMT DEF Cut, Rest, MaxBurst
  <2>4. TypeOK'
    BY <1>0, <1>2, <2>3, Zenon DEF Ask, TypeOK
  <2>5. Progress'
    BY <1>0, <1>2, <2>3, Zenon DEF Ask, Progress
  <2> QED BY <2>4, <2>5 DEF IInv
<1>3. CASE Finish
  <2>0. asked
    BY <1>3 DEF Finish
  <2>1. /\ op \in Streams /\ op # "none"
        /\ moved + Len(subResult) + 1 = moved + subResult
        /\ moved + subResult \in 0..MaxWords
        /\ addr[op] + subResult \in 0..Limit
        /\ subResult <= total - moved /\ subResult \in 1..256
        /\ (finishCnt = Threshold(total)) <=> (subResult = total - moved)
    BY <2>0, FinishFacts, Zenon
  <2>2. /\ moved' = moved + subResult /\ ~asked' /\ asked' \in BOOLEAN
        /\ total' = total /\ rem' = rem /\ subResult' = subResult
    BY <1>3, <2>1, Zenon DEF Finish
  <2>3. addr' = [addr EXCEPT ![op] = addr[op] + subResult]
    BY <1>3 DEF Finish
  <2>4. addr \in [Streams -> 0..Limit]
    BY <1>0 DEF TypeOK
  <2>5. addr' \in [Streams -> 0..Limit] /\ addr'[op] = addr[op] + subResult
    BY <2>1, <2>3, <2>4, Zenon
  <2>6. CASE finishCnt = Threshold(total)
    <3>1. finishCnt' = 0 /\ op' = "none"
      BY <1>3, <2>6, Zenon DEF Finish
    <3>2. total \in Int /\ moved \in Int /\ subResult \in Int
      BY <2>1, Types, Zenon
    <3>3. moved + subResult = total
      BY <2>1, <2>6, <3>2, SMT
    <3>4. TypeOK'
      BY <1>0, <2>1, <2>2, <2>5, <3>1, Zeros, Zenon DEF TypeOK
    <3>5. Progress'
      BY <2>2, <3>1, <3>3, Zenon DEF Progress
    <3> QED BY <3>4, <3>5 DEF IInv
  <2>7. CASE finishCnt # Threshold(total)
    <3>1. /\ finishCnt + 1 \in 0..127
          /\ (finishCnt + 1) % 256 = finishCnt + 1
          /\ moved + subResult = MaxBurst * (finishCnt + 1)
          /\ rem = total - (moved + subResult)
          /\ moved + subResult < total
          /\ (addr[op] + subResult) + (total - (moved + subResult)) <= Limit
      BY <2>0, <2>7, FinishFacts, Zenon
    <3>2. finishCnt' = finishCnt + 1 /\ op' = op
      BY <1>3, <2>7, <3>1, Zenon DEF Finish
    <3>3. total \in 1..MaxWords
      BY <1>0, <2>1, Zenon DEF Progress
    <3>4. TypeOK'
      BY <1>0, <2>1, <2>2, <2>5, <3>1, <3>2, Zenon DEF TypeOK
    <3>5. Progress'
      BY <2>1, <2>2, <2>5, <3>1, <3>2, <3>3, Zenon DEF Progress
    <3> QED BY <3>4, <3>5 DEF IInv
  <2> QED BY <2>6, <2>7
<1>4. ASSUME NEW s \in Streams, Rewind(s) PROVE IInv'
  <2>1. addr' = [addr EXCEPT ![s] = 0] /\ addr \in [Streams -> 0..Limit]
    BY <1>0, <1>4, Zenon DEF Rewind, TypeOK
  <2>2. addr' \in [Streams -> 0..Limit]
    BY <2>1, Zeros, Zenon
  <2>3. TypeOK'
    BY <1>0, <1>4, <2>2, Zenon DEF Rewind, TypeOK
  <2>4. Progress'
    BY <1>0, <1>4, Zenon DEF Rewind, Progress
  <2> QED BY <2>3, <2>4 DEF IInv
<1>5. CASE UNCHANGED vars
  <2>1. TypeOK'
    BY <1>0, <1>5, Zenon DEF vars, TypeOK
  <2>2. Progress'
    BY <1>0, <1>5, Zenon DEF vars, Progress
  <2> QED BY <2>1, <2>2 DEF IInv
<1> QED BY <1>1, <1>2, <1>3, <1>4, <1>5 DEF Next

(* Bursts finished and words moved agree in every reachable state. *)
THEOREM Invariant == Spec => []IInv
<1> QED BY InitIInv, NextIInv, PTL DEF Spec

(* Type correctness: the burst counter stays below 128, the length field and
   the 15-bit word count never wrap, no stream leaves its area.              *)
THEOREM TypeCorrect == Spec => []TypeOK
<1>1. IInv => TypeOK
  BY DEF IInv
<1> QED BY <1>1, Invariant, PTL

(* Counting finished bursts against the threshold ends an operation exactly
   when all its words have been moved, whatever their number.                *)
THEOREM MovesExactlyTotal == Spec => []ExactlyTotal
<1>1. IInv => ExactlyTotal
  BY DEF IInv, Progress, ExactlyTotal
<1> QED BY <1>1, Invariant, PTL

(* No burst of information_read_write.v is empty or exceeds its operation. *)
THEOREM BurstsInside == Spec => []BurstInside
<1>1. IInv => BurstInside
  <2> SUFFICES ASSUME IInv, asked
               PROVE /\ Len(subResult) + 1 = subResult
                     /\ subResult \in 1..MaxBurst
                     /\ moved + subResult <= total
    BY DEF BurstInside
  <2>1. /\ subResult \in 1..256 /\ subResult <= total - moved
        /\ Len(subResult) + 1 = subResult
    BY FinishFacts
  <2>2. op # "none"
    BY FinishFacts
  <2>3. total \in Int /\ moved \in Int
    BY <2>2, Types
  <2> QED BY <2>1, <2>3, SMT DEF MaxBurst
<1> QED BY <1>1, Invariant, PTL

-----------------------------------------------------------------------------
LEMMA StepSimulation ==
  ASSUME IInv, [Next]_vars
  PROVE  [Service!Next]_Service!vars
<1> DEFINE left == IF op = "none" THEN 0 ELSE total - moved
<1>1. ASSUME NEW s \in Streams, NEW n \in Totals, Enter(s, n) PROVE Service!Next
  <2>1. n \in 1..MaxWords /\ s # "none"
    BY TotalsAssumption, StreamsAssumption
  <2>2. left' = n
    BY <1>1, <2>1 DEF Enter
  <2>3. Service!Start(s, n)
    BY <1>1, <2>2 DEF Enter, Service!Start
  <2> QED BY <2>3 DEF Service!Next
<1>2. ASSUME Finish PROVE Service!Next
  <2>0. asked
    BY <1>2 DEF Finish
  <2>1. /\ op # "none" /\ subResult \in 1..256 /\ subResult <= total - moved
        /\ Len(subResult) + 1 = subResult
        /\ (finishCnt = Threshold(total)) <=> (subResult = total - moved)
    BY <2>0, FinishFacts DEF MaxBurst
  <2>2. left = total - moved /\ total \in Int /\ moved \in Int
    BY <2>1 DEF IInv, TypeOK
  <2>3. subResult \in 1..left
    BY <2>1, <2>2
  <2>4. moved' = moved + subResult /\ total' = total
    <3>1. moved' = moved + Len(subResult) + 1 /\ total' = total
      BY <1>2 DEF Finish
    <3>2. Len(subResult) \in Int
      BY <2>1 DEF Len
    <3> QED BY <2>1, <2>2, <3>1, <3>2
  <2>5. op' = IF subResult = left THEN "none" ELSE op
    BY <1>2, <2>1, <2>2 DEF Finish
  <2>6. left' = left - subResult
    <3>1. CASE subResult = left
      BY <2>1, <2>2, <2>5, <3>1
    <3>2. CASE subResult # left
      <4>1. left' = total' - moved'
        BY <2>1, <2>5, <3>2
      <4> QED BY <2>1, <2>2, <2>4, <4>1
    <3> QED BY <3>1, <3>2
  <2>7. addr' = [addr EXCEPT ![op] = @ + subResult]
    BY <1>2 DEF Finish
  <2>8. Service!Move(subResult)
    BY <2>1, <2>3, <2>5, <2>6, <2>7 DEF Service!Move
  <2> QED BY <2>1, <2>8 DEF Service!Next
<1>3. ASSUME NEW s \in Streams, Rewind(s) PROVE Service!Next
  <2>1. left' = left
    BY <1>3 DEF Rewind
  <2>2. Service!Rewind(s)
    BY <1>3, <2>1 DEF Rewind, Service!Rewind
  <2> QED BY <2>2 DEF Service!Next
<1>4. ASSUME Ask \/ UNCHANGED vars PROVE UNCHANGED Service!vars
  BY <1>4 DEF Ask, vars, Service!vars
<1> QED BY <1>1, <1>2, <1>3, <1>4 DEF Next

(* The burst loop moves exactly the words of every operation, in order:
   it implements WordService.                                                *)
THEOREM ImplementsService == Spec => ServiceSpec
<1>1. Init => Service!Init
  BY DEF Init, Service!Init
<1>2. IInv /\ [Next]_vars => [Service!Next]_Service!vars
  BY StepSimulation
<1> QED BY <1>1, <1>2, Invariant, PTL DEF Spec, ServiceSpec, Service!Spec
=============================================================================
