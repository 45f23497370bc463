---------------------------- MODULE FirmwareProofs ----------------------------
(* Proofs about Firmware, for buffers and files of any size and any table of
   devices.  The end of an image goes through phases that the statements of
   main() cannot disturb: before it, the flag is down and no map handed over;
   from the handler on, the flag is up and the maps are handed over one by one,
   with the handler between main() and its next look at the flag.            *)
EXTENDS Firmware, TLAPS

(* The accelerator was started by the line, which only `raise` puts up. *)
Started ==
  /\ line = 1 => main \in {"drop", "fault"}
  /\ pl # "idle" => main \in {"drop", "loop", "return", "fault"}

(* What is to be read fits the buffer it will be read into. *)
Fits == main = "sdcard_read" => bufferSize <= BufferWords[file]

First == [map |-> 0, bank |-> 2]
Second == [map |-> 1, bank |-> 1]

Before == handler = "none" /\ oneImage_finished = 0 /\ attempts = {}
Running == pl # "finished" /\ ~pending /\ Before
Waiting == pl = "finished" /\ pending /\ Before
Flagged == pl = "finished" /\ ~pending /\ handler = "flag" /\ oneImage_finished = 0 /\ attempts = {}
Saving == /\ pl = "finished" /\ ~pending /\ handler = "save" /\ oneImage_finished = 1
          /\ attempts = IF fnum = 0 THEN {} ELSE {First}
Saved == /\ pl = "finished" /\ ~pending /\ handler = "none" /\ oneImage_finished = 1
         /\ attempts = {First, Second}

Phases ==
  \/ main = "fault"
  \/ /\ Running \/ Waiting \/ Flagged \/ Saving \/ Saved
     /\ main = "return" => Saved

IInv == TypeOK /\ ReadsInside /\ Started /\ Fits /\ Phases

-----------------------------------------------------------------------------
(* fillDDR's comparison bounds what it asks for (data_store.c:30). *)
LEMMA ClipBounds ==
  ASSUME NEW n \in Nat, NEW f \in Files
  PROVE  Clip(n, f) \in Nat /\ Clip(n, f) <= BufferWords[f]
<1>1. BufferWords[f] \in Nat
  BY FirmwareAssumption
<1> QED BY <1>1, SMT DEF Clip

(* The banks of the two maps (data_store.c:76). *)
LEMMA Banks == MapBank(0) = 2 /\ MapBank(1) = 1
  BY SMT DEF MapBank

LEMMA InitIInv == Init => IInv
<1> SUFFICES ASSUME Init PROVE IInv
  OBVIOUS
<1>1. TypeOK
  <2>1. filled \in [Files -> Nat] /\ length \in [Files -> FileWords]
    BY DEF Init
  <2>2. file \in Files /\ bufferSize \in Nat /\ fnum \in 0..1 /\ oneImage_finished \in 0..1 /\ line \in 0..1
    BY SMT DEF Init, Files
  <2> QED BY <2>1, <2>2 DEF Init, TypeOK
<1>4. Started /\ Fits /\ Phases
  BY DEF Init, Started, Fits, Phases, Running, Before
<1>2. \A f \in Files : filled[f] = 0 /\ BufferWords[f] \in Nat
  BY FirmwareAssumption DEF Init
<1>3. ReadsInside
  BY <1>2, SMT DEF ReadsInside
<1> QED BY <1>4, <1>1, <1>3 DEF IInv

-----------------------------------------------------------------------------
(* The statements of main that fill the buffers. *)
LEMMA FillIInv == IInv /\ (GetFileSize \/ SdcardRead) => IInv'
<1>1. CASE IInv /\ GetFileSize
  <2> USE <1>1
  <2>1. \E n \in Nat : bufferSize' = Clip(n, file)
    BY FirmwareAssumption DEF GetFileSize, IInv, TypeOK
  <2>2. bufferSize' \in Nat /\ bufferSize' <= BufferWords[file]
    BY <2>1, ClipBounds DEF IInv, TypeOK
  <2>3. main = "get_fileSize" /\ handler = "none" /\ main' = "sdcard_read"
        /\ UNCHANGED <<file, flags, setup, line, card, outside>>
    BY DEF GetFileSize, At
  <2> QED BY <2>2, <2>3 DEF IInv, TypeOK, ReadsInside, Started, Fits, Phases, Running, Waiting,
             Flagged, Saving, Saved, Before, flags, card, outside
<1>2. CASE IInv /\ SdcardRead
  <2> USE <1>2
  <2>1. /\ main = "sdcard_read" /\ handler = "none" /\ main' \in {"get_fileSize", "clear"}
        /\ file' \in Files
        /\ UNCHANGED <<bufferSize, flags, setup, line, mounted, length, attempts, outside>>
    BY DEF SdcardRead, At, IInv, TypeOK
  <2>2. filled' \in [Files -> Nat] /\ ReadsInside'
    <3>1. CASE UNCHANGED filled
      BY <3>1 DEF IInv, TypeOK, ReadsInside
    <3>2. CASE filled' = [filled EXCEPT ![file] =
                            IF bufferSize < length[file] THEN bufferSize ELSE length[file]]
      <4> DEFINE n == IF bufferSize < length[file] THEN bufferSize ELSE length[file]
      <4>1. bufferSize \in Nat /\ length[file] \in Nat /\ file \in Files
            /\ BufferWords[file] \in Nat /\ bufferSize <= BufferWords[file]
        BY <2>1, FirmwareAssumption DEF IInv, TypeOK, Fits
      <4>2. n \in Nat /\ n <= BufferWords[file]
        BY <4>1, SMT
      <4>3. filled' = [filled EXCEPT ![file] = n]
        BY <3>2
      <4> HIDE DEF n
      <4> QED BY <4>1, <4>2, <4>3 DEF IInv, TypeOK, ReadsInside
    <3> QED BY <3>1, <3>2 DEF SdcardRead
  <2> QED BY <2>1, <2>2 DEF IInv, TypeOK, Started, Fits, Phases, Running, Waiting,
             Flagged, Saving, Saved, Before, flags, outside
<1> QED BY <1>1, <1>2

(* The statements of main before and after. *)
LEMMA MainIInv == IInv /\ (GpioInit \/ SdcardInit \/ Start \/ Leave) => IInv'
<1> SUFFICES ASSUME IInv, GpioInit \/ SdcardInit \/ Start \/ Leave PROVE IInv'
  OBVIOUS
<1>1. CASE GpioInit
  <2>1. /\ main = "gpio_init" /\ handler = "none" /\ main' = "sdcard_init" /\ fnum' = 0
        /\ (setup' = setup /\ line' = line) \/ (line' = 0 /\ setup' \in {XST_FAILURE, XST_SUCCESS})
        /\ UNCHANGED <<file, bufferSize, handler, oneImage_finished, card, outside>>
    BY <1>1 DEF GpioInit, At
  <2>2. pl = "idle" /\ line' = 0
    BY <2>1 DEF IInv, Started, TypeOK
  <2> QED BY <2>1, <2>2 DEF IInv, TypeOK, ReadsInside, Started, Fits, Phases, Running, Waiting,
             Flagged, Saving, Saved, Before, card, outside
<1>2. CASE SdcardInit
  BY <1>2 DEF SdcardInit, At, IInv, TypeOK, ReadsInside, Started, Fits, Phases, Running, Waiting,
             Flagged, Saving, Saved, Before, flags, outside
<1>3. CASE Start
  BY <1>3 DEF Start, At, IInv, TypeOK, ReadsInside, Started, Fits, Phases, Running, Waiting,
             Flagged, Saving, Saved, Before, card, outside
<1>4. CASE Leave
  BY <1>4 DEF Leave, At, IInv, TypeOK, ReadsInside, Started, Fits, Phases, Running, Waiting,
             Flagged, Saving, Saved, Before, flags, card, outside
<1> QED BY <1>1, <1>2, <1>3, <1>4

(* The handler and the accelerator. *)
LEMMA HandlerIInv == IInv /\ (Handler \/ Accelerator) => IInv'
<1> SUFFICES ASSUME IInv, Handler \/ Accelerator PROVE IInv'
  OBVIOUS
<1>1. CASE TakeInterrupt
  BY <1>1 DEF TakeInterrupt, IInv, TypeOK, ReadsInside, Started, Fits, Phases, Running, Waiting,
             Flagged, Saving, Saved, Before, card
<1>2. CASE HandlerFlag
  BY <1>2 DEF HandlerFlag, IInv, TypeOK, ReadsInside, Started, Fits, Phases, Running, Waiting,
             Flagged, Saving, Saved, Before, card, outside
<1>3. CASE HandlerSave
  <2>1. /\ handler = "save" /\ attempts' = attempts \cup {[map |-> fnum, bank |-> MapBank(fnum)]}
        /\ UNCHANGED <<main, file, bufferSize, oneImage_finished, setup, line, mounted,
                       length, filled, outside>>
    BY <1>3 DEF HandlerSave
  <2>2. CASE fnum = 0
    <3>1. fnum' = 1 /\ handler' = handler
      BY <1>3, <2>2 DEF HandlerSave
    <3>2. attempts' = attempts \cup {First}
      BY <2>1, <2>2, Banks DEF First
    <3> QED BY <2>1, <2>2, <3>1, <3>2 DEF IInv, TypeOK, ReadsInside, Started, Fits, Phases, Running,
             Waiting, Flagged, Saving, Saved, Before, outside, First
  <2>3. CASE fnum = 1
    <3>1. fnum' = 1 /\ handler' = "none"
      BY <1>3, <2>3 DEF HandlerSave
    <3>2. attempts' = attempts \cup {Second}
      BY <2>1, <2>3, Banks DEF Second
    <3> QED BY <2>1, <2>3, <3>1, <3>2 DEF IInv, TypeOK, ReadsInside, Started, Fits, Phases, Running,
             Waiting, Flagged, Saving, Saved, Before, outside, Second
  <2> QED BY <2>2, <2>3 DEF IInv, TypeOK
<1>4. CASE Accelerator
  <2>1. UNCHANGED <<main, file, bufferSize, flags, setup, line, card>>
    BY <1>4 DEF Accelerator
  <2>2. CASE pl = "idle" /\ line = 1 /\ pl' = "busy" /\ UNCHANGED pending
    BY <2>1, <2>2 DEF IInv, TypeOK, ReadsInside, Started, Fits, Phases, Running, Waiting,
             Flagged, Saving, Saved, Before, flags, card
  <2>3. CASE pl = "busy" /\ pl' = "finished" /\ pending' = TRUE
    BY <2>1, <2>3 DEF IInv, TypeOK, ReadsInside, Started, Fits, Phases, Running, Waiting,
             Flagged, Saving, Saved, Before, flags, card
  <2> QED BY <2>2, <2>3, <1>4 DEF Accelerator
<1> QED BY <1>1, <1>2, <1>3, <1>4 DEF Handler

(* Every reachable state. *)
LEMMA Always == Spec => []IInv
<1>1. IInv /\ [Next]_vars => IInv'
  <2>1. CASE UNCHANGED vars
    BY <2>1 DEF vars, flags, card, outside, IInv, TypeOK, ReadsInside, Started, Fits, Phases,
             Running, Waiting, Flagged, Saving, Saved, Before
  <2> QED BY <2>1, FillIInv, MainIInv, HandlerIInv DEF Next, Main
<1> QED BY InitIInv, <1>1, PTL DEF Spec

-----------------------------------------------------------------------------
(* Every variable keeps to its values. *)
THEOREM TypeCorrect == Spec => []TypeOK
<1>1. IInv => TypeOK
  BY DEF IInv
<1> QED BY Always, <1>1, PTL

(* No buffer is overrun, whatever size a file, or garbage, claims to have. *)
THEOREM BuffersHold == Spec => []ReadsInside
<1>1. IInv => ReadsInside
  BY DEF IInv
<1> QED BY Always, <1>1, PTL

(* No end of an image is missed, and main returns after both maps. *)
THEOREM FinishNotLost == Spec => []FinishKept
<1>1. IInv => FinishKept
  <2>1. {[map |-> l - 1, bank |-> 1 + (l % 2)] : l \in 1..2} = {First, Second}
    <3>1. 1..2 = {1, 2} /\ 1 - 1 = 0 /\ 2 - 1 = 1 /\ 1 + (1 % 2) = 2 /\ 1 + (2 % 2) = 1
      BY SMT
    <3> QED BY <3>1 DEF First, Second
  <2> QED BY <2>1 DEF IInv, Phases, FinishKept, Running, Waiting, Flagged, Saving, Saved, Before
<1> QED BY Always, <1>1, PTL
=============================================================================
