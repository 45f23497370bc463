------------------------------- MODULE Firmware -------------------------------
(* The program of the PS (posture_rec_system.sdk/src): main() sets up the GPIO
   and the interrupt, fills the buffers in DDR from the SD card, pulses the
   start line and polls a flag; the handler of the PL's interrupt, which
   preempts it, raises the flag and saves two maps.  Hardly a return value is
   looked at, so the model keeps all the ways on.                            *)
EXTENDS Naturals

CONSTANTS
  DeviceIds,    \* ids in XScuGic_ConfigTable of the board support package
  BufferWords,  \* HEAD_SIZE, KERNEL_SIZE, IMAGE_SIZE
  FileWords     \* what the size of a file on the card, or garbage, may be

Files == 1..3          \* HEAD_FILE, KERNEL_FILE, IMAGE_FILE, as fillDDR reads them

ASSUME FirmwareAssumption ==
  /\ DeviceIds \subseteq Nat /\ FileWords \subseteq Nat
  /\ BufferWords \in [Files -> Nat]

XST_FAILURE == "XST_FAILURE"
XST_SUCCESS == "XST_SUCCESS"
IntrId == 121          \* XPAR_FABRIC_DEAL_FINISH_INT_INTR
CardVolume == 1        \* "1:", the volume that is mounted and read;
                       \* the maps are opened on "0:", which nothing mounts

VARIABLES
  main,               \* where main() is
  file, bufferSize,   \* fillDDR: the file in hand and what is to be read of it
  handler,            \* where SaveLastImgHandler is, "none" when not called
  fnum, oneImage_finished,
  setup,              \* what PLSetupInterruptsystem returned
  line,               \* image_inter_start
  mounted,            \* volumes f_mount has given a work area
  length,             \* file -> words it has on the card
  filled,             \* file -> words read into its buffer
  pl,                 \* the accelerator: "idle", "busy", "finished"
  pending,            \* its interrupt waits to be taken
  attempts            \* history: the maps sdcard_write was called for

flags == <<handler, fnum, oneImage_finished>>
card == <<mounted, length, filled, attempts>>
outside == <<pl, pending>>
vars == <<main, file, bufferSize, flags, setup, line, card, outside>>

Init ==
  /\ main = "gpio_init" /\ file = 1 /\ bufferSize = 0 /\ handler = "none"
  /\ fnum = 0 /\ oneImage_finished = 0 /\ setup = XST_FAILURE /\ line = 0
  /\ mounted = {} /\ length \in [Files -> FileWords]
  /\ filled = [f \in Files |-> 0] /\ attempts = {}
  /\ pl = "idle" /\ pending = FALSE

-----------------------------------------------------------------------------
(* main() runs only while no interrupt is being handled. *)
At(pc) == main = pc /\ handler = "none"

(* XScuGic_LookupConfig: whether the table has a device of this id. *)
LookupConfig(id) == id \in DeviceIds

(* gpio_init.  What it returns, and what the setup of the interrupt returns,
   nobody looks at.                                                          *)
GpioInit ==
  /\ At("gpio_init") /\ main' = "sdcard_init"
  /\ fnum' = 0
  /\ \/ UNCHANGED <<setup, line>>                      \* XGpio_Initialize fails
     \/ /\ line' = 0
        /\ setup' = IF LookupConfig(IntrId) THEN XST_SUCCESS ELSE XST_FAILURE
  /\ UNCHANGED <<file, bufferSize, handler, oneImage_finished, card, outside>>

(* sdcard_init: f_mount of the card's volume, which succeeds or not. *)
SdcardInit ==
  /\ At("sdcard_init") /\ main' = "get_fileSize"
  /\ mounted' \in {{}, {CardVolume}}
  /\ UNCHANGED <<file, bufferSize, flags, setup, line, length, filled, attempts,
                 outside>>

\* Mutant: the buffer's size is not looked at.
ClipMutant(fsize, f) == fsize

Clip(fsize, f) == IF fsize < BufferWords[f] THEN fsize ELSE BufferWords[f]

(* get_fileSize: when f_open fails, file_size looks into a FIL nobody has
   written, and the size is anything.                                        *)
GetFileSize ==
  /\ At("get_fileSize") /\ main' = "sdcard_read"
  /\ \/ \E garbage \in FileWords : bufferSize' = Clip(garbage, file)
     \/ CardVolume \in mounted /\ bufferSize' = Clip(length[file], file)
  /\ UNCHANGED <<file, flags, setup, line, card, outside>>

(* sdcard_read: nothing if f_open fails, else as much as there is. *)
SdcardRead ==
  /\ At("sdcard_read")
  /\ \/ UNCHANGED filled
     \/ /\ CardVolume \in mounted
        /\ filled' = [filled EXCEPT ![file] =
                         IF bufferSize < length[file] THEN bufferSize ELSE length[file]]
  /\ IF file + 1 \in Files THEN main' = "get_fileSize" /\ file' = file + 1
                           ELSE main' = "clear" /\ file' = file
  /\ UNCHANGED <<bufferSize, flags, setup, line, mounted, length, attempts,
                 outside>>

\* Mutant: the flag is cleared once the accelerator has been started.
StartMutant ==
  /\ \/ At("clear") /\ main' = "raise" /\ line' = 1 /\ UNCHANGED oneImage_finished
     \/ At("raise") /\ main' = "drop" /\ line' = 0 /\ UNCHANGED oneImage_finished
     \/ At("drop") /\ main' = "loop" /\ oneImage_finished' = 0 /\ UNCHANGED line
  /\ UNCHANGED <<file, bufferSize, handler, fnum, setup, card, outside>>

(* main(): the flag is cleared, then the start line goes up and down. *)
Start ==
  /\ \/ At("clear") /\ main' = "raise" /\ oneImage_finished' = 0 /\ UNCHANGED line
     \/ At("raise") /\ main' = "drop" /\ line' = 1 /\ UNCHANGED oneImage_finished
     \/ At("drop") /\ main' = "loop" /\ line' = 0 /\ UNCHANGED oneImage_finished
  /\ UNCHANGED <<file, bufferSize, handler, fnum, setup, card, outside>>

(* The turn of the loop that ends it; saveFmapIntr_flag is never set. *)
Leave ==
  /\ At("loop") /\ oneImage_finished # 0
  /\ main' = "return"
  /\ UNCHANGED <<file, bufferSize, flags, setup, line, card, outside>>

-----------------------------------------------------------------------------
(* The interrupt is taken between two statements of main.  The driver finds
   its instance through the address of a local variable of gpio_init, which
   has returned: it calls the handler, or the memory has been used again and
   the processor faults.                                                     *)
TakeInterrupt ==
  /\ pending /\ setup = XST_SUCCESS /\ handler = "none"
  /\ main \notin {"return", "fault"}
  /\ pending' = FALSE
  /\ \/ handler' = "flag" /\ UNCHANGED main
     \/ main' = "fault" /\ UNCHANGED handler
  /\ UNCHANGED <<file, bufferSize, fnum, oneImage_finished, setup, line, card, pl>>

(* SaveLastImgHandler up to its first save_fmap_in_sd. *)
HandlerFlag ==
  /\ handler = "flag" /\ handler' = "save"
  /\ oneImage_finished' = 1 /\ fnum' = 0
  /\ UNCHANGED <<main, file, bufferSize, setup, line, card, outside>>

\* Mutant: the banks are the other way round.
MapBankMutant(n) == IF n % 2 = 0 THEN 1 ELSE 2

(* image2_info for the maps of even number, image1_info for the others. *)
MapBank(n) == IF n % 2 = 0 THEN 2 ELSE 1

(* save_fmap_in_sd for map 0, then for map 1; what becomes of the file nobody
   asks.                                                                     *)
HandlerSave ==
  /\ handler = "save"
  /\ attempts' = attempts \cup {[map |-> fnum, bank |-> MapBank(fnum)]}
  /\ IF fnum = 0 THEN fnum' = 1 /\ UNCHANGED handler
                 ELSE fnum' = fnum /\ handler' = "none"
  /\ UNCHANGED <<main, file, bufferSize, oneImage_finished, setup, line, mounted,
                 length, filled, outside>>

(* The accelerator starts when it sees the line up, and ends an image with an
   edge on its interrupt, which the controller keeps until it is taken.      *)
Accelerator ==
  /\ \/ pl = "idle" /\ line = 1 /\ pl' = "busy" /\ UNCHANGED pending
     \/ pl = "busy" /\ pl' = "finished" /\ pending' = TRUE
  /\ UNCHANGED <<main, file, bufferSize, flags, setup, line, card>>

Main == GpioInit \/ SdcardInit \/ GetFileSize \/ SdcardRead \/ Start \/ Leave
Handler == TakeInterrupt \/ HandlerFlag \/ HandlerSave
Next == Main \/ Handler \/ Accelerator

Spec == Init /\ [][Next]_vars

(* The processor runs, and an image that was begun ends. *)
FairSpec ==
  /\ Spec /\ WF_vars(Main) /\ WF_vars(Handler) /\ WF_vars(Accelerator)

-----------------------------------------------------------------------------
TypeOK ==
  /\ main \in {"gpio_init", "sdcard_init", "get_fileSize", "sdcard_read",
              "clear", "raise", "drop", "loop", "return", "fault"}
  /\ file \in Files /\ bufferSize \in Nat
  /\ handler \in {"none", "flag", "save"} /\ fnum \in 0..1
  /\ oneImage_finished \in 0..1 /\ setup \in {XST_FAILURE, XST_SUCCESS}
  /\ line \in 0..1 /\ mounted \subseteq {CardVolume}
  /\ length \in [Files -> FileWords] /\ filled \in [Files -> Nat]
  /\ attempts \subseteq [map : 0..1, bank : 1..2]
  /\ pl \in {"idle", "busy", "finished"} /\ pending \in BOOLEAN

(* No read goes past its buffer into the one the linker put behind it, though
   the size asked for may come out of a FIL that was never written
   (data_store.c, fillDDR; sdcard.c, get_fileSize).                          *)
ReadsInside == \A f \in Files : filled[f] <= BufferWords[f]

(* Whatever moment of main() the interrupt hits, its flag survives, and main
   does not return before map 0 and map 1 have been handed to the card's
   driver, each from the bank its layer was written to: layer l, which is map
   l - 1, goes to bank 1 + (l % 2) (BankOfLayer of RoundLoop).               *)
FinishKept ==
  /\ pl = "finished" /\ ~pending /\ handler # "flag" /\ main # "fault" =>
       oneImage_finished = 1
  /\ main = "return" =>
       attempts = {[map |-> l - 1, bank |-> 1 + (l % 2)] : l \in 1..2}

(* The handler's own message, "one image have been finished!", after which
   main() leaves its loop: an image that ends makes the program end.         *)
ProgramEnds == (pl = "finished") ~> (main = "return")
=============================================================================
