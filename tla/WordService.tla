----------------------------- MODULE WordService -----------------------------
(* What the rest of the accelerator expects of information_read_write.v: an
   operation on a stream (image write, image read, kernel read) moves exactly
   the words it was started for, at consecutive addresses from where the
   stream stood, and is over only then.  How it is cut into bursts is open.   *)
EXTENDS Naturals

CONSTANTS Streams, Totals, Limit

VARIABLES op,      \* the stream being moved, or "none"
          addr,    \* stream -> next word
          left     \* words still to be moved

vars == <<op, addr, left>>

Init == op = "none" /\ addr = [s \in Streams |-> 0] /\ left = 0

Start(s, n) ==
  /\ op = "none"
  /\ addr[s] + n <= Limit
  /\ op' = s /\ left' = n
  /\ UNCHANGED addr

Move(k) ==
  /\ op # "none"
  /\ k \in 1..left
  /\ addr' = [addr EXCEPT ![op] = @ + k]
  /\ left' = left - k
  /\ op' = IF k = left THEN "none" ELSE op

Rewind(s) ==
  /\ op = "none"
  /\ addr' = [addr EXCEPT ![s] = 0]
  /\ UNCHANGED <<op, left>>

Next == \/ \E s \in Streams, n \in Totals : Start(s, n)
        \/ \E k \in 1..256 : Move(k)
        \/ \E s \in Streams : Rewind(s)

Spec == Init /\ [][Next]_vars
=============================================================================
