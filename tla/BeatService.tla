----------------------------- MODULE BeatService -----------------------------
(* What information_read_write.v expects of the boundary splitter in front of
   the AXI master: a request for len+1 consecutive beats is served by bursts
   that never leave a 4 KB page, start where the previous one stopped, and
   together move exactly the requested beats; only then is the request
   finished (new_finish).  Nothing is said of how many bursts it takes.      *)
EXTENDS Integers

CONSTANTS Requests   \* the requests made: [addr: byte address, len: beats-1]

VARIABLES pending,   \* a request has been taken and is not finished
          next,      \* byte address of the next beat to move
          left       \* beats still to be moved

vars == <<pending, next, left>>

PageBytes == 4096
BeatBytes == 8

Init == pending = FALSE /\ next = 0 /\ left = 0

Take(r) ==
  /\ ~pending
  /\ pending' = TRUE
  /\ next' = r.addr
  /\ left' = r.len + 1

Move(n) ==
  /\ pending
  /\ n \in 1..left
  /\ (next % PageBytes) + n * BeatBytes <= PageBytes
  /\ next' = next + n * BeatBytes
  /\ left' = left - n
  /\ pending' = (n < left)

Next == \/ \E r \in Requests : Take(r)
        \/ \E n \in 1..256 : Move(n)

Spec == Init /\ [][Next]_vars
=============================================================================
