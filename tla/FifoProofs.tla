----------------------------- MODULE FifoProofs -----------------------------
(* Proofs about the FIFOs of the compute side: KernelFifos, through which the
   kernels come, and UpdateFifo, through which the partial sums come back.    *)
EXTENDS KernelFifos, UpdateFifo, SequenceTheorems, TLAPS

-----------------------------------------------------------------------------
(* Proofs about KernelFifos, for every set of heads whose kernels are counted
   alike at both ends (CountsAgree), and networks of any length.  A head brings
   kernels for one round or for several; the FIFOs hold what is left of them.
   The invariant says how far both ends are by one number, the r of Progress:
   the rounds that are written and not yet done with.  Place, Lengths and
   Contents tell from it where the writer stands, how much is in each FIFO and
   which words these are; Budget, how many words are still to come.          *)

(* The inductive invariant. *)

K == PerKernel(head)
Busy == pending \/ rd_kernel_state # "idle" \/ fin[1] \/ fin[2] \/ kernel_valid
Rounds == IF Busy THEN batch + 1 ELSE batch
Past == rd_kernel_state = "end" \/ fin[1] \/ fin[2] \/ kernel_valid
Taken == IF Past THEN K ELSE kernel_cnt
Expected(i, q, j) == IF i < per THEN due + (q * per + i) * K + j ELSE Zero

Types ==
  /\ ctl \in {"ready", "judge", "kernel_rd"}
  /\ left \in Int /\ pos \in Int /\ cntij_threshold \in Int
  /\ cnt_ij \in 0..7 /\ location_cnt = cnt_ij /\ cnt_k \in 0..K - 1
  /\ fifo \in [Channels -> Seq(Int)]
  /\ rd_kernel_state \in {"idle", "read", "end"}
  /\ kernel_cnt \in 0..K - 1 /\ rd_r \in BOOLEAN
  /\ dout \in [Channels -> Int] /\ temp \in [Channels -> [1..6 -> Int]]
  /\ fin[1] \in BOOLEAN /\ fin[2] \in BOOLEAN /\ kernel_valid \in BOOLEAN
  /\ batch \in Nat /\ pending \in BOOLEAN /\ due \in Int /\ per \in 0..8

(* One round at a time is on its way through load_kernel.v. *)
OneRound ==
  /\ pending => rd_kernel_state = "idle" /\ ~fin[1] /\ ~fin[2] /\ ~kernel_valid
  /\ rd_kernel_state # "idle" => ~fin[1] /\ ~fin[2] /\ ~kernel_valid
  /\ fin[1] => ~fin[2] /\ ~kernel_valid
  /\ fin[2] => ~kernel_valid
  /\ rd_kernel_state # "read" => kernel_cnt = 0
  /\ rd_r => rd_kernel_state = "end" \/ (rd_kernel_state = "read" /\ kernel_cnt > 0)
  /\ rd_kernel_state = "end" => rd_r

(* The writer's counters, and the heads they are of. *)
Writer ==
  /\ cnt_ij = 0 \/ cnt_ij < per
  /\ ctl # "kernel_rd" => cnt_ij = 0 /\ cnt_k = 0
  /\ ctl # "ready" => head \in Heads
  /\ ctl = "judge" /\ head.filters # 0 => per = PerRound(head)
  /\ ctl = "kernel_rd" =>
       head.filters # 0 /\ per = PerRound(head) /\ cntij_threshold = per
  /\ batch > 0 => \E g \in Heads : g.filters * g.kernels > 8 /\ g.size = head.size

(* Words channel i has of the round that is being written. *)
Part(i) == IF i < cnt_ij THEN K
           ELSE IF i = cnt_ij \/ (i >= per /\ cnt_ij = per - 1) THEN cnt_k ELSE 0

(* r rounds are written that are not yet done with. *)
Place(r) == pos = due + (r * per + cnt_ij) * K + cnt_k

Lengths(r) == \A i \in Channels : Len(fifo[i]) + Taken = r * K + Part(i)

Contents(r) ==
  \A i \in Channels : \A n \in 1..Len(fifo[i]), q \in Nat, j \in 0..K - 1 :
    Taken + n = q * K + j + 1 => fifo[i][n] = Expected(i, q, j)

Budget(r) ==
  /\ ctl = "ready" => r = Rounds
  /\ ctl = "judge" /\ head.filters = 0 => r = Rounds
  /\ ctl = "judge" /\ head.filters # 0 =>
       r = 0 /\ Rounds * per = head.filters * head.kernels
  /\ ctl = "kernel_rd" => left > 0 /\ left = ((Rounds - r) * per - cnt_ij) * K - cnt_k

Progress == \E r \in Nat : Place(r) /\ Lengths(r) /\ Contents(r) /\ Budget(r)

(* What has been read of the round, in the registers behind the FIFOs. *)
Pipeline ==
  /\ rd_r => \A i \in Channels : dout[i] = Expected(i, 0, Taken - 1)
  /\ rd_kernel_state # "idle" \/ fin[1] \/ fin[2] =>
       \A i \in Channels, m \in 1..6 :
         LET n == IF rd_r THEN Taken - 1 ELSE Taken
         IN  m <= n => temp[i][m] = Expected(i, 0, n - m)

IInv == Types /\ OneRound /\ Writer /\ Progress /\ Pipeline /\ RoundGetsItsKernels

-----------------------------------------------------------------------------
LEMMA KernelWords == K \in {2, 6} /\ \A h : PerKernel(h) \in {2, 6}
  BY DEF K, PerKernel

LEMMA PerOfHead ==
  ASSUME NEW h \in Heads, h.filters # 0
  PROVE  /\ PerRound(h) \in 1..8
         /\ h.filters \in Nat /\ h.kernels \in Nat /\ h.filters * h.kernels \in Nat
<1>1. h.filters \in 0..255 /\ h.kernels \in 1..31 /\ PerRound(h) \in 1..8
  BY HeadsAssumption, Zenon
<1>2. \A a, b \in Nat : a * b \in Nat
  BY SMT
<1>3. h.filters \in Nat /\ h.kernels \in Nat
  BY <1>1, SMT
<1> QED BY <1>1, <1>2, <1>3

LEMMA TakeIn ==
  ASSUME NEW s \in [1..6 -> Int], NEW v \in Int
  PROVE  /\ <<v>> \o Front(s) \in [1..6 -> Int]
         /\ (<<v>> \o Front(s))[1] = v
         /\ \A m \in 2..6 : (<<v>> \o Front(s))[m] = s[m - 1]
<1>1. s \in Seq(Int) /\ Len(s) = 6
  <2>1. s \in Seq(Int)
    BY SeqDef, 6 \in Nat, Zenon
  <2>2. Len(s) \in Nat /\ 1..6 = 1..Len(s)
    BY <2>1, LenProperties, Zenon
  <2> QED BY <2>1, <2>2, SMT
<1>2. Front(s) \in Seq(Int) /\ Len(Front(s)) = 5 /\ \A i \in 1..5 : Front(s)[i] = s[i]
  BY <1>1, SubSeqProperties, SMT DEF Front
<1>3. <<v>> \in Seq(Int) /\ Len(<<v>>) = 1 /\ <<v>>[1] = v
  BY SMT
<1> DEFINE t == <<v>> \o Front(s)
<1>4. t \in Seq(Int) /\ Len(t) = 6
      /\ \A i \in 1..6 : t[i] = IF i <= 1 THEN <<v>>[i] ELSE Front(s)[i - 1]
  <2>1. /\ t \in Seq(Int) /\ Len(t) = Len(<<v>>) + Len(Front(s))
        /\ \A i \in 1..Len(<<v>>) + Len(Front(s)) :
             t[i] = IF i <= Len(<<v>>) THEN <<v>>[i] ELSE Front(s)[i - Len(<<v>>)]
    BY <1>2, <1>3, ConcatProperties, Zenon
  <2>2. Len(<<v>>) + Len(Front(s)) = 6
    BY <1>2, <1>3, SMT
  <2> HIDE DEF t
  <2> QED BY <2>1, <2>2, <1>3, Zenon
<1>5. t \in [1..6 -> Int]
  BY <1>4, LenProperties
<1> HIDE DEF t
<1>6. t[1] = v /\ \A m \in 2..6 : t[m] = s[m - 1]
  BY <1>4, <1>2, <1>3, SMT
<1> QED BY <1>5, <1>6 DEF t

LEMMA TakeOut ==
  ASSUME NEW s \in [1..6 -> Int], NEW k \in {2, 6}
  PROVE  Reverse(SubSeq(s, 1, k)) = [j \in 1..k |-> s[k + 1 - j]]
<1>1. /\ SubSeq(s, 1, k) \in Seq(Int) /\ Len(SubSeq(s, 1, k)) = k
      /\ \A i \in 1..k : SubSeq(s, 1, k)[i] = s[i]
  BY SubSeqProperties, SMT
<1> DEFINE u == SubSeq(s, 1, k)
<1>2. Reverse(u) = [j \in 1..Len(u) |-> u[(Len(u) - j) + 1]]
  BY DEF Reverse
<1> HIDE DEF u
<1>3. Len(u) = k /\ \A i \in 1..k : u[i] = s[i]
  BY <1>1 DEF u
<1>4. \A j \in 1..k : u[(k - j) + 1] = s[k + 1 - j]
  BY <1>3, SMT
<1>5. Reverse(u) = [j \in 1..k |-> s[k + 1 - j]]
  BY <1>2, <1>3, <1>4, SMT
<1> QED BY <1>5 DEF u

LEMMA InitIInv == Init => IInv
<1> SUFFICES ASSUME Init PROVE IInv
  OBVIOUS
<1>k. K \in {2, 6}
  BY KernelWords
<1>0. ~Busy /\ ~Past /\ Taken = 0 /\ Rounds = 0 /\ per = 0 /\ batch = 0
  BY SMT DEF Init, Busy, Past, Taken, Rounds
<1>1. Types
  <2>1. fifo \in [Channels -> Seq(Int)]
    BY EmptySeq DEF Init
  <2>2. dout \in [Channels -> Int] /\ temp \in [Channels -> [1..6 -> Int]]
    BY SMT DEF Init, Zero
  <2>3. fin[1] \in BOOLEAN /\ fin[2] \in BOOLEAN
    BY SMT DEF Init
  <2>4. cnt_k \in 0..K - 1 /\ kernel_cnt \in 0..K - 1
    BY <1>k, SMT DEF Init
  <2>5. /\ left \in Int /\ pos \in Int /\ cntij_threshold \in Int
        /\ cnt_ij \in 0..7 /\ location_cnt = cnt_ij
        /\ batch \in Nat /\ due \in Int /\ per \in 0..8
    BY SMT DEF Init
  <2>6. /\ ctl \in {"ready", "judge", "kernel_rd"}
        /\ rd_kernel_state \in {"idle", "read", "end"} /\ rd_r \in BOOLEAN
        /\ kernel_valid \in BOOLEAN /\ pending \in BOOLEAN
    BY Zenon DEF Init
  <2> QED BY <2>1, <2>2, <2>3, <2>4, <2>5, <2>6 DEF Types
<1>2. OneRound /\ Writer /\ Pipeline /\ RoundGetsItsKernels
  BY <1>0, SMT DEF Init, OneRound, Writer, Pipeline, RoundGetsItsKernels
<1>3. Progress
  <2>1. Len(<<>>) = 0
    OBVIOUS
  <2>2. Place(0) /\ Budget(0)
    BY <1>0, <1>k, SMT DEF Init, Place, Budget
  <2>3. Lengths(0) /\ Contents(0)
    <3>1. \A i \in Channels : fifo[i] = <<>> /\ Len(fifo[i]) = 0
      BY <2>1 DEF Init
    <3>2. \A i \in Channels : Part(i) = 0
      BY <1>0, SMT DEF Init, Part, Channels
    <3>3. Lengths(0)
      BY <1>0, <1>k, <3>1, <3>2, SMT DEF Lengths
    <3>4. Contents(0)
      BY <1>0, <1>k, <3>1, SMT DEF Contents
    <3> QED BY <3>3, <3>4
  <2> QED BY <2>2, <2>3 DEF Progress
<1> QED BY <1>1, <1>2, <1>3 DEF IInv

-----------------------------------------------------------------------------
(* The next head. *)
LEMMA IterateKeeps ==
  ASSUME IInv, NEW h \in Heads, Iterate(h), CountsAgree(Heads)
  PROVE  IInv'
<1>k. K \in {2, 6} /\ K' \in {2, 6} /\ K' = PerKernel(h)
  BY KernelWords DEF K, PerKernel, Iterate
<1>0. /\ ctl = "ready" /\ ctl' = "judge" /\ head' = h
      /\ ~pending /\ rd_kernel_state = "idle" /\ ~fin[1] /\ ~fin[2] /\ ~kernel_valid
      /\ pending' /\ rd_kernel_state' = "idle" /\ ~fin'[1] /\ ~fin'[2] /\ ~kernel_valid'
      /\ ~rd_r /\ ~rd_r'
  BY Zenon DEF Iterate, IInv, OneRound, deal, Types
<1>1. /\ ~Busy /\ Busy' /\ ~Past /\ ~Past' /\ Rounds = batch /\ Rounds' = batch' + 1
  BY <1>0, Zenon DEF Busy, Past, Rounds
<1>2. /\ kernel_cnt = 0 /\ kernel_cnt' = 0 /\ Taken = 0 /\ Taken' = 0
      /\ cnt_ij = 0 /\ cnt_k = 0 /\ cnt_ij' = 0 /\ cnt_k' = 0
  BY <1>0, <1>1, Zenon DEF Iterate, IInv, OneRound, Writer, Taken, deal
<1>3. UNCHANGED <<pos, fifo, due, left, location_cnt, dout, temp, fin, kernel_q>>
  BY Zenon DEF Iterate, deal
<1>4. PICK r \in Nat : Place(r) /\ Lengths(r) /\ Contents(r) /\ r = batch
  BY <1>0, <1>1, Zenon DEF IInv, Progress, Budget
<1>5. CASE h.filters = 0
  <2>1. batch > 0 /\ batch' = batch - 1 /\ per' = per
    BY <1>5 DEF Iterate
  <2>2. PICK g \in Heads : g.filters * g.kernels > 8 /\ g.size = head.size
    BY <2>1 DEF IInv, Writer
  <2>3. h.size = g.size
    BY <2>2, <1>5 DEF CountsAgree
  <2>4. K' = K
    BY <2>2, <2>3, <1>k DEF K, PerKernel
  <2>5. Rounds' = batch /\ batch' \in Nat
    BY <2>1, <1>1, SMT DEF IInv, Types
  <2>6. Progress'
    <3>1. Place(r)'
      BY <1>4, <1>3, <1>2, <2>1, <2>4 DEF Place
    <3>2. Lengths(r)'
      BY <1>4, <1>3, <1>2, <2>1, <2>4 DEF Lengths, Part
    <3>3. Contents(r)'
      BY <1>4, <1>3, <1>2, <2>1, <2>4 DEF Contents, Expected
    <3>4. Budget(r)'
      BY <1>4, <1>0, <2>5, <1>5, Zenon DEF Budget
    <3> QED BY <3>1, <3>2, <3>3, <3>4 DEF Progress
  <2>7. Writer'
    <3>1. \E x \in Heads : x.filters * x.kernels > 8 /\ x.size = head'.size
      BY <2>2, <2>3, <1>0
    <3> QED BY <3>1, <1>0, <1>2, <1>5, Zenon DEF Writer
  <2>8. Types'
    <3>1. cntij_threshold' \in Int
      BY SMT DEF Iterate, Threshold, PerRound
    <3> QED BY <3>1, <1>0, <1>2, <1>3, <1>k, <2>1, <2>4, <2>5, Zenon DEF IInv, Types, Iterate, deal
  <2> QED BY <2>6, <2>7, <2>8, <1>0, <1>2, Zenon DEF IInv, OneRound, Pipeline, RoundGetsItsKernels
<1>6. CASE h.filters # 0
  <2> DEFINE t == h.filters * h.kernels
  <2>0. t \in Nat /\ PerRound(h) \in 1..8 /\ PerRound(h) = t % 16
    BY <1>6, PerOfHead DEF PerRound
  <2>1. /\ batch = 0 /\ batch' = (t - 1) \div 8 /\ per' = PerRound(h)
        /\ t = PerRound(h) * (1 + (t - 1) \div 8)
    <3>1. ~(batch > 0)
      BY <1>6 DEF Iterate
    <3> QED BY <3>1, <1>6, SMT DEF Iterate, CountsAgree, IInv, Types
  <2> HIDE DEF t
  <2>2. t >= 1 /\ batch' \in Nat /\ (batch' > 0 => t > 8)
    BY <2>0, <2>1, SMT
  <2>3. Rounds' * per' = t
    <3>1. \A a, b \in Int : b * (1 + a) = (a + 1) * b
      BY SMT
    <3> QED BY <3>1, <1>1, <2>0, <2>1, <2>2, SMT
  <2>4. \A i \in Channels : Len(fifo[i]) = 0
    <3>1. \A i \in Channels : Part(i) = 0
      BY <1>2, SMT DEF Part, Channels
    <3>2. \A i \in Channels : Len(fifo[i]) \in Nat
      BY LenProperties DEF IInv, Types
    <3> QED BY <3>1, <3>2, <1>4, <1>2, <1>k, <2>1, SMT DEF Lengths
  <2>5. pos = due
    BY <1>4, <1>2, <1>k, <2>1, SMT DEF Place, IInv, Types
  <2>6. Progress'
    <3>1. Place(0)'
      BY <2>5, <1>3, <1>2, <1>k, <2>0, <2>1, SMT DEF Place, IInv, Types
    <3>2. Lengths(0)'
      BY <2>4, <1>3, <1>2, <1>k, <2>0, <2>1, SMT DEF Lengths, Part, Channels
    <3>3. Contents(0)'
      BY <2>4, <1>3, SMT DEF Contents
    <3>4. Budget(0)'
      BY <1>0, <2>3, <1>6, Zenon DEF Budget, t
    <3> QED BY <3>1, <3>2, <3>3, <3>4 DEF Progress
  <2>7. Writer'
    <3>1. batch' > 0 => h.filters * h.kernels > 8
      BY <2>2 DEF t
    <3> QED BY <3>1, <1>0, <1>2, <1>6, <2>1, Zenon DEF Writer
  <2>8. Types'
    <3>1. cntij_threshold' \in Int
      BY SMT DEF Iterate, Threshold, PerRound
    <3>2. per' \in 0..8 /\ cnt_k' \in 0..K' - 1 /\ kernel_cnt' \in 0..K' - 1
      BY <2>0, <2>1, <1>k, <1>2, SMT
    <3> QED BY <3>1, <3>2, <1>0, <1>2, <1>3, <2>2, Zenon DEF IInv, Types, Iterate, deal
  <2> QED BY <2>6, <2>7, <2>8, <1>0, <1>2, Zenon DEF IInv, OneRound, Pipeline, RoundGetsItsKernels
<1> QED BY <1>5, <1>6

-----------------------------------------------------------------------------
(* iterate_judge. *)
LEMMA JudgeKeeps ==
  ASSUME IInv, Judge, CountsAgree(Heads)
  PROVE  IInv'
<1>0. /\ ctl = "judge" /\ head \in Heads
      /\ UNCHANGED <<head, pos, cnt_ij, cnt_k, location_cnt, fifo, batch, heads, deal, pending, per>>
  BY DEF IInv, Judge, Writer
<1>k. K \in {2, 6} /\ K' = K
  BY <1>0, KernelWords DEF K, PerKernel
<1>1. UNCHANGED <<Busy, Past, Rounds, Taken>>
  BY <1>0, <1>k DEF Busy, Past, Rounds, Taken, deal
<1>2. cntij_threshold' = PerRound(head) /\ cntij_threshold' \in Int
  BY SMT DEF Judge, Threshold, PerRound
<1>3. PICK r \in Nat : Place(r) /\ Lengths(r) /\ Contents(r) /\ Budget(r)
  BY DEF IInv, Progress
<1>4. Place(r)' /\ Lengths(r)' /\ Contents(r)'
  <2>1. /\ pos' = pos /\ due' = due /\ per' = per /\ cnt_ij' = cnt_ij /\ cnt_k' = cnt_k
        /\ fifo' = fifo /\ K' = K /\ Taken' = Taken
    BY <1>0, <1>k, <1>1 DEF deal
  <2>2. Place(r)'
    BY <2>1, <1>3 DEF Place
  <2>3. Lengths(r)'
    BY <2>1, <1>3 DEF Lengths, Part
  <2>4. Contents(r)'
    BY <2>1, <1>3 DEF Contents, Expected
  <2> QED BY <2>2, <2>3, <2>4
<1>5. OneRound' /\ Pipeline' /\ RoundGetsItsKernels'
  <2>1. /\ pending' = pending /\ rd_kernel_state' = rd_kernel_state /\ fin' = fin
        /\ kernel_valid' = kernel_valid /\ kernel_cnt' = kernel_cnt /\ rd_r' = rd_r
        /\ dout' = dout /\ temp' = temp /\ kernel_q' = kernel_q /\ due' = due
        /\ per' = per /\ head' = head /\ K' = K /\ Taken' = Taken
    BY <1>0, <1>k, <1>1 DEF deal
  <2>2. OneRound'
    BY <2>1 DEF IInv, OneRound
  <2>3. Pipeline'
    BY <2>1 DEF IInv, Pipeline, Expected
  <2>4. RoundGetsItsKernels'
    BY <2>1 DEF IInv, RoundGetsItsKernels
  <2> QED BY <2>2, <2>3, <2>4
<1>6. CASE head.filters = 0
  <2>1. ctl' = "ready" /\ left' = left
    BY <1>6 DEF Judge
  <2>2. Budget(r)'
    BY <1>0, <1>1, <1>3, <1>6, <2>1, Zenon DEF Budget
  <2>3. Writer'
    BY <1>0, <2>1, Zenon DEF IInv, Writer
  <2>4. Types'
    BY <1>0, <1>2, <1>k, <2>1, Zenon DEF IInv, Types, deal
  <2> QED BY <1>4, <1>5, <2>2, <2>3, <2>4, Zenon DEF IInv, Progress
<1>7. CASE head.filters # 0
  <2> DEFINE t == head.filters * head.kernels
  <2>1. ctl' = "kernel_rd" /\ left' = t * K
    BY <1>7, <1>0 DEF Judge, CountsAgree, K
  <2>2. r = 0 /\ Rounds * per = t /\ per = PerRound(head) /\ cnt_ij = 0 /\ cnt_k = 0
    BY <1>0, <1>3, <1>7, Zenon DEF Budget, IInv, Writer, t
  <2>3. t \in Nat /\ per \in 1..8 /\ per = t % 16
    BY <1>0, <1>7, <2>2, PerOfHead DEF PerRound
  <2> HIDE DEF t
  <2>4. t > 0 /\ Rounds \in Int
    <3>1. batch \in Nat
      BY DEF IInv, Types
    <3>2. Rounds \in Int
      BY <3>1, SMT DEF Rounds
    <3> QED BY <2>3, <3>2, SMT
  <2>5. left' > 0 /\ left' = ((Rounds - r) * per - cnt_ij) * K - cnt_k
    <3>1. (Rounds - r) * per = t
      BY <2>2, <2>4, SMT
    <3> QED BY <3>1, <2>1, <2>2, <2>3, <2>4, <1>k, SMT
  <2>6. Budget(r)'
    BY <2>5, <2>1, <1>0, <1>k, <1>1, Zenon DEF Budget
  <2>7. Writer'
    BY <1>0, <1>2, <1>7, <2>1, <2>2, Zenon DEF IInv, Writer
  <2>8. left' \in Int
    BY <2>1, <2>3, <1>k, SMT
  <2>9. Types'
    BY <1>0, <1>2, <1>k, <2>1, <2>8, Zenon DEF IInv, Types, deal
  <2> QED BY <1>4, <1>5, <2>6, <2>7, <2>9, Zenon DEF IInv, Progress
<1> QED BY <1>6, <1>7

-----------------------------------------------------------------------------
(* A word of the DDR.  It goes to the channel whose turn it is, and a zero to
   the channels without a kernel, while the last channel is filled.          *)
Turn(i) == i = cnt_ij \/ (i >= per /\ cnt_ij = per - 1)

LEMMA WordContext ==
  ASSUME IInv, Word
  PROVE  /\ K \in {2, 6} /\ K' = K /\ per \in 1..8 /\ cnt_ij < per
         /\ ctl = "kernel_rd" /\ head \in Heads /\ head.filters # 0
         /\ cntij_threshold = per /\ cntij_threshold' = per
         /\ UNCHANGED <<head, batch, heads, deal, pending, per>>
         /\ UNCHANGED <<Busy, Past, Rounds, Taken, due>>
         /\ Rounds \in Nat /\ Taken \in Nat
<1>0. /\ ctl = "kernel_rd" /\ head \in Heads /\ head.filters # 0
      /\ cntij_threshold = per /\ per = PerRound(head)
      /\ UNCHANGED <<head, batch, heads, deal, pending, per>>
  BY DEF IInv, Word, Writer
<1>k. K \in {2, 6} /\ K' = K
  BY <1>0, KernelWords DEF K, PerKernel
<1>1. UNCHANGED <<Busy, Past, Rounds, Taken, due>>
  BY <1>0, <1>k DEF Busy, Past, Rounds, Taken, deal
<1>2. per \in 1..8
  BY <1>0, PerOfHead
<1>3. cntij_threshold' = per
  BY <1>0 DEF Word, Threshold
<1>4. Rounds \in Nat /\ Taken \in Nat
  BY <1>k, SMT DEF Rounds, Taken, IInv, Types
<1>5. cnt_ij < per
  BY <1>2, SMT DEF IInv, Writer
<1> QED BY <1>0, <1>k, <1>1, <1>2, <1>3, <1>4, <1>5

(* The counters. *)
LEMMA WordCounts ==
  ASSUME IInv, Word
  PROVE  /\ cnt_k # K - 1 => cnt_k' = cnt_k + 1 /\ cnt_ij' = cnt_ij /\ location_cnt' = cnt_ij
         /\ cnt_k = K - 1 /\ cnt_ij # per - 1 =>
              cnt_k' = 0 /\ cnt_ij' = cnt_ij + 1 /\ location_cnt' = cnt_ij + 1
         /\ cnt_k = K - 1 /\ cnt_ij = per - 1 => cnt_k' = 0 /\ cnt_ij' = 0 /\ location_cnt' = 0
<1>1. /\ K \in {2, 6} /\ per \in 1..8 /\ cntij_threshold = per
      /\ cnt_k \in 0..K - 1 /\ cnt_ij \in 0..7 /\ location_cnt = cnt_ij
  BY WordContext DEF IInv, Types
<1>2. (cntij_threshold - 1) % 16 = per - 1
  BY <1>1, SMT
<1>3. (cnt_k + 1) % 16 = cnt_k + 1 /\ (cnt_ij + 1) % 16 = cnt_ij + 1
  BY <1>1, SMT
<1> QED BY <1>1, <1>2, <1>3 DEF Word, K

(* The FIFOs. *)
LEMMA WordQueues ==
  ASSUME IInv, Word, NEW i \in Channels
  PROVE  /\ fifo[i] \in Seq(Int) /\ Len(fifo[i]) \in Nat
         /\ ~Turn(i) => fifo'[i] = fifo[i]
         /\ Turn(i) => /\ fifo'[i] \in Seq(Int) /\ Len(fifo'[i]) = Len(fifo[i]) + 1
                       /\ \A n \in 1..Len(fifo[i]) : fifo'[i][n] = fifo[i][n]
                       /\ fifo'[i][Len(fifo[i]) + 1] = IF i < per THEN pos ELSE Zero
<1>1. /\ per \in 1..8 /\ cntij_threshold = per /\ cnt_ij < per /\ i \in 0..7
      /\ cnt_ij \in 0..7 /\ location_cnt = cnt_ij /\ pos \in Int
  BY WordContext DEF IInv, Types, Channels
<1>2. fifo[i] \in Seq(Int) /\ Len(fifo[i]) \in Nat
  BY LenProperties DEF IInv, Types
<1>3. (cntij_threshold - 1) % 16 = per - 1
  BY <1>1, SMT
<1>4. Valid(i) \/ Invalid(i) <=> Turn(i)
  BY <1>1, <1>3, SMT DEF Valid, Invalid, Turn
<1>5. Valid(i) => i < per
  BY <1>1, SMT DEF Valid
<1>6. Invalid(i) => ~(i < per)
  BY <1>1, SMT DEF Invalid
<1> DEFINE w == IF i < per THEN pos ELSE Zero
<1>7. fifo'[i] = IF Turn(i) THEN Append(fifo[i], w) ELSE fifo[i]
  BY <1>4, <1>5, <1>6 DEF Word
<1>8. w \in Int
  BY <1>1, SMT DEF Zero
<1> HIDE DEF w
<1>9. CASE Turn(i)
  <2>1. fifo'[i] = Append(fifo[i], w)
    BY <1>7, <1>9
  <2> DEFINE f == fifo[i]
  <2>2. /\ Append(f, w) \in Seq(Int) /\ Len(Append(f, w)) = Len(f) + 1
        /\ \A n \in 1..Len(f) : Append(f, w)[n] = f[n]
        /\ Append(f, w)[Len(f) + 1] = w
    BY <1>2, <1>8, AppendProperties
  <2> QED BY <2>1, <2>2, <1>9, <1>2 DEF w
<1>10. CASE ~Turn(i)
  BY <1>2, <1>7, <1>10
<1> QED BY <1>9, <1>10, <1>2

(* What is in the FIFOs after the word is what the round expects there. *)
LEMMA WordContents ==
  ASSUME IInv, Word, NEW r \in Nat, Place(r), Lengths(r), Contents(r),
         NEW i \in Channels, NEW n \in 1..Len(fifo'[i]), NEW q \in Nat, NEW j \in 0..K - 1,
         Taken + n = q * K + j + 1
  PROVE  fifo'[i][n] = Expected(i, q, j)
<1>1. /\ K \in {2, 6} /\ per \in 1..8 /\ cnt_ij \in 0..7 /\ cnt_ij < per
      /\ cnt_k \in 0..K - 1 /\ Taken \in Nat /\ i \in 0..7
  BY WordContext DEF IInv, Types, Channels
<1>2. CASE n \in 1..Len(fifo[i])
  <2>1. fifo'[i][n] = fifo[i][n]
    BY <1>2, WordQueues
  <2> QED BY <2>1, <1>2 DEF Contents
<1>3. CASE ~(n \in 1..Len(fifo[i]))
  <2>1. Turn(i)
    BY <1>3, WordQueues
  <2>2. n = Len(fifo[i]) + 1 /\ fifo'[i][n] = IF i < per THEN pos ELSE Zero
    BY <1>3, <2>1, WordQueues, SMT
  <2>3. Part(i) = cnt_k
    BY <2>1, <1>1, SMT DEF Turn, Part
  <2>4. Len(fifo[i]) + Taken = r * K + cnt_k /\ Len(fifo[i]) \in Nat
    BY <2>3, WordQueues DEF Lengths
  <2>5. q * K + j = r * K + cnt_k
    BY <2>2, <2>4, <1>1, SMT
  <2>6. q = r /\ j = cnt_k
    BY <2>5, <1>1, SMT
  <2>7. i < per => i = cnt_ij
    BY <2>1, <1>1, SMT DEF Turn
  <2> QED BY <2>2, <2>6, <2>7 DEF Expected, Place
<1> QED BY <1>2, <1>3

LEMMA WordProgress ==
  ASSUME IInv, Word
  PROVE  Progress' /\ cnt_k' \in 0..K - 1 /\ cnt_ij' \in 0..7 /\ location_cnt' = cnt_ij'
         /\ (cnt_ij' = 0 \/ cnt_ij' < per)
         /\ (ctl' # "kernel_rd" => cnt_ij' = 0 /\ cnt_k' = 0)
<1>1. /\ K \in {2, 6} /\ per \in 1..8 /\ cnt_ij \in 0..7 /\ cnt_ij < per
      /\ cnt_k \in 0..K - 1 /\ Taken \in Nat /\ Rounds \in Nat
      /\ pos \in Int /\ due \in Int /\ left \in Int
  BY WordContext DEF IInv, Types
<1>2. /\ K' = K /\ per' = per /\ due' = due /\ Taken' = Taken /\ Rounds' = Rounds
      /\ pos' = pos + 1 /\ left' = left - 1
      /\ ctl' = IF left = 1 THEN "ready" ELSE "kernel_rd"
  BY WordContext DEF Word
<1>3. PICK r \in Nat : Place(r) /\ Lengths(r) /\ Contents(r) /\ Budget(r)
  BY DEF IInv, Progress
<1>4. left > 0 /\ left = ((Rounds - r) * per - cnt_ij) * K - cnt_k
  BY <1>3, WordContext DEF Budget
<1> DEFINE one(i) == IF Turn(i) THEN 1 ELSE 0
<1>5. ASSUME NEW i \in Channels
      PROVE  /\ Len(fifo'[i]) + Taken = r * K + Part(i) + one(i)
             /\ Part(i) \in Nat /\ one(i) \in Nat /\ i \in 0..7
  <2>1. Len(fifo[i]) \in Nat /\ Len(fifo[i]) + Taken = r * K + Part(i)
    BY <1>3, WordQueues DEF Lengths
  <2>2. Len(fifo'[i]) = Len(fifo[i]) + one(i)
    <3>1. CASE Turn(i)
      BY <3>1, WordQueues
    <3>2. CASE ~Turn(i)
      BY <3>2, <2>1, WordQueues, SMT
    <3> QED BY <3>1, <3>2
  <2>3. Part(i) \in Nat /\ one(i) \in Nat
    BY <1>1, SMT DEF Part
  <2> HIDE DEF one
  <2> QED BY <2>1, <2>2, <2>3, <1>1, SMT DEF Channels
<1>6. \A i \in Channels : \A n \in 1..Len(fifo'[i]), q \in Nat, j \in 0..K - 1 :
        Taken + n = q * K + j + 1 => fifo'[i][n] = Expected(i, q, j)
  BY <1>3, WordContents
<1>7. \A x \in Nat : Contents(x)'
  BY <1>2, <1>6 DEF Contents, Expected
<1>8. CASE cnt_k # K - 1
  <2>1. cnt_k' = cnt_k + 1 /\ cnt_ij' = cnt_ij /\ location_cnt' = cnt_ij
    BY <1>8, WordCounts
  <2>2. Place(r)'
    BY <1>1, <1>2, <1>3, <2>1, SMT DEF Place
  <2>3. Lengths(r)'
    <3>1. ASSUME NEW i \in Channels PROVE Part(i)' = Part(i) + one(i)
      BY <1>1, <1>2, <1>5, <2>1, SMT DEF Part, Turn
    <3> HIDE DEF one
    <3>2. ASSUME NEW i \in Channels PROVE Len(fifo'[i]) + Taken' = r * K' + Part(i)'
      BY <1>1, <1>2, <1>5, <3>1, SMT
    <3> QED BY <3>2 DEF Lengths
  <2>4. left # 1
    <3> DEFINE a == (Rounds - r) * per - cnt_ij
    <3>1. a \in Int /\ left = a * K - cnt_k
      BY <1>1, <1>4, SMT
    <3> HIDE DEF a
    <3> QED BY <3>1, <1>1, <1>8, SMT
  <2>5. Budget(r)'
    <3>1. ctl' = "kernel_rd" /\ left' > 0 /\ left' = left - 1
      BY <1>1, <1>2, <1>4, <2>4, SMT
    <3>2. left' = ((Rounds - r) * per - cnt_ij) * K - (cnt_k + 1)
      BY <1>1, <1>4, <3>1, SMT
    <3> QED BY <3>1, <3>2, <1>2, <2>1 DEF Budget
  <2>6. cnt_k' \in 0..K - 1 /\ ctl' = "kernel_rd"
    BY <1>1, <1>2, <1>8, <2>1, <2>4, SMT
  <2> QED BY <1>1, <1>7, <2>1, <2>2, <2>3, <2>5, <2>6 DEF Progress
<1>9. CASE cnt_k = K - 1 /\ cnt_ij # per - 1
  <2>1. cnt_k' = 0 /\ cnt_ij' = cnt_ij + 1 /\ location_cnt' = cnt_ij + 1
    BY <1>9, WordCounts
  <2>2. Place(r)'
    BY <1>1, <1>2, <1>3, <1>9, <2>1, SMT DEF Place
  <2>3. Lengths(r)'
    <3>1. ASSUME NEW i \in Channels PROVE Part(i)' = Part(i) + one(i)
      BY <1>1, <1>2, <1>5, <1>9, <2>1, SMT DEF Part, Turn
    <3> HIDE DEF one
    <3>2. ASSUME NEW i \in Channels PROVE Len(fifo'[i]) + Taken' = r * K' + Part(i)'
      BY <1>1, <1>2, <1>5, <3>1, SMT
    <3> QED BY <3>2 DEF Lengths
  <2> DEFINE a == (Rounds - r) * per - cnt_ij
  <2>4. a \in Int /\ left = a * K - (K - 1)
    BY <1>1, <1>4, <1>9, SMT
  <2>5. a # 1
    <3> DEFINE d == Rounds - r
    <3>1. d \in Int /\ a = d * per - cnt_ij
      BY <1>1, SMT
    <3> HIDE DEF d, a
    <3>2. d <= 0 => d * per <= 0
      BY <1>1, <3>1, SMT
    <3>3. d >= 1 => d * per >= per
      BY <1>1, <3>1, SMT
    <3> QED BY <1>1, <1>9, <3>1, <3>2, <3>3, SMT
  <2>6. left # 1
    <3> HIDE DEF a
    <3> QED BY <1>1, <2>4, <2>5, SMT
  <2>7. Budget(r)'
    <3>1. ctl' = "kernel_rd" /\ left' > 0 /\ left' = left - 1
      BY <1>1, <1>2, <1>4, <2>6, SMT
    <3>2. left' = ((Rounds - r) * per - (cnt_ij + 1)) * K - 0
      BY <1>1, <2>4, <3>1, SMT
    <3> QED BY <3>1, <3>2, <1>2, <2>1 DEF Budget
  <2>8. cnt_k' \in 0..K - 1 /\ ctl' = "kernel_rd" /\ cnt_ij' \in 0..7 /\ cnt_ij' < per
    BY <1>1, <1>2, <1>9, <2>1, <2>6, SMT
  <2> QED BY <1>7, <2>1, <2>2, <2>3, <2>7, <2>8 DEF Progress
<1>10. CASE cnt_k = K - 1 /\ cnt_ij = per - 1
  <2>1. cnt_k' = 0 /\ cnt_ij' = 0 /\ location_cnt' = 0
    BY <1>10, WordCounts
  <2>0. r + 1 \in Nat
    OBVIOUS
  <2>2. Place(r + 1)'
    BY <1>1, <1>2, <1>3, <1>10, <2>1, SMT DEF Place
  <2>3. Lengths(r + 1)'
    <3>1. \A i \in Channels : Part(i)' = 0
      BY <1>1, <1>2, <1>10, <2>1, SMT DEF Part, Channels
    <3>2. ASSUME NEW i \in Channels PROVE Part(i) + one(i) = K
      BY <1>1, <1>5, <1>10, SMT DEF Part, Turn
    <3>3. ASSUME NEW i \in Channels PROVE Len(fifo'[i]) + Taken = r * K + K
      <4> HIDE DEF one
      <4> QED BY <1>1, <1>5, <3>2, SMT
    <3>4. r * K + K = (r + 1) * K + 0
      BY <1>1, SMT
    <3> QED BY <1>2, <3>1, <3>3, <3>4 DEF Lengths
  <2> DEFINE d == Rounds - r
  <2>4. d \in Int /\ left = (d * per - per + 1) * K - (K - 1) /\ Rounds - (r + 1) = d - 1
    BY <1>1, <1>4, <1>10, SMT
  <2> HIDE DEF d
  <2>5. left = (d - 1) * per * K + 1
    BY <1>1, <2>4, SMT
  <2>6. d >= 1
    <3>1. d <= 0 => (d - 1) * per * K <= -2
      <4>1. d <= 0 => (d - 1) * per <= -1
        BY <1>1, <2>4, SMT
      <4> QED BY <1>1, <2>4, <4>1, SMT
    <3> QED BY <1>1, <1>4, <2>4, <2>5, <3>1, SMT
  <2>7. left = 1 <=> d = 1
    <3>1. d >= 2 => (d - 1) * per * K >= 2
      <4>1. d >= 2 => (d - 1) * per >= 1
        BY <1>1, <2>4, SMT
      <4> QED BY <1>1, <2>4, <4>1, SMT
    <3> QED BY <1>1, <2>4, <2>5, <2>6, <3>1, SMT
  <2>8. Budget(r + 1)'
    <3>1. CASE left = 1
      <4>1. ctl' = "ready" /\ r + 1 = Rounds
        BY <3>1, <1>1, <1>2, <2>4, <2>7, SMT
      <4> QED BY <4>1, <1>2 DEF Budget
    <3>2. CASE left # 1
      <4>1. ctl' = "kernel_rd" /\ left' > 0
        BY <3>2, <1>1, <1>2, <1>4, SMT
      <4>2. left' = ((Rounds - (r + 1)) * per - 0) * K - 0
        BY <1>1, <1>2, <2>4, <2>5, SMT
      <4> QED BY <4>1, <4>2, <1>2, <2>1 DEF Budget
    <3> QED BY <3>1, <3>2
  <2>9. cnt_k' \in 0..K - 1 /\ cnt_ij' \in 0..7
    BY <1>1, <2>1, SMT
  <2> QED BY <1>7, <2>0, <2>1, <2>2, <2>3, <2>8, <2>9 DEF Progress
<1> QED BY <1>8, <1>9, <1>10

LEMMA WordKeeps ==
  ASSUME IInv, Word
  PROVE  IInv'
<1>1. /\ K' = K /\ pending' = pending /\ rd_kernel_state' = rd_kernel_state /\ fin' = fin
      /\ kernel_valid' = kernel_valid /\ kernel_cnt' = kernel_cnt /\ rd_r' = rd_r
      /\ dout' = dout /\ temp' = temp /\ kernel_q' = kernel_q /\ due' = due
      /\ per' = per /\ head' = head /\ Taken' = Taken /\ batch' = batch
  BY WordContext DEF deal
<1>2. OneRound'
  BY <1>1 DEF IInv, OneRound
<1>3. Pipeline'
  BY <1>1 DEF IInv, Pipeline, Expected
<1>4. RoundGetsItsKernels'
  BY <1>1 DEF IInv, RoundGetsItsKernels
<1>5. ctl' \in {"ready", "kernel_rd"}
  BY WordContext DEF Word
<1>6. Writer'
  BY <1>1, <1>5, WordContext, WordProgress DEF IInv, Writer
<1>7. Types'
  <2>1. fifo' \in [Channels -> Seq(Int)]
    <3>1. \A i \in Channels : fifo'[i] \in Seq(Int)
      BY WordQueues
    <3>2. fifo' = [i \in Channels |-> fifo'[i]]
      BY DEF Word
    <3> QED BY <3>1, <3>2, Zenon
  <2>2. pos' \in Int /\ left' \in Int /\ cntij_threshold' \in Int
    <3>1. pos' = pos + 1 /\ left' = left - 1 /\ cntij_threshold' = per
      BY WordContext DEF Word
    <3> QED BY <3>1, SMT DEF IInv, Types
  <2> QED BY <1>1, <1>5, <2>1, <2>2, WordProgress, Zenon DEF IInv, Types
<1> QED BY <1>2, <1>3, <1>4, <1>6, <1>7, WordProgress DEF IInv

-----------------------------------------------------------------------------
(* An edge of deal_clk, one mode after the other. *)
Reads == rd_kernel_state = "read" /\ ~\E i \in Channels : fifo[i] = <<>>

LEMMA LoadContext ==
  ASSUME IInv, NEW begin \in BOOLEAN, Load(begin)
  PROVE  /\ K \in {2, 6} /\ K' = K
         /\ UNCHANGED <<ctl, head, left, pos, cntij_threshold, cnt_ij, cnt_k, location_cnt, batch, per>>
         /\ begin => pending /\ rd_kernel_state = "idle"
         /\ pending' = (pending /\ ~begin)
         /\ rd_kernel_state' = CASE rd_kernel_state = "idle" -> IF begin THEN "read" ELSE "idle"
                                 [] rd_kernel_state = "read" ->
                                      IF Reads /\ kernel_cnt = K - 1 THEN "end" ELSE "read"
                                 [] rd_kernel_state = "end"  -> "idle"
         /\ kernel_cnt' = IF Reads /\ kernel_cnt # K - 1 THEN kernel_cnt + 1
                          ELSE IF Reads THEN 0 ELSE kernel_cnt
         /\ fifo' = IF Reads THEN [i \in Channels |-> Tail(fifo[i])] ELSE fifo
         /\ dout' = IF Reads THEN [i \in Channels |-> Head(fifo[i])] ELSE dout
         /\ rd_r' = Reads
         /\ temp' = IF rd_r THEN [i \in Channels |-> <<dout[i]>> \o Front(temp[i])] ELSE temp
         /\ fin' = <<rd_kernel_state = "end", fin[1]>>
         /\ kernel_valid' = fin[2]
         /\ kernel_q' = IF fin[2] THEN [i \in Channels |-> Reverse(SubSeq(temp[i], 1, K))]
                                  ELSE kernel_q
         /\ due' = IF kernel_valid THEN due + per * K ELSE due
<1>1. K \in {2, 6}
  BY KernelWords
<1>2. UNCHANGED <<axi, per>>
  BY DEF Load
<1>3. UNCHANGED <<ctl, head, left, pos, cntij_threshold, cnt_ij, cnt_k, location_cnt, batch, per>>
  BY <1>2 DEF axi
<1>4. K' = K
  BY <1>3 DEF K, PerKernel
<1> QED BY <1>1, <1>3, <1>4 DEF Load, Reads, K

LEMMA FinSteps ==
  ASSUME IInv, NEW begin \in BOOLEAN, Load(begin)
  PROVE  fin'[1] = (rd_kernel_state = "end") /\ fin'[2] = fin[1]
<1>1. fin' = <<rd_kernel_state = "end", fin[1]>>
  BY LoadContext
<1> QED BY <1>1, SMT

(* What channels hold of a round keeps its place unless a word is read. *)
LEMMA Same ==
  ASSUME IInv, NEW begin \in BOOLEAN, Load(begin), ~Reads, ~kernel_valid, Taken' = Taken,
         Rounds' = Rounds
  PROVE  Progress'
<1>1. /\ pos' = pos /\ due' = due /\ per' = per /\ cnt_ij' = cnt_ij /\ cnt_k' = cnt_k
      /\ fifo' = fifo /\ K' = K /\ Taken' = Taken /\ ctl' = ctl /\ head' = head
      /\ left' = left /\ Rounds' = Rounds
  BY LoadContext
<1>2. PICK r \in Nat : Place(r) /\ Lengths(r) /\ Contents(r) /\ Budget(r)
  BY DEF IInv, Progress
<1>3. Place(r)'
  BY <1>1, <1>2 DEF Place
<1>4. Lengths(r)'
  BY <1>1, <1>2 DEF Lengths, Part
<1>5. Contents(r)'
  BY <1>1, <1>2 DEF Contents, Expected
<1>6. Budget(r)'
  BY <1>1, <1>2 DEF Budget
<1> QED BY <1>3, <1>4, <1>5, <1>6 DEF Progress

(* The shift registers take in dout, or hold. *)
LEMMA Shifted ==
  ASSUME IInv, NEW begin \in BOOLEAN, Load(begin)
  PROVE  /\ temp' \in [Channels -> [1..6 -> Int]]
         /\ ~rd_r => temp' = temp
         /\ rd_r => \A i \in Channels : /\ temp'[i][1] = dout[i]
                                       /\ \A m \in 2..6 : temp'[i][m] = temp[i][m - 1]
<1>1. CASE rd_r
  <2>1. temp' = [i \in Channels |-> <<dout[i]>> \o Front(temp[i])]
    BY <1>1, LoadContext
  <2>2. ASSUME NEW i \in Channels
        PROVE  /\ temp'[i] \in [1..6 -> Int] /\ temp'[i][1] = dout[i]
               /\ \A m \in 2..6 : temp'[i][m] = temp[i][m - 1]
    <3>1. temp[i] \in [1..6 -> Int] /\ dout[i] \in Int
      BY DEF IInv, Types
    <3>2. temp'[i] = <<dout[i]>> \o Front(temp[i])
      BY <2>1
    <3> DEFINE v == dout[i]
               w == temp[i]
    <3>3. /\ <<v>> \o Front(w) \in [1..6 -> Int] /\ (<<v>> \o Front(w))[1] = v
          /\ \A m \in 2..6 : (<<v>> \o Front(w))[m] = w[m - 1]
      <4> HIDE DEF v, w
      <4>1. w \in [1..6 -> Int] /\ v \in Int
        BY <3>1 DEF v, w
      <4> QED BY <4>1, TakeIn
    <3> QED BY <3>2, <3>3
  <2>3. temp' = [i \in Channels |-> temp'[i]]
    BY <2>1
  <2>4. temp' \in [Channels -> [1..6 -> Int]]
    BY <2>2, <2>3, Zenon
  <2> QED BY <2>2, <2>4, <1>1
<1>2. CASE ~rd_r
  BY <1>2, LoadContext DEF IInv, Types
<1> QED BY <1>1, <1>2

(* The types that do not depend on the mode. *)
LEMMA LoadTypes ==
  ASSUME IInv, NEW begin \in BOOLEAN, Load(begin)
  PROVE  Types'
<1>1. /\ ctl' \in {"ready", "judge", "kernel_rd"}
      /\ left' \in Int /\ pos' \in Int /\ cntij_threshold' \in Int
      /\ cnt_ij' \in 0..7 /\ location_cnt' = cnt_ij' /\ cnt_k' \in 0..K' - 1
      /\ batch' \in Nat /\ per' \in 0..8
  BY LoadContext DEF IInv, Types
<1>2. fifo' \in [Channels -> Seq(Int)] /\ dout' \in [Channels -> Int]
  <2>1. CASE Reads
    <3>1. \A i \in Channels : Tail(fifo[i]) \in Seq(Int) /\ Head(fifo[i]) \in Int
      BY <2>1, HeadTailProperties DEF Reads, IInv, Types
    <3> QED BY <3>1, <2>1, LoadContext
  <2>2. CASE ~Reads
    BY <2>2, LoadContext DEF IInv, Types
  <2> QED BY <2>1, <2>2
<1>3. rd_kernel_state' \in {"idle", "read", "end"}
  BY LoadContext, Zenon DEF IInv, Types
<1>4. kernel_cnt' \in 0..K' - 1
  <2>1. kernel_cnt \in 0..K - 1 /\ K \in {2, 6} /\ K' = K
    BY LoadContext DEF IInv, Types
  <2>2. kernel_cnt' = IF Reads /\ kernel_cnt # K - 1 THEN kernel_cnt + 1
                      ELSE IF Reads THEN 0 ELSE kernel_cnt
    BY LoadContext
  <2> QED BY <2>1, <2>2, SMT
<1>5. rd_r' \in BOOLEAN /\ fin'[1] \in BOOLEAN /\ fin'[2] \in BOOLEAN /\ kernel_valid' \in BOOLEAN
      /\ pending' \in BOOLEAN
  <2>1. fin'[1] = (rd_kernel_state = "end") /\ fin'[2] = fin[1]
    BY FinSteps
  <2> QED BY <2>1, LoadContext DEF IInv, Types, Reads
<1>6. due' \in Int
  <2>1. due \in Int /\ per \in 0..8 /\ K \in {2, 6}
    BY LoadContext DEF IInv, Types
  <2>2. due' = due \/ due' = due + per * K
    BY LoadContext, Zenon
  <2> QED BY <2>1, <2>2, SMT
<1> QED BY <1>1, <1>2, <1>3, <1>4, <1>5, <1>6, Shifted DEF Types

(* Nothing in flight: a round may begin. *)
LEMMA LoadIdle ==
  ASSUME IInv, NEW begin \in BOOLEAN, Load(begin),
         rd_kernel_state = "idle", ~fin[1], ~fin[2], ~kernel_valid
  PROVE  IInv'
<1>1. /\ ~rd_r /\ kernel_cnt = 0 /\ ~Reads /\ ~Past
  BY Zenon DEF IInv, OneRound, Reads, Past
<1>2. /\ kernel_cnt' = 0 /\ rd_r' = FALSE /\ dout' = dout /\ temp' = temp
      /\ ~kernel_valid' /\ rd_kernel_state' = IF begin THEN "read" ELSE "idle"
      /\ pending' = (pending /\ ~begin) /\ (begin => pending) /\ K' = K
  BY <1>1, LoadContext
<1>3. ~fin'[1] /\ ~fin'[2]
  <2>1. fin'[1] = (rd_kernel_state = "end") /\ fin'[2] = fin[1]
    BY FinSteps
  <2> QED BY <2>1
<1>4. ~Past' /\ Taken = 0 /\ Taken' = 0 /\ Busy' = Busy
  BY <1>1, <1>2, <1>3, Zenon DEF Past, Taken, Busy
<1>5. Rounds' = Rounds
  BY <1>4, LoadContext DEF Rounds
<1>6. Progress'
  BY <1>1, <1>4, <1>5, Same
<1>7. OneRound'
  BY <1>2, <1>3, Zenon DEF OneRound
<1>8. Writer'
  BY LoadContext DEF IInv, Writer
<1>9. Pipeline' /\ RoundGetsItsKernels'
  <2>1. RoundGetsItsKernels'
    BY <1>2 DEF RoundGetsItsKernels
  <2>2. \A m \in 1..6 : ~(m <= 0)
    BY SMT
  <2> QED BY <1>2, <1>4, <2>1, <2>2, Zenon DEF Pipeline
<1> QED BY <1>6, <1>7, <1>8, <1>9, LoadTypes DEF IInv

(* The words of a round are read. *)
LEMMA LoadRead ==
  ASSUME IInv, NEW begin \in BOOLEAN, Load(begin), rd_kernel_state = "read"
  PROVE  IInv'
<1>1. /\ ~fin[1] /\ ~fin[2] /\ ~kernel_valid /\ ~Past /\ Taken = kernel_cnt /\ Busy
      /\ ~pending /\ ~begin
  BY LoadContext, Zenon DEF IInv, OneRound, Past, Taken, Busy
<1>2. ~fin'[1] /\ ~fin'[2] /\ ~kernel_valid' /\ ~pending'
  <2>1. fin'[1] = (rd_kernel_state = "end") /\ fin'[2] = fin[1]
    BY FinSteps
  <2> QED BY <2>1, <1>1, LoadContext
<1>3. /\ K \in {2, 6} /\ K' = K /\ due' = due /\ per' = per /\ batch' = batch
      /\ kernel_cnt \in 0..K - 1 /\ per \in 0..8 /\ due \in Int
  BY <1>1, LoadContext DEF IInv, Types
<1>4. /\ rd_kernel_state' = IF Reads /\ kernel_cnt = K - 1 THEN "end" ELSE "read"
      /\ kernel_cnt' = IF Reads /\ kernel_cnt # K - 1 THEN kernel_cnt + 1
                       ELSE IF Reads THEN 0 ELSE kernel_cnt
      /\ rd_r' = Reads
  BY LoadContext
<1>5. rd_kernel_state' \in {"read", "end"} /\ Busy' /\ Rounds' = Rounds
  <2>1. rd_kernel_state' \in {"read", "end"}
    BY <1>4
  <2>2. Busy'
    BY <2>1 DEF Busy
  <2> QED BY <2>1, <2>2, <1>1, <1>3 DEF Rounds
<1>6. Taken' = IF Reads THEN Taken + 1 ELSE Taken
  <2>1. CASE Reads /\ kernel_cnt = K - 1
    <3>1. Past' /\ Taken' = K
      BY <2>1, <1>3, <1>4 DEF Past, Taken
    <3> QED BY <3>1, <2>1, <1>1, <1>3, SMT
  <2>2. CASE ~(Reads /\ kernel_cnt = K - 1)
    <3>1. rd_kernel_state' = "read" /\ ~Past' /\ Taken' = kernel_cnt'
      BY <2>2, <1>2, <1>4, Zenon DEF Past, Taken
    <3> QED BY <3>1, <2>2, <1>1, <1>4
  <2> QED BY <2>1, <2>2
<1>7. OneRound'
  <2>1. rd_kernel_state' # "read" => kernel_cnt' = 0
    BY <1>4
  <2>2. rd_r' => rd_kernel_state' = "end" \/ (rd_kernel_state' = "read" /\ kernel_cnt' > 0)
    <3>1. Reads /\ kernel_cnt # K - 1 => kernel_cnt' > 0
      BY <1>3, <1>4, SMT
    <3>2. CASE kernel_cnt = K - 1
      <4>1. Reads => rd_kernel_state' = "end"
        BY <3>2, <1>4
      <4> QED BY <4>1, <1>4
    <3>3. CASE kernel_cnt # K - 1
      <4>1. rd_kernel_state' = "read"
        BY <3>3, <1>4
      <4>2. rd_r' => kernel_cnt' > 0
        BY <3>1, <3>3, <1>4
      <4> QED BY <4>1, <4>2
    <3> QED BY <3>2, <3>3
  <2>3. rd_kernel_state' = "end" => rd_r'
    BY <1>4
  <2> QED BY <2>1, <2>2, <2>3, <1>2 DEF OneRound
<1>8. Writer'
  BY LoadContext DEF IInv, Writer
<1>9. RoundGetsItsKernels'
  BY <1>2 DEF RoundGetsItsKernels
<1>10. Progress' /\ (Reads => \A i \in Channels : dout'[i] = Expected(i, 0, Taken))
  <2>1. CASE ~Reads
    BY <2>1, <1>1, <1>5, <1>6, Same
  <2>2. CASE Reads
    <3>1. PICK r \in Nat : Place(r) /\ Lengths(r) /\ Contents(r) /\ Budget(r)
      BY DEF IInv, Progress
    <3>2. /\ pos' = pos /\ cnt_ij' = cnt_ij /\ cnt_k' = cnt_k /\ ctl' = ctl
          /\ head' = head /\ left' = left /\ Taken' = Taken + 1 /\ Taken \in 0..K - 1
      BY <2>2, <1>1, <1>3, <1>6, LoadContext
    <3>3. ASSUME NEW i \in Channels
          PROVE  /\ fifo[i] \in Seq(Int) /\ Len(fifo[i]) \in Nat /\ Len(fifo[i]) >= 1
                 /\ fifo'[i] \in Seq(Int) /\ Len(fifo'[i]) = Len(fifo[i]) - 1
                 /\ \A n \in 1..Len(fifo'[i]) : fifo'[i][n] = fifo[i][n + 1]
                 /\ dout'[i] = fifo[i][1]
      <4> DEFINE f == fifo[i]
      <4>1. f \in Seq(Int) /\ f # <<>>
        BY <2>2 DEF Reads, IInv, Types
      <4>2. fifo'[i] = Tail(f) /\ dout'[i] = Head(f)
        BY <2>2, LoadContext
      <4> HIDE DEF f
      <4>3. /\ Tail(f) \in Seq(Int) /\ Len(Tail(f)) = Len(f) - 1
            /\ \A n \in 1..Len(Tail(f)) : Tail(f)[n] = f[n + 1]
        BY <4>1, HeadTailProperties
      <4>4. Head(f) = f[1] /\ Len(f) \in Nat /\ Len(f) >= 1
        BY <4>1, EmptySeq, SMT
      <4> QED BY <4>1, <4>2, <4>3, <4>4 DEF f
    <3>4. Place(r)'
      BY <1>3, <3>1, <3>2 DEF Place
    <3>5. Lengths(r)'
      <4>1. ASSUME NEW i \in Channels PROVE Len(fifo'[i]) + Taken' = r * K' + Part(i)'
        <5>1. Part(i)' = Part(i)
          BY <1>3, <3>2 DEF Part
        <5>2. Len(fifo[i]) + Taken = r * K + Part(i)
          BY <3>1 DEF Lengths
        <5>3. Len(fifo'[i]) + Taken' = Len(fifo[i]) + Taken
          <6>1. Len(fifo[i]) \in Nat /\ Len(fifo'[i]) = Len(fifo[i]) - 1
            BY <3>3
          <6>2. Taken' = Taken + 1 /\ Taken \in Int
            BY <3>2, <1>3, SMT
          <6> DEFINE a == Len(fifo[i])
                     b == Len(fifo'[i])
          <6>3. a \in Nat /\ b = a - 1
            BY <6>1
          <6> HIDE DEF a, b
          <6>4. b + Taken' = a + Taken
            BY <6>2, <6>3, SMT
          <6> QED BY <6>4 DEF a, b
        <5> QED BY <5>1, <5>2, <5>3, <1>3
      <4> QED BY <4>1 DEF Lengths
    <3>6. Contents(r)'
      <4>1. ASSUME NEW i \in Channels, NEW n \in 1..Len(fifo'[i]), NEW q \in Nat,
                   NEW j \in 0..K - 1, Taken' + n = q * K + j + 1
            PROVE  fifo'[i][n] = Expected(i, q, j)
        <5>1. n + 1 \in 1..Len(fifo[i]) /\ fifo'[i][n] = fifo[i][n + 1]
          BY <3>3, SMT
        <5>2. Taken + (n + 1) = q * K + j + 1
          BY <4>1, <3>2, <1>3, SMT
        <5> QED BY <5>1, <5>2, <3>1 DEF Contents
      <4> QED BY <4>1, <1>3 DEF Contents, Expected
    <3>7. Budget(r)'
      BY <1>3, <1>5, <3>1, <3>2 DEF Budget
    <3>8. \A i \in Channels : dout'[i] = Expected(i, 0, Taken)
      <4>1. Taken + 1 = 0 * K + Taken + 1
        BY <1>3, <3>2, SMT
      <4>2. ASSUME NEW i \in Channels PROVE fifo[i][1] = Expected(i, 0, Taken)
        <5>1. 1 \in 1..Len(fifo[i])
          BY <3>3, SMT
        <5> QED BY <5>1, <4>1, <3>1, <3>2, 0 \in Nat DEF Contents
      <4> QED BY <4>2, <3>3
    <3> QED BY <3>4, <3>5, <3>6, <3>7, <3>8 DEF Progress
  <2> QED BY <2>1, <2>2
<1>11. Taken \in Nat /\ Taken' - (IF Reads THEN 1 ELSE 0) = Taken
  BY <1>1, <1>3, <1>6, SMT
<1>13. Pipeline'
  <2>1. ASSUME rd_r', NEW i \in Channels PROVE dout'[i] = Expected(i, 0, Taken' - 1)
    <3>1. Reads /\ Taken' - 1 = Taken
      BY <2>1, <1>4, <1>11
    <3> QED BY <3>1, <1>3, <1>10 DEF Expected
  <2>2. ASSUME NEW i \in Channels, NEW m \in 1..6, m <= Taken
        PROVE  temp'[i][m] = Expected(i, 0, Taken - m)
    <3>1. CASE rd_r
      <4>1. CASE m = 1
        <5>1. temp'[i][m] = dout[i]
          BY <3>1, <4>1, Shifted
        <5> QED BY <5>1, <3>1, <4>1 DEF IInv, Pipeline
      <4>2. CASE m # 1
        <5>1. m - 1 \in 1..6 /\ m \in 2..6 /\ m - 1 <= Taken - 1
              /\ (Taken - 1) - (m - 1) = Taken - m
          BY <2>2, <4>2, <1>11, SMT
        <5>2. temp'[i][m] = temp[i][m - 1]
          BY <5>1, <3>1, Shifted
        <5>3. temp[i][m - 1] = Expected(i, 0, (Taken - 1) - (m - 1))
          BY <5>1, <3>1 DEF IInv, Pipeline
        <5> QED BY <5>1, <5>2, <5>3
      <4> QED BY <4>1, <4>2
    <3>2. CASE ~rd_r
      BY <2>2, <3>2, Shifted DEF IInv, Pipeline
    <3> QED BY <3>1, <3>2
  <2>3. (IF rd_r' THEN Taken' - 1 ELSE Taken') = Taken
    BY <1>4, <1>6, <1>11, SMT
  <2> QED BY <2>1, <2>2, <2>3, <1>3 DEF Pipeline, Expected
<1> QED BY <1>7, <1>8, <1>9, <1>10, <1>13, LoadTypes DEF IInv

(* The last word goes into the shift registers. *)
LEMMA LoadEnd ==
  ASSUME IInv, NEW begin \in BOOLEAN, Load(begin), rd_kernel_state = "end"
  PROVE  IInv'
<1>1. /\ rd_r /\ ~fin[1] /\ ~fin[2] /\ ~kernel_valid /\ ~pending /\ ~begin /\ ~Reads
      /\ Past /\ Busy /\ Taken = K /\ kernel_cnt = 0
  BY LoadContext DEF IInv, OneRound, Reads, Past, Busy, Taken
<1>2. fin'[1] /\ ~fin'[2]
  <2>1. fin'[1] = (rd_kernel_state = "end") /\ fin'[2] = fin[1]
    BY FinSteps
  <2> QED BY <2>1, <1>1
<1>3. /\ K \in {2, 6} /\ K' = K /\ due' = due /\ per' = per /\ batch' = batch
      /\ rd_kernel_state' = "idle" /\ ~pending' /\ ~kernel_valid' /\ ~rd_r' /\ kernel_cnt' = 0
  BY <1>1, LoadContext
<1>4. Past' /\ Busy' /\ Taken' = K /\ Rounds' = Rounds
  <2>1. Past' /\ Busy'
    BY <1>2 DEF Past, Busy
  <2> QED BY <2>1, <1>1, <1>3 DEF Taken, Rounds
<1>5. Progress'
  BY <1>1, <1>4, Same
<1>6. OneRound'
  BY <1>2, <1>3 DEF OneRound
<1>7. Writer'
  BY LoadContext DEF IInv, Writer
<1>8. RoundGetsItsKernels'
  BY <1>3 DEF RoundGetsItsKernels
<1>9. Pipeline'
  <2>1. ASSUME NEW i \in Channels, NEW m \in 1..6, m <= K
        PROVE  temp'[i][m] = Expected(i, 0, K - m)
    <3>1. CASE m = 1
      <4>1. temp'[i][m] = dout[i]
        BY <3>1, <1>1, Shifted
      <4> QED BY <4>1, <3>1, <1>1 DEF IInv, Pipeline
    <3>2. CASE m # 1
      <4>1. m - 1 \in 1..6 /\ m \in 2..6 /\ m - 1 <= K - 1 /\ (K - 1) - (m - 1) = K - m
        BY <2>1, <3>2, <1>3, SMT
      <4>2. temp'[i][m] = temp[i][m - 1]
        BY <4>1, <1>1, Shifted
      <4>3. temp[i][m - 1] = Expected(i, 0, (K - 1) - (m - 1))
        BY <4>1, <1>1 DEF IInv, Pipeline
      <4> QED BY <4>1, <4>2, <4>3
    <3> QED BY <3>1, <3>2
  <2> QED BY <2>1, <1>3, <1>4 DEF Pipeline, Expected
<1> QED BY <1>5, <1>6, <1>7, <1>8, <1>9, LoadTypes DEF IInv

(* load_kernel_finish. *)
LEMMA LoadFinish ==
  ASSUME IInv, NEW begin \in BOOLEAN, Load(begin), fin[1]
  PROVE  IInv'
<1>1. /\ rd_kernel_state = "idle" /\ ~rd_r /\ ~fin[2] /\ ~kernel_valid /\ ~pending /\ ~begin
      /\ ~Reads /\ Past /\ Busy /\ Taken = K /\ kernel_cnt = 0
  BY LoadContext, Zenon DEF IInv, Types, OneRound, Reads, Past, Busy, Taken
<1>2. ~fin'[1] /\ fin'[2]
  <2>1. fin'[1] = (rd_kernel_state = "end") /\ fin'[2] = fin[1]
    BY FinSteps
  <2> QED BY <2>1, <1>1
<1>3. /\ K \in {2, 6} /\ K' = K /\ due' = due /\ per' = per /\ batch' = batch
      /\ rd_kernel_state' = "idle" /\ ~pending' /\ ~kernel_valid' /\ ~rd_r' /\ kernel_cnt' = 0
      /\ temp' = temp
  BY <1>1, LoadContext
<1>4. Past' /\ Busy' /\ Taken' = K /\ Rounds' = Rounds
  <2>1. Past' /\ Busy'
    BY <1>2 DEF Past, Busy
  <2> QED BY <2>1, <1>1, <1>3 DEF Taken, Rounds
<1>5. Progress'
  BY <1>1, <1>4, Same
<1>6. OneRound'
  BY <1>2, <1>3 DEF OneRound
<1>7. Writer'
  BY LoadContext DEF IInv, Writer
<1>8. RoundGetsItsKernels'
  BY <1>3 DEF RoundGetsItsKernels
<1>9. Pipeline'
  <2>1. \A i \in Channels, m \in 1..6 : m <= K => temp[i][m] = Expected(i, 0, K - m)
    BY <1>1 DEF IInv, Pipeline
  <2> QED BY <2>1, <1>3, <1>4 DEF Pipeline, Expected
<1> QED BY <1>5, <1>6, <1>7, <1>8, <1>9, LoadTypes DEF IInv

(* kernel_q takes the round over. *)
LEMMA LoadDeliver ==
  ASSUME IInv, NEW begin \in BOOLEAN, Load(begin), fin[2]
  PROVE  IInv'
<1>1. /\ rd_kernel_state = "idle" /\ ~rd_r /\ ~fin[1] /\ ~kernel_valid /\ ~pending /\ ~begin
      /\ ~Reads /\ Past /\ Busy /\ Taken = K /\ kernel_cnt = 0
  BY LoadContext, Zenon DEF IInv, Types, OneRound, Reads, Past, Busy, Taken
<1>2. ~fin'[1] /\ ~fin'[2]
  <2>1. fin'[1] = (rd_kernel_state = "end") /\ fin'[2] = fin[1]
    BY FinSteps
  <2> QED BY <2>1, <1>1
<1>3. /\ K \in {2, 6} /\ K' = K /\ due' = due /\ per' = per /\ batch' = batch
      /\ rd_kernel_state' = "idle" /\ ~pending' /\ kernel_valid' /\ ~rd_r' /\ kernel_cnt' = 0
      /\ head' = head /\ kernel_q' = [i \in Channels |-> Reverse(SubSeq(temp[i], 1, K))]
  BY <1>1, LoadContext
<1>4. Past' /\ Busy' /\ Taken' = K /\ Rounds' = Rounds
  <2>1. Past' /\ Busy'
    BY <1>3 DEF Past, Busy
  <2> QED BY <2>1, <1>1, <1>3 DEF Taken, Rounds
<1>5. Progress'
  BY <1>1, <1>4, Same
<1>6. OneRound'
  BY <1>2, <1>3 DEF OneRound
<1>7. Writer'
  BY LoadContext DEF IInv, Writer
<1>8. RoundGetsItsKernels'
  <2>1. ASSUME NEW i \in Channels
        PROVE  kernel_q'[i] = [j \in 1..K |-> IF i < per THEN due + i * K + j - 1 ELSE Zero]
    <3>1. temp[i] \in [1..6 -> Int]
      BY DEF IInv, Types
    <3>2. kernel_q'[i] = [j \in 1..K |-> temp[i][K + 1 - j]]
      BY <1>3, <3>1, TakeOut
    <3>3. ASSUME NEW j \in 1..K
          PROVE  temp[i][K + 1 - j] = IF i < per THEN due + i * K + j - 1 ELSE Zero
      <4>1. K + 1 - j \in 1..6 /\ K + 1 - j <= K /\ K - (K + 1 - j) = j - 1
        BY <1>3, SMT
      <4>2. temp[i][K + 1 - j] = Expected(i, 0, j - 1)
        BY <4>1, <1>1 DEF IInv, Pipeline
      <4>3. due + (0 * per + i) * K + (j - 1) = due + i * K + j - 1
        <5>1. due \in Int /\ per \in Int /\ i \in Int
          BY SMT DEF IInv, Types, Channels
        <5> QED BY <5>1, <1>3, SMT
      <4> QED BY <4>2, <4>3 DEF Expected
    <3> QED BY <3>2, <3>3
  <2> QED BY <2>1, <1>3 DEF RoundGetsItsKernels, K
<1>9. Pipeline'
  BY <1>2, <1>3 DEF Pipeline
<1> QED BY <1>5, <1>6, <1>7, <1>8, <1>9, LoadTypes DEF IInv

(* The round is over: its words lie behind. *)
LEMMA LoadOver ==
  ASSUME IInv, NEW begin \in BOOLEAN, Load(begin), kernel_valid
  PROVE  IInv'
<1>1. /\ rd_kernel_state = "idle" /\ ~rd_r /\ ~fin[1] /\ ~fin[2] /\ ~pending /\ ~begin
      /\ ~Reads /\ Past /\ Busy /\ Taken = K /\ kernel_cnt = 0 /\ Rounds = batch + 1
  BY LoadContext, Zenon DEF IInv, Types, OneRound, Reads, Past, Busy, Taken, Rounds
<1>2. ~fin'[1] /\ ~fin'[2]
  <2>1. fin'[1] = (rd_kernel_state = "end") /\ fin'[2] = fin[1]
    BY FinSteps
  <2> QED BY <2>1, <1>1
<1>3. /\ K \in {2, 6} /\ K' = K /\ due' = due + per * K /\ per' = per /\ batch' = batch
      /\ rd_kernel_state' = "idle" /\ ~pending' /\ ~kernel_valid' /\ ~rd_r' /\ kernel_cnt' = 0
      /\ ctl' = ctl /\ head' = head /\ left' = left /\ pos' = pos /\ fifo' = fifo
      /\ cnt_ij' = cnt_ij /\ cnt_k' = cnt_k
  BY <1>1, LoadContext
<1>4. ~Past' /\ ~Busy' /\ Taken' = 0 /\ Rounds' = batch
  <2>1. ~Past' /\ ~Busy'
    BY <1>2, <1>3 DEF Past, Busy
  <2> QED BY <2>1, <1>3 DEF Taken, Rounds
<1>5. OneRound'
  BY <1>2, <1>3 DEF OneRound
<1>6. Writer'
  BY LoadContext DEF IInv, Writer
<1>7. RoundGetsItsKernels' /\ Pipeline'
  BY <1>2, <1>3 DEF RoundGetsItsKernels, Pipeline
<1>8. Progress'
  <2>1. PICK r \in Nat : Place(r) /\ Lengths(r) /\ Contents(r) /\ Budget(r)
    BY DEF IInv, Progress
  <2>2. /\ batch \in Nat /\ per \in 0..8 /\ due \in Int /\ pos \in Int
        /\ cnt_ij \in 0..7 /\ cnt_k \in 0..K - 1 /\ left \in Int
    BY DEF IInv, Types
  <2>3. r >= 1
    <3>1. 7 \in Channels
      BY SMT DEF Channels
    <3>2. Len(fifo[7]) \in Nat
      BY <3>1, LenProperties DEF IInv, Types
    <3>3. Len(fifo[7]) + K = r * K + Part(7)
      BY <2>1, <3>1, <1>1 DEF Lengths
    <3>4. Part(7) < K /\ Part(7) \in Nat
      BY <2>2, <1>3, SMT DEF Part
    <3> QED BY <3>2, <3>3, <3>4, <1>3, SMT
  <2> DEFINE s == r - 1
  <2>4. s \in Nat /\ r = s + 1
    BY <2>3, SMT
  <2> HIDE DEF s
  <2>5. Place(s)'
    <3>1. due + (r * per + cnt_ij) * K + cnt_k = (due + per * K) + (s * per + cnt_ij) * K + cnt_k
      BY <2>2, <2>4, <1>3, SMT
    <3> QED BY <3>1, <2>1, <1>3 DEF Place
  <2>6. Lengths(s)'
    <3>1. ASSUME NEW i \in Channels PROVE Len(fifo'[i]) + Taken' = s * K' + Part(i)'
      <4>1. Part(i)' = Part(i) /\ Part(i) \in Int
        BY <1>3, <2>2, SMT DEF Part
      <4>2. Len(fifo[i]) \in Nat /\ Len(fifo[i]) + K = r * K + Part(i)
        BY <2>1, <1>1, LenProperties DEF Lengths, IInv, Types
      <4>3. Len(fifo[i]) + 0 = s * K + Part(i)
        BY <4>1, <4>2, <2>4, <1>3, SMT
      <4> QED BY <4>1, <4>3, <1>3, <1>4
    <3> QED BY <3>1 DEF Lengths
  <2>7. Contents(s)'
    <3>1. ASSUME NEW i \in Channels, NEW n \in 1..Len(fifo[i]), NEW q \in Nat,
                 NEW j \in 0..K - 1, 0 + n = q * K + j + 1
          PROVE  fifo[i][n] = IF i < per THEN (due + per * K) + (q * per + i) * K + j ELSE Zero
      <4>1. q + 1 \in Nat /\ K + n = (q + 1) * K + j + 1 /\ i \in Int
        BY <3>1, <1>3, SMT DEF Channels
      <4>2. fifo[i][n] = Expected(i, q + 1, j)
        BY <4>1, <2>1, <1>1 DEF Contents
      <4>3. due + ((q + 1) * per + i) * K + j = (due + per * K) + (q * per + i) * K + j
        BY <4>1, <2>2, <1>3, SMT
      <4> QED BY <4>2, <4>3 DEF Expected
    <3> QED BY <3>1, <1>3, <1>4 DEF Contents, Expected
  <2>8. Budget(s)'
    <3>1. s = Rounds' <=> r = Rounds
      BY <1>1, <1>4, <2>2, <2>4, SMT
    <3>2. ~(ctl = "judge" /\ head.filters # 0)
      BY <2>1, <2>3 DEF Budget
    <3>3. Rounds' - s = Rounds - r
      BY <1>1, <1>4, <2>2, <2>4, SMT
    <3> QED BY <3>1, <3>2, <3>3, <2>1, <1>3 DEF Budget
  <2> QED BY <2>4, <2>5, <2>6, <2>7, <2>8 DEF Progress
<1> QED BY <1>5, <1>6, <1>7, <1>8, LoadTypes DEF IInv

-----------------------------------------------------------------------------
LEMMA StutterKeeps ==
  ASSUME IInv, UNCHANGED vars
  PROVE  IInv'
<1>1. /\ ctl' = ctl /\ head' = head /\ left' = left /\ pos' = pos
      /\ cntij_threshold' = cntij_threshold /\ cnt_ij' = cnt_ij /\ cnt_k' = cnt_k
      /\ location_cnt' = location_cnt /\ batch' = batch /\ fifo' = fifo
      /\ rd_kernel_state' = rd_kernel_state /\ kernel_cnt' = kernel_cnt /\ rd_r' = rd_r
      /\ dout' = dout /\ temp' = temp /\ fin' = fin /\ kernel_valid' = kernel_valid
      /\ kernel_q' = kernel_q /\ due' = due /\ pending' = pending /\ per' = per
  BY DEF vars, axi, deal
<1>2. K' = K /\ Past' = Past /\ Busy' = Busy
  BY <1>1 DEF K, PerKernel, Past, Busy
<1>3. Taken' = Taken /\ Rounds' = Rounds
  BY <1>1, <1>2 DEF Taken, Rounds
<1>4. PICK r \in Nat : Place(r) /\ Lengths(r) /\ Contents(r) /\ Budget(r)
  BY DEF IInv, Progress
<1>5. Place(r)' /\ Budget(r)'
  BY <1>1, <1>2, <1>3, <1>4 DEF Place, Budget
<1>6. Lengths(r)'
  BY <1>1, <1>2, <1>3, <1>4 DEF Lengths, Part
<1>7. Contents(r)'
  BY <1>1, <1>2, <1>3, <1>4 DEF Contents, Expected
<1>8. Pipeline'
  BY <1>1, <1>2, <1>3 DEF IInv, Pipeline, Expected
<1>9. Types' /\ OneRound' /\ Writer' /\ RoundGetsItsKernels'
  BY <1>1, <1>2, <1>3 DEF IInv, Types, OneRound, Writer, RoundGetsItsKernels
<1> QED BY <1>5, <1>6, <1>7, <1>8, <1>9 DEF IInv, Progress

(* For every set of heads whose kernels both ends count alike, however long the
   network and however the words and the loads of load_kernel.v come: what a
   round has in kernel_q are its own kernels, in their order.                *)
THEOREM KernelsOfRound ==
  ASSUME CountsAgree(Heads)
  PROVE  Spec => []RoundGetsItsKernels
<1>1. IInv /\ [Next]_vars => IInv'
  <2> SUFFICES ASSUME IInv, [Next]_vars PROVE IInv'
    OBVIOUS
  <2>1. ASSUME NEW h \in Heads, Iterate(h) PROVE IInv'
    BY <2>1, IterateKeeps
  <2>2. CASE Judge
    BY <2>2, JudgeKeeps
  <2>3. CASE Word
    BY <2>3, WordKeeps
  <2>4. ASSUME NEW begin \in BOOLEAN, Load(begin) PROVE IInv'
    <3>1. CASE rd_kernel_state = "read"
      BY <2>4, <3>1, LoadRead
    <3>2. CASE rd_kernel_state = "end"
      BY <2>4, <3>2, LoadEnd
    <3>3. CASE fin[1]
      BY <2>4, <3>3, LoadFinish
    <3>4. CASE fin[2]
      BY <2>4, <3>4, LoadDeliver
    <3>5. CASE kernel_valid
      BY <2>4, <3>5, LoadOver
    <3>6. CASE rd_kernel_state = "idle" /\ ~fin[1] /\ ~fin[2] /\ ~kernel_valid
      BY <2>4, <3>6, LoadIdle
    <3>7. rd_kernel_state \in {"idle", "read", "end"}
      BY DEF IInv, Types
    <3> QED BY <3>1, <3>2, <3>3, <3>4, <3>5, <3>6, <3>7
  <2>5. CASE UNCHANGED vars
    BY <2>5, StutterKeeps
  <2> QED BY <2>1, <2>2, <2>3, <2>4, <2>5 DEF Next
<1>2. IInv => RoundGetsItsKernels
  BY DEF IInv
<1> QED BY InitIInv, <1>1, <1>2, PTL DEF Spec

(* Which heads these are: an even number of kernels in a filter, and kernels for
   one round of up to eight or for an odd number of rounds of eight (the count
   of a round has four bits), fewer words than the product has room for.  Heads
   that bring no kernels are of the size of those that bring them.           *)
THEOREM EvenKernelsAgree ==
  ASSUME \A h \in Heads : h.filters # 0 =>
           /\ h.kernels % 2 = 0
           /\ \/ h.filters * h.kernels <= 8
              \/ h.filters * h.kernels % 16 = 8 /\ h.filters * h.kernels <= 5461,
         \A g, h \in Heads : g.filters * g.kernels > 8 /\ h.filters = 0 => h.size = g.size
  PROVE  CountsAgree(Heads)
<1>1. ASSUME NEW h \in Heads, h.filters # 0
      PROVE  /\ h.filters * h.kernels = PerRound(h) * (1 + (h.filters * h.kernels - 1) \div 8)
             /\ Words(h) = h.filters * h.kernels * PerKernel(h)
  <2> DEFINE f == h.filters
             k == h.kernels
             t == f * k
             s == IF h.size = 1 THEN 4 ELSE 12
  <2>1. f \in Nat /\ k \in Nat /\ t \in Nat /\ PerRound(h) \in 1..8 /\ PerRound(h) = t % 16
    BY <1>1, PerOfHead DEF PerRound
  <2>2. k % 2 = 0 /\ (t <= 8 \/ (t % 16 = 8 /\ t <= 5461))
    BY <1>1
  <2>3. PerKernel(h) = s \div 2 /\ s \in {4, 12}
    BY DEF PerKernel
  <2>4. Words(h) = ((f * (k * s + (k % 2))) % 65536) \div 2
    BY DEF Words
  <2> HIDE DEF s
  <2>5. f * (k * s + (k % 2)) = t * s
    <3>1. k * s + (k % 2) = k * s
      BY <2>1, <2>2, <2>3, SMT
    <3>2. \A a, b, c \in Nat : a * (b * c) = (a * b) * c
      BY SMT
    <3> QED BY <3>1, <3>2, <2>1, <2>3, SMT
  <2> HIDE DEF t
  <2>6. t * s < 65536 /\ t * s \in Nat
    BY <2>1, <2>2, <2>3, SMT
  <2>7. Words(h) = t * PerKernel(h)
    <3>1. Words(h) = (t * s) \div 2
      BY <2>4, <2>5, <2>6, SMT
    <3>2. CASE s = 4
      BY <3>1, <3>2, <2>1, <2>3, SMT
    <3>3. CASE s = 12
      BY <3>1, <3>3, <2>1, <2>3, SMT
    <3> QED BY <3>2, <3>3, <2>3
  <2>8. t = PerRound(h) * (1 + (t - 1) \div 8)
    <3>1. t >= 1
      BY <2>1, SMT
    <3>2. CASE t <= 8
      BY <2>1, <3>1, <3>2, SMT
    <3>3. CASE t % 16 = 8
      BY <2>1, <3>1, <3>3, SMT
    <3> QED BY <3>2, <3>3, <2>2
  <2> QED BY <2>7, <2>8 DEF t
<1> QED BY <1>1 DEF CountsAgree

-----------------------------------------------------------------------------
(* Proofs about UpdateFifo.  The FIFO neither overflows nor runs dry for any
   sizes and latencies its assumptions allow.  Both directions need each
   other: the room for the words on their way is counted with a read pointer
   seen two edges late, which is a lower bound of the true one only as long as
   no pixel is taken that is not there; and that the reader finds its pixel
   follows from the words on their way, which come only if none is dropped.

   A word count w and a pixel count t stand for the registers w % 32, t % 64. *)

Bit(x) == IF x = NoWord THEN 0 ELSE 1
InFlight == Bit(pipe[1]) + Bit(pipe[2]) + Bit(pipe[3]) + Bit(pipe[4]) + Bit(pipe[5])

UpdateTypes ==
  /\ size \in Sizes /\ fifo_clc \in BOOLEAN /\ fifo_rd_period \in BOOLEAN
  /\ finishR \in BOOLEAN /\ row \in Nat /\ col \in Nat
  /\ pipe \in [1..5 -> Int] /\ ram \in [0..DEPTH - 1 -> Int]
  /\ wr_cnt \in 0..31 /\ rd_cnt \in 0..63 /\ rdR \in [1..2 -> 0..63]
  /\ prog_full \in BOOLEAN /\ round \in {"off", "plain", "sum"}
  /\ age \in Nat /\ written \in Nat /\ taken \in Nat

Empty == \A i \in 1..5 : pipe[i] = NoWord
Zeroed == wr_cnt = 0 /\ rd_cnt = 0 /\ written = 0 /\ taken = 0
Fresh == Zeroed /\ rdR[1] = 0 /\ rdR[2] = 0 /\ ~prog_full
Clean == Fresh /\ Empty /\ ~fifo_rd_period /\ ~finishR

(* The edges after maxpooling_finish, until nothing is left of the round. *)
Draining ==
  /\ round = "off" /\ age < 5 /\ ~fifo_rd_period
  /\ finishR <=> age = 0
  /\ age = 0 => NoWordDropped
  /\ age >= 1 => fifo_clc
  /\ \A i \in 1..5 : i <= age => pipe[i] = NoWord
  /\ age >= 2 => Zeroed
  /\ age >= 3 => rdR[1] = 0
  /\ age >= 4 => rdR[2] = 0

Resting == round = "off" /\ age >= 5 /\ Clean

Plain == round = "plain" /\ ~fifo_clc /\ Clean

(* The edges after infor_update, until the first word is in the FIFO. *)
Filling ==
  /\ round = "sum" /\ age < 6 /\ ~fifo_clc /\ ~finishR /\ fifo_rd_period /\ Fresh
  /\ \A i \in 1..5 : pipe[i] = NoWord <=> i > age

(* The counts behind the registers: s and z are the pixels taken one and two
   edges ago.  There is room for the words on their way, also for one more if
   the flag is down.                                                         *)
Room ==
  /\ wr_cnt = written % 32 /\ rd_cnt = taken % 64
  /\ \E s, z \in Nat :
       /\ s <= taken /\ taken <= s + 1 /\ z <= s /\ s <= z + 1
       /\ rdR[1] = s % 64 /\ rdR[2] = z % 64
       /\ written - (z \div 2) + InFlight <= IF prog_full THEN 16 ELSE 15

(* For each of the edges to come there is a pixel, counting the words that
   arrive by then.                                                           *)
Ahead ==
  /\ 2 * written >= taken + 1
  /\ 2 * written + 2 * Bit(pipe[5]) >= taken + 2
  /\ 2 * written + 2 * (Bit(pipe[5]) + Bit(pipe[4])) >= taken + 3
  /\ 2 * written + 2 * (Bit(pipe[5]) + Bit(pipe[4]) + Bit(pipe[3])) >= taken + 4
  /\ 2 * written + 2 * (Bit(pipe[5]) + Bit(pipe[4]) + Bit(pipe[3]) + Bit(pipe[2]))
       >= taken + 5
  /\ 2 * written + 2 * InFlight >= taken + 6
  /\ prog_full => 2 * written >= taken + 16

Flowing ==
  /\ round = "sum" /\ age >= 6 /\ ~fifo_clc /\ ~finishR /\ fifo_rd_period
  /\ Room /\ Ahead

UpdateInv ==
  /\ UpdateTypes
  /\ Draining \/ Resting \/ Plain \/ Filling \/ Flowing

-----------------------------------------------------------------------------
(* What the comparisons on the registers say of the counts behind them. *)
LEMMA FlagsOfCounts ==
  ASSUME NEW w \in Nat, NEW z \in Nat, z \div 2 <= w, w - (z \div 2) <= 16
  PROVE  /\ Full(w % 32, z % 64) <=> w - (z \div 2) = 16
         /\ ProgFull(w % 32, z % 64) <=> w - (z \div 2) >= 10
PROOF
<1> DEFINE v == z \div 2
<1>1. v \in Nat /\ (z % 64) \div 32 = (v % 32) \div 16 /\ ((z % 64) \div 2) % 16 = v % 16
  BY SMT
<1>2. (w % 32) % 16 = w % 16
  BY SMT
<1>3. v % 32 \in 0..31 /\ w % 32 \in 0..31 /\ v % 16 \in 0..15 /\ w % 16 \in 0..15
  BY <1>1, SMT
<1>4. /\ v % 32 = 16 * ((v % 32) \div 16) + (v % 16) /\ (v % 32) \div 16 \in 0..1
      /\ w % 32 = 16 * ((w % 32) \div 16) + (w % 16) /\ (w % 32) \div 16 \in 0..1
  BY <1>1, SMT
<1>5. (w % 32) - (v % 32) \in {w - v, w - v - 32}
  BY <1>1, SMT
<1> HIDE DEF v
<1>6. Full(w % 32, z % 64) <=> w - v = 16
  BY <1>1, <1>2, <1>3, <1>4, <1>5, SMT DEF Full, v
<1>7. ProgFull(w % 32, z % 64) <=> w - v >= 10
  BY <1>1, <1>2, <1>3, <1>4, <1>5, SMT DEF ProgFull, v
<1> QED BY <1>6, <1>7 DEF v

(* One edge of a round in full flow, in counts: w words, t pixels, b the words
   on their way, n the one that is asked for, r the pixel that is taken.     *)
LEMMA FlowOfCounts ==
  ASSUME NEW w \in Nat, NEW t \in Nat, NEW s \in Nat, NEW z \in Nat,
         NEW b1 \in 0..1, NEW b2 \in 0..1, NEW b3 \in 0..1, NEW b4 \in 0..1,
         NEW b5 \in 0..1, NEW n \in 0..1, NEW r \in 0..1,
         NEW m \in 15..16, NEW m2 \in 15..16,
         s <= t, t <= s + 1, z <= s, s <= z + 1,
         w - (z \div 2) + b1 + b2 + b3 + b4 + b5 <= m,
         m2 = 15 => w - (z \div 2) < 10,
         n = 16 - m,
         2 * w >= t + 1,
         2 * w + 2 * b5 >= t + 2,
         2 * w + 2 * (b5 + b4) >= t + 3,
         2 * w + 2 * (b5 + b4 + b3) >= t + 4,
         2 * w + 2 * (b5 + b4 + b3 + b2) >= t + 5,
         2 * w + 2 * (b1 + b2 + b3 + b4 + b5) >= t + 6,
         m = 16 => 2 * w >= t + 16
  PROVE  /\ w + b5 - (s \div 2) + n + b1 + b2 + b3 + b4 <= m2
         /\ s \div 2 <= w + b5
         /\ 2 * (w + b5) >= t + r + 1
         /\ 2 * (w + b5) + 2 * b4 >= t + r + 2
         /\ 2 * (w + b5) + 2 * (b4 + b3) >= t + r + 3
         /\ 2 * (w + b5) + 2 * (b4 + b3 + b2) >= t + r + 4
         /\ 2 * (w + b5) + 2 * (b4 + b3 + b2 + b1) >= t + r + 5
         /\ 2 * (w + b5) + 2 * (n + b1 + b2 + b3 + b4) >= t + r + 6
         /\ w - (z \div 2) >= 10 => 2 * (w + b5) >= t + r + 16
PROOF
<1>1. s \div 2 \in Nat /\ z \div 2 \in Nat /\ z \div 2 <= s \div 2
  BY SMT
<1>2. 2 * (s \div 2) <= s /\ z <= 2 * (z \div 2) + 1
  BY SMT
<1> QED BY <1>1, <1>2, SMT

-----------------------------------------------------------------------------
LEMMA UpdateInitInv == UpdateInit => UpdateInv
PROOF
<1> SUFFICES ASSUME UpdateInit PROVE UpdateInv
  OBVIOUS
<1>1. UpdateTypes
  <2>1. pipe \in [1..5 -> Int] /\ ram \in [0..DEPTH - 1 -> Int]
    BY SMT DEF UpdateInit, NoWord
  <2>2. rdR \in [1..2 -> 0..63]
    <3>1. rdR = [i \in 1..2 |-> 0] /\ 0 \in 0..63
      BY SMT DEF UpdateInit
    <3> QED BY <3>1
  <2>3. size \in Sizes /\ fifo_clc \in BOOLEAN /\ fifo_rd_period \in BOOLEAN
        /\ finishR \in BOOLEAN /\ prog_full \in BOOLEAN
        /\ round \in {"off", "plain", "sum"}
    BY DEF UpdateInit
  <2>4. /\ row \in Nat /\ col \in Nat /\ wr_cnt \in 0..31 /\ rd_cnt \in 0..63
        /\ age \in Nat /\ written \in Nat /\ taken \in Nat
    BY GapAssumption, SMT DEF UpdateInit
  <2> QED BY <2>1, <2>2, <2>3, <2>4 DEF UpdateTypes
<1>2. Resting
  BY GapAssumption, SMT DEF UpdateInit, Resting, Clean, Fresh, Zeroed, Empty
<1> QED BY <1>1, <1>2 DEF UpdateInv

LEMMA ProgFullIsBoolean ==
  ASSUME NEW w \in Int, NEW r \in Int PROVE ProgFull(w, r) \in BOOLEAN
PROOF
<1>1. ProgFull(w, r) = TRUE \/ ProgFull(w, r) = FALSE
  BY Z3 DEF ProgFull
<1> QED BY <1>1

(* The registers of the FIFO after an edge, one by one. *)
LEMMA PipeStep ==
  ASSUME UpdateTypes, NEW iu \in BOOLEAN, NEW read \in BOOLEAN, Fifo(iu, read)
  PROVE  /\ pipe' \in [1..5 -> Int]
         /\ pipe'[1] = IF deal_PostImage_rd THEN row * size + col ELSE NoWord
         /\ pipe'[2] = pipe[1] /\ pipe'[3] = pipe[2]
         /\ pipe'[4] = pipe[3] /\ pipe'[5] = pipe[4]
         /\ \A i \in 2..5 : pipe'[i] = pipe[i - 1]
         /\ deal_PostImage_rd => pipe'[1] # NoWord
PROOF
<1>1. size \in Nat /\ row * size + col \in Nat
  BY SizesAssumption, SMT DEF UpdateTypes
<1>2. row * size + col # NoWord
  BY <1>1, SMT DEF NoWord
<1>3. pipe' = [i \in 1..5 |-> IF i > 1 THEN pipe[i - 1]
                              ELSE IF deal_PostImage_rd THEN row * size + col ELSE NoWord]
  BY DEF Fifo
<1>4. \A i \in 2..5 : i \in 1..5 /\ i > 1 /\ i - 1 \in 1..5
  BY SMT
<1>5. \A i \in 2..5 : pipe'[i] = pipe[i - 1]
  BY <1>3, <1>4
<1>6. pipe'[1] = IF deal_PostImage_rd THEN row * size + col ELSE NoWord
  BY <1>3, SMT
<1>7. pipe' \in [1..5 -> Int]
  BY <1>1, <1>3, SMT DEF UpdateTypes, NoWord
<1> QED BY <1>2, <1>5, <1>6, <1>7, SMT

LEMMA TypesStep ==
  ASSUME UpdateTypes, UpdateNext PROVE UpdateTypes'
PROOF
<1>1. ASSUME NEW iu \in BOOLEAN, NEW read \in BOOLEAN, Fifo(iu, read), Pointer
      PROVE  /\ fifo_clc' \in BOOLEAN /\ row' \in Nat /\ col' \in Nat
             /\ ram' \in [0..DEPTH - 1 -> Int]
             /\ wr_cnt' \in 0..31 /\ rd_cnt' \in 0..63 /\ rdR' \in [1..2 -> 0..63]
             /\ prog_full' \in BOOLEAN /\ written' \in Nat /\ taken' \in Nat
  <2>1. fifo_clc' \in BOOLEAN
    BY <1>1 DEF Fifo, Clear, UpdateTypes
  <2>2. row' \in Nat
    BY <1>1, SMT DEF Pointer, NextRow, UpdateTypes
  <2>3. col' \in Nat
    BY <1>1, SMT DEF Pointer, NextCol, UpdateTypes
  <2>4. ram' \in [0..DEPTH - 1 -> Int]
    <3>1. ram' \in {ram, [ram EXCEPT ![wr_cnt % 16] = pipe[5]]}
      BY <1>1 DEF Fifo
    <3>2. ram \in [0..DEPTH - 1 -> Int] /\ pipe[5] \in Int
      BY SMT DEF UpdateTypes
    <3> QED BY <3>1, <3>2
  <2>5. wr_cnt' \in 0..31 /\ rd_cnt' \in 0..63
    <3>1. /\ wr_cnt' \in {0, (wr_cnt + 1) % 32, wr_cnt}
          /\ rd_cnt' \in {0, (rd_cnt + 1) % 64, rd_cnt}
      BY <1>1 DEF Fifo
    <3>2. wr_cnt \in 0..31 /\ rd_cnt \in 0..63
      BY DEF UpdateTypes
    <3> QED BY <3>1, <3>2, SMT
  <2>6. rdR' \in [1..2 -> 0..63]
    <3>1. rdR' = <<rd_cnt, rdR[1]>> /\ rd_cnt \in 0..63 /\ rdR[1] \in 0..63
      BY <1>1, SMT DEF Fifo, UpdateTypes
    <3> QED BY <3>1, SMT
  <2>7. prog_full' \in BOOLEAN
    <3>1. prog_full' = ProgFull(wr_cnt, rdR[2])
      BY <1>1 DEF Fifo
    <3>2. wr_cnt \in 0..31 /\ rdR[2] \in 0..63
      BY SMT DEF UpdateTypes
    <3>3. wr_cnt \in Int /\ rdR[2] \in Int
      BY <3>2, SMT
    <3>4. ProgFull(wr_cnt, rdR[2]) \in BOOLEAN
      BY <3>3, ProgFullIsBoolean
    <3> QED BY <3>1, <3>4
  <2>8. written' \in Nat /\ taken' \in Nat
    <3>1. written' \in {0, written + 1, written} /\ taken' \in {0, taken + 1, taken}
      BY <1>1 DEF Fifo
    <3> QED BY <3>1, SMT DEF UpdateTypes
  <2> QED BY <2>1, <2>2, <2>3, <2>4, <2>5, <2>6, <2>7, <2>8
<1>2. ASSUME NEW s \in Sizes, NEW sum \in BOOLEAN, Update(s, sum) PROVE UpdateTypes'
  <2>1. Pointer /\ Fifo(TRUE, FALSE)
    BY <1>2 DEF Update
  <2>2. pipe' \in [1..5 -> Int]
    BY <2>1, PipeStep
  <2>3. /\ size' \in Sizes /\ fifo_rd_period' \in BOOLEAN /\ finishR' \in BOOLEAN
        /\ round' \in {"off", "plain", "sum"} /\ age' = 0
    BY <1>2 DEF Update, UpdateTypes
  <2>4. age' \in Nat
    BY <2>3, SMT
  <2> QED BY <1>1, <2>1, <2>2, <2>3, <2>4 DEF UpdateTypes
<1>3. ASSUME Finish PROVE UpdateTypes'
  <2>1. Pointer /\ Fifo(FALSE, FALSE)
    BY <1>3 DEF Finish
  <2>2. pipe' \in [1..5 -> Int]
    BY <2>1, PipeStep
  <2>3. /\ size' \in Sizes /\ fifo_rd_period' \in BOOLEAN /\ finishR' \in BOOLEAN
        /\ round' \in {"off", "plain", "sum"} /\ age' = 0
    BY <1>3 DEF Finish, UpdateTypes
  <2>4. age' \in Nat
    BY <2>3, SMT
  <2> QED BY <1>1, <2>1, <2>2, <2>3, <2>4 DEF UpdateTypes
<1>4. ASSUME NEW read \in BOOLEAN, Run(read) PROVE UpdateTypes'
  <2>1. Pointer /\ Fifo(FALSE, read)
    BY <1>4 DEF Run
  <2>2. pipe' \in [1..5 -> Int]
    BY <2>1, PipeStep
  <2>3. age' \in Nat
    BY <1>4, SMT DEF Run, Older, UpdateTypes
  <2>4. /\ size' \in Sizes /\ fifo_rd_period' \in BOOLEAN /\ finishR' \in BOOLEAN
        /\ round' \in {"off", "plain", "sum"}
    BY <1>4 DEF Run, UpdateTypes
  <2> QED BY <1>1, <2>1, <2>2, <2>3, <2>4 DEF UpdateTypes
<1> QED BY <1>2, <1>3, <1>4 DEF UpdateNext

(* Nothing comes from an empty pipe. *)
LEMMA CleanStep ==
  ASSUME UpdateTypes, Clean, NEW iu \in BOOLEAN, Fifo(iu, FALSE)
  PROVE  Fresh' /\ Empty'
PROOF
<1>1. ~fifo_wr /\ ~deal_PostImage_rd
  BY DEF Clean, Empty, fifo_wr, deal_PostImage_rd
<1>2. Empty'
  <2>1. ASSUME NEW i \in 1..5 PROVE pipe'[i] = NoWord
    <3>1. CASE i = 1
      BY <1>1, <3>1, PipeStep
    <3>2. CASE i # 1
      <4>1. i \in 2..5 /\ i - 1 \in 1..5
        BY <3>2, SMT
      <4> QED BY <4>1, PipeStep DEF Clean, Empty
    <3> QED BY <3>1, <3>2
  <2> QED BY <2>1 DEF Empty
<1>3. Zeroed'
  BY <1>1 DEF Fifo, Clean, Fresh, Zeroed
<1>4. rdR'[1] = 0 /\ rdR'[2] = 0
  BY SMT DEF Fifo, Clean, Fresh, Zeroed
<1>5. ~prog_full'
  <2>1. prog_full' = ProgFull(0, 0)
    BY DEF Fifo, Clean, Fresh, Zeroed
  <2>2. ~ProgFull(0, 0)
    BY SMT DEF ProgFull
  <2> QED BY <2>1, <2>2
<1> QED BY <1>2, <1>3, <1>4, <1>5 DEF Fresh

(* An edge of a round in full flow, whether or not the round ends with it. *)
LEMMA FlowStep ==
  ASSUME UpdateTypes, Flowing, NEW read \in BOOLEAN, Fifo(FALSE, read)
  PROVE  Room' /\ Ahead' /\ NoWordDropped' /\ ~fifo_clc'
PROOF
<1> PICK s \in Nat, z \in Nat :
      /\ s <= taken /\ taken <= s + 1 /\ z <= s /\ s <= z + 1
      /\ rdR[1] = s % 64 /\ rdR[2] = z % 64
      /\ written - (z \div 2) + InFlight <= IF prog_full THEN 16 ELSE 15
  BY DEF Flowing, Room
<1> DEFINE b1 == Bit(pipe[1])
           b2 == Bit(pipe[2])
           b3 == Bit(pipe[3])
           b4 == Bit(pipe[4])
           b5 == Bit(pipe[5])
           n == IF prog_full THEN 0 ELSE 1
           r == IF read THEN 1 ELSE 0
           m == IF prog_full THEN 16 ELSE 15
           m2 == IF prog_full' THEN 16 ELSE 15
<1>1. /\ b1 \in 0..1 /\ b2 \in 0..1 /\ b3 \in 0..1 /\ b4 \in 0..1 /\ b5 \in 0..1
      /\ n \in 0..1 /\ r \in 0..1 /\ m \in 15..16 /\ m2 \in 15..16 /\ n = 16 - m
  BY SMT DEF Bit
<1>2. /\ written \in Nat /\ taken \in Nat /\ s \in Nat /\ z \in Nat
      /\ prog_full \in BOOLEAN /\ fifo_rd_period = TRUE /\ ~fifo_clc /\ ~finishR
      /\ wr_cnt = written % 32 /\ rd_cnt = taken % 64 /\ rd_cnt \in 0..63
      /\ fifo_rd_period \in BOOLEAN
  BY DEF UpdateTypes, Flowing, Room
<1>3. z \div 2 \in Nat /\ z \div 2 <= written /\ written - (z \div 2) + b1 + b2 + b3 + b4 + b5 <= m
  <2>1. written - (z \div 2) + b1 + b2 + b3 + b4 + b5 <= m
    <3>1. InFlight = b1 + b2 + b3 + b4 + b5
      BY DEF InFlight
    <3>2. z \div 2 \in Int
      BY SMT
    <3> HIDE DEF b1, b2, b3, b4, b5
    <3>3. written - (z \div 2) + InFlight <= m
      BY Zenon
    <3> HIDE DEF m
    <3> QED BY <1>1, <1>2, <3>1, <3>2, <3>3, SMT
  <2>2. 2 * written >= taken + 1
    BY DEF Flowing, Ahead
  <2> QED BY <1>2, <2>1, <2>2, SMT
<1>4. /\ 2 * written >= taken + 1
      /\ 2 * written + 2 * b5 >= taken + 2
      /\ 2 * written + 2 * (b5 + b4) >= taken + 3
      /\ 2 * written + 2 * (b5 + b4 + b3) >= taken + 4
      /\ 2 * written + 2 * (b5 + b4 + b3 + b2) >= taken + 5
      /\ 2 * written + 2 * (b1 + b2 + b3 + b4 + b5) >= taken + 6
      /\ m = 16 => 2 * written >= taken + 16
  <2>1. prog_full => 2 * written >= taken + 16
    BY DEF Flowing, Ahead
  <2>2. m = 16 => prog_full
    BY SMT
  <2> QED BY <2>1, <2>2 DEF Flowing, Ahead, InFlight
<1>5. prog_full' <=> written - (z \div 2) >= 10
  <2>1. prog_full' = ProgFull(wr_cnt, rdR[2])
    BY DEF Fifo
  <2>2. written - (z \div 2) <= 16
    <3> HIDE DEF b1, b2, b3, b4, b5, m
    <3> QED BY <1>1, <1>2, <1>3, SMT
  <2>3. ProgFull(written % 32, z % 64) <=> written - (z \div 2) >= 10
    BY <1>2, <1>3, <2>2, FlagsOfCounts
  <2> QED BY <1>2, <2>1, <2>3
<1>6. fifo_wr <=> b5 = 1
  <2>1. b5 = 1 <=> pipe[5] # NoWord
    BY SMT DEF Bit
  <2>2. b5 = 1 => written - (z \div 2) < 16
    <3> HIDE DEF b1, b2, b3, b4, b5, m
    <3> QED BY <1>1, <1>2, <1>3, SMT
  <2>3. b5 = 1 => ~Full(wr_cnt, rdR[2])
    <3> SUFFICES ASSUME b5 = 1 PROVE ~Full(wr_cnt, rdR[2])
      OBVIOUS
    <3> HIDE DEF b5
    <3>1. written - (z \div 2) <= 16 /\ written - (z \div 2) # 16
      BY <1>2, <1>3, <2>2, SMT
    <3>2. Full(written % 32, z % 64) <=> written - (z \div 2) = 16
      BY <1>2, <1>3, <3>1, FlagsOfCounts
    <3> QED BY <1>2, <3>1, <3>2
  <2> QED BY <2>1, <2>3 DEF fifo_wr
<1>7. /\ written' = written + b5 /\ wr_cnt' = written' % 32
      /\ taken' = taken + r /\ rd_cnt' = taken' % 64
      /\ rdR'[1] = taken % 64 /\ rdR'[2] = s % 64
  <2>1. written' = IF fifo_wr THEN written + 1 ELSE written
    BY <1>2 DEF Fifo
  <2>2. wr_cnt' = IF fifo_wr THEN (wr_cnt + 1) % 32 ELSE wr_cnt
    BY <1>2 DEF Fifo
  <2>3. taken' = IF read THEN taken + 1 ELSE taken
    BY <1>2 DEF Fifo
  <2>4. rd_cnt' = IF read THEN (rd_cnt + 1) % 64 ELSE rd_cnt
    BY <1>2 DEF Fifo
  <2>5. written' = written + b5 /\ wr_cnt' = written' % 32
    <3> HIDE DEF b5
    <3> QED BY <1>1, <1>2, <1>6, <2>1, <2>2, SMT
  <2>6. taken' = taken + r /\ rd_cnt' = taken' % 64
    BY <1>2, <2>3, <2>4, SMT
  <2>7. rdR'[1] = taken % 64 /\ rdR'[2] = s % 64
    BY <1>2, SMT DEF Fifo
  <2> QED BY <2>5, <2>6, <2>7
<1>8. /\ Bit(pipe'[1]) = n /\ Bit(pipe'[2]) = b1 /\ Bit(pipe'[3]) = b2
      /\ Bit(pipe'[4]) = b3 /\ Bit(pipe'[5]) = b4
  <2>1. deal_PostImage_rd <=> ~prog_full
    BY <1>2 DEF deal_PostImage_rd
  <2>2. ~prog_full => pipe'[1] # NoWord
    BY <2>1, PipeStep
  <2>3. prog_full => pipe'[1] = NoWord
    BY <2>1, PipeStep
  <2>4. Bit(pipe'[1]) = n
    BY <2>2, <2>3 DEF Bit
  <2> QED BY <2>4, PipeStep
<1>9. m2 = 15 => written - (z \div 2) < 10
  <2>1. m2 = 15 => ~prog_full'
    BY SMT
  <2> QED BY <1>2, <1>3, <1>5, <2>1, SMT
<1>10. /\ written + b5 - (s \div 2) + n + b1 + b2 + b3 + b4 <= m2
       /\ s \div 2 <= written + b5
       /\ 2 * (written + b5) >= taken + r + 1
       /\ 2 * (written + b5) + 2 * b4 >= taken + r + 2
       /\ 2 * (written + b5) + 2 * (b4 + b3) >= taken + r + 3
       /\ 2 * (written + b5) + 2 * (b4 + b3 + b2) >= taken + r + 4
       /\ 2 * (written + b5) + 2 * (b4 + b3 + b2 + b1) >= taken + r + 5
       /\ 2 * (written + b5) + 2 * (n + b1 + b2 + b3 + b4) >= taken + r + 6
       /\ written - (z \div 2) >= 10 => 2 * (written + b5) >= taken + r + 16
  <2> HIDE DEF b1, b2, b3, b4, b5, n, r, m, m2
  <2> QED BY <1>1, <1>2, <1>3, <1>4, <1>9, FlowOfCounts
<1>11. Ahead'
  <2> HIDE DEF b1, b2, b3, b4, b5, n, r, m, m2
  <2>1. InFlight' = n + b1 + b2 + b3 + b4
    BY <1>8 DEF InFlight
  <2> QED BY <1>5, <1>7, <1>8, <1>10, <2>1 DEF Ahead
<1>12. written' - (s \div 2) + InFlight' <= m2
  <2> HIDE DEF b1, b2, b3, b4, b5, n, r, m, m2
  <2>1. InFlight' = n + b1 + b2 + b3 + b4
    BY <1>8 DEF InFlight
  <2>2. s \div 2 \in Int
    BY SMT
  <2> QED BY <1>1, <1>2, <1>7, <1>10, <2>1, <2>2, SMT
<1>13. Room'
  <2>1. taken <= taken' /\ taken' <= taken + 1
    BY <1>1, <1>2, <1>7, SMT
  <2>2. written' - (s \div 2) + InFlight' <= IF prog_full' THEN 16 ELSE 15
    BY <1>12
  <2> QED BY <1>2, <1>7, <2>1, <2>2 DEF Room
<1>14. NoWordDropped'
  <2> SUFFICES ASSUME pipe'[5] # NoWord PROVE ~Full(wr_cnt', rdR'[2])
    BY DEF NoWordDropped
  <2>1. b4 = 1
    BY <1>8 DEF Bit
  <2> HIDE DEF b1, b2, b3, b4, b5, n, r, m, m2
  <2>2. written' \in Nat /\ s \div 2 <= written' /\ written' - (s \div 2) <= 16
        /\ written' - (s \div 2) # 16
    BY <1>1, <1>2, <1>7, <1>10, <2>1, SMT
  <2>3. Full(written' % 32, s % 64) <=> written' - (s \div 2) = 16
    BY <1>2, <2>2, FlagsOfCounts
  <2> QED BY <1>7, <2>2, <2>3
<1>15. ~fifo_clc'
  BY <1>2 DEF Fifo, Clear
<1> QED BY <1>11, <1>13, <1>14, <1>15

(* The other phases of a round, edge by edge. *)
LEMMA DrainStep ==
  ASSUME UpdateTypes, Draining, Run(FALSE) PROVE Draining' \/ Resting'
PROOF
<1>1. /\ Fifo(FALSE, FALSE) /\ round = "off" /\ round' = "off" /\ ~fifo_rd_period
      /\ ~fifo_rd_period' /\ ~finishR' /\ age' = Older(MinGap) /\ ~deal_PostImage_rd
  BY DEF Run, Draining, deal_PostImage_rd
<1>2. age \in 0..4 /\ age' = age + 1
  BY <1>1, GapAssumption, SMT DEF UpdateTypes, Draining, Older
<1>3. fifo_clc'
  <2>1. age = 0 \/ age >= 1
    BY <1>2, SMT
  <2>2. finishR \/ fifo_clc
    BY <2>1 DEF Draining
  <2>3. fifo_clc' = (finishR \/ (fifo_clc /\ ~FALSE))
    BY <1>1 DEF Fifo, Clear
  <2> QED BY <2>2, <2>3
<1>4. ASSUME NEW i \in 1..5, i <= age' PROVE pipe'[i] = NoWord
  <2>1. CASE i = 1
    BY <1>1, <2>1, PipeStep
  <2>2. CASE i # 1
    <3>1. i \in 2..5 /\ i - 1 \in 1..5 /\ i - 1 <= age
      BY <1>2, <1>4, <2>2, SMT
    <3>2. pipe'[i] = pipe[i - 1]
      BY <1>1, <3>1, PipeStep
    <3> QED BY <3>1, <3>2 DEF Draining
  <2> QED BY <2>1, <2>2
<1>5. age' >= 2 => Zeroed'
  <2> SUFFICES ASSUME age' >= 2 PROVE Zeroed'
    OBVIOUS
  <2>1. fifo_clc
    BY <1>2, SMT DEF Draining
  <2> QED BY <1>1, <2>1 DEF Fifo, Zeroed
<1>6. age' >= 3 => rdR'[1] = 0
  <2> SUFFICES ASSUME age' >= 3 PROVE rdR'[1] = 0
    OBVIOUS
  <2>1. rd_cnt = 0
    BY <1>2, SMT DEF Draining, Zeroed
  <2> QED BY <1>1, <2>1, SMT DEF Fifo
<1>7. age' >= 4 => rdR'[2] = 0
  <2> SUFFICES ASSUME age' >= 4 PROVE rdR'[2] = 0
    OBVIOUS
  <2>1. rdR[1] = 0
    BY <1>2, SMT DEF Draining
  <2> QED BY <1>1, <2>1, SMT DEF Fifo
<1>8. age' >= 5 => ~prog_full'
  <2> SUFFICES ASSUME age' >= 5 PROVE ~prog_full'
    OBVIOUS
  <2>1. wr_cnt = 0 /\ rdR[2] = 0
    BY <1>2, SMT DEF Draining, Zeroed
  <2>2. prog_full' = ProgFull(0, 0)
    BY <1>1, <2>1 DEF Fifo
  <2>3. ~ProgFull(0, 0)
    BY SMT DEF ProgFull
  <2> QED BY <2>2, <2>3
<1>9. CASE age' < 5
  <2>1. age' # 0 /\ age' >= 1
    BY <1>2, SMT
  <2> QED BY <1>1, <1>3, <1>4, <1>5, <1>6, <1>7, <1>9, <2>1 DEF Draining
<1>10. CASE ~(age' < 5)
  <2>1. age' >= 5 /\ age' >= 2 /\ age' >= 3 /\ age' >= 4 /\ \A i \in 1..5 : i <= age'
    BY <1>2, <1>10, SMT
  <2>2. Empty'
    BY <1>4, <2>1 DEF Empty
  <2> QED BY <1>1, <1>5, <1>6, <1>7, <1>8, <2>1, <2>2 DEF Resting, Clean, Fresh
<1> QED BY <1>9, <1>10

LEMMA FillStep ==
  ASSUME UpdateTypes, Filling, Run(FALSE) PROVE Filling' \/ Flowing'
PROOF
<1>1. /\ Fifo(FALSE, FALSE) /\ round' = "sum" /\ fifo_rd_period' /\ ~finishR' /\ ~fifo_clc
      /\ age' = Older(StartLatency) /\ deal_PostImage_rd /\ Fresh /\ ~finishR
  BY DEF Run, Filling, Fresh, deal_PostImage_rd
<1>2. age \in 0..5 /\ age' = age + 1
  BY <1>1, LatencyAssumption, SMT DEF UpdateTypes, Filling, Older
<1>3. ~fifo_clc'
  BY <1>1 DEF Fifo, Clear
<1>4. rd_cnt' = 0 /\ taken' = 0 /\ rdR'[1] = 0 /\ rdR'[2] = 0
  BY <1>1, SMT DEF Fifo, Fresh, Zeroed
<1>5. ~prog_full'
  <2>1. prog_full' = ProgFull(0, 0)
    BY <1>1 DEF Fifo, Fresh, Zeroed
  <2>2. ~ProgFull(0, 0)
    BY SMT DEF ProgFull
  <2> QED BY <2>1, <2>2
<1>6. pipe'[1] # NoWord /\ \A i \in 2..5 : pipe'[i] = pipe[i - 1]
  BY <1>1, PipeStep
<1>7. ~Full(0, 0)
  BY SMT DEF Full
<1>8. fifo_wr <=> pipe[5] # NoWord
  BY <1>1, <1>7 DEF fifo_wr, Fresh, Zeroed
<1>9. pipe[5] # NoWord <=> age = 5
  <2>1. pipe[5] = NoWord <=> 5 > age
    BY DEF Filling
  <2> QED BY <1>2, <2>1, SMT
<1>10. CASE age < 5
  <2>1. wr_cnt' = 0 /\ written' = 0
    BY <1>1, <1>2, <1>8, <1>9, <1>10, SMT DEF Fifo, Fresh, Zeroed
  <2>2. ASSUME NEW i \in 1..5 PROVE pipe'[i] = NoWord <=> i > age'
    <3>1. CASE i = 1
      BY <1>2, <1>6, <3>1, SMT
    <3>2. CASE i # 1
      <4>1. i \in 2..5 /\ i - 1 \in 1..5 /\ (i - 1 > age <=> i > age')
        BY <1>2, <3>2, SMT
      <4>2. pipe[i - 1] = NoWord <=> i - 1 > age
        BY <4>1 DEF Filling
      <4> QED BY <1>6, <4>1, <4>2
    <3> QED BY <3>1, <3>2
  <2>3. age' < 6
    BY <1>2, <1>10, SMT
  <2> QED BY <1>1, <1>3, <1>4, <1>5, <2>1, <2>2, <2>3 DEF Filling, Fresh, Zeroed
<1>11. CASE ~(age < 5)
  <2>1. age = 5 /\ age' = 6
    BY <1>2, <1>11, SMT
  <2>2. wr_cnt' = 1 /\ written' = 1
    BY <1>1, <1>8, <1>9, <2>1, SMT DEF Fifo, Fresh, Zeroed
  <2>3. \A i \in 1..5 : pipe[i] # NoWord
    <3> TAKE i \in 1..5
    <3>1. ~(i > age)
      BY <2>1, SMT
    <3> QED BY <3>1 DEF Filling
  <2>4. \A i \in 2..5 : i - 1 \in 1..5
    BY SMT
  <2>5. \A i \in 2..5 : pipe'[i] # NoWord
    BY <1>6, <2>3, <2>4
  <2>6. /\ Bit(pipe'[1]) = 1 /\ Bit(pipe'[2]) = 1 /\ Bit(pipe'[3]) = 1
        /\ Bit(pipe'[4]) = 1 /\ Bit(pipe'[5]) = 1
    <3>1. 2 \in 2..5 /\ 3 \in 2..5 /\ 4 \in 2..5 /\ 5 \in 2..5
      BY SMT
    <3> QED BY <1>6, <2>5, <3>1 DEF Bit
  <2>7. InFlight' = 5
    BY <2>6, SMT DEF InFlight
  <2>8. Ahead'
    BY <1>4, <1>5, <2>2, <2>6, <2>7, SMT DEF Ahead
  <2>9. Room'
    <3>1. wr_cnt' = written' % 32 /\ rd_cnt' = taken' % 64
      BY <1>4, <2>2, SMT
    <3>2. /\ 0 \in Nat /\ 0 <= taken' /\ taken' <= 0 + 1 /\ 0 <= 0 /\ 0 <= 0 + 1
          /\ rdR'[1] = 0 % 64 /\ rdR'[2] = 0 % 64
          /\ written' - (0 \div 2) + InFlight' <= 15
      BY <1>4, <2>2, <2>7, SMT
    <3>3. written' - (0 \div 2) + InFlight' <= IF prog_full' THEN 16 ELSE 15
      BY <1>5, <3>2
    <3> QED BY <3>1, <3>2, <3>3 DEF Room
  <2>10. age' >= 6
    BY <2>1, SMT
  <2> QED BY <1>1, <1>3, <2>8, <2>9, <2>10 DEF Flowing
<1> QED BY <1>10, <1>11


(* A round ends: the words on their way are still written, or dropped by the
   clear that follows.                                                       *)
LEMMA FinishStep ==
  ASSUME UpdateTypes, Plain \/ Filling \/ Flowing, Finish PROVE Draining'
PROOF
<1>1. /\ Fifo(FALSE, FALSE) /\ round' = "off" /\ age' = 0 /\ ~fifo_rd_period' /\ finishR'
  BY DEF Finish
<1>2. NoWordDropped'
  <2>1. CASE Flowing
    BY <1>1, <2>1, FlowStep
  <2>2. CASE Plain
    <3>1. Empty'
      BY <1>1, <2>2, CleanStep DEF Plain
    <3>2. 5 \in 1..5
      BY SMT
    <3> QED BY <3>1, <3>2 DEF Empty, NoWordDropped
  <2>3. CASE Filling
    <3>1. pipe[5] # NoWord => age >= 5
      <4>1. pipe[5] = NoWord <=> 5 > age
        BY <2>3 DEF Filling
      <4> QED BY <4>1, SMT DEF UpdateTypes
    <3>2. wr_cnt = 0 /\ rdR[1] = 0 /\ ~fifo_clc
      BY <2>3 DEF Filling, Fresh, Zeroed
    <3>3. wr_cnt' \in {0, 1}
      BY <1>1, <3>2, SMT DEF Fifo
    <3>4. rdR'[2] = 0
      BY <1>1, <3>2, SMT DEF Fifo
    <3>5. ~Full(0, 0) /\ ~Full(1, 0)
      BY SMT DEF Full
    <3> QED BY <3>3, <3>4, <3>5 DEF NoWordDropped
  <2> QED BY <2>1, <2>2, <2>3
<1>3. \A i \in 1..5 : ~(i <= 0)
  BY SMT
<1>4. 0 < 5 /\ ~(0 >= 1) /\ ~(0 >= 2) /\ ~(0 >= 3) /\ ~(0 >= 4)
  BY SMT
<1> QED BY <1>1, <1>2, <1>3, <1>4 DEF Draining

LEMMA UpdateStep ==
  ASSUME UpdateTypes, Resting, NEW s \in Sizes, NEW sum \in BOOLEAN, Update(s, sum)
  PROVE  Filling' \/ Plain'
PROOF
<1>1. /\ Fifo(TRUE, FALSE) /\ age' = 0 /\ finishR' = FALSE /\ ~finishR
      /\ round' = (IF sum THEN "sum" ELSE "plain") /\ fifo_rd_period' = (fifo_rd_period \/ sum)
      /\ ~fifo_rd_period
  BY DEF Update, Resting, Clean
<1>2. Fresh' /\ Empty'
  BY <1>1, CleanStep DEF Resting
<1>3. fifo_clc' = (finishR \/ (fifo_clc /\ ~TRUE))
  BY <1>1 DEF Fifo, Clear
<1>4. ~fifo_clc'
  BY <1>1, <1>3
<1>5. CASE sum = FALSE
  BY <1>1, <1>2, <1>4, <1>5 DEF Plain, Clean
<1>6. CASE sum = TRUE
  <2>1. 0 < 6 /\ \A i \in 1..5 : i > 0
    BY SMT
  <2> QED BY <1>1, <1>2, <1>4, <1>6, <2>1 DEF Filling, Empty
<1> QED BY <1>5, <1>6

LEMMA RunStep ==
  ASSUME UpdateTypes, Draining \/ Resting \/ Plain \/ Filling \/ Flowing,
         NEW read \in BOOLEAN, Run(read)
  PROVE  Draining' \/ Resting' \/ Plain' \/ Filling' \/ Flowing'
PROOF
<1>1. /\ Fifo(FALSE, read) /\ round' = round /\ fifo_rd_period' = fifo_rd_period
      /\ finishR' = FALSE /\ age' = Older(IF round = "off" THEN MinGap ELSE StartLatency)
      /\ read => round = "sum" /\ age = StartLatency
  BY DEF Run
<1>2. CASE Flowing
  <2>1. Room' /\ Ahead' /\ ~fifo_clc'
    BY <1>1, <1>2, FlowStep
  <2>2. age' >= 6
    BY <1>1, <1>2, SMT DEF Flowing, Older, UpdateTypes
  <2> QED BY <1>1, <1>2, <2>1, <2>2 DEF Flowing
<1>3. CASE Filling
  <2>1. read = FALSE
    BY <1>1, <1>3, LatencyAssumption, SMT DEF Filling
  <2> QED BY <1>3, <2>1, FillStep
<1>4. CASE Draining
  <2>1. read = FALSE
    BY <1>1, <1>4 DEF Draining
  <2> QED BY <1>4, <2>1, DrainStep
<1>5. ASSUME Clean, read = FALSE PROVE Clean'
  <2>1. Fresh' /\ Empty'
    BY <1>1, <1>5, CleanStep
  <2> QED BY <1>1, <1>5, <2>1 DEF Clean
<1>6. CASE Resting
  <2>1. read = FALSE
    BY <1>1, <1>6 DEF Resting
  <2>2. age' >= 5
    BY <1>1, <1>6, SMT DEF Resting, Older, UpdateTypes
  <2> QED BY <1>1, <1>5, <1>6, <2>1, <2>2 DEF Resting
<1>7. CASE Plain
  <2>1. read = FALSE
    BY <1>1, <1>7 DEF Plain
  <2>2. fifo_clc' = (finishR \/ (fifo_clc /\ ~FALSE))
    BY <1>1 DEF Fifo, Clear
  <2>3. ~fifo_clc'
    BY <1>7, <2>2 DEF Plain, Clean
  <2> QED BY <1>1, <1>5, <1>7, <2>1, <2>3 DEF Plain
<1> QED BY <1>2, <1>3, <1>4, <1>6, <1>7

LEMMA StepInv == UpdateInv /\ [UpdateNext]_updateVars => UpdateInv'
PROOF
<1> SUFFICES ASSUME UpdateInv, [UpdateNext]_updateVars PROVE UpdateInv'
  OBVIOUS
<1>1. CASE UNCHANGED updateVars
  BY <1>1 DEF UpdateInv, updateVars, UpdateTypes, Draining, Resting, Plain, Filling, Flowing, Clean,
     Fresh, Zeroed, Empty, Room, Ahead, InFlight, NoWordDropped
<1>2. CASE UpdateNext
  <2>1. UpdateTypes'
    BY <1>2, TypesStep DEF UpdateInv
  <2>2. ASSUME NEW s \in Sizes, NEW sum \in BOOLEAN, Update(s, sum)
        PROVE  Filling' \/ Plain'
    <3>1. round = "off" /\ age = MinGap
      BY <2>2 DEF Update
    <3>2. Resting
      <4>1. ~Draining
        BY <3>1, GapAssumption, SMT DEF Draining
      <4> QED BY <3>1, <4>1 DEF UpdateInv, Plain, Filling, Flowing
    <3> QED BY <2>2, <3>2, UpdateStep DEF UpdateInv
  <2>3. ASSUME Finish PROVE Draining'
    <3>1. Plain \/ Filling \/ Flowing
      BY <2>3 DEF UpdateInv, Finish, Draining, Resting
    <3> QED BY <2>3, <3>1, FinishStep DEF UpdateInv
  <2>4. ASSUME NEW read \in BOOLEAN, Run(read)
        PROVE  Draining' \/ Resting' \/ Plain' \/ Filling' \/ Flowing'
    BY <2>4, RunStep DEF UpdateInv
  <2> QED BY <1>2, <2>1, <2>2, <2>3, <2>4 DEF UpdateNext, UpdateInv
<1> QED BY <1>1, <1>2

-----------------------------------------------------------------------------
(* The words on their way when the flag rises find room, whatever the sizes and
   however long the reader waits (update.v:165).                             *)
THEOREM NeverFull == UpdateSpec => []NoWordDropped
PROOF
<1>1. UpdateInv => NoWordDropped
  <2> SUFFICES ASSUME UpdateInv, pipe[5] # NoWord, ~fifo_clc PROVE ~Full(wr_cnt, rdR[2])
    BY DEF NoWordDropped
  <2>1. 5 \in 1..5
    BY SMT
  <2>2. CASE Draining
    <3>1. age = 0
      <4>1. age = 0 \/ age >= 1
        BY SMT DEF UpdateInv, UpdateTypes
      <4> QED BY <2>2, <4>1 DEF Draining
    <3> QED BY <2>2, <3>1 DEF Draining, NoWordDropped
  <2>3. CASE Resting \/ Plain
    BY <2>1, <2>3 DEF Resting, Plain, Clean, Empty
  <2>4. CASE Filling
    <3>1. ~Full(0, 0)
      BY SMT DEF Full
    <3> QED BY <2>4, <3>1 DEF Filling, Fresh, Zeroed
  <2>5. CASE Flowing
    <3> PICK s \in Nat, z \in Nat :
          /\ s <= taken /\ taken <= s + 1 /\ z <= s /\ s <= z + 1
          /\ rdR[2] = z % 64
          /\ written - (z \div 2) + InFlight <= IF prog_full THEN 16 ELSE 15
      BY <2>5 DEF Flowing, Room
    <3>1. z \div 2 \in Nat /\ 2 * (z \div 2) <= z
      BY SMT
    <3>2. InFlight \in Nat /\ InFlight >= 1
      <4>1. /\ Bit(pipe[1]) \in 0..1 /\ Bit(pipe[2]) \in 0..1 /\ Bit(pipe[3]) \in 0..1
            /\ Bit(pipe[4]) \in 0..1 /\ Bit(pipe[5]) = 1
        BY SMT DEF Bit
      <4> QED BY <4>1, SMT DEF InFlight
    <3>3. written - (z \div 2) + InFlight <= 16
      <4>1. InFlight \in Int /\ z \div 2 \in Int /\ written \in Int
        BY <3>1, <3>2, SMT DEF UpdateInv, UpdateTypes
      <4> QED BY <4>1, SMT
    <3>4. written \in Nat /\ taken \in Nat /\ 2 * written >= taken + 1 /\ wr_cnt = written % 32
      BY <2>5 DEF UpdateInv, UpdateTypes, Flowing, Room, Ahead
    <3>5. z \div 2 <= written /\ written - (z \div 2) <= 16 /\ written - (z \div 2) # 16
      BY <3>1, <3>2, <3>3, <3>4, SMT
    <3>6. Full(written % 32, z % 64) <=> written - (z \div 2) = 16
      BY <3>4, <3>5, FlagsOfCounts
    <3> QED BY <3>4, <3>5, <3>6
  <2> QED BY <2>2, <2>3, <2>4, <2>5 DEF UpdateInv
<1> QED BY <1>1, UpdateInitInv, StepInv, PTL DEF UpdateSpec

(* A pixel that is taken is in the FIFO, though its reader looks at no flag, as
   long as it starts no earlier than StartLatency edges after the head.      *)
THEOREM NeverDry == UpdateSpec => [][taken' = taken + 1 => taken < 2 * written]_updateVars
PROOF
<1>1. UpdateInv /\ [UpdateNext]_updateVars => [taken' = taken + 1 => taken < 2 * written]_updateVars
  <2> SUFFICES ASSUME UpdateInv, UpdateNext, taken' = taken + 1 PROVE taken < 2 * written
    BY DEF updateVars
  <2>1. taken' # taken /\ taken' # 0 /\ taken \in Nat
    BY SMT DEF UpdateInv, UpdateTypes
  <2>2. PICK read \in BOOLEAN : Run(read) /\ read
    <3>1. ASSUME NEW iu \in BOOLEAN, Fifo(iu, FALSE) PROVE FALSE
      BY <2>1, <3>1 DEF Fifo
    <3> QED BY <3>1 DEF UpdateNext, Update, Finish, Run
  <2>3. round = "sum" /\ age = StartLatency
    BY <2>2 DEF Run
  <2>4. ~Filling
    BY <2>3, LatencyAssumption, SMT DEF Filling
  <2>5. 2 * written >= taken + 1
    BY <2>3, <2>4 DEF UpdateInv, Draining, Resting, Plain, Flowing, Ahead
  <2> QED BY <2>5, SMT DEF UpdateInv, UpdateTypes
<1> QED BY <1>1, UpdateInitInv, StepInv, PTL DEF UpdateSpec
=============================================================================
