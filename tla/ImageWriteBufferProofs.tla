------------------------ MODULE ImageWriteBufferProofs ------------------------
(* Proofs about ImageWriteBuffer, for maps of any shape in RAMs of any size, and
   any FIFO and gap that the assumptions of the module allow.

   Behind a map the registers are functions of the edges since its finish
   (Crossing, Cleaning): what was prefetched past its end is gone, on both
   clocks, before the next map comes.  While a map is written, a word is on its
   way from the counters through three registers and the FIFO to the reader's
   synchroniser, and what has come how far is one sequence of numbers (Issued
   and the rest): the words there are the map's (Order), there is room for them
   all (Room), and they are ahead of the reader by so many at each phase of the
   clocks (Ahead).                                                            *)
EXTENDS ImageWriteBuffer, SequenceTheorems, TLAPS

-----------------------------------------------------------------------------
(* The inductive invariant. *)

Odd == phase \in {1, 3, 5, 7}              \* the last edge was one of axi_clk
Since(e, o) == gap >= IF Odd THEN o ELSE e

Types ==
  /\ image_fifo_pre_read \in BOOLEAN /\ rst_cnt \in 0..7 /\ rst \in BOOLEAN
  /\ finish \in BOOLEAN /\ rd \in Nat /\ wrSeen[1] \in Nat /\ wrSeen[2] \in Nat
  /\ preR[1] \in BOOLEAN /\ preR[2] \in BOOLEAN
  /\ finishR[1] \in BOOLEAN /\ finishR[2] \in BOOLEAN
  /\ high \in 0..15 /\ low \in 0..RamWords - 1 /\ ramdata_cnt \in [Rams -> Int]
  /\ pipe[1] \in Int /\ pipe[2] \in Int /\ pipe[3] \in Int
  /\ stored \in Seq(Int) /\ rdSeen[1] \in Nat /\ rdSeen[2] \in Nat /\ prog_full \in BOOLEAN
  /\ phase \in 0..7 /\ map \in Maps \cup {<<>>} /\ gap \in 0..Gap /\ begun \in BOOLEAN

(* The finish of a map, and what it starts, on the two clocks. *)
Crossing ==
  /\ finish <=> gap = 0
  /\ rst_cnt = IF gap \in 1..7 THEN gap ELSE 0
  /\ rst <=> gap \in 2..8
  /\ finishR[1] <=> gap = IF Odd THEN 1 ELSE 0
  /\ finishR[2] <=> \/ gap = 1 /\ (~Odd \/ phase = 1)
                    \/ gap = 2 /\ Odd /\ phase # 1

Cleared ==
  /\ ~preR[2] /\ high = 0 /\ low = 0 /\ map = <<>>
  /\ \A t \in Rams : ramdata_cnt[t] = 0

Cleaning ==
  ~writing =>
    /\ gap >= 1 => ~image_fifo_pre_read
    /\ Since(1, 2) => ~preR[1]
    /\ Since(2, 3) \/ (gap = 2 /\ phase = 1) => Cleared
    /\ Since(2, 3) => stored = <<>> /\ rdSeen[1] = 0 /\ rdSeen[2] = 0 /\ ~prog_full
    /\ Since(3, 4) => pipe[1] = NoWord
    /\ Since(4, 5) => pipe[2] = NoWord
    /\ Since(5, 6) => pipe[3] = NoWord
    /\ gap >= 3 => rd = 0 /\ wrSeen[1] = 0 /\ wrSeen[2] = 0
    /\ ~begun

(* How many words have come how far. *)
One(i) == IF pipe[i] = NoWord THEN 0 ELSE 1
Written == Len(stored)
Third == Written + One(3)
Second == Third + One(2)
Issued == Second + One(1)

Counted ==
  /\ \A t \in Rams : ramdata_cnt[t] = IF t < Len(map) THEN Size(map, t) ELSE 0
  /\ preR[1] => image_fifo_pre_read
  /\ preR[2] => preR[1]
  /\ Issued > 0 => preR[2]

Seen ==
  /\ wrSeen[2] <= wrSeen[1] /\ wrSeen[1] <= Written
  /\ rdSeen[2] <= rdSeen[1] /\ rdSeen[1] <= rd
  /\ rd <= rdSeen[1] + IF Odd THEN 1 ELSE 0
  /\ rd <= rdSeen[2] + IF Odd THEN 2 ELSE 1

Order ==
  /\ \A k \in 1..Len(stored) : k <= Total => stored[k] = k - 1
  /\ pipe[3] # NoWord /\ Written < Total => pipe[3] = Written
  /\ pipe[2] # NoWord /\ Third < Total => pipe[2] = Third
  /\ pipe[1] # NoWord /\ Second < Total => pipe[1] = Second
  /\ Issued < Total =>
       high < Len(map) /\ low < Size(map, high) /\ Start(map, high) + low = Issued

(* No word finds the FIFO full. *)
Room ==
  /\ Issued - rdSeen[2] <= ProgFull + 4
  /\ ~prog_full => Written - rdSeen[2] <= ProgFull

(* So many words before the reader, or all there are. *)
Reach(x, n) == x >= rd + n \/ x >= Total

Paused ==
  prog_full => Issued >= rd + IF Odd /\ phase # 1 THEN 5 ELSE 6

Starting ==
  /\ rd = 0 /\ wrSeen[2] = 0
  /\ Second >= 1 => Reach(Issued, 2)
  /\ Third >= 1 => Reach(Issued, 3) /\ Reach(Second, 2)
  /\ Written >= 1 => Reach(Issued, 4) /\ Reach(Second, 3) /\ Reach(Third, 2)
  /\ wrSeen[1] >= 1 /\ ~Odd =>
       Reach(Issued, 5) /\ Reach(Second, 4) /\ Reach(Third, 3) /\ Reach(Written, 2)

Ahead ==
  /\ Reach(Issued, IF phase \in {5, 7} THEN 4 ELSE IF phase = 2 THEN 6 ELSE 5)
  /\ Reach(Second, IF phase \in {2, 4} THEN 5 ELSE IF phase = 7 THEN 3 ELSE 4)
  /\ Reach(Third, IF phase \in {2, 4, 6} THEN 4 ELSE 3)
  /\ ~Odd => Reach(Written, 3)
  /\ Reach(wrSeen[1], 2) /\ Reach(wrSeen[2], 1)

Flow == IF begun THEN Ahead ELSE Starting

Working == writing => Counted /\ Seen /\ Order /\ Room /\ Paused /\ Flow

IInv == Types /\ Crossing /\ Cleaning /\ Working
-----------------------------------------------------------------------------
(* Maps, and the words in their RAMs. *)

LEMMA NoEmptyMap == <<>> \notin Maps
<1> SUFFICES ASSUME <<>> \in Maps PROVE FALSE
  OBVIOUS
<1>1. Len(<<>>) \in 1..8
  BY MapsAssumption
<1> QED BY <1>1, SMT

LEMMA MapShape ==
  ASSUME NEW m \in Maps
  PROVE  /\ m # <<>> /\ Len(m) \in 1..8 /\ m[Len(m)] \in Nat
         /\ \A t \in 0..Len(m) - 1 :
              /\ Size(m, t) \in 1..RamWords /\ Start(m, t) \in Nat
              /\ Start(m, t) + Size(m, t) = m[t + 1]
<1>1. m \in Seq(Nat) /\ Len(m) \in 1..8 /\ \A t \in 0..Len(m) - 1 : Size(m, t) \in 1..RamWords
  BY MapsAssumption
<1>2. \A t \in 1..Len(m) : m[t] \in Nat
  BY <1>1, ElementOfSeq
<1>3. m # <<>> /\ m[Len(m)] \in Nat
  BY <1>1, <1>2, NoEmptyMap
<1>4. ASSUME NEW t \in 0..Len(m) - 1
      PROVE  /\ Size(m, t) \in 1..RamWords /\ Start(m, t) \in Nat
             /\ Start(m, t) + Size(m, t) = m[t + 1]
  <2>1. m[t + 1] \in Nat /\ (t # 0 => m[t] \in Nat)
    <3>1. t + 1 \in 1..Len(m) /\ (t # 0 => t \in 1..Len(m))
      BY <1>1
    <3> QED BY <3>1, <1>2
  <2>2. Start(m, t) \in Nat
    BY <2>1 DEF Start
  <2>3. Size(m, t) = m[t + 1] - Start(m, t)
    BY DEF Size
  <2> HIDE DEF Start
  <2> QED BY <2>1, <2>2, <2>3, <1>1
<1> QED BY <1>1, <1>3, <1>4

(* What an edge leaves in the registers. *)
Brim == \/ Written - rdSeen[2] >= ProgFull
        \/ prog_full /\ Written - rdSeen[2] = ProgFull - 1

LEMMA AxiValues ==
  ASSUME Types, NEW pre \in BOOLEAN, NEW req \in BOOLEAN, NEW last \in BOOLEAN,
         AxiEdge(pre, req, last)
  PROVE  /\ wrSeen'[1] = IF rst THEN 0 ELSE Written
         /\ wrSeen'[2] = IF rst THEN 0 ELSE wrSeen[1]
         /\ rd' = IF rst THEN 0 ELSE IF req THEN rd + 1 ELSE rd
         /\ gap' = IF last THEN 0 ELSE IF gap < Gap THEN gap + 1 ELSE gap
         /\ image_fifo_pre_read' = (~finish /\ (pre \/ image_fifo_pre_read))
         /\ rst_cnt' = IF finish \/ rst_cnt # 0 THEN (rst_cnt + 1) % 8 ELSE 0
         /\ rst' = (rst_cnt # 0)
         /\ finish' = last
         /\ begun' = (~last /\ (begun \/ (writing /\ wrSeen[1] > 0)))
<1>1. wrSeen' = IF rst THEN <<0, 0>> ELSE <<Len(stored), wrSeen[1]>>
  BY DEF AxiEdge
<1>2. /\ wrSeen'[1] = IF rst THEN 0 ELSE Written
      /\ wrSeen'[2] = IF rst THEN 0 ELSE wrSeen[1]
  BY <1>1 DEF Written
<1> QED BY <1>2 DEF AxiEdge, Reset

LEMMA DealValues ==
  ASSUME Types, NEW new, DealEdge(new)
  PROVE  /\ preR'[1] = image_fifo_pre_read /\ preR'[2] = preR[1]
         /\ finishR'[1] = finish /\ finishR'[2] = finishR[1]
         /\ pipe'[1] = IF En /\ high \in Rams THEN WordAt(high, low) ELSE NoWord
         /\ pipe'[2] = pipe[1] /\ pipe'[3] = pipe[2]
         /\ stored' = IF rst THEN <<>>
                      ELSE IF pipe[3] # NoWord /\ Written - rdSeen[2] < Depth
                        THEN Append(stored, pipe[3]) ELSE stored
         /\ rdSeen'[1] = IF rst THEN 0 ELSE rd
         /\ rdSeen'[2] = IF rst THEN 0 ELSE rdSeen[1]
         /\ prog_full' <=> ~rst /\ Brim
         /\ map' = IF new # <<>> THEN new ELSE IF finishR[2] THEN <<>> ELSE map
         /\ new # <<>> => map = <<>> /\ gap = Gap
<1>1. /\ preR' = <<image_fifo_pre_read, preR[1]>> /\ finishR' = <<finish, finishR[1]>>
      /\ pipe' = <<IF En /\ high \in Rams THEN WordAt(high, low) ELSE NoWord, pipe[1], pipe[2]>>
      /\ rdSeen' = IF rst THEN <<0, 0>> ELSE <<rd, rdSeen[1]>>
  BY DEF DealEdge, FifoWrite
<1>2. /\ preR'[1] = image_fifo_pre_read /\ preR'[2] = preR[1]
      /\ finishR'[1] = finish /\ finishR'[2] = finishR[1]
      /\ pipe'[1] = IF En /\ high \in Rams THEN WordAt(high, low) ELSE NoWord
      /\ pipe'[2] = pipe[1] /\ pipe'[3] = pipe[2]
      /\ rdSeen'[1] = IF rst THEN 0 ELSE rd
      /\ rdSeen'[2] = IF rst THEN 0 ELSE rdSeen[1]
  BY <1>1
<1>3. /\ stored' = IF rst THEN <<>>
                   ELSE IF pipe[3] # NoWord /\ Written - rdSeen[2] < Depth
                     THEN Append(stored, pipe[3]) ELSE stored
      /\ prog_full' <=> ~rst /\ Brim
  BY DEF DealEdge, FifoWrite, Written, Brim
<1>4. /\ map' = IF new # <<>> THEN new ELSE IF finishR[2] THEN <<>> ELSE map
      /\ new # <<>> => map = <<>> /\ gap = Gap
  BY DEF DealEdge
<1> QED BY <1>2, <1>3, <1>4

(* The registers of the other clock stand still. *)
LEMMA AxiStands ==
  ASSUME UNCHANGED axi
  PROVE  /\ image_fifo_pre_read' = image_fifo_pre_read /\ rst_cnt' = rst_cnt /\ rst' = rst
         /\ finish' = finish /\ rd' = rd /\ wrSeen' = wrSeen /\ gap' = gap /\ begun' = begun
BY DEF axi

LEMMA DealStands ==
  ASSUME UNCHANGED <<deal, map>>
  PROVE  /\ preR' = preR /\ finishR' = finishR /\ high' = high /\ low' = low
         /\ ramdata_cnt' = ramdata_cnt /\ pipe' = pipe /\ stored' = stored
         /\ rdSeen' = rdSeen /\ prog_full' = prog_full /\ map' = map
BY DEF deal

-----------------------------------------------------------------------------
(* Types. *)
LEMMA RamWordsMod ==
  ASSUME NEW a \in 0..RamWords - 1
  PROVE  /\ (a + 1) % RamWords \in 0..RamWords - 1
         /\ a + 1 < RamWords => (a + 1) % RamWords = a + 1
BY MapsAssumption, SMT

LEMMA AxiTypes ==
  ASSUME Types, NEW pre \in BOOLEAN, NEW req \in BOOLEAN, NEW last \in BOOLEAN,
         AxiEdge(pre, req, last)
  PROVE  /\ image_fifo_pre_read' \in BOOLEAN /\ rst_cnt' \in 0..7 /\ rst' \in BOOLEAN
         /\ finish' \in BOOLEAN /\ rd' \in Nat /\ wrSeen'[1] \in Nat /\ wrSeen'[2] \in Nat
         /\ gap' \in 0..Gap /\ begun' \in BOOLEAN
<1>1. Written \in Nat
  BY LenProperties DEF Types, Written
<1>2. (rst_cnt + 1) % 8 \in 0..7
  BY SMT DEF Types
<1>3. gap' \in 0..Gap
  <2>1. gap' = IF last THEN 0 ELSE IF gap < Gap THEN gap + 1 ELSE gap
    BY AxiValues
  <2>2. gap \in 0..Gap /\ Gap \in Nat
    BY GapAssumption DEF Types
  <2> QED BY <2>1, <2>2
<1>4. rd' \in Nat /\ wrSeen'[1] \in Nat /\ wrSeen'[2] \in Nat
  BY AxiValues, <1>1 DEF Types
<1> QED BY AxiValues, <1>2, <1>3, <1>4 DEF Types

LEMMA DealTypes ==
  ASSUME Types, NEW new \in Maps \cup {<<>>}, DealEdge(new)
  PROVE  /\ preR'[1] \in BOOLEAN /\ preR'[2] \in BOOLEAN
         /\ finishR'[1] \in BOOLEAN /\ finishR'[2] \in BOOLEAN
         /\ high' \in 0..15 /\ low' \in 0..RamWords - 1 /\ ramdata_cnt' \in [Rams -> Int]
         /\ pipe'[1] \in Int /\ pipe'[2] \in Int /\ pipe'[3] \in Int
         /\ stored' \in Seq(Int) /\ rdSeen'[1] \in Nat /\ rdSeen'[2] \in Nat
         /\ prog_full' \in BOOLEAN /\ map' \in Maps \cup {<<>>}
<1>1. high' \in 0..15
  BY SMT DEF Types, DealEdge, Counters
<1>2. low' \in 0..RamWords - 1
  <2>1. 0 \in 0..RamWords - 1 /\ (low + 1) % RamWords \in 0..RamWords - 1
    BY MapsAssumption, RamWordsMod DEF Types
  <2>2. low' \in {0, (low + 1) % RamWords, low}
    BY DEF DealEdge, Counters
  <2> QED BY <2>1, <2>2 DEF Types
<1>3. ramdata_cnt' \in [Rams -> Int]
  <2>1. ASSUME NEW t \in Rams, t < Len(new) PROVE Size(new, t) \in Int
    <3>1. new # <<>>
      BY <2>1, EmptySeq DEF Rams
    <3>2. new \in Maps /\ t \in 0..Len(new) - 1
      BY <2>1, <3>1, MapShape DEF Rams
    <3>3. Size(new, t) \in 1..RamWords
      BY <3>2, MapShape
    <3> QED BY <3>3, MapsAssumption
  <2>2. \A t \in Rams : ramdata_cnt[t] + (IF t < Len(new) THEN Size(new, t) ELSE 0) \in Int
    BY <2>1 DEF Types
  <2>3. ramdata_cnt' = [t \in Rams |->
                    IF finishR[2] THEN 0
                    ELSE ramdata_cnt[t] + (IF t < Len(new) THEN Size(new, t) ELSE 0)]
    BY DEF DealEdge, Count
  <2> QED BY <2>2, <2>3
<1>4. pipe'[1] \in Int
  <2>1. ASSUME high \in Rams PROVE WordAt(high, low) \in Int
    <3>1. CASE high < Len(map)
      <4>1. map \in Maps /\ high \in 0..Len(map) - 1
        <5>1. map # <<>>
          BY <2>1, <3>1 DEF Rams
        <5>2. map \in Maps
          BY <5>1 DEF Types
        <5>3. Len(map) \in 1..8
          BY <5>2, MapShape
        <5> QED BY <5>2, <5>3, <2>1, <3>1 DEF Rams
      <4>2. Start(map, high) \in Nat
        BY <4>1, MapShape
      <4> QED BY <4>2 DEF WordAt, Garbage, Types
    <3>2. CASE ~(high < Len(map))
      BY <3>2 DEF WordAt, Garbage
    <3> QED BY <3>1, <3>2
  <2> QED BY <2>1, DealValues DEF NoWord
<1>5. stored' \in Seq(Int)
  <2>1. Append(stored, pipe[3]) \in Seq(Int) /\ <<>> \in Seq(Int)
    BY AppendProperties DEF Types
  <2>2. stored' \in {<<>>, Append(stored, pipe[3]), stored}
    BY DealValues
  <2> QED BY <2>1, <2>2 DEF Types
<1>6. map' \in Maps \cup {<<>>}
  BY DealValues DEF Types
<1>7. rdSeen'[1] \in Nat /\ rdSeen'[2] \in Nat
  BY DealValues DEF Types
<1>8. prog_full' \in BOOLEAN
  BY DEF DealEdge, FifoWrite
<1> QED BY DealValues, <1>1, <1>2, <1>3, <1>4, <1>5, <1>6, <1>7, <1>8 DEF Types

(* An edge of either clock or of both. *)
Step(pre, req, last, new) == Both(pre, req, last, new) \/ Axi(pre, req, last) \/ Deal(new)

LEMMA TypesKeep ==
  ASSUME Types, NEW pre \in BOOLEAN, NEW req \in BOOLEAN, NEW last \in BOOLEAN,
         NEW new \in Maps \cup {<<>>}, Step(pre, req, last, new)
  PROVE  Types'
<1>1. CASE Both(pre, req, last, new)
  <2>1. phase' \in 0..7 /\ AxiEdge(pre, req, last) /\ DealEdge(new)
    BY <1>1 DEF Both
  <2> QED BY <2>1, AxiTypes, DealTypes DEF Types
<1>2. CASE Axi(pre, req, last)
  <2>1. phase' \in 0..7 /\ AxiEdge(pre, req, last) /\ UNCHANGED <<deal, map>>
    BY <1>2 DEF Axi
  <2> QED BY <2>1, AxiTypes, DealStands DEF Types
<1>3. CASE Deal(new)
  <2>1. phase' \in 0..7 /\ DealEdge(new) /\ UNCHANGED axi
    BY <1>3 DEF Deal
  <2> QED BY <2>1, DealTypes, AxiStands DEF Types
<1> QED BY <1>1, <1>2, <1>3 DEF Step

-----------------------------------------------------------------------------
(* The finish and its crossing. *)
LEMMA CrossingKeeps ==
  ASSUME Types, Crossing, NEW pre \in BOOLEAN, NEW req \in BOOLEAN, NEW last \in BOOLEAN,
         NEW new \in Maps \cup {<<>>}, Step(pre, req, last, new)
  PROVE  Crossing'
<1>g. Gap \in Nat /\ Gap >= 18 /\ gap \in 0..Gap /\ rst_cnt \in 0..7
  BY GapAssumption DEF Types
<1>axi. ASSUME AxiEdge(pre, req, last)
        PROVE  /\ finish' <=> gap' = 0
               /\ rst_cnt' = IF gap' \in 1..7 THEN gap' ELSE 0
               /\ rst' <=> gap' \in 2..8
               /\ gap' = 0 => gap = Gap
               /\ gap' # 0 => gap' = gap + 1 \/ (gap' = Gap /\ gap = Gap)
  <2>1. last => gap = Gap
    BY <1>axi DEF AxiEdge, writing
  <2>2. CASE last
    <3>0. gap = Gap /\ ~finish /\ rst_cnt = 0
      BY <2>1, <2>2, <1>g DEF Crossing
    <3>1. gap' = 0 /\ gap = Gap /\ finish' /\ ~finish /\ rst_cnt = 0
      BY <1>axi, <2>2, <3>0, AxiValues
    <3>2. rst_cnt' = 0 /\ ~rst'
      BY <1>axi, <3>1, AxiValues
    <3> QED BY <3>1, <3>2, <1>g
  <2>3. CASE ~last
    <3>1. /\ gap' = IF gap < Gap THEN gap + 1 ELSE gap
          /\ rst_cnt' = IF finish \/ rst_cnt # 0 THEN (rst_cnt + 1) % 8 ELSE 0
          /\ rst' = (rst_cnt # 0) /\ ~finish'
      BY <1>axi, <2>3, AxiValues
    <3>2. rst_cnt' = IF gap' \in 1..7 THEN gap' ELSE 0
      BY <3>1, <1>g DEF Crossing
    <3>3. rst' <=> rst_cnt # 0
      BY <3>1
    <3>4. rst' <=> gap' \in 2..8
      BY <3>3, <3>1, <1>g DEF Crossing
    <3>5. ~finish' /\ gap' # 0 /\ (gap' = gap + 1 \/ (gap' = Gap /\ gap = Gap))
      BY <3>1, <1>g
    <3> QED BY <3>2, <3>4, <3>5
  <2> QED BY <2>2, <2>3
<1>1. CASE Both(pre, req, last, new)
  <2>1. phase = 0 /\ phase' = 1 /\ AxiEdge(pre, req, last) /\ DealEdge(new)
    BY <1>1 DEF Both
  <2>2. finishR'[1] = finish /\ finishR'[2] = finishR[1]
    BY <2>1, DealValues
  <2>3. ~Odd /\ Odd'
    BY <2>1 DEF Odd
  <2> QED BY <2>1, <2>2, <2>3, <1>axi, <1>g DEF Crossing
<1>2. CASE Axi(pre, req, last)
  <2>1. phase \in {2, 4, 6} /\ phase' = phase + 1 /\ AxiEdge(pre, req, last)
        /\ finishR' = finishR
    BY <1>2, DealStands DEF Axi
  <2>3. ~Odd /\ Odd' /\ phase' # 1
    BY <2>1 DEF Odd
  <2> QED BY <2>1, <2>3, <1>axi, <1>g DEF Crossing
<1>3. CASE Deal(new)
  <2>1. phase \in {1, 3, 5, 7} /\ phase' = (phase + 1) % 8 /\ DealEdge(new)
        /\ gap' = gap /\ finish' = finish /\ rst_cnt' = rst_cnt /\ rst' = rst
    BY <1>3, AxiStands DEF Deal
  <2>2. finishR'[1] = finish /\ finishR'[2] = finishR[1]
    BY <2>1, DealValues
  <2>3. Odd /\ ~Odd'
    BY <2>1 DEF Odd
  <2> QED BY <2>1, <2>2, <2>3, <1>g DEF Crossing
<1> QED BY <1>1, <1>2, <1>3 DEF Step

(* A map that is being written goes on, or ends; behind it nothing begins but
   with a new map when the gap is over.                                      *)
LEMMA Kinds ==
  ASSUME IInv, NEW pre \in BOOLEAN, NEW req \in BOOLEAN, NEW last \in BOOLEAN,
         NEW new \in Maps \cup {<<>>}, Step(pre, req, last, new)
  PROVE  /\ writing /\ writing' => map' = map /\ gap' = gap
         /\ writing /\ ~writing' => gap' = 0 /\ ~begun'
         /\ ~writing /\ writing' => /\ map = <<>> /\ gap = Gap /\ gap' = Gap
                                    /\ map' = new /\ new \in Maps
<1>g. Gap \in Nat /\ Gap >= 18 /\ gap \in 0..Gap
  BY GapAssumption DEF IInv, Types
<1>axi. ASSUME AxiEdge(pre, req, last)
        PROVE  /\ last => writing /\ gap' = 0 /\ ~begun'
               /\ ~last => gap' = IF gap < Gap THEN gap + 1 ELSE gap
  <2>1. last => writing
    BY <1>axi DEF AxiEdge
  <2> QED BY <1>axi, <2>1, AxiValues DEF IInv
<1>deal. ASSUME DealEdge(new)
         PROVE  /\ map' = IF new # <<>> THEN new ELSE IF finishR[2] THEN <<>> ELSE map
                /\ new # <<>> => map = <<>> /\ gap = Gap /\ new \in Maps
                /\ finishR[2] => gap <= 2
  <2>1. finishR[2] => gap <= 2
    BY DEF IInv, Crossing
  <2> QED BY <1>deal, <2>1, DealValues DEF IInv
<1>clean. ~writing /\ gap >= 3 => map = <<>>
  <2>1. gap >= 3 => Since(2, 3)
    BY <1>g DEF Since
  <2> QED BY <2>1 DEF IInv, Cleaning, Cleared
<1>1. CASE Both(pre, req, last, new)
  <2>1. AxiEdge(pre, req, last) /\ DealEdge(new)
    BY <1>1 DEF Both
  <2> QED BY <2>1, <1>axi, <1>deal, <1>clean, <1>g DEF writing
<1>2. CASE Axi(pre, req, last)
  <2>1. AxiEdge(pre, req, last) /\ map' = map
    BY <1>2, DealStands DEF Axi
  <2> QED BY <2>1, <1>axi, <1>clean, <1>g DEF writing
<1>3. CASE Deal(new)
  <2>1. DealEdge(new) /\ gap' = gap /\ begun' = begun
    BY <1>3, AxiStands DEF Deal
  <2> QED BY <2>1, <1>deal, <1>clean, <1>g DEF writing
<1> QED BY <1>1, <1>2, <1>3 DEF Step

-----------------------------------------------------------------------------
(* Behind a map. *)

Zeroed == high = 0 /\ low = 0 /\ map = <<>> /\ \A t \in Rams : ramdata_cnt[t] = 0
Emptied == stored = <<>> /\ rdSeen[1] = 0 /\ rdSeen[2] = 0 /\ ~prog_full

(* What an edge of deal_clk leaves without a new map. *)
LEMMA DealQuiet ==
  ASSUME Types, DealEdge(<<>>)
  PROVE  /\ finishR[2] \/ (Zeroed /\ ~preR[2]) => Zeroed'
         /\ rst \/ (Emptied /\ pipe[3] = NoWord /\ rd = 0) => Emptied'
         /\ ~preR[2] => pipe'[1] = NoWord
<1>1. ASSUME finishR[2] \/ (Zeroed /\ ~preR[2])
      PROVE  Zeroed'
  <2>1. ramdata_cnt' = [t \in Rams |-> IF finishR[2] THEN 0
                                        ELSE ramdata_cnt[t] + (IF t < Len(<<>>) THEN Size(<<>>, t) ELSE 0)]
    BY DEF DealEdge, Count
  <2>2. \A t \in Rams : ~(t < Len(<<>>))
    BY SMT DEF Rams
  <2>3. \A t \in Rams : ramdata_cnt'[t] = IF finishR[2] THEN 0 ELSE ramdata_cnt[t] + 0
    BY <2>1, <2>2
  <2>4. \A t \in Rams : ramdata_cnt'[t] = 0
    BY <2>3, <1>1 DEF Zeroed
  <2>5. map' = <<>>
    BY <1>1, DealValues DEF Zeroed
  <2>6. high' = 0 /\ low' = 0
    BY <1>1 DEF DealEdge, Counters, En, Zeroed
  <2> QED BY <2>4, <2>5, <2>6 DEF Zeroed
<1>2. ASSUME rst \/ (Emptied /\ pipe[3] = NoWord /\ rd = 0)
      PROVE  Emptied'
  <2>1. Emptied => Written = 0
    BY EmptySeq DEF Emptied, Written
  <2>2. ProgFull >= 9 /\ ProgFull \in Nat
    BY FifoAssumption
  <2>3. prog_full' <=> ~rst /\ Brim
    BY DealValues
  <2>4. ~prog_full'
    BY <1>2, <2>1, <2>2, <2>3 DEF Emptied, Brim
  <2>5. stored' = <<>> /\ rdSeen'[1] = 0 /\ rdSeen'[2] = 0
    BY <1>2, DealValues DEF Emptied
  <2> QED BY <2>4, <2>5 DEF Emptied
<1>3. ~preR[2] => pipe'[1] = NoWord
  BY DealValues DEF En
<1> QED BY <1>1, <1>2, <1>3

(* What an edge of axi_clk leaves. *)
LEMMA AxiQuiet ==
  ASSUME Types, Crossing, Cleaning, ~writing,
         NEW pre \in BOOLEAN, NEW req \in BOOLEAN, NEW last \in BOOLEAN,
         AxiEdge(pre, req, last)
  PROVE  /\ gap' = IF gap < Gap THEN gap + 1 ELSE gap
         /\ ~image_fifo_pre_read' /\ ~begun'
         /\ gap >= 2 /\ (gap >= 9 => stored = <<>>) =>
              rd' = 0 /\ wrSeen'[1] = 0 /\ wrSeen'[2] = 0
<1>1. ~pre /\ ~req /\ ~last
  BY DEF AxiEdge
<1>2. gap' = IF gap < Gap THEN gap + 1 ELSE gap
  BY <1>1, AxiValues
<1>3. ~image_fifo_pre_read'
  <2>1. gap \in Nat /\ (gap = 0 => finish) /\ (gap >= 1 => ~image_fifo_pre_read)
    BY GapAssumption DEF Types, Crossing, Cleaning
  <2>2. image_fifo_pre_read' <=> ~finish /\ (pre \/ image_fifo_pre_read)
    BY AxiValues
  <2> QED BY <1>1, <2>1, <2>2
<1>4. ~begun'
  BY AxiValues DEF Cleaning
<1>5. ASSUME gap >= 2, gap >= 9 => stored = <<>>
      PROVE  rd' = 0 /\ wrSeen'[1] = 0 /\ wrSeen'[2] = 0
  <2>1. gap \in Nat
    BY GapAssumption DEF Types
  <2>2. CASE gap <= 8
    <3>1. rst
      BY <2>1, <2>2, <1>5 DEF Crossing
    <3> QED BY <3>1, AxiValues
  <2>3. CASE gap >= 9
    <3>1. ~rst /\ rd = 0 /\ wrSeen[1] = 0 /\ wrSeen[2] = 0
      BY <2>1, <2>3 DEF Crossing, Cleaning
    <3>2. Written = 0
      BY <1>5, <2>3, EmptySeq DEF Written
    <3> QED BY <3>1, <3>2, <1>1, AxiValues
  <2> QED BY <2>1, <2>2, <2>3
<1> QED BY <1>2, <1>3, <1>4, <1>5

LEMMA CleaningKeeps ==
  ASSUME IInv, NEW pre \in BOOLEAN, NEW req \in BOOLEAN, NEW last \in BOOLEAN,
         NEW new \in Maps \cup {<<>>}, Step(pre, req, last, new), ~writing'
  PROVE  Cleaning'
<1>g. Gap \in Nat /\ Gap >= 18 /\ gap \in 0..Gap
  BY GapAssumption DEF IInv, Types
<1>1. CASE writing
  <2>1. gap' = 0 /\ ~begun'
    BY <1>1, Kinds
  <2>2. ~Since(1, 2)' /\ ~Since(2, 3)' /\ ~Since(3, 4)' /\ ~Since(4, 5)' /\ ~Since(5, 6)'
    BY <2>1 DEF Since
  <2> QED BY <2>1, <2>2 DEF Cleaning
<1>2. CASE ~writing
  <2> USE <1>2 DEF IInv
  <2>new. ASSUME DealEdge(new), gap = Gap => gap' = Gap PROVE new = <<>>
    <3>1. map' = IF new # <<>> THEN new ELSE IF finishR[2] THEN <<>> ELSE map
      BY <2>new, DealValues
    <3>2. new # <<>> => gap = Gap
      BY <2>new, DealValues
    <3> QED BY <2>new, <3>1, <3>2 DEF writing
  <2>old. /\ gap >= 1 => ~image_fifo_pre_read
          /\ Since(1, 2) => ~preR[1]
          /\ Since(2, 3) \/ (gap = 2 /\ phase = 1) => ~preR[2] /\ Zeroed
          /\ Since(2, 3) => Emptied
          /\ Since(3, 4) => pipe[1] = NoWord
          /\ Since(4, 5) => pipe[2] = NoWord
          /\ Since(5, 6) => pipe[3] = NoWord
          /\ gap >= 3 => rd = 0 /\ wrSeen[1] = 0 /\ wrSeen[2] = 0
          /\ ~begun
    BY DEF Cleaning, Cleared, Zeroed, Emptied
  <2>goal. ASSUME /\ gap' >= 1 => ~image_fifo_pre_read'
                  /\ Since(1, 2)' => ~preR'[1]
                  /\ Since(2, 3)' \/ (gap' = 2 /\ phase' = 1) => ~preR'[2] /\ Zeroed'
                  /\ Since(2, 3)' => Emptied'
                  /\ Since(3, 4)' => pipe'[1] = NoWord
                  /\ Since(4, 5)' => pipe'[2] = NoWord
                  /\ Since(5, 6)' => pipe'[3] = NoWord
                  /\ gap' >= 3 => rd' = 0 /\ wrSeen'[1] = 0 /\ wrSeen'[2] = 0
                  /\ ~begun'
           PROVE  Cleaning'
    BY <2>goal DEF Cleaning, Cleared, Zeroed, Emptied
  <2>rst. /\ gap \in 2..8 => rst
          /\ gap = 1 /\ (~Odd \/ phase = 1) => finishR[2]
          /\ gap = 2 /\ Odd /\ phase # 1 => finishR[2]
    BY DEF Crossing
  <2>a. CASE Both(pre, req, last, new)
    <3>1. phase = 0 /\ phase' = 1 /\ AxiEdge(pre, req, last) /\ DealEdge(new)
      BY <2>a DEF Both
    <3>2. /\ gap' = IF gap < Gap THEN gap + 1 ELSE gap
          /\ ~image_fifo_pre_read' /\ ~begun'
          /\ gap >= 2 /\ (gap >= 9 => stored = <<>>) =>
               rd' = 0 /\ wrSeen'[1] = 0 /\ wrSeen'[2] = 0
      BY <3>1, AxiQuiet
    <3>3. new = <<>>
      BY <2>new, <3>1, <3>2, <1>g
    <3>4. /\ preR'[1] = image_fifo_pre_read /\ preR'[2] = preR[1]
          /\ pipe'[2] = pipe[1] /\ pipe'[3] = pipe[2]
      BY <3>1, DealValues
    <3>5. /\ finishR[2] \/ (Zeroed /\ ~preR[2]) => Zeroed'
          /\ rst \/ (Emptied /\ pipe[3] = NoWord /\ rd = 0) => Emptied'
          /\ ~preR[2] => pipe'[1] = NoWord
      BY <3>1, <3>3, DealQuiet
    <3>6. ~Odd /\ Odd'
      BY <3>1 DEF Odd
    <3>7. /\ gap >= 2 => Emptied'
          /\ gap >= 1 => ~preR'[2] /\ Zeroed'
          /\ gap >= 3 => rd' = 0 /\ wrSeen'[1] = 0 /\ wrSeen'[2] = 0
          /\ gap >= 2 => rd' = 0 /\ wrSeen'[1] = 0 /\ wrSeen'[2] = 0
      BY <1>g, <2>old, <2>rst, <3>1, <3>2, <3>4, <3>5, <3>6 DEF Since, Emptied
    <3> QED BY <1>g, <2>old, <2>goal, <3>1, <3>2, <3>4, <3>5, <3>6, <3>7 DEF Since
  <2>b. CASE Axi(pre, req, last)
    <3>1. phase \in {2, 4, 6} /\ phase' = phase + 1 /\ AxiEdge(pre, req, last)
          /\ UNCHANGED <<deal, map>>
      BY <2>b DEF Axi
    <3>2. /\ gap' = IF gap < Gap THEN gap + 1 ELSE gap
          /\ ~image_fifo_pre_read' /\ ~begun'
          /\ gap >= 2 /\ (gap >= 9 => stored = <<>>) =>
               rd' = 0 /\ wrSeen'[1] = 0 /\ wrSeen'[2] = 0
      BY <3>1, AxiQuiet
    <3>3. preR' = preR /\ pipe' = pipe /\ Zeroed' = Zeroed /\ Emptied' = Emptied
      BY <3>1, DealStands DEF Zeroed, Emptied
    <3>6. ~Odd /\ Odd' /\ phase' # 1
      BY <3>1 DEF Odd
    <3>7. gap >= 2 => rd' = 0 /\ wrSeen'[1] = 0 /\ wrSeen'[2] = 0
      BY <1>g, <2>old, <3>2, <3>6 DEF Since, Emptied
    <3> QED BY <1>g, <2>old, <2>goal, <3>2, <3>3, <3>6, <3>7 DEF Since
  <2>c. CASE Deal(new)
    <3>1. phase \in {1, 3, 5, 7} /\ phase' = (phase + 1) % 8 /\ DealEdge(new) /\ UNCHANGED axi
      BY <2>c DEF Deal
    <3>2. /\ image_fifo_pre_read' = image_fifo_pre_read /\ rd' = rd /\ wrSeen' = wrSeen
          /\ gap' = gap /\ begun' = begun
      BY <3>1, AxiStands
    <3>3. new = <<>>
      BY <2>new, <3>1, <3>2
    <3>4. /\ preR'[1] = image_fifo_pre_read /\ preR'[2] = preR[1]
          /\ pipe'[2] = pipe[1] /\ pipe'[3] = pipe[2]
      BY <3>1, DealValues
    <3>5. /\ finishR[2] \/ (Zeroed /\ ~preR[2]) => Zeroed'
          /\ rst \/ (Emptied /\ pipe[3] = NoWord /\ rd = 0) => Emptied'
          /\ ~preR[2] => pipe'[1] = NoWord
      BY <3>1, <3>3, DealQuiet
    <3>6. Odd /\ ~Odd' /\ phase' # 1
      BY <3>1 DEF Odd
    <3>7. /\ gap >= 2 => Emptied'
          /\ gap >= 2 => ~preR'[2] /\ Zeroed'
      BY <1>g, <2>old, <2>rst, <3>1, <3>2, <3>4, <3>5, <3>6 DEF Since
    <3> QED BY <1>g, <2>old, <2>goal, <3>2, <3>4, <3>5, <3>6, <3>7 DEF Since
  <2> QED BY <2>a, <2>b, <2>c DEF Step
<1> QED BY <1>1, <1>2

-----------------------------------------------------------------------------
(* A new map in the RAMs. *)
LEMMA Begins ==
  ASSUME IInv, NEW pre \in BOOLEAN, NEW req \in BOOLEAN, NEW last \in BOOLEAN,
         NEW new \in Maps \cup {<<>>}, Step(pre, req, last, new), ~writing, writing'
  PROVE  Working'
<1>g. Gap \in Nat /\ Gap >= 18 /\ gap = Gap /\ map = <<>> /\ map' = new /\ new \in Maps
  BY GapAssumption, Kinds
<1>fifo. ProgFull \in Nat /\ ProgFull >= 9
  BY FifoAssumption
<1>t. Types /\ Crossing /\ Cleaning
  BY DEF IInv
<1>clean. /\ ~rst /\ ~finishR[2] /\ ~image_fifo_pre_read /\ ~preR[1] /\ ~preR[2] /\ Zeroed /\ Emptied
          /\ pipe[1] = NoWord /\ pipe[2] = NoWord /\ pipe[3] = NoWord
          /\ rd = 0 /\ wrSeen[1] = 0 /\ wrSeen[2] = 0 /\ ~begun
  <2>1. Since(1, 2) /\ Since(2, 3) /\ Since(3, 4) /\ Since(4, 5) /\ Since(5, 6) /\ gap >= 3
    BY <1>g DEF Since
  <2>2. ~rst /\ ~finishR[2]
    BY <1>g, <1>t DEF Crossing
  <2> QED BY <1>g, <1>t, <2>1, <2>2 DEF Cleaning, Cleared, Zeroed, Emptied
<1>edge. /\ DealEdge(new)
         /\ rd' = 0 /\ wrSeen'[1] = 0 /\ wrSeen'[2] = 0 /\ ~begun' /\ ~image_fifo_pre_read'
  <2>1. CASE Both(pre, req, last, new)
    <3>1. AxiEdge(pre, req, last) /\ DealEdge(new)
      BY <2>1 DEF Both
    <3> QED BY <3>1, <1>g, <1>t, <1>clean, AxiQuiet DEF Emptied
  <2>2. CASE Axi(pre, req, last)
    BY <2>2, <1>g, DealStands DEF Axi, writing
  <2>3. CASE Deal(new)
    BY <2>3, <1>clean, AxiStands DEF Deal
  <2> QED BY <2>1, <2>2, <2>3 DEF Step
<1>shape. Len(new) \in 1..8 /\ Size(new, 0) \in 1..RamWords /\ Start(new, 0) = 0 /\ Total' \in Nat
  BY <1>g, MapShape DEF Start, Total
<1>1. /\ ~preR'[1] /\ ~preR'[2] /\ stored' = <<>> /\ rdSeen'[1] = 0 /\ rdSeen'[2] = 0
      /\ pipe'[1] = NoWord /\ pipe'[2] = NoWord /\ pipe'[3] = NoWord
  BY <1>edge, <1>t, <1>clean, DealValues DEF En, Emptied
<1>2. Written' = 0 /\ Third' = 0 /\ Second' = 0 /\ Issued' = 0
  BY <1>1, EmptySeq DEF Written, Third, Second, Issued, One
<1>3. ~prog_full'
  <2>1. Written = 0
    BY <1>clean, EmptySeq DEF Written, Emptied
  <2> QED BY <1>edge, <1>t, <1>clean, <2>1, <1>fifo, DealValues DEF Brim, Emptied
<1>4. high' = 0 /\ low' = 0
  BY <1>edge, <1>clean DEF DealEdge, Counters, En, Zeroed
<1>5. \A t \in Rams : ramdata_cnt'[t] = IF t < Len(new) THEN Size(new, t) ELSE 0
  <2>1. ramdata_cnt' = [t \in Rams |-> IF finishR[2] THEN 0
                                        ELSE ramdata_cnt[t] + (IF t < Len(new) THEN Size(new, t) ELSE 0)]
    BY <1>edge DEF DealEdge, Count
  <2>2. ASSUME NEW t \in Rams
        PROVE  ramdata_cnt'[t] = 0 + (IF t < Len(new) THEN Size(new, t) ELSE 0)
    BY <2>1, <1>clean DEF Zeroed
  <2>3. ASSUME NEW t \in Rams, t < Len(new) PROVE Size(new, t) \in Int
    <3>1. t \in 0..Len(new) - 1
      BY <2>3, <1>shape DEF Rams
    <3>2. Size(new, t) \in 1..RamWords
      BY <3>1, <1>g, MapShape
    <3> QED BY <3>2, MapsAssumption
  <2> QED BY <2>2, <2>3
<1>6. Counted'
  BY <1>1, <1>2, <1>5, <1>g DEF Counted
<1>7. Seen' /\ Room' /\ Paused' /\ Starting'
  BY <1>1, <1>2, <1>3, <1>edge, <1>fifo DEF Seen, Room, Paused, Starting, Reach
<1>8. Order'
  <2>1. Len(stored') = 0
    BY <1>1, EmptySeq
  <2>2. high' < Len(map') /\ low' < Size(map', high') /\ Start(map', high') + low' = 0
    <3>1. Size(map', high') = Size(new, 0) /\ Start(map', high') = Start(new, 0)
      BY <1>4, <1>g
    <3>2. RamWords \in Nat
      BY MapsAssumption
    <3>3. 0 < Size(new, 0) /\ 0 < Len(new)
      <4>1. Size(new, 0) \in 1..RamWords
        BY <1>shape
      <4>2. Len(new) \in 1..8
        BY <1>shape
      <4>3. 0 < Size(new, 0)
        BY <3>2, <4>1
      <4> QED BY <4>2, <4>3
    <3>4. Len(map') = Len(new)
      BY <1>g
    <3> HIDE DEF Size, Start
    <3> QED BY <3>1, <3>3, <3>4, <1>4, <1>shape
  <2> QED BY <2>1, <2>2, <1>1, <1>2 DEF Order
<1> QED BY <1>6, <1>7, <1>8, <1>edge DEF Working, Flow

-----------------------------------------------------------------------------
(* While a map is written. *)

(* An edge of axi_clk moves what the reader has and what it sees. *)
AxiMoves(req) ==
  /\ rd' = IF req THEN rd + 1 ELSE rd
  /\ wrSeen'[1] = Written /\ wrSeen'[2] = wrSeen[1]
  /\ begun' <=> begun \/ wrSeen[1] > 0
  /\ req => rd < Total /\ rd # wrSeen[2]
  /\ image_fifo_pre_read => image_fifo_pre_read'
AxiRests ==
  /\ rd' = rd /\ wrSeen'[1] = wrSeen[1] /\ wrSeen'[2] = wrSeen[2] /\ begun' = begun
  /\ image_fifo_pre_read' = image_fifo_pre_read

(* An edge of deal_clk moves the words, and issues one more. *)
Issues == preR[2] /\ ~prog_full /\ high \in Rams
DealMoves ==
  /\ Written' = Third /\ Third' = Second /\ Second' = Issued
  /\ Issued' = IF Issues THEN Issued + 1 ELSE Issued
  /\ rdSeen'[1] = rd /\ rdSeen'[2] = rdSeen[1]
  /\ prog_full' <=> Brim
  /\ preR'[1] = image_fifo_pre_read /\ preR'[2] = preR[1]
DealRests ==
  /\ Written' = Written /\ Third' = Third /\ Second' = Second /\ Issued' = Issued
  /\ rdSeen'[1] = rdSeen[1] /\ rdSeen'[2] = rdSeen[2] /\ prog_full' = prog_full
  /\ preR'[1] = preR[1] /\ preR'[2] = preR[2]

LEMMA Counts ==
  ASSUME Types
  PROVE  /\ Written \in Nat /\ Third \in Nat /\ Second \in Nat /\ Issued \in Nat
         /\ Written <= Third /\ Third <= Written + 1 /\ (Third # Written <=> pipe[3] # NoWord)
         /\ Third <= Second /\ Second <= Third + 1 /\ (Second # Third <=> pipe[2] # NoWord)
         /\ Second <= Issued /\ Issued <= Second + 1 /\ (Issued # Second <=> pipe[1] # NoWord)
<1>1. Written \in Nat
  BY LenProperties DEF Types, Written
<1> QED BY <1>1 DEF Third, Second, Issued, One

(* There is room for the word that comes. *)
LEMMA NotFull ==
  ASSUME Types, Room, pipe[3] # NoWord
  PROVE  Written - rdSeen[2] < Depth
<1>1. Written + 1 <= Issued /\ Issued \in Nat /\ Written \in Nat /\ rdSeen[2] \in Nat
  BY Counts DEF Types
<1>2. ProgFull \in Nat /\ Depth \in Nat /\ Depth >= ProgFull + 4
  BY FifoAssumption
<1> QED BY <1>1, <1>2 DEF Room

LEMMA WordIsWord ==
  ASSUME Types, high \in Rams
  PROVE  WordAt(high, low) # NoWord
<1>1. CASE high < Len(map)
  <2>1. map # <<>>
    BY <1>1, EmptySeq DEF Rams
  <2>2. map \in Maps /\ Len(map) \in 1..8
    BY <2>1, MapShape DEF Types
  <2>3. high \in 0..Len(map) - 1
    BY <1>1, <2>2 DEF Rams
  <2>4. Start(map, high) \in Nat
    BY <2>2, <2>3, MapShape
  <2>5. low \in Nat
    BY MapsAssumption DEF Types
  <2> QED BY <2>4, <2>5 DEF WordAt, Garbage, NoWord
<1>2. CASE ~(high < Len(map))
  BY <1>2 DEF WordAt, Garbage, NoWord
<1> QED BY <1>1, <1>2

LEMMA Moves ==
  ASSUME IInv, NEW pre \in BOOLEAN, NEW req \in BOOLEAN, NEW last \in BOOLEAN,
         NEW new \in Maps \cup {<<>>}, Step(pre, req, last, new), writing, writing'
  PROVE  /\ map' = map
         /\ \/ phase = 0 /\ phase' = 1 /\ AxiMoves(req) /\ DealMoves /\ DealEdge(<<>>)
            \/ phase \in {2, 4, 6} /\ phase' = phase + 1 /\ AxiMoves(req) /\ DealRests
               /\ UNCHANGED <<deal, map>>
            \/ phase \in {1, 3, 5, 7} /\ phase' = (phase + 1) % 8 /\ AxiRests /\ DealMoves
               /\ DealEdge(<<>>)
<1>g. Gap \in Nat /\ Gap >= 18 /\ gap = Gap /\ gap' = Gap /\ map # <<>> /\ map' = map
  BY GapAssumption, Kinds DEF writing
<1>t. Types /\ Crossing /\ Room /\ ~rst /\ ~finishR[2] /\ ~finish
  BY <1>g DEF IInv, Working, Crossing
<1>axi. ASSUME AxiEdge(pre, req, last) PROVE AxiMoves(req)
  <2>1. ~last
    BY <1>axi, <1>g, <1>t, AxiValues
  <2>2. begun' <=> begun \/ wrSeen[1] > 0
    BY <1>axi, <1>t, <2>1, AxiValues
  <2>3. req => rd < Total /\ rd # wrSeen[2]
    BY <1>axi DEF AxiEdge, empty
  <2>4. image_fifo_pre_read => image_fifo_pre_read'
    BY <1>axi, <1>t, AxiValues
  <2> QED BY <1>axi, <1>t, <2>2, <2>3, <2>4, AxiValues DEF AxiMoves
<1>deal. ASSUME DealEdge(new) PROVE DealMoves /\ new = <<>>
  <2>0. new = <<>>
    BY <1>deal, <1>g, <1>t, DealValues
  <2>1. stored' = IF pipe[3] # NoWord THEN Append(stored, pipe[3]) ELSE stored
    BY <1>deal, <1>t, DealValues, NotFull
  <2>2. Written' = Third
    <3>1. Len(Append(stored, pipe[3])) = Len(stored) + 1 /\ Len(stored) \in Nat
      BY <1>t, AppendProperties, LenProperties DEF Types
    <3> QED BY <2>1, <3>1 DEF Written, Third, One
  <2>3. Third' = Second
    <3>1. pipe'[3] = pipe[2]
      BY <1>deal, <1>t, DealValues
    <3> QED BY <2>2, <3>1 DEF Second, Third, One
  <2>4. Second' = Issued
    <3>1. pipe'[2] = pipe[1]
      BY <1>deal, <1>t, DealValues
    <3> QED BY <2>3, <3>1 DEF Second, Issued, One
  <2>5. Issued' = IF Issues THEN Issued + 1 ELSE Issued
    <3>1. pipe'[1] = IF En /\ high \in Rams THEN WordAt(high, low) ELSE NoWord
      BY <1>deal, <1>t, DealValues
    <3>2. pipe'[1] = NoWord <=> ~Issues
      BY <3>1, <1>t, WordIsWord DEF En, Issues
    <3>3. Issued' = Second' + IF pipe'[1] = NoWord THEN 0 ELSE 1
      BY DEF Issued, One
    <3> QED BY <2>4, <3>2, <3>3, <1>t, Counts
  <2> QED BY <1>deal, <1>t, <2>0, <2>2, <2>3, <2>4, <2>5, DealValues DEF DealMoves
<1>1. CASE Both(pre, req, last, new)
  BY <1>1, <1>axi, <1>deal, <1>g DEF Both
<1>2. CASE Axi(pre, req, last)
  <2>1. DealRests
    BY <1>2, DealStands DEF Axi, DealRests, Written, Third, Second, Issued, One
  <2> QED BY <1>2, <2>1, <1>axi, <1>g DEF Axi
<1>3. CASE Deal(new)
  <2>1. AxiRests
    BY <1>3, AxiStands DEF Deal, AxiRests
  <2> QED BY <1>3, <2>1, <1>deal, <1>g DEF Deal
<1> QED BY <1>1, <1>2, <1>3 DEF Step

LEMMA SeenKeeps ==
  ASSUME Types, Types', Seen, NEW req \in BOOLEAN, writing,
         \/ phase = 0 /\ phase' = 1 /\ AxiMoves(req) /\ DealMoves
         \/ phase \in {2, 4, 6} /\ phase' = phase + 1 /\ AxiMoves(req) /\ DealRests
         \/ phase \in {1, 3, 5, 7} /\ phase' = (phase + 1) % 8 /\ AxiRests /\ DealMoves
  PROVE  Seen'
<1>1. /\ Written \in Nat /\ Third \in Nat /\ Written <= Third
      /\ rd \in Nat /\ wrSeen[1] \in Nat /\ wrSeen[2] \in Nat /\ rdSeen[1] \in Nat /\ rdSeen[2] \in Nat
  BY Counts DEF Types
<1>2. CASE phase = 0 /\ phase' = 1 /\ AxiMoves(req) /\ DealMoves
  <2>1. ~Odd /\ Odd'
    BY <1>2 DEF Odd
  <2> QED BY <1>1, <1>2, <2>1 DEF Seen, AxiMoves, DealMoves
<1>3. CASE phase \in {2, 4, 6} /\ phase' = phase + 1 /\ AxiMoves(req) /\ DealRests
  <2>1. ~Odd /\ Odd'
    BY <1>3 DEF Odd
  <2> QED BY <1>1, <1>3, <2>1 DEF Seen, AxiMoves, DealRests
<1>4. CASE phase \in {1, 3, 5, 7} /\ phase' = (phase + 1) % 8 /\ AxiRests /\ DealMoves
  <2>1. Odd /\ ~Odd'
    BY <1>4 DEF Odd
  <2> QED BY <1>1, <1>4, <2>1 DEF Seen, AxiRests, DealMoves
<1> QED BY <1>2, <1>3, <1>4

(* Words in the FIFO by its reader as the writer sees it. *)
LEMMA RoomKeeps ==
  ASSUME Types, Seen, Room, DealMoves \/ DealRests
  PROVE  Room'
<1>1. /\ Written \in Nat /\ Third \in Nat /\ Second \in Nat /\ Issued \in Nat
      /\ Third <= Written + 1 /\ Second <= Third + 1 /\ Issued <= Second + 1
      /\ rdSeen[1] \in Nat /\ rdSeen[2] \in Nat
      /\ ProgFull \in Nat
  BY Counts, FifoAssumption DEF Types
<1>2. rdSeen[2] <= rdSeen[1]
  BY DEF Seen
<1>3. CASE DealMoves
  <2>1. Issued' - rdSeen'[2] <= ProgFull + 4
    <3>1. CASE Issues
      <4>1. Written - rdSeen[2] <= ProgFull
        BY <3>1 DEF Issues, Room
      <4> QED BY <1>1, <1>2, <1>3, <3>1, <4>1 DEF DealMoves
    <3>2. CASE ~Issues
      BY <1>1, <1>2, <1>3, <3>2 DEF DealMoves, Room
    <3> QED BY <3>1, <3>2
  <2>2. ASSUME ~prog_full' PROVE Written' - rdSeen'[2] <= ProgFull
    <3>1. Written - rdSeen[2] < ProgFull
      BY <1>1, <1>3, <2>2 DEF DealMoves, Brim
    <3> QED BY <1>1, <1>2, <1>3, <3>1 DEF DealMoves
  <2> QED BY <2>1, <2>2 DEF Room
<1>4. CASE DealRests
  BY <1>4 DEF DealRests, Room
<1> QED BY <1>3, <1>4

(* What the reader has is at least what the writer saw two edges ago. *)
LEMMA PausedKeeps ==
  ASSUME Types, Types', Seen, Paused, NEW req \in BOOLEAN,
         \/ phase = 0 /\ phase' = 1 /\ AxiMoves(req) /\ DealMoves
         \/ phase \in {2, 4, 6} /\ phase' = phase + 1 /\ AxiMoves(req) /\ DealRests
         \/ phase \in {1, 3, 5, 7} /\ phase' = (phase + 1) % 8 /\ AxiRests /\ DealMoves
  PROVE  Paused'
<1>1. /\ Written \in Nat /\ Issued \in Nat /\ Written <= Issued
      /\ rd \in Nat /\ rdSeen[2] \in Nat /\ ProgFull \in Nat /\ ProgFull >= 9
  BY Counts, FifoAssumption DEF Types
<1>2. ASSUME DealMoves, prog_full' PROVE Issued' >= rdSeen[2] + 8
  <2>1. Written - rdSeen[2] >= ProgFull - 1
    BY <1>1, <1>2 DEF DealMoves, Brim
  <2> QED BY <1>1, <1>2, <2>1 DEF DealMoves
<1>3. CASE phase = 0 /\ phase' = 1 /\ AxiMoves(req) /\ DealMoves
  <2>1. ~Odd
    BY <1>3 DEF Odd
  <2>2. rd <= rdSeen[2] + 1 /\ rd' <= rd + 1 /\ rd' \in Nat
    BY <1>1, <1>3, <2>1 DEF Seen, AxiMoves
  <2>3. prog_full' => Issued' >= rd' + 6
    <3>1. Issued' \in Nat
      BY <1>3, <1>1 DEF DealMoves
    <3>2. prog_full' => Issued' >= rdSeen[2] + 8
      BY <1>2, <1>3
    <3> DEFINE next == rd'
    <3>3. next \in Nat /\ next <= rdSeen[2] + 2
      BY <1>1, <2>2
    <3> HIDE DEF next
    <3>4. prog_full' => Issued' >= next + 6
      BY <1>1, <3>1, <3>2, <3>3
    <3> QED BY <3>4 DEF next
  <2> QED BY <1>3, <2>3 DEF Paused
<1>4. CASE phase \in {2, 4, 6} /\ phase' = phase + 1 /\ AxiMoves(req) /\ DealRests
  <2>1. ~Odd /\ Odd' /\ phase' # 1
    BY <1>4 DEF Odd
  <2> QED BY <1>1, <1>4, <2>1 DEF Paused, AxiMoves, DealRests
<1>5. CASE phase \in {1, 3, 5, 7} /\ phase' = (phase + 1) % 8 /\ AxiRests /\ DealMoves
  <2>1. Odd /\ ~Odd'
    BY <1>5 DEF Odd
  <2>2. rd <= rdSeen[2] + 2 /\ rd' = rd
    BY <1>1, <1>5, <2>1 DEF Seen, AxiRests
  <2>3. prog_full' => Issued' >= rd' + 6
    <3>1. Issued' \in Nat
      BY <1>5, <1>1 DEF DealMoves
    <3> QED BY <1>1, <1>2, <1>5, <2>2, <3>1
  <2> QED BY <2>1, <2>3 DEF Paused
<1> QED BY <1>3, <1>4, <1>5

LEMMA CountedKeeps ==
  ASSUME Types, Counted, ~finishR[2], map' = map, NEW req,
         \/ (AxiMoves(req) \/ AxiRests) /\ DealMoves /\ DealEdge(<<>>)
         \/ AxiMoves(req) /\ DealRests /\ UNCHANGED <<deal, map>>
  PROVE  Counted'
<1>1. image_fifo_pre_read => image_fifo_pre_read'
  BY DEF AxiMoves, AxiRests
<1>2. CASE DealMoves /\ DealEdge(<<>>)
  <2>1. ramdata_cnt' = [t \in Rams |-> IF finishR[2] THEN 0
                                        ELSE ramdata_cnt[t] + (IF t < Len(<<>>) THEN Size(<<>>, t) ELSE 0)]
    BY <1>2 DEF DealEdge, Count
  <2>2. \A t \in Rams : ~(t < Len(<<>>))
    BY SMT DEF Rams
  <2>3. ASSUME NEW t \in Rams PROVE ramdata_cnt'[t] = ramdata_cnt[t]
    <3>1. ramdata_cnt'[t] = ramdata_cnt[t] + 0
      BY <2>1, <2>2
    <3>2. ramdata_cnt[t] \in Int
      BY DEF Types
    <3> QED BY <3>1, <3>2
  <2>4. preR'[1] = image_fifo_pre_read /\ preR'[2] = preR[1]
    BY <1>2 DEF DealMoves
  <2>5. Issued' > 0 => preR[2]
    <3>1. Issued \in Nat /\ Issued' = IF Issues THEN Issued + 1 ELSE Issued
      BY <1>2, Counts DEF DealMoves
    <3>2. CASE Issues
      BY <3>2 DEF Issues
    <3>3. CASE ~Issues
      BY <3>1, <3>3 DEF Counted
    <3> QED BY <3>2, <3>3
  <2> QED BY <1>1, <2>3, <2>4, <2>5 DEF Counted
<1>3. CASE DealRests /\ UNCHANGED <<deal, map>>
  <2>1. ramdata_cnt' = ramdata_cnt /\ preR' = preR /\ Issued' = Issued
    BY <1>3, DealStands DEF DealRests
  <2> QED BY <1>1, <2>1 DEF Counted
<1> QED BY <1>2, <1>3

(* The words that are written are those of the map, in order. *)
LEMMA OrderKeeps ==
  ASSUME Types, Counted, Room, Order, ~finishR[2], ~rst, map # <<>>, map' = map,
         DealMoves, DealEdge(<<>>)
  PROVE  Order'
<1>m. /\ Len(map) \in 1..8 /\ Total \in Nat /\ map \in Maps /\ RamWords \in Nat /\ Total' = Total
      /\ high \in 0..15 /\ low \in 0..RamWords - 1
  <2>1. map \in Maps
    BY DEF Types
  <2> QED BY <2>1, MapShape, MapsAssumption DEF Types, Total
<1>c. /\ Written \in Nat /\ Third \in Nat /\ Second \in Nat /\ Issued \in Nat
      /\ Written' = Third /\ Third' = Second /\ Second' = Issued
      /\ Issued' = IF Issues THEN Issued + 1 ELSE Issued
  BY Counts DEF DealMoves
<1>p. /\ pipe'[1] = IF En /\ high \in Rams THEN WordAt(high, low) ELSE NoWord
      /\ pipe'[2] = pipe[1] /\ pipe'[3] = pipe[2]
      /\ stored' = IF pipe[3] # NoWord THEN Append(stored, pipe[3]) ELSE stored
  BY DealValues, NotFull
<1>at. ASSUME Issued < Total
       PROVE  /\ high \in Rams /\ high \in 0..Len(map) - 1 /\ low < Size(map, high)
              /\ WordAt(high, low) = Issued /\ Start(map, high) + low = Issued
              /\ ramdata_cnt[high] = Size(map, high)
  <2>1. high < Len(map) /\ low < Size(map, high) /\ Start(map, high) + low = Issued
    BY <1>at DEF Order
  <2> DEFINE n == Len(map)
  <2>0. n \in 1..8 /\ high < n /\ high \in 0..15
    BY <2>1, <1>m
  <2>2. high \in Rams /\ high \in 0..n - 1
    <3> HIDE DEF n
    <3> QED BY <2>0 DEF Rams
  <2>3. WordAt(high, low) = Issued
    BY <2>1 DEF WordAt
  <2>4. ramdata_cnt[high] = Size(map, high)
    BY <2>1, <2>2 DEF Counted
  <2> QED BY <2>1, <2>2, <2>3, <2>4
<1>1. \A k \in 1..Len(stored') : k <= Total => stored'[k] = k - 1
  <2>1. CASE pipe[3] = NoWord
    BY <2>1, <1>p DEF Order
  <2>2. CASE pipe[3] # NoWord
    <3>1. stored' = Append(stored, pipe[3])
      BY <2>2, <1>p
    <3>2. Len(stored') = Len(stored) + 1 /\ Len(stored) \in Nat
      BY <3>1, AppendProperties, LenProperties DEF Types
    <3>3. ASSUME NEW k \in 1..Len(stored'), k <= Total PROVE stored'[k] = k - 1
      <4>1. CASE k \in 1..Len(stored)
        <5>1. stored'[k] = stored[k]
          BY <3>1, <4>1, AppendProperties DEF Types
        <5> QED BY <5>1, <4>1, <3>3 DEF Order
      <4>2. CASE k = Len(stored) + 1
        <5>1. stored'[k] = pipe[3]
          BY <3>1, <4>2, AppendProperties DEF Types
        <5>2. Written < Total
          BY <4>2, <3>2, <3>3, <1>m DEF Written
        <5>3. pipe[3] = Written
          BY <5>2, <2>2 DEF Order
        <5> QED BY <5>1, <5>3, <4>2, <3>2 DEF Written
      <4> QED BY <4>1, <4>2, <3>2
    <3> QED BY <3>3
  <2> QED BY <2>1, <2>2
<1>2. /\ pipe'[3] # NoWord /\ Written' < Total => pipe'[3] = Written'
      /\ pipe'[2] # NoWord /\ Third' < Total => pipe'[2] = Third'
  BY <1>p, <1>c DEF Order
<1>3. pipe'[1] # NoWord /\ Second' < Total => pipe'[1] = Second'
  BY <1>p, <1>c, <1>at
<1>4. ASSUME Issued' < Total
      PROVE  high' < Len(map) /\ low' < Size(map, high') /\ Start(map, high') + low' = Issued'
  <2>0. Issued < Total
    BY <1>4, <1>c, <1>m
  <2>1. /\ low' = IF En /\ low = ramdata_cnt[high] - 1 THEN 0
                  ELSE IF En THEN (low + 1) % RamWords ELSE low
        /\ high' = IF En /\ (low = ramdata_cnt[high] - 1 \/ low = RamWords - 1)
                     THEN (high + 1) % 16 ELSE high
    <3>1. high \in Rams
      BY <2>0, <1>at
    <3> QED BY <3>1 DEF DealEdge, Counters
  <2>2. CASE ~En
    <3>1. Issued' = Issued
      BY <1>c, <2>2 DEF En, Issues
    <3> QED BY <3>1, <2>0, <2>1, <2>2, <1>at, <1>m
  <2>3. CASE En
    <3>s. Size(map, high) \in 1..RamWords /\ Start(map, high) \in Nat
          /\ Start(map, high) + Size(map, high) = map[high + 1]
      BY <2>0, <1>at, <1>m, MapShape
    <3>1. Issued' = Issued + 1
      BY <1>c, <2>3, <2>0, <1>at DEF En, Issues
    <3>2. CASE low = Size(map, high) - 1
      <4>1. low' = 0 /\ high' = (high + 1) % 16
        BY <2>1, <2>3, <3>2, <2>0, <1>at
      <4>0. high \in 0..7
        BY <2>0, <1>at DEF Rams
      <4>2. high' = high + 1 /\ high + 1 \in 1..8
        BY <4>0, <4>1
      <4>3. map[high + 1] = Issued'
        BY <3>1, <3>2, <3>s, <2>0, <1>at, <1>m, <1>c
      <4>4. high + 1 # Len(map)
        BY <4>3, <1>4, <1>m DEF Total
      <4>5. high' \in 0..Len(map) - 1
        BY <4>2, <4>4, <2>0, <1>at, <1>m
      <4>6. Start(map, high') = Issued'
        BY <4>2, <4>3 DEF Start
      <4>7. Size(map, high') \in 1..RamWords
        BY <4>5, <1>m, MapShape
      <4>8. 0 < Size(map, high')
        BY <4>7, <1>m
      <4>9. Issued' \in Nat
        BY <3>1, <1>c
      <4> QED BY <4>1, <4>5, <4>6, <4>8, <4>9, <1>m
    <3>3. CASE low # Size(map, high) - 1
      <4>1. low + 1 < Size(map, high) /\ low + 1 < RamWords
        BY <3>3, <3>s, <2>0, <1>at, <1>m
      <4>2. (low + 1) % RamWords = low + 1
        BY <4>1, <1>m, RamWordsMod
      <4>3. low' = low + 1 /\ high' = high
        BY <2>1, <2>3, <3>3, <4>1, <4>2, <2>0, <1>at, <1>m
      <4> QED BY <4>1, <4>3, <3>1, <3>s, <2>0, <1>at, <1>m
    <3> QED BY <3>2, <3>3
  <2> QED BY <2>2, <2>3
<1> QED BY <1>1, <1>2, <1>3, <1>4, <1>m DEF Order

(* A word is issued at every edge of deal_clk, but when there are enough. *)
LEMMA Supply ==
  ASSUME Types, Counted, Order, Paused, map # <<>>, Issued >= 1
  PROVE  Issues \/ Issued >= Total \/ Issued >= rd + IF phase \in {3, 5, 7} THEN 5 ELSE 6
<1>1. CASE prog_full
  <2>1. Issued >= rd + IF Odd /\ phase # 1 THEN 5 ELSE 6
    BY <1>1 DEF Paused
  <2>2. Odd /\ phase # 1 <=> phase \in {3, 5, 7}
    BY DEF Odd
  <2> QED BY <2>1, <2>2
<1>2. CASE ~prog_full /\ high \in Rams
  <2>1. preR[2]
    BY Counts DEF Counted
  <2> QED BY <1>2, <2>1 DEF Issues
<1>3. CASE high \notin Rams
  <2>1. map \in Maps
    BY DEF Types
  <2>2. Len(map) \in 1..8 /\ Total \in Nat /\ high \in 0..15 /\ Issued \in Nat
    BY <2>1, MapShape, Counts DEF Total, Types
  <2> DEFINE n == Len(map)
  <2>3. ~(high < n)
    <3> HIDE DEF n
    <3>1. n \in 1..8 /\ high \in 0..15 /\ high \notin 0..7
      BY <2>2, <1>3 DEF Rams, n
    <3> QED BY <3>1
  <2> QED BY <2>2, <2>3 DEF Order
<1> QED BY <1>1, <1>2, <1>3

(* The words in flight keep ahead of the reader, five edges to its four. *)
LEMMA FlowKeeps ==
  ASSUME Types, Types', Counted, Order, Paused, Seen, Flow, map # <<>>, map' = map, NEW req \in BOOLEAN,
         \/ phase = 0 /\ phase' = 1 /\ AxiMoves(req) /\ DealMoves
         \/ phase \in {2, 4, 6} /\ phase' = phase + 1 /\ AxiMoves(req) /\ DealRests
         \/ phase \in {1, 3, 5, 7} /\ phase' = (phase + 1) % 8 /\ AxiRests /\ DealMoves
  PROVE  Flow'
<1> DEFINE i == Issued    s == Second    t == Third    w == Written
           v == wrSeen[1]    u == wrSeen[2]    r == rd    n == Total    ph == phase
           ii == Issued'    ss == Second'    tt == Third'    ww == Written'
           vv == wrSeen'[1]    uu == wrSeen'[2]    rr == rd'    pp == phase'
<1>1. /\ i \in Nat /\ s \in Nat /\ t \in Nat /\ w \in Nat /\ v \in Nat /\ u \in Nat /\ r \in Nat
      /\ w <= t /\ t <= s /\ s <= i /\ u <= v /\ v <= w /\ ph \in 0..7
  BY Counts DEF Types, Seen
<1>n. n \in Nat /\ Total' = n
  <2>1. map \in Maps
    BY DEF Types
  <2> QED BY <2>1, MapShape DEF Total
<1>2. ASSUME DealMoves
      PROVE  /\ ww = t /\ tt = s /\ ss = i
             /\ ii = i + 1 \/ ii = i
             /\ i >= 1 => ii = i + 1 \/ i >= n \/ i >= r + IF ph \in {3, 5, 7} THEN 5 ELSE 6
  <2>1. i >= 1 => Issues \/ i >= n \/ i >= r + IF ph \in {3, 5, 7} THEN 5 ELSE 6
    BY Supply
  <2>2. ii = IF Issues THEN i + 1 ELSE i
    BY <1>2 DEF DealMoves
  <2>3. ww = t /\ tt = s /\ ss = i
    BY <1>2 DEF DealMoves
  <2> QED BY <2>1, <2>2, <2>3
<1>3. ASSUME DealRests
      PROVE  ww = w /\ tt = t /\ ss = s /\ ii = i
  BY <1>3 DEF DealRests
<1>4. ASSUME AxiMoves(req)
      PROVE  /\ rr = IF req THEN r + 1 ELSE r
             /\ req => r < n /\ r # u
             /\ vv = w /\ uu = v
             /\ begun' <=> begun \/ v > 0
  BY <1>4 DEF AxiMoves
<1>5. ASSUME AxiRests
      PROVE  rr = r /\ vv = v /\ uu = u /\ (begun' <=> begun)
  BY <1>5 DEF AxiRests
<1>6. \/ ph = 0 /\ pp = 1 /\ AxiMoves(req) /\ DealMoves
      \/ ph \in {2, 4, 6} /\ pp = ph + 1 /\ AxiMoves(req) /\ DealRests
      \/ ph \in {1, 3, 5, 7} /\ pp = (ph + 1) % 8 /\ AxiRests /\ DealMoves
  OBVIOUS
<1>odd. (Odd <=> ph \in {1, 3, 5, 7}) /\ (Odd' <=> pp \in {1, 3, 5, 7})
  BY DEF Odd
<1>old. /\ begun =>
             /\ i >= r + (IF ph \in {5, 7} THEN 4 ELSE IF ph = 2 THEN 6 ELSE 5) \/ i >= n
             /\ s >= r + (IF ph \in {2, 4} THEN 5 ELSE IF ph = 7 THEN 3 ELSE 4) \/ s >= n
             /\ t >= r + (IF ph \in {2, 4, 6} THEN 4 ELSE 3) \/ t >= n
             /\ ph \notin {1, 3, 5, 7} => w >= r + 3 \/ w >= n
             /\ v >= r + 2 \/ v >= n
             /\ u >= r + 1 \/ u >= n
        /\ ~begun =>
             /\ r = 0 /\ u = 0
             /\ s >= 1 => i >= 2 \/ i >= n
             /\ t >= 1 => (i >= 3 \/ i >= n) /\ (s >= 2 \/ s >= n)
             /\ w >= 1 => (i >= 4 \/ i >= n) /\ (s >= 3 \/ s >= n) /\ (t >= 2 \/ t >= n)
             /\ v >= 1 /\ ph \notin {1, 3, 5, 7} =>
                  /\ i >= 5 \/ i >= n
                  /\ s >= 4 \/ s >= n
                  /\ t >= 3 \/ t >= n
                  /\ w >= 2 \/ w >= n
  BY <1>odd, <1>1 DEF Flow, Ahead, Starting, Reach
<1>goal. ASSUME /\ begun' =>
                     /\ ii >= rr + (IF pp \in {5, 7} THEN 4 ELSE IF pp = 2 THEN 6 ELSE 5) \/ ii >= n
                     /\ ss >= rr + (IF pp \in {2, 4} THEN 5 ELSE IF pp = 7 THEN 3 ELSE 4) \/ ss >= n
                     /\ tt >= rr + (IF pp \in {2, 4, 6} THEN 4 ELSE 3) \/ tt >= n
                     /\ pp \notin {1, 3, 5, 7} => ww >= rr + 3 \/ ww >= n
                     /\ vv >= rr + 2 \/ vv >= n
                     /\ uu >= rr + 1 \/ uu >= n
                /\ ~begun' =>
                     /\ rr = 0 /\ uu = 0
                     /\ ss >= 1 => ii >= rr + 2 \/ ii >= n
                     /\ tt >= 1 => (ii >= rr + 3 \/ ii >= n) /\ (ss >= rr + 2 \/ ss >= n)
                     /\ ww >= 1 => (ii >= rr + 4 \/ ii >= n) /\ (ss >= rr + 3 \/ ss >= n) /\ (tt >= rr + 2 \/ tt >= n)
                     /\ vv >= 1 /\ pp \notin {1, 3, 5, 7} =>
                          /\ ii >= rr + 5 \/ ii >= n
                          /\ ss >= rr + 4 \/ ss >= n
                          /\ tt >= rr + 3 \/ tt >= n
                          /\ ww >= rr + 2 \/ ww >= n
         PROVE  Flow'
  BY <1>goal, <1>odd, <1>n DEF Flow, Ahead, Starting, Reach
<1> HIDE DEF i, s, t, w, v, u, r, n, ph, ii, ss, tt, ww, vv, uu, rr, pp
<1>a. CASE ph = 0 /\ pp = 1 /\ AxiMoves(req) /\ DealMoves
  BY <1>a, <1>1, <1>n, <1>2, <1>4, <1>old, <1>goal
<1>b. CASE ph \in {2, 4, 6} /\ pp = ph + 1 /\ AxiMoves(req) /\ DealRests
  BY <1>b, <1>1, <1>n, <1>3, <1>4, <1>old, <1>goal
<1>c. CASE ph \in {1, 3, 5, 7} /\ pp = (ph + 1) % 8 /\ AxiRests /\ DealMoves
  BY <1>c, <1>1, <1>n, <1>2, <1>5, <1>old, <1>goal
<1> QED BY <1>a, <1>b, <1>c, <1>6

LEMMA WorkingKeeps ==
  ASSUME IInv, NEW pre \in BOOLEAN, NEW req \in BOOLEAN, NEW last \in BOOLEAN,
         NEW new \in Maps \cup {<<>>}, Step(pre, req, last, new)
  PROVE  Working'
<1>1. CASE writing /\ writing'
  <2>1. /\ map # <<>> /\ Types /\ Counted /\ Seen /\ Order /\ Room /\ Paused /\ Flow
    BY <1>1 DEF IInv, Working, writing
  <2>2. ~rst /\ ~finishR[2]
    BY <1>1, GapAssumption DEF IInv, Crossing, writing
  <2>3. Types'
    BY <2>1, TypesKeep
  <2>4. /\ map' = map
        /\ \/ phase = 0 /\ phase' = 1 /\ AxiMoves(req) /\ DealMoves /\ DealEdge(<<>>)
           \/ phase \in {2, 4, 6} /\ phase' = phase + 1 /\ AxiMoves(req) /\ DealRests
              /\ UNCHANGED <<deal, map>>
           \/ phase \in {1, 3, 5, 7} /\ phase' = (phase + 1) % 8 /\ AxiRests /\ DealMoves
              /\ DealEdge(<<>>)
    BY <1>1, Moves
  <2>5. Counted'
    BY <2>1, <2>2, <2>4, CountedKeeps
  <2>6. Seen' /\ Paused' /\ Flow'
    BY <1>1, <2>1, <2>3, <2>4, SeenKeeps, PausedKeeps, FlowKeeps
  <2>7. Room'
    BY <2>1, <2>4, RoomKeeps
  <2>8. Order'
    <3>1. CASE DealMoves /\ DealEdge(<<>>)
      BY <3>1, <2>1, <2>2, <2>4, OrderKeeps
    <3>2. CASE DealRests /\ UNCHANGED <<deal, map>>
      BY <3>2, <2>1, DealStands DEF Order, DealRests, Total
    <3> QED BY <2>4, <3>1, <3>2
  <2> QED BY <2>5, <2>6, <2>7, <2>8 DEF Working
<1>2. CASE ~writing /\ writing'
  BY <1>2, Begins
<1>3. CASE ~writing'
  BY <1>3 DEF Working
<1> QED BY <1>1, <1>2, <1>3

LEMMA InitIInv == Init => IInv
<1> SUFFICES ASSUME Init PROVE IInv
  OBVIOUS
<1>1. /\ wrSeen[1] = 0 /\ wrSeen[2] = 0 /\ preR[1] = FALSE /\ preR[2] = FALSE
      /\ finishR[1] = FALSE /\ finishR[2] = FALSE /\ rdSeen[1] = 0 /\ rdSeen[2] = 0
      /\ pipe[1] = NoWord /\ pipe[2] = NoWord /\ pipe[3] = NoWord
  BY DEF Init
<1>2. \A t \in Rams : ramdata_cnt[t] = 0
  BY DEF Init
<1>3. Gap \in Nat /\ Gap >= 18 /\ RamWords \in Nat \ {0}
  BY GapAssumption, MapsAssumption
<1>4. Types
  <2>1. ramdata_cnt \in [Rams -> Int] /\ stored \in Seq(Int)
    BY DEF Init
  <2>2. low \in 0..RamWords - 1 /\ gap \in 0..Gap
    BY <1>3 DEF Init
  <2>3. high \in 0..15 /\ phase \in 0..7 /\ rst_cnt \in 0..7 /\ NoWord \in Int
    BY SMT DEF Init, NoWord
  <2> QED BY <1>1, <2>1, <2>2, <2>3 DEF Types, Init
<1>5. Crossing
  BY <1>1, <1>3 DEF Init, Crossing
<1>6. ~writing
  BY DEF Init, writing
<1>7. Cleaning
  BY <1>1, <1>2 DEF Init, Cleaning, Cleared
<1> QED BY <1>4, <1>5, <1>6, <1>7 DEF IInv, Working

(* Every reachable state. *)
LEMMA Always == Spec => []IInv
<1>1. IInv /\ [Next]_vars => IInv'
  <2> SUFFICES ASSUME IInv, [Next]_vars PROVE IInv'
    OBVIOUS
  <2>1. ASSUME NEW pre \in BOOLEAN, NEW req \in BOOLEAN, NEW last \in BOOLEAN,
               NEW new \in Maps \cup {<<>>}, Step(pre, req, last, new)
        PROVE  IInv'
    <3>1. Types' /\ Crossing'
      BY <2>1, TypesKeep, CrossingKeeps DEF IInv
    <3>2. Cleaning'
      <4>1. CASE writing'
        BY <4>1 DEF Cleaning
      <4>2. CASE ~writing'
        BY <2>1, <4>2, CleaningKeeps
      <4> QED BY <4>1, <4>2
    <3>3. Working'
      BY <2>1, WorkingKeeps
    <3> QED BY <3>1, <3>2, <3>3 DEF IInv
  <2>2. CASE Next
    <3>1. PICK pre \in BOOLEAN, req \in BOOLEAN, last \in BOOLEAN :
            \/ \E new \in Maps \cup {<<>>} : Both(pre, req, last, new) \/ Deal(new)
            \/ Axi(pre, req, last)
      BY <2>2 DEF Next
    <3>2. CASE \E new \in Maps \cup {<<>>} : Both(pre, req, last, new) \/ Deal(new)
      BY <3>2, <2>1 DEF Step
    <3>3. CASE Axi(pre, req, last)
      <4>1. <<>> \in Maps \cup {<<>>} /\ Step(pre, req, last, <<>>)
        BY <3>3 DEF Step
      <4> QED BY <4>1, <2>1
    <3> QED BY <3>1, <3>2, <3>3
  <2>3. CASE UNCHANGED vars
    <3>1. /\ UNCHANGED axi /\ UNCHANGED <<deal, map>> /\ phase' = phase
      BY <2>3 DEF vars
    <3>2. /\ UNCHANGED <<image_fifo_pre_read, rst_cnt, rst, finish, rd, wrSeen, gap, begun>>
          /\ UNCHANGED <<preR, finishR, high, low, ramdata_cnt, pipe, stored, rdSeen, prog_full, map>>
      BY <3>1 DEF axi, deal
    <3>3. Types' /\ Crossing' /\ Cleaning'
      BY <3>1, <3>2 DEF IInv, Types, Crossing, Odd, Cleaning, Cleared, Since, writing
    <3>4. /\ Total' = Total /\ Written' = Written /\ Third' = Third /\ Second' = Second
          /\ Issued' = Issued /\ (Odd' <=> Odd) /\ (writing' <=> writing)
      BY <3>1, <3>2 DEF Total, Written, Third, Second, Issued, One, Odd, writing
    <3>5. Working'
      <4> SUFFICES ASSUME writing PROVE (Counted /\ Seen /\ Order /\ Room /\ Paused /\ Flow)'
        BY <3>4 DEF Working
      <4>1. Counted /\ Seen /\ Order /\ Room /\ Paused /\ Flow
        BY DEF IInv, Working
      <4>2. Counted'
        BY <4>1, <3>2, <3>4 DEF Counted
      <4>3. Seen'
        BY <4>1, <3>2, <3>4 DEF Seen
      <4>4. Order'
        BY <4>1, <3>2, <3>4 DEF Order
      <4>5. Room'
        BY <4>1, <3>2, <3>4 DEF Room
      <4>6. Paused'
        BY <4>1, <3>1, <3>2, <3>4 DEF Paused
      <4>7. Flow'
        BY <4>1, <3>1, <3>2, <3>4 DEF Flow, Ahead, Starting, Reach
      <4> QED BY <4>2, <4>3, <4>4, <4>5, <4>6, <4>7
    <3> QED BY <3>3, <3>5 DEF IInv
  <2> QED BY <2>2, <2>3
<1> QED BY InitIInv, <1>1, PTL DEF Spec

-----------------------------------------------------------------------------
(* What the AXI master is given of a map are its words, in order, and nothing
   that was prefetched past the end of the map before, for maps of any shape
   (image_write_buffer_control.v:143-333).                                   *)
THEOREM WordsInOrder == Spec => []MapInOrder
<1>1. IInv => MapInOrder
  <2> SUFFICES ASSUME IInv, writing PROVE \A k \in DOMAIN stored : k <= Total => stored[k] = k - 1
    BY DEF MapInOrder
  <2>1. DOMAIN stored = 1..Len(stored)
    BY LenProperties DEF IInv, Types
  <2> QED BY <2>1 DEF IInv, Working, Order
<1> QED BY Always, <1>1, PTL

(* Once the master has seen a word, the FIFO is not empty at any edge until the
   last word of the map: five words come while four can be taken, and a margin
   of nine outlasts the pause that prog_full makes
   (image_write_buffer_control.v:184-333).                                   *)
THEOREM AlwaysAWord == Spec => []NeverDry
<1>1. IInv => NeverDry
  <2> SUFFICES ASSUME IInv, begun, rd < Total PROVE ~empty
    BY DEF NeverDry
  <2>1. writing
    BY DEF IInv, Cleaning
  <2>2. Reach(wrSeen[2], 1)
    BY <2>1 DEF IInv, Working, Flow, Ahead
  <2>3. map \in Maps
    BY <2>1 DEF writing, IInv, Types
  <2>4. Total \in Nat /\ rd \in Nat /\ wrSeen[2] \in Nat
    BY <2>3, MapShape DEF Total, IInv, Types
  <2> QED BY <2>2, <2>4 DEF Reach, empty
<1> QED BY Always, <1>1, PTL

(* No word of a map finds the FIFO full: four words above prog_full are room
   enough for those on their way (image_write_buffer_control.v:264-333).     *)
THEOREM NothingDropped == Spec => [](writing /\ pipe[3] # NoWord => Len(stored) - rdSeen[2] < Depth)
<1>1. IInv /\ writing /\ pipe[3] # NoWord => Len(stored) - rdSeen[2] < Depth
  BY NotFull DEF IInv, Working, Written
<1> QED BY Always, <1>1, PTL
=============================================================================
