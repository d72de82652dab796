---------------------------- MODULE Snp16_proofs ----------------------------
(***************************************************************************)
(* Proofs about Snp16, for rings, requests and budgets of every size.      *)
(*                                                                         *)
(* FramesOnceInOrder is not inductive.  What makes it so is where a frame  *)
(* can be (FramesOK), that interrupt RECEIVE stands for a frame in hand    *)
(* (IsrOK), and that nothing waits while the interface is not initialized  *)
(* (StateOK).  BuffersRecycledOnce needs only that no buffer has a number  *)
(* that was not sent, and what the operations of the ring do to the        *)
(* sequence of what it holds.                                              *)
(***************************************************************************)
EXTENDS Snp16, SequenceTheorems, TLAPS

-----------------------------------------------------------------------------
(* The invariant. *)

Fifos == [First : 0 .. SnpFifoMax - 1, Last : 0 .. SnpFifoMax - 1,
          Data : [0 .. SnpFifoMax - 1 -> Nat]]
Isrs == [valid : BOOLEAN, flag : {"done", "busy", "transmit", "receive"}, ok : BOOLEAN,
         frame : Nat]
Calls == [call : {"none", "GetStatus", "Receive", "CheckForPacket"},
          reads : SUBSET {"InterruptStatus", "TxBuf"}, small : BOOLEAN, got : Nat]

SnpTypes ==
    /\ snpState \in {"Stopped", "Started", "Initialized"}
    /\ snpAddr \in {"permanent", "other"}
    /\ snpFifo \in Fifos /\ snpIsr \in Isrs /\ snpPc \in Calls
    /\ snpInt \in SUBSET {"RECEIVE", "TRANSMIT"}
    /\ undiOpen \in BOOLEAN /\ undiFilter \in SUBSET {"DIRECTED", "BRDCST", "PRMSCS"}
    /\ undiEvents \in Seq({"receive", "transmit"}) /\ undiSending \in Nat
    /\ snpWire \in Seq(Nat) /\ snpTaken \in Seq(Nat)
    /\ snpSent \in Nat /\ snpRecycled \in Seq(Nat)
    /\ snpTrouble \in BOOLEAN

(* Between calls, and while the interface is not initialized. *)
StateOK ==
    /\ snpPc.call = "none" => snpPc = SnpIdle
    /\ snpState # "Initialized" =>
          snpPc = SnpIdle /\ ~snpIsr.valid /\ FifoEmpty(snpFifo) /\ ~undiOpen

(* What is left in Isr, and what a call that runs has copied. *)
IsrOK ==
    /\ ~snpPc.small => snpPc.call \in {"none", "Receive"}
    /\ snpPc.got # NoFrame =>
          snpPc.call = "Receive" /\ snpIsr.valid /\ "RECEIVE" \in snpInt
    /\ snpIsr.valid /\ (~snpIsr.ok \/ snpIsr.flag = "busy") => snpTrouble
    /\ "RECEIVE" \in snpInt /\ ~snpTrouble => snpPc.got # NoFrame \/ LeftInIsr

(* Where frames are: returned ones come before the one that the call has   *)
(* copied, which comes before the one left in Isr.                         *)
FramesOK ==
    /\ \A i \in 1 .. Len(snpWire) : snpWire[i] = i
    /\ \A i \in 1 .. Len(snpTaken) :
          /\ snpTaken[i] <= Len(snpWire)
          /\ snpPc.got # NoFrame => snpTaken[i] < snpPc.got
          /\ LeftInIsr => snpTaken[i] < snpIsr.frame
    /\ \A i, j \in 1 .. Len(snpTaken) :
          i < j /\ snpTaken[i] # NoFrame /\ snpTaken[j] # NoFrame
              => snpTaken[i] < snpTaken[j]
    /\ snpPc.got <= Len(snpWire)
    /\ LeftInIsr => snpIsr.frame \in 1 .. Len(snpWire) /\ snpPc.got < snpIsr.frame

(* No frame is missing. *)
NoneLost ==
    ~snpTrouble =>
        /\ \A i \in 1 .. Len(snpTaken) : snpTaken[i] = i
        /\ Len(snpWire) = Len(snpTaken) + (IF snpPc.got = NoFrame THEN 0 ELSE 1)
                          + (IF LeftInIsr THEN 1 ELSE 0)
        /\ snpPc.got # NoFrame => snpPc.got = Len(snpTaken) + 1
        /\ LeftInIsr => snpIsr.frame = Len(snpWire)

BuffersOK ==
    /\ \A i \in 1 .. Len(Buffers) : Buffers[i] \in 1 .. snpSent
    /\ BuffersRecycledOnce

SnpInv == /\ SnpTypes /\ StateOK /\ IsrOK /\ FramesOK /\ NoneLost
          /\ BuffersOK /\ FilterAgrees

-----------------------------------------------------------------------------
(* The ring.  A position behind its end is one of the next lap. *)

LEMMA NextLap ==
    /\ \A k \in 0 .. SnpFifoMax - 1 :
          (k + 1) % SnpFifoMax = IF k + 1 < SnpFifoMax THEN k + 1 ELSE 0
    /\ \A k \in 0 .. SnpFifoMax - 1, i \in 1 .. SnpFifoMax :
          (k + i - 1) % SnpFifoMax
             = IF k + i - 1 < SnpFifoMax THEN k + i - 1 ELSE k + i - 1 - SnpFifoMax
    /\ \A k, l \in 0 .. SnpFifoMax - 1 :
          (l + SnpFifoMax - k) % SnpFifoMax
             = IF k <= l THEN l - k ELSE l + SnpFifoMax - k
  BY SnpAssumption

LEMMA FifoParts ==
    ASSUME NEW f \in Fifos
    PROVE  /\ f.First \in 0 .. SnpFifoMax - 1 /\ f.Last \in 0 .. SnpFifoMax - 1
           /\ f.Data \in [0 .. SnpFifoMax - 1 -> Nat] /\ SnpFifoMax \in Nat \ {0}
  BY SnpAssumption DEF Fifos

(* Where the i-th buffer of the ring lies, and how many there are. *)
LEMMA FifoPlaces ==
    ASSUME NEW f \in Fifos
    PROVE  /\ FifoCount(f) = IF f.First <= f.Last THEN f.Last - f.First
                             ELSE f.Last + SnpFifoMax - f.First
           /\ FifoCount(f) \in 0 .. SnpFifoMax - 1
           /\ \A i \in 1 .. SnpFifoMax :
                 /\ FifoPlace(f, i) = IF f.First + i - 1 < SnpFifoMax THEN f.First + i - 1
                                      ELSE f.First + i - 1 - SnpFifoMax
                 /\ FifoPlace(f, i) \in 0 .. SnpFifoMax - 1
           /\ \A k \in 0 .. SnpFifoMax - 1 :
                 FifoNext(k) = IF k + 1 < SnpFifoMax THEN k + 1 ELSE 0
<1>1. FifoCount(f) = IF f.First <= f.Last THEN f.Last - f.First
                     ELSE f.Last + SnpFifoMax - f.First
  BY FifoParts, NextLap DEF FifoCount
<1>2. FifoCount(f) \in 0 .. SnpFifoMax - 1
  BY FifoParts, <1>1
<1>3. \A i \in 1 .. SnpFifoMax :
         FifoPlace(f, i) = IF f.First + i - 1 < SnpFifoMax THEN f.First + i - 1
                           ELSE f.First + i - 1 - SnpFifoMax
  BY FifoParts, NextLap DEF FifoPlace
<1>4. \A i \in 1 .. SnpFifoMax : FifoPlace(f, i) \in 0 .. SnpFifoMax - 1
  BY FifoParts, <1>3
<1>5. \A k \in 0 .. SnpFifoMax - 1 : FifoNext(k) = IF k + 1 < SnpFifoMax THEN k + 1 ELSE 0
  BY FifoParts, NextLap DEF FifoNext
<1> QED BY <1>1, <1>2, <1>3, <1>4, <1>5

LEMMA FifoHeld ==
    ASSUME NEW f \in Fifos
    PROVE  /\ FifoHolds(f) \in Seq(Nat) /\ Len(FifoHolds(f)) = FifoCount(f)
           /\ FifoCount(f) \in Nat
           /\ \A i \in 1 .. FifoCount(f) : FifoHolds(f)[i] = f.Data[FifoPlace(f, i)]
<1>1. \A i \in 1 .. FifoCount(f) : f.Data[FifoPlace(f, i)] \in Nat
  BY FifoParts, FifoPlaces
<1>2. FifoHolds(f) \in [1 .. FifoCount(f) -> Nat] /\ FifoCount(f) \in Nat
  BY <1>1, FifoPlaces DEF FifoHolds
<1>3. FifoHolds(f) \in Seq(Nat) /\ Len(FifoHolds(f)) = FifoCount(f)
  BY <1>2
<1> QED BY <1>2, <1>3 DEF FifoHolds

LEMMA FifoAdds ==
    ASSUME NEW f \in Fifos, NEW b \in Nat, ~FifoFull(f)
    PROVE  FifoAdd(f, b) \in Fifos /\ FifoHolds(FifoAdd(f, b)) = Append(FifoHolds(f), b)
<1> DEFINE g == FifoAdd(f, b)
           c == FifoCount(f)
           next == FifoNext(f.Last)
<1>0. /\ f.First \in 0 .. SnpFifoMax - 1 /\ f.Last \in 0 .. SnpFifoMax - 1
      /\ f.Data \in [0 .. SnpFifoMax - 1 -> Nat] /\ SnpFifoMax \in Nat \ {0}
  BY FifoParts
<1>1. next = (IF f.Last + 1 < SnpFifoMax THEN f.Last + 1 ELSE 0) /\ next # f.First
  BY FifoParts, FifoPlaces DEF FifoFull
<1>2. next \in 0 .. SnpFifoMax - 1
  BY <1>1, FifoParts
<1>4. g \in Fifos
  BY <1>0, <1>2 DEF FifoAdd, Fifos
<1>5. g.First = f.First /\ g.Last = next /\ g.Data = [f.Data EXCEPT ![f.Last] = b]
  BY DEF FifoAdd
<1> HIDE DEF g, c, next
<1>6. c \in Nat /\ c < SnpFifoMax - 1 /\ FifoCount(g) = c + 1
  <2>1. c = IF f.First <= f.Last THEN f.Last - f.First ELSE f.Last + SnpFifoMax - f.First
    BY FifoPlaces DEF c
  <2>2. FifoCount(g) = IF f.First <= next THEN next - f.First
                       ELSE next + SnpFifoMax - f.First
    BY <1>4, <1>5, FifoPlaces
  <2>3. CASE f.First <= f.Last
    <3>1. CASE f.Last + 1 < SnpFifoMax
      <4>1. next = f.Last + 1
        BY <1>1, <3>1
      <4>2. c = f.Last - f.First /\ FifoCount(g) = next - f.First
        BY <1>0, <2>1, <2>2, <2>3, <4>1
      <4>3. c \in Nat
        BY <1>0, <2>3, <3>1, <4>1, <4>2
      <4>4. c < SnpFifoMax - 1
        BY <1>0, <2>3, <3>1, <4>1, <4>2
      <4>5. FifoCount(g) = c + 1
        BY <1>0, <2>3, <3>1, <4>1, <4>2
      <4> QED BY <4>3, <4>4, <4>5
    <3>2. CASE f.Last + 1 >= SnpFifoMax
      <4>1. next = 0 /\ f.Last = SnpFifoMax - 1 /\ f.First > 0
        BY <1>0, <1>1, <3>2
      <4>2. c = f.Last - f.First /\ FifoCount(g) = SnpFifoMax - f.First
        BY <1>0, <2>1, <2>2, <2>3, <4>1
      <4>3. c \in Nat
        BY <1>0, <2>3, <4>2
      <4>4. c < SnpFifoMax - 1
        BY <1>0, <4>1, <4>2
      <4>5. FifoCount(g) = c + 1
        BY <1>0, <4>1, <4>2
      <4> QED BY <4>3, <4>4, <4>5
    <3> QED BY <1>0, <3>1, <3>2
  <2>4. CASE f.First > f.Last
    <3>1. next = f.Last + 1 /\ next < f.First
      BY <1>0, <1>1, <2>4
    <3>2. c = f.Last + SnpFifoMax - f.First /\ FifoCount(g) = next + SnpFifoMax - f.First
      BY <1>0, <2>1, <2>2, <2>4, <3>1
    <3>3. c \in Nat
      BY <1>0, <2>4, <3>2
    <3>4. c < SnpFifoMax - 1
      BY <1>0, <3>1, <3>2
    <3>5. FifoCount(g) = c + 1
      BY <1>0, <3>1, <3>2
    <3> QED BY <3>3, <3>4, <3>5
  <2> QED BY <1>0, <2>3, <2>4
<1>7. \A i \in 1 .. c + 1 : FifoPlace(g, i) = FifoPlace(f, i)
  BY <1>5 DEF FifoPlace
<1>8. FifoPlace(f, c + 1) = f.Last
  <2>1. c + 1 \in 1 .. SnpFifoMax
    BY <1>6, FifoParts
  <2>2. FifoPlace(f, c + 1) = IF f.First + (c + 1) - 1 < SnpFifoMax THEN f.First + (c + 1) - 1
                              ELSE f.First + (c + 1) - 1 - SnpFifoMax
    BY <2>1, FifoPlaces
  <2>3. c = IF f.First <= f.Last THEN f.Last - f.First ELSE f.Last + SnpFifoMax - f.First
    BY FifoPlaces DEF c
  <2>4. CASE f.First <= f.Last
    BY <1>0, <2>2, <2>3, <2>4
  <2>5. CASE f.First > f.Last
    BY <1>0, <2>2, <2>3, <2>5
  <2> QED BY <1>0, <2>4, <2>5
<1>9. \A i \in 1 .. c : FifoPlace(f, i) # f.Last /\ FifoPlace(f, i) \in 0 .. SnpFifoMax - 1
  <2> TAKE i \in 1 .. c
  <2>1. i \in 1 .. SnpFifoMax
    BY <1>6, FifoParts
  <2>2. FifoPlace(f, i) = IF f.First + i - 1 < SnpFifoMax THEN f.First + i - 1
                          ELSE f.First + i - 1 - SnpFifoMax
    BY <2>1, FifoPlaces
  <2> QED BY <1>6, <2>1, <2>2, FifoParts, FifoPlaces DEF c
<1>10. \A i \in 1 .. c + 1 : FifoHolds(g)[i] = Append(FifoHolds(f), b)[i]
  <2> TAKE i \in 1 .. c + 1
  <2>1. FifoHolds(f) \in Seq(Nat) /\ Len(FifoHolds(f)) = c
    BY FifoHeld DEF c
  <2>2. FifoHolds(g)[i] = g.Data[FifoPlace(f, i)]
    BY <1>4, <1>6, <1>7, FifoHeld
  <2>3. CASE i = c + 1
    BY <1>5, <1>8, <2>1, <2>2, <2>3, FifoParts
  <2>4. CASE i \in 1 .. c
    <3>1. FifoHolds(f)[i] = f.Data[FifoPlace(f, i)]
      BY <2>4, FifoHeld DEF c
    <3>2. g.Data[FifoPlace(f, i)] = f.Data[FifoPlace(f, i)]
      BY <1>5, <1>9, <2>4, FifoParts
    <3>3. FifoHolds(g)[i] = FifoHolds(f)[i]
      BY <2>2, <3>1, <3>2
    <3>4. Append(FifoHolds(f), b)[i] = FifoHolds(f)[i]
      BY <1>6, <2>1, <2>4
    <3> QED BY <3>3, <3>4, Zenon
  <2>5. i = c + 1 \/ i \in 1 .. c
    BY <1>6
  <2> QED BY <2>3, <2>4, <2>5, Zenon
<1>11. /\ FifoHolds(g) \in Seq(Nat) /\ Len(FifoHolds(g)) = c + 1
       /\ Append(FifoHolds(f), b) \in Seq(Nat) /\ Len(Append(FifoHolds(f), b)) = c + 1
  BY <1>4, <1>6, FifoHeld DEF c
<1> QED BY <1>4, <1>10, <1>11, SeqEqual DEF g

LEMMA FifoRemoves ==
    ASSUME NEW f \in Fifos, ~FifoEmpty(f)
    PROVE  /\ FifoRemove(f) \in Fifos
           /\ FifoHolds(f) # <<>> /\ f.Data[f.First] = Head(FifoHolds(f))
           /\ FifoHolds(FifoRemove(f)) = Tail(FifoHolds(f))
<1> DEFINE g == FifoRemove(f)
           c == FifoCount(f)
           next == FifoNext(f.First)
<1>0. /\ f.First \in 0 .. SnpFifoMax - 1 /\ f.Last \in 0 .. SnpFifoMax - 1
      /\ f.Data \in [0 .. SnpFifoMax - 1 -> Nat] /\ SnpFifoMax \in Nat \ {0}
  BY FifoParts
<1>1. next = (IF f.First + 1 < SnpFifoMax THEN f.First + 1 ELSE 0) /\ f.Last # f.First
  BY FifoParts, FifoPlaces DEF FifoEmpty
<1>2. next \in 0 .. SnpFifoMax - 1
  BY <1>1, FifoParts
<1>3. g = [First |-> next, Last |-> f.Last, Data |-> f.Data]
  BY DEF FifoRemove, Fifos
<1>4. g \in Fifos
  BY <1>2, <1>3, FifoParts DEF Fifos
<1>5. g.First = next /\ g.Last = f.Last /\ g.Data = f.Data
  BY <1>3
<1> HIDE DEF g, c, next
<1>6. c \in Nat /\ c >= 1 /\ c < SnpFifoMax /\ FifoCount(g) = c - 1
  <2>1. c = IF f.First <= f.Last THEN f.Last - f.First ELSE f.Last + SnpFifoMax - f.First
    BY FifoPlaces DEF c
  <2>2. FifoCount(g) = IF next <= f.Last THEN f.Last - next
                       ELSE f.Last + SnpFifoMax - next
    BY <1>4, <1>5, FifoPlaces
  <2>3. CASE f.First + 1 < SnpFifoMax
    <3>1. next = f.First + 1
      BY <1>1, <2>3
    <3>2. CASE f.First <= f.Last
      <4>1. next <= f.Last /\ c = f.Last - f.First /\ FifoCount(g) = f.Last - next
        BY <1>0, <1>1, <2>1, <2>2, <3>1, <3>2
      <4>2. c \in Nat
        BY <1>0, <3>2, <4>1
      <4>3. c >= 1 /\ c < SnpFifoMax
        BY <1>0, <1>1, <3>2, <4>1
      <4>4. FifoCount(g) = c - 1
        BY <1>0, <3>1, <4>1
      <4> QED BY <4>2, <4>3, <4>4
    <3>3. CASE f.First > f.Last
      <4>1. /\ next > f.Last /\ c = f.Last + SnpFifoMax - f.First
            /\ FifoCount(g) = f.Last + SnpFifoMax - next
        BY <1>0, <2>1, <2>2, <3>1, <3>3
      <4>2. c \in Nat
        BY <1>0, <4>1
      <4>3. c >= 1 /\ c < SnpFifoMax
        BY <1>0, <3>3, <4>1
      <4>4. FifoCount(g) = c - 1
        BY <1>0, <3>1, <4>1
      <4> QED BY <4>2, <4>3, <4>4
    <3> QED BY <1>0, <3>2, <3>3
  <2>4. CASE f.First + 1 >= SnpFifoMax
    <3>1. next = 0 /\ f.First = SnpFifoMax - 1 /\ f.First > f.Last
      BY <1>0, <1>1, <2>4
    <3>2. c = f.Last + SnpFifoMax - f.First /\ FifoCount(g) = f.Last
      BY <1>0, <2>1, <2>2, <3>1
    <3>3. c \in Nat
      BY <1>0, <3>2
    <3>4. c >= 1 /\ c < SnpFifoMax
      BY <1>0, <3>1, <3>2
    <3>5. FifoCount(g) = c - 1
      BY <1>0, <3>1, <3>2
    <3> QED BY <3>3, <3>4, <3>5
  <2> QED BY <1>0, <2>3, <2>4
<1>7. /\ FifoHolds(f) \in Seq(Nat) /\ Len(FifoHolds(f)) = c
      /\ FifoHolds(g) \in Seq(Nat) /\ Len(FifoHolds(g)) = c - 1
  BY <1>4, <1>6, FifoHeld DEF c
<1>8. FifoHolds(f) # <<>> /\ f.Data[f.First] = Head(FifoHolds(f))
  <2>1. 1 \in 1 .. SnpFifoMax
    BY FifoParts
  <2>2. FifoPlace(f, 1) = f.First
    BY <2>1, FifoParts, FifoPlaces
  <2>3. FifoHolds(f)[1] = f.Data[f.First]
    BY <1>6, <2>2, FifoHeld DEF c
  <2> QED BY <1>6, <1>7, <2>3
<1>9. \A i \in 1 .. c - 1 : FifoHolds(g)[i] = Tail(FifoHolds(f))[i]
  <2> TAKE i \in 1 .. c - 1
  <2>1. i \in 1 .. SnpFifoMax /\ i + 1 \in 1 .. SnpFifoMax
    BY <1>6, FifoParts
  <2>2. FifoPlace(f, i + 1) = IF f.First + (i + 1) - 1 < SnpFifoMax
                              THEN f.First + (i + 1) - 1
                              ELSE f.First + (i + 1) - 1 - SnpFifoMax
    BY <2>1, FifoPlaces
  <2>3. FifoPlace(g, i) = IF next + i - 1 < SnpFifoMax THEN next + i - 1
                          ELSE next + i - 1 - SnpFifoMax
    BY <1>4, <1>5, <2>1, FifoPlaces
  <2>4. FifoPlace(g, i) = FifoPlace(f, i + 1)
    <3>1. CASE f.First + 1 < SnpFifoMax
      BY <1>1, <2>1, <2>2, <2>3, <3>1, FifoParts
    <3>2. CASE f.First + 1 >= SnpFifoMax
      BY <1>1, <2>1, <2>2, <2>3, <3>2, FifoParts
    <3> QED BY <3>1, <3>2, FifoParts
  <2>5. FifoHolds(g)[i] = f.Data[FifoPlace(g, i)]
    BY <1>4, <1>5, <1>6, FifoHeld
  <2>6. FifoHolds(f)[i + 1] = f.Data[FifoPlace(f, i + 1)]
    BY <1>6, FifoHeld DEF c
  <2>7. Tail(FifoHolds(f))[i] = FifoHolds(f)[i + 1]
    BY <1>6, <1>7, <1>8
  <2> QED BY <2>4, <2>5, <2>6, <2>7
<1>10. Tail(FifoHolds(f)) \in Seq(Nat) /\ Len(Tail(FifoHolds(f))) = c - 1
  BY <1>6, <1>7, <1>8, HeadTailProperties
<1> QED BY <1>4, <1>7, <1>8, <1>9, <1>10, SeqEqual DEF g

LEMMA FifoResets ==
    ASSUME NEW f \in Fifos
    PROVE  /\ FifoReset(f) \in Fifos /\ FifoHolds(FifoReset(f)) = <<>>
           /\ FifoEmpty(FifoReset(f))
           /\ FifoEmpty(f) => FifoHolds(f) = <<>>
<1>1. FifoReset(f).First = 0 /\ FifoReset(f).Last = 0
  BY DEF FifoReset
<1>2. FifoReset(f) \in Fifos /\ FifoEmpty(FifoReset(f))
  <2>1. SnpFifoMax \in Nat \ {0}
    BY FifoParts
  <2>2. FifoReset(f) \in Fifos
    BY <2>1, FifoParts DEF Fifos, FifoReset
  <2> QED BY <1>1, <2>2 DEF FifoEmpty
<1>3. \A g \in Fifos : FifoEmpty(g) => FifoHolds(g) = <<>>
  <2> TAKE g \in Fifos
  <2> HAVE FifoEmpty(g)
  <2>1. FifoCount(g) = 0
    BY FifoParts, FifoPlaces DEF FifoEmpty
  <2>2. FifoHolds(g) \in Seq(Nat) /\ Len(FifoHolds(g)) = 0
    BY <2>1, FifoHeld
  <2> QED BY <2>2, EmptySeq
<1> QED BY <1>2, <1>3

-----------------------------------------------------------------------------
(* Sequences of numbered buffers. *)

Numbered(s, n, trouble) ==
    /\ \A i \in 1 .. Len(s) : s[i] \in 1 .. n
    /\ Increasing(s)
    /\ ~trouble => s = [i \in 1 .. n |-> i]

LEMMA Associative ==
    \A s, t, u \in Seq(Nat) : (s \o t) \o u = s \o (t \o u)
  BY ConcatAssociative

LEMMA Recycles ==
    ASSUME NEW s \in Seq(Nat), NEW h \in Seq(Nat), h # <<>>
    PROVE  Append(s, Head(h)) \o Tail(h) = s \o h
<1>1. PICK head, tail, one : head = Head(h) /\ tail = Tail(h) /\ one = <<head>>
  OBVIOUS
<1>2. head \in Nat /\ tail \in Seq(Nat) /\ one \in Seq(Nat)
  BY <1>1, HeadTailProperties
<1>3. one \o tail = h
  <2>1. /\ Len(tail) = Len(h) - 1 /\ Len(h) \in Nat /\ Len(h) # 0 /\ head = h[1]
        /\ \A i \in 1 .. Len(tail) : tail[i] = h[i + 1]
    BY <1>1, HeadTailProperties, EmptySeq
  <2>2. PICK u : u = one \o tail
    OBVIOUS
  <2>3. Len(one) = 1 /\ one[1] = head
    BY <1>1
  <2>4. /\ u \in Seq(Nat) /\ Len(u) = 1 + Len(tail)
        /\ \A i \in 1 .. 1 + Len(tail) : u[i] = IF i <= 1 THEN one[i] ELSE tail[i - 1]
    <3>1. /\ u \in Seq(Nat) /\ Len(u) = Len(one) + Len(tail)
          /\ \A i \in 1 .. Len(one) + Len(tail) :
                u[i] = IF i <= Len(one) THEN one[i] ELSE tail[i - Len(one)]
      BY <1>2, <2>2, ConcatProperties, Zenon
    <3> QED BY <2>3, <3>1
  <2>5. \A i \in 1 .. Len(u) : u[i] = h[i]
    <3> TAKE i \in 1 .. Len(u)
    <3>1. CASE i = 1
      BY <1>2, <2>1, <2>3, <2>4, <3>1
    <3>2. CASE i > 1
      <4>1. PICK j : j = i - 1
        OBVIOUS
      <4>2. i \in 1 .. 1 + Len(tail) /\ Len(tail) \in Nat
        BY <1>2, <2>4
      <4>3. j \in 1 .. Len(tail) /\ i = j + 1
        BY <3>2, <4>1, <4>2
      <4>4. u[i] = tail[j]
        BY <2>4, <3>2, <4>1, <4>2
      <4> QED BY <2>1, <4>3, <4>4
    <3> QED BY <1>2, <2>4, <3>1, <3>2
  <2>6. Len(u) = Len(h)
    BY <2>1, <2>4
  <2> QED BY <2>2, <2>4, <2>5, <2>6, SeqEqual
<1>4. Append(s, head) = s \o one
  BY <1>1, <1>2, AppendIsConcat
<1>5. (s \o one) \o tail = s \o (one \o tail)
  BY <1>2, Associative, Zenon
<1> QED BY <1>1, <1>3, <1>4, <1>5, Zenon

LEMMA AppendBehind ==
    ASSUME NEW s \in Seq(Nat), NEW h \in Seq(Nat), NEW b \in Nat
    PROVE  s \o Append(h, b) = Append(s \o h, b)
<1>1. PICK one : one = <<b>>
  OBVIOUS
<1>2. one \in Seq(Nat) /\ s \o h \in Seq(Nat)
  BY <1>1
<1>3. Append(h, b) = h \o one /\ Append(s \o h, b) = (s \o h) \o one
  BY <1>1, <1>2, AppendIsConcat
<1>4. (s \o h) \o one = s \o (h \o one)
  BY <1>2, Associative, Zenon
<1> QED BY <1>3, <1>4, Zenon

LEMMA NumberedGrows ==
    ASSUME NEW s \in Seq(Nat), NEW n \in Nat, NEW t, Numbered(s, n, t)
    PROVE  Numbered(Append(s, n + 1), n + 1, t)
<1>1. PICK a : a = Append(s, n + 1)
  OBVIOUS
<1>2. /\ a \in Seq(Nat) /\ Len(a) = Len(s) + 1 /\ a[Len(s) + 1] = n + 1
      /\ \A i \in 1 .. Len(s) : a[i] = s[i]
      /\ DOMAIN a = 1 .. Len(s) + 1 /\ DOMAIN s = 1 .. Len(s) /\ Len(s) \in Nat
  BY <1>1
<1>3. \A i \in 1 .. Len(a) : a[i] \in 1 .. n + 1
  <2>1. \A i \in 1 .. Len(s) : s[i] \in 1 .. n + 1
    BY DEF Numbered
  <2>2. n + 1 \in 1 .. n + 1
    OBVIOUS
  <2> QED BY <1>2, <2>1, <2>2
<1>4. Increasing(a)
  <2>1. \A i, j \in 1 .. Len(s) : i < j => s[i] < s[j]
    BY <1>2 DEF Numbered, Increasing
  <2>2. \A i \in 1 .. Len(s) : s[i] \in Nat /\ s[i] < n + 1
    BY DEF Numbered
  <2>3. \A i, j \in 1 .. Len(s) + 1 : i < j => a[i] < a[j]
    <3> TAKE i, j \in 1 .. Len(s) + 1
    <3> HAVE i < j
    <3>1. i \in 1 .. Len(s) /\ a[i] = s[i]
      BY <1>2
    <3>2. CASE j \in 1 .. Len(s)
      BY <1>2, <2>1, <3>1, <3>2
    <3>3. CASE j = Len(s) + 1
      <4>1. a[j] = n + 1
        BY <1>2, <3>3
      <4>2. s[i] < n + 1
        BY <2>2, <3>1
      <4> QED BY <3>1, <4>1, <4>2
    <3>4. j \in 1 .. Len(s) \/ j = Len(s) + 1
      <4>1. Len(s) \in Nat
        OBVIOUS
      <4> QED BY ONLY <4>1, j \in 1 .. Len(s) + 1
    <3> QED BY <3>2, <3>3, <3>4, Zenon
  <2> QED BY <1>2, <2>3 DEF Increasing
<1>5. ASSUME ~t PROVE a = [i \in 1 .. n + 1 |-> i]
  <2>1. s = [i \in 1 .. n |-> i]
    BY <1>5 DEF Numbered
  <2>2. Len(s) = n /\ \A i \in 1 .. n : s[i] = i
    BY <2>1
  <2>3. \A i \in 1 .. n + 1 : a[i] = i
    BY <1>2, <2>2
  <2> QED BY <1>2, <2>2, <2>3
<1> QED BY <1>1, <1>3, <1>4, <1>5 DEF Numbered

LEMMA NumberedFront ==
    ASSUME NEW s \in Seq(Nat), NEW h \in Seq(Nat), NEW n \in Nat, NEW t,
           Numbered(s \o h, n, t)
    PROVE  Numbered(s, n, TRUE)
<1>1. PICK c : c = s \o h
  OBVIOUS
<1>2. /\ DOMAIN c = 1 .. Len(s) + Len(h) /\ Len(c) = Len(s) + Len(h)
      /\ \A i \in 1 .. Len(s) : c[i] = s[i]
      /\ DOMAIN s = 1 .. Len(s)
  BY <1>1
<1>3. \A i \in 1 .. Len(s) : s[i] \in 1 .. n
  BY <1>1, <1>2 DEF Numbered
<1>4. \A i, j \in 1 .. Len(c) : i < j => c[i] < c[j]
  BY <1>1, <1>2 DEF Numbered, Increasing
<1>5. Increasing(s)
  BY <1>2, <1>4 DEF Increasing
<1> QED BY <1>3, <1>5 DEF Numbered

-----------------------------------------------------------------------------
(* What keeps the parts of the invariant. *)

LEMMA IdleFacts ==
    /\ SnpIdle \in Calls /\ SnpIdle.call = "none" /\ SnpIdle.got = NoFrame
    /\ SnpIdle.small = FALSE /\ NoFrame = 0
  BY DEF SnpIdle, Calls, NoFrame

(* Nothing of a frame moves, or what was left in Isr is dropped. *)
LEMMA FramesDropped ==
    ASSUME SnpInv, UNCHANGED <<snpPc, snpInt, snpWire, snpTaken>>,
           \/ snpIsr' = snpIsr
           \/ snpIsr' = [snpIsr EXCEPT !.valid = FALSE] /\ snpPc = SnpIdle,
           snpIsr' # snpIsr /\ snpIsr.valid => snpTrouble',
           snpTrouble => snpTrouble'
    PROVE  IsrOK' /\ FramesOK' /\ NoneLost' /\ snpIsr' \in Isrs
<1>1. snpIsr \in Isrs /\ snpPc \in Calls /\ snpTrouble \in BOOLEAN
  BY DEF SnpInv, SnpTypes
<1>2. CASE snpIsr' = snpIsr
  <2>1. IsrOK'
    BY <1>2 DEF SnpInv, IsrOK, LeftInIsr
  <2>2. FramesOK'
    BY <1>2 DEF SnpInv, FramesOK, LeftInIsr
  <2>3. NoneLost'
    BY <1>2 DEF SnpInv, NoneLost, LeftInIsr
  <2> QED BY <1>1, <1>2, <2>1, <2>2, <2>3
<1>3. CASE snpIsr' = [snpIsr EXCEPT !.valid = FALSE] /\ snpPc = SnpIdle /\ snpIsr' # snpIsr
  <2>1. snpIsr' \in Isrs /\ ~snpIsr'.valid /\ ~LeftInIsr'
    BY <1>1, <1>3 DEF Isrs, LeftInIsr
  <2>2. snpIsr.valid
    BY <1>1, <1>3 DEF Isrs
  <2>3. IsrOK'
    BY <1>3, <2>1, <2>2, IdleFacts DEF IsrOK
  <2>4. FramesOK'
    BY <1>3, <2>1, IdleFacts DEF SnpInv, FramesOK
  <2>5. NoneLost'
    BY <1>3, <2>2 DEF NoneLost
  <2> QED BY <2>1, <2>3, <2>4, <2>5
<1> QED BY <1>2, <1>3

LEMMA BuffersNumbered ==
    /\ BuffersOK <=> Numbered(Buffers, snpSent, snpTrouble)
    /\ BuffersOK' <=> Numbered(Buffers', snpSent', snpTrouble')
<1>1. BuffersOK <=> Numbered(Buffers, snpSent, snpTrouble)
  BY DEF BuffersOK, BuffersRecycledOnce, Numbered
<1>2. BuffersOK' <=> Numbered(Buffers', snpSent', snpTrouble')
  BY DEF BuffersOK, BuffersRecycledOnce, Numbered
<1> QED BY <1>1, <1>2

(* No buffer moves. *)
LEMMA BuffersStay ==
    ASSUME SnpInv, UNCHANGED <<snpFifo, snpRecycled, snpSent>>, snpTrouble => snpTrouble'
    PROVE  BuffersOK' /\ snpFifo' \in Fifos
<1>1. Buffers' = Buffers /\ snpSent' = snpSent
  BY DEF Buffers, FifoHolds, FifoCount, FifoPlace
<1>2. Numbered(Buffers, snpSent, snpTrouble)
  BY BuffersNumbered DEF SnpInv
<1>3. Numbered(Buffers, snpSent, snpTrouble')
  BY <1>2 DEF Numbered
<1> QED BY <1>1, <1>3, BuffersNumbered DEF SnpInv, SnpTypes

(* The ring is emptied. *)
LEMMA BuffersDropped ==
    ASSUME SnpInv, snpFifo' = FifoReset(snpFifo), UNCHANGED <<snpRecycled, snpSent>>,
           snpTrouble' \in BOOLEAN, snpTrouble \/ ~FifoEmpty(snpFifo) => snpTrouble'
    PROVE  BuffersOK' /\ snpFifo' \in Fifos
<1>1. snpFifo \in Fifos /\ snpRecycled \in Seq(Nat) /\ snpSent \in Nat /\ snpTrouble \in BOOLEAN
  BY DEF SnpInv, SnpTypes
<1>2. FifoHolds(snpFifo)' = FifoHolds(snpFifo')
  BY DEF FifoHolds, FifoCount, FifoPlace
<1>3. snpFifo' \in Fifos /\ FifoHolds(snpFifo') = <<>>
      /\ (FifoEmpty(snpFifo) => FifoHolds(snpFifo) = <<>>)
  BY <1>1, FifoResets
<1>4. Buffers' = snpRecycled
  BY <1>1, <1>2, <1>3, ConcatEmptySeq DEF Buffers
<1>5. Numbered(Buffers, snpSent, snpTrouble)
  BY BuffersNumbered DEF SnpInv
<1>6. CASE snpTrouble'
  <2>1. FifoHolds(snpFifo) \in Seq(Nat)
    BY <1>1, FifoHeld
  <2>2. Numbered(snpRecycled, snpSent, TRUE)
    <3>1. Numbered(snpRecycled \o FifoHolds(snpFifo), snpSent, snpTrouble)
      BY <1>5 DEF Buffers
    <3> QED BY <1>1, <2>1, <3>1, NumberedFront, Zenon
  <2> QED BY <1>3, <1>4, <1>6, <2>2, BuffersNumbered
<1>7. CASE ~snpTrouble'
  <2>1. Buffers = snpRecycled
    BY <1>1, <1>3, <1>7, ConcatEmptySeq DEF Buffers
  <2>2. snpTrouble' = snpTrouble
    BY <1>1, <1>7
  <2> QED BY <1>3, <1>4, <1>5, <2>1, <2>2, BuffersNumbered
<1> QED BY <1>6, <1>7

LEMMA FilterSetting ==
    ASSUME NEW setting
    PROVE  PacketFilter(setting) \in SUBSET {"DIRECTED", "BRDCST", "PRMSCS"}
  BY DEF PacketFilter

(* UNDI is closed or opened. *)
LEMMA UndiTypes ==
    ASSUME SnpInv, UndiCloses \/ UNCHANGED undiVars \/ \E setting : UndiOpens(setting)
    PROVE  /\ undiOpen' \in BOOLEAN /\ undiFilter' \in SUBSET {"DIRECTED", "BRDCST", "PRMSCS"}
           /\ undiEvents' \in Seq({"receive", "transmit"}) /\ undiSending' \in Nat
<1>1. /\ undiOpen \in BOOLEAN /\ undiFilter \in SUBSET {"DIRECTED", "BRDCST", "PRMSCS"}
      /\ undiEvents \in Seq({"receive", "transmit"}) /\ undiSending \in Nat
  BY DEF SnpInv, SnpTypes
<1>2. <<>> \in Seq({"receive", "transmit"})
  BY EmptySeq
<1>3. CASE UndiCloses
  BY <1>1, <1>2, <1>3 DEF UndiCloses
<1>4. CASE UNCHANGED undiVars
  BY <1>1, <1>4 DEF undiVars
<1>5. CASE \E setting : UndiOpens(setting)
  BY <1>2, <1>5, FilterSetting DEF UndiOpens
<1> QED BY <1>3, <1>4, <1>5

-----------------------------------------------------------------------------
(* The card, and the calls that do not look for events. *)

LEMMA CardKeeps ==
    ASSUME SnpInv, FrameComes \/ SendEnds
    PROVE  SnpInv'
<1>1. UNCHANGED <<snpMode, snpFifo, snpIsr, snpInt, undiOpen, undiFilter, snpPc, snpHistory>>
  BY DEF FrameComes, SendEnds
<1>2. UNCHANGED <<snpState, snpFilter, snpAddr, snpFifo, snpIsr, snpInt, undiOpen, undiFilter,
                  snpPc, snpWire, snpTaken, snpSent, snpRecycled, snpTrouble>>
  BY <1>1 DEF snpMode, snpHistory
<1>3. undiEvents' \in Seq({"receive", "transmit"}) /\ undiSending' \in Nat
  <2>1. undiEvents \in Seq({"receive", "transmit"}) /\ undiSending \in Nat
    BY DEF SnpInv, SnpTypes
  <2>2. CASE FrameComes
    BY <2>1, <2>2 DEF FrameComes
  <2>3. CASE SendEnds
    BY <2>1, <2>3 DEF SendEnds
  <2> QED BY <2>2, <2>3
<1>4. SnpTypes' /\ StateOK' /\ FilterAgrees'
  BY <1>2, <1>3 DEF SnpInv, SnpTypes, StateOK, FilterAgrees, FifoEmpty
<1>5. IsrOK' /\ FramesOK' /\ NoneLost'
  BY <1>2, FramesDropped
<1>6. BuffersOK'
  BY <1>2, BuffersStay
<1> QED BY <1>4, <1>5, <1>6 DEF SnpInv

LEMMA StartStopKeeps ==
    ASSUME SnpInv, SnpStart \/ SnpStop
    PROVE  SnpInv'
<1>1. /\ snpPc = SnpIdle /\ snpState \in {"Stopped", "Started"}
      /\ snpState' \in {"Stopped", "Started"}
      /\ UNCHANGED <<snpAddr, snpFifo, snpIsr, snpInt, undiVars, snpPc, snpHistory>>
  BY DEF SnpStart, SnpStop, Ready
<1>2. UNCHANGED <<snpAddr, snpFifo, snpIsr, snpInt, undiOpen, undiFilter, undiEvents,
                  undiSending, snpPc, snpWire, snpTaken, snpSent, snpRecycled, snpTrouble>>
  BY <1>1 DEF undiVars, snpHistory
<1>3. snpPc = SnpIdle /\ ~snpIsr.valid /\ FifoEmpty(snpFifo) /\ ~undiOpen
  BY <1>1 DEF SnpInv, StateOK
<1>4. SnpTypes' /\ StateOK' /\ FilterAgrees'
  BY <1>1, <1>2, <1>3 DEF SnpInv, SnpTypes, StateOK, FilterAgrees, FifoEmpty
<1>5. IsrOK' /\ FramesOK' /\ NoneLost'
  BY <1>2, FramesDropped
<1>6. BuffersOK'
  BY <1>2, BuffersStay
<1> QED BY <1>4, <1>5, <1>6 DEF SnpInv

LEMMA InitializeKeeps ==
    ASSUME SnpInv, SnpInitialize
    PROVE  SnpInv'
<1>1. /\ snpPc = SnpIdle /\ snpState = "Started"
      /\ UNCHANGED <<snpFilter, snpMCast, snpAddr, snpInt, snpPc, snpHistory>>
  BY DEF SnpInitialize, Ready
<1>2. UNCHANGED <<snpFilter, snpAddr, snpInt, snpPc, snpWire, snpTaken, snpSent, snpRecycled,
                  snpTrouble>>
  BY <1>1 DEF snpHistory
<1>3. snpPc = SnpIdle /\ ~snpIsr.valid /\ FifoEmpty(snpFifo) /\ ~undiOpen
  BY <1>1 DEF SnpInv, StateOK
<1>4. CASE /\ UndiOpens(snpFilter) /\ snpState' = "Initialized"
           /\ snpFifo' = FifoReset(snpFifo) /\ snpIsr' = [snpIsr EXCEPT !.valid = FALSE]
  <2>1. IsrOK' /\ FramesOK' /\ NoneLost' /\ snpIsr' \in Isrs
    BY <1>2, <1>3, <1>4, FramesDropped
  <2>2. snpTrouble' \in BOOLEAN
    BY <1>2 DEF SnpInv, SnpTypes
  <2>3. BuffersOK' /\ snpFifo' \in Fifos
    BY <1>2, <1>3, <1>4, <2>2, BuffersDropped
  <2>4. /\ undiOpen' \in BOOLEAN /\ undiFilter' \in SUBSET {"DIRECTED", "BRDCST", "PRMSCS"}
        /\ undiEvents' \in Seq({"receive", "transmit"}) /\ undiSending' \in Nat
    BY <1>4, UndiTypes
  <2>5. SnpTypes'
    BY <1>2, <1>4, <2>1, <2>3, <2>4 DEF SnpInv, SnpTypes
  <2>6. StateOK' /\ FilterAgrees'
    BY <1>2, <1>4 DEF SnpInv, StateOK, FilterAgrees, UndiOpens
  <2> QED BY <2>1, <2>3, <2>5, <2>6 DEF SnpInv
<1>5. CASE UNCHANGED <<undiVars, snpState, snpFifo, snpIsr>>
  <2>1. UNCHANGED <<undiOpen, undiFilter, undiEvents, undiSending>>
    BY <1>5 DEF undiVars
  <2>2. SnpTypes' /\ StateOK' /\ FilterAgrees'
    BY <1>2, <1>5, <2>1 DEF SnpInv, SnpTypes, StateOK, FilterAgrees, FifoEmpty
  <2>3. IsrOK' /\ FramesOK' /\ NoneLost'
    BY <1>2, <1>5, FramesDropped
  <2>4. BuffersOK'
    BY <1>2, <1>5, BuffersStay
  <2> QED BY <2>2, <2>3, <2>4 DEF SnpInv
<1> QED BY <1>4, <1>5 DEF SnpInitialize

(* Reset, Shutdown and ReceiveFilters empty the ring and Isr, or do not get *)
(* that far; either way what was there counts as lost.                      *)
LEMMA ResetKeeps ==
    ASSUME SnpInv, snpPc = SnpIdle, snpState = "Initialized", Loses,
           UNCHANGED <<snpPc, snpInt, snpWire, snpTaken, snpSent, snpRecycled, snpAddr>>,
           snpIsr' = snpIsr \/ snpIsr' = [snpIsr EXCEPT !.valid = FALSE],
           snpFifo' = snpFifo \/ snpFifo' = FifoReset(snpFifo)
    PROVE  /\ IsrOK' /\ FramesOK' /\ NoneLost' /\ BuffersOK'
           /\ snpIsr' \in Isrs /\ snpFifo' \in Fifos /\ snpTrouble' \in BOOLEAN
<1>1. snpTrouble' \in BOOLEAN /\ (snpTrouble \/ ~FifoEmpty(snpFifo) \/ snpIsr.valid => snpTrouble')
  BY DEF Loses
<1>2. IsrOK' /\ FramesOK' /\ NoneLost' /\ snpIsr' \in Isrs
  BY <1>1, FramesDropped
<1>3. CASE snpFifo' = snpFifo
  BY <1>1, <1>2, <1>3, BuffersStay
<1>4. CASE snpFifo' = FifoReset(snpFifo)
  BY <1>1, <1>2, <1>4, BuffersDropped
<1> QED BY <1>3, <1>4

LEMMA SnpResetKeeps ==
    ASSUME SnpInv, SnpReset
    PROVE  SnpInv'
<1>1. /\ snpPc = SnpIdle /\ snpState = "Initialized" /\ Loses
      /\ UNCHANGED <<snpPc, snpInt, snpWire, snpTaken, snpSent, snpRecycled, snpAddr>>
      /\ UNCHANGED <<snpState, snpFilter>>
  BY DEF SnpReset, Ready, snpMode
<1>2. /\ snpIsr' = snpIsr \/ snpIsr' = [snpIsr EXCEPT !.valid = FALSE]
      /\ snpFifo' = snpFifo \/ snpFifo' = FifoReset(snpFifo)
  BY DEF SnpReset
<1>3. /\ IsrOK' /\ FramesOK' /\ NoneLost' /\ BuffersOK'
      /\ snpIsr' \in Isrs /\ snpFifo' \in Fifos /\ snpTrouble' \in BOOLEAN
  BY <1>1, <1>2, ResetKeeps
<1>4. /\ undiOpen \in BOOLEAN /\ undiFilter \in SUBSET {"DIRECTED", "BRDCST", "PRMSCS"}
      /\ FilterAgrees
  BY DEF SnpInv, SnpTypes
<1>5. /\ undiOpen' \in BOOLEAN /\ undiFilter' \in SUBSET {"DIRECTED", "BRDCST", "PRMSCS"}
      /\ undiEvents' \in Seq({"receive", "transmit"}) /\ undiSending' \in Nat /\ FilterAgrees'
  <2>1. CASE UndiCloses \/ UNCHANGED undiVars
    <3>1. FilterAgrees'
      BY <1>1, <1>4, <2>1 DEF FilterAgrees, UndiCloses, undiVars
    <3> QED BY <2>1, <3>1, UndiTypes
  <2>2. CASE /\ undiEvents' = <<>> /\ undiSending' = 0
             /\ \/ UNCHANGED <<undiOpen, undiFilter>>
                \/ undiOpen' = TRUE /\ undiFilter' = PacketFilter(snpFilter)
    <3>1. <<>> \in Seq({"receive", "transmit"})
      BY EmptySeq
    <3>2. PacketFilter(snpFilter) \in SUBSET {"DIRECTED", "BRDCST", "PRMSCS"}
      BY FilterSetting
    <3>3. FilterAgrees'
      BY <1>1, <1>4, <2>2 DEF FilterAgrees
    <3>4. undiOpen' \in BOOLEAN /\ undiFilter' \in SUBSET {"DIRECTED", "BRDCST", "PRMSCS"}
      BY <1>4, <2>2, <3>2
    <3>5. undiEvents' \in Seq({"receive", "transmit"}) /\ undiSending' \in Nat
      BY <2>2, <3>1
    <3> QED BY <3>3, <3>4, <3>5
  <2> QED BY <2>1, <2>2 DEF SnpReset
<1>6. SnpTypes'
  BY <1>1, <1>3, <1>5 DEF SnpInv, SnpTypes
<1>7. StateOK'
  BY <1>1 DEF SnpInv, StateOK
<1> QED BY <1>3, <1>5, <1>6, <1>7 DEF SnpInv

LEMMA ShutdownKeeps ==
    ASSUME SnpInv, SnpShutdown
    PROVE  SnpInv'
<1>1. /\ snpPc = SnpIdle /\ snpState = "Initialized" /\ Loses
      /\ UNCHANGED <<snpPc, snpInt, snpWire, snpTaken, snpSent, snpRecycled, snpAddr>>
      /\ snpFilter' = snpFilter /\ snpIsr' = [snpIsr EXCEPT !.valid = FALSE]
  BY DEF SnpShutdown, Ready
<1>2. \/ UndiCloses /\ snpState' = "Started" /\ snpFifo' = FifoReset(snpFifo)
      \/ (UndiCloses \/ UNCHANGED undiVars) /\ snpState' = snpState /\ snpFifo' = snpFifo
  BY DEF SnpShutdown
<1>3. /\ IsrOK' /\ FramesOK' /\ NoneLost' /\ BuffersOK'
      /\ snpIsr' \in Isrs /\ snpFifo' \in Fifos /\ snpTrouble' \in BOOLEAN
  BY <1>1, <1>2, ResetKeeps
<1>4. /\ undiOpen' \in BOOLEAN /\ undiFilter' \in SUBSET {"DIRECTED", "BRDCST", "PRMSCS"}
      /\ undiEvents' \in Seq({"receive", "transmit"}) /\ undiSending' \in Nat
  BY <1>2, UndiTypes
<1>5. FilterAgrees'
  BY <1>1, <1>2 DEF SnpInv, FilterAgrees, UndiCloses, undiVars
<1>6. SnpTypes'
  BY <1>1, <1>2, <1>3, <1>4 DEF SnpInv, SnpTypes
<1>7. StateOK'
  <2>1. snpIsr \in Isrs /\ snpFifo \in Fifos
    BY DEF SnpInv, SnpTypes
  <2>2. ~snpIsr'.valid
    BY <1>1, <2>1 DEF Isrs
  <2>3. CASE UndiCloses /\ snpState' = "Started" /\ snpFifo' = FifoReset(snpFifo)
    <3>1. FifoEmpty(snpFifo') /\ ~undiOpen'
      BY <2>1, <2>3, FifoResets DEF UndiCloses
    <3> QED BY <1>1, <2>2, <2>3, <3>1 DEF StateOK, FifoEmpty
  <2>4. CASE snpState' = snpState
    BY <1>1, <2>4 DEF StateOK
  <2> QED BY <1>2, <2>3, <2>4
<1> QED BY <1>3, <1>4, <1>5, <1>6, <1>7 DEF SnpInv

LEMMA ReceiveFiltersKeeps ==
    ASSUME SnpInv, NEW request \in SnpRequests, SnpReceiveFilters(request)
    PROVE  SnpInv'
<1> DEFINE new == (snpFilter \cup request.enable) \ request.disable
<1>1. /\ snpPc = SnpIdle /\ snpState = "Initialized" /\ Loses
      /\ UNCHANGED <<snpPc, snpInt, snpWire, snpTaken, snpSent, snpRecycled, snpAddr>>
      /\ snpState' = snpState
  BY DEF SnpReceiveFilters, Ready
<1>2. \/ /\ UndiOpens(new) /\ snpFilter' = new
         /\ snpFifo' = FifoReset(snpFifo) /\ snpIsr' = [snpIsr EXCEPT !.valid = FALSE]
      \/ /\ UndiCloses /\ snpFilter' = snpFilter
         /\ snpFifo' = FifoReset(snpFifo) /\ snpIsr' = snpIsr
      \/ /\ UNCHANGED undiVars /\ snpFilter' = snpFilter
         /\ snpFifo' = snpFifo /\ snpIsr' = snpIsr
  BY DEF SnpReceiveFilters
<1> HIDE DEF new
<1>3. /\ IsrOK' /\ FramesOK' /\ NoneLost' /\ BuffersOK'
      /\ snpIsr' \in Isrs /\ snpFifo' \in Fifos /\ snpTrouble' \in BOOLEAN
  BY <1>1, <1>2, ResetKeeps
<1>4. /\ undiOpen' \in BOOLEAN /\ undiFilter' \in SUBSET {"DIRECTED", "BRDCST", "PRMSCS"}
      /\ undiEvents' \in Seq({"receive", "transmit"}) /\ undiSending' \in Nat
  BY <1>2, UndiTypes
<1>5. FilterAgrees'
  BY <1>2 DEF SnpInv, FilterAgrees, UndiOpens, UndiCloses, undiVars
<1>6. SnpTypes'
  BY <1>1, <1>3, <1>4 DEF SnpInv, SnpTypes
<1>7. StateOK'
  BY <1>1 DEF StateOK
<1> QED BY <1>3, <1>5, <1>6, <1>7 DEF SnpInv

LEMMA StationAddressKeeps ==
    ASSUME SnpInv, NEW new \in {"permanent", "other"}, SnpStationAddress(new)
    PROVE  SnpInv'
<1>1. /\ snpPc = SnpIdle /\ snpState = "Initialized" /\ snpAddr' \in {snpAddr, new}
      /\ UNCHANGED <<snpState, snpFilter, snpFifo, snpIsr, snpInt, snpPc, snpWire, snpTaken,
                     snpSent, snpRecycled, snpTrouble>>
      /\ UndiOpens(snpFilter) \/ UndiCloses
  BY DEF SnpStationAddress, Ready
<1>2. IsrOK' /\ FramesOK' /\ NoneLost'
  BY <1>1, FramesDropped
<1>3. BuffersOK'
  BY <1>1, BuffersStay
<1>4. /\ undiOpen' \in BOOLEAN /\ undiFilter' \in SUBSET {"DIRECTED", "BRDCST", "PRMSCS"}
      /\ undiEvents' \in Seq({"receive", "transmit"}) /\ undiSending' \in Nat
  BY <1>1, UndiTypes
<1>5. SnpTypes'
  BY <1>1, <1>4 DEF SnpInv, SnpTypes
<1>6. StateOK' /\ FilterAgrees'
  BY <1>1 DEF StateOK, FilterAgrees, UndiOpens, UndiCloses
<1> QED BY <1>2, <1>3, <1>5, <1>6 DEF SnpInv

LEMMA TransmitKeeps ==
    ASSUME SnpInv, SnpTransmit
    PROVE  SnpInv'
<1>1. /\ snpPc = SnpIdle /\ snpState = "Initialized" /\ ~FifoFull(snpFifo)
      /\ UNCHANGED <<snpMode, snpIsr, snpInt, undiOpen, undiFilter, undiEvents, snpPc, snpWire,
                     snpTaken, snpRecycled, snpTrouble>>
  BY DEF SnpTransmit, Ready
<1>2. UNCHANGED <<snpState, snpFilter, snpAddr>>
  BY <1>1 DEF snpMode
<1>3. IsrOK' /\ FramesOK' /\ NoneLost'
  BY <1>1, FramesDropped
<1>4. /\ snpFifo \in Fifos /\ snpRecycled \in Seq(Nat) /\ snpSent \in Nat
      /\ snpTrouble \in BOOLEAN /\ undiSending \in Nat
  BY DEF SnpInv, SnpTypes
<1>5. BuffersOK' /\ snpFifo' \in Fifos /\ snpSent' \in Nat /\ undiSending' \in Nat
  <2>1. CASE /\ undiSending' = undiSending + 1 /\ snpSent' = snpSent + 1
             /\ snpFifo' = FifoAdd(snpFifo, snpSent + 1)
    <3>1. snpFifo' \in Fifos
          /\ FifoHolds(snpFifo') = Append(FifoHolds(snpFifo), snpSent + 1)
      BY <1>1, <1>4, <2>1, FifoAdds
    <3>2. FifoHolds(snpFifo)' = FifoHolds(snpFifo')
      BY DEF FifoHolds, FifoCount, FifoPlace
    <3>3. FifoHolds(snpFifo) \in Seq(Nat) /\ snpSent + 1 \in Nat
      BY <1>4, FifoHeld
    <3>4. Buffers' = snpRecycled \o Append(FifoHolds(snpFifo), snpSent + 1)
      BY <1>1, <3>1, <3>2 DEF Buffers
    <3>5. Buffers' = Append(Buffers, snpSent + 1)
      BY <1>4, <3>3, <3>4, AppendBehind, Zenon DEF Buffers
    <3>6. Buffers \in Seq(Nat)
      BY <1>4, <3>3 DEF Buffers
    <3>7. Numbered(Buffers, snpSent, snpTrouble)
      BY BuffersNumbered DEF SnpInv
    <3>8. Numbered(Append(Buffers, snpSent + 1), snpSent + 1, snpTrouble)
      BY <1>4, <3>6, <3>7, NumberedGrows
    <3>9. Numbered(Buffers', snpSent', snpTrouble')
      BY <1>1, <2>1, <3>5, <3>8
    <3> QED BY <1>4, <2>1, <3>1, <3>9, BuffersNumbered
  <2>2. CASE UNCHANGED <<undiSending, snpSent, snpFifo>>
    BY <1>1, <1>4, <2>2, BuffersStay
  <2> QED BY <2>1, <2>2 DEF SnpTransmit
<1>6. SnpTypes'
  BY <1>1, <1>2, <1>5 DEF SnpInv, SnpTypes
<1>7. StateOK' /\ FilterAgrees'
  BY <1>1, <1>2 DEF SnpInv, StateOK, FilterAgrees
<1> QED BY <1>3, <1>5, <1>6, <1>7 DEF SnpInv

LEMMA CallsKeep ==
    ASSUME SnpInv,
           \/ \E reads \in SUBSET {"InterruptStatus", "TxBuf"} : GetStatus(reads)
           \/ \E small \in BOOLEAN : Receive(small)
           \/ CheckForPacket
    PROVE  SnpInv'
<1>1. /\ snpPc = SnpIdle /\ snpState = "Initialized"
      /\ UNCHANGED <<snpMode, snpFifo, snpIsr, snpInt, undiVars, snpLeft, snpHistory>>
  BY DEF GetStatus, Receive, CheckForPacket, SnpCalls, Ready
<1>2. UNCHANGED <<snpState, snpFilter, snpAddr, snpFifo, snpIsr, snpInt, undiOpen, undiFilter,
                  undiEvents, undiSending, snpWire, snpTaken, snpSent, snpRecycled, snpTrouble>>
  BY <1>1 DEF snpMode, undiVars, snpHistory
<1>3. PICK call \in {"GetStatus", "Receive", "CheckForPacket"},
           reads \in SUBSET {"InterruptStatus", "TxBuf"}, small \in BOOLEAN :
         /\ snpPc' = [call |-> call, reads |-> reads, small |-> small, got |-> NoFrame]
         /\ ~small => call = "Receive"
  BY DEF GetStatus, Receive, CheckForPacket, SnpCalls
<1>4. /\ snpPc' \in Calls /\ snpPc'.got = NoFrame /\ snpPc'.call # "none"
      /\ ~snpPc'.small => snpPc'.call \in {"none", "Receive"}
  BY <1>3 DEF Calls, NoFrame
<1>5. snpPc.got = NoFrame
  BY <1>1, IdleFacts
<1>6. SnpTypes' /\ StateOK' /\ FilterAgrees'
  BY <1>1, <1>2, <1>4 DEF SnpInv, SnpTypes, StateOK, FilterAgrees
<1>7. IsrOK'
  BY <1>2, <1>4, <1>5 DEF SnpInv, IsrOK, LeftInIsr
<1>8. FramesOK'
  BY <1>2, <1>4, <1>5 DEF SnpInv, FramesOK, LeftInIsr
<1>9. NoneLost'
  BY <1>2, <1>4, <1>5 DEF SnpInv, NoneLost, LeftInIsr
<1>10. BuffersOK'
  BY <1>2, BuffersStay
<1> QED BY <1>6, <1>7, <1>8, <1>9, <1>10 DEF SnpInv

-----------------------------------------------------------------------------
(* Undi16SimpleNetworkIsr. *)

Interrupts == SUBSET {"RECEIVE", "TRANSMIT"}

LEMMA IsrTypes ==
    ASSUME SnpInv
    PROVE  /\ snpIsr \in Isrs /\ snpPc \in Calls /\ snpFifo \in Fifos /\ snpInt \in Interrupts
           /\ undiEvents \in Seq({"receive", "transmit"})
           /\ snpWire \in Seq(Nat) /\ snpTaken \in Seq(Nat) /\ snpRecycled \in Seq(Nat)
           /\ snpSent \in Nat /\ snpTrouble \in BOOLEAN
           /\ snpIsr.frame \in Nat /\ snpPc.got \in Nat /\ snpIsr.valid \in BOOLEAN
  BY DEF SnpInv, SnpTypes, Interrupts, Isrs, Calls

(* UNDI tells its next event: a frame comes behind those of the wire. *)
Told ==
    \/ /\ LeftInIsr' /\ snpIsr'.frame = Len(snpWire) + 1
       /\ snpWire' = Append(snpWire, Len(snpWire) + 1)
    \/ ~LeftInIsr' /\ snpWire' = snpWire

LEMMA Tells ==
    ASSUME SnpInv, UndiTells
    PROVE  /\ snpIsr' \in Isrs /\ snpWire' \in Seq(Nat) /\ Told
           /\ undiEvents' \in Seq({"receive", "transmit"})
           /\ snpTrouble' = snpTrouble
           /\ snpIsr'.valid /\ snpIsr'.ok /\ snpIsr'.flag # "busy"
<1>1. Event \in {"done", "receive", "transmit"} /\ undiEvents' \in Seq({"receive", "transmit"})
  <2>1. CASE undiEvents = <<>>
    BY <2>1, IsrTypes DEF Event, UndiTells
  <2>2. CASE undiEvents # <<>>
    <3>1. /\ Head(undiEvents) \in {"receive", "transmit"}
          /\ Tail(undiEvents) \in Seq({"receive", "transmit"})
      BY <2>2, IsrTypes, HeadTailProperties
    <3> QED BY <2>2, <3>1 DEF Event, UndiTells
  <2> QED BY <2>1, <2>2
<1>2. Len(snpWire) + 1 \in Nat
  BY IsrTypes
<1>3. /\ snpIsr' = [valid |-> TRUE, flag |-> Event, ok |-> TRUE,
                    frame |-> IF Event = "receive" THEN Len(snpWire) + 1 ELSE NoFrame]
      /\ snpWire' = IF Event = "receive" THEN Append(snpWire, Len(snpWire) + 1) ELSE snpWire
      /\ snpTrouble' = snpTrouble
  BY DEF UndiTells
<1>4. snpIsr' \in Isrs
  BY <1>1, <1>2, <1>3 DEF Isrs, NoFrame
<1>5. snpWire' \in Seq(Nat)
  BY <1>2, <1>3, IsrTypes
<1>6. Told
  BY <1>3 DEF Told, LeftInIsr
<1> QED BY <1>1, <1>3, <1>4, <1>5, <1>6

LEMMA TellsNot ==
    ASSUME SnpInv, NEW flag \in {"done", "busy", "receive"}, NEW ok \in BOOLEAN,
           flag = "receive" => ~ok, UndiTellsNot(flag, ok)
    PROVE  /\ snpIsr' \in Isrs /\ snpIsr'.valid /\ ~LeftInIsr'
           /\ snpWire' = snpWire /\ undiEvents' = undiEvents /\ snpTrouble' = TRUE
<1>1. /\ snpIsr' = [valid |-> TRUE, flag |-> flag, ok |-> ok, frame |-> NoFrame]
      /\ snpWire' = snpWire /\ undiEvents' = undiEvents /\ snpTrouble' = TRUE
  BY DEF UndiTellsNot
<1>2. snpIsr' \in Isrs
  BY <1>1 DEF Isrs, NoFrame
<1> QED BY <1>1, <1>2 DEF LeftInIsr

(* The loop goes on, with got as the frame that was copied. *)
LEMMA FramesTold ==
    ASSUME SnpInv, NEW got \in Nat, got <= Len(snpWire),
           got # NoFrame => \A i \in 1 .. Len(snpTaken) : snpTaken[i] < got,
           ~snpTrouble => /\ Len(snpWire) = Len(snpTaken) + (IF got = NoFrame THEN 0 ELSE 1)
                          /\ got # NoFrame => got = Len(snpTaken) + 1,
           snpTaken' = snpTaken, snpPc'.got = got, Told, snpTrouble => snpTrouble'
    PROVE  FramesOK' /\ NoneLost'
<1>1. PICK n \in Nat, m \in Nat : n = Len(snpWire) /\ m = Len(snpTaken)
  BY IsrTypes
<1>2. /\ \A i \in 1 .. n : snpWire[i] = i
      /\ \A i \in 1 .. m : snpTaken[i] \in Nat /\ snpTaken[i] <= n
      /\ \A i, j \in 1 .. m : i < j /\ snpTaken[i] # NoFrame /\ snpTaken[j] # NoFrame
            => snpTaken[i] < snpTaken[j]
  BY <1>1, IsrTypes DEF SnpInv, FramesOK
<1>3. ~snpTrouble => \A i \in 1 .. m : snpTaken[i] = i
  BY <1>1 DEF SnpInv, NoneLost
<1>4. CASE ~LeftInIsr' /\ snpWire' = snpWire
  <2>1. FramesOK'
    BY <1>1, <1>2, <1>4 DEF FramesOK
  <2>2. NoneLost'
    BY <1>1, <1>3, <1>4 DEF NoneLost
  <2> QED BY <2>1, <2>2
<1>5. CASE /\ LeftInIsr' /\ snpIsr'.frame = Len(snpWire) + 1
           /\ snpWire' = Append(snpWire, Len(snpWire) + 1)
  <2>1. /\ Len(snpWire') = n + 1 /\ snpIsr'.frame = n + 1
        /\ \A i \in 1 .. n + 1 : snpWire'[i] = i
    BY <1>1, <1>2, <1>5, IsrTypes
  <2>2. FramesOK'
    BY <1>1, <1>2, <1>5, <2>1 DEF FramesOK
  <2>3. NoneLost'
    BY <1>1, <1>3, <1>5, <2>1 DEF NoneLost
  <2> QED BY <2>2, <2>3
<1> QED BY <1>4, <1>5 DEF Told

(* It returns to the call: whether the call takes a frame and a buffer. *)
LEMMA ReturnsTo ==
    ASSUME SnpInv, NEW status, NEW int \in Interrupts, NEW got \in Nat,
           Returns(status, int, got), snpSent' = snpSent, snpTrouble => snpTrouble'
    PROVE  /\ snpPc' = SnpIdle /\ snpInt' \in Interrupts
           /\ \/ /\ snpPc.call = "Receive" /\ status = "success" /\ "RECEIVE" \in int
                 /\ snpTaken' = Append(snpTaken, got) /\ snpInt' = int \ {"RECEIVE"}
              \/ /\ ~(snpPc.call = "Receive" /\ status = "success" /\ "RECEIVE" \in int)
                 /\ snpTaken' = snpTaken /\ snpInt' \in {int, {}}
           /\ snpFifo' \in Fifos /\ snpRecycled' \in Seq(Nat) /\ BuffersOK'
<1> DEFINE received == snpPc.call = "Receive" /\ status = "success" /\ "RECEIVE" \in int
           recycles == snpPc.call = "GetStatus" /\ status # "error" /\ "TxBuf" \in snpPc.reads
                       /\ ~FifoEmpty(snpFifo)
<1>1. /\ snpPc' = SnpIdle
      /\ snpInt' = IF received THEN int \ {"RECEIVE"}
                   ELSE IF /\ snpPc.call = "GetStatus" /\ status # "error"
                           /\ "InterruptStatus" \in snpPc.reads
                   THEN {} ELSE int
      /\ snpTaken' = IF received THEN Append(snpTaken, got) ELSE snpTaken
      /\ snpFifo' = IF recycles THEN FifoRemove(snpFifo) ELSE snpFifo
      /\ snpRecycled' = IF recycles THEN Append(snpRecycled, snpFifo.Data[snpFifo.First])
                        ELSE snpRecycled
  BY DEF Returns
<1>2. snpFifo' \in Fifos /\ snpRecycled' \in Seq(Nat) /\ BuffersOK'
  <2>1. CASE recycles
    <3>1. /\ snpFifo' \in Fifos /\ FifoHolds(snpFifo) # <<>>
          /\ snpFifo.Data[snpFifo.First] = Head(FifoHolds(snpFifo))
          /\ FifoHolds(snpFifo') = Tail(FifoHolds(snpFifo))
      BY <1>1, <2>1, IsrTypes, FifoRemoves
    <3>2. FifoHolds(snpFifo)' = FifoHolds(snpFifo')
      BY DEF FifoHolds, FifoCount, FifoPlace
    <3>3. FifoHolds(snpFifo) \in Seq(Nat) /\ snpRecycled \in Seq(Nat)
      BY IsrTypes, FifoHeld
    <3>4. snpRecycled' = Append(snpRecycled, Head(FifoHolds(snpFifo)))
      BY <1>1, <2>1, <3>1
    <3>5. Buffers' = snpRecycled' \o Tail(FifoHolds(snpFifo))
      BY <3>1, <3>2 DEF Buffers
    <3>6. Buffers' = Buffers
      BY <3>1, <3>3, <3>4, <3>5, Recycles, Zenon DEF Buffers
    <3>7. Numbered(Buffers', snpSent', snpTrouble')
      <4>1. Numbered(Buffers, snpSent, snpTrouble)
        BY BuffersNumbered DEF SnpInv
      <4> QED BY <3>6, <4>1 DEF Numbered
    <3>8. snpRecycled' \in Seq(Nat)
      <4>1. Head(FifoHolds(snpFifo)) \in Nat
        BY <3>1, <3>3, HeadTailProperties
      <4> QED BY <3>3, <3>4, <4>1
    <3> QED BY <3>1, <3>7, <3>8, BuffersNumbered
  <2>2. CASE ~recycles
    BY <1>1, <2>2, IsrTypes, BuffersStay
  <2> QED BY <2>1, <2>2
<1>3. snpInt' \in Interrupts
  BY <1>1 DEF Interrupts
<1> QED BY <1>1, <1>2, <1>3

LEMMA FramesReturned ==
    ASSUME SnpInv, NEW status, NEW int \in Interrupts, NEW got \in Nat,
           Returns(status, int, got), snpSent' = snpSent,
           snpTrouble' \in BOOLEAN, snpTrouble => snpTrouble', snpIsr' \in Isrs,
           got <= Len(snpWire), snpWire' = snpWire,
           got # NoFrame => \A i \in 1 .. Len(snpTaken) : snpTaken[i] < got,
           LeftInIsr' => LeftInIsr /\ snpIsr'.frame = snpIsr.frame /\ got < snpIsr.frame,
           snpIsr'.valid /\ (~snpIsr'.ok \/ snpIsr'.flag = "busy") => snpTrouble',
           ~snpTrouble' =>
               /\ got = snpPc.got /\ LeftInIsr' = LeftInIsr
               /\ got # NoFrame => snpPc.call = "Receive" /\ status = "success"
                                   /\ "RECEIVE" \in int
               /\ "RECEIVE" \in int => got # NoFrame \/ LeftInIsr'
               /\ snpPc.call = "Receive" /\ status = "success" /\ "RECEIVE" \in int
                      => got # NoFrame
    PROVE  /\ IsrOK' /\ FramesOK' /\ NoneLost' /\ BuffersOK'
           /\ snpPc' = SnpIdle /\ snpInt' \in Interrupts /\ snpTaken' \in Seq(Nat)
           /\ snpFifo' \in Fifos /\ snpRecycled' \in Seq(Nat)
<1>1. /\ snpPc' = SnpIdle /\ snpInt' \in Interrupts
      /\ snpFifo' \in Fifos /\ snpRecycled' \in Seq(Nat) /\ BuffersOK'
  BY ReturnsTo
<1>2. \/ /\ snpPc.call = "Receive" /\ status = "success" /\ "RECEIVE" \in int
         /\ snpTaken' = Append(snpTaken, got) /\ snpInt' = int \ {"RECEIVE"}
      \/ /\ ~(snpPc.call = "Receive" /\ status = "success" /\ "RECEIVE" \in int)
         /\ snpTaken' = snpTaken /\ snpInt' \in {int, {}}
  BY ReturnsTo
<1>3. PICK n \in Nat, m \in Nat : n = Len(snpWire) /\ m = Len(snpTaken)
  BY IsrTypes
<1>4. /\ \A i \in 1 .. n : snpWire[i] = i
      /\ \A i \in 1 .. m : /\ snpTaken[i] \in Nat /\ snpTaken[i] <= n
                           /\ LeftInIsr => snpTaken[i] < snpIsr.frame
      /\ \A i, j \in 1 .. m : i < j /\ snpTaken[i] # NoFrame /\ snpTaken[j] # NoFrame
            => snpTaken[i] < snpTaken[j]
      /\ LeftInIsr => snpIsr.frame \in 1 .. n
  BY <1>3, IsrTypes DEF SnpInv, FramesOK
<1>5. IsrOK'
  BY <1>1, <1>2, IdleFacts DEF IsrOK
<1>6. CASE snpTaken' = snpTaken
  <2>1. FramesOK'
    BY <1>1, <1>3, <1>4, <1>6, IdleFacts DEF FramesOK
  <2>2. NoneLost'
    <3>1. SUFFICES ASSUME ~snpTrouble' PROVE NoneLost'
      BY DEF NoneLost
    <3>2. got = NoFrame
      <4>1. Len(snpTaken) # Len(snpTaken) + 1
        BY <1>3
      <4>2. Len(Append(snpTaken, got)) = Len(snpTaken) + 1
        BY IsrTypes
      <4> QED BY <1>2, <1>6, <3>1, <4>1, <4>2
    <3> QED BY <1>1, <1>6, <3>1, <3>2, IdleFacts DEF SnpInv, NoneLost
  <2> QED BY <1>1, <1>5, <1>6, <2>1, <2>2, IsrTypes
<1>7. CASE /\ snpPc.call = "Receive" /\ status = "success" /\ "RECEIVE" \in int
           /\ snpTaken' = Append(snpTaken, got)
  <2>1. /\ snpTaken' \in Seq(Nat) /\ Len(snpTaken') = m + 1 /\ snpTaken'[m + 1] = got
        /\ \A i \in 1 .. m : snpTaken'[i] = snpTaken[i]
    BY <1>3, <1>7, IsrTypes
  <2>2. FramesOK'
    <3>1. \A i \in 1 .. m + 1 : i \in 1 .. m \/ i = m + 1
      OBVIOUS
    <3>2. \A i \in 1 .. m + 1 : /\ snpTaken'[i] <= n
                                /\ LeftInIsr' => snpTaken'[i] < snpIsr'.frame
      BY <1>3, <1>4, <2>1, <3>1
    <3>3. \A i, j \in 1 .. m + 1 : i < j /\ snpTaken'[i] # NoFrame /\ snpTaken'[j] # NoFrame
             => snpTaken'[i] < snpTaken'[j]
      <4> SUFFICES ASSUME NEW i \in 1 .. m + 1, NEW j \in 1 .. m + 1, i < j,
                          snpTaken'[i] # NoFrame, snpTaken'[j] # NoFrame
                   PROVE  snpTaken'[i] < snpTaken'[j]
        OBVIOUS
      <4>1. i \in 1 .. m
        OBVIOUS
      <4>2. CASE j \in 1 .. m
        BY <1>4, <2>1, <4>1, <4>2
      <4>3. CASE j = m + 1
        BY <1>3, <2>1, <4>1, <4>3
      <4> QED BY <3>1, <4>2, <4>3
    <3> QED BY <1>1, <1>3, <1>4, <2>1, <3>2, <3>3, IdleFacts DEF FramesOK
  <2>3. NoneLost'
    <3>1. SUFFICES ASSUME ~snpTrouble' PROVE NoneLost'
      BY DEF NoneLost
    <3>2. /\ got # NoFrame /\ got = m + 1 /\ LeftInIsr' = LeftInIsr
          /\ n = m + 1 + (IF LeftInIsr THEN 1 ELSE 0)
          /\ \A i \in 1 .. m : snpTaken[i] = i
          /\ LeftInIsr => snpIsr.frame = n
      BY <1>3, <1>7, <3>1 DEF SnpInv, NoneLost
    <3>3. \A i \in 1 .. m + 1 : snpTaken'[i] = i
      BY <2>1, <3>2
    <3> QED BY <1>1, <1>3, <2>1, <3>2, <3>3, IdleFacts DEF NoneLost
  <2> QED BY <1>1, <1>5, <2>1, <2>2, <2>3
<1> QED BY <1>2, <1>6, <1>7

(* What a step of the Isr leaves alone. *)
LEMMA IsrKeeps ==
    ASSUME SnpInv, snpPc # SnpIdle, UNCHANGED <<snpMode, undiOpen, undiFilter, undiSending, snpSent>>,
           snpPc' = SnpIdle \/ snpPc'.call = snpPc.call,
           snpPc' \in Calls, snpIsr' \in Isrs, snpInt' \in Interrupts, snpFifo' \in Fifos,
           undiEvents' \in Seq({"receive", "transmit"}), snpWire' \in Seq(Nat),
           snpTaken' \in Seq(Nat), snpRecycled' \in Seq(Nat), snpTrouble' \in BOOLEAN,
           IsrOK', FramesOK', NoneLost', BuffersOK'
    PROVE  SnpInv'
<1>1. UNCHANGED <<snpState, snpFilter, snpAddr>>
  BY DEF snpMode
<1>2. snpState = "Initialized" /\ snpPc.call # "none"
  BY DEF SnpInv, StateOK
<1>3. StateOK'
  BY <1>1, <1>2, IdleFacts DEF StateOK
<1>4. FilterAgrees'
  BY <1>1 DEF SnpInv, FilterAgrees
<1>5. SnpTypes'
  BY <1>1 DEF SnpInv, SnpTypes, Interrupts
<1> QED BY <1>3, <1>4, <1>5 DEF SnpInv

LEMMA IsrStartKeeps ==
    ASSUME SnpInv, IsrStart
    PROVE  SnpInv'
<1>1. /\ snpPc # SnpIdle /\ ~snpIsr.valid
      /\ UNCHANGED <<snpMode, undiOpen, undiFilter, undiSending, snpSent>> /\ snpSent' = snpSent
  BY DEF IsrStart
<1>2. ~LeftInIsr /\ snpPc.got = NoFrame /\ ("RECEIVE" \in snpInt => snpTrouble)
  BY <1>1 DEF SnpInv, IsrOK, LeftInIsr
<1>3. 0 \in Nat /\ NoFrame = 0 /\ 0 <= Len(snpWire)
  BY IsrTypes, IdleFacts
<1>4. CASE /\ Returns("success", snpInt, NoFrame)
           /\ UNCHANGED <<snpIsr, snpWire, undiEvents, snpLeft, snpTrouble>>
  <2>1. /\ IsrOK' /\ FramesOK' /\ NoneLost' /\ BuffersOK'
        /\ snpPc' = SnpIdle /\ snpInt' \in Interrupts /\ snpTaken' \in Seq(Nat)
        /\ snpFifo' \in Fifos /\ snpRecycled' \in Seq(Nat)
    <3>1. LeftInIsr' = LeftInIsr
      BY <1>4 DEF LeftInIsr
    <3> QED BY <1>1, <1>2, <1>3, <1>4, <3>1, IsrTypes, FramesReturned
  <2> QED BY <1>1, <1>4, <2>1, IsrTypes, IdleFacts, IsrKeeps
<1>5. CASE /\ snpTrouble' = TRUE /\ Returns("error", snpInt, NoFrame)
           /\ UNCHANGED <<snpIsr, snpWire, undiEvents>>
  <2>1. /\ IsrOK' /\ FramesOK' /\ NoneLost' /\ BuffersOK'
        /\ snpPc' = SnpIdle /\ snpInt' \in Interrupts /\ snpTaken' \in Seq(Nat)
        /\ snpFifo' \in Fifos /\ snpRecycled' \in Seq(Nat)
    <3>1. LeftInIsr' = LeftInIsr
      BY <1>5 DEF LeftInIsr
    <3> QED BY <1>1, <1>2, <1>3, <1>5, <3>1, IsrTypes, FramesReturned
  <2> QED BY <1>1, <1>5, <2>1, IsrTypes, IdleFacts, IsrKeeps
<1>6. CASE /\ UndiTells \/ UndiTellsNot("done", FALSE) \/ UndiTellsNot("busy", TRUE)
           /\ UNCHANGED <<snpPc, snpInt, snpTaken, snpFifo, snpRecycled>>
  <2>1. /\ snpIsr' \in Isrs /\ snpWire' \in Seq(Nat) /\ Told /\ snpIsr'.valid
        /\ undiEvents' \in Seq({"receive", "transmit"})
        /\ snpTrouble' = snpTrouble \/ snpTrouble' = TRUE
        /\ ~snpIsr'.ok \/ snpIsr'.flag = "busy" => snpTrouble'
    <3>1. CASE UndiTells
      BY <3>1, Tells
    <3>2. CASE UndiTellsNot("done", FALSE)
      BY <3>2, TellsNot, IsrTypes DEF Told
    <3>3. CASE UndiTellsNot("busy", TRUE)
      BY <3>3, TellsNot, IsrTypes DEF Told
    <3> QED BY <1>6, <3>1, <3>2, <3>3
  <2>2. FramesOK' /\ NoneLost'
    <3>1. ~snpTrouble => Len(snpWire) = Len(snpTaken)
      BY <1>2, IsrTypes DEF SnpInv, NoneLost
    <3> QED BY <1>2, <1>3, <1>6, <2>1, <3>1, FramesTold
  <2>3. IsrOK'
    BY <1>2, <1>6, <2>1 DEF SnpInv, IsrOK
  <2>4. BuffersOK'
    BY <1>1, <1>6, <2>1, BuffersStay
  <2> QED BY <1>1, <1>6, <2>1, <2>2, <2>3, <2>4, IsrTypes, IsrKeeps
<1> QED BY <1>4, <1>5, <1>6 DEF IsrStart

(* GET_NEXT, once a transmission was noted or a frame copied as got.       *)
LEMMA GetNextKeeps ==
    ASSUME SnpInv, NEW int \in Interrupts, NEW got \in Nat, GetNext(int, got),
           snpPc # SnpIdle, snpIsr.valid,
           UNCHANGED <<snpMode, undiOpen, undiFilter, undiSending, snpSent>>,
           snpSent' = snpSent, got <= Len(snpWire),
           got # NoFrame => /\ \A i \in 1 .. Len(snpTaken) : snpTaken[i] < got
                            /\ snpPc.call = "Receive" /\ "RECEIVE" \in int,
           "RECEIVE" \in int /\ ~snpTrouble => got # NoFrame,
           ~snpTrouble => /\ Len(snpWire) = Len(snpTaken) + (IF got = NoFrame THEN 0 ELSE 1)
                          /\ got # NoFrame => got = Len(snpTaken) + 1
    PROVE  SnpInv'
<1>1. CASE /\ UndiTells \/ UndiTellsNot("busy", TRUE)
           /\ snpPc' = [snpPc EXCEPT !.got = got]
           /\ snpInt' = int
           /\ UNCHANGED <<snpTaken, snpFifo, snpRecycled>>
  <2>1. /\ snpIsr' \in Isrs /\ snpWire' \in Seq(Nat) /\ Told /\ snpIsr'.valid
        /\ undiEvents' \in Seq({"receive", "transmit"})
        /\ snpTrouble' = snpTrouble \/ snpTrouble' = TRUE
        /\ ~snpIsr'.ok \/ snpIsr'.flag = "busy" => snpTrouble'
    <3>1. CASE UndiTells
      BY <3>1, Tells
    <3>2. CASE UndiTellsNot("busy", TRUE)
      BY <3>2, TellsNot, IsrTypes DEF Told
    <3> QED BY <1>1, <3>1, <3>2
  <2>2. /\ snpPc' \in Calls /\ snpPc'.got = got /\ snpPc'.call = snpPc.call
        /\ snpPc'.small = snpPc.small
    BY <1>1, IsrTypes DEF Calls
  <2>3. FramesOK' /\ NoneLost'
    BY <1>1, <2>1, <2>2, FramesTold
  <2>4. IsrOK'
    BY <1>1, <2>1, <2>2 DEF SnpInv, IsrOK
  <2>5. BuffersOK' /\ snpFifo' \in Fifos
    BY <1>1, <2>1, BuffersStay
  <2> QED BY <1>1, <2>1, <2>2, <2>3, <2>4, <2>5, IsrTypes, IsrKeeps
<1>2. CASE UndiTellsNot("receive", FALSE) /\ Returns("error", int, got)
  <2>1. /\ snpIsr' \in Isrs /\ snpIsr'.valid /\ ~LeftInIsr'
        /\ snpWire' = snpWire /\ undiEvents' = undiEvents /\ snpTrouble' = TRUE
    BY <1>2, TellsNot
  <2>2. /\ IsrOK' /\ FramesOK' /\ NoneLost' /\ BuffersOK'
        /\ snpPc' = SnpIdle /\ snpInt' \in Interrupts /\ snpTaken' \in Seq(Nat)
        /\ snpFifo' \in Fifos /\ snpRecycled' \in Seq(Nat)
    BY <1>2, <2>1, FramesReturned
  <2> QED BY <2>1, <2>2, IsrTypes, IdleFacts, IsrKeeps
<1> QED BY <1>1, <1>2 DEF GetNext

LEMMA IsrLoopKeeps ==
    ASSUME SnpInv, IsrLoop
    PROVE  SnpInv'
<1>1. /\ snpPc # SnpIdle /\ snpIsr.valid
      /\ UNCHANGED <<snpMode, undiOpen, undiFilter, undiSending, snpSent>> /\ snpSent' = snpSent
  BY DEF IsrLoop
<1>2. /\ snpPc.got \in Nat /\ snpPc.got <= Len(snpWire)
      /\ snpPc.got # NoFrame => /\ \A i \in 1 .. Len(snpTaken) : snpTaken[i] < snpPc.got
                                /\ snpPc.call = "Receive" /\ "RECEIVE" \in snpInt
      /\ LeftInIsr => snpPc.got < snpIsr.frame
      /\ ~snpIsr.ok \/ snpIsr.flag = "busy" => snpTrouble
      /\ "RECEIVE" \in snpInt /\ ~snpTrouble => snpPc.got # NoFrame \/ LeftInIsr
  BY <1>1, IsrTypes DEF SnpInv, FramesOK, IsrOK
<1>3. CASE /\ snpIsr.flag = "done"
           /\ snpIsr' = [snpIsr EXCEPT !.valid = FALSE]
           /\ Returns("success", snpInt, snpPc.got)
           /\ UNCHANGED <<snpWire, undiEvents, snpLeft, snpTrouble>>
  <2>1. ~LeftInIsr /\ ~LeftInIsr' /\ snpIsr' \in Isrs /\ ~snpIsr'.valid
    BY <1>3, IsrTypes DEF LeftInIsr, Isrs
  <2>2. /\ IsrOK' /\ FramesOK' /\ NoneLost' /\ BuffersOK'
        /\ snpPc' = SnpIdle /\ snpInt' \in Interrupts /\ snpTaken' \in Seq(Nat)
        /\ snpFifo' \in Fifos /\ snpRecycled' \in Seq(Nat)
    <3>1. LeftInIsr' = LeftInIsr
      BY <1>3, <2>1, IsrTypes DEF LeftInIsr
    <3>2. \/ snpTrouble
          \/ /\ snpPc.got # NoFrame => snpPc.call = "Receive" /\ "RECEIVE" \in snpInt
             /\ "RECEIVE" \in snpInt => snpPc.got # NoFrame
      BY <1>2, <2>1
    <3> QED BY <1>1, <1>2, <1>3, <2>1, <3>1, <3>2, IsrTypes, FramesReturned
  <2> QED BY <1>1, <1>3, <2>1, <2>2, IsrTypes, IdleFacts, IsrKeeps
<1>4. CASE /\ snpTrouble
           /\ \E status \in {"success", "error"} : Returns(status, snpInt, snpPc.got)
           /\ UNCHANGED <<snpIsr, snpWire, undiEvents, snpLeft, snpTrouble>>
  <2>1. LeftInIsr' = LeftInIsr
    BY <1>4 DEF LeftInIsr
  <2>2. /\ IsrOK' /\ FramesOK' /\ NoneLost' /\ BuffersOK'
        /\ snpPc' = SnpIdle /\ snpInt' \in Interrupts /\ snpTaken' \in Seq(Nat)
        /\ snpFifo' \in Fifos /\ snpRecycled' \in Seq(Nat)
    BY <1>1, <1>2, <1>4, <2>1, IsrTypes, FramesReturned
  <2> QED BY <1>1, <1>4, <2>2, IsrTypes, IdleFacts, IsrKeeps
<1>5. CASE snpIsr.flag = "transmit" /\ GetNext(snpInt \cup {"TRANSMIT"}, snpPc.got)
  <2>1. ~LeftInIsr
    BY <1>5 DEF LeftInIsr
  <2>2. snpInt \cup {"TRANSMIT"} \in Interrupts
    BY IsrTypes DEF Interrupts
  <2>3. ~snpTrouble =>
           /\ Len(snpWire) = Len(snpTaken) + (IF snpPc.got = NoFrame THEN 0 ELSE 1)
           /\ snpPc.got # NoFrame => snpPc.got = Len(snpTaken) + 1
    BY <2>1, IsrTypes DEF SnpInv, NoneLost
  <2> QED BY <1>1, <1>2, <1>5, <2>1, <2>2, <2>3, GetNextKeeps
<1>6. CASE /\ snpIsr.flag = "receive" /\ snpIsr.ok
           /\ Returns(IF snpPc.got # NoFrame THEN "success" ELSE "too small",
                      snpInt \cup {"RECEIVE"}, snpPc.got)
           /\ UNCHANGED <<snpIsr, snpWire, undiEvents, snpLeft, snpTrouble>>
  <2>1. LeftInIsr /\ LeftInIsr'
    BY <1>1, <1>6 DEF LeftInIsr
  <2>2. snpInt \cup {"RECEIVE"} \in Interrupts
    BY IsrTypes DEF Interrupts
  <2>3. /\ IsrOK' /\ FramesOK' /\ NoneLost' /\ BuffersOK'
        /\ snpPc' = SnpIdle /\ snpInt' \in Interrupts /\ snpTaken' \in Seq(Nat)
        /\ snpFifo' \in Fifos /\ snpRecycled' \in Seq(Nat)
    <3>1. CASE snpPc.got # NoFrame
      <4>1. Returns("success", snpInt \cup {"RECEIVE"}, snpPc.got)
        BY <1>6, <3>1
      <4> QED BY <1>1, <1>2, <1>6, <2>1, <2>2, <3>1, <4>1, IsrTypes, FramesReturned
    <3>2. CASE snpPc.got = NoFrame
      <4>1. Returns("too small", snpInt \cup {"RECEIVE"}, snpPc.got)
        BY <1>6, <3>2
      <4> QED BY <1>1, <1>2, <1>6, <2>1, <2>2, <3>2, <4>1, IsrTypes, FramesReturned
    <3> QED BY <3>1, <3>2
  <2> QED BY <1>1, <1>6, <2>3, IsrTypes, IdleFacts, IsrKeeps
<1>7. CASE /\ snpIsr.flag = "receive" /\ snpIsr.ok /\ snpPc.got = NoFrame /\ ~snpPc.small
           /\ GetNext(snpInt \cup {"RECEIVE"}, snpIsr.frame)
  <2>1. LeftInIsr
    BY <1>1, <1>7 DEF LeftInIsr
  <2>2. snpInt \cup {"RECEIVE"} \in Interrupts
    BY IsrTypes DEF Interrupts
  <2>3. snpPc.call = "Receive"
    BY <1>1, <1>7, IsrTypes DEF SnpInv, StateOK, IsrOK
  <2>4. /\ snpIsr.frame \in Nat /\ snpIsr.frame <= Len(snpWire) /\ snpIsr.frame # NoFrame
        /\ \A i \in 1 .. Len(snpTaken) : snpTaken[i] < snpIsr.frame
    BY <2>1, IsrTypes, IdleFacts DEF SnpInv, FramesOK
  <2>5. ~snpTrouble => /\ Len(snpWire) = Len(snpTaken) + 1
                       /\ snpIsr.frame = Len(snpTaken) + 1
    BY <1>7, <2>1, IsrTypes DEF SnpInv, NoneLost
  <2> QED BY <1>1, <1>7, <2>2, <2>3, <2>4, <2>5, GetNextKeeps
<1> QED
  <2>1. ~snpIsr.ok \/ snpIsr.flag = "busy" => snpTrouble
    BY <1>2
  <2> QED BY <1>3, <1>4, <1>5, <1>6, <1>7, <2>1 DEF IsrLoop

-----------------------------------------------------------------------------
(* The invariant, and what follows from it. *)

LEMMA SnpInitOK ==
    ASSUME SnpInit
    PROVE  SnpInv
<1>1. SnpFifoMax \in Nat \ {0}
  BY SnpAssumption
<1>2. snpFifo \in Fifos /\ FifoEmpty(snpFifo)
  BY <1>1 DEF SnpInit, EmptyFifo, Fifos, FifoEmpty
<1>3. /\ snpIsr \in Isrs /\ ~snpIsr.valid /\ ~LeftInIsr
      /\ <<>> \in Seq(Nat) /\ <<>> \in Seq({"receive", "transmit"}) /\ Len(<<>>) = 0
  BY EmptySeq DEF SnpInit, NoIsr, Isrs, LeftInIsr, NoFrame
<1>4. SnpTypes
  BY <1>2, <1>3, IdleFacts DEF SnpInit, SnpTypes
<1>5. StateOK /\ IsrOK /\ FilterAgrees
  BY <1>2, <1>3, IdleFacts DEF SnpInit, StateOK, IsrOK, FilterAgrees
<1>6. FramesOK /\ NoneLost
  BY <1>3, IdleFacts DEF SnpInit, FramesOK, NoneLost
<1>7. BuffersOK
  <2>1. Buffers = <<>> /\ snpSent = 0
    BY <1>2, <1>3, FifoResets, ConcatEmptySeq DEF SnpInit, Buffers
  <2>2. <<>> = [i \in 1 .. 0 |-> i] /\ DOMAIN <<>> = {}
    OBVIOUS
  <2> QED BY <1>3, <2>1, <2>2, BuffersNumbered DEF Numbered, Increasing
<1> QED BY <1>4, <1>5, <1>6, <1>7 DEF SnpInv

LEMMA SnpStepKeeps ==
    ASSUME SnpInv, [SnpNext]_snpVars
    PROVE  SnpInv'
<1>1. CASE FrameComes \/ SendEnds
  BY <1>1, CardKeeps
<1>2. CASE SnpStart \/ SnpStop
  BY <1>2, StartStopKeeps
<1>3. CASE SnpInitialize
  BY <1>3, InitializeKeeps
<1>4. CASE SnpReset
  BY <1>4, SnpResetKeeps
<1>5. CASE SnpShutdown
  BY <1>5, ShutdownKeeps
<1>6. CASE \E request \in SnpRequests : SnpReceiveFilters(request)
  BY <1>6, ReceiveFiltersKeeps
<1>7. CASE \E new \in {"permanent", "other"} : SnpStationAddress(new)
  BY <1>7, StationAddressKeeps
<1>8. CASE SnpTransmit
  BY <1>8, TransmitKeeps
<1>9. CASE \/ \E reads \in SUBSET {"InterruptStatus", "TxBuf"} : GetStatus(reads)
           \/ \E small \in BOOLEAN : Receive(small)
           \/ CheckForPacket
  BY <1>9, CallsKeep
<1>10. CASE IsrStart
  BY <1>10, IsrStartKeeps
<1>11. CASE IsrLoop
  BY <1>11, IsrLoopKeeps
<1>12. CASE UNCHANGED snpVars
  <2>1. UNCHANGED <<snpState, snpFilter, snpAddr, snpFifo, snpIsr, snpInt, undiOpen, undiFilter,
                    undiEvents, undiSending, snpPc, snpWire, snpTaken, snpSent, snpRecycled,
                    snpTrouble>>
    BY <1>12 DEF snpVars, snpMode, undiVars, snpHistory
  <2>2. SnpTypes' /\ StateOK' /\ FilterAgrees'
    BY <2>1 DEF SnpInv, SnpTypes, StateOK, FilterAgrees, FifoEmpty
  <2>3. IsrOK' /\ FramesOK' /\ NoneLost'
    BY <2>1, FramesDropped
  <2>4. BuffersOK'
    BY <2>1, BuffersStay
  <2> QED BY <2>2, <2>3, <2>4 DEF SnpInv
<1> QED
  BY <1>1, <1>2, <1>3, <1>4, <1>5, <1>6, <1>7, <1>8, <1>9, <1>10, <1>11, <1>12 DEF SnpNext

(* While no call failed, the wire is what was returned and what is in hand. *)
LEMMA WireIsTakenAndInHand ==
    ASSUME SnpInv, ~snpTrouble
    PROVE  snpTaken \o InHand = snpWire
<1>1. PICK n \in Nat, m \in Nat : n = Len(snpWire) /\ m = Len(snpTaken)
  BY IsrTypes
<1>2. PICK hand : hand = InHand
  OBVIOUS
<1>3. /\ n = m + (IF snpPc.got = NoFrame THEN 0 ELSE 1) + (IF LeftInIsr THEN 1 ELSE 0)
      /\ snpPc.got # NoFrame => snpPc.got = m + 1
      /\ LeftInIsr => snpIsr.frame = n
      /\ \A i \in 1 .. m : snpTaken[i] = i
      /\ \A i \in 1 .. n : snpWire[i] = i
  BY <1>1 DEF SnpInv, NoneLost, FramesOK
<1>4. hand \in Seq(Nat) /\ Len(hand) = n - m /\ \A i \in 1 .. Len(hand) : hand[i] = m + i
  <2>1. CASE snpPc.got = NoFrame /\ ~LeftInIsr
    <3>1. hand = <<>>
      BY <1>2, <2>1 DEF InHand
    <3> QED BY <1>3, <2>1, <3>1
  <2>2. CASE snpPc.got = NoFrame /\ LeftInIsr
    <3>1. hand = <<snpIsr.frame>> /\ snpIsr.frame \in Nat
      BY <1>2, <2>2, IsrTypes DEF InHand
    <3> QED BY <1>3, <2>2, <3>1
  <2>3. CASE snpPc.got # NoFrame /\ ~LeftInIsr
    <3>1. hand = <<snpPc.got>> /\ snpPc.got \in Nat
      BY <1>2, <2>3, IsrTypes DEF InHand
    <3> QED BY <1>3, <2>3, <3>1
  <2>4. CASE snpPc.got # NoFrame /\ LeftInIsr
    <3>1. PICK a \in Nat, b \in Nat : a = snpPc.got /\ b = snpIsr.frame
      BY IsrTypes
    <3>2. PICK x, y : x = <<a>> /\ y = <<b>>
      OBVIOUS
    <3>3. /\ x \in Seq(Nat) /\ Len(x) = 1 /\ x[1] = a
          /\ y \in Seq(Nat) /\ Len(y) = 1 /\ y[1] = b
      BY <3>2
    <3>4. hand = x \o y
      BY <1>2, <2>4, <3>1, <3>2 DEF InHand
    <3>5. /\ hand \in Seq(Nat) /\ Len(hand) = Len(x) + Len(y)
          /\ \A i \in 1 .. Len(x) + Len(y) :
                hand[i] = IF i <= Len(x) THEN x[i] ELSE y[i - Len(x)]
      BY <3>3, <3>4, ConcatProperties, Zenon
    <3>6. /\ hand \in Seq(Nat) /\ Len(hand) = 2 /\ hand[1] = a /\ hand[2] = b
      <4>1. /\ Len(hand) = 2
            /\ \A i \in 1 .. 2 : hand[i] = IF i <= 1 THEN x[i] ELSE y[i - 1]
        BY <3>3, <3>5
      <4>2. hand[1] = x[1] /\ hand[2] = y[1]
        BY <4>1
      <4> QED BY <3>3, <3>5, <4>1, <4>2
    <3>7. a = m + 1 /\ b = m + 2 /\ n = m + 2
      BY <1>3, <2>4, <3>1
    <3> QED BY <3>6, <3>7
  <2> QED BY <2>1, <2>2, <2>3, <2>4
<1>5. PICK all : all = snpTaken \o hand
  OBVIOUS
<1>6. /\ all \in Seq(Nat) /\ Len(all) = Len(snpTaken) + Len(hand)
      /\ \A i \in 1 .. Len(snpTaken) + Len(hand) :
            all[i] = IF i <= Len(snpTaken) THEN snpTaken[i] ELSE hand[i - Len(snpTaken)]
  BY <1>4, <1>5, IsrTypes, ConcatProperties, Zenon
<1>7. Len(all) = n
  BY <1>1, <1>3, <1>4, <1>6
<1>8. \A i \in 1 .. n : all[i] = i
  <2> TAKE i \in 1 .. n
  <2>1. CASE i \in 1 .. m
    <3>1. i \in 1 .. Len(snpTaken) + Len(hand) /\ i <= Len(snpTaken)
      BY <1>1, <1>4, <2>1
    <3>2. all[i] = snpTaken[i]
      BY <1>6, <3>1
    <3> QED BY <1>3, <2>1, <3>2
  <2>2. CASE i > m
    <3>1. PICK j : j = i - m
      OBVIOUS
    <3>2. j \in 1 .. Len(hand) /\ i = m + j
      BY <1>4, <2>2, <3>1
    <3> QED BY <1>1, <1>4, <1>6, <1>7, <2>2, <3>1, <3>2
  <2> QED BY <2>1, <2>2
<1>9. all = snpWire
  BY <1>1, <1>3, <1>6, <1>7, <1>8, IsrTypes, SeqEqual
<1> QED BY <1>2, <1>5, <1>9

LEMMA SnpInvImplies ==
    ASSUME SnpInv
    PROVE  SnpSound /\ SnpTypeOK
<1>1. FramesOnceInOrder
  <2>1. DOMAIN snpTaken = 1 .. Len(snpTaken)
    BY IsrTypes
  <2>2. \A i, j \in DOMAIN snpTaken :
           i < j /\ snpTaken[i] # NoFrame /\ snpTaken[j] # NoFrame => snpTaken[i] < snpTaken[j]
    BY <2>1 DEF SnpInv, FramesOK
  <2> QED BY <2>2, WireIsTakenAndInHand DEF FramesOnceInOrder
<1>2. SnpSound
  BY <1>1 DEF SnpInv, SnpSound, FramesAndBuffersOnce, BuffersOK
<1>3. SnpTypeOK
  BY DEF SnpInv, SnpTypes, SnpTypeOK, Fifos, Isrs, Calls
<1> QED BY <1>2, <1>3

LEMMA SnpAlways == SnpSpec => []SnpInv
<1>1. SnpInit => SnpInv
  BY SnpInitOK
<1>2. SnpInv /\ [SnpNext]_snpVars => SnpInv'
  BY SnpStepKeeps
<1> QED BY <1>1, <1>2, PTL DEF SnpSpec

(* Receive returns frames once and in order, GetStatus recycles buffers    *)
(* once and in order, nothing of either is lost unless a call of UNDI      *)
(* failed or the interface was reset, and UNDI filters as Mode says: for   *)
(* a ring of any length, any requests and any number of calls and faults.  *)
THEOREM SnpCorrect == SnpSpec => []SnpSound
<1>1. SnpInv => SnpSound
  BY SnpInvImplies
<1> QED BY <1>1, SnpAlways, PTL

(* Every variable of the driver keeps its type. *)
THEOREM SnpTypeCorrect == SnpSpec => []SnpTypeOK
<1>1. SnpInv => SnpTypeOK
  BY SnpInvImplies
<1> QED BY <1>1, SnpAlways, PTL
=============================================================================
