----------------------------- MODULE RingProofs -----------------------------
(***************************************************************************)
(* Theorems about Ring, for every size and every set of elements: the      *)
(* indices and slots are well formed, and the buffer is a queue of         *)
(* Size - 1 elements.                                                      *)
(***************************************************************************)
EXTENDS Ring, SequenceTheorems, TLAPS

\* The elements between the tail and the head: what Fifo calls its queue.
Contents(d, h, t) == [i \in 1 .. Masked(h - t) |-> d[Masked(t + i - 1)]]

\* What a step needs to know of the steps before it: the slot that push makes
\* valid holds an element, and no step of the writer reaches the slot that pop
\* is about to free.
StepInv ==
  /\ writer = "push" => data[head] \in Elements
  /\ reader = "pop" => head # tail /\ c = data[tail]

RingInv == RingTypeOK /\ StepInv

-----------------------------------------------------------------------------
\* The three cases of masking with SIZE - 1 that the indices meet.
LEMMA MaskLow == ASSUME NEW n \in 0 .. Size - 1 PROVE Masked(n) = n
  BY SizeAssumption, SMTT(30) DEF Masked

LEMMA MaskHigh ==
  ASSUME NEW n \in Size .. 2 * Size - 1 PROVE Masked(n) = n - Size
  BY SizeAssumption, SMTT(30) DEF Masked

LEMMA MaskNegative ==
  ASSUME NEW n \in (1 - Size) .. -1 PROVE Masked(n) = n + Size
  BY SizeAssumption, SMTT(30) DEF Masked

LEMMA NextSlot ==
  ASSUME NEW h \in Slots
  PROVE  /\ Masked(h + 1) \in Slots
         /\ Masked(h + 1) = IF h = Size - 1 THEN 0 ELSE h + 1
<1>1. CASE h = Size - 1
  <2>1. h + 1 \in Size .. 2 * Size - 1 /\ h + 1 - Size = 0
    BY <1>1, SizeAssumption DEF Slots
  <2> QED
    BY <2>1, <1>1, MaskHigh, SizeAssumption DEF Slots
<1>2. CASE h # Size - 1
  <2>1. h + 1 \in 0 .. Size - 1
    BY <1>2, SizeAssumption DEF Slots
  <2> QED
    BY <2>1, <1>2, MaskLow, SizeAssumption DEF Slots
<1> QED
  BY <1>1, <1>2

LEMMA UsedSlots ==
  ASSUME NEW h \in Slots, NEW t \in Slots
  PROVE  /\ Masked(h - t) \in Slots
         /\ Masked(h - t) = IF h >= t THEN h - t ELSE h - t + Size
<1>1. CASE h >= t
  <2>1. h - t \in 0 .. Size - 1
    BY <1>1, SizeAssumption DEF Slots
  <2> QED
    BY <2>1, <1>1, MaskLow DEF Slots
<1>2. CASE ~(h >= t)
  <2>1. h - t \in (1 - Size) .. -1 /\ h - t + Size \in 0 .. Size - 1
    BY <1>2, SizeAssumption DEF Slots
  <2> QED
    BY <2>1, <1>2, MaskNegative DEF Slots
<1> QED
  BY <1>1, <1>2

LEMMA SlotAt ==
  ASSUME NEW t \in Slots, NEW k \in Slots
  PROVE  /\ Masked(t + k) \in Slots
         /\ Masked(t + k) = IF t + k < Size THEN t + k ELSE (t + k) - Size
<1>1. CASE t + k < Size
  <2>1. t + k \in 0 .. Size - 1
    BY <1>1, SizeAssumption DEF Slots
  <2> QED
    BY <2>1, <1>1, MaskLow DEF Slots
<1>2. CASE ~(t + k < Size)
  <2>1. t + k \in Size .. 2 * Size - 1 /\ (t + k) - Size \in 0 .. Size - 1
    BY <1>2, SizeAssumption DEF Slots
  <2> QED
    BY <2>1, <1>2, MaskHigh DEF Slots
<1> QED
  BY <1>1, <1>2

\* put writes to a slot that no reader counts.
LEMMA HeadIsFree ==
  ASSUME NEW h \in Slots, NEW t \in Slots, NEW i \in 1 .. Masked(h - t)
  PROVE  /\ Masked(t + i - 1) \in Slots
         /\ Masked(t + i - 1) # h
<1>1. PICK u \in Slots : /\ u = Masked(h - t)
                         /\ u = IF h >= t THEN h - t ELSE h - t + Size
  BY UsedSlots
<1>2. PICK k \in Slots : k < u /\ k = i - 1 /\ t + k = t + i - 1
  BY <1>1, SizeAssumption DEF Slots
<1>3. /\ Masked(t + k) \in Slots
      /\ Masked(t + k) = IF t + k < Size THEN t + k ELSE (t + k) - Size
  BY SlotAt
<1> QED
  BY <1>1, <1>2, <1>3, SizeAssumption DEF Slots

LEMMA PutKeepsContents ==
  ASSUME NEW d \in [Slots -> Elements \cup {Nothing}],
         NEW h \in Slots, NEW t \in Slots, NEW e
  PROVE  Contents([d EXCEPT ![h] = e], h, t) = Contents(d, h, t)
  BY HeadIsFree DEF Contents

\* push makes the element in the head's slot the last one.
LEMMA PushAppends ==
  ASSUME NEW d \in [Slots -> Elements \cup {Nothing}],
         NEW h \in Slots, NEW t \in Slots, Masked(h + 1) # t
  PROVE  /\ Len(Contents(d, h, t)) < Size - 1
         /\ Contents(d, Masked(h + 1), t) = Append(Contents(d, h, t), d[h])
<1> DEFINE u == Masked(h - t)
<1>1. u \in Slots /\ u < Size - 1 /\ Masked(Masked(h + 1) - t) = u + 1
  <2>1. u \in Slots /\ u = IF h >= t THEN h - t ELSE h - t + Size
    BY UsedSlots
  <2>2. PICK n \in Slots : /\ n = Masked(h + 1)
                           /\ n = IF h = Size - 1 THEN 0 ELSE h + 1
    BY NextSlot
  <2>3. Masked(n - t) = IF n >= t THEN n - t ELSE n - t + Size
    BY UsedSlots
  <2> HIDE DEF u
  <2> QED
    BY <2>1, <2>2, <2>3, SizeAssumption DEF Slots
<1>2. Masked(t + (u + 1) - 1) = h
  <2>1. t + (u + 1) - 1 = t + u
    BY <1>1 DEF Slots
  <2>2. Masked(t + u) = h
    <3>1. u = IF h >= t THEN h - t ELSE h - t + Size
      BY UsedSlots
    <3>2. Masked(t + u) = IF t + u < Size THEN t + u ELSE (t + u) - Size
      BY <1>1, SlotAt
    <3> HIDE DEF u
    <3> QED
      BY <1>1, <3>1, <3>2, SizeAssumption DEF Slots
  <2> QED
    BY <2>1, <2>2
<1>3. /\ Contents(d, h, t) = [i \in 1 .. u |-> d[Masked(t + i - 1)]]
      /\ Contents(d, Masked(h + 1), t)
           = [i \in 1 .. u + 1 |-> d[Masked(t + i - 1)]]
  BY <1>1 DEF Contents
<1> HIDE DEF u
<1>4. u \in Nat
  BY <1>1, SizeAssumption DEF Slots
<1>5. \A i \in 1 .. u : Masked(t + i - 1) \in Slots
  BY HeadIsFree DEF u
<1>6. Contents(d, h, t) \in Seq(Elements \cup {Nothing})
  BY <1>3, <1>4, <1>5
<1>7. Len(Contents(d, h, t)) = u
  BY <1>3, <1>4
<1>8. Append(Contents(d, h, t), d[h])
        = [i \in 1 .. u + 1 |-> IF i <= u THEN Contents(d, h, t)[i] ELSE d[h]]
  BY <1>4, <1>6, <1>7
<1>9. \A i \in 1 .. u + 1 :
         d[Masked(t + i - 1)]
           = IF i <= u THEN Contents(d, h, t)[i] ELSE d[h]
  BY <1>2, <1>3, <1>4
<1> QED
  BY <1>1, <1>3, <1>7, <1>8, <1>9

\* pop takes the element in the tail's slot away from the front.
LEMMA PopTakesHead ==
  ASSUME NEW d \in [Slots -> Elements \cup {Nothing}],
         NEW h \in Slots, NEW t \in Slots, h # t
  PROVE  /\ Contents(d, h, t) # <<>>
         /\ Head(Contents(d, h, t)) = d[t]
         /\ Contents(d, h, Masked(t + 1)) = Tail(Contents(d, h, t))
<1> DEFINE u == Masked(h - t)
<1>1. u \in Slots /\ u > 0 /\ Masked(h - Masked(t + 1)) = u - 1
  <2>1. u \in Slots /\ u = IF h >= t THEN h - t ELSE h - t + Size
    BY UsedSlots
  <2>2. PICK n \in Slots : /\ n = Masked(t + 1)
                           /\ n = IF t = Size - 1 THEN 0 ELSE t + 1
    BY NextSlot
  <2>3. Masked(h - n) = IF h >= n THEN h - n ELSE h - n + Size
    BY UsedSlots
  <2> HIDE DEF u
  <2> QED
    BY <2>1, <2>2, <2>3, SizeAssumption DEF Slots
<1>2. Masked(t + 1 - 1) = t
  BY MaskLow DEF Slots
<1>3. ASSUME NEW i \in 1 .. u - 1
      PROVE  Masked(Masked(t + 1) + i - 1) = Masked(t + (i + 1) - 1)
  <2>1. /\ i \in Slots /\ i - 1 \in Slots /\ t + (i + 1) - 1 = t + i
        /\ Masked(t + 1) + i - 1 = Masked(t + 1) + (i - 1)
    BY <1>1, NextSlot, SizeAssumption DEF Slots
  <2>2. Masked(t + i) = IF t + i < Size THEN t + i ELSE (t + i) - Size
    BY <2>1, SlotAt
  <2>3. Masked(Masked(t + 1) + (i - 1))
          = IF Masked(t + 1) + (i - 1) < Size THEN Masked(t + 1) + (i - 1)
            ELSE (Masked(t + 1) + (i - 1)) - Size
    BY <2>1, NextSlot, SlotAt
  <2> QED
    BY <2>1, <2>2, <2>3, NextSlot, SizeAssumption DEF Slots
<1>4. /\ Contents(d, h, t) = [i \in 1 .. u |-> d[Masked(t + i - 1)]]
      /\ Contents(d, h, Masked(t + 1))
           = [i \in 1 .. u - 1 |-> d[Masked(Masked(t + 1) + i - 1)]]
  BY <1>1 DEF Contents
<1>5. \A i \in 1 .. u : Masked(t + i - 1) \in Slots
  BY HeadIsFree
<1> HIDE DEF u
<1>6. u \in Nat
  BY <1>1, SizeAssumption DEF Slots
<1>7. /\ Contents(d, h, t) \in Seq(Elements \cup {Nothing})
      /\ Len(Contents(d, h, t)) = u
  BY <1>4, <1>5, <1>6
<1>8. Tail(Contents(d, h, t))
        = [i \in 1 .. u - 1 |-> Contents(d, h, t)[i + 1]]
  <2>1. Contents(d, h, t) # <<>>
    BY <1>1, <1>4, <1>6
  <2>2. /\ Tail(Contents(d, h, t)) \in Seq(Elements \cup {Nothing})
        /\ Len(Tail(Contents(d, h, t))) = u - 1
        /\ \A i \in 1 .. u - 1 :
             Tail(Contents(d, h, t))[i] = Contents(d, h, t)[i + 1]
    BY <1>7, <2>1, HeadTailProperties
  <2>3. /\ [i \in 1 .. u - 1 |-> Contents(d, h, t)[i + 1]]
             \in Seq(Elements \cup {Nothing})
        /\ Len([i \in 1 .. u - 1 |-> Contents(d, h, t)[i + 1]]) = u - 1
    BY <1>1, <1>6, <1>7
  <2> QED
    BY <2>2, <2>3, SeqEqual
<1>9. \A i \in 1 .. u - 1 :
         Contents(d, h, t)[i + 1] = d[Masked(Masked(t + 1) + i - 1)]
  BY <1>3, <1>4, <1>6
<1>10. Contents(d, h, t) # <<>> /\ Head(Contents(d, h, t)) = d[t]
  BY <1>1, <1>2, <1>4, <1>6, <1>7
<1> QED
  BY <1>4, <1>8, <1>9, <1>10
-----------------------------------------------------------------------------
LEMMA Bounds == 0 \in Slots /\ Masked(0) = 0
  BY MaskLow, SizeAssumption DEF Slots

LEMMA InitInv == RingInit => RingInv
  BY Bounds DEF RingInit, RingInv, RingTypeOK, StepInv

\* Every step keeps the invariant; only put and pop have to be looked at.
LEMMA NextInv == RingInv /\ [RingNext]_ring => RingInv'
<1> SUFFICES ASSUME RingInv, [RingNext]_ring PROVE RingInv'
  OBVIOUS
<1>0. RingTypeOK /\ StepInv
  BY DEF RingInv
<1>1. ASSUME NEW e \in Elements, PutData(e) PROVE RingInv'
  <2>1. RingTypeOK'
    BY <1>0, <1>1 DEF RingTypeOK, PutData
  <2>2. StepInv'
    BY <1>0, <1>1 DEF RingTypeOK, StepInv, PutData
  <2> QED
    BY <2>1, <2>2 DEF RingInv
<1>2. CASE Push
  <2>1. RingTypeOK'
    BY <1>0, <1>2, NextSlot DEF RingTypeOK, Push
  <2>2. StepInv'
    BY <1>0, <1>2 DEF StepInv, Push, IsFull
  <2> QED
    BY <2>1, <2>2 DEF RingInv
<1>3. CASE GetData
  <2>1. data[tail] \in Elements \cup {Nothing}
    BY <1>0 DEF RingTypeOK
  <2>2. RingTypeOK'
    BY <1>0, <1>3, <2>1 DEF RingTypeOK, GetData
  <2>3. StepInv'
    BY <1>0, <1>3 DEF StepInv, GetData, IsEmpty
  <2> QED
    BY <2>2, <2>3 DEF RingInv
<1>4. CASE Pop
  <2>1. RingTypeOK'
    BY <1>0, <1>4, NextSlot DEF RingTypeOK, Pop, Popped
  <2>2. StepInv'
    BY <1>0, <1>4 DEF StepInv, Pop
  <2> QED
    BY <2>1, <2>2 DEF RingInv
<1>5. CASE UNCHANGED ring
  BY <1>0, <1>5 DEF RingInv, RingTypeOK, StepInv, ring
<1> QED
  BY <1>1, <1>2, <1>3, <1>4, <1>5 DEF RingNext, Writing, Reading

\* The indices stay within the array and every slot holds an element or the zero
\* it started with (buffer.h:59-71).
THEOREM TypeCorrect == RingSpec => []RingTypeOK
<1>1. RingInv => RingTypeOK
  BY DEF RingInv
<1> QED
  BY <1>1, InitInv, NextInv, PTL DEF RingSpec

\* With one writer and one reader the buffer is a queue: put appends one element
\* when push moves the head, get returns the first one when pop moves the tail,
\* and every other step leaves the queue alone (buffer.h:8-10, 57-71).
THEOREM RingImplementsFifo == RingSpec => FifoSpec
<1>1. RingInit => Fifo!Init
  <2> SUFFICES ASSUME RingInit PROVE Fifo!Init
    OBVIOUS
  <2>1. Used = 0
    BY Bounds DEF RingInit, Used
  <2> QED
    BY <2>1 DEF RingInit, Fifo!Init
<1>2. RingInv /\ RingInv' /\ [RingNext]_ring => [Fifo!Next]_(Fifo!vars)
  <2> SUFFICES ASSUME RingInv, RingInv', [RingNext]_ring
               PROVE  [Fifo!Next]_(Fifo!vars)
    OBVIOUS
  <2> DEFINE queue == Contents(data, head, tail)
  <2>0. /\ RingTypeOK /\ StepInv
        /\ queue = [i \in 1 .. Used |-> data[Masked(tail + i - 1)]]
        /\ queue' = [i \in 1 .. Used |-> data[Masked(tail + i - 1)]]'
    BY DEF RingInv, Contents, Used
  <2>1. ASSUME NEW e \in Elements, PutData(e) PROVE UNCHANGED <<queue, got>>
    <3>1. /\ head' = head /\ tail' = tail /\ got' = got
          /\ data' = [data EXCEPT ![head] = e]
      BY <2>1 DEF PutData
    <3>2. Contents([data EXCEPT ![head] = e], head, tail) = queue
      BY <2>0, PutKeepsContents DEF RingTypeOK
    <3>3. queue' = Contents(data', head', tail')
      BY DEF Contents
    <3> QED
      BY <3>1, <3>2, <3>3
  <2>2. CASE Push
    <3>1. PICK e \in Elements : e = data[head]
      BY <2>0, <2>2 DEF StepInv, Push
    <3>2. Len(queue) < Size - 1 /\ queue' = Append(queue, data[head])
      BY <2>0, <2>2, PushAppends DEF RingTypeOK, Push, IsFull
    <3>3. Fifo!Put(e)
      BY <2>0, <2>2, <3>1, <3>2 DEF Push, Fifo!Put
    <3> QED
      BY <3>3 DEF Fifo!Next
  <2>3. CASE Pop
    <3>1. /\ queue # <<>> /\ Head(queue) = data[tail]
          /\ queue' = Tail(queue)
      BY <2>0, <2>3, PopTakesHead DEF RingTypeOK, StepInv, Pop, Popped
    <3>2. Fifo!Get
      BY <2>0, <2>3, <3>1 DEF StepInv, Pop, Fifo!Get
    <3> QED
      BY <3>2 DEF Fifo!Next
  <2>4. CASE \E e \in Elements : PutData(e)
    BY <2>0, <2>1, <2>4 DEF Fifo!vars
  <2>5. CASE GetData \/ UNCHANGED ring
    BY <2>5 DEF GetData, ring, Used, Fifo!vars
  <2> QED
    BY <2>2, <2>3, <2>4, <2>5 DEF RingNext, Writing, Reading
<1> QED
  BY <1>1, <1>2, InitInv, NextInv, PTL DEF RingSpec, FifoSpec, Fifo!Spec
=============================================================================
