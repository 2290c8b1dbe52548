-------------------------- MODULE GeneratorsProofs --------------------------
(***************************************************************************)
(* Theorems about Generators, for frames of any length and pulses at any   *)
(* distance: every byte is inside its frame and leaves the reference clock *)
(* alone, the pulses of walking are whole, and the channels and the        *)
(* distance of the pulses go on from one frame to the next.                *)
(***************************************************************************)
EXTENDS Generators, FiniteSetTheorems, FunctionTheorems, TLAPS

\* Pulses every gap bytes: n of them, the first one after some bytes.
Series(first, gap, n) == {first + (gap * k) : k \in 0 .. n - 1}

\* The frame of a regular pattern, and that of walking: the channels in turn.
RegularFrame(first, gap, n, m) ==
  {<<q, Rotated(m, 1 + ((q - first) \div gap))>> : q \in Series(first, gap, n)}

WalkFrame(first, gap, n, m) ==
  {<<q + k, Rotated(m, 1 + ((q - first) \div gap))>> :
     q \in Series(first, gap, n), k \in 0 .. 2}

\* A byte that comes after, or before, all others of a frame.
IsLast(b, bytes) == b \in bytes /\ \A a \in bytes : a[1] < b[1] \/ a = b

IsFirst(b, bytes) == b \in bytes /\ \A a \in bytes : b[1] < a[1] \/ a = b

\* What the static variables say of the frame that was drawn last: its last
\* pulse is on the channel in mask, and count bytes of the gap are left.
InStep ==
  InOrder /\ frame # {} =>
    \E b \in frame : /\ IsLast(b, frame)
                     /\ b[2] = mask
                     /\ generator # "walking" => (Len + count) - b[1] = GapOf

\* The static variables of the generators, and what binary_pattern draws.
StaticsInv ==
  /\ generator # "stupid2" => mask \in {0} \cup Channels
  /\ generator \notin {"slow_reg", "med_reg"} => count = 0
  /\ generator = "walking" => /\ walker + WalkStep <= WalkDistance
                              /\ \E j \in Nat : walker = WalkStep * j
  /\ generator = "binary" => frame = {}

Inv == TypeOK /\ OnlySevenBits /\ WholePulses /\ StaticsInv /\ InStep

\* What a frame owes the one before it.
FollowsOn ==
  InOrder /\ frame # {} /\ frame' # {} =>
    /\ ChannelAt(Min(Places))' = Rotate(ChannelAt(Max(Places)))
    /\ generator # "walking" => Len + Min(Places)' - Max(Places) = GapOf

-----------------------------------------------------------------------------
(***************************************************************************)
(* Division.                                                               *)
(***************************************************************************)
LEMMA Divided ==
  ASSUME NEW a \in Int, NEW n \in Nat \ {0}
  PROVE  a \div n \in Int /\ a % n \in 0 .. n - 1 /\ a = (n * (a \div n)) + (a % n)
OBVIOUS

\* Multiples are in the order of their factors.
LEMMA FactorsInOrder ==
  ASSUME NEW n \in Nat \ {0}, NEW p \in Int, NEW q \in Int, p < q
  PROVE  (n * p) + n <= n * q
<1>1. n * (p + 1) <= n * q
  OBVIOUS
<1>2. n * (p + 1) = (n * p) + n
  OBVIOUS
<1> QED
  BY <1>1, <1>2

\* A multiple that is smaller than the next one.
LEMMA MultipleBelow ==
  ASSUME NEW n \in Nat \ {0}, NEW p \in Int, NEW q \in Int, n * p < (n * q) + n
  PROVE  p <= q
<1>1. SUFFICES ASSUME q < p PROVE FALSE
  OBVIOUS
<1>2. (n * q) + n <= n * p
  BY <1>1, FactorsInOrder
<1>3. n * q \in Int /\ n * p \in Int
  OBVIOUS
<1> QED
  BY <1>2, <1>3

LEMMA DivisionIsUnique ==
  ASSUME NEW n \in Nat \ {0}, NEW q \in Int, NEW a \in Int,
         n * q <= a, a < (n * q) + n
  PROVE  a \div n = q
<1> DEFINE p == a \div n
           t == a % n
<1>1. p \in Int /\ t \in 0 .. n - 1 /\ (n * p) + t = a
  BY Divided
<1> HIDE DEF p, t
<1>2. n * p \in Int /\ n * q \in Int
  BY <1>1
<1>3. n * p < (n * q) + n /\ n * q < (n * p) + n
  BY <1>1, <1>2
<1>4. p <= q /\ q <= p
  BY <1>1, <1>3, MultipleBelow
<1>5. p = q
  BY <1>1, <1>4
<1> QED
  BY <1>5 DEF p

(***************************************************************************)
(* A series of pulses: as many bytes as there are pulses, from the first   *)
(* to the last one.                                                        *)
(***************************************************************************)
LEMMA SeriesSize ==
  ASSUME NEW first \in Nat, NEW gap \in Nat \ {0}, NEW n \in Nat
  PROVE  Cardinality(Series(first, gap, n)) = n
<1> DEFINE f == [k \in 0 .. n - 1 |-> first + (gap * k)]
<1>1. f \in Bijection(0 .. n - 1, Series(first, gap, n))
  <2>1. f \in [0 .. n - 1 -> Series(first, gap, n)]
    BY DEF Series
  <2>2. ASSUME NEW k \in 0 .. n - 1, NEW j \in 0 .. n - 1, f[k] = f[j]
        PROVE  k = j
    <3>1. gap * k \in Int /\ gap * j \in Int
      OBVIOUS
    <3>2. gap * k = gap * j
      BY <2>2, <3>1
    <3>3. gap * k < (gap * j) + gap /\ gap * j < (gap * k) + gap
      BY <3>1, <3>2
    <3>4. k <= j /\ j <= k
      BY <3>3, MultipleBelow
    <3> QED
      BY <3>4
  <2>3. \A q \in Series(first, gap, n) : \E k \in 0 .. n - 1 : f[k] = q
    BY DEF Series
  <2> HIDE DEF f
  <2> QED
    BY <2>1, <2>2, <2>3, Fun_IsBij
<1>2. IsFiniteSet(0 .. n - 1) /\ Cardinality(0 .. n - 1) = n
  <2>1. IsFiniteSet(0 .. n - 1)
          /\ Cardinality(0 .. n - 1) = IF 0 > n - 1 THEN 0 ELSE (n - 1) - 0 + 1
    BY FS_Interval
  <2> QED
    BY <2>1
<1>3. ExistsBijection(0 .. n - 1, Series(first, gap, n))
  BY <1>1 DEF ExistsBijection
<1> QED
  BY <1>2, <1>3, FS_Bijection

\* Where in a frame the pulses of a series are that starts before its end.
LEMMA SeriesOfFrame ==
  ASSUME NEW first \in Nat, NEW gap \in Nat \ {0}, NEW len \in Nat, first < len
  PROVE  LET n == 1 + ((len - 1 - first) \div gap)
         IN  /\ n \in Nat \ {0}
             /\ first + (gap * (n - 1)) < len
             /\ len <= first + (gap * n)
<1> DEFINE a == len - 1 - first
           p == a \div gap
           t == a % gap
<1>1. a \in Nat /\ first + a < len /\ len <= first + a + 1
  OBVIOUS
<1>2. p \in Int /\ t \in 0 .. gap - 1 /\ (gap * p) + t = a
  BY <1>1, Divided
<1> HIDE DEF a, p, t
<1>3. gap * p \in Int
  BY <1>2
<1>4. 0 <= p
  <2>1. gap * 0 < (gap * p) + gap
    BY <1>1, <1>2, <1>3
  <2> QED
    BY <2>1, <1>2, MultipleBelow
<1>5. gap * (1 + p) = (gap * p) + gap /\ (1 + p) - 1 = p
  BY <1>2
<1>6. first + (gap * p) < len /\ len <= first + (gap * (1 + p))
  BY <1>1, <1>2, <1>3, <1>5
<1> QED
  BY <1>2, <1>4, <1>5, <1>6 DEF p, a

LEMMA SeriesOutside ==
  ASSUME NEW first \in Nat, NEW gap \in Nat \ {0}, NEW len \in Nat, first >= len
  PROVE  (len - 1 - first) \div gap < 0
<1> DEFINE a == len - 1 - first
           p == a \div gap
           t == a % gap
<1>1. a \in Int /\ a < 0
  OBVIOUS
<1>2. p \in Int /\ t \in 0 .. gap - 1 /\ (gap * p) + t = a
  BY <1>1, Divided
<1> HIDE DEF a, p, t
<1>3. gap * p \in Int
  BY <1>2
<1>4. p <= -1
  <2>1. gap * p < (gap * (-1)) + gap
    BY <1>1, <1>2, <1>3
  <2> QED
    BY <2>1, <1>2, MultipleBelow
<1> QED
  BY <1>2, <1>4 DEF p, a

(***************************************************************************)
(* The channels.                                                           *)
(***************************************************************************)
LEMMA Rotation ==
  ASSUME NEW m \in {0} \cup Channels
  PROVE  Rotate(m) \in Channels
<1>1. /\ 0 \div 2 = 0 /\ 1 \div 2 = 0 /\ 2 \div 2 = 1 /\ 4 \div 2 = 2
      /\ 8 \div 2 = 4 /\ 16 \div 2 = 8 /\ 32 \div 2 = 16 /\ 64 \div 2 = 32
  OBVIOUS
<1> QED
  BY <1>1 DEF Channels, Rotate

\* The function of Rotated is the one that its equation describes.
LEMMA RotatedRotates ==
  ASSUME NEW m \in {0} \cup Channels, NEW n \in Nat
  PROVE  /\ Rotated(m, 0) = m
         /\ Rotated(m, 1) = Rotate(m)
         /\ n > 0 => Rotated(m, n) \in Channels
<1> DEFINE r1 == Rotate(m)
           r2 == Rotate(r1)
           r3 == Rotate(r2)
           r4 == Rotate(r3)
           r5 == Rotate(r4)
           r6 == Rotate(r5)
           r7 == Rotate(r6)
           g == [k \in 0 .. 7 |-> CASE k = 0 -> m [] k = 1 -> r1 [] k = 2 -> r2
                                    [] k = 3 -> r3 [] k = 4 -> r4 [] k = 5 -> r5
                                    [] k = 6 -> r6 [] k = 7 -> r7]
           Follows(f) == f = [k \in 0 .. 7 |-> IF k = 0 THEN m ELSE Rotate(f[k - 1])]
           r == CHOOSE f : Follows(f)
<1>1. /\ g[0] = m /\ g[1] = Rotate(g[0]) /\ g[2] = Rotate(g[1])
      /\ g[3] = Rotate(g[2]) /\ g[4] = Rotate(g[3]) /\ g[5] = Rotate(g[4])
      /\ g[6] = Rotate(g[5]) /\ g[7] = Rotate(g[6])
  OBVIOUS
<1>2. DOMAIN g = 0 .. 7 /\ g = [k \in 0 .. 7 |-> g[k]]
  OBVIOUS
<1> HIDE DEF g
<1>3. \A k \in 0 .. 7 : g[k] = IF k = 0 THEN m ELSE Rotate(g[k - 1])
  <2> SUFFICES ASSUME NEW k \in 0 .. 7
               PROVE  g[k] = IF k = 0 THEN m ELSE Rotate(g[k - 1])
    OBVIOUS
  <2>1. k = 0 \/ k = 1 \/ k = 2 \/ k = 3 \/ k = 4 \/ k = 5 \/ k = 6 \/ k = 7
    OBVIOUS
  <2> QED
    BY <1>1, <2>1
<1>4. Follows(g)
  BY <1>2, <1>3
<1>5. Follows(r)
  BY <1>4
<1> HIDE DEF r
<1>6. /\ r[0] = m /\ r[1] = Rotate(r[0]) /\ r[2] = Rotate(r[1])
      /\ r[3] = Rotate(r[2]) /\ r[4] = Rotate(r[3]) /\ r[5] = Rotate(r[4])
      /\ r[6] = Rotate(r[5]) /\ r[7] = Rotate(r[6])
  <2>1. \A k \in 1 .. 7 : r[k] = Rotate(r[k - 1])
    BY <1>5
  <2>2. r[0] = m
    BY <1>5
  <2>3. /\ 1 - 1 = 0 /\ 2 - 1 = 1 /\ 3 - 1 = 2 /\ 4 - 1 = 3
        /\ 5 - 1 = 4 /\ 6 - 1 = 5 /\ 7 - 1 = 6
    OBVIOUS
  <2> HIDE DEF Follows
  <2> QED
    BY <2>1, <2>2, <2>3
<1> HIDE DEF Follows
<1>7. /\ r[1] \in Channels /\ r[2] \in Channels /\ r[3] \in Channels
      /\ r[4] \in Channels /\ r[5] \in Channels /\ r[6] \in Channels
      /\ r[7] \in Channels
  <2>1. r[1] \in Channels
    BY <1>6, Rotation
  <2>2. r[2] = Rotate(r[1]) /\ r[2] \in Channels
    BY <1>6, <2>1, Rotation
  <2>3. r[3] = Rotate(r[2]) /\ r[3] \in Channels
    BY <1>6, <2>2, Rotation
  <2>4. r[4] = Rotate(r[3]) /\ r[4] \in Channels
    BY <1>6, <2>3, Rotation
  <2>5. r[5] = Rotate(r[4]) /\ r[5] \in Channels
    BY <1>6, <2>4, Rotation
  <2>6. r[6] = Rotate(r[5]) /\ r[6] \in Channels
    BY <1>6, <2>5, Rotation
  <2>7. r[7] = Rotate(r[6]) /\ r[7] \in Channels
    BY <1>6, <2>6, Rotation
  <2> QED
    BY <2>1, <2>2, <2>3, <2>4, <2>5, <2>6, <2>7
<1>8. \A x : Rotated(m, x) = IF x = 0 THEN m ELSE r[1 + ((x - 1) % 7)]
  BY DEF Rotated, r, Follows
<1>9. (1 - 1) % 7 = 0
  OBVIOUS
<1>10. Rotated(m, 1) = r[1]
  BY <1>8, <1>9
<1>11. ASSUME n > 0 PROVE Rotated(m, n) \in Channels
  <2>1. PICK k \in 0 .. 6 : k = (n - 1) % 7
    BY <1>11, Divided
  <2>2. Rotated(m, n) = r[1 + k]
    BY <1>8, <1>11, <2>1
  <2>3. k = 0 \/ k = 1 \/ k = 2 \/ k = 3 \/ k = 4 \/ k = 5 \/ k = 6
    BY <2>1
  <2> QED
    BY <1>7, <2>2, <2>3
<1> QED
  BY <1>6, <1>8, <1>10, <1>11

LEMMA ChannelValues == \A m \in Channels : m \in 1 .. 127
  BY DEF Channels

\* The bits of stupid1.
LEMMA Bits ==
  ASSUME NEW k \in 0 .. 7
  PROVE  2 ^ (7 - k) \in 1 .. 255 /\ (2 ^ (7 - k) >= 128 => k < 2)
<1>1. /\ 2 ^ 7 = 128 /\ 2 ^ 6 = 64 /\ 2 ^ 5 = 32 /\ 2 ^ 4 = 16
      /\ 2 ^ 3 = 8 /\ 2 ^ 2 = 4 /\ 2 ^ 1 = 2 /\ 2 ^ 0 = 1
  OBVIOUS
<1>2. \/ (k = 0 /\ 7 - k = 7) \/ (k = 1 /\ 7 - k = 6) \/ (k = 2 /\ 7 - k = 5)
      \/ (k = 3 /\ 7 - k = 4) \/ (k = 4 /\ 7 - k = 3) \/ (k = 5 /\ 7 - k = 2)
      \/ (k = 6 /\ 7 - k = 1) \/ (k = 7 /\ 7 - k = 0)
  OBVIOUS
<1>3. \/ (k = 0 /\ 2 ^ (7 - k) = 2 ^ 7) \/ (k = 1 /\ 2 ^ (7 - k) = 2 ^ 6)
      \/ (k = 2 /\ 2 ^ (7 - k) = 2 ^ 5) \/ (k = 3 /\ 2 ^ (7 - k) = 2 ^ 4)
      \/ (k = 4 /\ 2 ^ (7 - k) = 2 ^ 3) \/ (k = 5 /\ 2 ^ (7 - k) = 2 ^ 2)
      \/ (k = 6 /\ 2 ^ (7 - k) = 2 ^ 1) \/ (k = 7 /\ 2 ^ (7 - k) = 2 ^ 0)
  BY <1>2, Zenon
<1>4. PICK bit : bit = 2 ^ (7 - k)
  OBVIOUS
<1>5. \/ (k = 0 /\ bit = 128) \/ (k = 1 /\ bit = 64) \/ (k = 2 /\ bit = 32)
      \/ (k = 3 /\ bit = 16) \/ (k = 4 /\ bit = 8) \/ (k = 5 /\ bit = 4)
      \/ (k = 6 /\ bit = 2) \/ (k = 7 /\ bit = 1)
  BY <1>1, <1>3, <1>4
<1>6. bit \in 1 .. 255 /\ (bit >= 128 => k < 2)
  BY <1>5
<1> QED
  BY <1>4, <1>6, Zenon

LEMMA TopBit == 2 ^ 25 \in Nat /\ 2 ^ 25 > 127
BY SMT

(***************************************************************************)
(* The first and the last byte of a frame.                                 *)
(***************************************************************************)
LEMMA LastByte ==
  ASSUME NEW bytes, NEW b, IsLast(b, bytes), \A a \in bytes : a[1] \in Int
  PROVE  /\ Max({a[1] : a \in bytes}) = b[1]
         /\ (CHOOSE a \in bytes : a[1] = b[1])[2] = b[2]
<1> DEFINE places == {a[1] : a \in bytes}
           last == CHOOSE x \in places : \A y \in places : x >= y
           byte == CHOOSE a \in bytes : a[1] = b[1]
<1>1. b \in bytes /\ \A a \in bytes : a[1] < b[1] \/ a = b
  BY DEF IsLast
<1>2. b[1] \in places /\ \A y \in places : y \in Int /\ b[1] >= y
  BY <1>1
<1>3. last \in places /\ \A y \in places : last >= y
  BY <1>2
<1>4. byte \in bytes /\ byte[1] = b[1]
  BY <1>1
<1> HIDE DEF places, last, byte
<1>5. last = b[1]
  <2>1. last \in Int /\ b[1] \in Int /\ last >= b[1] /\ b[1] >= last
    BY <1>2, <1>3
  <2> QED
    BY <2>1
<1>6. byte = b
  <2>1. byte[1] \in Int /\ (byte[1] < b[1] \/ byte = b)
    BY <1>1, <1>4
  <2> QED
    BY <1>4, <2>1
<1> QED
  BY <1>5, <1>6 DEF places, last, byte, Max

LEMMA FirstByte ==
  ASSUME NEW bytes, NEW b, IsFirst(b, bytes), \A a \in bytes : a[1] \in Int
  PROVE  /\ Min({a[1] : a \in bytes}) = b[1]
         /\ (CHOOSE a \in bytes : a[1] = b[1])[2] = b[2]
<1> DEFINE places == {a[1] : a \in bytes}
           first == CHOOSE x \in places : \A y \in places : x =< y
           byte == CHOOSE a \in bytes : a[1] = b[1]
<1>1. b \in bytes /\ \A a \in bytes : b[1] < a[1] \/ a = b
  BY DEF IsFirst
<1>2. b[1] \in places /\ \A y \in places : y \in Int /\ b[1] <= y
  BY <1>1
<1>3. first \in places /\ \A y \in places : first <= y
  BY <1>2
<1>4. byte \in bytes /\ byte[1] = b[1]
  BY <1>1
<1> HIDE DEF places, first, byte
<1>5. first = b[1]
  <2>1. first \in Int /\ b[1] \in Int /\ first <= b[1] /\ b[1] <= first
    BY <1>2, <1>3
  <2> QED
    BY <2>1
<1>6. byte = b
  <2>1. byte[1] \in Int /\ (b[1] < byte[1] \/ byte = b)
    BY <1>1, <1>4
  <2> QED
    BY <1>4, <2>1
<1> QED
  BY <1>5, <1>6 DEF places, first, byte, Min

\* The largest place of a series.
LEMMA SeriesMax ==
  ASSUME NEW first \in Nat, NEW gap \in Nat \ {0}, NEW n \in Nat \ {0}
  PROVE  /\ Series(first, gap, n) # {}
         /\ Max(Series(first, gap, n)) = first + (gap * (n - 1))
<1> DEFINE places == Series(first, gap, n)
           top == first + (gap * (n - 1))
           last == CHOOSE x \in places : \A y \in places : x >= y
<1>1. top \in places
  BY DEF Series
<1>2. \A y \in places : y \in Int /\ top >= y
  <2> SUFFICES ASSUME NEW k \in 0 .. n - 1
               PROVE  first + (gap * k) \in Int /\ top >= first + (gap * k)
    BY DEF Series
  <2>1. gap * k \in Int /\ gap * (n - 1) \in Int
    OBVIOUS
  <2>2. gap * k <= gap * (n - 1)
    OBVIOUS
  <2> QED
    BY <2>1, <2>2
<1>3. last \in places /\ \A y \in places : last >= y
  BY <1>1, <1>2
<1> HIDE DEF places, top, last
<1>4. last = top
  <2>1. last \in Int /\ top \in Int /\ last >= top /\ top >= last
    BY <1>1, <1>2, <1>3
  <2> QED
    BY <2>1
<1> QED
  BY <1>1, <1>4 DEF places, top, last, Max

\* The place and the number of a pulse of a series.
LEMMA SeriesIndex ==
  ASSUME NEW first \in Nat, NEW gap \in Nat \ {0}, NEW k \in Nat
  PROVE  ((first + (gap * k)) - first) \div gap = k
<1> DEFINE q == gap * k
<1>1. q \in Int /\ (first + q) - first = q
  OBVIOUS
<1>2. q < q + gap
  BY <1>1
<1>3. q \div gap = k
  BY <1>1, <1>2, DivisionIsUnique
<1> QED
  BY <1>1, <1>3

\* The first and the last byte of a frame of a regular pattern.
LEMMA RegularBytes ==
  ASSUME NEW first \in Nat, NEW gap \in Nat \ {0}, NEW n \in Nat \ {0},
         NEW m \in {0} \cup Channels
  PROVE  /\ IsFirst(<<first, Rotate(m)>>, RegularFrame(first, gap, n, m))
         /\ IsLast(<<first + (gap * (n - 1)), Rotated(m, n)>>,
                   RegularFrame(first, gap, n, m))
         /\ \A b \in RegularFrame(first, gap, n, m) :
              b[1] \in first .. first + (gap * (n - 1)) /\ b[2] \in Channels
<1> DEFINE bytes == {<<q, Rotated(m, 1 + ((q - first) \div gap))>> :
                        q \in Series(first, gap, n)}
           Byte(k) == <<first + (gap * k), Rotated(m, 1 + k)>>
<1>0. \A k \in 0 .. n - 1 : ((first + (gap * k)) - first) \div gap = k
  BY SeriesIndex
<1>1. ASSUME NEW b \in bytes PROVE \E k \in 0 .. n - 1 : b = Byte(k)
  <2>1. PICK q \in Series(first, gap, n) :
               b = <<q, Rotated(m, 1 + ((q - first) \div gap))>>
    OBVIOUS
  <2>2. PICK k \in 0 .. n - 1 : q = first + (gap * k)
    BY DEF Series
  <2>3. (q - first) \div gap = k
    BY <1>0, <2>2
  <2> QED
    BY <2>1, <2>2, <2>3
<1>2. ASSUME NEW k \in 0 .. n - 1 PROVE Byte(k) \in bytes
  <2>1. PICK q \in Series(first, gap, n) : q = first + (gap * k)
    BY DEF Series
  <2>2. (q - first) \div gap = k
    BY <1>0, <2>1
  <2>3. Byte(k) = <<q, Rotated(m, 1 + ((q - first) \div gap))>>
    BY <2>1, <2>2
  <2> QED
    BY <2>3
<1>3. \A k \in 0 .. n - 1 : /\ Byte(k)[1] = first + (gap * k)
                            /\ Byte(k)[2] = Rotated(m, 1 + k)
  OBVIOUS
<1>4. \A k \in 0 .. n - 1 : Rotated(m, 1 + k) \in Channels
  BY RotatedRotates
<1>5. Byte(0) = <<first, Rotate(m)>>
  <2>1. Rotated(m, 1 + 0) = Rotate(m) /\ first + (gap * 0) = first
    BY RotatedRotates
  <2> QED
    BY <2>1
<1>6. Byte(n - 1) = <<first + (gap * (n - 1)), Rotated(m, n)>>
  <2>1. 1 + (n - 1) = n
    OBVIOUS
  <2> QED
    BY <2>1
<1>7. \A j, k \in 0 .. n - 1 : j < k => first + (gap * j) < first + (gap * k)
  <2> SUFFICES ASSUME NEW j \in 0 .. n - 1, NEW k \in 0 .. n - 1, j < k
               PROVE  first + (gap * j) < first + (gap * k)
    OBVIOUS
  <2>1. gap * j \in Int /\ gap * k \in Int /\ (gap * j) + gap <= gap * k
    BY FactorsInOrder
  <2> QED
    BY <2>1
<1>8. \A k \in 0 .. n - 1 : gap * k \in Nat
  OBVIOUS
<1> HIDE DEF bytes, Byte
<1>9. 0 \in 0 .. n - 1 /\ n - 1 \in 0 .. n - 1
  OBVIOUS
<1>10. IsFirst(Byte(0), bytes)
  <2> SUFFICES ASSUME NEW b \in bytes, b # Byte(0) PROVE Byte(0)[1] < b[1]
    BY <1>2, <1>9 DEF IsFirst
  <2>1. PICK k \in 0 .. n - 1 : b = Byte(k)
    BY <1>1
  <2>2. 0 < k
    BY <2>1
  <2> QED
    BY <1>3, <1>7, <1>9, <2>1, <2>2
<1>11. IsLast(Byte(n - 1), bytes)
  <2> SUFFICES ASSUME NEW b \in bytes, b # Byte(n - 1) PROVE b[1] < Byte(n - 1)[1]
    BY <1>2, <1>9 DEF IsLast
  <2>1. PICK k \in 0 .. n - 1 : b = Byte(k)
    BY <1>1
  <2>2. k < n - 1
    BY <2>1
  <2> QED
    BY <1>3, <1>7, <1>9, <2>1, <2>2
<1>12. ASSUME NEW b \in bytes
       PROVE  b[1] \in first .. first + (gap * (n - 1)) /\ b[2] \in Channels
  <2>1. PICK k \in 0 .. n - 1 : b = Byte(k)
    BY <1>1
  <2>2. b[1] = first + (gap * k) /\ b[2] = Rotated(m, 1 + k)
    BY <1>3, <2>1
  <2>3. gap * k \in Nat /\ gap * (n - 1) \in Nat
    BY <1>8, <1>9
  <2>4. k = n - 1 \/ first + (gap * k) < first + (gap * (n - 1))
    BY <1>7, <1>9
  <2> QED
    BY <1>4, <2>2, <2>3, <2>4
<1>13. bytes = RegularFrame(first, gap, n, m)
  BY DEF bytes, RegularFrame
<1> QED
  BY <1>5, <1>6, <1>10, <1>11, <1>12, <1>13

\* Those of a frame of walking, and how many bytes it has.
LEMMA WalkBytes ==
  ASSUME NEW first \in Nat, NEW gap \in Nat \ {0}, gap >= 3, NEW n \in Nat \ {0},
         NEW m \in {0} \cup Channels
  PROVE  /\ IsFirst(<<first, Rotate(m)>>, WalkFrame(first, gap, n, m))
         /\ IsLast(<<(first + (gap * (n - 1))) + 2, Rotated(m, n)>>,
                   WalkFrame(first, gap, n, m))
         /\ \A b \in WalkFrame(first, gap, n, m) :
              b[1] \in first .. (first + (gap * (n - 1))) + 2 /\ b[2] \in Channels
         /\ Cardinality(WalkFrame(first, gap, n, m)) = 3 * n
<1> DEFINE At(q, k) == <<q + k, Rotated(m, 1 + ((q - first) \div gap))>>
           bytes == {At(q, k) : q \in Series(first, gap, n), k \in 0 .. 2}
           Byte(j, k) == <<(first + (gap * j)) + k, Rotated(m, 1 + j)>>
           f == [x \in (0 .. n - 1) \X (0 .. 2) |-> Byte(x[1], x[2])]
<1>0. \A k \in 0 .. n - 1 : ((first + (gap * k)) - first) \div gap = k
  BY SeriesIndex
<1>1. ASSUME NEW b \in bytes PROVE \E j \in 0 .. n - 1, k \in 0 .. 2 : b = Byte(j, k)
  <2>1. PICK q \in Series(first, gap, n), k \in 0 .. 2 :
               b = <<q + k, Rotated(m, 1 + ((q - first) \div gap))>>
    OBVIOUS
  <2> HIDE DEF bytes, f
  <2>2. PICK j \in 0 .. n - 1 : q = first + (gap * j)
    BY DEF Series
  <2>3. (q - first) \div gap = j
    BY <1>0, <2>2
  <2>4. b = Byte(j, k)
    BY <2>1, <2>2, <2>3
  <2> QED
    BY <2>4
<1>2. ASSUME NEW j \in 0 .. n - 1, NEW k \in 0 .. 2 PROVE Byte(j, k) \in bytes
  <2>1. PICK q \in Series(first, gap, n) : q = first + (gap * j)
    BY DEF Series
  <2>2. (q - first) \div gap = j
    BY <1>0, <2>1
  <2>3. Byte(j, k) = At(q, k)
    BY <2>1, <2>2
  <2> HIDE DEF f, Byte, At
  <2> QED
    BY <2>3
<1>3. \A j \in 0 .. n - 1, k \in 0 .. 2 :
        Byte(j, k)[1] = (first + (gap * j)) + k /\ Byte(j, k)[2] = Rotated(m, 1 + j)
  OBVIOUS
<1>4. \A j \in 0 .. n - 1 : Rotated(m, 1 + j) \in Channels
  BY RotatedRotates
<1>5. Byte(0, 0) = <<first, Rotate(m)>>
  <2>1. Rotated(m, 1 + 0) = Rotate(m) /\ (first + (gap * 0)) + 0 = first
    BY RotatedRotates
  <2> QED
    BY <2>1
<1>6. Byte(n - 1, 2) = <<(first + (gap * (n - 1))) + 2, Rotated(m, n)>>
  <2>1. 1 + (n - 1) = n
    OBVIOUS
  <2> QED
    BY <2>1
<1>7. \A i, j \in 0 .. n - 1 : i < j => (gap * i) + 3 <= gap * j
  <2> SUFFICES ASSUME NEW i \in 0 .. n - 1, NEW j \in 0 .. n - 1, i < j
               PROVE  (gap * i) + 3 <= gap * j
    OBVIOUS
  <2>1. gap * i \in Int /\ gap * j \in Int /\ (gap * i) + gap <= gap * j
    BY FactorsInOrder
  <2> QED
    BY <2>1
<1>8. \A j \in 0 .. n - 1 : gap * j \in Nat
  OBVIOUS
<1>9. 0 \in 0 .. n - 1 /\ n - 1 \in 0 .. n - 1 /\ 0 \in 0 .. 2 /\ 2 \in 0 .. 2
  OBVIOUS
<1>10. f \in Bijection((0 .. n - 1) \X (0 .. 2), bytes)
  <2>1. f \in [(0 .. n - 1) \X (0 .. 2) -> bytes]
    BY <1>2
  <2>2. ASSUME NEW x \in (0 .. n - 1) \X (0 .. 2),
               NEW y \in (0 .. n - 1) \X (0 .. 2), f[x] = f[y]
        PROVE  x = y
    <3>1. PICK i \in 0 .. n - 1, k \in 0 .. 2 : x = <<i, k>>
      OBVIOUS
    <3>2. PICK j \in 0 .. n - 1, l \in 0 .. 2 : y = <<j, l>>
      OBVIOUS
    <3>3. f[x] = Byte(i, k) /\ f[y] = Byte(j, l)
      BY <3>1, <3>2
    <3>4. (first + (gap * i)) + k = (first + (gap * j)) + l
      BY <2>2, <3>3
    <3>5. gap * i \in Nat /\ gap * j \in Nat
      BY <1>8
    <3> HIDE DEF f, bytes, Byte
    <3>6. (gap * i) + k = (gap * j) + l
      BY <3>4, <3>5
    <3>7. ~(i < j) /\ ~(j < i)
      BY <1>7, <3>5, <3>6
    <3>8. i = j
      BY <3>7
    <3>9. k = l
      BY <3>5, <3>6, <3>8
    <3> QED
      BY <3>1, <3>2, <3>8, <3>9
  <2>3. ASSUME NEW b \in bytes
        PROVE  \E x \in (0 .. n - 1) \X (0 .. 2) : f[x] = b
    <3>1. PICK j \in 0 .. n - 1, k \in 0 .. 2 : b = Byte(j, k)
      BY <1>1
    <3> HIDE DEF bytes, Byte
    <3>2. <<j, k>> \in (0 .. n - 1) \X (0 .. 2)
      BY Zenon
    <3>3. f[<<j, k>>] = Byte(j, k)
      BY <3>2
    <3> HIDE DEF f
    <3> QED
      BY <3>1, <3>2, <3>3, Zenon
  <2> HIDE DEF f, bytes
  <2> QED
    BY <2>1, <2>2, <2>3, Fun_IsBij
<1> HIDE DEF bytes, Byte, f
<1>11. Cardinality(bytes) = 3 * n
  <2>1. /\ IsFiniteSet(0 .. n - 1)
        /\ Cardinality(0 .. n - 1) = IF 0 > n - 1 THEN 0 ELSE (n - 1) - 0 + 1
    BY FS_Interval
  <2>2. IsFiniteSet(0 .. 2) /\ Cardinality(0 .. 2) = 3
    <3>1. PICK two \in Int : two = 2
      OBVIOUS
    <3>2. /\ IsFiniteSet(0 .. two)
          /\ Cardinality(0 .. two) = IF 0 > two THEN 0 ELSE two - 0 + 1
      BY FS_Interval
    <3> QED
      BY <3>1, <3>2
  <2>3. Cardinality(0 .. n - 1) = n /\ Cardinality(0 .. 2) = 3
    BY <2>1, <2>2
  <2>4. /\ IsFiniteSet((0 .. n - 1) \X (0 .. 2))
        /\ Cardinality((0 .. n - 1) \X (0 .. 2)) = n * 3
    BY <2>1, <2>2, <2>3, FS_Product
  <2>5. ExistsBijection((0 .. n - 1) \X (0 .. 2), bytes)
    BY <1>10 DEF ExistsBijection
  <2>6. Cardinality(bytes) = n * 3
    BY <2>4, <2>5, FS_Bijection
  <2> QED
    BY <2>6
<1>12. IsFirst(Byte(0, 0), bytes)
  <2> SUFFICES ASSUME NEW b \in bytes, b # Byte(0, 0) PROVE Byte(0, 0)[1] < b[1]
    BY <1>2, <1>9 DEF IsFirst
  <2>1. PICK j \in 0 .. n - 1, k \in 0 .. 2 : b = Byte(j, k)
    BY <1>1
  <2>2. b[1] = (first + (gap * j)) + k
    BY <1>3, <2>1
  <2>3. Byte(0, 0)[1] = (first + (gap * 0)) + 0
    BY <1>3, <1>9
  <2>4. gap * j \in Nat /\ gap * 0 = 0
    BY <1>8
  <2>5. j = 0 \/ (gap * 0) + 3 <= gap * j
    BY <1>7, <1>9
  <2>6. j = 0 => 0 < k
    BY <2>1
  <2> QED
    BY <2>2, <2>3, <2>4, <2>5, <2>6
<1>13. IsLast(Byte(n - 1, 2), bytes)
  <2> SUFFICES ASSUME NEW b \in bytes, b # Byte(n - 1, 2)
               PROVE  b[1] < Byte(n - 1, 2)[1]
    BY <1>2, <1>9 DEF IsLast
  <2>1. PICK j \in 0 .. n - 1, k \in 0 .. 2 : b = Byte(j, k)
    BY <1>1
  <2>2. b[1] = (first + (gap * j)) + k
    BY <1>3, <2>1
  <2>3. Byte(n - 1, 2)[1] = (first + (gap * (n - 1))) + 2
    BY <1>3, <1>9
  <2>4. gap * j \in Nat /\ gap * (n - 1) \in Nat
    BY <1>8, <1>9
  <2>5. j = n - 1 \/ (gap * j) + 3 <= gap * (n - 1)
    BY <1>7, <1>9
  <2>6. j = n - 1 => k < 2
    BY <2>1
  <2> QED
    BY <2>2, <2>3, <2>4, <2>5, <2>6
<1>14. ASSUME NEW b \in bytes
       PROVE  b[1] \in first .. (first + (gap * (n - 1))) + 2 /\ b[2] \in Channels
  <2>1. PICK j \in 0 .. n - 1, k \in 0 .. 2 : b = Byte(j, k)
    BY <1>1
  <2>2. b[1] = (first + (gap * j)) + k /\ b[2] = Rotated(m, 1 + j)
    BY <1>3, <2>1
  <2>3. gap * j \in Nat /\ gap * (n - 1) \in Nat
    BY <1>8, <1>9
  <2>4. j = n - 1 \/ (gap * j) + 3 <= gap * (n - 1)
    BY <1>7, <1>9
  <2> QED
    BY <1>4, <2>2, <2>3, <2>4
<1>15. bytes = WalkFrame(first, gap, n, m)
  BY DEF bytes, At, WalkFrame
<1> QED
  BY <1>5, <1>6, <1>11, <1>12, <1>13, <1>14, <1>15

-----------------------------------------------------------------------------
(***************************************************************************)
(* The steps.                                                              *)
(***************************************************************************)
LEMMA Parameters ==
  /\ SlowGap \in 1 .. 255 /\ MediumGap \in 1 .. 255
  /\ WalkDistance \in Nat \ {0} /\ WalkStep \in Nat \ {0}
  /\ EventsPerPosition \in Nat \ {0} /\ TargetCounts \in Nat \ {0}
  BY GapAssumption, WalkAssumption

LEMMA FrameLength == ASSUME TypeOK PROVE generator \in Names /\ Len \in Nat \ {0}
  BY GeneratorAssumption, LengthAssumption DEF TypeOK, Len

\* A pulse of a channel is inside the seven bits.
LEMMA Drawn ==
  ASSUME TypeOK, generator' = generator, filled' \in BOOLEAN,
         \A b \in frame' : b[1] \in 0 .. Len - 1 /\ b[2] \in 1 .. 127,
         mask' \in 0 .. 2 ^ 25, count' \in 0 .. 255, walker' \in Nat,
         wcounts' \in Nat, drawn' \in [Pulses -> Nat]
  PROVE  TypeOK' /\ OnlySevenBits'
<1>1. Len' = Len
  BY DEF Len
<1>2. \A b \in frame' : /\ b[1] \in 0 .. Len' - 1 /\ b[2] \in 1 .. 255
                        /\ ~(b[2] >= 128)
  BY <1>1
<1> QED
  BY <1>2 DEF TypeOK, OnlySevenBits

\* The observer counts.
LEMMA DrawnCounts ==
  ASSUME TypeOK, Generate
  PROVE  drawn' \in [Pulses -> Nat]
<1>1. drawn \in [Pulses -> Nat]
  BY DEF TypeOK
<1>2. CASE generator = "bin_walk"
  <2>1. drawn' = [p \in Pulses |-> IF p \in frame' THEN drawn[p] + 1 ELSE drawn[p]]
    BY <1>2 DEF Generate
  <2> QED
    BY <1>1, <2>1
<1>3. CASE generator # "bin_walk"
  BY <1>1, <1>3 DEF Generate
<1> QED
  BY <1>2, <1>3

\* The generators that are not called in the order of their pulses.
LEMMA NoOrder ==
  ASSUME ~InOrder, generator' = generator
  PROVE  WholePulses' /\ InStep' /\ FollowsOn
  BY DEF InOrder, WholePulses, InStep, FollowsOn

LEMMA Masks ==
  /\ \A m \in {0} \cup Channels : m \in 0 .. 2 ^ 25
  /\ \A m \in 0 .. 2 ^ 25 : m \div 2 \in 0 .. 2 ^ 25
<1>1. PICK top \in Nat : top = 2 ^ 25 /\ top > 127
  BY TopBit
<1>2. \A m \in {0} \cup Channels : m \in 0 .. top
  BY <1>1 DEF Channels
<1>3. \A m \in 0 .. top : m \div 2 \in 0 .. top
  OBVIOUS
<1> QED
  BY <1>1, <1>2, <1>3

\* The steps of the generators without an order.
LEMMA PlainSteps ==
  ASSUME Inv, Generate, ~InOrder
  PROVE  Inv' /\ FollowsOn
<1>0. TypeOK /\ OnlySevenBits /\ StaticsInv
  BY DEF Inv
<1>1. WholePulses' /\ InStep' /\ FollowsOn
  BY NoOrder DEF Generate
<1>2. generator' = generator /\ filled' \in BOOLEAN /\ Len' = Len
  BY DEF Generate, Len
<1>3. /\ Len \in Nat \ {0} /\ mask \in 0 .. 2 ^ 25 /\ count \in 0 .. 255
      /\ walker \in Nat /\ wcounts \in Nat
  BY <1>0, FrameLength DEF TypeOK
<1>11. drawn' \in [Pulses -> Nat]
  BY <1>0, DrawnCounts
<1>4. ASSUME UNCHANGED statics, generator # "binary" PROVE StaticsInv'
  BY <1>0, <1>2, <1>4 DEF StaticsInv, statics
<1>5. CASE generator = "null" /\ Null
  <2>1. frame' = {} /\ UNCHANGED statics
    BY <1>5 DEF Null
  <2>2. TypeOK' /\ OnlySevenBits'
    BY <1>0, <1>2, <1>3, <2>1, <1>11, Drawn DEF statics
  <2> QED
    BY <1>1, <1>4, <1>5, <2>1, <2>2 DEF Inv
<1>6. CASE generator = "stupid1" /\ Stupid1
  <2>1. frame' = {<<k, 2 ^ (7 - k)>> : k \in 0 .. 7} /\ UNCHANGED statics
    BY <1>6 DEF Stupid1
  <2>2. Len >= 8
    BY <1>6, PlacesAssumption DEF Len
  <2>3. ASSUME NEW b \in frame'
        PROVE  /\ b[1] \in 0 .. Len - 1 /\ b[2] \in 1 .. 255
               /\ b[2] >= 128 => b[1] < 2
    <3>1. PICK k \in 0 .. 7 : b = <<k, 2 ^ (7 - k)>>
      BY <2>1
    <3>2. PICK v : v = 2 ^ (7 - k)
      OBVIOUS
    <3>3. v \in 1 .. 255 /\ (v >= 128 => k < 2)
      BY <3>2, Bits
    <3>4. b[1] = k /\ b[2] = v
      BY <3>1, <3>2
    <3> QED
      BY <1>3, <2>2, <3>3, <3>4
  <2>4. TypeOK'
    BY <1>0, <1>2, <1>11, <2>1, <2>3 DEF TypeOK, statics
  <2>5. OnlySevenBits'
    BY <1>2, <1>6, <2>3 DEF OnlySevenBits
  <2> QED
    BY <1>1, <1>4, <1>6, <2>1, <2>4, <2>5 DEF Inv
<1>7. CASE generator = "stupid2" /\ Stupid2
  <2> DEFINE m == IF mask = 0 THEN 2 ^ 25 ELSE mask
  <2>1. /\ frame' = IF m < 128 THEN {<<Len \div 2, m>>} ELSE {}
        /\ mask' = m \div 2 /\ UNCHANGED <<count, walker, wcounts>>
    BY <1>7 DEF Stupid2
  <2>2. m \in 0 .. 2 ^ 25 /\ m # 0
    <3>1. 2 ^ 25 \in 0 .. 2 ^ 25 /\ 2 ^ 25 # 0
      BY TopBit
    <3> QED
      BY <1>3, <3>1
  <2> HIDE DEF m
  <2>3. mask' \in 0 .. 2 ^ 25
    BY <2>1, <2>2, Masks
  <2>4. m \in Nat \ {0}
    BY <2>2, TopBit
  <2>5. Len \div 2 \in 0 .. Len - 1
    BY <1>3
  <2>6. \A b \in frame' : b[1] \in 0 .. Len - 1 /\ b[2] \in 1 .. 127
    BY <2>1, <2>4, <2>5
  <2>7. TypeOK' /\ OnlySevenBits'
    BY <1>0, <1>2, <1>3, <2>1, <2>3, <2>6, <1>11, Drawn
  <2>8. StaticsInv'
    BY <1>0, <1>2, <1>7, <2>1 DEF StaticsInv
  <2> QED
    BY <1>1, <2>7, <2>8 DEF Inv
<1>8. CASE generator = "stupid3" /\ Stupid3
  <2>1. frame' = {<<1, 128>>, <<3, 127>>} /\ UNCHANGED statics
    BY <1>8 DEF Stupid3
  <2>2. Len >= 4
    BY <1>8, PlacesAssumption DEF Len
  <2>3. \A b \in frame' : /\ b[1] \in 0 .. Len - 1 /\ b[2] \in 1 .. 255
                          /\ b[2] >= 128 => b[1] < 2
    BY <1>3, <2>1, <2>2
  <2>4. TypeOK'
    BY <1>0, <1>2, <1>11, <2>1, <2>3 DEF TypeOK, statics
  <2>5. OnlySevenBits'
    BY <1>2, <1>8, <2>3 DEF OnlySevenBits
  <2> QED
    BY <1>1, <1>4, <1>8, <2>1, <2>4, <2>5 DEF Inv
<1>9. CASE generator = "binary" /\ Binary
  <2>1. Len % 256 = 0 /\ frame = {}
    BY <1>0, <1>9, PlacesAssumption DEF Len, StaticsInv
  <2>2. frame' = {} /\ UNCHANGED statics
    BY <1>9, <2>1 DEF Binary
  <2>3. TypeOK' /\ OnlySevenBits'
    BY <1>0, <1>2, <1>3, <2>2, <1>11, Drawn DEF statics
  <2>4. StaticsInv'
    BY <1>0, <1>2, <1>9, <2>2 DEF StaticsInv, statics
  <2> QED
    BY <1>1, <2>3, <2>4 DEF Inv
<1>10. CASE generator = "bin_walk" /\ BinWalking
  <2>1. CASE walker >= Len
    <3>1. frame' = {} /\ UNCHANGED statics
      BY <1>10, <2>1 DEF BinWalking
    <3>2. TypeOK' /\ OnlySevenBits'
      BY <1>0, <1>2, <1>3, <3>1, <1>11, Drawn DEF statics
    <3> QED
      BY <1>1, <1>4, <1>10, <3>1, <3>2 DEF Inv
  <2>2. CASE ~(walker >= Len)
    <3>1. /\ frame' = IF mask = 0 THEN {} ELSE {<<walker, mask>>}
          /\ \/ mask' \in {mask, 64}
             \/ mask' = mask \div 2 /\ mask \div 2 # 0
          /\ wcounts' \in {0, wcounts + 1}
          /\ walker' \in {walker, Advanced}
          /\ count' = count
      BY <1>10, <2>2 DEF BinWalking
    <3>2. mask \in {0} \cup Channels
      BY <1>0, <1>10 DEF StaticsInv
    <3>3. mask' \in {0} \cup Channels
      <4>1. mask \div 2 # 0 => mask \div 2 \in Channels
        BY <3>2, Rotation DEF Rotate
      <4> QED
        BY <3>1, <3>2, <4>1 DEF Channels
    <3>4. walker' \in Nat /\ wcounts' \in Nat /\ mask' \in 0 .. 2 ^ 25
      <4>1. Advanced \in Nat /\ wcounts + 1 \in Nat
        BY <1>3 DEF Advanced
      <4>2. walker' \in Nat /\ wcounts' \in Nat
        BY <1>3, <3>1, <4>1
      <4> QED
        BY <3>3, <4>2, Masks
    <3>5. \A b \in frame' : b[1] \in 0 .. Len - 1 /\ b[2] \in 1 .. 127
      <4>1. mask # 0 => mask \in 1 .. 127
        BY <3>2, ChannelValues
      <4>2. walker \in 0 .. Len - 1
        BY <1>3, <2>2
      <4> QED
        BY <3>1, <4>1, <4>2
    <3>6. TypeOK' /\ OnlySevenBits'
      BY <1>0, <1>2, <1>3, <3>1, <3>4, <3>5, <1>11, Drawn
    <3>7. StaticsInv'
      BY <1>0, <1>2, <1>10, <3>1, <3>3 DEF StaticsInv
    <3> QED
      BY <1>1, <3>6, <3>7 DEF Inv
  <2> QED
    BY <2>1, <2>2
<1> QED
  BY <1>5, <1>6, <1>7, <1>8, <1>9, <1>10 DEF Generate, InOrder

LEMMA GoesOn ==
  ASSUME TypeOK, TypeOK', InStep, generator' = generator,
         NEW a, IsFirst(a, frame'), a[2] = Rotate(mask),
         generator # "walking" => a[1] = count
  PROVE  FollowsOn
<1> SUFFICES ASSUME InOrder, frame # {}
             PROVE  /\ ChannelAt(Min(Places))' = Rotate(ChannelAt(Max(Places)))
                    /\ generator # "walking"
                         => Len + Min(Places)' - Max(Places) = GapOf
  BY DEF FollowsOn
<1>1. PICK b \in frame : /\ IsLast(b, frame) /\ b[2] = mask
                         /\ generator # "walking" => (Len + count) - b[1] = GapOf
  BY DEF InStep
<1>2. \A x \in frame : x[1] \in Int
  BY FrameLength DEF TypeOK
<1>3. /\ \A x \in frame' : x[1] \in Int
      /\ Len' = Len
  <2>1. Len' = Len /\ Len \in Nat
    BY FrameLength DEF Len
  <2>2. \A x \in frame' : x[1] \in 0 .. Len' - 1
    BY DEF TypeOK
  <2> QED
    BY <2>1, <2>2
<1>4. Max(Places) = b[1] /\ ChannelAt(b[1]) = mask
  <2>1. /\ Max({x[1] : x \in frame}) = b[1]
        /\ (CHOOSE x \in frame : x[1] = b[1])[2] = b[2]
    BY <1>1, <1>2, LastByte
  <2> QED
    BY <1>1, <2>1 DEF Places, ChannelAt
<1>5. Min(Places)' = a[1] /\ ChannelAt(Min(Places))' = a[2]
  <2>1. /\ Min({x[1] : x \in frame'}) = a[1]
        /\ (CHOOSE x \in frame' : x[1] = a[1])[2] = a[2]
    BY <1>3, FirstByte
  <2> QED
    BY <2>1 DEF Places, ChannelAt
<1>6. ASSUME generator # "walking"
      PROVE  Len + Min(Places)' - Max(Places) = GapOf
  <2>1. Len \in Int /\ count \in Int /\ b[1] \in Int
    BY <1>2, FrameLength DEF TypeOK
  <2>2. (Len + count) - b[1] = GapOf /\ a[1] = count
    BY <1>1, <1>6
  <2>3. Len + count - b[1] = GapOf
    BY <2>1, <2>2
  <2>4. Min(Places)' = count /\ Max(Places) = b[1]
    BY <1>4, <1>5, <2>2
  <2> QED
    BY <2>3, <2>4
<1> QED
  BY <1>4, <1>5, <1>6

\* slow_reg and med_reg.
LEMMA RegularStep ==
  ASSUME Inv, generator' = generator, filled' \in BOOLEAN,
         drawn' \in [Pulses -> Nat],
         generator \in {"slow_reg", "med_reg"},
         NEW gap \in 1 .. 255, gap = GapOf, Regular(gap)
  PROVE  Inv' /\ FollowsOn
<1>0. TypeOK /\ StaticsInv /\ InStep
  BY DEF Inv
<1>1. /\ Len \in Nat \ {0} /\ count \in 0 .. 255 /\ walker \in Nat /\ wcounts \in Nat
      /\ mask \in {0} \cup Channels /\ gap \in Nat \ {0}
  BY <1>0, FrameLength DEF TypeOK, StaticsInv
<1>2. /\ frame' = {<<q, Rotated(mask, 1 + ((q - count) \div gap))>> : q \in Beats(gap)}
      /\ mask' = Rotated(mask, Cardinality(Beats(gap)))
      /\ count' = Carry(gap)
      /\ walker' = walker /\ wcounts' = wcounts
  BY DEF Regular
<1>3. /\ Len' = Len /\ GapOf' = GapOf /\ WholePulses'
      /\ generator' # "walking" /\ generator' # "binary"
  BY DEF Len, GapOf, WholePulses
<1>4. CASE count >= Len
  <2>1. (Len - 1 - count) \div gap < 0
    BY <1>1, <1>4, SeriesOutside
  <2>2. Beats(gap) = {}
    <3>0. Len - 1 - count \in Int
      BY <1>1
    <3>1. PICK e \in Int : e = (Len - 1 - count) \div gap
      BY <1>1, <3>0, Divided
    <3>2. 0 .. e = {}
      BY <2>1, <3>1
    <3> QED
      BY <3>1, <3>2 DEF Beats
  <2>3. frame' = {} /\ mask' = mask /\ count' = count - Len
    <3>1. Cardinality({}) = 0
      BY FS_EmptySet
    <3>2. Rotated(mask, 0) = mask
      BY <1>1, RotatedRotates
    <3> QED
      BY <1>2, <2>2, <3>1, <3>2 DEF Carry
  <2>4. count' \in 0 .. 255
    BY <1>1, <1>4, <2>3
  <2>5. mask' \in 0 .. 2 ^ 25
    BY <1>1, <2>3, Masks
  <2>6. TypeOK' /\ OnlySevenBits'
    BY <1>0, <1>1, <1>2, <2>3, <2>4, <2>5, Drawn
  <2>7. StaticsInv'
    BY <1>1, <1>3, <2>3 DEF StaticsInv
  <2>8. InStep' /\ FollowsOn
    BY <2>3 DEF InStep, FollowsOn
  <2> QED
    BY <1>3, <2>6, <2>7, <2>8 DEF Inv
<1>5. CASE count < Len
  <2> DEFINE n == 1 + ((Len - 1 - count) \div gap)
             top == count + (gap * (n - 1))
             first == <<count, Rotate(mask)>>
             last == <<top, Rotated(mask, n)>>
  <2>1. /\ n \in Nat \ {0} /\ top < Len /\ Len <= count + (gap * n)
        /\ n - 1 = (Len - 1 - count) \div gap
    <3>1. /\ n \in Nat \ {0} /\ count + (gap * (n - 1)) < Len
          /\ Len <= count + (gap * n)
      BY <1>1, <1>5, SeriesOfFrame
    <3>2. (Len - 1 - count) \div gap \in Int
      BY <1>1, Divided
    <3> QED
      BY <3>1, <3>2
  <2>2. Beats(gap) = Series(count, gap, n)
    BY <2>1, Zenon DEF Beats, Series
  <2> HIDE DEF n
  <2>0. count \in Nat /\ gap \in Nat \ {0} /\ n \in Nat \ {0} /\ n \in Nat
    BY <1>1, <2>1
  <2>3. Cardinality(Beats(gap)) = n /\ Beats(gap) # {} /\ Max(Beats(gap)) = top
    <3>1. Cardinality(Series(count, gap, n)) = n
      BY <2>0, SeriesSize
    <3>2. Series(count, gap, n) # {} /\ Max(Series(count, gap, n)) = top
      BY <2>0, SeriesMax
    <3> QED
      BY <2>2, <3>1, <3>2
  <2>4. /\ IsFirst(first, frame') /\ IsLast(last, frame')
        /\ \A b \in frame' : b[1] \in count .. top /\ b[2] \in Channels
    <3>1. frame' = RegularFrame(count, gap, n, mask)
      BY <1>2, <2>2 DEF RegularFrame
    <3>2. /\ IsFirst(first, RegularFrame(count, gap, n, mask))
          /\ IsLast(last, RegularFrame(count, gap, n, mask))
          /\ \A b \in RegularFrame(count, gap, n, mask) :
               b[1] \in count .. top /\ b[2] \in Channels
      BY <1>1, <2>0, RegularBytes
    <3> QED
      BY <3>1, <3>2, Zenon
  <2>5. mask' = Rotated(mask, n) /\ mask' \in Channels
    BY <1>1, <1>2, <2>1, <2>3, RotatedRotates
  <2>6. gap * n = (gap * (n - 1)) + gap /\ gap * (n - 1) \in Nat
    BY <1>1, <2>1
  <2>7. top \in Nat /\ Len <= top + gap
    BY <1>1, <2>1, <2>6
  <2> HIDE DEF top
  <2>8. count' = (top + gap) - Len /\ count' \in 0 .. 255
    BY <1>1, <1>2, <2>1, <2>3, <2>7 DEF Carry
  <2>9. \A b \in frame' : b[1] \in 0 .. Len - 1 /\ b[2] \in 1 .. 127
    BY <1>1, <2>1, <2>4, <2>7, ChannelValues
  <2>10. mask' \in 0 .. 2 ^ 25
    BY <2>5, Masks
  <2>11. TypeOK' /\ OnlySevenBits'
    BY <1>0, <1>1, <1>2, <2>8, <2>9, <2>10, Drawn
  <2>12. StaticsInv'
    BY <1>3, <2>5 DEF StaticsInv
  <2>13. InStep'
    <3>1. last \in frame' /\ last[2] = mask' /\ last[1] = top
      BY <2>4, <2>5 DEF IsLast
    <3>2. (Len + count') - top = gap
      BY <1>1, <2>7, <2>8
    <3>3. (Len' + count') - last[1] = GapOf'
      BY <1>3, <3>1, <3>2
    <3> QED
      BY <2>4, <3>1, <3>3 DEF InStep
  <2>14. FollowsOn
    <3>1. first[1] = count /\ first[2] = Rotate(mask)
      OBVIOUS
    <3> QED
      BY <1>0, <2>4, <2>11, <3>1, GoesOn
  <2> QED
    BY <1>3, <2>11, <2>12, <2>13, <2>14 DEF Inv
<1> QED
  BY <1>1, <1>4, <1>5

\* fast_reg: a series without a gap.
LEMMA FastStep ==
  ASSUME Inv, generator' = generator, filled' \in BOOLEAN,
         drawn' \in [Pulses -> Nat],
         generator = "fast_reg", FastRegular
  PROVE  Inv' /\ FollowsOn
<1>0. TypeOK /\ StaticsInv /\ InStep
  BY DEF Inv
<1>1. /\ Len \in Nat \ {0} /\ count = 0 /\ walker \in Nat /\ wcounts \in Nat
      /\ mask \in {0} \cup Channels
  BY <1>0, FrameLength DEF TypeOK, StaticsInv
<1>2. /\ frame' = {<<q, Rotated(mask, 1 + q)>> : q \in 0 .. Len - 1}
      /\ mask' = Rotated(mask, Len)
      /\ count' = count /\ walker' = walker /\ wcounts' = wcounts
  BY DEF FastRegular
<1>3. /\ Len' = Len /\ GapOf' = 1 /\ WholePulses'
      /\ generator' # "walking" /\ generator' # "binary"
  BY DEF Len, GapOf, WholePulses
<1>4. Series(0, 1, Len) = 0 .. Len - 1
  BY <1>1 DEF Series
<1>5. \A q \in 0 .. Len - 1 : (q - 0) \div 1 = q
  OBVIOUS
<1> DEFINE top == 0 + (1 * (Len - 1))
           first == <<0, Rotate(mask)>>
           last == <<top, Rotated(mask, Len)>>
<1>6. frame' = RegularFrame(0, 1, Len, mask)
  BY <1>2, <1>4, <1>5 DEF RegularFrame
<1>7. top = Len - 1
  BY <1>1
<1>8. /\ IsFirst(first, RegularFrame(0, 1, Len, mask))
      /\ IsLast(last, RegularFrame(0, 1, Len, mask))
      /\ \A b \in RegularFrame(0, 1, Len, mask) :
           b[1] \in 0 .. top /\ b[2] \in Channels
  <2>1. 0 \in Nat /\ 1 \in Nat \ {0}
    OBVIOUS
  <2> QED
    BY <1>1, <2>1, RegularBytes
<1> HIDE DEF top
<1>9. /\ IsFirst(first, frame') /\ IsLast(last, frame')
      /\ \A b \in frame' : b[1] \in 0 .. Len - 1 /\ b[2] \in 1 .. 127
  BY <1>6, <1>7, <1>8, ChannelValues
<1>10. mask' \in Channels /\ mask' \in 0 .. 2 ^ 25
  <2>1. Len \in Nat /\ Len > 0
    BY <1>1
  <2>2. Rotated(mask, Len) \in Channels
    BY <1>1, <2>1, RotatedRotates
  <2> QED
    BY <1>2, <2>2, Masks
<1>11. TypeOK' /\ OnlySevenBits'
  BY <1>0, <1>1, <1>2, <1>9, <1>10, Drawn
<1>12. StaticsInv'
  BY <1>1, <1>2, <1>3, <1>10 DEF StaticsInv
<1>13. InStep'
  <2>1. last \in frame' /\ last[2] = mask' /\ last[1] = Len - 1
    BY <1>2, <1>7, <1>9 DEF IsLast
  <2>2. (Len + 0) - (Len - 1) = 1
    BY <1>1
  <2>3. (Len' + count') - last[1] = GapOf'
    BY <1>1, <1>2, <1>3, <2>1, <2>2
  <2> QED
    BY <1>9, <2>1, <2>3 DEF InStep
<1>14. FollowsOn
  <2>1. first[1] = count /\ first[2] = Rotate(mask)
    BY <1>1
  <2> QED
    BY <1>0, <1>9, <1>11, <2>1, GoesOn
<1> QED
  BY <1>3, <1>11, <1>12, <1>13, <1>14 DEF Inv

\* The walker goes round in steps that divide the distance of its pulses.
LEMMA WalkerTurns ==
  ASSUME walker \in Nat, walker + WalkStep <= WalkDistance,
         \E j \in Nat : walker = WalkStep * j
  PROVE  /\ Walked \in Nat /\ Walked + WalkStep <= WalkDistance
         /\ \E j \in Nat : Walked = WalkStep * j
<1> DEFINE m == WalkDistance \div WalkStep
<1>1. WalkStep \in Nat \ {0} /\ WalkDistance \in Nat \ {0}
  BY Parameters
<1>2. m \in Int /\ WalkDistance = WalkStep * m
  <2>1. /\ m \in Int
        /\ WalkDistance = (WalkStep * m) + (WalkDistance % WalkStep)
    BY <1>1, Divided
  <2>2. WalkDistance % WalkStep = 0
    BY StepAssumption
  <2>3. WalkStep * m \in Int
    BY <1>1, <2>1
  <2> QED
    BY <2>1, <2>2, <2>3
<1> HIDE DEF m
<1>3. PICK j \in Nat : walker = WalkStep * j
  OBVIOUS
<1>4. walker + WalkStep = WalkStep * (j + 1)
  BY <1>1, <1>3
<1>5. CASE walker + WalkStep >= WalkDistance
  <2>1. walker + WalkStep = WalkDistance /\ Walked = 0
    <3>1. walker + WalkStep = WalkDistance
      BY <1>1, <1>5
    <3>2. Walked = walker + WalkStep - WalkDistance
      BY <1>5 DEF Walked
    <3> QED
      BY <1>1, <3>1, <3>2
  <2>2. 0 \in Nat /\ 0 = WalkStep * 0 /\ 0 + WalkStep <= WalkDistance
    BY <1>1
  <2> QED
    BY <2>1, <2>2
<1>6. CASE ~(walker + WalkStep >= WalkDistance)
  <2>1. Walked = WalkStep * (j + 1) /\ j + 1 \in Nat
    BY <1>4, <1>6 DEF Walked
  <2>2. WalkStep * (j + 1) < WalkStep * m
    BY <1>1, <1>2, <1>4, <1>6
  <2>3. j + 1 < m
    <3>1. SUFFICES ASSUME m <= j + 1 PROVE FALSE
      BY <1>2
    <3>2. WalkStep * (j + 1) \in Int /\ WalkStep * m \in Int
      BY <1>1, <1>2
    <3>3. m = j + 1 \/ (WalkStep * m) + WalkStep <= WalkStep * (j + 1)
      BY <1>1, <1>2, <3>1, FactorsInOrder
    <3> QED
      BY <1>1, <2>2, <3>2, <3>3
  <2>4. (WalkStep * (j + 1)) + WalkStep <= WalkStep * m
    BY <1>1, <1>2, <2>1, <2>3, FactorsInOrder
  <2>5. Walked \in Nat /\ Walked + WalkStep <= WalkDistance
    BY <1>1, <1>2, <2>1, <2>4
  <2> QED
    BY <2>1, <2>5
<1> QED
  BY <1>5, <1>6

LEMMA WalkingStep ==
  ASSUME Inv, generator' = generator, filled' \in BOOLEAN,
         drawn' \in [Pulses -> Nat],
         generator = "walking", Walking
  PROVE  Inv' /\ FollowsOn
<1>0. TypeOK /\ StaticsInv /\ InStep
  BY DEF Inv
<1>1. /\ Len \in Nat \ {0} /\ count = 0 /\ walker \in Nat /\ wcounts \in Nat
      /\ mask \in {0} \cup Channels
      /\ walker + WalkStep <= WalkDistance /\ \E j \in Nat : walker = WalkStep * j
      /\ WalkDistance \in Nat \ {0} /\ WalkStep \in Nat /\ WalkStep >= 3
  BY <1>0, FrameLength, Parameters, StepAssumption DEF TypeOK, StaticsInv
<1>2. /\ frame' = {<<q + k, Rotated(mask, 1 + ((q - walker) \div WalkDistance))>> :
                     q \in Steps, k \in 0 .. 2}
      /\ mask' = Rotated(mask, Cardinality(Steps))
      /\ count' = count
      /\ wcounts' \in {0, wcounts + 1}
      /\ walker' \in {walker, Walked}
  BY DEF Walking
<1>3. Len' = Len /\ generator' = "walking"
  BY DEF Len
<1> DEFINE n == Len \div WalkDistance
           top == (walker + (WalkDistance * (n - 1))) + 2
           first == <<walker, Rotate(mask)>>
           last == <<top, Rotated(mask, n)>>
<1>4. n \in Int /\ Len = WalkDistance * n
  <2>1. n \in Int /\ Len = (WalkDistance * n) + (Len % WalkDistance)
    BY <1>1, Divided
  <2>2. Len % WalkDistance = 0
    BY StepAssumption DEF Len
  <2>3. WalkDistance * n \in Int
    BY <1>1, <2>1
  <2> QED
    BY <2>1, <2>2, <2>3
<1> HIDE DEF n
<1>5. n \in Nat \ {0}
  <2>1. WalkDistance * 0 = 0
    BY <1>1
  <2>2. WalkDistance * 0 < (WalkDistance * n) + WalkDistance /\ n # 0
    BY <1>1, <1>4, <2>1
  <2>3. 0 <= n
    BY <1>1, <1>4, <2>2, MultipleBelow
  <2> QED
    BY <1>4, <2>2, <2>3
<1>6. WalkDistance * n = (WalkDistance * (n - 1)) + WalkDistance
        /\ WalkDistance * (n - 1) \in Nat
  BY <1>1, <1>5
<1>7. (Len - 1 - walker) \div WalkDistance = n - 1
  <2>1. PICK a \in Int : a = Len - 1 - walker
    BY <1>1
  <2>2. WalkDistance * (n - 1) <= a /\ a < (WalkDistance * (n - 1)) + WalkDistance
    <3>1. PICK p \in Nat : p = WalkDistance * (n - 1) /\ Len = p + WalkDistance
      BY <1>4, <1>6
    <3> QED
      BY <1>1, <2>1, <3>1
  <2>3. n - 1 \in Int
    BY <1>5
  <2>4. a \div WalkDistance = n - 1
    BY <1>1, <2>1, <2>2, <2>3, DivisionIsUnique
  <2> QED
    BY <2>1, <2>4
<1>8. Steps = Series(walker, WalkDistance, n)
  BY <1>7, Zenon DEF Steps, Series
<1>9. Cardinality(Steps) = n
  BY <1>1, <1>5, <1>8, SeriesSize
<1>10. frame' = WalkFrame(walker, WalkDistance, n, mask)
  BY <1>2, <1>8 DEF WalkFrame
<1>11. /\ IsFirst(first, frame') /\ IsLast(last, frame')
       /\ \A b \in frame' : b[1] \in walker .. top /\ b[2] \in Channels
       /\ Cardinality(frame') = 3 * n
  <2>1. /\ WalkDistance >= 3 /\ WalkDistance \in Nat \ {0} /\ walker \in Nat
        /\ mask \in {0} \cup Channels
    BY <1>1
  <2>2. /\ IsFirst(first, WalkFrame(walker, WalkDistance, n, mask))
        /\ IsLast(last, WalkFrame(walker, WalkDistance, n, mask))
        /\ \A b \in WalkFrame(walker, WalkDistance, n, mask) :
             b[1] \in walker .. top /\ b[2] \in Channels
        /\ Cardinality(WalkFrame(walker, WalkDistance, n, mask)) = 3 * n
    BY <1>5, <2>1, WalkBytes
  <2> QED
    BY <1>10, <2>2, Zenon
<1>12. mask' = Rotated(mask, n) /\ mask' \in Channels /\ mask' \in 0 .. 2 ^ 25
  <2>1. Rotated(mask, n) \in Channels
    BY <1>1, <1>5, RotatedRotates
  <2> QED
    BY <1>2, <1>9, <2>1, Masks
<1>13. top \in Nat /\ top < Len
  <2>1. PICK p \in Nat : p = WalkDistance * (n - 1) /\ Len = p + WalkDistance
    BY <1>4, <1>6
  <2>2. (walker + p) + 2 \in Nat /\ (walker + p) + 2 < Len
    BY <1>1, <2>1
  <2> QED
    BY <2>1, <2>2
<1> HIDE DEF top
<1>14. /\ walker' \in Nat /\ walker' + WalkStep <= WalkDistance
       /\ \E j \in Nat : walker' = WalkStep * j
  BY <1>1, <1>2, WalkerTurns
<1>15. wcounts' \in Nat /\ count' \in 0 .. 255
  BY <1>1, <1>2
<1>16. \A b \in frame' : b[1] \in 0 .. Len - 1 /\ b[2] \in 1 .. 127
  BY <1>1, <1>11, <1>13, ChannelValues
<1>17. TypeOK' /\ OnlySevenBits'
  BY <1>0, <1>12, <1>14, <1>15, <1>16, Drawn
<1>18. WholePulses'
  BY <1>3, <1>11 DEF WholePulses, n
<1>19. StaticsInv'
  BY <1>1, <1>2, <1>3, <1>12, <1>14 DEF StaticsInv
<1>20. InStep'
  <2>1. last \in frame' /\ last[2] = mask'
    BY <1>11, <1>12 DEF IsLast
  <2> QED
    BY <1>3, <1>11, <2>1 DEF InStep
<1>21. FollowsOn
  <2>1. first[2] = Rotate(mask)
    OBVIOUS
  <2> QED
    BY <1>0, <1>11, <1>17, <2>1, GoesOn
<1> QED
  BY <1>17, <1>18, <1>19, <1>20, <1>21 DEF Inv

-----------------------------------------------------------------------------
LEMMA InitInv == Init => Inv
<1> SUFFICES ASSUME Init PROVE Inv
  OBVIOUS
<1>1. /\ generator \in Generator /\ frame = {} /\ filled = FALSE
      /\ mask = 0 /\ count = 0 /\ walker = 0 /\ wcounts = 0
  BY DEF Init
<1>2. 0 \in 0 .. 2 ^ 25
  BY Masks
<1>3. TypeOK /\ OnlySevenBits /\ WholePulses /\ InStep
  <2>1. TypeOK
    <3>1. mask \in 0 .. 2 ^ 25
      BY <1>1, <1>2, Zenon
    <3>2. count \in 0 .. 255 /\ walker \in Nat /\ wcounts \in Nat
      <4>1. count = 0 /\ walker = 0 /\ wcounts = 0
        BY <1>1
      <4> QED
        BY <4>1
    <3>3. \A b \in frame : b[1] \in 0 .. Len - 1 /\ b[2] \in 1 .. 255
      BY <1>1
    <3>4. filled \in BOOLEAN
      BY <1>1, Zenon
    <3>5. drawn \in [Pulses -> Nat]
      BY DEF Init
    <3> QED
      BY <1>1, <3>1, <3>2, <3>3, <3>4, <3>5, Zenon DEF TypeOK
  <2> QED
    BY <1>1, <2>1 DEF OnlySevenBits, WholePulses, InStep
<1>4. generator = "walking"
        => walker + WalkStep <= WalkDistance /\ \E j \in Nat : walker = WalkStep * j
  <2>1. WalkStep \in Nat \ {0} /\ WalkDistance \in Nat \ {0}
    BY Parameters
  <2>2. WalkStep <= WalkDistance
    <3>1. SUFFICES ASSUME WalkDistance < WalkStep PROVE FALSE
      BY <2>1
    <3>2. WalkDistance \div WalkStep \in Int
          /\ WalkDistance = (WalkStep * (WalkDistance \div WalkStep)) + (WalkDistance % WalkStep)
      BY <2>1, Divided
    <3>3. PICK m \in Int : WalkDistance = WalkStep * m
      <4>1. PICK m \in Int : m = WalkDistance \div WalkStep
        BY <3>2
      <4>2. WalkStep * m \in Int
        BY <2>1
      <4> QED
        BY <3>2, <4>1, <4>2, StepAssumption
    <3>4. WalkStep * m < (WalkStep * 0) + WalkStep /\ WalkStep * 0 = 0
      BY <2>1, <3>1, <3>3
    <3>5. m <= 0
      BY <2>1, <3>4, MultipleBelow
    <3>6. m = 0 \/ (WalkStep * m) + WalkStep <= WalkStep * 0
      BY <2>1, <3>5, FactorsInOrder
    <3> QED
      BY <2>1, <3>3, <3>4, <3>6
  <2>3. 0 + WalkStep <= WalkDistance /\ 0 = WalkStep * 0
    BY <2>1, <2>2
  <2> QED
    BY <1>1, <2>3
<1>5. StaticsInv
  BY <1>1, <1>4 DEF StaticsInv
<1> QED
  BY <1>3, <1>5 DEF Inv

LEMMA NextInv == Inv /\ [Next]_vars => Inv' /\ (FollowsOn \/ UNCHANGED vars)
<1> SUFFICES ASSUME Inv, [Next]_vars
             PROVE  Inv' /\ (FollowsOn \/ UNCHANGED vars)
  OBVIOUS
<1>0. TypeOK /\ OnlySevenBits /\ WholePulses /\ StaticsInv /\ InStep
  BY DEF Inv
<1>1. CASE Generate
  <2>1. /\ generator' = generator /\ filled' \in BOOLEAN
        /\ drawn' \in [Pulses -> Nat]
    BY <1>0, <1>1, DrawnCounts DEF Generate
  <2>2. CASE ~InOrder
    BY <1>1, <2>2, PlainSteps
  <2>3. CASE generator = "slow_reg"
    <3>1. Regular(SlowGap) /\ SlowGap = GapOf
      BY <1>1, <2>3 DEF Generate, GapOf
    <3> QED
      BY <2>1, <2>3, <3>1, Parameters, RegularStep
  <2>4. CASE generator = "med_reg"
    <3>1. Regular(MediumGap) /\ MediumGap = GapOf
      BY <1>1, <2>4 DEF Generate, GapOf
    <3> QED
      BY <2>1, <2>4, <3>1, Parameters, RegularStep
  <2>5. CASE generator = "fast_reg"
    BY <1>1, <2>1, <2>5, FastStep DEF Generate
  <2>6. CASE generator = "walking"
    BY <1>1, <2>1, <2>6, WalkingStep DEF Generate
  <2> QED
    BY <2>2, <2>3, <2>4, <2>5, <2>6 DEF InOrder
<1>2. CASE TickerStart
  <2>1. /\ generator' = generator /\ frame' = {} /\ filled' = FALSE
        /\ mask' = mask /\ count' = count /\ walker' = walker /\ wcounts' = wcounts
        /\ drawn' = drawn
    BY <1>2 DEF TickerStart, statics
  <2>2. TypeOK' /\ OnlySevenBits' /\ WholePulses'
    BY <1>0, <2>1 DEF TypeOK, OnlySevenBits, WholePulses
  <2>3. StaticsInv' /\ InStep' /\ FollowsOn
    BY <1>0, <2>1 DEF StaticsInv, InStep, FollowsOn
  <2> QED
    BY <2>2, <2>3 DEF Inv
<1>3. CASE UNCHANGED vars
  <2>1. /\ generator' = generator /\ frame' = frame /\ filled' = filled
        /\ mask' = mask /\ count' = count /\ walker' = walker /\ wcounts' = wcounts
        /\ drawn' = drawn
    BY <1>3 DEF vars, statics
  <2>2. TypeOK' /\ OnlySevenBits' /\ WholePulses'
    BY <1>0, <2>1 DEF TypeOK, OnlySevenBits, WholePulses, Len
  <2>3. StaticsInv'
    BY <1>0, <2>1 DEF StaticsInv
  <2>4. InStep'
    BY <1>0, <2>1 DEF InStep, InOrder, GapOf, Len
  <2> QED
    BY <1>3, <2>2, <2>3, <2>4 DEF Inv
<1> QED
  BY <1>1, <1>2, <1>3 DEF Next

LEMMA AlwaysInv == Spec => []Inv
<1>1. Inv /\ [Next]_vars => Inv'
  BY NextInv
<1> QED
  BY <1>1, InitInv, PTL DEF Spec

\* Every byte a generator writes is inside the frame it was called for, and the
\* static variables stay within their bytes (pattern.c:156-300, 487-560).
THEOREM TypeCorrect == Spec => []TypeOK
<1>1. Inv => TypeOK
  BY DEF Inv
<1> QED
  BY <1>1, AlwaysInv, PTL

\* No generator but those that are meant to touches bit 7, the reference clock:
\* "patterns should only write to bits 0..6" (pattern.c:156).
THEOREM BitSevenIsFree == Spec => []OnlySevenBits
<1>1. Inv => OnlySevenBits
  BY DEF Inv
<1> QED
  BY <1>1, AlwaysInv, PTL

\* The pulses of walking have three bytes wherever it has walked to, and none is
\* cut off at the end of the frame (pattern.c:501-514).
THEOREM PulsesAreWhole == Spec => []WholePulses
<1>1. Inv => WholePulses
  BY DEF Inv
<1> QED
  BY <1>1, AlwaysInv, PTL

\* The rhythm goes on from frame to frame: the next channel, and in the regular
\* patterns the same distance ("we rely on beeing called 'in-order'",
\* pattern.c:234).
THEOREM RhythmGoesOn == Spec => InTurn
<1>1. Inv /\ [Next]_vars
        => [InOrder /\ frame # {} /\ frame' # {} =>
              /\ ChannelAt(Min(Places))' = Rotate(ChannelAt(Max(Places)))
              /\ generator # "walking" => Len + Min(Places)' - Max(Places) = GapOf]_vars
  BY NextInv DEF FollowsOn
<1> QED
  BY <1>1, AlwaysInv, PTL DEF Spec, InTurn
=============================================================================
