---------------------------- MODULE ShapedProofs ----------------------------
(***************************************************************************)
(* Theorems about Shaped, for every table: the envelope that is            *)
(* interpolated by additions stays in the range of the table, every frame  *)
(* begins with the same one, and every pulse ends.                         *)
(***************************************************************************)
EXTENDS Shaped, WellFoundedInduction, TLAPS

-----------------------------------------------------------------------------
(***************************************************************************)
(* Division with remainder.                                                *)
(***************************************************************************)
LEMMA Divided ==
  ASSUME NEW a \in Int, NEW n \in Nat \ {0}
  PROVE  a \div n \in Int /\ a % n \in 0 .. n - 1 /\ a = (n * (a \div n)) + (a % n)
OBVIOUS

\* A multiple that is smaller than the next one.
LEMMA MultipleBelow ==
  ASSUME NEW n \in Nat \ {0}, NEW p \in Int, NEW q \in Int, n * p < (n * q) + n
  PROVE  p <= q
<1>1. SUFFICES ASSUME p >= q + 1 PROVE FALSE
  OBVIOUS
<1>2. n * p >= n * (q + 1)
  BY <1>1
<1>3. n * (q + 1) = (n * q) + n
  OBVIOUS
<1> QED
  BY <1>2, <1>3

LEMMA DivisionIsUnique ==
  ASSUME NEW n \in Nat \ {0}, NEW q \in Int, NEW a \in Int,
         n * q <= a, a < (n * q) + n
  PROVE  a \div n = q /\ a % n = a - (n * q)
<1> DEFINE p == a \div n
           t == a % n
<1>1. p \in Int /\ t \in 0 .. n - 1 /\ (n * p) + t = a
  BY Divided
<1> HIDE DEF p, t
<1>2. p <= q /\ q <= p
  <2>1. n * p \in Int /\ n * q \in Int
    BY <1>1
  <2>2. n * p < (n * q) + n /\ n * q < (n * p) + n
    BY <1>1, <2>1
  <2> QED
    BY <1>1, <2>2, MultipleBelow
<1>3. p = q
  BY <1>1, <1>2
<1>4. t = a - (n * q)
  BY <1>1, <1>3
<1> QED
  BY <1>3, <1>4 DEF p, t

LEMMA NoRemainder ==
  ASSUME NEW n \in Nat \ {0}
  PROVE  n % n = 0 /\ \A r \in 0 .. n - 1 : r % n = r
OBVIOUS

\* The byte after p is in the same slot or begins the next one, and the last
\* one is followed by the first.
LEMMA NextByte ==
  ASSUME NEW p \in 0 .. FrameLength - 1
  PROVE  LET s == p \div SlotLength
             j == p % SlotLength
             q == (p + 1) % FrameLength
         IN  /\ s \in 0 .. Slots - 1 /\ j \in 0 .. SlotLength - 1
             /\ q \in 0 .. FrameLength - 1
             /\ j + 1 < SlotLength => q \div SlotLength = s /\ q % SlotLength = j + 1
             /\ j + 1 = SlotLength
                  => q \div SlotLength = (s + 1) % Slots /\ q % SlotLength = 0
<1> DEFINE s == p \div SlotLength
           j == p % SlotLength
           q == (p + 1) % FrameLength
<1>0. SlotLength \in Nat \ {0} /\ Slots \in Nat \ {0}
  BY FrameAssumption
<1>1. FrameLength \in Nat \ {0}
  BY <1>0 DEF FrameLength
<1>2. /\ FrameLength = SlotLength * Slots
      /\ FrameLength = (SlotLength * (Slots - 1)) + SlotLength
  BY <1>0 DEF FrameLength
<1>3. p \in Nat /\ p < FrameLength
  BY <1>1
<1>4. s \in Int /\ j \in 0 .. SlotLength - 1 /\ p = (SlotLength * s) + j
  BY <1>0, <1>3, Divided
<1>5. q \in 0 .. FrameLength - 1
  BY <1>1, <1>3, Divided
<1>6. p + 1 < FrameLength => q = p + 1
  <2>1. p + 1 < FrameLength => p + 1 \in 0 .. FrameLength - 1
    BY <1>1, <1>3
  <2> QED
    BY <1>1, <2>1, NoRemainder
<1>7. p + 1 = FrameLength => q = 0
  BY <1>1, <1>3, NoRemainder
<1> HIDE DEF s, j, q, FrameLength
<1>8. s \in 0 .. Slots - 1
  <2>1. SlotLength * s \in Int /\ SlotLength * (Slots - 1) \in Int
    BY <1>0, <1>4
  <2>2. SlotLength * s < (SlotLength * (Slots - 1)) + SlotLength
    BY <1>2, <1>3, <1>4, <2>1
  <2>3. SlotLength * 0 < (SlotLength * s) + SlotLength
    BY <1>0, <1>3, <1>4, <2>1
  <2>4. s <= Slots - 1
    BY <1>0, <1>4, <2>2, MultipleBelow
  <2>5. 0 <= s
    BY <1>0, <1>4, <2>3, MultipleBelow
  <2> QED
    BY <1>0, <1>4, <2>4, <2>5
<1>9. ASSUME j + 1 < SlotLength
      PROVE  q \div SlotLength = s /\ q % SlotLength = j + 1
  <2>1. p + 1 < FrameLength
    <3>1. SUFFICES ASSUME p + 1 = FrameLength PROVE FALSE
      BY <1>1, <1>3
    <3>2. SlotLength * s <= SlotLength * (Slots - 1)
      BY <1>0, <1>8
    <3> QED
      BY <1>0, <1>2, <1>4, <1>8, <1>9, <3>1, <3>2
  <2>2. SlotLength * s \in Int
    BY <1>0, <1>4
  <2>3. /\ q \in Int /\ q - (SlotLength * s) = j + 1
        /\ SlotLength * s <= q /\ q < (SlotLength * s) + SlotLength
    BY <1>0, <1>3, <1>4, <1>6, <1>9, <2>1, <2>2
  <2> QED
    BY <1>0, <1>4, <2>3, DivisionIsUnique
<1>10. ASSUME j + 1 = SlotLength
       PROVE  q \div SlotLength = (s + 1) % Slots /\ q % SlotLength = 0
  <2>1. p + 1 = SlotLength * (s + 1)
    BY <1>4, <1>10
  <2>2. CASE s = Slots - 1
    <3>1. q = 0
      BY <1>0, <1>2, <1>7, <2>1, <2>2
    <3>2. (s + 1) % Slots = 0
      BY <1>0, <2>2, NoRemainder
    <3> QED
      BY <1>0, <3>1, <3>2
  <2>3. CASE s # Slots - 1
    <3>1. s + 1 \in 0 .. Slots - 1
      BY <1>0, <1>8, <2>3
    <3>2. SlotLength * (s + 1) <= SlotLength * (Slots - 1)
      BY <1>0, <3>1
    <3>3. q = SlotLength * (s + 1) /\ q \in Int
      BY <1>0, <1>2, <1>3, <1>6, <2>1, <3>1, <3>2
    <3>4. SlotLength * (s + 1) <= q /\ q < (SlotLength * (s + 1)) + SlotLength
          /\ q - (SlotLength * (s + 1)) = 0
      BY <1>0, <3>3
    <3>5. q \div SlotLength = s + 1 /\ q % SlotLength = 0
      BY <1>0, <3>1, <3>3, <3>4, s + 1 \in Int, DivisionIsUnique
    <3>6. (s + 1) % Slots = s + 1
      BY <1>0, <3>1, NoRemainder
    <3> QED
      BY <3>5, <3>6
  <2> QED
    BY <2>2, <2>3
<1> QED
  BY <1>4, <1>5, <1>8, <1>9, <1>10 DEF s, j, q

-----------------------------------------------------------------------------
(***************************************************************************)
(* The line that ctr and cenv follow in a slot: n * cenv + ctr grows by    *)
(* the gain of the slot in every byte.                                     *)
(***************************************************************************)
\* Within the first n bytes of a slot the envelope is between both ends.
LEMMA WithinSlot ==
  ASSUME NEW n \in Nat \ {0}, NEW start \in 0 .. n - 1, NEW c \in 0 .. n - 1,
         NEW d \in Int, NEW j \in 0 .. n, NEW e \in Int,
         (n * e) + c = start + (j * d)
  PROVE  IF d >= 0 THEN e \in 0 .. d ELSE e \in d .. 0
<1>1. n * e \in Int /\ n * d \in Int /\ j * d \in Int /\ n * 0 = 0
  OBVIOUS
<1>2. CASE d >= 0
  <2>1. 0 <= j * d /\ j * d <= n * d
    BY <1>2
  <2>2. n * 0 < (n * e) + n /\ n * e < (n * d) + n
    BY <1>1, <2>1
  <2> QED
    BY <1>2, <2>2, MultipleBelow
<1>3. CASE d < 0
  <2>1. j * d <= 0 /\ n * d <= j * d
    BY <1>3
  <2>2. n * e < (n * 0) + n /\ n * d < (n * e) + n
    BY <1>1, <2>1
  <2> QED
    BY <1>3, <2>2, MultipleBelow
<1> QED
  BY <1>2, <1>3

\* A slot of n bytes ends with the envelope of the next one and the same rest.
LEMMA GenericSlotEnd ==
  ASSUME NEW n \in Nat \ {0}, NEW start \in 0 .. n - 1, NEW c \in 0 .. n - 1,
         NEW d \in Int, NEW e \in Int, (n * e) + c = start + (n * d)
  PROVE  c = start
<1>1. n * e \in Int /\ n * d \in Int
  OBVIOUS
<1>2. n * e < (n * d) + n /\ n * d < (n * e) + n
  BY <1>1
<1>3. e <= d /\ d <= e
  BY <1>2, MultipleBelow
<1>4. e = d
  BY <1>3
<1> QED
  BY <1>1, <1>4

\* A slot of n + 1 bytes takes the rest of one end to the rest of the other.
LEMMA LinearSlotEnd ==
  ASSUME NEW n \in Nat \ {0}, NEW v \in 0 .. n, NEW w \in 0 .. n,
         NEW c \in 0 .. n - 1, NEW e \in Int,
         (n * e) + c = (v % n) + ((n + 1) * (w - v))
  PROVE  /\ c = w % n
         /\ v + e <= w + 1
         /\ w <= (v + e) + (IF v = n THEN 1 ELSE 0)
<1> DEFINE k == v \div n
           r == v % n
           q == (e + k) - (w - v)
<1>1. k \in Int /\ r \in 0 .. n - 1 /\ v = (n * k) + r
  BY Divided
<1>2. k = IF v = n THEN 1 ELSE 0
  <2>1. CASE v = n
    BY <2>1
  <2>2. CASE v < n
    BY <2>2
  <2> QED
    BY <2>1, <2>2
<1> HIDE DEF k, r
<1>3. q \in Int
  BY <1>1
<1>4. (n * q) + c = w
  <2>1. (n + 1) * (w - v) = (n * (w - v)) + (w - v)
    OBVIOUS
  <2>2. n * q = ((n * e) + (n * k)) - (n * (w - v))
    BY <1>1
  <2>3. n * e \in Int /\ n * k \in Int /\ n * (w - v) \in Int
    BY <1>1
  <2>4. (n * e) + c = r + ((n * (w - v)) + (w - v))
    BY <2>1 DEF r
  <2> HIDE DEF q
  <2> QED
    BY <1>1, <2>2, <2>3, <2>4
<1> HIDE DEF q
<1>5. n * q \in Int /\ n * q <= w /\ w < (n * q) + n /\ w - (n * q) = c
  BY <1>3, <1>4
<1>6. w \div n = q /\ w % n = c
  BY <1>3, <1>5, w \in Int, DivisionIsUnique
<1>7. q \in 0 .. 1
  <2>1. n * q < (n * 1) + n /\ n * 0 < (n * q) + n
    BY <1>5
  <2> QED
    BY <1>3, <2>1, MultipleBelow
<1> QED
  BY <1>2, <1>6, <1>7 DEF q

-----------------------------------------------------------------------------
(***************************************************************************)
(* The inductive invariant: where ctr and cenv are in a slot.              *)
(***************************************************************************)
Place == pos % SlotLength

\* What a slot begins with.
StartOf(slot) ==
  IF shape = "generic" THEN SlotLength \div 2 ELSE Env[slot] % LinearBase

EnvelopeInv ==
  /\ shape = "step" => ctr = 0
  /\ shape = "generic" /\ total = 0 => pos = 0 /\ ctr = 0
  /\ shape # "step" /\ (shape = "generic" => total # 0)
       => /\ Place = 0 => ctr = StartOf(Slot)
          /\ Place # 0 => (Base * (cenv - Env[Slot])) + ctr
                            = StartOf(Slot) + (Place * Diff(Slot))

Inv == TypeOK /\ EnvelopeInv

LEMMA Sizes ==
  /\ SlotLength \in Nat \ {0} /\ Slots \in Nat \ {0} /\ Channels \in Nat \ {0}
  /\ LinearBase \in Nat \ {0} /\ MaxEnv \in Nat
  /\ SlotLength = LinearBase + 1 /\ MaxEnv <= LinearBase
BY FrameAssumption, EnvAssumption, BaseAssumption, TableAssumption

LEMMA BaseType ==
  ASSUME TypeOK
  PROVE  Base \in Nat \ {0} /\ (shape = "generic" => Base = SlotLength)
         /\ (shape # "generic" => Base = LinearBase)
BY Sizes DEF Base

LEMMA EnvType ==
  ASSUME NEW slot \in 0 .. Slots - 1
  PROVE  /\ (slot + 1) % Slots \in 0 .. Slots - 1
         /\ Env[slot] \in 0 .. MaxEnv
         /\ Env[(slot + 1) % Slots] \in 0 .. MaxEnv
         /\ Diff(slot) = Env[(slot + 1) % Slots] - Env[slot]
<1>1. (slot + 1) % Slots \in 0 .. Slots - 1
  BY Sizes, Divided
<1> QED
  BY <1>1, EnvAssumption DEF Diff

LEMMA StartType ==
  ASSUME TypeOK, NEW slot \in 0 .. Slots - 1
  PROVE  StartOf(slot) \in 0 .. Base - 1
<1>1. CASE shape = "generic"
  BY <1>1, Sizes DEF StartOf, Base
<1>2. CASE shape # "generic"
  <2>1. Env[slot] \in Int
    BY EnvType, Sizes
  <2>2. Env[slot] % LinearBase \in 0 .. LinearBase - 1
    BY <2>1, Sizes, Divided
  <2> QED
    BY <1>2, <2>2 DEF StartOf, Base
<1> QED
  BY <1>1, <1>2

\* A byte of a pattern that interpolates: ctr and cenv go on along the line of
\* the slot, within the range of the table, and into the next slot.
LEMMA EnvelopeStep ==
  ASSUME Inv, shape \in Linear \cup {"generic"}, UNCHANGED shape,
         NEW c \in Int,
         c = IF shape = "generic" /\ total = 0 THEN SlotLength \div 2 ELSE ctr,
         Interpolate(c + Diff(Slot)),
         pos' = (pos + 1) % FrameLength,
         shape = "generic" => total' # 0
  PROVE  /\ EnvelopeInv'
         /\ pos' \in 0 .. FrameLength - 1
         /\ ctr' \in 0 .. Base - 1
         /\ cenv' \in 0 .. (IF shape \in Linear THEN MaxEnv + 1 ELSE MaxEnv)
         /\ (Base * (cenv' - Env[Slot])) + ctr'
              = StartOf(Slot) + ((Place + 1) * Diff(Slot))
<1> DEFINE s == Slot
           j == Place
           n == Base
           d == Diff(Slot)
           start == StartOf(Slot)
           e == LookedUp
           f == Env[Slot]
<1>1. /\ s \in 0 .. Slots - 1 /\ j \in 0 .. SlotLength - 1
      /\ pos' \in 0 .. FrameLength - 1
      /\ j + 1 < SlotLength => Slot' = s /\ Place' = j + 1
      /\ j + 1 = SlotLength => Slot' = (s + 1) % Slots /\ Place' = 0
  BY NextByte DEF Inv, TypeOK, Slot, Place
<1>2. /\ n \in Nat \ {0} /\ start \in 0 .. n - 1
      /\ f \in 0 .. MaxEnv /\ d \in Int
  <2>1. TypeOK
    BY DEF Inv
  <2>2. n \in Nat \ {0} /\ start \in 0 .. n - 1
    BY <1>1, <2>1, BaseType, StartType
  <2>3. /\ f \in 0 .. MaxEnv /\ Env[(s + 1) % Slots] \in 0 .. MaxEnv
        /\ d = Env[(s + 1) % Slots] - f
    BY <1>1, EnvType
  <2> HIDE DEF s, d, f
  <2>4. d \in Int
    BY <2>3, Sizes
  <2> QED
    BY <2>2, <2>3, <2>4
<1>3. e \in Int /\ (n * (e - f)) + c = start + (j * d)
  <2>1. CASE j = 0
    <3>1. e = f
      BY <2>1 DEF LookedUp, Place
    <3>2. c = start
      BY <2>1 DEF Inv, EnvelopeInv, StartOf, Linear
    <3> HIDE DEF e, s, j, n, d, start, f
    <3>3. n \in Int /\ d \in Int /\ f \in Int /\ start \in Int
      BY <1>2, Sizes
    <3>4. n * (e - f) = 0 /\ j * d = 0
      BY <2>1, <3>1, <3>3
    <3> QED
      BY <3>1, <3>2, <3>3, <3>4
  <2>2. CASE j # 0
    <3>1. e = cenv /\ cenv \in Int
      BY <2>2, Sizes DEF LookedUp, Place, Inv, TypeOK
    <3>2. pos # 0
      BY <2>2, Sizes, NoRemainder DEF Place
    <3>3. c = ctr /\ (n * (cenv - f)) + ctr = start + (j * d)
      BY <2>2, <3>2 DEF Inv, EnvelopeInv, Linear
    <3> QED
      BY <3>1, <3>3
  <2> QED
    BY <1>1, <2>1, <2>2, Sizes
<1>4. /\ ctr' \in 0 .. n - 1 /\ cenv' \in Int
      /\ (n * (cenv' - f)) + ctr' = start + ((j + 1) * d)
  <2>1. ctr' = (c + d) % n /\ cenv' = e + ((c + d) \div n)
    BY DEF Interpolate
  <2> HIDE DEF e, s, j, n, d, start, f
  <2> DEFINE k == (c + d) \div n
             r == (c + d) % n
  <2>2. n \in Nat \ {0} /\ e \in Int /\ d \in Int /\ f \in Int
    BY <1>2, <1>3, Sizes
  <2>3. k \in Int /\ r \in 0 .. n - 1 /\ c + d = (n * k) + r
    <3>1. c + d \in Int
      BY <2>2
    <3> QED
      BY <2>2, <3>1, Divided
  <2> HIDE DEF k, r
  <2>4. cenv' = e + k /\ ctr' = r
    BY <2>1 DEF k, r
  <2>5. ctr' \in 0 .. n - 1 /\ cenv' \in Int
    BY <2>2, <2>3, <2>4
  <2>6. (n * (cenv' - f)) + ctr' = ((n * (e - f)) + c) + d
    <3>1. n * (cenv' - f) = (n * (e - f)) + (n * k)
      BY <2>2, <2>3, <2>4
    <3>2. n * (e - f) \in Int /\ n * k \in Int /\ r \in Int
      BY <2>2, <2>3
    <3> DEFINE x == n * (e - f)
               y == n * k
    <3>3. n * (cenv' - f) = x + y /\ c + d = y + r
      BY <2>3, <3>1
    <3>4. x \in Int /\ y \in Int /\ r \in Int
      BY <3>2
    <3> HIDE DEF x, y
    <3>5. d \in Int
      BY <2>2
    <3>6. c + d = y + r
      BY <3>3
    <3>7. (x + y) + r = (x + c) + d
      <4>1. (x + y) + r = x + (y + r) /\ (x + c) + d = x + (c + d)
        BY <3>4, <3>5
      <4> QED
        BY <3>6, <4>1
    <3> QED
      BY <2>4, <3>3, <3>7 DEF x
  <2>7. (j + 1) * d = (j * d) + d /\ j * d \in Int /\ start \in Int
    BY <1>1, <1>2, Sizes
  <2>8. ((n * (e - f)) + c) + d = start + ((j * d) + d)
    BY <1>3, <2>2, <2>7
  <2> QED
    BY <2>5, <2>6, <2>7, <2>8
<1> DEFINE w == Env[(s + 1) % Slots]
<1>5. f \in 0 .. MaxEnv /\ w \in 0 .. MaxEnv /\ d = w - f
  BY <1>1, EnvType
<1>6. /\ shape \in Linear => shape # "generic" /\ n = LinearBase
      /\ shape = "generic" => shape \notin Linear /\ n = SlotLength
  BY BaseType DEF Inv, Linear
<1>7. Base' = n /\ shape' = shape /\ \A slot : StartOf(slot)' = StartOf(slot)
  BY DEF Base, StartOf
<1>8. /\ s \in 0 .. Slots - 1
      /\ start = IF shape = "generic" THEN SlotLength \div 2 ELSE f % LinearBase
  BY <1>1 DEF StartOf
<1> DEFINE g == cenv' - f
<1>9. g \in Int /\ (n * g) + ctr' = start + ((j + 1) * d) /\ cenv' = f + g
  <2>1. f \in Int /\ cenv' \in Int
    BY <1>2, <1>4, Sizes
  <2>2. g \in Int /\ cenv' = f + g
    BY <2>1
  <2> QED
    BY <1>4, <2>2
\* Up to n bytes the envelope is between the ends of the slot.
<1>10. ASSUME j + 1 <= n
       PROVE  cenv' \in 0 .. MaxEnv
  <2> HIDE DEF s, j, n, d, start, e, f, w, g
  <2>1. j + 1 \in 0 .. n
    BY <1>1, <1>10, <1>2, Sizes
  <2>2. IF d >= 0 THEN g \in 0 .. d ELSE g \in d .. 0
    BY <1>2, <1>4, <1>9, <2>1, WithinSlot
  <2> QED
    BY <1>5, <1>9, <2>2, Sizes
<1>11. CASE j + 1 < SlotLength
  <2>1. j + 1 <= n
    BY <1>1, <1>2, <1>6, <1>11, Sizes
  <2>2. EnvelopeInv'
    <3>1. Slot' = s /\ Place' = j + 1 /\ Place' # 0
      BY <1>1, <1>11, Sizes
    <3>2. Diff(Slot)' = d /\ StartOf(Slot)' = start /\ Env[Slot]' = f
      BY <3>1, <1>7 DEF Diff, StartOf
    <3>3. (Base * (cenv - Env[Slot]))' + ctr' = StartOf(Slot)' + (Place * Diff(Slot))'
      BY <1>4, <1>7, <3>1, <3>2
    <3> QED
      BY <1>7, <3>1, <3>3 DEF EnvelopeInv, Linear
  <2>3. cenv' \in 0 .. (IF shape \in Linear THEN MaxEnv + 1 ELSE MaxEnv)
    BY <1>10, <2>1, Sizes
  <2> QED
    BY <1>1, <1>4, <2>2, <2>3
<1>12. CASE j + 1 = SlotLength
  <2>1. Slot' = (s + 1) % Slots /\ Place' = 0
    BY <1>1, <1>12
  <2>2. SUFFICES /\ ctr' = StartOf(Slot')
                 /\ cenv' \in 0 .. (IF shape \in Linear THEN MaxEnv + 1 ELSE MaxEnv)
    BY <1>1, <1>4, <1>7, <2>1 DEF EnvelopeInv, Linear
  <2>3. CASE shape = "generic"
    <3>1. n = SlotLength /\ shape \notin Linear /\ j + 1 = n
      BY <1>6, <1>12, <2>3
    <3>2. ctr' = start
      <4> HIDE DEF s, j, n, d, start, e, f, w, g
      <4>1. (n * g) + ctr' = start + (n * d)
        BY <1>9, <3>1
      <4>2. n \in Nat \ {0} /\ start \in 0 .. n - 1 /\ d \in Int /\ g \in Int
            /\ ctr' \in 0 .. n - 1
        BY <1>2, <1>4, <1>9
      <4> QED
        BY <4>1, <4>2, GenericSlotEnd
    <3>3. start = StartOf(Slot')
      BY <2>3 DEF StartOf
    <3>4. cenv' \in 0 .. MaxEnv
      BY <1>2, <1>10, <3>1
    <3> QED
      BY <3>1, <3>2, <3>3, <3>4
  <2>4. CASE shape \in Linear
    <3>1. n = LinearBase /\ shape # "generic" /\ j + 1 = n + 1
      BY <1>6, <1>12, <2>4, Sizes
    <3>2. StartOf(Slot') = w % n
      BY <2>1, <3>1 DEF StartOf
    <3>3. f = LinearBase => w # 0
      BY <1>1, TableAssumption
    <3> HIDE DEF s, j, n, d, start, e, f, w, g
    <3>4. f \in 0 .. n /\ w \in 0 .. n /\ n \in Nat \ {0} /\ g \in Int
          /\ ctr' \in 0 .. n - 1
      BY <1>2, <1>4, <1>5, <1>9, <3>1, Sizes
    <3>5. (n * g) + ctr' = (f % n) + ((n + 1) * (w - f))
      BY <1>5, <1>8, <1>9, <3>1
    <3>6. /\ ctr' = w % n
          /\ f + g <= w + 1
          /\ w <= (f + g) + (IF f = n THEN 1 ELSE 0)
      BY <3>4, <3>5, LinearSlotEnd
    <3>7. cenv' \in 0 .. MaxEnv + 1
      BY <1>5, <1>9, <3>1, <3>3, <3>4, <3>6, Sizes
    <3> QED
      BY <2>4, <3>2, <3>6, <3>7
  <2> QED
    BY <2>3, <2>4
<1> QED
  BY <1>1, <1>4, <1>11, <1>12, Sizes

-----------------------------------------------------------------------------
LEMMA FireTypes ==
  ASSUME TypeOK, NEW n \in Nat, Fire(n)
  PROVE  channel' \in AllChannels /\ out' \subseteq AllChannels
<1>1. \A k \in 0 .. n : Moved(channel, k) \in AllChannels
  <2>1. channel \in Int
    BY Sizes DEF TypeOK, AllChannels
  <2>2. ASSUME NEW k \in 0 .. n PROVE Moved(channel, k) \in AllChannels
    <3>1. channel - k \in Int
      BY <2>1
    <3> QED
      BY <3>1, Sizes, Divided DEF Moved, AllChannels
  <2> QED
    BY <2>2
<1> QED
  BY <1>1 DEF Fire

LEMMA AdvanceTypes ==
  ASSUME TypeOK, NEW n \in Nat, Advance(n)
  PROVE  /\ pos' = (pos + 1) % FrameLength
         /\ pos' \in 0 .. FrameLength - 1
         /\ events' \in Nat
<1>1. pos' = (pos + 1) % FrameLength
  BY DEF Advance
<1>2. pos' \in 0 .. FrameLength - 1
  BY <1>1, NextByte DEF TypeOK
<1>3. events' \in Nat
  BY DEF TypeOK, Advance
<1> QED
  BY <1>1, <1>2, <1>3

\* Pulses are made for what interp holds, and no more.
LEMMA PulsesPaid ==
  ASSUME NEW i \in Nat, NEW t \in Nat \ {0}, NEW n \in Nat, n <= i \div t
  PROVE  i - (n * t) \in Nat
<1> DEFINE q == i \div t
<1>1. q \in Int /\ i % t \in 0 .. t - 1 /\ i = (t * q) + (i % t)
  BY Divided
<1> HIDE DEF q
<1>2. t * q \in Int /\ t * q <= i
  BY <1>1
<1>3. n * t \in Int /\ n * t <= t * q
  BY <1>1 DEF q
<1> QED
  BY <1>2, <1>3

LEMMA LookedUpType ==
  ASSUME TypeOK
  PROVE  /\ LookedUp \in Nat
         /\ shape \notin Linear => LookedUp \in 0 .. MaxEnv
<1>1. Env[Slot] \in 0 .. MaxEnv
  BY NextByte, EnvType DEF TypeOK, Slot
<1> QED
  BY <1>1, Sizes DEF LookedUp, TypeOK

LEMMA StepKeepsInv == Inv /\ StepByte /\ UNCHANGED shape => Inv'
<1> SUFFICES ASSUME Inv, StepByte, UNCHANGED shape PROVE Inv'
  OBVIOUS
<1> DEFINE t == Threshold[shape]
           i == interp + LookedUp
           n == IF i >= t THEN 1 ELSE 0
<1>1. TypeOK /\ shape = "step" /\ shape \notin Linear /\ ctr = 0 /\ ctr' = ctr
      /\ Base' = Base
  BY DEF Inv, EnvelopeInv, StepByte, Linear, Base
<1>2. t \in Nat \ {0} /\ LookedUp \in 0 .. MaxEnv /\ i \in Nat
  <2>1. t \in Nat \ {0}
    BY <1>1, ThresholdAssumption DEF Names
  <2>2. LookedUp \in 0 .. MaxEnv /\ interp \in Nat
    BY <1>1, LookedUpType DEF TypeOK
  <2> QED
    BY <2>1, <2>2, Sizes
<1>3. interp' \in Nat /\ n \in Nat
  BY <1>2 DEF StepByte
<1>4. /\ channel' \in AllChannels /\ out' \subseteq AllChannels
      /\ pos' \in 0 .. FrameLength - 1 /\ events' \in Nat
  <2>1. Fire(n) /\ Advance(n)
    BY DEF StepByte
  <2> HIDE DEF n
  <2> QED
    BY <1>1, <1>3, <2>1, FireTypes, AdvanceTypes
<1>5. TypeOK'
  BY <1>1, <1>2, <1>3, <1>4 DEF TypeOK, StepByte, tuning
<1> QED
  BY <1>1, <1>5 DEF Inv, EnvelopeInv

LEMMA LinearKeepsInv == Inv /\ LinearByte /\ UNCHANGED shape => Inv'
<1> SUFFICES ASSUME Inv, LinearByte, UNCHANGED shape PROVE Inv'
  OBVIOUS
<1> DEFINE t == Threshold[shape]
           i == interp + cenv'
           owed == i \div t
           n == IF shape # "fast_lin" /\ owed > 1 THEN 1 ELSE owed
<1>1. /\ TypeOK /\ shape \in Linear /\ shape # "generic" /\ Base' = Base
      /\ interp' = i - (n * t) /\ Fire(n) /\ Advance(n)
      /\ Interpolate(ctr + Diff(Slot))
  BY DEF Inv, LinearByte, Linear, Base
<1>2. pos' = (pos + 1) % FrameLength
  BY <1>1 DEF Advance
<1>3. /\ EnvelopeInv'
      /\ ctr' \in 0 .. Base - 1
      /\ cenv' \in 0 .. MaxEnv + 1
  <2>1. ctr \in Int
    BY <1>1, BaseType DEF TypeOK
  <2> QED
    BY <1>1, <1>2, <2>1, EnvelopeStep
<1>4. t \in Nat \ {0} /\ i \in Nat
  <2>1. t \in Nat \ {0}
    BY <1>1, ThresholdAssumption DEF Names, Linear
  <2>2. interp \in Nat
    BY <1>1 DEF TypeOK
  <2> HIDE DEF t
  <2>3. PICK v \in Nat : cenv' = v
    BY <1>3, Sizes
  <2>4. i \in Nat
    BY <2>2, <2>3
  <2> QED
    BY <2>1, <2>4
<1>5. owed \in Nat
  BY <1>4
<1>6. n \in Nat /\ n <= owed
  BY <1>5
<1>7. interp' \in Nat
  <2> HIDE DEF n, i, t
  <2> QED
    BY <1>1, <1>4, <1>6, PulsesPaid
<1>8. /\ channel' \in AllChannels /\ out' \subseteq AllChannels
      /\ pos' \in 0 .. FrameLength - 1 /\ events' \in Nat
  <2> HIDE DEF n
  <2> QED
    BY <1>1, <1>6, FireTypes, AdvanceTypes
<1>9. TypeOK'
  BY <1>1, <1>3, <1>7, <1>8 DEF TypeOK, LinearByte, tuning
<1> QED
  BY <1>3, <1>9 DEF Inv

LEMMA GenericKeepsInv == Inv /\ GenericByte /\ UNCHANGED shape => Inv'
<1> SUFFICES ASSUME Inv, GenericByte, UNCHANGED shape PROVE Inv'
  OBVIOUS
<1> DEFINE c == IF total = 0 THEN SlotLength \div 2 ELSE ctr
           i == interp + ExtraAtStart + cenv'
           n == IF i >= Clamped(increment) THEN 1 ELSE 0
<1>1. /\ TypeOK /\ shape = "generic" /\ shape \notin Linear /\ Base' = Base
      /\ total' = IF total = 0 THEN Total ELSE total
      /\ increment' = Clamped(increment)
      /\ Interpolate(c + Diff(Slot))
      /\ interp' = i - (n * Clamped(increment))
      /\ out' = IF n = 1 THEN AllChannels ELSE {}
      /\ Advance(n)
      /\ late' = IF pos = 0 THEN interp >= Clamped(increment) ELSE late
  BY DEF Inv, GenericByte, Linear, Base
<1>2. pos' = (pos + 1) % FrameLength
  BY <1>1 DEF Advance
<1>3. total' \in Nat /\ total' # 0
  BY <1>1, TotalAssumption DEF TypeOK
<1>4. /\ EnvelopeInv'
      /\ ctr' \in 0 .. Base - 1
      /\ cenv' \in 0 .. MaxEnv
  <2>1. c \in Int
    BY <1>1, BaseType, Sizes DEF TypeOK
  <2>2. c = IF shape = "generic" /\ total = 0 THEN SlotLength \div 2 ELSE ctr
    BY <1>1
  <2> HIDE DEF c
  <2> QED
    BY <1>1, <1>2, <1>3, <2>1, <2>2, EnvelopeStep
<1>5. i \in Nat /\ Clamped(increment) \in Nat
  <2>1. interp \in Nat /\ extra \in Nat /\ increment \in Nat
    BY <1>1 DEF TypeOK
  <2>2. ExtraAtStart \in Nat
    BY <2>1 DEF ExtraAtStart
  <2>3. Clamped(increment) \in Nat
    BY <2>1, MinIncrementAssumption DEF Clamped, AtLeast
  <2>4. PICK v \in Nat : cenv' = v
    BY <1>4, Sizes
  <2>5. i \in Nat
    BY <2>1, <2>2, <2>4
  <2> QED
    BY <2>3, <2>5
<1>6. n \in Nat /\ interp' \in Nat
  BY <1>1, <1>5
<1>7. pos' \in 0 .. FrameLength - 1 /\ events' \in Nat
  <2> HIDE DEF n
  <2> QED
    BY <1>1, <1>6, AdvanceTypes
<1>8. TypeOK'
  <2>1. late' \in BOOLEAN
    <3>1. late \in BOOLEAN
      BY <1>1, Zenon DEF TypeOK
    <3>2. CASE pos = 0
      <4>1. late' = (interp >= Clamped(increment))
        BY <1>1, <3>2, Zenon
      <4>2. (interp >= Clamped(increment)) \in BOOLEAN
        OBVIOUS
      <4> QED
        BY <4>1, <4>2, Zenon
    <3>3. CASE pos # 0
      BY <1>1, <3>1, <3>3, Zenon
    <3> QED
      BY <3>2, <3>3
  <2>2. out' \subseteq AllChannels
    BY <1>1
  <2>3. channel' = channel /\ extra' = extra /\ applying' = applying
    BY DEF GenericByte
  <2> HIDE DEF c, i, n
  <2> QED
    BY <1>1, <1>3, <1>4, <1>5, <1>6, <1>7, <2>1, <2>2, <2>3 DEF TypeOK
<1> QED
  BY <1>4, <1>8 DEF Inv

LEMMA InitInv == Init => Inv
<1> SUFFICES ASSUME Init PROVE Inv
  OBVIOUS
<1>1. 0 \in 0 .. FrameLength - 1 /\ 0 % SlotLength = 0 /\ 0 \div SlotLength = 0
  <2>1. FrameLength \in Nat \ {0}
    BY Sizes DEF FrameLength
  <2> QED
    BY <2>1, Sizes
<1>2. 0 \in AllChannels /\ 0 \in 0 .. MaxEnv /\ 0 \in 0 .. MaxEnv + 1
  BY Sizes DEF AllChannels
<1>3. 0 \in 0 .. Base - 1
  BY Sizes DEF Base
<1>4. TypeOK
  <2>1. {applying, late} \subseteq BOOLEAN
    BY Zenon DEF Init
  <2>2. {total, increment, extra, events} \subseteq Nat
    BY DEF Init
  <2> QED
    BY <1>1, <1>2, <1>3, <2>1, <2>2 DEF Init, TypeOK
<1>5. EnvelopeInv
  <2>1. pos = 0 /\ ctr = 0 /\ total = 0 /\ Place = 0 /\ Slot = 0
    BY <1>1 DEF Init, Place, Slot
  <2>2. shape \in Linear => StartOf(Slot) = 0
    BY <2>1, Sizes, TableAssumption DEF StartOf, Linear
  <2> QED
    BY <2>1, <2>2, ShapesAssumption DEF Init, EnvelopeInv, Names
<1> QED
  BY <1>4, <1>5 DEF Inv

LEMMA NextInv == Inv /\ [Next]_vars => Inv'
<1> SUFFICES ASSUME Inv, [Next]_vars PROVE Inv'
  OBVIOUS
<1>1. CASE Byte
  BY <1>1, StepKeepsInv, LinearKeepsInv, GenericKeepsInv DEF Byte
<1>2. CASE StoreIncrement
  <2>1. increment' \in Nat /\ applying' = TRUE
    <3>1. \A wanted \in Wanted : IncrementFor(total, wanted) \in Nat
      <4>1. SUFFICES ASSUME NEW wanted \in Wanted
                     PROVE  IncrementFor(total, wanted) \in Nat
        OBVIOUS
      <4> DEFINE raw == Udiv(total, AtLeast(wanted, 1))
      <4>2. total \in Nat /\ AtLeast(wanted, 1) \in Nat \ {0}
        BY WantedAssumption DEF Inv, TypeOK, AtLeast
      <4>3. raw \in Nat
        BY <4>2 DEF Udiv
      <4>4. IncrementFor(total, wanted) = AtMost(AtLeast(raw, MinIncrement), total)
        BY DEF IncrementFor
      <4> HIDE DEF raw
      <4> QED
        BY <4>2, <4>3, <4>4, MinIncrementAssumption DEF AtMost, AtLeast
    <3> QED
      BY <1>2, <3>1 DEF StoreIncrement
  <2>2. UNCHANGED <<shape, pos, envelope, interp, channel, out, total, extra,
                    events, late>>
    BY <1>2 DEF StoreIncrement
  <2> QED
    BY <2>1, <2>2 DEF Inv, TypeOK, EnvelopeInv, envelope, Base, Slot, Place, StartOf,
                      Diff
<1>3. CASE StoreExtra
  <2>1. applying' = FALSE /\ extra' \in Nat
    BY <1>3 DEF StoreExtra
  <2>2. UNCHANGED <<shape, pos, envelope, interp, channel, out, total, increment,
                    events, late>>
    BY <1>3 DEF StoreExtra
  <2> QED
    BY <2>1, <2>2 DEF Inv, TypeOK, EnvelopeInv, envelope, Base, Slot, Place, StartOf,
                      Diff
<1>4. CASE UNCHANGED vars
  BY <1>4 DEF vars, tuning, envelope, Inv, TypeOK, EnvelopeInv, Base, Slot, Place,
              StartOf, Diff
<1> QED
  BY <1>1, <1>2, <1>3, <1>4 DEF Next

LEMMA Invariance == Spec => []Inv
BY InitInv, NextInv, PTL DEF Spec

\* The envelope of the generic pattern fits its eight bits and never gets negative,
\* and what interp holds never does either, whatever the table and the increments
\* of the panel (pattern.c:630-638).
THEOREM TypeCorrect == Spec => []TypeOK
<1>1. Inv => TypeOK
  BY DEF Inv
<1> QED
  BY <1>1, Invariance, PTL

\* Every frame sees the same envelope, for every table (pattern.c:350-358).
THEOREM EnvelopeComesBack == Spec => []EnvelopeReturns
<1>1. Inv => EnvelopeReturns
  <2> SUFFICES ASSUME Inv, pos = 0
               PROVE  ctr = IF shape = "generic" /\ total # 0
                            THEN SlotLength \div 2 ELSE 0
    BY DEF EnvelopeReturns
  <2>1. Place = 0 /\ Slot = 0
    BY Sizes DEF Place, Slot
  <2>2. shape # "generic" => StartOf(Slot) = 0
    BY <2>1, Sizes, TableAssumption DEF StartOf
  <2>3. shape = "generic" => StartOf(Slot) = SlotLength \div 2
    BY DEF StartOf
  <2> QED
    BY <2>1, <2>2, <2>3 DEF Inv, EnvelopeInv
<1> QED
  BY <1>1, Invariance, PTL

-----------------------------------------------------------------------------
(***************************************************************************)
(* Channels that go round.                                                 *)
(***************************************************************************)
\* Going on from a number that has been wrapped.
LEMMA WrappedSum ==
  ASSUME NEW n \in Nat \ {0}, NEW a \in Int, NEW b \in Int
  PROVE  ((a % n) + b) % n = (a + b) % n
<1> DEFINE p == a \div n
           r == a % n
           q == (r + b) \div n
           t == (r + b) % n
           m == p + q
           s == a + b
<1>1. p \in Int /\ r \in 0 .. n - 1 /\ a = (n * p) + r
  BY Divided
<1> HIDE DEF p, r
<1>2. r + b \in Int
  BY <1>1
<1>3. q \in Int /\ t \in 0 .. n - 1 /\ r + b = (n * q) + t
  BY <1>2, Divided
<1> HIDE DEF q, t
<1>4. m \in Int /\ n * m = (n * p) + (n * q) /\ n * p \in Int /\ n * q \in Int
  BY <1>1, <1>3
<1>5. s \in Int /\ s = (n * m) + t /\ n * m \in Int
  BY <1>1, <1>3, <1>4
<1> HIDE DEF m, s
<1>6. n * m <= s
  BY <1>3, <1>5
<1>7. s < (n * m) + n
  BY <1>3, <1>5
<1>8. s % n = s - (n * m)
  BY <1>4, <1>5, <1>6, <1>7, DivisionIsUnique
<1>9. s % n = t
  BY <1>3, <1>5, <1>8
<1> QED
  BY <1>9 DEF t, r, s

\* Two numbers less than n apart do not wrap to the same one.
LEMMA WrappedApart ==
  ASSUME NEW n \in Nat \ {0}, NEW a \in Int, NEW b \in Int, a < b, b < a + n
  PROVE  a % n # b % n
<1> DEFINE p == a \div n
           q == b \div n
           r == a % n
<1>1. SUFFICES ASSUME b % n = r PROVE FALSE
  OBVIOUS
<1>2. p \in Int /\ q \in Int /\ r \in 0 .. n - 1
      /\ a = (n * p) + r /\ b = (n * q) + r
  BY <1>1, Divided
<1> HIDE DEF p, q, r
<1>3. n * p \in Int /\ n * q \in Int
  BY <1>2
<1>4. n * p < n * q /\ n * q < (n * p) + n
  BY <1>2, <1>3
<1>5. q <= p
  BY <1>2, <1>4, MultipleBelow
<1>6. n * q <= n * p
  BY <1>2, <1>5
<1> QED
  BY <1>3, <1>4, <1>6

\* The n channels that have fired last, the last one being c.
Fired(c, n) == {(c + j) % Channels : j \in 0 .. n - 1}

LEMMA FireTurns ==
  ASSUME TypeOK, NEW n \in Nat, Fire(n)
  PROVE  out' = Fired(channel', n)
<1>1. channel \in Int /\ Channels \in Nat \ {0}
  BY Sizes DEF TypeOK, AllChannels
<1>2. ASSUME NEW j \in Int
      PROVE  (channel' + j) % Channels = (channel - (n - j)) % Channels
  <2>1. channel' = (channel - n) % Channels
    BY DEF Fire, Moved
  <2>2. (((channel - n) % Channels) + j) % Channels
          = ((channel - n) + j) % Channels
    BY <1>1, channel - n \in Int, WrappedSum
  <2>3. (channel - n) + j = channel - (n - j)
    BY <1>1
  <2> QED
    BY <2>1, <2>2, <2>3
<1>3. out' = {(channel - k) % Channels : k \in 1 .. n}
  BY DEF Fire, Moved
<1>4. ASSUME NEW k \in 1 .. n
      PROVE  (channel - k) % Channels \in Fired(channel', n)
  <2>1. n - k \in 0 .. n - 1 /\ n - (n - k) = k /\ n - k \in Int
    OBVIOUS
  <2>2. (channel' + (n - k)) % Channels = (channel - k) % Channels
    BY <1>2, <2>1
  <2> QED
    BY <2>1, <2>2 DEF Fired
<1>5. ASSUME NEW j \in 0 .. n - 1
      PROVE  (channel' + j) % Channels \in out'
  <2>1. n - j \in 1 .. n /\ j \in Int
    OBVIOUS
  <2> QED
    BY <1>2, <1>3, <2>1
<1> QED
  BY <1>3, <1>4, <1>5 DEF Fired

\* No channel has its turn twice within Channels turns.
LEMMA TurnsApart ==
  ASSUME NEW c \in Int, NEW m \in Nat, NEW n \in Nat, m + n <= Channels
  PROVE  Fired(c, m) \cap {Moved(c, k) : k \in 1 .. n} = {}
<1>1. Channels \in Nat \ {0}
  BY Sizes
<1>2. ASSUME NEW j \in 0 .. m - 1, NEW k \in 1 .. n
      PROVE  (c + j) % Channels # (c - k) % Channels
  <2>1. c - k \in Int /\ c + j \in Int /\ c - k < c + j /\ c + j < (c - k) + Channels
    BY <1>1
  <2> QED
    BY <1>1, <2>1, WrappedApart
<1> QED
  BY <1>2 DEF Fired, Moved

-----------------------------------------------------------------------------
(***************************************************************************)
(* What a byte leaves for the next one to fire.                            *)
(***************************************************************************)
Fast == Threshold["fast_lin"]

\* fast_lin pays for its m pulses what interp has held: less than one pulse and
\* one value of the envelope.
TurnsInv ==
  \E m \in Nat :
    /\ out = Fired(channel, m)
    /\ shape # "fast_lin" => m <= 1
    /\ shape = "fast_lin" =>
         interp < Fast /\ (m * Fast) + interp <= Fast + MaxEnv

\* After a pulse of generic no more is left than less than one value of the
\* envelope, unless the frame began with a rest.
GenericInv ==
  ~late => /\ pos # 0 => interp < Clamped(increment)
           /\ out # {} => interp < MaxEnv

PulseInv ==
  /\ extra \in {0, 1}
  /\ shape # "generic" => TurnsInv
  /\ shape = "generic" => GenericInv

LEMMA FastType == Fast \in Nat \ {0}
BY ThresholdAssumption DEF Fast, Names, Linear

LEMMA InitPulses == Init => PulseInv
<1> SUFFICES ASSUME Init PROVE PulseInv
  OBVIOUS
<1>1. extra \in {0, 1} /\ interp = 0 /\ out = {} /\ pos = 0
  BY DEF Init
<1>2. TurnsInv
  <2>1. out = Fired(channel, 0)
    BY <1>1 DEF Fired
  <2>2. 0 < Fast /\ (0 * Fast) + 0 <= Fast + MaxEnv
    BY FastType, Sizes
  <2> QED
    BY <1>1, <2>1, <2>2 DEF TurnsInv
<1>3. GenericInv
  BY <1>1 DEF GenericInv
<1> QED
  BY <1>1, <1>2, <1>3 DEF PulseInv

\* The patterns that make one pulse at most.
LEMMA SinglePulse ==
  ASSUME Inv, PulseInv, shape # "generic", shape # "fast_lin", UNCHANGED <<shape, extra>>,
         NEW n \in 0 .. 1, Fire(n)
  PROVE  PulseInv' /\ out \cap out' = {}
<1>1. TypeOK /\ TurnsInv /\ n \in Nat /\ channel \in Int
  BY Sizes DEF Inv, PulseInv, TypeOK, AllChannels
<1>2. PICK m \in Nat : out = Fired(channel, m) /\ m <= 1
  BY <1>1 DEF TurnsInv
<1>3. out' = Fired(channel', n)
  BY <1>1, FireTurns
<1>4. TurnsInv'
  BY <1>1, <1>3 DEF TurnsInv
<1>5. m + n <= Channels
  BY <1>2, Sizes, ApartAssumption
<1>6. Fired(channel, m) \cap {Moved(channel, k) : k \in 1 .. n} = {}
  BY <1>1, <1>5, TurnsApart
<1>7. out \cap out' = {}
  BY <1>2, <1>6 DEF Fire
<1> QED
  BY <1>4, <1>7 DEF PulseInv

LEMMA StepPulses ==
  Inv /\ PulseInv /\ StepByte /\ UNCHANGED shape => PulseInv' /\ out \cap out' = {}
<1> SUFFICES ASSUME Inv, PulseInv, StepByte, UNCHANGED shape
             PROVE  PulseInv' /\ out \cap out' = {}
  OBVIOUS
<1> DEFINE n == IF interp + LookedUp >= Threshold[shape] THEN 1 ELSE 0
<1>1. n \in 0 .. 1 /\ Fire(n) /\ shape = "step" /\ extra' = extra
  BY DEF StepByte, tuning
<1> HIDE DEF n
<1> QED
  BY <1>1, SinglePulse

\* Between two values of the envelope fast_lin owes no more than Channels pulses.
LEMMA FastPulses ==
  ASSUME Inv, PulseInv, Inv', shape = "fast_lin", UNCHANGED <<shape, extra>>,
         NEW n \in Nat, n = (interp + cenv') \div Fast, Fire(n),
         interp' = (interp + cenv') - (n * Fast)
  PROVE  PulseInv' /\ out \cap out' = {}
<1>1. TypeOK /\ TurnsInv /\ channel \in Int
  BY Sizes DEF Inv, PulseInv, TypeOK, AllChannels
<1>2. PICK m \in Nat : /\ out = Fired(channel, m) /\ interp < Fast
                       /\ (m * Fast) + interp <= Fast + MaxEnv
  BY <1>1 DEF TurnsInv
<1>3. PICK v \in Nat : v = cenv' /\ v <= MaxEnv + 1
  BY Sizes DEF Inv, TypeOK, Linear
<1>4. PICK u \in Nat : u = interp
  BY <1>1 DEF TypeOK
<1>5. PICK r \in Nat : r = interp' /\ r < Fast /\ (n * Fast) + r = u + v
  <2>1. /\ (u + v) % Fast \in 0 .. Fast - 1
        /\ u + v = (Fast * ((u + v) \div Fast)) + ((u + v) % Fast)
    BY <1>3, <1>4, u + v \in Int, FastType, Divided
  <2>2. n = (u + v) \div Fast
    BY <1>3, <1>4
  <2>3. interp' = (u + v) - (n * Fast)
    BY <1>3, <1>4
  <2>4. n * Fast = Fast * n /\ n * Fast \in Int /\ u + v \in Int
    BY FastType
  <2>5. u + v = (n * Fast) + ((u + v) % Fast)
    BY <2>1, <2>2, <2>4
  <2>6. interp' = (u + v) % Fast
    BY <2>1, <2>3, <2>4, <2>5
  <2> QED
    BY <2>1, <2>5, <2>6, FastType
<1>6. TurnsInv'
  <2>1. out' = Fired(channel', n)
    BY <1>1, FireTurns
  <2>2. n * Fast \in Nat
    BY FastType
  <2>3. (n * Fast) + r <= Fast + MaxEnv
    BY <1>2, <1>3, <1>4, <1>5, <2>2, FastType, Sizes
  <2>4. Fast' = Fast
    BY DEF Fast
  <2> QED
    BY <1>5, <2>1, <2>3 DEF TurnsInv, Fast
<1>7. m + n <= Channels
  <2> DEFINE x == m * Fast
             y == n * Fast
             z == Channels * Fast
  <2>1. x \in Nat /\ y \in Nat /\ z \in Nat
    BY FastType, Sizes
  <2>2. x + u <= Fast + MaxEnv /\ y + r = u + v /\ 2 * (MaxEnv + 1) <= z
    BY <1>2, <1>4, <1>5, ApartAssumption DEF Fast
  <2>3. Fast * (m + n) = x + y /\ Fast * Channels = z
    BY FastType, Sizes
  <2> HIDE DEF x, y, z
  <2>4. x + y < z + Fast
    BY <1>3, <1>5, <2>1, <2>2, FastType, Sizes
  <2>5. m + n \in Int /\ Channels \in Int
    BY Sizes
  <2>6. Fast * (m + n) < (Fast * Channels) + Fast
    BY <2>3, <2>4
  <2> QED
    BY <2>5, <2>6, FastType, MultipleBelow
<1>8. Fired(channel, m) \cap {Moved(channel, k) : k \in 1 .. n} = {}
  BY <1>1, <1>7, TurnsApart
<1>9. out \cap out' = {}
  BY <1>2, <1>8 DEF Fire
<1> QED
  BY <1>6, <1>9 DEF PulseInv

LEMMA LinearPulses ==
  Inv /\ Inv' /\ PulseInv /\ LinearByte /\ UNCHANGED shape
    => PulseInv' /\ out \cap out' = {}
<1> SUFFICES ASSUME Inv, Inv', PulseInv, LinearByte, UNCHANGED shape
             PROVE  PulseInv' /\ out \cap out' = {}
  OBVIOUS
<1> DEFINE t == Threshold[shape]
           owed == (interp + cenv') \div t
           n == IF shape # "fast_lin" /\ owed > 1 THEN 1 ELSE owed
<1>1. /\ shape # "generic" /\ extra' = extra /\ Fire(n)
      /\ interp' = (interp + cenv') - (n * t)
  BY DEF LinearByte, Linear, tuning
<1>2. owed \in Nat
  <2>1. t \in Nat \ {0}
    BY ThresholdAssumption DEF LinearByte, Names, Linear
  <2>2. PICK v \in Nat : v = cenv'
    BY Sizes DEF Inv, TypeOK
  <2>3. PICK u \in Nat : u = interp
    BY DEF Inv, TypeOK
  <2> HIDE DEF t
  <2>4. u + v \in Nat /\ (u + v) \div t \in Nat
    BY <2>1
  <2> QED
    BY <2>2, <2>3, <2>4
<1>3. CASE shape = "fast_lin"
  <2>1. t = Fast /\ n = owed
    BY <1>3 DEF Fast
  <2> HIDE DEF n, t
  <2> QED
    BY <1>1, <1>2, <1>3, <2>1, FastPulses
<1>4. CASE shape # "fast_lin"
  <2>1. n \in 0 .. 1
    BY <1>2, <1>4
  <2> HIDE DEF n
  <2> QED
    BY <1>1, <1>4, <2>1, SinglePulse
<1> QED
  BY <1>3, <1>4

\* In its first byte the frame of generic does not reach the envelope's maximum.
LEMMA FirstByteIsLow ==
  ASSUME Inv, Inv', GenericByte, UNCHANGED shape, pos = 0
  PROVE  cenv' <= 1
<1> DEFINE c == IF total = 0 THEN SlotLength \div 2 ELSE ctr
<1>1. TypeOK /\ Base = SlotLength /\ Place = 0 /\ Slot = 0 /\ LookedUp = 0
  <2>1. 0 % SlotLength = 0 /\ 0 \div SlotLength = 0
    BY Sizes
  <2>2. Place = 0 /\ Slot = 0
    BY <2>1 DEF Place, Slot
  <2> QED
    BY <2>2, TableAssumption DEF Inv, GenericByte, Base, LookedUp, Place
<1>2. c = SlotLength \div 2
  BY <1>1 DEF Inv, EnvelopeInv, GenericByte, StartOf
<1>3. cenv' = (c + Diff(0)) \div SlotLength
  <2>1. cenv' = LookedUp + ((c + Diff(Slot)) \div Base)
    BY DEF GenericByte, Interpolate
  <2>2. c + Diff(0) \in Int
    <3> HIDE DEF c
    <3>1. 0 \in 0 .. Slots - 1 /\ c \in Int
      <4>1. SlotLength \div 2 \in Int
        BY Sizes
      <4> QED
        BY <1>2, <4>1, Sizes
    <3>2. Diff(0) = Env[(0 + 1) % Slots] - Env[0] /\ Env[(0 + 1) % Slots] \in 0 .. MaxEnv
          /\ Env[0] = 0
      BY <3>1, EnvType, TableAssumption
    <3>3. Diff(0) \in Int
      BY <3>2, Sizes
    <3> QED
      BY <3>1, <3>3
  <2>3. (c + Diff(0)) \div SlotLength \in Int
    BY <2>2, Sizes, Divided
  <2> HIDE DEF c
  <2> QED
    BY <1>1, <2>1, <2>3
<1> HIDE DEF c
<1>4. Diff(0) \in 0 .. MaxEnv
  <2>1. 0 \in 0 .. Slots - 1
    BY Sizes
  <2>2. Diff(0) = Env[(0 + 1) % Slots] - Env[0] /\ Env[(0 + 1) % Slots] \in 0 .. MaxEnv
    BY <2>1, EnvType
  <2> QED
    BY <2>2, TableAssumption, Sizes
<1>5. PICK d \in Nat : d = Diff(0) /\ d < SlotLength
  BY <1>4, Sizes
<1>6. PICK h \in Nat : h = c /\ h < SlotLength
  BY <1>2, Sizes
<1>7. PICK q \in Int : q = (h + d) \div SlotLength /\ SlotLength * q <= h + d
  BY Sizes, h + d \in Int, Divided
<1>8. q <= 1
  <2>1. SlotLength * q < (SlotLength * 1) + SlotLength
    <3>1. SlotLength * q \in Int
      BY Sizes
    <3> QED
      BY <1>5, <1>6, <1>7, <3>1, Sizes
  <2> QED
    BY <2>1, Sizes, MultipleBelow
<1> QED
  BY <1>3, <1>5, <1>6, <1>7, <1>8

\* Twice the envelope has to come together between two pulses of generic.
LEMMA GenericPulses ==
  ASSUME Inv, Inv', PulseInv, GenericByte, UNCHANGED shape
  PROVE  PulseInv' /\ (~late /\ ~late' => out \cap out' = {})
<1>1. /\ shape = "generic" /\ extra' = extra /\ extra \in {0, 1}
      /\ increment' = Clamped(increment)
      /\ late' = IF pos = 0 THEN interp >= Clamped(increment) ELSE late
      /\ (~late => GenericInv)
  BY DEF GenericByte, PulseInv
<1>2. PICK inc \in Nat : inc = Clamped(increment) /\ inc >= 2 * MaxEnv
                         /\ Clamped(increment)' = inc
  <2>1. increment \in Nat
    BY DEF Inv, TypeOK
  <2> QED
    BY <1>1, <2>1, MinIncrementAssumption, ApartAssumption, Sizes DEF Clamped, AtLeast
<1>3. PICK u \in Nat : u = interp
  BY DEF Inv, TypeOK
<1>4. PICK v \in Nat : v = cenv' /\ v <= MaxEnv /\ (pos = 0 => v <= 1)
  <2>1. cenv' \in 0 .. MaxEnv
    BY <1>1 DEF Inv, TypeOK, Linear
  <2> QED
    BY <2>1, FirstByteIsLow, Sizes
<1>5. PICK x \in 0 .. 1 : x = ExtraAtStart /\ (pos # 0 => x = 0)
  BY <1>1 DEF ExtraAtStart
<1>6. /\ interp' = IF (u + x) + v >= inc THEN ((u + x) + v) - inc ELSE (u + x) + v
      /\ out' = IF (u + x) + v >= inc THEN AllChannels ELSE {}
  <2>1. interp + ExtraAtStart + cenv' = (u + x) + v
    BY <1>3, <1>4, <1>5
  <2> QED
    BY <1>2, <2>1 DEF GenericByte
<1>7. MaxEnv > 1 /\ MaxEnv \in Nat
  BY ApartAssumption, Sizes
<1>8. x + v <= MaxEnv
  <2>1. CASE pos = 0
    <3>1. v <= 1 /\ x <= 1
      BY <1>4, <2>1
    <3> QED
      BY <1>7, <3>1
  <2>2. CASE pos # 0
    BY <1>4, <1>5, <2>2
  <2> QED
    BY <2>1, <2>2
<1>9. ASSUME ~late' PROVE u < inc
  <2>1. CASE pos = 0
    <3>1. late' = (u >= inc)
      BY <1>1, <1>2, <1>3, <2>1, Zenon
    <3>2. ~(u >= inc)
      BY <1>9, <3>1, Zenon
    <3> QED
      BY <3>2
  <2>2. CASE pos # 0
    <3>1. ~late
      BY <1>1, <1>9, <2>2, Zenon
    <3> QED
      BY <1>1, <1>2, <1>3, <2>2, <3>1 DEF GenericInv
  <2> QED
    BY <2>1, <2>2
<1>10. ASSUME ~late' PROVE interp' < inc /\ (out' # {} => interp' < MaxEnv)
  <2>1. u < inc
    BY <1>9, <1>10
  <2>2. x + v <= MaxEnv
    BY <1>8
  <2>3. CASE (u + x) + v >= inc
    BY <1>2, <1>6, <1>7, <2>1, <2>2, <2>3
  <2>4. CASE ~((u + x) + v >= inc)
    BY <1>6, <2>4
  <2> QED
    BY <2>3, <2>4
<1>11. PulseInv'
  BY <1>1, <1>2, <1>10 DEF PulseInv, GenericInv
<1>12. ASSUME ~late, ~late', out # {} PROVE out' = {}
  <2>1. u < MaxEnv
    BY <1>1, <1>3, <1>12 DEF GenericInv
  <2>2. x + v <= MaxEnv
    BY <1>8
  <2>3. (u + x) + v < inc
    BY <1>2, <1>7, <2>1, <2>2
  <2> QED
    BY <1>2, <1>6, <2>3
<1> QED
  BY <1>11, <1>12

LEMMA NextPulses ==
  Inv /\ Inv' /\ PulseInv /\ [Next]_vars
    => PulseInv' /\ (pos' # pos /\ ~late /\ ~late' => out \cap out' = {})
<1> SUFFICES ASSUME Inv, Inv', PulseInv, [Next]_vars
             PROVE  PulseInv' /\ (pos' # pos /\ ~late /\ ~late' => out \cap out' = {})
  OBVIOUS
<1>1. CASE Byte
  BY <1>1, StepPulses, LinearPulses, GenericPulses DEF Byte
<1>2. CASE StoreIncrement
  <2>1. UNCHANGED <<shape, pos, interp, channel, out, extra, late>> /\ pos = 0
    BY <1>2 DEF StoreIncrement
  <2> QED
    BY <2>1 DEF PulseInv, TurnsInv, GenericInv
<1>3. CASE StoreExtra
  <2>1. UNCHANGED <<shape, pos, interp, channel, out, increment, late>>
        /\ extra' \in {0, 1}
    BY <1>3 DEF StoreExtra
  <2> QED
    BY <2>1 DEF PulseInv, TurnsInv, GenericInv
<1>4. CASE UNCHANGED vars
  BY <1>4 DEF vars, tuning, PulseInv, TurnsInv, GenericInv
<1> QED
  BY <1>1, <1>2, <1>3, <1>4 DEF Next

\* No channel fires in two bytes on end, whatever the table, as long as the least
\* increment is twice its maximum and the threshold of fast_lin is high enough for
\* the number of channels (pattern.c:361, 564).
THEOREM EveryPulseEnds == Spec => PulsesApart
<1>1. Inv /\ Inv' /\ PulseInv /\ [Next]_vars
        => [pos' # pos /\ ~late /\ ~late' => out \cap out' = {}]_vars
  BY NextPulses
<1>2. Inv /\ Inv' /\ PulseInv /\ [Next]_vars => PulseInv'
  BY NextPulses
<1> QED
  BY <1>1, <1>2, InitPulses, Invariance, PTL DEF Spec, PulsesApart
-----------------------------------------------------------------------------
(***************************************************************************)
(* What a frame of generic comes to.                                       *)
(***************************************************************************)
LEMMA ValueType ==
  ASSUME NEW p \in 0 .. FrameLength - 1
  PROVE  Value(p) \in Int
<1> DEFINE slot == p \div SlotLength
           gained == ((p % SlotLength) + 1) * Diff(slot)
           half == SlotLength \div 2
<1>1. slot \in 0 .. Slots - 1 /\ p % SlotLength \in 0 .. SlotLength - 1
  BY NextByte
<1>2. /\ Env[slot] \in 0 .. MaxEnv /\ Env[(slot + 1) % Slots] \in 0 .. MaxEnv
      /\ Diff(slot) = Env[(slot + 1) % Slots] - Env[slot]
  BY <1>1, EnvType
<1>3. Diff(slot) \in Int /\ Env[slot] \in Int
  <2> HIDE DEF slot
  <2> QED
    BY <1>2, Sizes
<1>4. gained \in Int /\ half \in Int
  <2> HIDE DEF slot
  <2> QED
    BY <1>1, <1>3, Sizes
<1>5. Value(p) = Env[slot] + ((half + gained) \div SlotLength)
  BY DEF Value
<1> HIDE DEF slot, gained, half
<1>6. (half + gained) \div SlotLength \in Int
  <2>1. half + gained \in Int
    BY <1>4
  <2> QED
    BY <2>1, Sizes, Divided
<1> QED
  BY <1>3, <1>5, <1>6

\* A function that adds up the first n bytes.
AddsUp(f, n) ==
  /\ f \in [0 .. n -> Int]
  /\ f[0] = 0
  /\ \A p \in 0 .. n - 1 : f[p + 1] = f[p] + Value(p)

\* There is one for every n: a least n without one cannot be.
LEMMA SumsExist ==
  ASSUME NEW n \in 0 .. FrameLength
  PROVE  \E f : AddsUp(f, n)
<1> DEFINE T == {m \in 0 .. FrameLength : ~ \E f : AddsUp(f, m)}
<1>1. FrameLength \in Nat \ {0}
  BY Sizes DEF FrameLength
<1>2. SUFFICES ASSUME T # {} PROVE FALSE
  OBVIOUS
<1>3. PICK m \in T : \A k \in T : ~(<<k, m>> \in OpToRel(<, Nat))
  <2>1. T \subseteq Nat
    BY <1>1
  <2> HIDE DEF T
  <2> QED
    BY <1>2, <2>1, NatLessThanWellFounded, WFMin
<1>4. m \in 0 .. FrameLength /\ ~ \E f : AddsUp(f, m)
  OBVIOUS
<1>5. \A k \in 0 .. FrameLength : k < m => \E f : AddsUp(f, k)
  <2> SUFFICES ASSUME NEW k \in 0 .. FrameLength, k < m, ~ \E f : AddsUp(f, k)
               PROVE  FALSE
    OBVIOUS
  <2>1. <<k, m>> \in OpToRel(<, Nat)
    BY <1>1, <1>4 DEF OpToRel
  <2>2. k \in T
    OBVIOUS
  <2> QED
    BY <1>3, <2>1, <2>2
<1> HIDE DEF T
<1>6. CASE m = 0
  <2> DEFINE g == [p \in 0 .. 0 |-> 0]
  <2>1. AddsUp(g, 0)
    BY DEF AddsUp
  <2> QED
    BY <1>4, <1>6, <2>1
<1>7. CASE m # 0
  <2>1. m - 1 \in 0 .. FrameLength /\ m - 1 < m /\ m \in Nat
    BY <1>1, <1>4, <1>7
  <2>2. PICK f : AddsUp(f, m - 1)
    BY <1>5, <2>1
  <2>3. /\ f \in [0 .. m - 1 -> Int]
        /\ f[0] = 0
        /\ \A p \in 0 .. (m - 1) - 1 : f[p + 1] = f[p] + Value(p)
    BY <2>2 DEF AddsUp
  <2>4. Value(m - 1) \in Int
    <3>1. m - 1 \in 0 .. FrameLength - 1
      BY <1>1, <1>4, <2>1
    <3> QED
      BY <3>1, ValueType
  <2> DEFINE g == [p \in 0 .. m |-> IF p = m THEN f[m - 1] + Value(m - 1) ELSE f[p]]
  <2>5. f[m - 1] \in Int
    BY <1>7, <2>1, <2>3
  <2>6. g \in [0 .. m -> Int]
    BY <2>1, <2>3, <2>4, <2>5
  <2>7. g[0] = 0
    BY <1>7, <2>1, <2>3
  <2>8. ASSUME NEW p \in 0 .. m - 1 PROVE g[p + 1] = g[p] + Value(p)
    <3>1. CASE p = m - 1
      <4>1. p + 1 = m /\ p # m /\ p \in 0 .. m /\ p + 1 \in 0 .. m
        BY <1>7, <2>1, <3>1
      <4>2. g[p + 1] = f[m - 1] + Value(m - 1) /\ g[p] = f[p]
        BY <4>1
      <4> QED
        BY <3>1, <4>2
    <3>2. CASE p # m - 1
      <4>1. /\ p \in 0 .. (m - 1) - 1 /\ p # m /\ p + 1 # m
            /\ p \in 0 .. m /\ p + 1 \in 0 .. m
        BY <1>7, <2>1, <3>2
      <4>2. g[p + 1] = f[p + 1] /\ g[p] = f[p]
        BY <4>1
      <4> QED
        BY <2>3, <4>1, <4>2
    <3> QED
      BY <3>1, <3>2
  <2>9. AddsUp(g, m)
    BY <2>6, <2>7, <2>8 DEF AddsUp
  <2> QED
    BY <1>4, <2>9
<1> QED
  BY <1>6, <1>7

LEMMA SumsAddUp == AddsUp(Sums, FrameLength)
<1> DEFINE Follows(f) ==
      f = [p \in 0 .. FrameLength |-> IF p = 0 THEN 0 ELSE f[p - 1] + Value(p - 1)]
<1>1. FrameLength \in Nat \ {0}
  BY Sizes DEF FrameLength
<1>2. PICK g : AddsUp(g, FrameLength)
  <2>1. FrameLength \in 0 .. FrameLength
    BY <1>1
  <2> QED
    BY <2>1, SumsExist
<1>3. g \in [0 .. FrameLength -> Int] /\ g[0] = 0
      /\ \A p \in 0 .. FrameLength - 1 : g[p + 1] = g[p] + Value(p)
  BY <1>2 DEF AddsUp
<1>4. Follows(g)
  <2>1. ASSUME NEW p \in 0 .. FrameLength
        PROVE  g[p] = IF p = 0 THEN 0 ELSE g[p - 1] + Value(p - 1)
    <3>1. CASE p = 0
      BY <1>3, <3>1
    <3>2. CASE p # 0
      <4>1. p - 1 \in 0 .. FrameLength - 1 /\ (p - 1) + 1 = p
        BY <1>1, <3>2
      <4>2. g[(p - 1) + 1] = g[p - 1] + Value(p - 1)
        BY <1>3, <4>1
      <4> QED
        BY <3>2, <4>1, <4>2
    <3> QED
      BY <3>1, <3>2
  <2> QED
    BY <1>3, <2>1
<1>5. Follows(Sums)
  <2>1. Sums = CHOOSE f : Follows(f)
    BY DEF Sums
  <2> QED
    BY <1>4, <2>1
<1> DEFINE s == Sums
<1>6. Follows(s)
  BY <1>5
<1> HIDE DEF s
<1>7. s[0] = 0
  BY <1>1, <1>6
<1>8. ASSUME NEW p \in 0 .. FrameLength - 1 PROVE s[p + 1] = s[p] + Value(p)
  <2>1. p + 1 \in 0 .. FrameLength /\ p + 1 # 0 /\ (p + 1) - 1 = p
    BY <1>1
  <2> QED
    BY <1>6, <2>1
<1>9. s = g
  <2> DEFINE D == {p \in 0 .. FrameLength : s[p] # g[p]}
  <2>1. SUFFICES ASSUME D # {} PROVE FALSE
    <3>1. s = [p \in 0 .. FrameLength |-> s[p]]
      BY <1>6
    <3>2. g = [p \in 0 .. FrameLength |-> g[p]]
      BY <1>3
    <3> HIDE DEF Follows
    <3> QED
      BY <3>1, <3>2
  <2>2. PICK p \in D : \A k \in D : ~(<<k, p>> \in OpToRel(<, Nat))
    <3>1. D \subseteq Nat
      BY <1>1
    <3> HIDE DEF D
    <3> QED
      BY <2>1, <3>1, NatLessThanWellFounded, WFMin
  <2>3. p \in 0 .. FrameLength /\ s[p] # g[p] /\ p # 0
    BY <1>3, <1>7
  <2>4. p - 1 \in 0 .. FrameLength - 1 /\ (p - 1) + 1 = p /\ p - 1 \in 0 .. FrameLength
    BY <1>1, <2>3
  <2>5. p - 1 \notin D
    <3>1. <<p - 1, p>> \in OpToRel(<, Nat)
      BY <1>1, <2>3 DEF OpToRel
    <3> HIDE DEF D
    <3> QED
      BY <2>2, <3>1
  <2>6. s[p - 1] = g[p - 1]
    BY <2>4, <2>5
  <2>7. s[(p - 1) + 1] = s[p - 1] + Value(p - 1)
    BY <1>8, <2>4
  <2>8. g[(p - 1) + 1] = g[p - 1] + Value(p - 1)
    BY <1>3, <2>4
  <2> QED
    BY <2>3, <2>4, <2>6, <2>7, <2>8
<1> QED
  BY <1>2, <1>9 DEF s
\* The envelope of a byte of generic is what Value says.
LEMMA ByteValue ==
  ASSUME Inv, GenericByte, UNCHANGED shape
  PROVE  cenv' = Value(pos)
<1> DEFINE c == IF total = 0 THEN SlotLength \div 2 ELSE ctr
           s == Slot
           half == SlotLength \div 2
           gained == (Place + 1) * Diff(Slot)
           g == cenv' - Env[Slot]
<1>1. /\ TypeOK /\ shape = "generic" /\ Base = SlotLength
      /\ total' = IF total = 0 THEN Total ELSE total
      /\ Interpolate(c + Diff(Slot))
      /\ pos' = (pos + 1) % FrameLength
  BY DEF Inv, GenericByte, Advance, Base
<1>2. total' # 0
  BY <1>1, TotalAssumption
<1>3. c \in Int
  BY <1>1, BaseType, Sizes DEF TypeOK
<1>4. /\ (Base * (cenv' - Env[Slot])) + ctr' = StartOf(Slot) + ((Place + 1) * Diff(Slot))
      /\ ctr' \in 0 .. Base - 1
      /\ cenv' \in 0 .. (IF shape \in Linear THEN MaxEnv + 1 ELSE MaxEnv)
  <2>1. c = IF shape = "generic" /\ total = 0 THEN SlotLength \div 2 ELSE ctr
    BY <1>1
  <2> HIDE DEF c
  <2> QED
    BY <1>1, <1>2, <1>3, <2>1, EnvelopeStep
<1>5. /\ (SlotLength * g) + ctr' = half + gained
      /\ ctr' \in 0 .. SlotLength - 1
  BY <1>1, <1>4 DEF StartOf
<1>6. s \in 0 .. Slots - 1 /\ Place \in 0 .. SlotLength - 1
  BY <1>1, NextByte DEF TypeOK, Slot, Place
<1>7. Env[s] \in Int /\ Diff(s) \in Int
  <2> HIDE DEF s
  <2>1. /\ Env[s] \in 0 .. MaxEnv /\ Env[(s + 1) % Slots] \in 0 .. MaxEnv
        /\ Diff(s) = Env[(s + 1) % Slots] - Env[s]
    BY <1>6, EnvType
  <2> QED
    BY <2>1, Sizes
<1>8. cenv' \in Int
  BY <1>4, Sizes
<1>9. g \in Int /\ cenv' = Env[Slot] + g
  BY <1>7, <1>8
<1>10. gained \in Int /\ half \in Int
  <2>1. Place + 1 \in Int
    BY <1>6
  <2> QED
    BY <1>7, <2>1, Sizes
<1>11. Value(pos) = Env[Slot] + ((half + gained) \div SlotLength)
  BY DEF Value, Slot, Place
<1> HIDE DEF g, half, gained
<1>12. (half + gained) \div SlotLength = g
  <2>1. half + gained \in Int /\ SlotLength * g \in Int
    BY <1>9, <1>10, Sizes
  <2>2. SlotLength * g <= half + gained /\ half + gained < (SlotLength * g) + SlotLength
    BY <1>5, <2>1, Sizes
  <2> QED
    BY <1>9, <2>1, <2>2, Sizes, DivisionIsUnique
<1> QED
  BY <1>9, <1>11, <1>12

-----------------------------------------------------------------------------
(***************************************************************************)
(* Every pulse of a frame is paid with an increment: pulses and rest are   *)
(* what the frame began with and has come to.                              *)
(***************************************************************************)
FrameInv ==
  /\ total \in {0, Total}
  /\ shape = "generic" /\ pos # 0 /\ ~late =>
       /\ total = Total
       /\ increment >= MinIncrement
       /\ \E start \in 0 .. increment - 1 :
            interp + (events * increment) = (start + extra) + Sums[pos]

\* A byte adds its envelope and takes an increment for its pulse.
LEMMA BytePaid ==
  ASSUME Inv, Inv', PulseInv, FrameInv, GenericByte, UNCHANGED shape, ~late'
  PROVE  /\ pos # FrameLength - 1 => pos' = pos + 1
         /\ pos = FrameLength - 1 => pos # 0
         /\ total' = Total /\ extra' = extra
         /\ pos # 0 => ~late /\ increment' = increment
         /\ increment' >= MinIncrement
         /\ interp' \in 0 .. increment' - 1
         /\ \E start \in 0 .. increment' - 1 :
              interp' + (events' * increment') = (start + extra') + Sums[pos + 1]
<1>1. /\ shape = "generic" /\ extra' = extra /\ extra \in {0, 1}
      /\ increment' = Clamped(increment)
      /\ late' = IF pos = 0 THEN interp >= Clamped(increment) ELSE late
      /\ pos' = (pos + 1) % FrameLength
      /\ total' = IF total = 0 THEN Total ELSE total
  BY DEF GenericByte, PulseInv, Advance
<1>2. pos \in 0 .. FrameLength - 1 /\ interp \in Nat /\ events \in Nat /\ increment \in Nat
  BY DEF Inv, TypeOK
<1>3. FrameLength \in Nat /\ FrameLength > 1
  <2>1. SlotLength > 1 /\ FrameLength = Slots * SlotLength
    BY Sizes DEF FrameLength
  <2>2. Slots * SlotLength >= SlotLength
    BY Sizes
  <2> QED
    BY <2>1, <2>2, Sizes
<1>4. pos # FrameLength - 1 => pos' = pos + 1
  <2>1. pos # FrameLength - 1 => pos + 1 \in 0 .. FrameLength - 1
    BY <1>2, <1>3
  <2>2. FrameLength \in Nat \ {0}
    BY <1>3
  <2> QED
    BY <1>1, <2>1, <2>2, NoRemainder
<1>5. pos = FrameLength - 1 => pos # 0
  BY <1>3
<1>6. total' = Total
  BY <1>1 DEF FrameInv
<1>7. PICK inc \in Nat : inc = Clamped(increment) /\ inc >= MinIncrement /\ increment' = inc
                         /\ (increment >= MinIncrement => inc = increment)
  <2>1. Clamped(increment) = IF increment < MinIncrement THEN MinIncrement ELSE increment
    BY DEF Clamped, AtLeast
  <2>2. CASE increment < MinIncrement
    <3>1. Clamped(increment) = MinIncrement /\ ~(increment >= MinIncrement)
      BY <1>2, <2>1, <2>2, MinIncrementAssumption
    <3> QED
      BY <1>1, <3>1, MinIncrementAssumption
  <2>3. CASE ~(increment < MinIncrement)
    <3>1. Clamped(increment) = increment /\ increment >= MinIncrement
      BY <1>2, <2>1, <2>3, MinIncrementAssumption
    <3> QED
      BY <1>1, <1>2, <3>1
  <2> QED
    BY <2>2, <2>3
<1>8. PICK u \in Nat : u = interp
  BY <1>2
<1>9. pos # 0 => ~late
  BY <1>1, Zenon
<1>10. u < inc
  <2>1. CASE pos = 0
    <3>1. late' = (u >= inc)
      BY <1>1, <1>7, <1>8, <2>1, Zenon
    <3>2. ~(u >= inc)
      BY <3>1, Zenon
    <3> QED
      BY <3>2
  <2>2. CASE pos # 0
    BY <1>1, <1>7, <1>8, <1>9, <2>2 DEF PulseInv, GenericInv
  <2> QED
    BY <2>1, <2>2
<1>11. pos # 0 => increment' = increment
  BY <1>1, <1>7, <1>9 DEF FrameInv
<1>12. PICK v \in 0 .. MaxEnv : v = cenv' /\ v = Value(pos)
  <2>1. cenv' \in 0 .. MaxEnv
    BY <1>1 DEF Inv, TypeOK, Linear
  <2> QED
    BY <2>1, ByteValue
<1>13. PICK x \in 0 .. 1 : x = ExtraAtStart /\ x = IF pos = 0 THEN extra ELSE 0
  BY <1>1 DEF ExtraAtStart
<1> DEFINE n == IF (u + x) + v >= inc THEN 1 ELSE 0
<1>14. interp' = ((u + x) + v) - (n * inc)
       /\ events' = IF pos = 0 THEN n ELSE events + n
  <2>1. interp + ExtraAtStart + cenv' = (u + x) + v
    BY <1>8, <1>12, <1>13
  <2> QED
    BY <1>7, <2>1 DEF GenericByte, Advance
<1>15. MaxEnv \in Nat /\ MaxEnv > 1 /\ inc >= 2 * MaxEnv
  BY <1>7, Sizes, ApartAssumption, MinIncrementAssumption
<1>16. interp' \in 0 .. inc - 1
  <2>1. CASE (u + x) + v >= inc
    BY <1>10, <1>14, <1>15, <2>1
  <2>2. CASE ~((u + x) + v >= inc)
    BY <1>14, <1>15, <2>2
  <2> QED
    BY <2>1, <2>2
<1>17. n \in 0 .. 1
  OBVIOUS
<1> HIDE DEF n
<1>18. AddsUp(Sums, FrameLength)
  BY SumsAddUp
<1>19. \E start \in 0 .. inc - 1 :
         interp' + (events' * inc) = (start + extra) + Sums[pos + 1]
  <2>1. Sums[0] = 0 /\ Sums[pos + 1] = Sums[pos] + Value(pos) /\ Sums[pos] \in Int
    BY <1>2, <1>3, <1>18 DEF AddsUp
  <2>2. PICK before \in Int : before = Sums[pos]
    BY <2>1
  <2>3. PICK after \in Int : after = Sums[pos + 1] /\ after = before + v
    BY <1>12, <2>1, <2>2
  <2>4. CASE pos = 0
    <3>1. interp' = ((u + extra) + v) - (n * inc) /\ events' = n /\ before = 0
      BY <1>13, <1>14, <2>1, <2>2, <2>4
    <3>2. interp' + (events' * inc) = (u + extra) + after
      <4>1. n * inc \in Int
        BY <1>17
      <4> QED
        BY <1>1, <1>12, <2>3, <3>1, <4>1
    <3> QED
      BY <1>10, <2>3, <3>2
  <2>5. CASE pos # 0
    <3>1. PICK start \in 0 .. inc - 1 : u + (events * inc) = (start + extra) + before
      BY <1>1, <1>7, <1>8, <1>9, <1>11, <2>2, <2>5 DEF FrameInv
    <3>2. interp' = (u + v) - (n * inc) /\ events' = events + n
      BY <1>13, <1>14, <2>5
    <3>3. (events + n) * inc = (events * inc) + (n * inc)
          /\ n * inc \in Int /\ events * inc \in Int
      BY <1>2, <1>17
    <3> DEFINE a == n * inc
               b == events * inc
    <3>4. a \in Int /\ b \in Int /\ events' * inc = b + a
          /\ interp' = (u + v) - a /\ u + b = (start + extra) + before
      BY <3>1, <3>2, <3>3
    <3> HIDE DEF a, b
    <3>5. interp' + (events' * inc) = (start + extra) + after
      <4>1. extra \in Int /\ start \in Int
        BY <1>1, <1>7
      <4> QED
        BY <1>12, <2>3, <3>4, <4>1
    <3> QED
      BY <2>3, <3>5
  <2> QED
    BY <2>4, <2>5
<1> QED
  BY <1>1, <1>4, <1>5, <1>6, <1>7, <1>9, <1>11, <1>16, <1>19

LEMMA NextFrame == Inv /\ Inv' /\ PulseInv /\ FrameInv /\ [Next]_vars => FrameInv'
<1> SUFFICES ASSUME Inv, Inv', PulseInv, FrameInv, [Next]_vars PROVE FrameInv'
  OBVIOUS
<1>1. ASSUME (StepByte \/ LinearByte) /\ UNCHANGED shape PROVE FrameInv'
  <2>1. UNCHANGED <<shape, total>> /\ shape # "generic"
    BY <1>1 DEF StepByte, LinearByte, Linear
  <2> QED
    BY <2>1 DEF FrameInv
<1>2. ASSUME GenericByte /\ UNCHANGED shape PROVE FrameInv'
  <2>1. total' \in {0, Total}
    BY <1>2 DEF GenericByte, FrameInv
  <2>2. ASSUME pos' # 0, ~late'
        PROVE  /\ total' = Total
               /\ increment' >= MinIncrement
               /\ \E start \in 0 .. increment' - 1 :
                    interp' + (events' * increment') = (start + extra') + Sums[pos']
    <3>1. pos' = pos + 1
      <4>1. SUFFICES ASSUME pos = FrameLength - 1 PROVE FALSE
        BY <1>2, <2>2, BytePaid
      <4>2. pos' = (pos + 1) % FrameLength
        BY <1>2 DEF GenericByte, Advance
      <4>3. FrameLength \in Nat \ {0}
        BY Sizes DEF FrameLength
      <4>4. pos + 1 = FrameLength
        BY <4>1, <4>3
      <4> QED
        BY <2>2, <4>2, <4>3, <4>4, NoRemainder
    <3> QED
      BY <1>2, <2>2, <3>1, BytePaid
  <2> QED
    BY <2>1, <2>2 DEF FrameInv
<1>3. CASE Byte
  BY <1>1, <1>2, <1>3 DEF Byte
<1>4. CASE StoreIncrement
  BY <1>4 DEF StoreIncrement, FrameInv
<1>5. CASE StoreExtra
  BY <1>5 DEF StoreExtra, FrameInv
<1>6. CASE UNCHANGED vars
  BY <1>6 DEF vars, tuning, FrameInv
<1> QED
  BY <1>3, <1>4, <1>5, <1>6 DEF Next

\* Up to three increments do not make the number of pulses differ by more.
LEMMA PulsesCounted ==
  ASSUME NEW inc \in Nat \ {0}, NEW n \in Int, NEW sum \in Int,
         NEW more \in Int, 0 - inc < more, more <= 2 * inc,
         n * inc = sum + more
  PROVE  n \in (sum \div inc) .. (sum \div inc) + 2
OBVIOUS

\* What the panel promises for the increment of generic is what the frame has,
\* but for two events, for every table whose frames are less than one least
\* increment more than total: whatever the panel stores in between, an event is
\* never lost or made twice (ui.c:119, pattern.c:639).
THEOREM FramesKeepPromise == Spec => PromiseKept
<1>1. Inv /\ Inv' /\ PulseInv /\ FrameInv /\ [Next]_vars
        => [LastByte /\ shape = "generic" /\ ~late => events' \in Promised]_vars
  <2> SUFFICES ASSUME Inv, Inv', PulseInv, FrameInv, Next,
                      LastByte, shape = "generic", ~late
               PROVE  events' \in Promised
    BY DEF vars, tuning, LastByte
  <2>1. pos = FrameLength - 1 /\ pos' = 0 /\ pos # 0
    BY Sizes DEF LastByte, FrameLength
  <2>2. GenericByte /\ UNCHANGED shape
    <3>1. ~StoreIncrement /\ ~StoreExtra
      BY <2>1 DEF StoreIncrement, StoreExtra
    <3>2. ~StepByte /\ ~LinearByte
      BY DEF StepByte, LinearByte, Linear
    <3> QED
      BY <3>1, <3>2 DEF Next, Byte
  <2>3. ~late'
    BY <2>1, <2>2, Zenon DEF GenericByte
  <2>4. /\ increment' = increment /\ increment >= MinIncrement
        /\ total = Total /\ extra' = extra
        /\ interp' \in 0 .. increment - 1
    BY <2>1, <2>2, <2>3, BytePaid DEF FrameInv
  <2>5. PICK start \in 0 .. increment - 1 :
          interp' + (events' * increment) = (start + extra) + Sums[pos + 1]
    BY <2>1, <2>2, <2>3, <2>4, BytePaid
  <2>6. increment \in Nat \ {0} /\ extra \in {0, 1} /\ events' \in Nat
    <3>1. increment \in Nat /\ events' \in Nat
      BY DEF Inv, TypeOK
    <3> QED
      BY <2>4, <3>1, MinIncrementAssumption DEF PulseInv
  <2>7. FrameLength \in Nat /\ Total \in Nat
    BY Sizes, TotalAssumption DEF FrameLength
  <2>8. PICK above \in 0 .. MinIncrement - 1 : Sums[FrameLength] = Total + above
    <3>1. Sums[FrameLength] \in Int
      BY <2>7, SumsAddUp DEF AddsUp
    <3> QED
      BY <2>7, <3>1, SumAssumption
  <2>9. pos + 1 = FrameLength
    BY <2>1, <2>7
  <2>10. PICK e \in Nat : e = events'
    BY <2>6
  <2>11. PICK rest \in 0 .. increment - 1 : rest = interp'
    BY <2>4
  <2>12. e * increment = (total + extra) + ((start + above) - rest)
    <3>1. e * increment \in Int
      BY <2>6
    <3>2. rest + (e * increment) = (start + extra) + (Total + above)
      BY <2>5, <2>8, <2>9, <2>10, <2>11
    <3> QED
      BY <2>4, <2>6, <2>7, <3>1, <3>2, MinIncrementAssumption
  <2>13. e \in (total + extra) \div increment .. ((total + extra) \div increment) + 2
    <3>1. (start + above) - rest \in Int
      BY <2>6, MinIncrementAssumption
    <3>2. 0 - increment < (start + above) - rest
      BY <2>6, MinIncrementAssumption
    <3>3. (start + above) - rest <= 2 * increment
      BY <2>4, <2>6, MinIncrementAssumption
    <3>4. total + extra \in Int
      BY <2>4, <2>6, <2>7
    <3> DEFINE sum == total + extra
               more == (start + above) - rest
    <3>5. sum \in Int /\ more \in Int /\ 0 - increment < more /\ more <= 2 * increment
      BY <3>1, <3>2, <3>3, <3>4
    <3>6. e * increment = sum + more
      BY <2>12
    <3> HIDE DEF sum, more
    <3>7. PICK inc \in Nat \ {0} : inc = increment
      BY <2>6
    <3>8. 0 - inc < more /\ more <= 2 * inc
      BY <3>5, <3>7
    <3>9. e * inc = sum + more
      BY <3>6, <3>7
    <3>10. e \in Int /\ sum \in Int /\ more \in Int
      BY <3>5
    <3>11. e \in (sum \div inc) .. (sum \div inc) + 2
      BY <3>8, <3>9, <3>10, PulsesCounted
    <3> QED
      BY <3>7, <3>11 DEF sum
  <2> QED
    BY <2>10, <2>13 DEF Promised
<1>2. Inv /\ Inv' /\ PulseInv /\ [Next]_vars => PulseInv'
  BY NextPulses
<1>3. Init => FrameInv
  BY DEF Init, FrameInv
<1> QED
  BY <1>1, <1>2, <1>3, NextFrame, InitPulses, Invariance, PTL DEF Spec, PromiseKept
=============================================================================
