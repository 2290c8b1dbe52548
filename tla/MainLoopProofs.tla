-------------------------- MODULE MainLoopProofs ---------------------------
(***************************************************************************)
(* Proofs about MainLoop, for every delay, threshold, word and set of keys.*)
(***************************************************************************)
EXTENDS MainLoop, TLAPS

USE LoopAssumption

\* The timer of a held key never runs ahead of the time the key was held, also
\* in the loads the main loop has made of it; while nothing is computed the last
\* key is the key.
TimerInv ==
  /\ key = NoKey => keypress_timer = 0
  /\ keypress_timer <= held + 1
  /\ main \notin {"rate", "square", "product"} => last_key = key
  /\ main \in {"square", "product"} => key \in StepKeys /\ held >= Threshold
  /\ main = "product" => factor <= held + 1

Inv == TypeOK /\ DelayLasts /\ TimerInv /\ StepsEarned

-----------------------------------------------------------------------------
(***************************************************************************)
(* Arithmetic.                                                             *)
(***************************************************************************)
\* The square of a larger number is larger.
LEMMA SquareMonotone ==
  ASSUME NEW a \in Nat, NEW b \in Nat, NEW n \in Nat, a <= n, b <= n
  PROVE  a * b \in Nat /\ a * b <= n * n
<1>1. a * b <= n * b
  BY SMT
<1>2. n * b <= n * n
  BY SMT
<1>3. a * b \in Nat /\ n * b \in Nat /\ n * n \in Nat
  BY SMT
<1> QED
  BY <1>1, <1>2, <1>3

\* A bound that holds of the square of a time, or of the time, goes on holding
\* when the time grows.
LEMMA BoundGrows ==
  ASSUME NEW c \in Int, NEW t \in Nat, NEW a \in Nat, NEW b \in Nat,
         a <= b, t <= a, c <= (a + 1) * (a + 1)
  PROVE  t <= b /\ c <= (b + 1) * (b + 1)
<1>1. (a + 1) * (a + 1) <= (b + 1) * (b + 1)
  BY SquareMonotone, a + 1 \in Nat, b + 1 \in Nat, a + 1 <= b + 1
<1>2. (a + 1) * (a + 1) \in Int /\ (b + 1) * (b + 1) \in Int
  BY SMT
<1> QED
  BY <1>1, <1>2

\* Shifting to the right and back gives no more than there was, and so does
\* leaving out the bits that do not fit a word.
LEMMA ProductBounded ==
  ASSUME NEW a \in Nat, NEW b \in Nat
  PROVE  /\ Product(a, b) \in 0 .. Word
         /\ Product(a, b) * Divisor <= a * b
<1> DEFINE x == a * b
           y == x % Word
           q == y \div Divisor
<1>1. x \in Nat
  BY SMT
<1> HIDE DEF x
<1>2. y \in 0 .. Word - 1 /\ y <= x
  BY <1>1, SMT
<1> HIDE DEF y
<1>3. q \in Nat /\ q * Divisor <= y
  BY <1>2, SMT
<1>4. q <= y
  <2>1. q <= q * Divisor
    <3> HIDE DEF q
    <3> QED
      BY <1>3, SMT
  <2> QED
    BY <1>2, <1>3, <2>1
<1> HIDE DEF q
<1>5. q \in 0 .. Word /\ q * Divisor <= x
  <2>1. q * Divisor \in Nat
    BY <1>3, SMT
  <2> QED
    BY <1>1, <1>2, <1>3, <1>4, <2>1
<1> QED
  BY <1>5 DEF Product, x, y, q

\* A product that fits its word is shifted to the right and nothing else.
LEMMA ProductReached ==
  ASSUME NEW a \in Nat, NEW b \in Nat, NEW c \in Nat,
         a * b < Word, c * Divisor <= a * b
  PROVE  c <= Product(a, b)
<1> DEFINE x == a * b
           q == x \div Divisor
<1>1. x \in Nat /\ x < Word /\ c * Divisor <= x
  BY SMT
<1>2. Product(a, b) = q
  <2>1. Product(a, b) = (x % Word) \div Divisor
    BY DEF Product
  <2> HIDE DEF x
  <2>2. x % Word = x
    BY <1>1, SMT
  <2> QED
    BY <2>1, <2>2 DEF q
<1> HIDE DEF x
<1>3. q \in Nat /\ x < (q + 1) * Divisor
  <2>1. q \in Nat
    BY <1>1, SMT
  <2>2. x = (Divisor * q) + (x % Divisor) /\ x % Divisor \in 0 .. Divisor - 1
    BY <1>1, SMT
  <2> HIDE DEF q
  <2>3. (q + 1) * Divisor = (Divisor * q) + Divisor /\ Divisor * q \in Nat
    BY <2>1, SMT
  <2> QED
    BY <2>1, <2>2, <2>3, SMT
<1> HIDE DEF q
<1>4. SUFFICES ASSUME c >= q + 1 PROVE FALSE
  BY <1>2, <1>3
<1>5. (q + 1) * Divisor <= c * Divisor
  BY <1>3, <1>4, SMT
<1>6. (q + 1) * Divisor \in Nat /\ c * Divisor \in Nat
  BY <1>3, SMT
<1> QED
  BY <1>1, <1>3, <1>5, <1>6

\* A square that fits its word is that of a number that does, and no smaller
\* number has a square that does not.
LEMMA SquareFitsWord ==
  ASSUME NEW a \in Nat, NEW b \in Nat, a <= b, (b + 1) * (b + 1) < Word
  PROVE  /\ (a + 1) * (a + 1) < Word
         /\ b + 1 < Word
<1>1. (a + 1) * (a + 1) <= (b + 1) * (b + 1)
  BY SquareMonotone, a + 1 \in Nat, b + 1 \in Nat, a + 1 <= b + 1
<1>2. b + 1 <= (b + 1) * (b + 1)
  BY SMT
<1>3. (a + 1) * (a + 1) \in Int /\ (b + 1) * (b + 1) \in Int
  BY SMT
<1> QED
  BY <1>1, <1>2, <1>3

-----------------------------------------------------------------------------
(***************************************************************************)
(* Every step keeps the invariant.                                         *)
(***************************************************************************)
\* Bounds of the counters, and the steps of the main loop.
LEMMA Bounds ==
  /\ 0 \in 0 .. DelayMs
  /\ DelayMs \in 0 .. DelayMs
  /\ 0 \in 0 .. Word - 1
  /\ 1 \in 0 .. Word - 1
  /\ 0 \in 0 .. Word
  /\ 1 \in 0 .. Word
OBVIOUS

LEMMA Labels ==
  /\ NoKey \in Keys
  /\ \A m \in {"loop", "wait", "keys", "rate", "square", "product"} :
       m \in MainSteps
BY DEF Keys, MainSteps

LEMMA InitInv == Init => Inv
<1> SUFFICES ASSUME Init PROVE Inv
  OBVIOUS
<1>1. TypeOK
  BY Bounds, Labels DEF Init, TypeOK
<1>2. DelayLasts /\ TimerInv
  BY DEF Init, DelayLasts, TimerInv
<1>3. StepsEarned
  <2>1. ~(increment > 1)
    BY DEF Init
  <2> QED
    BY <2>1, Zenon DEF StepsEarned
<1> QED
  BY <1>1, <1>2, <1>3 DEF Inv

LEMMA TickKeepsInv ==
  ASSUME Inv, SysTickHandler
  PROVE  Inv'
<1>0. TypeOK /\ DelayLasts /\ TimerInv /\ StepsEarned
  BY DEF Inv
<1>1. /\ held' \in 0 .. Word
      /\ held <= held'
      /\ (held' = held + 1) \/ (held = Word /\ held' = Word)
  BY <1>0 DEF TypeOK, SysTickHandler, UpTo
<1>2. /\ keypress_timer' \in 0 .. Word - 1
      /\ keypress_timer = 0 => keypress_timer' = 0
      /\ keypress_timer' <= keypress_timer + 1
  BY <1>0 DEF TypeOK, SysTickHandler, Counted
<1>3. TypeOK'
  BY <1>0, <1>1, <1>2 DEF TypeOK, SysTickHandler, UpTo, CountedDown, poll
<1>4. DelayLasts'
  BY <1>0 DEF TypeOK, DelayLasts, SysTickHandler, UpTo, CountedDown
<1>5. TimerInv'
  BY <1>0, <1>1, <1>2 DEF TypeOK, TimerInv, SysTickHandler, poll
<1>6. StepsEarned'
  <2> SUFFICES ASSUME main = "loop", increment > 1
               PROVE  /\ key \in StepKeys
                      /\ held' >= Threshold
                      /\ increment * Divisor <= (held' + 1) * (held' + 1)
    BY DEF StepsEarned, SysTickHandler, poll
  <2>1. /\ key \in StepKeys
        /\ Threshold <= held
        /\ increment * Divisor <= (held + 1) * (held + 1)
    BY <1>0 DEF StepsEarned, TypeOK
  <2>2. /\ held \in Nat
        /\ increment * Divisor \in Int
    BY <1>0, SMT DEF TypeOK
  <2>3. held' \in Nat
    BY <1>1
  <2>4. /\ Threshold <= held'
        /\ increment * Divisor <= (held' + 1) * (held' + 1)
    BY <1>1, <2>1, <2>2, <2>3, BoundGrows
  <2>5. held' >= Threshold
    BY <2>3, <2>4
  <2> QED
    BY <2>1, <2>4, <2>5
<1> QED
  BY <1>3, <1>4, <1>5, <1>6 DEF Inv

\* Before the end of a poll nothing is claimed of the increment.
LEMMA NothingClaimed ==
  ASSUME main' # "loop"
  PROVE  StepsEarned'
BY Zenon DEF StepsEarned

\* The end of a poll that steps by no more than one.
LEMMA SingleKeepsInv ==
  ASSUME Inv, main' = "loop", ticked' = FALSE,
         NEW i \in {0, 1}, Increment(i)
  PROVE  Inv'
<1>0. TypeOK /\ DelayLasts /\ TimerInv
  BY DEF Inv
<1>1. TypeOK'
  BY <1>0, Bounds, Labels DEF TypeOK, Increment
<1>2. DelayLasts' /\ TimerInv'
  BY <1>0 DEF DelayLasts, TimerInv, Increment
<1>3. StepsEarned'
  <2>1. ~(increment' > 1)
    BY DEF Increment
  <2> QED
    BY <2>1, Zenon DEF StepsEarned
<1> QED
  BY <1>1, <1>2, <1>3 DEF Inv

LEMMA SquareKeepsInv ==
  ASSUME Inv, Square
  PROVE  Inv'
<1>0. TypeOK /\ DelayLasts /\ TimerInv
  BY DEF Inv
<1> DEFINE p == Product(factor, keypress_timer)
<1>1. /\ p \in 0 .. Word
      /\ p * Divisor <= factor * keypress_timer
  BY <1>0, ProductBounded DEF TypeOK
<1> HIDE DEF p
<1>2. /\ main = "product"
      /\ main' = "loop"
      /\ ticked' = FALSE
      /\ Increment(IF p < 1 THEN 1 ELSE p)
  BY DEF Square, MainStep, p
<1>3. CASE p <= 1
  <2>1. (IF p < 1 THEN 1 ELSE p) = 1
    BY <1>1, <1>3
  <2>2. Increment(1)
    BY <1>2, <2>1
  <2> QED
    BY <1>2, <2>2, SingleKeepsInv
<1>4. CASE p > 1
  <2>1. Increment(p)
    BY <1>1, <1>2, <1>4
  <2>2. TypeOK'
    BY <1>0, <1>1, <1>2, <2>1, Bounds, Labels DEF TypeOK, Increment
  <2>3. DelayLasts' /\ TimerInv'
    BY <1>0, <1>2, <2>1 DEF TypeOK, DelayLasts, TimerInv, Increment
  <2>4. factor * keypress_timer <= (held + 1) * (held + 1)
    BY <1>0, <1>2, SquareMonotone DEF TypeOK, TimerInv
  <2>5. /\ p * Divisor \in Int
        /\ factor * keypress_timer \in Int
        /\ (held + 1) * (held + 1) \in Int
    BY <1>0, <1>1, SMT DEF TypeOK
  <2>6. p * Divisor <= (held + 1) * (held + 1)
    BY <1>1, <2>4, <2>5
  <2>7. key \in StepKeys /\ held >= Threshold
    BY <1>0, <1>2 DEF TimerInv
  <2>8. StepsEarned'
    BY <2>1, <2>6, <2>7 DEF StepsEarned, Increment
  <2> QED
    BY <2>2, <2>3, <2>8 DEF Inv
<1> QED
  BY <1>1, <1>3, <1>4

LEMMA LoopKeepsInv ==
  ASSUME Inv, Loop
  PROVE  Inv'
<1>0. TypeOK /\ DelayLasts /\ TimerInv
  BY DEF Inv
<1>1. CASE Delay
  <2>1. TypeOK'
    BY <1>0, <1>1, Bounds, Labels DEF TypeOK, Delay, MainStep, poll
  <2>2. DelayLasts'
    BY <1>0, <1>1, Bounds DEF TypeOK, DelayLasts, Delay, MainStep
  <2>3. TimerInv'
    BY <1>0, <1>1 DEF TypeOK, TimerInv, Delay, MainStep, poll
  <2>4. main' # "loop"
    BY <1>1 DEF Delay, MainStep
  <2> QED
    BY <2>1, <2>2, <2>3, <2>4, NothingClaimed DEF Inv
<1>2. CASE DelayReturns
  <2>1. TypeOK'
    BY <1>0, <1>2, Bounds, Labels DEF TypeOK, DelayReturns, MainStep, poll
  <2>2. DelayLasts'
    BY <1>0, <1>2, Bounds DEF TypeOK, DelayLasts, DelayReturns, MainStep, Over
  <2>3. TimerInv'
    BY <1>0, <1>2 DEF TypeOK, TimerInv, DelayReturns, MainStep, poll
  <2>4. main' # "loop"
    BY <1>2 DEF DelayReturns, MainStep
  <2> QED
    BY <2>1, <2>2, <2>3, <2>4, NothingClaimed DEF Inv
<1>3. ASSUME NEW k \in Keys, ReadKeys(k) PROVE Inv'
  <2>1. /\ keypress_timer' \in 0 .. Word - 1
        /\ k = NoKey => keypress_timer' = 0
        /\ keypress_timer' <= held' + 1
    <3>1. CASE k = NoKey
      BY <1>0, <1>3, <3>1 DEF TypeOK, ReadKeys
    <3>2. CASE k # NoKey /\ keypress_timer = 0
      BY <1>0, <1>3, <3>2 DEF TypeOK, ReadKeys
    <3>3. CASE k # NoKey /\ keypress_timer # 0
      BY <1>0, <1>3, <3>3 DEF TypeOK, TimerInv, ReadKeys
    <3> QED
      BY <3>1, <3>2, <3>3
  <2>2. held' \in 0 .. Word
    BY <1>0, <1>3, Bounds DEF TypeOK, ReadKeys
  <2>3. main' = "rate" /\ key' = k
    BY <1>3 DEF ReadKeys, MainStep
  <2>4. TypeOK'
    BY <1>0, <1>3, <2>1, <2>2, <2>3, Labels DEF TypeOK, ReadKeys, MainStep
  <2>5. DelayLasts' /\ TimerInv'
    BY <2>1, <2>3 DEF DelayLasts, TimerInv
  <2> QED
    BY <2>3, <2>4, <2>5, NothingClaimed DEF Inv
<1>4. CASE SingleStep
  <2>1. PICK i \in {0, 1} : Increment(i)
    BY <1>4 DEF SingleStep
  <2> QED
    BY <1>4, <2>1, SingleKeepsInv DEF SingleStep, MainStep
<1>5. CASE GrowingStep
  <2>1. key \in StepKeys /\ held >= Threshold
    BY <1>0, <1>5 DEF TypeOK, TimerInv, GrowingStep, HeldLong
  <2>2. TypeOK' /\ DelayLasts' /\ TimerInv'
    BY <1>0, <1>5, <2>1 DEF TypeOK, DelayLasts, TimerInv, GrowingStep,
                            MainStep, poll, MainSteps
  <2>3. main' # "loop"
    BY <1>5 DEF GrowingStep, MainStep
  <2> QED
    BY <2>2, <2>3, NothingClaimed DEF Inv
<1>6. CASE LoadFactor
  <2>1. TypeOK' /\ DelayLasts' /\ TimerInv'
    BY <1>0, <1>6 DEF TypeOK, DelayLasts, TimerInv, LoadFactor, MainStep,
                      MainSteps
  <2>2. main' # "loop"
    BY <1>6 DEF LoadFactor, MainStep
  <2> QED
    BY <2>1, <2>2, NothingClaimed DEF Inv
<1>7. CASE Square
  BY <1>7, SquareKeepsInv
<1> QED
  BY <1>1, <1>2, <1>3, <1>4, <1>5, <1>6, <1>7 DEF Loop

LEMMA InvAlways == Spec => []Inv
<1>1. Inv /\ UNCHANGED vars => Inv'
  BY DEF Inv, TypeOK, DelayLasts, TimerInv, StepsEarned, vars, poll
<1>2. Inv /\ [Next]_vars => Inv'
  BY <1>1, TickKeepsInv, LoopKeepsInv DEF Next
<1> QED
  BY <1>2, InitInv, PTL DEF Spec

-----------------------------------------------------------------------------
\* The variables have their types, the timers never leave their words.
THEOREM TypeCorrect == Spec => []TypeOK
<1>1. Inv => TypeOK
  BY DEF Inv
<1> QED
  BY <1>1, InvAlways, PTL

\* The keys are polled only after the delay that was asked for, whatever the
\* order of the stores to systick_delay_ctr.
THEOREM DelaysLast == Spec => []DelayLasts
<1>1. Inv => DelayLasts
  BY DEF Inv
<1> QED
  BY <1>1, InvAlways, PTL

\* A poll steps no further than the time the keys were held allows, wherever the
\* interrupt comes and although the square wraps.
THEOREM StepsAreEarned == Spec => []StepsEarned
<1>1. Inv => StepsEarned
  BY DEF Inv
<1> QED
  BY <1>1, InvAlways, PTL
-----------------------------------------------------------------------------
(***************************************************************************)
(* The steps of a held key grow.                                           *)
(***************************************************************************)
\* An increment greater than one is that of the last key, and as long as a key
\* has been pressed at every poll and the square of the time fits, the timer is
\* past the threshold and its square is no less than what the increment was
\* made of.  So are the loads of a square that is under way.
GrowInv ==
  /\ main \in {"square", "product"} => last_key = key
  /\ increment > 1 => last_key \in StepKeys
  /\ SquareFits /\ key # NoKey /\ increment > 1 =>
       /\ keypress_timer > Threshold
       /\ increment * Divisor <= keypress_timer * keypress_timer
  /\ SquareFits /\ main \in {"square", "product"} => keypress_timer > Threshold
  /\ SquareFits /\ main = "product" =>
       /\ factor <= keypress_timer
       /\ increment > 1 => increment * Divisor <= factor * factor

LEMMA InitGrow == Init => GrowInv
<1> SUFFICES ASSUME Init PROVE GrowInv
  OBVIOUS
<1>1. ~(increment > 1) /\ main \notin {"square", "product"} /\ main # "product"
  BY DEF Init
<1> QED
  BY <1>1, Zenon DEF GrowInv

LEMMA TickKeepsGrow ==
  ASSUME Inv, GrowInv, SysTickHandler
  PROVE  GrowInv'
<1>0. TypeOK /\ TimerInv
  BY DEF Inv
<1>1. /\ main' = main /\ last_key' = last_key /\ key' = key
      /\ increment' = increment /\ factor' = factor
  BY DEF SysTickHandler, poll
<1>2. ASSUME SquareFits' PROVE SquareFits /\ held' + 1 < Word
  <2>1. held \in Nat /\ held' \in Nat /\ held <= held'
    BY <1>0 DEF TypeOK, SysTickHandler, UpTo
  <2>2. (held' + 1) * (held' + 1) < Word
    BY <1>2 DEF SquareFits
  <2> QED
    BY <2>1, <2>2, SquareFitsWord DEF SquareFits
<1>3. ASSUME SquareFits', keypress_timer > Threshold
      PROVE  /\ keypress_timer' \in Nat /\ keypress_timer <= keypress_timer'
             /\ keypress_timer' > Threshold
  <2>1. /\ keypress_timer \in Nat /\ keypress_timer # 0
        /\ keypress_timer <= held + 1 /\ held + 1 < Word
    <3>1. PICK h \in Nat : h = held'
      BY <1>0 DEF TypeOK, SysTickHandler, UpTo
    <3>2. held \in Nat
      BY <1>0 DEF TypeOK
    <3>3. held <= h
      BY <1>0, <3>1 DEF TypeOK, SysTickHandler, UpTo
    <3>4. h + 1 < Word
      BY <1>2, <1>3, <3>1
    <3>5. keypress_timer \in Nat /\ keypress_timer <= held + 1
      BY <1>0 DEF TypeOK, TimerInv
    <3>6. keypress_timer # 0
      BY <1>3, <3>5
    <3>7. held + 1 < Word
      BY <3>2, <3>3, <3>4
    <3> QED
      BY <3>5, <3>6, <3>7
  <2>2. keypress_timer' = (keypress_timer + 1) % Word
    BY <2>1 DEF SysTickHandler, Counted
  <2>3. keypress_timer + 1 < Word
    <3>1. held' + 1 < Word /\ (held' = held + 1 \/ held = Word)
      BY <1>0, <1>2, <1>3 DEF TypeOK, SysTickHandler, UpTo
    <3> QED
      BY <1>0, <2>1, <3>1 DEF TypeOK
  <2>4. keypress_timer' = keypress_timer + 1
    BY <2>1, <2>2, <2>3
  <2> QED
    BY <1>3, <2>1, <2>4
<1>4. ASSUME SquareFits', key # NoKey, increment > 1
      PROVE  /\ keypress_timer' > Threshold
             /\ increment * Divisor <= keypress_timer' * keypress_timer'
  <2>1. /\ keypress_timer > Threshold
        /\ increment * Divisor <= keypress_timer * keypress_timer
    BY <1>2, <1>4 DEF GrowInv
  <2>2. /\ keypress_timer' \in Nat /\ keypress_timer <= keypress_timer'
        /\ keypress_timer' > Threshold
    BY <1>3, <1>4, <2>1
  <2>3. keypress_timer \in Nat /\ increment \in Nat
    BY <1>0 DEF TypeOK
  <2>4. keypress_timer * keypress_timer <= keypress_timer' * keypress_timer'
    BY <2>2, <2>3, SquareMonotone
  <2>5. /\ increment * Divisor \in Int
        /\ keypress_timer * keypress_timer \in Int
        /\ keypress_timer' * keypress_timer' \in Int
    BY <2>2, <2>3, SMT
  <2> QED
    BY <2>1, <2>2, <2>4, <2>5
<1>5. ASSUME SquareFits', main \in {"square", "product"}
      PROVE  keypress_timer' > Threshold
  BY <1>2, <1>3, <1>5 DEF GrowInv
<1>6. ASSUME SquareFits', main = "product"
      PROVE  /\ factor <= keypress_timer'
             /\ increment > 1 => increment * Divisor <= factor * factor
  <2>1. /\ factor <= keypress_timer /\ keypress_timer > Threshold
        /\ increment > 1 => increment * Divisor <= factor * factor
    BY <1>2, <1>6 DEF GrowInv
  <2>2. keypress_timer' \in Nat /\ keypress_timer <= keypress_timer'
    BY <1>3, <1>6, <2>1
  <2>3. keypress_timer \in Nat /\ factor \in Nat
    BY <1>0 DEF TypeOK
  <2>4. factor <= keypress_timer'
    BY <2>1, <2>2, <2>3
  <2> QED
    BY <2>1, <2>4
<1>7. /\ main' \in {"square", "product"} => last_key' = key'
      /\ increment' > 1 => last_key' \in StepKeys
  BY <1>1 DEF GrowInv
<1> QED
  BY <1>1, <1>4, <1>5, <1>6, <1>7, Zenon DEF GrowInv

\* A step of the main loop that neither reads the keys nor ends a poll leaves the
\* increment and what it was made of alone.
LEMMA ElsewhereKeepsGrow ==
  ASSUME Inv, GrowInv, main' \notin {"square", "product"},
         UNCHANGED <<keypress_timer, last_key, key, increment, held>>
  PROVE  GrowInv'
<1>1. SquareFits' = SquareFits
  BY DEF SquareFits
<1> QED
  BY <1>1, Zenon DEF GrowInv

LEMMA ReadKeepsGrow ==
  ASSUME Inv, GrowInv, NEW k \in Keys, ReadKeys(k)
  PROVE  GrowInv'
<1>0. TypeOK /\ TimerInv
  BY DEF Inv
<1>1. /\ main = "keys" /\ main' = "rate" /\ key' = k
      /\ last_key' = last_key /\ increment' = increment /\ last_key = key
  BY <1>0 DEF ReadKeys, MainStep, TimerInv
<1>2. ASSUME SquareFits', k # NoKey, increment > 1
      PROVE  /\ keypress_timer' > Threshold
             /\ increment * Divisor <= keypress_timer' * keypress_timer'
  <2>1. key \in StepKeys /\ key # NoKey
    BY <1>1, <1>2 DEF GrowInv
  <2>2. held' = held
    BY <1>2, <2>1 DEF ReadKeys
  <2>3. SquareFits
    BY <1>2, <2>2 DEF SquareFits
  <2>4. /\ keypress_timer > Threshold
        /\ increment * Divisor <= keypress_timer * keypress_timer
    BY <1>2, <2>1, <2>3 DEF GrowInv
  <2>5. keypress_timer # 0
    BY <1>0, <2>4 DEF TypeOK
  <2>6. keypress_timer' = keypress_timer
    BY <1>2, <2>5 DEF ReadKeys
  <2> QED
    BY <2>4, <2>6
<1> QED
  BY <1>1, <1>2, Zenon DEF GrowInv

\* The end of a poll that steps by no more than one.
LEMMA SingleKeepsGrow ==
  ASSUME main' = "loop", NEW i \in {0, 1}, Increment(i)
  PROVE  GrowInv'
<1>1. ~(increment' > 1) /\ main' \notin {"square", "product"} /\ main' # "product"
  BY DEF Increment
<1> QED
  BY <1>1, Zenon DEF GrowInv

LEMMA SquareKeepsGrow ==
  ASSUME Inv, GrowInv, Square
  PROVE  GrowInv'
<1>0. TypeOK /\ TimerInv
  BY DEF Inv
<1> DEFINE p == Product(factor, keypress_timer)
<1>1. /\ p \in 0 .. Word
      /\ p * Divisor <= factor * keypress_timer
  BY <1>0, ProductBounded DEF TypeOK
<1> HIDE DEF p
<1>2. /\ main = "product"
      /\ main' = "loop"
      /\ Increment(IF p < 1 THEN 1 ELSE p)
  BY DEF Square, MainStep, p
<1>3. CASE p <= 1
  <2>1. (IF p < 1 THEN 1 ELSE p) = 1
    BY <1>1, <1>3
  <2>2. Increment(1)
    BY <1>2, <2>1
  <2> QED
    BY <1>2, <2>2, SingleKeepsGrow
<1>4. CASE p > 1
  <2>1. Increment(p)
    BY <1>1, <1>2, <1>4
  <2>2. /\ increment' = p /\ last_key' = key /\ key' = key
        /\ keypress_timer' = keypress_timer /\ held' = held
    BY <2>1 DEF Increment
  <2>3. key \in StepKeys
    BY <1>0, <1>2 DEF TimerInv
  <2>4. ASSUME SquareFits
        PROVE  /\ keypress_timer > Threshold
               /\ p * Divisor <= keypress_timer * keypress_timer
    <3>1. keypress_timer > Threshold /\ factor <= keypress_timer
      BY <1>2, <2>4 DEF GrowInv
    <3>2. factor \in Nat /\ keypress_timer \in Nat
      BY <1>0 DEF TypeOK
    <3>3. factor * keypress_timer <= keypress_timer * keypress_timer
      BY <3>1, <3>2, SquareMonotone
    <3>4. /\ p * Divisor \in Int
          /\ factor * keypress_timer \in Int
          /\ keypress_timer * keypress_timer \in Int
      BY <1>1, <3>2, SMT
    <3> QED
      BY <1>1, <3>1, <3>3, <3>4
  <2>5. SquareFits' = SquareFits
    BY <2>2 DEF SquareFits
  <2>6. main' \notin {"square", "product"} /\ main' # "product"
    BY <1>2
  <2> QED
    BY <2>2, <2>3, <2>4, <2>5, <2>6, Zenon DEF GrowInv
<1> QED
  BY <1>1, <1>3, <1>4

LEMMA LoopKeepsGrow ==
  ASSUME Inv, GrowInv, Loop
  PROVE  GrowInv'
<1>0. TypeOK /\ TimerInv
  BY DEF Inv
<1>1. CASE Delay
  BY <1>1, ElsewhereKeepsGrow DEF Delay, MainStep, poll
<1>2. CASE DelayReturns
  BY <1>2, ElsewhereKeepsGrow DEF DelayReturns, MainStep, poll
<1>3. ASSUME NEW k \in Keys, ReadKeys(k) PROVE GrowInv'
  BY <1>3, ReadKeepsGrow
<1>4. CASE SingleStep
  <2>1. PICK i \in {0, 1} : Increment(i)
    BY <1>4 DEF SingleStep
  <2> QED
    BY <1>4, <2>1, SingleKeepsGrow DEF SingleStep, MainStep
<1>5. CASE GrowingStep
  <2>1. /\ main' = "square" /\ key' = key /\ last_key' = last_key
        /\ increment' = increment /\ keypress_timer' = keypress_timer
        /\ held' = held
    BY <1>5 DEF GrowingStep, MainStep, poll
  <2>2. last_key = key /\ keypress_timer > Threshold
    BY <1>5 DEF GrowingStep, HeldLong
  <2>3. SquareFits' = SquareFits /\ main' # "product"
    BY <2>1 DEF SquareFits
  <2> QED
    BY <2>1, <2>2, <2>3, Zenon DEF GrowInv
<1>6. CASE LoadFactor
  <2>1. /\ main = "square" /\ main' = "product" /\ factor' = keypress_timer
        /\ key' = key /\ last_key' = last_key /\ increment' = increment
        /\ keypress_timer' = keypress_timer /\ held' = held
    BY <1>6 DEF LoadFactor, MainStep
  <2>2. SquareFits' = SquareFits
    BY <2>1 DEF SquareFits
  <2>3. key # NoKey /\ keypress_timer <= keypress_timer
    BY <1>0, <2>1 DEF TimerInv, TypeOK
  <2>4. main \in {"square", "product"}
    BY <2>1
  <2> QED
    BY <2>1, <2>2, <2>3, <2>4, Zenon DEF GrowInv
<1>7. CASE Square
  BY <1>7, SquareKeepsGrow
<1> QED
  BY <1>1, <1>2, <1>3, <1>4, <1>5, <1>6, <1>7 DEF Loop

\* What the end of a poll adds to the increment.
LEMMA PollGrows ==
  ASSUME Inv, GrowInv, Loop, main # "loop", main' = "loop", key \in StepKeys
  PROVE  IF last_key # key THEN increment' = 1
                           ELSE SquareFits => increment' >= increment
<1>0. TypeOK /\ TimerInv
  BY DEF Inv
<1>1. SingleStep \/ Square
  BY DEF Loop, Delay, DelayReturns, ReadKeys, GrowingStep, LoadFactor, MainStep
<1>2. CASE SingleStep
  <2>1. increment' = 1
    BY <1>2 DEF SingleStep, Increment
  <2>2. ASSUME last_key = key, SquareFits PROVE increment' >= increment
    <3>1. ~(keypress_timer > Threshold)
      BY <1>2, <2>2 DEF SingleStep, HeldLong
    <3>2. ~(increment > 1)
      BY <2>2, <3>1 DEF GrowInv
    <3> QED
      BY <1>0, <2>1, <3>2 DEF TypeOK
  <2> QED
    BY <2>1, <2>2
<1>3. CASE Square
  <2> DEFINE p == Product(factor, keypress_timer)
  <2>1. main = "product" /\ increment' = IF p < 1 THEN 1 ELSE p
    BY <1>3 DEF Square, MainStep, Increment
  <2>2. last_key = key
    BY <2>1 DEF GrowInv
  <2>3. factor \in Nat /\ keypress_timer \in Nat /\ p \in Nat /\ increment \in Nat
    BY <1>0, ProductBounded DEF TypeOK
  <2>4. ASSUME SquareFits, increment > 1 PROVE increment <= p
    <3>1. factor <= keypress_timer /\ increment * Divisor <= factor * factor
      BY <2>1, <2>4 DEF GrowInv
    <3>2. factor * factor <= factor * keypress_timer
      BY <2>3, <3>1, SMT
    <3>3. factor * keypress_timer <= (held + 1) * (held + 1)
      BY <1>0, <2>1, SquareMonotone DEF TypeOK, TimerInv
    <3>4. (held + 1) * (held + 1) < Word
      BY <2>4 DEF SquareFits
    <3>5. /\ factor * factor \in Int /\ factor * keypress_timer \in Int
          /\ (held + 1) * (held + 1) \in Int /\ increment * Divisor \in Int
      BY <1>0, <2>3, SMT DEF TypeOK
    <3>6. /\ factor * keypress_timer < Word
          /\ increment * Divisor <= factor * keypress_timer
      BY <3>1, <3>2, <3>3, <3>4, <3>5
    <3> QED
      BY <2>3, <3>6, ProductReached
  <2> HIDE DEF p
  <2>5. SquareFits => increment' >= increment
    BY <2>1, <2>3, <2>4
  <2> QED
    BY <2>2, <2>5
<1> QED
  BY <1>1, <1>2, <1>3

\* A poll with another key than the last one steps by one.  One with the same key
\* steps by no less than the one before, as long as the square of the held time
\* fits its word, and wherever the interrupt comes between the loads; once the
\* square wraps the step may shrink, and nothing is claimed (ui.c:167-175).
THEOREM StepsKeepGrowing == Spec => StepsGrow
<1>1. GrowInv /\ UNCHANGED vars => GrowInv'
  BY DEF GrowInv, SquareFits, vars, poll
<1>2. Inv /\ GrowInv /\ [Next]_vars => GrowInv'
  BY <1>1, TickKeepsGrow, LoopKeepsGrow DEF Next
<1>3. Inv /\ GrowInv /\ [Next]_vars
        => [main # "loop" /\ main' = "loop" /\ key \in StepKeys =>
              IF last_key # key THEN increment' = 1
                                ELSE SquareFits => increment' >= increment]_vars
  BY PollGrows DEF Next, SysTickHandler
<1> QED
  BY <1>2, <1>3, InitGrow, InvAlways, PTL DEF Spec, StepsGrow
=============================================================================
