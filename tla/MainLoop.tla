----------------------------- MODULE MainLoop ------------------------------
(***************************************************************************)
(* main.c, delay.c and the rate of a held key in ui.c: the main loop waits *)
(* with delay() and polls the keys; the SysTick interrupt counts the wait  *)
(* down and the time of a held key up, in between any two loads and stores *)
(* of the main loop.                                                       *)
(*                                                                         *)
(* The clock of seconds, which only makes the display blink, is left out.  *)
(* What a poll does with its increment is in Panel.                        *)
(***************************************************************************)
EXTENDS Integers

CONSTANTS
  DelayMs,      \* argument of delay() in loop
  Threshold,    \* keypress_timer above which the increments may grow
  Divisor,      \* the square of keypress_timer is shifted right by 20 bits
  Word,         \* number of values of a uint32_t
  NoKey,        \* what tm1638_read_keys returns if no key is pressed
  StepKeys,     \* KEY_PREV and KEY_NEXT
  OtherKeys     \* every other combination of keys

ASSUME LoopAssumption ==
  /\ DelayMs \in Nat \ {0}
  /\ Threshold \in Nat
  /\ Divisor \in Nat \ {0}
  /\ Word \in Nat /\ Word > 1
  /\ NoKey \notin StepKeys
  /\ NoKey \notin OtherKeys

Keys == {NoKey} \cup StepKeys \cup OtherKeys

VARIABLES
  systick_delay_ctr,
  keypress_timer,
  last_key,
  key,          \* the keys this poll has read
  increment,
  factor,       \* the first of the two loads in the square, 0 outside of it
  main,         \* next step of the main loop
  ticked,       \* did the interrupt come since the last step of the main loop?
  waited,       \* observer: interrupts since delay was called, up to DelayMs
  held          \* observer: interrupts since a key was first read, up to Word

poll == <<last_key, key, increment, factor>>
vars == <<systick_delay_ctr, keypress_timer, poll, main, ticked, waited, held>>

MainSteps == {"loop", "wait", "keys", "rate", "square", "product"}

\* n + 1, but no more than limit.
UpTo(n, limit) == IF n < limit THEN n + 1 ELSE limit

(***************************************************************************)
(* The interrupt.                                                          *)
(***************************************************************************)
\* Mutant: the key's time counts without a key.
AlwaysCounted == (keypress_timer + 1) % Word

\* A timer that is 0 stands still; the main loop sets it going with a 1.
Counted == IF keypress_timer = 0 THEN 0 ELSE (keypress_timer + 1) % Word

\* Mutant: the counter is not stopped at 0.
NeverStops == (systick_delay_ctr + Word - 1) % Word

\* Mutant: only the key's time is counted.
WaitNotCounted == systick_delay_ctr

CountedDown == IF systick_delay_ctr = 0 THEN 0 ELSE systick_delay_ctr - 1

\* It comes at most once between the loads of keypress_timer, which are a few
\* cycles apart.
SysTickHandler ==
  /\ main \in {"square", "product"} => ~ticked
  /\ ticked' = TRUE
  /\ systick_delay_ctr' = CountedDown
  /\ keypress_timer' = Counted
  /\ waited' = UpTo(waited, DelayMs)
  /\ held' = UpTo(held, Word)
  /\ UNCHANGED <<poll, main>>

(***************************************************************************)
(* The main loop.                                                          *)
(***************************************************************************)
MainStep(from, to) ==
  /\ main = from
  /\ main' = to
  /\ ticked' = FALSE

Delay ==
  /\ MainStep("loop", "wait")
  /\ systick_delay_ctr' = DelayMs
  /\ waited' = 0
  /\ UNCHANGED <<keypress_timer, poll, held>>

\* Mutant: the wait ends with one interrupt to go.
AlmostOver == systick_delay_ctr <= 1

Over == systick_delay_ctr = 0

DelayReturns ==
  /\ MainStep("wait", "keys")
  /\ Over
  /\ UNCHANGED <<systick_delay_ctr, keypress_timer, poll, waited, held>>

\* Without a key the timer is stopped, with one it is started if it stands.
ReadKeys(k) ==
  /\ MainStep("keys", "rate")
  /\ key' = k
  /\ keypress_timer' = CASE k = NoKey -> 0
                         [] k # NoKey /\ keypress_timer = 0 -> 1
                         [] OTHER -> keypress_timer
  /\ held' = IF NoKey \in {k, key} THEN 0 ELSE held
  /\ UNCHANGED <<systick_delay_ctr, last_key, increment, factor, waited>>

\* End of the computation of the increment: the key is kept for the next poll.
Increment(i) ==
  /\ increment' = i
  /\ last_key' = key
  /\ factor' = 0
  /\ UNCHANGED <<systick_delay_ctr, keypress_timer, key, waited, held>>

\* Mutant: the time a key is held counts for another key, too.
HeldAnyKey == key \in StepKeys /\ keypress_timer > Threshold

HeldLong == key \in StepKeys /\ last_key = key /\ keypress_timer > Threshold

\* The keys for parameters do not step, a key that is pressed for a short time
\* steps by one.
SingleStep ==
  /\ MainStep("rate", "loop")
  /\ ~HeldLong
  /\ Increment(IF key \in StepKeys THEN 1 ELSE 0)

GrowingStep ==
  /\ MainStep("rate", "square")
  /\ HeldLong
  /\ UNCHANGED <<systick_delay_ctr, keypress_timer, poll, waited, held>>

LoadFactor ==
  /\ MainStep("square", "product")
  /\ factor' = keypress_timer
  /\ UNCHANGED <<systick_delay_ctr, keypress_timer, last_key, key, increment,
                 waited, held>>

\* (a * b) >> 20 in 32 bits.
Product(a, b) == ((a * b) % Word) \div Divisor

Square ==
  /\ MainStep("product", "loop")
  /\ LET p == Product(factor, keypress_timer)
     IN  Increment(IF p < 1 THEN 1 ELSE p)

-----------------------------------------------------------------------------
Init ==
  /\ systick_delay_ctr = 0
  /\ keypress_timer = 0
  /\ last_key = NoKey
  /\ key = NoKey
  /\ increment = 0
  /\ factor = 0
  /\ main = "loop"
  /\ ticked = FALSE
  /\ waited = 0
  /\ held = 0

Loop ==
  \/ Delay
  \/ DelayReturns
  \/ \E k \in Keys : ReadKeys(k)
  \/ SingleStep
  \/ GrowingStep
  \/ LoadFactor
  \/ Square

Next == SysTickHandler \/ Loop

Spec == Init /\ [][Next]_vars

\* SysTick runs by itself, and only the wait for it holds the main loop up.
FairSpec == Spec /\ WF_vars(SysTickHandler) /\ WF_vars(Loop)

-----------------------------------------------------------------------------
(***************************************************************************)
(* Properties.                                                             *)
(***************************************************************************)
\* The variables have their types; the increment fits a word.
TypeOK ==
  /\ systick_delay_ctr \in 0 .. DelayMs
  /\ keypress_timer \in 0 .. Word - 1
  /\ last_key \in Keys
  /\ key \in Keys
  /\ increment \in 0 .. Word
  /\ factor \in 0 .. Word - 1
  /\ main \in MainSteps
  /\ ticked \in BOOLEAN
  /\ waited \in 0 .. DelayMs
  /\ held \in 0 .. Word

\* The keys are not polled before as many interrupts have come as delay was
\* asked for, and a wait is always over after that many: the interrupt and the
\* main loop both store systick_delay_ctr (delay.c:52 and 60).
DelayLasts ==
  /\ main = "wait" => waited = DelayMs - systick_delay_ctr
  /\ main = "keys" => waited = DelayMs

\* A poll steps by more than one only for PREV and NEXT, and by no more than the
\* time since the first of an unbroken row of polls with a key allows, whichever
\* keys these were and wherever the interrupt comes between the three loads of
\* keypress_timer (ui.c:157-176).  That the key is the last one is in StepsGrow.
StepsEarned ==
  main = "loop" /\ increment > 1 =>
    /\ key \in StepKeys
    /\ held >= Threshold
    /\ increment * Divisor <= (held + 1) * (held + 1)

\* The time of a key that is held: no 32 bit overflow of its square so far.
SquareFits == (held + 1) * (held + 1) < Word

\* A poll with another key than the last one steps by one, whatever time the
\* earlier key was held; one with the same key steps by no less than the last
\* one, as long as the square of the time fits its word (ui.c:167-175).
StepsGrow ==
  [][main # "loop" /\ main' = "loop" /\ key \in StepKeys =>
       IF last_key # key THEN increment' = 1
                         ELSE SquareFits => increment' >= increment]_vars

\* The loop goes on polling: no wait lasts for ever.
PollsGoOn == []<>(main = "keys")
=============================================================================
