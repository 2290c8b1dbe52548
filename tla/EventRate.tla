----------------------------- MODULE EventRate -----------------------------
(***************************************************************************)
(* The arithmetic of ui_apply on the events of the generic pattern: events *)
(* per frame are chosen by the increment between two of them, out of the   *)
(* sum of a frame.                                                         *)
(***************************************************************************)
EXTENDS Naturals

CONSTANT MinIncrement \* least increment between two events

ASSUME MinIncrementAssumption == MinIncrement \in Nat \ {0}

AtLeast(x, bound) == IF x < bound THEN bound ELSE x
AtMost(x, bound) == IF x > bound THEN bound ELSE x

\* The Cortex-M3 divides by zero to zero.
Udiv(a, b) == IF b = 0 THEN 0 ELSE a \div b

\* Mutant: the increment is rounded up.
RoundedUp(sum, events) ==
  AtMost(AtLeast(Udiv(sum + AtLeast(events, 1) - 1, AtLeast(events, 1)),
                 MinIncrement), sum)

\* The increment for a wanted number of events ...
IncrementFor(sum, events) ==
  AtMost(AtLeast(Udiv(sum, AtLeast(events, 1)), MinIncrement), sum)

\* Mutant: the wanted number is kept, whatever the increment makes of it.
Uncounted(sum, events) == AtLeast(events, 1)

\* ... and the number that increment makes.
EventsOf(sum, events) == Udiv(sum, IncrementFor(sum, events))
=============================================================================
