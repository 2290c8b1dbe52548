----------------------------- MODULE TickerRate -----------------------------
(***************************************************************************)
(* The arithmetic of ticker_start and timer_setup: how many CPU cycles lie *)
(* between two bytes on the port.                                          *)
(***************************************************************************)
EXTENDS Naturals, Sequences, SequencesExt

CONSTANTS CyclesPerUs,   \* F_CPU / 1000000, also the shortest time base
          MaxFrameTime,  \* MAX_FRAME_TIME, in microseconds
          MinRepeat,     \* MIN_REPEAT
          PrescaleAbove, \* timer_setup: longest time base without prescaler
          Prescaler      \* timer_setup: the prescaler for longer ones

ASSUME CyclesPerUsAssumption == CyclesPerUs \in Nat \ {0}
ASSUME MaxFrameTimeAssumption == MaxFrameTime \in Nat \ {0}
ASSUME MinRepeatAssumption == MinRepeat \in Nat \ {0}
ASSUME PrescalerAssumption == PrescaleAbove \in Nat /\ Prescaler \in Nat \ {0}

\* fill_buffer asked for no byte at all answers the period, or MIN_REPEAT.
Repeat(period) == IF period >= MinRepeat THEN period ELSE MinRepeat

\* How long a frame of that many bytes takes, in microseconds.
FrameTime(period, ticks) == (period * ticks) \div CyclesPerUs

\* The scale factors that ticker_start tries; while (us * 10 < MAX_FRAME_TIME)
\* takes the factor 10 as often as it fits, which is less than DecadeBound.
DecadeBound == 4

Factors == [i \in 1 .. DecadeBound |-> 10] \o <<5, 3, 2>>

Grow(rate, factor) ==
  IF rate.us * factor < MaxFrameTime
  THEN [us |-> rate.us * factor, ticks |-> rate.ticks * factor]
  ELSE rate

GrowByHalf(rate) ==
  IF rate.us + (rate.us \div 2) < MaxFrameTime
  THEN [us |-> rate.us + (rate.us \div 2),
        ticks |-> rate.ticks + (rate.ticks \div 2)]
  ELSE rate

\* The time base that ticker_start(0) finds for frames of that many bytes.
Autorange(repeat) ==
  GrowByHalf(FoldLeft(Grow, [us |-> repeat, ticks |-> CyclesPerUs], Factors))
    .ticks

\* The time base the timer really runs at: above PrescaleAbove it is a
\* multiple of the prescaler.  The loop that doubles the prescaler is for time
\* bases no caller asks for.
TimerSetup(ticks) ==
  IF ticks > PrescaleAbove THEN Prescaler * (ticks \div Prescaler) ELSE ticks

\* ticker_start: the requested time base, or the one it finds itself.
TickerStart(period, requested) ==
  TimerSetup(IF requested = 0 THEN Autorange(Repeat(period)) ELSE requested)
=============================================================================
