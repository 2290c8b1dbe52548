------------------------------- MODULE Panel -------------------------------
(***************************************************************************)
(* ui.c: the keys and lamps of the front panel, and how ui_apply turns the *)
(* selected pattern, time base and event rate into a running ticker.       *)
(*                                                                         *)
(* The main thread polls the keys (ui_check_event).  The interrupt handler *)
(* runs the generators meanwhile; the first run of generic_pattern         *)
(* computes generic_pattern_total_increments, which ui_apply reads.        *)
(***************************************************************************)
EXTENDS TickerRate, EventRate, FiniteSetsExt

CONSTANTS MaxPattern,      \* get_max_pattern_number(), the generic pattern
          Period,          \* patterns[p].period
          MaxTicks,        \* longest time base the keys can ask for
          BootTicks,       \* initial selected_timer_ticks
          MaxEvents,       \* most events the keys can ask for
          EventsGuard,     \* events from which NEXT has no effect
          BootEvents,      \* initial selected_frame_events
          BootIncrement,   \* initial generic_pattern_event_increment
          Total,           \* the sum that generic_pattern computes
          KeySets,         \* the sets of keys that may be read pressed
          Increments       \* steps of a key held down, 1 the first

Patterns == 0 .. MaxPattern

ASSUME PatternsAssumption == MaxPattern \in Nat \ {0}
ASSUME PeriodAssumption == Period \in [Patterns -> Nat \ {0}]
ASSUME TicksAssumption ==
  /\ MaxTicks \in Nat
  /\ BootTicks \in CyclesPerUs .. MaxTicks
\* With a frame as short as the limit asks for, timer_setup needs no prescaler.
ASSUME RateAssumption ==
  /\ CyclesPerUs <= PrescaleAbove
  /\ \A p \in Patterns :
       ((MaxFrameTime + 1) * CyclesPerUs - 1) \div Period[p] <= PrescaleAbove
\* The keys can ask for all the events that the least increment makes.
ASSUME EventsAssumption ==
  /\ MaxEvents \in Nat \ {0}
  /\ EventsGuard \in Nat
  /\ BootEvents \in Nat
  /\ BootIncrement \in Nat \ {0}
  /\ Total \in Nat
  /\ MinIncrement <= Total /\ BootIncrement <= Total
  /\ Total \div MinIncrement <= MaxEvents
\* Bit i of the keys is key i: 0 is PREV, 7 is NEXT, the others select param i.
ASSUME KeysAssumption == KeySets \subseteq SUBSET (0 .. 7)
ASSUME IncrementsAssumption == Increments \subseteq Nat \ {0} /\ 1 \in Increments

VARIABLES
  selected_pattern,
  selected_param,        \* -1: the version is shown
  selected_timer_ticks,
  selected_frame_events,
  last_key,
  lamps,                 \* the lamps that are lit, 0 .. 7
  pattern_number,        \* the pattern that runs
  timer_ticks,           \* the time base that runs
  total,                 \* generic_pattern_total_increments
  increment              \* generic_pattern_event_increment

selection == <<selected_pattern, selected_timer_ticks, selected_frame_events>>
running == <<pattern_number, timer_ticks>>
vars == <<selection, selected_param, last_key, lamps, running, total, increment>>

PREV == {0}
NEXT == {7}

(***************************************************************************)
(* ui_apply.                                                               *)
(***************************************************************************)
\* Mutant: no limit on the length of a frame.
Unlimited(period, ticks) == AtLeast(ticks, CyclesPerUs)

\* The loop that takes single ticks off the time base until a frame is short
\* enough, and the shortest time base after it.
Limited(period, ticks) ==
  AtLeast(AtMost(ticks, ((MaxFrameTime + 1) * CyclesPerUs - 1) \div period),
          CyclesPerUs)

\* What the loads of generic_pattern_total_increments and of the increment in
\* ui_apply can see, and what it leaves in memory, when the first run of
\* generic_pattern comes in between: the variables are not volatile, the code
\* may have them in registers or load them again.
\* As pairs of events and increment: the total is 0 throughout, and the handler
\* comes before or after the last store; it is loaded again for the comparison
\* and the division; or between the comparison with 0 and the assignment.
RacedRates ==
  {<<0, 0>>, <<0, MinIncrement>>, <<Udiv(Total, MinIncrement), MinIncrement>>,
   <<1, Total>>}

\* Stop, select and start, if the selection is not what is running.
Restart(pattern, ticks) ==
  IF timer_ticks # ticks \/ pattern_number # pattern
  THEN LET p == IF pattern <= MaxPattern THEN pattern ELSE 0
       IN  /\ pattern_number' = p
           /\ timer_ticks' = TickerStart(Period[p], ticks)
  ELSE UNCHANGED running

\* ui_apply for a new selection: the time base is limited with the period of
\* the pattern that still runs.  When the handler computes the total after the
\* events were worked out, it does so before the first load of it or later.
UiApply(pattern, ticks, events) ==
  LET limited == Limited(Period[pattern_number], ticks)
  IN  /\ selected_pattern' = pattern
      /\ selected_timer_ticks' = limited
      /\ \/ /\ selected_frame_events' = EventsOf(total, events)
            /\ increment' = IncrementFor(total, events)
            /\ UNCHANGED total
         \/ /\ pattern_number = MaxPattern
            /\ total = 0
            /\ total' = Total
            /\ \/ /\ selected_frame_events' = EventsOf(Total, events)
                  /\ increment' = IncrementFor(Total, events)
               \/ \E rate \in RacedRates : /\ selected_frame_events' = rate[1]
                                             /\ increment' = rate[2]
      /\ Restart(pattern, limited)

(***************************************************************************)
(* ui_check_event, one disjunct per parameter.                             *)
(***************************************************************************)
NoApply == UNCHANGED <<selection, running, total, increment>>

\* Mutant: PREV goes on below the first pattern.
PatternUnderflow(key) ==
  \/ /\ key = PREV
     /\ UiApply(selected_pattern - 1, selected_timer_ticks,
                selected_frame_events)
  \/ /\ key # PREV
     /\ NoApply

\* param 1: the pattern.
ChangePattern(key) ==
  \/ /\ key = PREV /\ selected_pattern > 0
     /\ UiApply(selected_pattern - 1, selected_timer_ticks,
                selected_frame_events)
  \/ /\ key = NEXT /\ selected_pattern < MaxPattern
     /\ UiApply(selected_pattern + 1, selected_timer_ticks,
                selected_frame_events)
  \/ /\ ~(key = PREV /\ selected_pattern > 0)
     /\ ~(key = NEXT /\ selected_pattern < MaxPattern)
     /\ NoApply

Shorter(inc) ==
  IF selected_timer_ticks - inc < CyclesPerUs
  THEN CyclesPerUs ELSE selected_timer_ticks - inc
Longer(inc) == AtMost(selected_timer_ticks + inc, MaxTicks)

\* params 2 and 3: the time base, as a time or as a frequency.
ChangeTicks(key, inc, shorter, longer) ==
  \/ /\ key = shorter /\ selected_timer_ticks > CyclesPerUs
     /\ UiApply(selected_pattern, Shorter(inc), selected_frame_events)
  \/ /\ key = longer /\ selected_timer_ticks < MaxTicks
     /\ UiApply(selected_pattern, Longer(inc), selected_frame_events)
  \/ /\ ~(key = shorter /\ selected_timer_ticks > CyclesPerUs)
     /\ ~(key = longer /\ selected_timer_ticks < MaxTicks)
     /\ NoApply

\* Mutant: the events are those of the last ui_apply.
EventsRemembered(key, inc) ==
  IF pattern_number # MaxPattern \/ key \notin {PREV, NEXT}
  THEN NoApply
  ELSE UiApply(selected_pattern, selected_timer_ticks,
               IF key = NEXT THEN AtMost(selected_frame_events + inc, MaxEvents)
               ELSE AtLeast(selected_frame_events, inc + 1) - inc)

\* param 4: the events, taken from the increment that is in use.
ChangeEvents(key, inc) ==
  LET events == Udiv(total, increment)
  IN  IF pattern_number # MaxPattern
      THEN NoApply
      ELSE \/ /\ key = PREV /\ events > 1
              /\ UiApply(selected_pattern, selected_timer_ticks,
                         IF events - inc < 1 THEN 1 ELSE events - inc)
           \/ /\ key = NEXT /\ events < EventsGuard
              /\ UiApply(selected_pattern, selected_timer_ticks,
                         AtMost(events + inc, MaxEvents))
           \/ /\ ~(key = PREV /\ events > 1)
              /\ ~(key = NEXT /\ events < EventsGuard)
              /\ selected_frame_events' = events
              /\ UNCHANGED <<selected_pattern, selected_timer_ticks, running,
                             total, increment>>

\* The lamp of the parameter goes out, those of the pressed keys are lit.
Lamp(param) == IF param = -1 THEN 7 ELSE param

\* Mutant: the old lamp goes out after the new ones are lit.
LampOutLast(key) ==
  LET params == key \cap (1 .. 6)
  IN  IF params # {}
      THEN /\ selected_param' = Max(params)
           /\ lamps' = (lamps \cup params) \ {Lamp(selected_param)}
      ELSE UNCHANGED <<selected_param, lamps>>

SelectParam(key) ==
  LET params == key \cap (1 .. 6)
  IN  IF params # {}
      THEN /\ selected_param' = Max(params)
           /\ lamps' = (lamps \ {Lamp(selected_param)}) \cup params
      ELSE IF key = PREV \cup NEXT
      THEN /\ selected_param' = -1
           /\ lamps' = lamps \ {Lamp(selected_param)}
      ELSE UNCHANGED <<selected_param, lamps>>

UiCheckEvent(key, inc) ==
  /\ inc = 1 \/ (key \in {PREV, NEXT} /\ last_key = key)
  /\ last_key' = key
  /\ SelectParam(key)
  /\ \/ selected_param = 1 /\ ChangePattern(key)
     \/ selected_param = 2 /\ ChangeTicks(key, inc, PREV, NEXT)
     \/ selected_param = 3 /\ ChangeTicks(key, inc, NEXT, PREV)
     \/ selected_param = 4 /\ ChangeEvents(key, inc)
     \/ selected_param \in {-1, 5, 6} /\ NoApply

\* The interrupt handler runs generic_pattern.
GenericPattern ==
  /\ pattern_number = MaxPattern
  /\ total' = Total
  /\ increment' = AtLeast(increment, MinIncrement)
  /\ UNCHANGED <<selection, selected_param, last_key, lamps, running>>

Init ==
  /\ selected_pattern = 0
  /\ selected_param = -1
  /\ selected_timer_ticks = BootTicks
  /\ selected_frame_events = BootEvents
  /\ last_key = {}
  /\ lamps = {}
  /\ pattern_number = 0
  /\ timer_ticks = TickerStart(Period[0], 0)
  /\ total = 0
  /\ increment = BootIncrement

Next ==
  \/ \E key \in KeySets, inc \in Increments : UiCheckEvent(key, inc)
  \/ GenericPattern

Spec == Init /\ [][Next]_vars

(***************************************************************************)
(* Properties.                                                             *)
(***************************************************************************)
TypeOK ==
  /\ selected_pattern \in Patterns
  /\ selected_param \in {-1} \cup 1 .. 6
  /\ selected_timer_ticks \in CyclesPerUs .. MaxTicks
  /\ selected_frame_events \in Nat
  /\ last_key \in KeySets \cup {{}}
  /\ lamps \in SUBSET (0 .. 7)
  /\ pattern_number \in Patterns
  /\ timer_ticks \in {TickerStart(Period[0], 0)} \cup CyclesPerUs .. MaxTicks
  /\ total \in {0, Total}
  /\ increment \in Nat

\* The device runs what the panel shows: the selected pattern, and from the
\* first change on the selected time base.  Between the two are the limit of
\* ui_apply, the fallback of pattern_select and the rounding of timer_setup,
\* which the limit keeps from ever happening.
PanelInSync ==
  /\ pattern_number = selected_pattern
  /\ \/ timer_ticks = selected_timer_ticks
     \/ /\ timer_ticks = TickerStart(Period[0], 0)
        /\ selected_timer_ticks = BootTicks

\* Frames are never longer than MAX_FRAME_TIME ("longest allowed frame is
\* 52.4288 ms", ui.c:91).
FrameLimit == FrameTime(Period[pattern_number], timer_ticks) <= MaxFrameTime

\* The lamp of the selected parameter is lit.
LampShowsParam == selected_param # -1 => selected_param \in lamps

\* Wherever the first run of generic_pattern comes in ui_apply, the rate that it
\* leaves is one that may be asked for, or 0 until the next run, and the panel's
\* copy of it is the number that the pattern makes, or still the 0 of a total
\* not yet known; never a third number (ui.c:109-119, pattern.c:605-607).
RateCopied ==
  total # 0 =>
    /\ increment \in {0} \cup MinIncrement .. total
    /\ selected_frame_events \in {0, Udiv(total, increment)}

\* On the parameter of the events PREV never makes more of them and NEXT never
\* fewer, although the number goes through two divisions and two clamps.
EventKeysMonotone ==
  [][selected_param = 4 /\ total # 0 /\ increment # 0 =>
       LET now == Udiv(total, increment)
           then == Udiv(total', increment')
       IN  /\ last_key' = PREV => then <= now
           /\ last_key' = NEXT => then >= now]_vars

\* Another pattern or time base leaves the events per frame alone once the
\* panel holds the number that the pattern makes.
EventsKept ==
  [][/\ selected_param # 4
     /\ total # 0
     /\ increment >= MinIncrement
     /\ selected_frame_events = Udiv(total, increment)
     => Udiv(total', increment') = Udiv(total, increment)]_vars

\* Another time base always leaves the events per frame of the generic pattern
\* alone: ui_apply calculates the "event_increment for requested event rate"
\* (ui.c:106), and no other rate has been requested.
TimeBaseKeepsEvents ==
  [][/\ pattern_number = MaxPattern
     /\ selected_param \in {2, 3}
     /\ total # 0
     /\ increment >= MinIncrement
     => Udiv(total', increment') = Udiv(total, increment)]_vars
=============================================================================
