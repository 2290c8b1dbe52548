---------------------------- MODULE PanelProofs ----------------------------
(***************************************************************************)
(* Proofs about Panel, for every table of patterns and every limit.        *)
(***************************************************************************)
EXTENDS Panel, TLAPS

USE CyclesPerUsAssumption, MaxFrameTimeAssumption, PatternsAssumption,
    PeriodAssumption, TicksAssumption, EventsAssumption, MinIncrementAssumption

\* The limit of ui_apply: a time base the keys can ask for, and short enough
\* for the timer to do without the prescaler.
LEMMA LimitedTicks ==
  ASSUME NEW period \in Nat \ {0}, NEW ticks \in 0 .. MaxTicks,
         ((MaxFrameTime + 1) * CyclesPerUs - 1) \div period <= PrescaleAbove
  PROVE  /\ Limited(period, ticks) \in CyclesPerUs .. MaxTicks
         /\ Limited(period, ticks) <= PrescaleAbove
<1> DEFINE top == (MaxFrameTime + 1) * CyclesPerUs - 1
           longest == top \div period
<1>1. top \in Nat
  <2>1. (MaxFrameTime + 1) * CyclesPerUs >= 1
    OBVIOUS
  <2> QED
    BY <2>1
<1>2. longest \in Nat
  <2> HIDE DEF top
  <2> QED
    BY <1>1
<1>3. PrescaleAbove \in Nat /\ CyclesPerUs <= PrescaleAbove
  BY PrescalerAssumption, RateAssumption
<1> HIDE DEF longest
<1>4. Limited(period, ticks) = AtLeast(AtMost(ticks, longest), CyclesPerUs)
  BY DEF Limited, longest
<1>5. longest <= PrescaleAbove
  BY DEF longest
<1> QED
  BY <1>2, <1>3, <1>4, <1>5 DEF AtLeast, AtMost

\* The timer runs at the time base that a restart asks for.
LEMMA StartsAsRequested ==
  ASSUME NEW period \in Nat \ {0}, NEW ticks \in CyclesPerUs .. MaxTicks,
         ticks <= PrescaleAbove
  PROVE  TickerStart(period, ticks) = ticks
BY PrescalerAssumption DEF TickerStart, TimerSetup

\* The increment, and so the number of events, stays a natural number.
LEMMA EventsAreNat ==
  ASSUME NEW sum \in Nat, NEW events \in Nat
  PROVE  IncrementFor(sum, events) \in Nat /\ EventsOf(sum, events) \in Nat
<1> DEFINE raw == Udiv(sum, AtLeast(events, 1))
<1>1. AtLeast(events, 1) \in Nat \ {0}
  BY DEF AtLeast
<1>2. raw \in Nat
  BY <1>1 DEF Udiv
<1> HIDE DEF raw
<1>3. IncrementFor(sum, events) = AtMost(AtLeast(raw, MinIncrement), sum)
  BY DEF IncrementFor, raw
<1>4. IncrementFor(sum, events) \in Nat
  BY <1>2, <1>3 DEF AtMost, AtLeast
<1>5. EventsOf(sum, events) \in Nat
  BY <1>4 DEF EventsOf, Udiv
<1> QED
  BY <1>4, <1>5

\* What a race leaves: the number of events that the increment makes, or 0.
LEMMA RacedRate ==
  ASSUME NEW rate \in RacedRates
  PROVE  /\ rate[1] \in Nat /\ rate[2] \in {0} \cup MinIncrement .. Total
         /\ rate[1] \in {0, Udiv(Total, rate[2])}
<1>1. Total \in Nat \ {0} /\ MinIncrement \in 1 .. Total
  OBVIOUS
<1>2. Udiv(Total, MinIncrement) \in Nat /\ Udiv(Total, Total) = 1
  BY <1>1 DEF Udiv
<1> QED
  BY <1>1, <1>2 DEF RacedRates

Inv == TypeOK /\ PanelInSync

\* ui_apply leaves the panel and the device in step.
LEMMA ApplyKeepsInv ==
  ASSUME Inv, NEW pattern \in Patterns, NEW ticks \in 0 .. MaxTicks,
         NEW events \in Nat, UiApply(pattern, ticks, events),
         selected_param' \in {-1} \cup 1 .. 6, last_key' \in KeySets,
         lamps' \in SUBSET (0 .. 7)
  PROVE  Inv'
<1> DEFINE limited == Limited(Period[pattern_number], ticks)
<1>1. /\ limited \in CyclesPerUs .. MaxTicks
      /\ limited <= PrescaleAbove
  <2>1. /\ Period[pattern_number] \in Nat \ {0}
        /\ ((MaxFrameTime + 1) * CyclesPerUs - 1) \div Period[pattern_number]
             <= PrescaleAbove
    BY RateAssumption DEF Inv, TypeOK
  <2> QED
    BY <2>1, LimitedTicks
<1> HIDE DEF limited
<1>2. /\ selected_pattern' = pattern
      /\ selected_timer_ticks' = limited
      /\ Restart(pattern, limited)
  BY DEF UiApply, limited
<1>3. /\ selected_frame_events' \in Nat
      /\ increment' \in Nat
      /\ total' \in {0, Total}
  <2>1. total \in Nat
    BY DEF Inv, TypeOK
  <2>2. CASE /\ selected_frame_events' = EventsOf(total, events)
             /\ increment' = IncrementFor(total, events)
             /\ UNCHANGED total
    BY <2>1, <2>2, EventsAreNat DEF Inv, TypeOK
  <2>3. CASE /\ total' = Total
             /\ selected_frame_events' = EventsOf(Total, events)
             /\ increment' = IncrementFor(Total, events)
    BY <2>3, EventsAreNat
  <2>4. ASSUME total' = Total,
               NEW rate \in RacedRates,
               selected_frame_events' = rate[1], increment' = rate[2]
        PROVE  /\ selected_frame_events' \in Nat
               /\ increment' \in Nat
               /\ total' \in {0, Total}
    BY <2>4, RacedRate
  <2> QED
    BY <2>2, <2>3, <2>4 DEF UiApply
<1>4. pattern_number' = pattern /\ timer_ticks' = limited
  <2>1. CASE timer_ticks = limited /\ pattern_number = pattern
    BY <1>2, <2>1 DEF Restart, running
  <2>2. CASE ~(timer_ticks = limited /\ pattern_number = pattern)
    <3>1. pattern <= MaxPattern /\ Period[pattern] \in Nat \ {0}
      BY DEF Patterns
    <3>2. TickerStart(Period[pattern], limited) = limited
      BY <1>1, <3>1, StartsAsRequested
    <3> QED
      BY <1>2, <2>2, <3>1, <3>2 DEF Restart
  <2> QED
    BY <2>1, <2>2
<1> QED
  BY <1>1, <1>2, <1>3, <1>4 DEF Inv, TypeOK, PanelInSync

\* The keys that change nothing but the parameter and its lamp.
LEMMA NoApplyKeepsInv ==
  ASSUME Inv, NoApply, selected_param' \in {-1} \cup 1 .. 6,
         last_key' \in KeySets, lamps' \in SUBSET (0 .. 7)
  PROVE  Inv'
BY DEF Inv, TypeOK, PanelInSync, NoApply, selection, running

\* The greatest of some keys of the parameters is one of them.
LEMMA MaxIsPressed ==
  ASSUME NEW key, key \cap (1 .. 6) # {}
  PROVE  Max(key \cap (1 .. 6)) \in key \cap (1 .. 6)
<1> DEFINE params == key \cap (1 .. 6)
<1>1. \/ 6 \in params
      \/ 5 \in params /\ 6 \notin params
      \/ 4 \in params /\ \A i \in 5 .. 6 : i \notin params
      \/ 3 \in params /\ \A i \in 4 .. 6 : i \notin params
      \/ 2 \in params /\ \A i \in 3 .. 6 : i \notin params
      \/ 1 \in params /\ \A i \in 2 .. 6 : i \notin params
  OBVIOUS
<1>2. \E x \in params : \A y \in params : x >= y
  BY <1>1
<1> QED
  BY <1>2 DEF Max

\* The parameter selected by several keys is one of theirs.
LEMMA SelectParamTypes ==
  ASSUME Inv, NEW key \in KeySets, SelectParam(key)
  PROVE  /\ selected_param' \in {-1} \cup 1 .. 6
         /\ lamps' \in SUBSET (0 .. 7)
<1> DEFINE params == key \cap (1 .. 6)
<1>1. CASE params # {}
  <2>2. Max(params) \in params
    BY <1>1, MaxIsPressed
  <2>3. /\ selected_param' = Max(params)
        /\ lamps' = (lamps \ {Lamp(selected_param)}) \cup params
    BY <1>1 DEF SelectParam
  <2>4. lamps' \in SUBSET (0 .. 7)
    <3>1. params \subseteq 0 .. 7
      OBVIOUS
    <3>2. lamps \subseteq 0 .. 7
      BY DEF Inv, TypeOK
    <3> HIDE DEF params
    <3> QED
      BY <2>3, <3>1, <3>2
  <2> QED
    BY <2>2, <2>3, <2>4
<1>2. CASE params = {}
  BY <1>2 DEF SelectParam, Inv, TypeOK
<1> QED
  BY <1>1, <1>2

\* The device always runs what the panel shows.
THEOREM PanelStaysInSync == Spec => [](TypeOK /\ PanelInSync)
<1>1. ASSUME Init PROVE Inv
  <2>1. 0 \in Patterns /\ -1 \in {-1} \cup 1 .. 6 /\ 0 \in {0, Total}
    BY DEF Patterns
  <2>2. BootTicks \in CyclesPerUs .. MaxTicks /\ BootEvents \in Nat
        /\ BootIncrement \in Nat
    OBVIOUS
  <2> QED
    BY <1>1, <2>1, <2>2 DEF Init, Inv, TypeOK, PanelInSync
<1>2. ASSUME Inv, [Next]_vars PROVE Inv'
  <2> USE <1>2
  <2>1. ASSUME NEW key \in KeySets, NEW inc \in Increments,
               UiCheckEvent(key, inc)
        PROVE  Inv'
    <3>1. /\ selected_param' \in {-1} \cup 1 .. 6
          /\ lamps' \in SUBSET (0 .. 7)
          /\ last_key' \in KeySets
      BY <2>1, SelectParamTypes DEF UiCheckEvent
    <3>2. inc \in Nat \ {0}
      BY IncrementsAssumption
    <3>3. /\ selected_pattern \in Patterns
          /\ selected_timer_ticks \in 0 .. MaxTicks
          /\ selected_frame_events \in Nat
          /\ Udiv(total, increment) \in Nat
      BY DEF Inv, TypeOK, Udiv
    <3>4. CASE ChangePattern(key)
      <4>1. selected_pattern > 0 => selected_pattern - 1 \in Patterns
        BY <3>3 DEF Patterns
      <4>2. selected_pattern < MaxPattern => selected_pattern + 1 \in Patterns
        BY <3>3 DEF Patterns
      <4> QED
        BY <3>1, <3>3, <3>4, <4>1, <4>2, ApplyKeepsInv, NoApplyKeepsInv
        DEF ChangePattern
    <3>5. ASSUME NEW shorter, NEW longer,
                 ChangeTicks(key, inc, shorter, longer)
          PROVE  Inv'
      <4>1. Shorter(inc) \in 0 .. MaxTicks /\ Longer(inc) \in 0 .. MaxTicks
        BY <3>2 DEF Shorter, Longer, AtMost, Inv, TypeOK
      <4> QED
        BY <3>1, <3>3, <3>5, <4>1, ApplyKeepsInv, NoApplyKeepsInv
        DEF ChangeTicks
    <3>6. CASE ChangeEvents(key, inc)
      <4> DEFINE events == Udiv(total, increment)
      <4>1. /\ (IF events - inc < 1 THEN 1 ELSE events - inc) \in Nat
            /\ AtMost(events + inc, MaxEvents) \in Nat
        BY <3>2, <3>3 DEF AtMost
      <4>2. ASSUME selected_frame_events' = events,
                   UNCHANGED <<selected_pattern, selected_timer_ticks, running,
                               total, increment>>
            PROVE  Inv'
        BY <3>1, <3>3, <4>2 DEF Inv, TypeOK, PanelInSync, running
      <4> HIDE DEF events
      <4> QED
        BY <3>1, <3>3, <3>6, <4>1, <4>2, ApplyKeepsInv, NoApplyKeepsInv
        DEF ChangeEvents, events
    <3> QED
      BY <2>1, <3>1, <3>4, <3>5, <3>6, NoApplyKeepsInv DEF UiCheckEvent
  <2>2. CASE GenericPattern
    <3>1. increment' \in Nat
      BY <2>2 DEF GenericPattern, AtLeast, Inv, TypeOK
    <3> QED
      BY <2>2, <3>1 DEF GenericPattern, selection, running, Inv, TypeOK,
                        PanelInSync
  <2>3. CASE UNCHANGED vars
    BY <2>3 DEF vars, selection, running, Inv, TypeOK, PanelInSync
  <2> QED
    BY <2>1, <2>2, <2>3 DEF Next
<1>3. Inv => TypeOK /\ PanelInSync
  BY DEF Inv
<1> QED
  BY <1>1, <1>2, <1>3, PTL DEF Spec

\* The selection of the panel, the lamps and what runs have their types.
THEOREM TypeCorrect == Spec => []TypeOK
<1>1. TypeOK /\ PanelInSync => TypeOK
  OBVIOUS
<1> QED
  BY <1>1, PanelStaysInSync, PTL

\* The lamp of the selected parameter is lit, whatever keys are pressed together.
THEOREM LampIsLit == Spec => []LampShowsParam
<1>1. Init => LampShowsParam
  BY DEF Init, LampShowsParam
<1>2. ASSUME LampShowsParam, [Next]_vars PROVE LampShowsParam'
  <2>1. ASSUME NEW key, NEW inc, UiCheckEvent(key, inc) PROVE LampShowsParam'
    <3> DEFINE params == key \cap (1 .. 6)
    <3>1. SelectParam(key)
      BY <2>1 DEF UiCheckEvent
    <3>2. CASE params # {}
      <4>1. Max(params) \in params
        BY <3>2, MaxIsPressed
      <4>2. selected_param' = Max(params) /\ params \subseteq lamps'
        BY <3>1, <3>2 DEF SelectParam
      <4> HIDE DEF params
      <4> QED
        BY <4>1, <4>2 DEF LampShowsParam
    <3>3. CASE params = {}
      BY <1>2, <3>1, <3>3 DEF SelectParam, LampShowsParam
    <3> QED
      BY <3>2, <3>3
  <2>2. CASE GenericPattern
    BY <1>2, <2>2 DEF GenericPattern, LampShowsParam
  <2>3. CASE UNCHANGED vars
    BY <1>2, <2>3 DEF vars, LampShowsParam
  <2> QED
    BY <1>2, <2>1, <2>2, <2>3 DEF Next
<1> QED
  BY <1>1, <1>2, PTL DEF Spec

-----------------------------------------------------------------------------
(***************************************************************************)
(* Events and increments: two divisions and two clamps.                    *)
(***************************************************************************)
LEMMA Quotient ==
  ASSUME NEW a \in Nat, NEW n \in Nat \ {0}
  PROVE  /\ a \div n \in Nat
         /\ n * (a \div n) \in Nat
         /\ n * (a \div n) <= a
         /\ a < (n * (a \div n)) + n
<1> DEFINE q == a \div n
<1>1. q \in Int /\ a % n \in 0 .. n - 1 /\ a = (n * q) + (a % n)
  OBVIOUS
<1>2. q \in Nat
  OBVIOUS
<1> HIDE DEF q
<1>3. n * q \in Nat
  BY <1>2
<1> QED
  BY <1>1, <1>2, <1>3 DEF q

LEMMA QuotientAtLeast ==
  ASSUME NEW a \in Nat, NEW n \in Nat \ {0}, NEW q \in Nat, n * q <= a
  PROVE  q <= a \div n
<1> DEFINE p == a \div n
<1>1. p \in Nat /\ n * p \in Nat /\ a < (n * p) + n
  BY Quotient
<1> HIDE DEF p
<1>2. n * q \in Nat
  OBVIOUS
<1>3. n * q < (n * p) + n
  BY <1>1, <1>2
<1>4. SUFFICES ASSUME q >= p + 1 PROVE FALSE
  BY <1>1 DEF p
<1>5. n * q >= n * (p + 1) /\ n * (p + 1) = (n * p) + n
  BY <1>1, <1>4
<1> QED
  BY <1>1, <1>2, <1>3, <1>5

\* A greater increment makes no more events.
LEMMA MoreIsFewer ==
  ASSUME NEW a \in Nat, NEW m \in Nat \ {0}, NEW n \in Nat \ {0}, m <= n
  PROVE  a \div n <= a \div m
<1> DEFINE q == a \div n
<1>1. q \in Nat /\ n * q \in Nat /\ n * q <= a
  BY Quotient
<1> HIDE DEF q
<1>2. m * q \in Nat /\ m * q <= n * q
  BY <1>1
<1>3. m * q <= a
  BY <1>1, <1>2
<1> QED
  BY <1>1, <1>3, QuotientAtLeast DEF q

\* What ui_apply makes of a wanted number of events.
LEMMA WantedIncrement ==
  ASSUME NEW r \in Nat \ {0}
  PROVE  /\ Total \div r \in Nat
         /\ IncrementFor(Total, r) = AtLeast(Total \div r, MinIncrement)
         /\ IncrementFor(Total, r) \in Nat \ {0}
         /\ IncrementFor(Total, r) >= MinIncrement
         /\ IncrementFor(Total, r) <= Total
<1> DEFINE raw == Total \div r
<1>1. raw \in Nat /\ raw <= Total
  <2>1. raw \in Nat /\ r * raw <= Total /\ r * raw \in Nat
    BY Quotient
  <2> HIDE DEF raw
  <2>2. raw <= r * raw
    BY <2>1
  <2> QED
    BY <2>1, <2>2
<1> HIDE DEF raw
<1>2. IncrementFor(Total, r) = AtMost(AtLeast(raw, MinIncrement), Total)
  BY DEF IncrementFor, Udiv, AtLeast, raw
<1> QED
  BY <1>1, <1>2 DEF AtLeast, AtMost, raw

\* Fewer events wanted than the increment makes: no more come.
LEMMA FewerWanted ==
  ASSUME NEW k \in Nat \ {0}, NEW r \in Nat \ {0}, r <= Total \div k
  PROVE  Total \div IncrementFor(Total, r) <= Total \div k
<1> DEFINE e == Total \div k
           raw == Total \div r
           inc == IncrementFor(Total, r)
<1>1. e \in Nat /\ k * e <= Total /\ k * e \in Nat
  BY Quotient
<1>2. raw \in Nat /\ inc \in Nat \ {0} /\ inc >= raw
  BY WantedIncrement DEF AtLeast
<1>3. k <= raw
  <2> HIDE DEF e
  <2>1. r <= e
    BY DEF e
  <2>2. r * k <= k * e
    BY <1>1, <2>1
  <2>3. r * k \in Nat
    OBVIOUS
  <2>4. r * k <= Total
    BY <1>1, <2>2, <2>3
  <2> QED
    BY <2>4, QuotientAtLeast
<1> HIDE DEF inc, raw
<1>4. k <= inc
  BY <1>2, <1>3
<1> QED
  BY <1>2, <1>4, MoreIsFewer DEF inc

\* More events wanted: no fewer come.
LEMMA MoreWanted ==
  ASSUME NEW k \in Nat \ {0}, NEW r \in Nat \ {0}, Total \div k <= r,
         k >= MinIncrement
  PROVE  Total \div k <= Total \div IncrementFor(Total, r)
<1> DEFINE e == Total \div k
           raw == Total \div r
           inc == IncrementFor(Total, r)
<1>1. e \in Nat
  BY Quotient
<1>2. raw \in Nat /\ inc \in Nat \ {0} /\ inc = AtLeast(raw, MinIncrement)
  BY WantedIncrement
<1>3. CASE raw < MinIncrement
  <2>1. inc <= k
    <3> HIDE DEF raw, inc
    <3> QED
      BY <1>2, <1>3 DEF AtLeast
  <2> QED
    BY <1>2, <2>1, MoreIsFewer
<1>4. CASE ~(raw < MinIncrement)
  <2>1. inc = raw
    BY <1>4, <1>2 DEF AtLeast
  <2>2. r * raw <= Total /\ r * raw \in Nat
    BY Quotient
  <2> HIDE DEF raw, inc, e
  <2>3. inc * r <= Total
    BY <1>2, <2>1, <2>2
  <2>4. r <= Total \div inc
    BY <1>2, <2>3, QuotientAtLeast
  <2>5. Total \div inc \in Nat
    BY <1>2, Quotient
  <2>6. e <= r
    BY DEF e
  <2>7. e <= Total \div inc
    BY <1>1, <2>4, <2>5, <2>6
  <2> QED
    BY <2>7 DEF e, inc
<1> QED
  BY <1>3, <1>4

\* The number that an increment makes is made again.
LEMMA SameWanted ==
  ASSUME NEW k \in Nat \ {0}, k >= MinIncrement, k <= Total
  PROVE  Total \div IncrementFor(Total, Total \div k) = Total \div k
<1> DEFINE e == Total \div k
<1>1. e \in Nat \ {0}
  <2>1. e \in Nat
    BY Quotient
  <2>2. k * 1 <= Total /\ 1 \in Nat
    OBVIOUS
  <2>3. 1 <= e
    BY <2>2, QuotientAtLeast
  <2> QED
    BY <2>1, <2>3
<1>2. ASSUME NEW r \in Nat \ {0}, r = e
      PROVE  /\ Total \div IncrementFor(Total, r) <= e
             /\ e <= Total \div IncrementFor(Total, r)
  <2>1. r <= Total \div k /\ Total \div k <= r
    BY <1>1, <1>2
  <2> QED
    BY <2>1, FewerWanted, MoreWanted
<1>3. Total \div IncrementFor(Total, e) \in Nat
  BY <1>1, WantedIncrement, Quotient
<1> HIDE DEF e
<1>4. Total \div IncrementFor(Total, e) = e
  BY <1>1, <1>2, <1>3
<1> QED
  BY <1>4 DEF e

\* Once the total is known the increment is 0, from before, or one that ui_apply
\* may choose.
IncrementInv ==
  /\ increment <= Total
  /\ total # 0 => increment = 0 \/ increment >= MinIncrement

RateInv == TypeOK /\ IncrementInv

LEMMA WantedNothing == ASSUME NEW r \in Nat PROVE IncrementFor(0, r) = 0
<1> DEFINE raw == Udiv(0, AtLeast(r, 1))
<1>1. raw \in Nat
  <2>1. AtLeast(r, 1) \in Nat \ {0}
    BY DEF AtLeast
  <2> QED
    BY <2>1 DEF Udiv
<1> HIDE DEF raw
<1> QED
  BY <1>1 DEF IncrementFor, AtMost, AtLeast, raw

\* ui_apply chooses an increment between the least one and the total.
LEMMA FitsTotal ==
  ASSUME NEW events \in Nat
  PROVE  /\ IncrementFor(Total, events) >= MinIncrement
         /\ IncrementFor(Total, events) <= Total
<1>1. AtLeast(events, 1) \in Nat \ {0}
      /\ IncrementFor(Total, events) = IncrementFor(Total, AtLeast(events, 1))
  BY DEF IncrementFor, AtLeast
<1> QED
  BY <1>1, WantedIncrement

LEMMA ApplyKeepsIncrement ==
  ASSUME RateInv, NEW pattern, NEW ticks, NEW events \in Nat,
         UiApply(pattern, ticks, events)
  PROVE  IncrementInv'
<1>1. CASE increment' = IncrementFor(total, events) /\ UNCHANGED total
  <2>1. CASE total = 0
    BY <1>1, <2>1, WantedNothing DEF IncrementInv
  <2>2. CASE total = Total
    <3>1. /\ IncrementFor(Total, events) >= MinIncrement
          /\ IncrementFor(Total, events) <= Total
      BY FitsTotal
    <3> QED
      BY <1>1, <2>2, <3>1 DEF IncrementInv
  <2> QED
    BY <2>1, <2>2 DEF RateInv, TypeOK
<1>2. CASE increment' = IncrementFor(Total, events) /\ total' = Total
  <2>1. /\ IncrementFor(Total, events) >= MinIncrement
        /\ IncrementFor(Total, events) <= Total
    BY FitsTotal
  <2> QED
    BY <1>2, <2>1 DEF IncrementInv
<1>3. ASSUME NEW rate \in RacedRates, increment' = rate[2] PROVE IncrementInv'
  BY <1>3, RacedRate DEF IncrementInv
<1> QED
  BY <1>1, <1>2, <1>3 DEF UiApply

\* Without ui_apply the rate stays, and at the most its copy is brought up to date.
Unapplied ==
  /\ UNCHANGED <<total, increment, pattern_number>>
  /\ selected_frame_events' \in {selected_frame_events, Udiv(total, increment)}

\* The numbers of events that the keys ask for, and no others, reach ui_apply.
LEMMA WhichApply ==
  ASSUME TypeOK, NEW key \in KeySets, NEW inc \in Increments, UiCheckEvent(key, inc)
  PROVE  \/ Unapplied
         \/ /\ selected_param \in 1 .. 3
            /\ \E pattern, ticks : UiApply(pattern, ticks, selected_frame_events)
         \/ /\ selected_param = 4
            /\ \E pattern, ticks : \E events \in Nat \ {0} :
                 /\ UiApply(pattern, ticks, events)
                 /\ key = PREV => events <= Udiv(total, increment)
                 /\ key = NEXT => events >= Udiv(total, increment)
                                    \/ events >= MaxEvents
<1> DEFINE events == Udiv(total, increment)
<1>1. inc \in Nat \ {0}
  BY IncrementsAssumption
<1>2. events \in Nat
  BY DEF TypeOK, Udiv
<1>3. NoApply => Unapplied
  BY DEF NoApply, Unapplied, selection, running
<1>4. CASE selected_param = 1 /\ ChangePattern(key)
  BY <1>3, <1>4 DEF ChangePattern
<1>5. ASSUME selected_param \in {2, 3}, NEW shorter, NEW longer,
             ChangeTicks(key, inc, shorter, longer)
      PROVE  \/ Unapplied
             \/ /\ selected_param \in 1 .. 3
                /\ \E pattern, ticks :
                     UiApply(pattern, ticks, selected_frame_events)
  BY <1>3, <1>5 DEF ChangeTicks
<1>6. CASE selected_param = 4 /\ ChangeEvents(key, inc)
  <2>1. PREV # NEXT
    BY DEF PREV, NEXT
  <2> DEFINE fewer == IF events - inc < 1 THEN 1 ELSE events - inc
             more == AtMost(events + inc, MaxEvents)
  <2>2. /\ events > 1 => fewer \in Nat \ {0} /\ fewer <= events
        /\ more \in Nat \ {0} /\ (more >= events \/ more >= MaxEvents)
    <3> HIDE DEF events
    <3> QED
      BY <1>1, <1>2 DEF AtMost
  <2>3. \/ Unapplied
        \/ /\ key = PREV /\ events > 1
           /\ UiApply(selected_pattern, selected_timer_ticks, fewer)
        \/ /\ key = NEXT
           /\ UiApply(selected_pattern, selected_timer_ticks, more)
    <3>1. CASE pattern_number # MaxPattern
      BY <1>3, <1>6, <3>1 DEF ChangeEvents
    <3>2. CASE ~(pattern_number # MaxPattern)
      <4> HIDE DEF events
      <4>1. \/ key = PREV /\ events > 1
               /\ UiApply(selected_pattern, selected_timer_ticks, fewer)
            \/ key = NEXT
               /\ UiApply(selected_pattern, selected_timer_ticks, more)
            \/ /\ selected_frame_events' = events
               /\ UNCHANGED <<running, total, increment>>
        BY ONLY <1>6, <3>2 DEF ChangeEvents, events, fewer, more
      <4> QED
        BY <4>1 DEF Unapplied, running, events
    <3> QED
      BY <3>1, <3>2
  <2> HIDE DEF events, fewer, more
  <2>4. CASE /\ key = PREV /\ events > 1
             /\ UiApply(selected_pattern, selected_timer_ticks, fewer)
    BY <1>6, <2>1, <2>2, <2>4 DEF events
  <2>5. CASE /\ key = NEXT
             /\ UiApply(selected_pattern, selected_timer_ticks, more)
    BY <1>6, <2>1, <2>2, <2>5 DEF events
  <2> QED
    BY <2>3, <2>4, <2>5
<1> QED
  BY <1>3, <1>4, <1>5, <1>6 DEF UiCheckEvent

\* The increment stays within the total, and is none that ui_apply would not
\* choose.
LEMMA RateInvariant == Spec => []RateInv
<1>1. Init => IncrementInv
  BY DEF Init, IncrementInv
<1>2. ASSUME RateInv, [Next]_vars PROVE IncrementInv'
  <2> USE <1>2
  <2>1. ASSUME NEW key \in KeySets, NEW inc \in Increments,
               UiCheckEvent(key, inc)
        PROVE  IncrementInv'
    <3>1. CASE Unapplied
      BY <3>1 DEF Unapplied, RateInv, IncrementInv
    <3>2. ASSUME NEW pattern, NEW ticks, NEW events \in Nat,
                 UiApply(pattern, ticks, events)
          PROVE  IncrementInv'
      BY <3>2, ApplyKeepsIncrement
    <3>3. selected_frame_events \in Nat
      BY DEF RateInv, TypeOK
    <3>4. TypeOK
      BY DEF RateInv
    <3> QED
      BY <2>1, <3>1, <3>2, <3>3, <3>4, WhichApply
  <2>2. CASE GenericPattern
    BY <2>2 DEF GenericPattern, AtLeast, RateInv, IncrementInv, TypeOK
  <2>3. CASE UNCHANGED vars
    BY <2>3 DEF vars, RateInv, IncrementInv
  <2> QED
    BY <2>1, <2>2, <2>3 DEF Next
<1> QED
  BY <1>1, <1>2, TypeCorrect, PTL DEF Spec, RateInv

\* Before the total is known the generic pattern runs with nothing at all: a run
\* of ui_apply selected it, and calculated 0.
CopyInv ==
  /\ total = 0 /\ pattern_number = MaxPattern
       => selected_frame_events = 0 /\ increment = 0
  /\ total # 0 => selected_frame_events \in {0, Udiv(total, increment)}

LEMMA NothingMakesNothing == Udiv(0, 0) = 0
BY DEF Udiv

LEMMA ApplyKeepsCopy ==
  ASSUME RateInv, NEW pattern, NEW ticks, NEW events \in Nat,
         UiApply(pattern, ticks, events)
  PROVE  CopyInv'
<1>1. CASE /\ selected_frame_events' = EventsOf(total, events)
           /\ increment' = IncrementFor(total, events)
           /\ UNCHANGED total
  <2>1. CASE total = 0
    <3>1. IncrementFor(0, events) = 0
      BY WantedNothing
    <3>2. EventsOf(0, events) = 0
      BY <3>1 DEF EventsOf, Udiv
    <3> QED
      BY <1>1, <2>1, <3>1, <3>2 DEF CopyInv
  <2>2. CASE total # 0
    BY <1>1, <2>2 DEF CopyInv, EventsOf
  <2> QED
    BY <2>1, <2>2
<1>2. CASE /\ selected_frame_events' = EventsOf(Total, events)
           /\ increment' = IncrementFor(Total, events)
           /\ total' = Total
  <2>1. Total # 0
    OBVIOUS
  <2> QED
    BY <1>2, <2>1 DEF CopyInv, EventsOf
<1>3. ASSUME NEW rate \in RacedRates, total' = Total,
             selected_frame_events' = rate[1], increment' = rate[2]
      PROVE  CopyInv'
  <2>1. Total # 0
    OBVIOUS
  <2> QED
    BY <1>3, <2>1, RacedRate DEF CopyInv
<1> QED
  BY <1>1, <1>2, <1>3 DEF UiApply

\* Wherever the first run of generic_pattern comes in ui_apply, the rate that it
\* leaves may be asked for, or is 0 until the next run, and the panel's copy of
\* it is the number that the pattern makes, or 0 (ui.c:109-119).
THEOREM RateIsCopied == Spec => []RateCopied
<1>1. ASSUME Init PROVE CopyInv
  BY <1>1 DEF Init, CopyInv
<1>2. ASSUME RateInv, CopyInv, [Next]_vars PROVE CopyInv'
  <2> USE <1>2
  <2>1. ASSUME NEW key \in KeySets, NEW inc \in Increments,
               UiCheckEvent(key, inc)
        PROVE  CopyInv'
    <3>1. CASE Unapplied
      BY <3>1, NothingMakesNothing DEF Unapplied, CopyInv
    <3>2. ASSUME NEW pattern, NEW ticks, NEW events \in Nat,
                 UiApply(pattern, ticks, events)
          PROVE  CopyInv'
      BY <3>2, ApplyKeepsCopy
    <3>3. selected_frame_events \in Nat
      BY DEF RateInv, TypeOK
    <3>4. TypeOK
      BY DEF RateInv
    <3> QED
      BY <2>1, <3>1, <3>2, <3>3, <3>4, WhichApply
  <2>2. CASE GenericPattern
    <3>1. total' = Total /\ Total # 0 /\ UNCHANGED selected_frame_events
      BY <2>2 DEF GenericPattern, selection
    <3>2. CASE total = 0
      BY <2>2, <3>1, <3>2 DEF GenericPattern, CopyInv
    <3>3. CASE total # 0 /\ increment = 0
      <4>1. selected_frame_events = 0
        BY <3>3 DEF CopyInv, Udiv
      <4> QED
        BY <3>1, <4>1 DEF CopyInv
    <3>4. CASE total # 0 /\ increment >= MinIncrement
      <4>1. increment' = increment /\ total' = total
        BY <2>2, <3>1, <3>4 DEF GenericPattern, AtLeast, RateInv, TypeOK
      <4> QED
        BY <3>1, <3>4, <4>1 DEF CopyInv
    <3> QED
      BY <3>2, <3>3, <3>4 DEF RateInv, IncrementInv
  <2>3. CASE UNCHANGED vars
    BY <2>3 DEF vars, selection, running, CopyInv
  <2> QED
    BY <2>1, <2>2, <2>3 DEF Next
<1>3. RateInv /\ CopyInv => RateCopied
  BY DEF RateInv, IncrementInv, CopyInv, RateCopied, TypeOK
<1> QED
  BY <1>1, <1>2, <1>3, RateInvariant, PTL DEF Spec

\* Once the total is known, ui_apply has the increment that it calculates.
LEMMA AppliedIncrement ==
  ASSUME RateInv, total # 0, NEW pattern, NEW ticks, NEW events \in Nat \ {0},
         UiApply(pattern, ticks, events)
  PROVE  /\ total = Total /\ total' = Total
         /\ increment' = IncrementFor(Total, events)
         /\ increment' \in Nat \ {0} /\ increment' >= MinIncrement
<1>1. total = Total
  BY DEF RateInv, TypeOK
<1>2. increment' = IncrementFor(total, events) /\ UNCHANGED total
  BY DEF UiApply
<1> QED
  BY <1>1, <1>2, WantedIncrement

\* Another pattern or time base leaves the events per frame alone.
THEOREM EventsStay == Spec => EventsKept
<1> DEFINE Kept == /\ selected_param # 4
                   /\ total # 0
                   /\ increment >= MinIncrement
                   /\ selected_frame_events = Udiv(total, increment)
                   => Udiv(total', increment') = Udiv(total, increment)
<1>1. ASSUME RateInv, [Next]_vars PROVE [Kept]_vars
  <2>1. SUFFICES ASSUME selected_param # 4, total # 0,
                        increment >= MinIncrement,
                        selected_frame_events = Udiv(total, increment),
                        Next
                 PROVE  Udiv(total', increment') = Udiv(total, increment)
    BY <1>1
  <2>2. /\ increment \in Nat \ {0} /\ increment <= Total
        /\ total = Total /\ TypeOK
    BY <1>1, <2>1 DEF RateInv, IncrementInv, TypeOK
  <2>3. ASSUME NEW key \in KeySets, NEW inc \in Increments,
               UiCheckEvent(key, inc)
        PROVE  Udiv(total', increment') = Udiv(total, increment)
    <3>1. ASSUME NEW pattern, NEW ticks,
                 UiApply(pattern, ticks, selected_frame_events)
          PROVE  Udiv(total', increment') = Udiv(total, increment)
      <4> DEFINE e == Total \div increment
      <4>1. e \in Nat /\ selected_frame_events = e
        BY <2>1, <2>2 DEF Udiv
      <4>2. 1 <= e
        <5>1. increment * 1 <= Total /\ 1 \in Nat
          BY <2>2
        <5> QED
          BY <2>2, <5>1, QuotientAtLeast
      <4>3. selected_frame_events \in Nat \ {0}
        BY <4>1, <4>2
      <4>4. /\ total' = Total
            /\ increment' = IncrementFor(Total, selected_frame_events)
            /\ increment' \in Nat \ {0}
        BY <1>1, <2>1, <3>1, <4>3, AppliedIncrement
      <4>5. Total \div IncrementFor(Total, e) = e
        BY <2>1, <2>2, SameWanted
      <4>6. Total \div increment' = e
        BY <4>1, <4>4, <4>5
      <4> HIDE DEF e
      <4>7. Udiv(total', increment') = Total \div increment'
        BY <4>4 DEF Udiv
      <4>8. Udiv(total, increment) = e
        BY <2>2 DEF Udiv, e
      <4> QED
        BY <4>6, <4>7, <4>8
    <3> QED
      BY <2>1, <2>2, <2>3, <3>1, WhichApply DEF Unapplied
  <2>4. CASE GenericPattern
    BY <2>1, <2>2, <2>4 DEF GenericPattern, AtLeast
  <2> QED
    BY <2>1, <2>3, <2>4 DEF Next
<1> QED
  BY <1>1, RateInvariant, PTL DEF Spec, EventsKept

\* PREV never makes more events, NEXT never fewer.
THEOREM EventKeysWork == Spec => EventKeysMonotone
<1> DEFINE Works == selected_param = 4 /\ total # 0 /\ increment # 0 =>
                      LET now == Udiv(total, increment)
                          then == Udiv(total', increment')
                      IN  /\ last_key' = PREV => then <= now
                          /\ last_key' = NEXT => then >= now
<1>1. ASSUME RateInv, [Next]_vars PROVE [Works]_vars
  <2>1. SUFFICES ASSUME selected_param = 4, total # 0, increment # 0, Next
                 PROVE  LET now == Udiv(total, increment)
                            then == Udiv(total', increment')
                        IN  /\ last_key' = PREV => then <= now
                            /\ last_key' = NEXT => then >= now
    BY <1>1
  <2>2. /\ increment \in Nat \ {0} /\ increment >= MinIncrement
        /\ total = Total /\ TypeOK
    BY <1>1, <2>1 DEF RateInv, IncrementInv, TypeOK
  <2>3. Udiv(total, increment) = Total \div increment /\ Total \div increment \in Nat
    BY <2>2, Quotient DEF Udiv
  <2>4. CASE UNCHANGED <<total, increment>>
    BY <2>3, <2>4
  <2>5. ASSUME NEW key \in KeySets, NEW inc \in Increments,
               UiCheckEvent(key, inc),
               NEW pattern, NEW ticks, NEW events \in Nat \ {0},
               UiApply(pattern, ticks, events),
               key = PREV => events <= Udiv(total, increment),
               key = NEXT => events >= Udiv(total, increment)
                               \/ events >= MaxEvents
        PROVE  /\ last_key' = PREV
                    => Udiv(total', increment') <= Udiv(total, increment)
               /\ last_key' = NEXT
                    => Udiv(total', increment') >= Udiv(total, increment)
    <3>1. last_key' = key
      BY <2>5 DEF UiCheckEvent
    <3>2. /\ total' = Total /\ increment' = IncrementFor(Total, events)
          /\ increment' \in Nat \ {0}
      BY <1>1, <2>1, <2>5, AppliedIncrement
    <3>3. Udiv(total', increment') = Total \div IncrementFor(Total, events)
      BY <3>2 DEF Udiv
    <3>4. ASSUME key = PREV
          PROVE  Total \div IncrementFor(Total, events) <= Total \div increment
      <4>1. events <= Total \div increment
        BY <2>3, <2>5, <3>4
      <4> QED
        BY <2>2, <4>1, FewerWanted
    <3>5. ASSUME key = NEXT
          PROVE  Total \div increment <= Total \div IncrementFor(Total, events)
      <4> DEFINE e == Total \div increment
                 most == Total \div MinIncrement
      <4>1. e <= most /\ most <= MaxEvents /\ most \in Nat
        BY <2>2, MoreIsFewer, Quotient
      <4>2. e \in Nat /\ (events >= e \/ events >= MaxEvents)
        BY <2>3, <2>5, <3>5
      <4>3. e <= events
        <5> HIDE DEF e, most
        <5> QED
          BY <4>1, <4>2
      <4> QED
        BY <2>2, <4>3, MoreWanted
    <3>6. Total \div IncrementFor(Total, events) \in Nat
      BY <3>2, Quotient
    <3> QED
      BY <2>3, <3>1, <3>3, <3>4, <3>5, <3>6
  <2>6. ASSUME NEW key \in KeySets, NEW inc \in Increments,
               UiCheckEvent(key, inc)
        PROVE  /\ last_key' = PREV
                    => Udiv(total', increment') <= Udiv(total, increment)
               /\ last_key' = NEXT
                    => Udiv(total', increment') >= Udiv(total, increment)
    BY <2>1, <2>2, <2>4, <2>5, <2>6, WhichApply DEF Unapplied
  <2>7. CASE GenericPattern
    <3>1. total' = Total /\ increment' = increment
      BY <2>2, <2>7 DEF GenericPattern, AtLeast
    <3> QED
      BY <2>2, <2>4, <3>1
  <2> QED
    BY <2>1, <2>6, <2>7 DEF Next
<1> QED
  BY <1>1, RateInvariant, PTL DEF Spec, EventKeysMonotone
=============================================================================
