------------------------------- MODULE Shaped -------------------------------
(***************************************************************************)
(* The generators of pattern.c that follow an envelope: stepShap, the      *)
(* three linear ones and generic.  The frame is cut into slots; in every   *)
(* slot the rate of the pulses is the envelope's value for it, or runs in  *)
(* a line to the value for the next slot.                                  *)
(*                                                                         *)
(* A step of Byte is a round of a generator's loop.  A frame is one run of *)
(* the interrupt handler, so the main thread (ui_apply, which stores the   *)
(* increment of generic and after it the extra increment) takes its steps  *)
(* between two frames.  Every generator keeps its own static variables and *)
(* a behaviour follows one.                                                *)
(***************************************************************************)
EXTENDS Integers, EventRate

CONSTANTS Shapes,          \* the generators to follow
          Slots,           \* slots in a frame
          SlotLength,      \* bytes in a slot
          Env,             \* env[], without the duplicate at the end
          MaxEnv,          \* its greatest value
          Channels,        \* number of channels
          Threshold,       \* increments between two pulses, generic excepted
          LinearBase,      \* modulus of ctr, generic excepted
          Wanted           \* numbers of events that the panel asks for

Linear == {"fast_lin", "med_lin", "rare_lin"}
Names == Linear \cup {"step", "generic"}

ASSUME ShapesAssumption == Shapes \subseteq Names
ASSUME FrameAssumption == {Slots, SlotLength, Channels} \subseteq Nat \ {0}
ASSUME EnvAssumption ==
  MaxEnv \in Nat /\ Env \in [0 .. Slots - 1 -> 0 .. MaxEnv]
ASSUME ThresholdAssumption == Threshold \in [Names \ {"generic"} -> Nat \ {0}]
ASSUME BaseAssumption == LinearBase \in Nat \ {0}
\* The table begins with 0 and fits the modulus of the linear patterns, which is
\* one less than the length of a slot; it does not fall from there to 0 at once.
ASSUME TableAssumption ==
  /\ SlotLength = LinearBase + 1
  /\ MaxEnv <= LinearBase
  /\ Env[0] = 0
  /\ \A s \in 0 .. Slots - 1 : Env[s] = LinearBase => Env[(s + 1) % Slots] # 0
\* The increments between two pulses leave a byte free: on the channels in turn,
\* and twice the envelope on all channels at once (pattern.c:564).
ASSUME ApartAssumption ==
  /\ Channels > 1 /\ MaxEnv > 1
  /\ 2 * (MaxEnv + 1) <= Channels * Threshold["fast_lin"]
  /\ MinIncrement >= 2 * MaxEnv
ASSUME WantedAssumption == Wanted \subseteq Nat \ {0}

VARIABLES
  shape,
  pos,          \* the byte of the frame that is due
  cenv,         \* current envelope value
  ctr,          \* linear interpolation counter
  interp,       \* interpolation counter of the pulses, kept between frames
  channel,      \* the channel that fired last
  out,          \* the channels that fire in the byte before pos
  total, increment, extra, \* generic_pattern_*_increment
  applying,     \* ui_apply has stored the increment, not yet the extra one
  events,       \* pulses of this frame
  late          \* the frame began with pulses owed to an earlier increment

envelope == <<cenv, ctr>>
tuning == <<increment, extra, applying>>
vars == <<shape, pos, envelope, interp, channel, out, total, tuning, events, late>>

FrameLength == Slots * SlotLength
Slot == pos \div SlotLength
Base == IF shape = "generic" THEN SlotLength ELSE LinearBase

AllChannels == 0 .. Channels - 1

-----------------------------------------------------------------------------
\* What the envelope gains in a slot.
Diff(slot) == Env[(slot + 1) % Slots] - Env[slot]

\* The value a slot starts with is looked up.
LookedUp == IF pos % SlotLength = 0 THEN Env[Slot] ELSE cenv

\* Mutant: no borrow when the envelope falls.
InterpolateUp(t) ==
  IF t >= Base THEN ctr' = t - Base /\ cenv' = LookedUp + 1
               ELSE ctr' = t /\ cenv' = LookedUp

\* Mutant: the remainder is lost with the carry.
InterpolateRounded(t) ==
  IF t >= 0 /\ t < Base THEN ctr' = t /\ cenv' = LookedUp
                       ELSE ctr' = 0 /\ cenv' = LookedUp + (t \div Base)

\* A byte's share of the gain: t is ctr + diff, its carry goes to the envelope.
Interpolate(t) ==
  /\ ctr' = t % Base
  /\ cenv' = LookedUp + (t \div Base)

\* The sum of the envelope over a frame as generic_pattern takes it, with ctr
\* from the middle: since bufsize does not count down there, the envelope is
\* looked up in every byte.
Total ==
  LET sum[p \in 0 .. FrameLength] ==
        IF p = 0 THEN [ctr |-> SlotLength \div 2, total |-> 0]
        ELSE LET before == sum[p - 1]
                 slot == (p - 1) \div SlotLength
                 t == before.ctr + Diff(slot)
             IN  [ctr |-> t % SlotLength,
                  total |-> before.total + Env[slot] + (t \div SlotLength)]
  IN  sum[FrameLength].total

\* There is something to count: the first run takes the total for good.
ASSUME TotalAssumption == Total \in Nat \ {0}

\* The envelope in byte p of a frame of generic: the value on the line of its
\* slot, rounded.
Value(p) ==
  LET slot == p \div SlotLength
      gained == ((p % SlotLength) + 1) * Diff(slot)
  IN  Env[slot] + (((SlotLength \div 2) + gained) \div SlotLength)

\* What the first bytes of a frame come to.
Sums[p \in 0 .. FrameLength] == IF p = 0 THEN 0 ELSE Sums[p - 1] + Value(p - 1)

\* Rounding makes a frame a little more than total (by 84 of 510 with the table
\* of pattern.c).
ASSUME SumAssumption == Sums[FrameLength] - Total \in 0 .. MinIncrement - 1

\* Mutant: the channels end with the last one.
MovedToEnd(c, n) == AtLeast(c, n) - n

\* The channel n after c, from the highest bit down and round.
Moved(c, n) == (c - n) % Channels

\* n pulses in this byte, on as many channels in turn.
Fire(n) ==
  /\ channel' = Moved(channel, n)
  /\ out' = {Moved(channel, k) : k \in 1 .. n}

\* To the next byte, and from the last one to the next frame.
Advance(pulses) ==
  /\ pos' = (pos + 1) % FrameLength
  /\ events' = IF pos = 0 THEN pulses ELSE events + pulses

-----------------------------------------------------------------------------
\* step_shaped_pattern: no interpolation, at most one pulse per byte.
StepByte ==
  LET i == interp + LookedUp
      n == IF i >= Threshold[shape] THEN 1 ELSE 0
  IN  /\ shape = "step"
      /\ cenv' = LookedUp
      /\ interp' = i - (n * Threshold[shape])
      /\ Fire(n)
      /\ Advance(n)
      /\ UNCHANGED <<ctr, total, tuning, late>>

\* The linear patterns: fast_lin may owe several pulses in a byte and makes
\* them all, the slower ones make one.
LinearByte ==
  /\ shape \in Linear
  /\ Interpolate(ctr + Diff(Slot))
  /\ LET i == interp + cenv'
         owed == i \div Threshold[shape]
         n == IF shape # "fast_lin" /\ owed > 1 THEN 1 ELSE owed
     IN  /\ interp' = i - (n * Threshold[shape])
         /\ Fire(n)
         /\ Advance(n)
  /\ UNCHANGED <<total, tuning, late>>

\* Mutant: the least increment is that of a single byte, not of two.
ClampedToHalf(inc) == AtLeast(inc, MinIncrement \div 2)

Clamped(inc) == AtLeast(inc, MinIncrement)

\* Mutant: the extra increment comes with every byte.
ExtraAlways == extra

\* The extra increment comes with the start of the frame.
ExtraAtStart == IF pos = 0 THEN extra ELSE 0

\* generic_pattern: the first run takes the total and sets ctr; a pulse is a
\* pulse on all channels.
GenericByte ==
  LET inc == Clamped(increment)
      first == total = 0
  IN  /\ shape = "generic"
      /\ total' = IF first THEN Total ELSE total
      /\ increment' = inc
      /\ Interpolate((IF first THEN SlotLength \div 2 ELSE ctr) + Diff(Slot))
      /\ LET i == interp + ExtraAtStart + cenv'
             n == IF i >= inc THEN 1 ELSE 0
         IN  /\ interp' = i - (n * inc)
             /\ out' = IF n = 1 THEN AllChannels ELSE {}
             /\ Advance(n)
      /\ late' = IF pos = 0 THEN interp >= inc ELSE late
      /\ UNCHANGED <<channel, extra, applying>>

Byte == (StepByte \/ LinearByte \/ GenericByte) /\ UNCHANGED shape

\* ui_apply, with a number of events for generic: first the increment ...
StoreIncrement ==
  /\ shape = "generic" /\ total # 0
  /\ pos = 0
  /\ ~applying
  /\ \E wanted \in Wanted : increment' = IncrementFor(total, wanted)
  /\ applying' = TRUE
  /\ UNCHANGED <<shape, pos, envelope, interp, channel, out, total, extra,
                 events, late>>

\* ... then the extra increment, that the sum is not a multiple of it.
StoreExtra ==
  /\ applying
  /\ pos = 0
  /\ extra' = IF total % increment = 0 THEN 1 ELSE 0
  /\ applying' = FALSE
  /\ UNCHANGED <<shape, pos, envelope, interp, channel, out, total, increment,
                 events, late>>

\* generic is selected by ui_apply while its total is 0, which leaves the
\* increment 0 and the extra increment 1 (module Panel).
Init ==
  /\ shape \in Shapes
  /\ pos = 0
  /\ cenv = 0
  /\ ctr = 0
  /\ interp = 0
  /\ channel = 0
  /\ out = {}
  /\ total = 0
  /\ increment = 0
  /\ extra = 1
  /\ applying = FALSE
  /\ events = 0
  /\ late = FALSE

Next == Byte \/ StoreIncrement \/ StoreExtra

Spec == Init /\ [][Next]_vars /\ WF_vars(Byte)

(***************************************************************************)
(* Properties.                                                             *)
(***************************************************************************)
\* The envelope fits the byte that generic_pattern keeps it in (uint8_t cenv)
\* and never gets negative; the linear patterns, which divide by one less than
\* the length of a slot, reach one more than the table has.
TypeOK ==
  /\ shape \in Shapes
  /\ pos \in 0 .. FrameLength - 1
  /\ cenv \in 0 .. (IF shape \in Linear THEN MaxEnv + 1 ELSE MaxEnv)
  /\ ctr \in 0 .. Base - 1
  /\ interp \in Nat
  /\ channel \in AllChannels
  /\ out \subseteq AllChannels
  /\ {total, increment, extra, events} \subseteq Nat
  /\ {applying, late} \subseteq BOOLEAN

\* Every frame sees the same envelope: the linear interpolation, which is
\* carried on in ctr from frame to frame, is back where it was.
EnvelopeReturns ==
  pos = 0 => ctr = IF shape = "generic" /\ total # 0 THEN SlotLength \div 2 ELSE 0

\* No channel fires in two bytes on end, so that every pulse ends and the
\* receiver can count it: this is what the least increments are for
\* (pattern.c:564: ">= (pgc==7)? 510 : 73", twice the greatest envelope, or a
\* seventh of that).  Frames that make up for an earlier increment are left out.
PulsesApart ==
  [][pos' # pos /\ ~late /\ ~late' => out \cap out' = {}]_vars

LastByte == pos = FrameLength - 1 /\ pos' = 0

\* The events that the panel shows for the increment of generic (ui.c:119),
\* one more for what earlier frames left over and one more because the sum of
\* a frame is a little greater than total.
Promised ==
  LET shown == (total + extra) \div increment IN shown .. shown + 2

\* A frame of generic has the number of events that the panel promises, but for
\* these two, although total is not taken the way the frame is made, and
\* whenever the panel changes the increment and the extra increment.  Frames
\* that make up for an earlier increment are left out.
PromiseKept ==
  [][LastByte /\ shape = "generic" /\ ~late => events' \in Promised]_vars

\* "number_of_events_per_frame is (total_inc+extra_inc) / evt_inc" (ui.c:90),
\* in every frame.
EventsPerFrame ==
  [][LastByte /\ shape = "generic" => events' \in Promised]_vars

\* Every channel fires again and again.
ChannelsTakeTurns == \A c \in AllChannels : []<>(c \in out)
=============================================================================
