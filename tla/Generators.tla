----------------------------- MODULE Generators -----------------------------
(***************************************************************************)
(* The generators of pattern.c that draw pulses at fixed places: null, the *)
(* three "stupid" ones, binary, the regular ones and the two walkers.      *)
(*                                                                         *)
(* fill_buffer calls a generator for one whole frame from offset 0 (see    *)
(* WholeFrames in module Ticker).  A frame is the set of its bytes that    *)
(* are not zero, as pairs of a position and a value; the reference clock   *)
(* marker of fill_buffer is left out.  Every generator keeps its own       *)
(* static variables, so a behaviour follows one of them, whose statics are *)
(* mask, count, walker and wcounts (mask is the channel of the last pulse, *)
(* for stupid2 and bin_walk that of the next one); filled tells a          *)
(* generated frame from the one ticker_start emptied.  The ticker is       *)
(* started again at any time, which changes no static variable: its call   *)
(* of fill_buffer with no bytes returns before the generator is called,    *)
(* and the branches of the walkers that initialise their variables are     *)
(* never taken.                                                            *)
(***************************************************************************)
EXTENDS Integers, FiniteSetsExt, Functions

CONSTANTS Generator,         \* the generators to follow
          Length,            \* Length[g]: bytes of a frame of g
          SlowGap,           \* bytes between two pulses of slow_reg
          MediumGap,         \* bytes between two pulses of med_reg
          WalkDistance,      \* bytes between two pulses of walking
          WalkStep,          \* bytes walking moves on
          EventsPerPosition, \* frames until walking moves on
          TargetCounts       \* TARGET_COUNTS_PER_BIN

Names == {"null", "stupid1", "stupid2", "stupid3", "binary",
          "slow_reg", "med_reg", "fast_reg", "walking", "bin_walk"}

ASSUME GeneratorAssumption == Generator \subseteq Names
ASSUME LengthAssumption == Length \in [Names -> Nat \ {0}]
ASSUME GapAssumption == {SlowGap, MediumGap} \subseteq 1 .. 255
ASSUME WalkAssumption ==
  {WalkDistance, WalkStep, EventsPerPosition, TargetCounts} \subseteq Nat \ {0}

\* What is drawn at fixed places fits the frames of the table (pattern.c:71-88),
\* and binary_pattern is given whole multiples of 256 bytes.
ASSUME PlacesAssumption ==
  /\ Length["stupid1"] >= 8 /\ Length["stupid3"] >= 4
  /\ Length["binary"] % 256 = 0

\* The walker's steps divide the distance of its pulses and that one the frame,
\* and a pulse is no longer than a step (pattern.c:501-514).
ASSUME StepAssumption ==
  /\ WalkStep >= 3
  /\ WalkDistance % WalkStep = 0
  /\ Length["walking"] % WalkDistance = 0

VARIABLES
  generator, frame, filled, mask, count, walker, wcounts,
  drawn  \* observer: in how many frames bin_walk has drawn a pulse

statics == <<mask, count, walker, wcounts>>
vars == <<generator, frame, filled, statics, drawn>>

Len == Length[generator]

Channels == {1, 2, 4, 8, 16, 32, 64}

\* The pulses of bin_walk: a place, which is a power of two, and a channel.
\* It also stops at place 0, with no channel in the mask.
Bins == {b \in 1 .. Length["bin_walk"] - 1 : \E k \in 0 .. 30 : b = 2 ^ k}
Pulses == Bins \X Channels

\* The channel after m, from bit 6 down to bit 0 and round.
Rotate(m) == IF m \div 2 = 0 THEN 64 ELSE m \div 2

\* m rotated n times; seven times is once round, but for the initial 0.
Rotated(m, n) ==
  LET r[k \in 0 .. 7] == IF k = 0 THEN m ELSE Rotate(r[k - 1])
  IN  IF n = 0 THEN m ELSE r[1 + ((n - 1) % 7)]

-----------------------------------------------------------------------------
Null ==
  /\ frame' = {}
  /\ UNCHANGED statics

\* Bit 7 is the refclock, bits 6 to 0 follow byte by byte.
Stupid1 ==
  /\ frame' = {<<k, 2 ^ (7 - k)>> : k \in 0 .. 7}
  /\ UNCHANGED statics

\* Mutant: the bit is not masked, only cut to a byte.
Stupid2Raw ==
  LET m == IF mask = 0 THEN 2 ^ 25 ELSE mask
  IN  /\ frame' = IF m < 256 THEN {<<Len \div 2, m>>} ELSE {}
      /\ mask' = m \div 2
      /\ UNCHANGED <<count, walker, wcounts>>

\* A bit that moves down from bit 25, seen while it is one of the low seven.
Stupid2 ==
  LET m == IF mask = 0 THEN 2 ^ 25 ELSE mask
  IN  /\ frame' = IF m < 128 THEN {<<Len \div 2, m>>} ELSE {}
      /\ mask' = m \div 2
      /\ UNCHANGED <<count, walker, wcounts>>

\* The refclock is extended by a byte, all channels fire at byte 3.
Stupid3 ==
  /\ frame' = {<<1, 128>>, <<3, 127>>}
  /\ UNCHANGED statics

\* The bytes binary_pattern writes: as many as bufsize & 0xff.
Binary ==
  LET written == Len % 256
  IN  /\ frame' = {<<q, (128 + q) % 256>> : q \in 0 .. written - 1}
                    \cup {b \in frame : b[1] >= written}
      /\ UNCHANGED statics

\* Mutant: one byte too many.
BeatsPast(gap) == {count + gap * k : k \in 0 .. (Len - count) \div gap}

\* The places of the pulses when the first comes after count bytes.
Beats(gap) == {count + gap * k : k \in 0 .. (Len - 1 - count) \div gap}

\* Mutant: the next frame starts with a pulse.
CarryLost(gap) == 0

\* The bytes to the first pulse of the next frame.
Carry(gap) == IF Beats(gap) = {} THEN count - Len ELSE Max(Beats(gap)) + gap - Len

\* slow_reg and med_reg: one pulse every gap bytes, the channels in turn.
Regular(gap) ==
  /\ frame' = {<<q, Rotated(mask, 1 + (q - count) \div gap)>> : q \in Beats(gap)}
  /\ mask' = Rotated(mask, Cardinality(Beats(gap)))
  /\ count' = Carry(gap)
  /\ UNCHANGED <<walker, wcounts>>

\* fast_reg: a pulse in every byte.
FastRegular ==
  /\ frame' = {<<q, Rotated(mask, 1 + q)>> : q \in 0 .. Len - 1}
  /\ mask' = Rotated(mask, Len)
  /\ UNCHANGED <<count, walker, wcounts>>

\* The first bytes of the pulses of walking.
Steps == {walker + WalkDistance * k : k \in 0 .. (Len - 1 - walker) \div WalkDistance}

\* Mutant: the walker turns round one step late.
WalkedPast == IF walker + WalkStep > WalkDistance
              THEN walker + WalkStep - WalkDistance
              ELSE walker + WalkStep

\* Where walking goes next.
Walked == IF walker + WalkStep >= WalkDistance
          THEN walker + WalkStep - WalkDistance
          ELSE walker + WalkStep

\* Pulses of three bytes, the channels in turn, a while at every position.
Walking ==
  /\ frame' = {<<q + k, Rotated(mask, 1 + (q - walker) \div WalkDistance)>> :
                 q \in Steps, k \in 0 .. 2}
  /\ mask' = Rotated(mask, Cardinality(Steps))
  /\ IF wcounts + 1 = EventsPerPosition
     THEN wcounts' = 0 /\ walker' = Walked
     ELSE wcounts' = wcounts + 1 /\ UNCHANGED walker
  /\ UNCHANGED count

\* Mutant: every other bin is skipped.
Skipped == IF walker = 0 THEN 1 ELSE 4 * walker

\* bin_walk moves its walker on: from the two modules to the next bin.
Advanced == IF walker = 0 THEN 1 ELSE 2 * walker

\* One pulse per frame, for each channel in turn a while, in bins 1, 2, 4 ...
\* until the walker leaves the frame; before that, a while without a channel.
BinWalking ==
  IF walker >= Len
  THEN frame' = {} /\ UNCHANGED statics
  ELSE /\ frame' = IF mask = 0 THEN {} ELSE {<<walker, mask>>}
       /\ IF wcounts + 1 = TargetCounts
          THEN /\ wcounts' = 0
               /\ IF mask \div 2 = 0
                  THEN mask' = 64 /\ walker' = Advanced
                  ELSE mask' = mask \div 2 /\ UNCHANGED walker
          ELSE wcounts' = wcounts + 1 /\ UNCHANGED <<mask, walker>>
       /\ UNCHANGED count

\* fill_buffer: a whole frame of the selected pattern.
Generate ==
  /\ UNCHANGED generator
  /\ filled' = TRUE
  /\ \/ generator = "null" /\ Null
     \/ generator = "stupid1" /\ Stupid1
     \/ generator = "stupid2" /\ Stupid2
     \/ generator = "stupid3" /\ Stupid3
     \/ generator = "binary" /\ Binary
     \/ generator = "slow_reg" /\ Regular(SlowGap)
     \/ generator = "med_reg" /\ Regular(MediumGap)
     \/ generator = "fast_reg" /\ FastRegular
     \/ generator = "walking" /\ Walking
     \/ generator = "bin_walk" /\ BinWalking
  /\ drawn' = IF generator = "bin_walk"
              THEN [p \in Pulses |-> IF p \in frame' THEN drawn[p] + 1 ELSE drawn[p]]
              ELSE drawn

\* ticker_start: the buffer is emptied, no generator is called.
TickerStart ==
  /\ frame' = {}
  /\ filled' = FALSE
  /\ UNCHANGED <<generator, statics, drawn>>

Init ==
  /\ generator \in Generator
  /\ frame = {}
  /\ filled = FALSE
  /\ mask = 0
  /\ count = 0
  /\ walker = 0
  /\ wcounts = 0
  /\ drawn = [p \in Pulses |-> 0]

Next == Generate \/ TickerStart

Spec == Init /\ [][Next]_vars /\ WF_vars(Generate)

(***************************************************************************)
(* Properties.                                                             *)
(***************************************************************************)
\* Every byte a generator writes is inside the frame it was called for.
TypeOK ==
  /\ generator \in Generator
  /\ \A b \in frame : b[1] \in 0 .. Len - 1 /\ b[2] \in 1 .. 255
  /\ filled \in BOOLEAN
  /\ mask \in 0 .. 2 ^ 25
  /\ count \in 0 .. 255
  /\ walker \in Nat
  /\ wcounts \in Nat
  /\ drawn \in [Pulses -> Nat]

\* "patterns should only write to bits 0..6 of the buffer bytes !"
\* (pattern.c:156): the two that do not extend the reference clock or set it.
OnlySevenBits ==
  \A b \in frame : b[2] >= 128 => /\ generator \in {"stupid1", "stupid3"}
                                  /\ b[1] < 2

InOrder == generator \in {"slow_reg", "med_reg", "fast_reg", "walking"}

GapOf == CASE generator = "slow_reg" -> SlowGap
           [] generator = "med_reg" -> MediumGap
           [] OTHER -> 1

Places == {b[1] : b \in frame}

\* The channel of the pulse at a place.
ChannelAt(q) == (CHOOSE b \in frame : b[1] = q)[2]

\* The regular patterns and the walker do not lose the rhythm between two
\* frames: the pulse after the last one comes on the next channel, and in the
\* regular patterns as many bytes later as any other.  They have no other way
\* to know than their static variables ("we rely on beeing called 'in-order'",
\* pattern.c:234).
InTurn ==
  [][InOrder /\ frame # {} /\ frame' # {} =>
       /\ ChannelAt(Min(Places))' = Rotate(ChannelAt(Max(Places)))
       /\ generator # "walking" => Len + Min(Places)' - Max(Places) = GapOf]_vars

\* walking only ever writes pulses of three bytes, none of them cut off at the
\* end of the frame, however far it walked.
WholePulses ==
  generator = "walking" /\ frame # {} =>
    Cardinality(frame) = 3 * (Len \div WalkDistance)

\* bin_walk draws a pulse of every channel in every bin 1, 2, 4 ... of the frame,
\* each in TARGET_COUNTS_PER_BIN frames, no more and no fewer, and then ends for
\* good, whoever restarts the ticker: doubling starts from bin 0 and has to get
\* away from it, and two counters and a mask carry the walk across the frames
\* (pattern.c:535-556).
BinsVisited ==
  generator = "bin_walk" =>
    <>[](walker >= Len /\ \A p \in Pulses : drawn[p] = TargetCounts)

\* A frame of binary_pattern holds a binary code ("output a binary code, only
\* sensible bufsize is 256", pattern.c:218; "254 evts/frame", pattern.c:82): at
\* the least, it is not empty.
BinaryCode == generator = "binary" /\ filled => frame # {}

\* A walker starts again where it is started again ("re-init", pattern.c:493
\* and 527).
WalkersRestart ==
  [][TickerStart /\ generator \in {"walking", "bin_walk"} =>
       walker' = 0 /\ wcounts' = 0 /\ mask' = 64]_vars
=============================================================================
