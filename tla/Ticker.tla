------------------------------- MODULE Ticker -------------------------------
(***************************************************************************)
(* ticker.c and fill_buffer of pattern.c: the double buffer between the    *)
(* pattern generators and the output port.                                 *)
(*                                                                         *)
(* Three actors share the state:                                           *)
(*   - the hardware: TIM2 raises a DMA request per tick, the DMA channel   *)
(*     moves one byte of output_buffer to the port per request, in a       *)
(*     circle, and raises HT after the first half and TC after the second; *)
(*   - the interrupt handler DMA_IRQ, which refills the half the DMA left; *)
(*   - the main thread, which stops the ticker, selects a pattern and      *)
(*     starts the ticker again (ui_apply), and which the handler preempts  *)
(*     between any two steps.                                              *)
(*                                                                         *)
(* A buffer byte is abstracted to where it comes from: the pattern, the    *)
(* position in its frame and the reference clock bit; memset leaves Blank. *)
(***************************************************************************)
EXTENDS Naturals

CONSTANTS HalfBuffer,  \* HALF_BUFFER_SIZE
          MaxPattern,  \* get_max_pattern_number()
          Period,      \* patterns[p].period
          MaxLag,      \* steps of the main thread an interrupt may stay pending
          Punctual,    \* is every refill done before the DMA ends the next half?
          Blank        \* the byte memset writes

Patterns == 0 .. MaxPattern

Frame(p, q) == [pattern |-> p, pos |-> q, ref |-> q = 0]

ASSUME HalfBufferAssumption == HalfBuffer \in Nat \ {0}
ASSUME PatternAssumption == MaxPattern \in Nat
ASSUME PeriodAssumption == Period \in [Patterns -> Nat \ {0}]
\* An exception is taken within a few cycles, far less than the calls between
\* ticker_stop and the memset in ticker_start.
ASSUME LagAssumption == MaxLag \in 0 .. 3
ASSUME PunctualAssumption == Punctual \in BOOLEAN
ASSUME BlankAssumption ==
  Blank \notin [pattern : Patterns, pos : Nat, ref : BOOLEAN]

VARIABLES
  pattern_number,  \* pattern.c: the selected pattern
  pattern_offset,  \* ticker.c: offset for the next call of fill_buffer
  output_buffer,   \* main.c: both halves, as one circle of bytes
  timer,           \* is the counter of TIM2 enabled?
  request,         \* has TIM2 a DMA request outstanding?
  channel,         \* is the DMA channel enabled?
  cursor,          \* the byte the DMA channel moves next (BUFFER_SIZE - CNDTR)
  flags,           \* HTIF and TCIF of the channel
  port,            \* the byte last written to GPIOA_ODR
  irq,             \* DMA_IRQ: out, about to clear the flags, in fill_buffer
  half,            \* which half it refills
  basepos,         \* fill_buffer: bytes written so far
  ofs,             \* fill_buffer: offset in the frame
  main,            \* next step of the main thread
  wanted,          \* argument of the pattern_select to come
  lag,             \* steps the main thread made with an interrupt pending
  late             \* observer: halves that a late refill may have spoilt

hardware == <<timer, request, channel, cursor, flags, port>>
handler == <<irq, half, basepos, ofs>>
thread == <<main, wanted>>
vars == <<pattern_number, pattern_offset, output_buffer, hardware, handler,
          thread, lag, late>>

BufferSize == 2 * HalfBuffer
Bytes == 0 .. BufferSize - 1

(***************************************************************************)
(* The hardware.                                                           *)
(***************************************************************************)
TimerTick ==
  /\ timer
  /\ ~request
  /\ request' = TRUE
  /\ UNCHANGED <<pattern_number, pattern_offset, output_buffer, timer, channel,
                 cursor, flags, port, handler, thread, lag, late>>

\* The interrupt flag the transfer of byte c raises.
Crossed(c) ==
  (IF c + 1 = HalfBuffer THEN {"HT"} ELSE {}) \cup
  (IF c + 1 = BufferSize THEN {"TC"} ELSE {})

\* The handler owes no refill: nothing is pending, and it is not at work.
Refilled == flags = {} /\ irq = "out"

\* A refill takes less time than the DMA needs for half a buffer: the DMA does
\* not end a half while the handler still owes, or writes, the other one.
InTime == Punctual /\ Crossed(cursor) # {} => Refilled

\* When the DMA comes to a half that is not refilled, that one and the next are
\* not to be relied on.
LateAfter(crossed) ==
  CASE crossed = {} -> late
    [] crossed # {} /\ ~Refilled -> 2
    [] OTHER -> IF late = 0 THEN 0 ELSE late - 1

DmaTransfer ==
  /\ channel
  /\ request
  /\ InTime
  /\ port' = output_buffer[cursor]
  /\ cursor' = IF cursor + 1 = BufferSize THEN 0 ELSE cursor + 1
  /\ flags' = flags \cup Crossed(cursor)
  /\ request' = FALSE
  /\ late' = LateAfter(Crossed(cursor))
  /\ UNCHANGED <<pattern_number, pattern_offset, output_buffer, timer, channel,
                 handler, thread, lag>>

(***************************************************************************)
(* The interrupt handler.                                                  *)
(***************************************************************************)
\* Mutant: the handler does not look which half is due, the halves take turns.
EnterInTurn(h) ==
  /\ irq = "out"
  /\ irq' = "clear"
  /\ half' = 1 - half
  /\ lag' = 0
  /\ UNCHANGED <<pattern_number, pattern_offset, output_buffer, hardware,
                 basepos, ofs, thread, late>>

\* The interrupt is taken and the flag of half h found set.
EnterIrq(h) ==
  /\ irq = "out"
  /\ irq' = "clear"
  /\ half' = h
  /\ lag' = 0
  /\ UNCHANGED <<pattern_number, pattern_offset, output_buffer, hardware,
                 basepos, ofs, thread, late>>

\* A flag that the DMA raises between the two tests comes like one raised after
\* the second, since the first to be found set decides.
DmaIrqComplete ==
  /\ "TC" \in flags
  /\ EnterIrq(1)

\* Mutant: both interrupts refill the second half.
AlwaysSecondHalf ==
  /\ "TC" \notin flags
  /\ "HT" \in flags
  /\ EnterIrq(1)

DmaIrqHalf ==
  /\ "TC" \notin flags
  /\ "HT" \in flags
  /\ EnterIrq(0)

\* Mutant: the handler leaves its flag set.
FlagsKept(S) == flags

\* Writing a flag to the channel's IFCR clears it; writing GIF clears them all.
Cleared(S) == IF "GIF" \in S THEN {} ELSE flags \ S

\* The flags are cleared, among them one that the DMA has raised since the
\* test: its half is forgotten.  Then fill_buffer is called.
ClearFlags ==
  /\ irq = "clear"
  /\ flags' = Cleared({IF half = 1 THEN "TC" ELSE "HT", "GIF"})
  /\ irq' = "fill"
  /\ basepos' = 0
  /\ ofs' = pattern_offset
  /\ UNCHANGED <<pattern_number, pattern_offset, output_buffer, timer, request,
                 channel, cursor, port, half, thread, lag, late>>

Remaining == HalfBuffer - basepos

\* The safeguard loop of fill_buffer: while (ofs >= period) ofs -= period.
Wrapped(o, period) == IF o < period THEN o ELSE o % period

\* The call of generate for n bytes from offset o, and the reference clock
\* marker put on the first byte when o is 0.
Generated(start, n, o) ==
  [i \in Bytes |-> IF i \in start .. start + n - 1
                   THEN Frame(pattern_number, o + (i - start))
                   ELSE output_buffer[i]]

\* Mutant: the last frame is generated whole although the half is full.
WholeFrameChunk(o, period) == period - o

\* How many bytes one turn of the loop generates.
ChunkSize(o, period) ==
  IF Remaining + o >= period THEN period - o ELSE Remaining

\* Mutants: every turn restarts the frame; a frame restarts at its second byte;
\* a frame that ends with the half is not restarted.
AlwaysRestarted(o, n, period) == 0

RestartedAtOne(o, n, period) == IF Remaining + o >= period THEN 1 ELSE o + n

RestartedLate(o, n, period) == IF Remaining + o > period THEN 0 ELSE o + n

\* The offset after a turn of the loop that generated n bytes from offset o.
OffsetAfter(o, n, period) == IF Remaining + o >= period THEN 0 ELSE o + n

FillStep ==
  LET period == Period[pattern_number]
      o == Wrapped(ofs, period)
      n == ChunkSize(o, period)
  IN  /\ irq = "fill"
      /\ Remaining > 0
      /\ output_buffer' = Generated(half * HalfBuffer + basepos, n, o)
      /\ basepos' = basepos + n
      /\ ofs' = OffsetAfter(o, n, period)
      /\ UNCHANGED <<pattern_number, pattern_offset, hardware, irq, half,
                     thread, lag, late>>

FillReturn ==
  /\ irq = "fill"
  /\ Remaining = 0
  /\ pattern_offset' = ofs
  /\ irq' = "out"
  /\ UNCHANGED <<pattern_number, output_buffer, hardware, half, basepos, ofs,
                 thread, lag, late>>

(***************************************************************************)
(* The main thread: one action per call that touches shared state.         *)
(***************************************************************************)
\* The handler preempts the main thread; a pending interrupt is taken before
\* the thread has made MaxLag more steps.
MainStep(from, to) ==
  /\ main = from
  /\ irq = "out"
  /\ flags = {} \/ lag < MaxLag
  /\ main' = to
  /\ lag' = IF flags = {} THEN 0 ELSE lag + 1
  /\ UNCHANGED <<port, handler>>

\* ticker_stop, called by ui_apply for pattern p.
StopTimer(p) ==
  /\ MainStep("idle", "stop_dma")
  /\ timer' = FALSE
  /\ wanted' = p
  /\ UNCHANGED <<pattern_number, pattern_offset, output_buffer, request,
                 channel, cursor, flags, late>>

\* Mutant: ticker_stop leaves the DMA channel enabled.
StopTimerOnly ==
  /\ MainStep("stop_dma", "select")
  /\ UNCHANGED <<pattern_number, pattern_offset, output_buffer, timer, request,
                 channel, cursor, flags, wanted, late>>

StopDma ==
  /\ MainStep("stop_dma", "select")
  /\ channel' = FALSE
  /\ UNCHANGED <<pattern_number, pattern_offset, output_buffer, timer, request,
                 cursor, flags, wanted, late>>

PatternSelect ==
  /\ MainStep("select", "measure")
  /\ pattern_number' = IF wanted <= MaxPattern THEN wanted ELSE 0
  /\ UNCHANGED <<pattern_offset, output_buffer, timer, request, channel,
                 cursor, flags, wanted, late>>

\* ticker_start measures the pattern and resets the offset a first time ...
StartMeasure ==
  /\ MainStep("measure", "clear")
  /\ pattern_offset' = 0
  /\ UNCHANGED <<pattern_number, output_buffer, timer, request, channel,
                 cursor, flags, wanted, late>>

\* ... empties both halves ...
StartClear ==
  /\ MainStep("clear", "reset")
  /\ output_buffer' = [i \in Bytes |-> Blank]
  /\ UNCHANGED <<pattern_number, pattern_offset, timer, request, channel,
                 cursor, flags, wanted, late>>

\* ... and resets the offset again.
StartReset ==
  /\ MainStep("reset", "dma_setup")
  /\ pattern_offset' = 0
  /\ UNCHANGED <<pattern_number, output_buffer, timer, request, channel,
                 cursor, flags, wanted, late>>

\* dma_setup resets the channel: disabled, no flags, all bytes still to go.
DmaSetup ==
  /\ MainStep("dma_setup", "timer_setup")
  /\ channel' = FALSE
  /\ flags' = {}
  /\ cursor' = 0
  /\ late' = 0
  /\ UNCHANGED <<pattern_number, pattern_offset, output_buffer, timer, request,
                 wanted>>

\* timer_setup resets the timer and generates an update event, which raises a
\* DMA request before the first tick.
TimerSetup ==
  /\ MainStep("timer_setup", "dma_enable")
  /\ timer' = FALSE
  /\ request' = TRUE
  /\ UNCHANGED <<pattern_number, pattern_offset, output_buffer, channel,
                 cursor, flags, wanted, late>>

EnableDma ==
  /\ MainStep("dma_enable", "timer_enable")
  /\ channel' = TRUE
  /\ UNCHANGED <<pattern_number, pattern_offset, output_buffer, timer, request,
                 cursor, flags, wanted, late>>

EnableTimer ==
  /\ MainStep("timer_enable", "idle")
  /\ timer' = TRUE
  /\ UNCHANGED <<pattern_number, pattern_offset, output_buffer, request,
                 channel, cursor, flags, wanted, late>>

(***************************************************************************)
(* The specification.  setup() selects pattern 0 and starts the ticker.    *)
(***************************************************************************)
Init ==
  /\ pattern_number = 0
  /\ pattern_offset = 0
  /\ output_buffer = [i \in Bytes |-> Blank]
  /\ timer = FALSE
  /\ request = FALSE
  /\ channel = FALSE
  /\ cursor = 0
  /\ flags = {}
  /\ port = Blank
  /\ irq = "out"
  /\ half = 1
  /\ basepos = 0
  /\ ofs = 0
  /\ main = "select"
  /\ wanted = 0
  /\ lag = 0
  /\ late = 0

Hardware == TimerTick \/ DmaTransfer

Handler ==
  \/ DmaIrqComplete
  \/ DmaIrqHalf
  \/ ClearFlags
  \/ FillStep
  \/ FillReturn

\* The main thread between a stop and the end of the start that follows.
Restart ==
  \/ StopDma
  \/ PatternSelect
  \/ StartMeasure
  \/ StartClear
  \/ StartReset
  \/ DmaSetup
  \/ TimerSetup
  \/ EnableDma
  \/ EnableTimer

Next ==
  \/ Hardware
  \/ Handler
  \/ Restart
  \/ \E p \in Patterns : StopTimer(p)

Spec == Init /\ [][Next]_vars

\* The hardware runs, an interrupt is taken and its handler returns, and the
\* main thread gets on with a restart it has begun.  Nobody has to press a key.
FairSpec ==
  /\ Spec
  /\ WF_vars(TimerTick)
  /\ WF_vars(DmaTransfer)
  /\ WF_vars(Handler)
  /\ WF_vars(Restart)

(***************************************************************************)
(* Properties.                                                             *)
(***************************************************************************)
MainSteps == {"idle", "stop_dma", "select", "measure", "clear", "reset",
              "dma_setup", "timer_setup", "dma_enable", "timer_enable"}

Cells == [pattern : Patterns, pos : Nat, ref : BOOLEAN] \cup {Blank}

\* The variables stay in their ranges; in particular the indices that
\* fill_buffer and the DMA channel use stay inside the buffer.
TypeOK ==
  /\ pattern_number \in Patterns
  /\ pattern_offset \in Nat
  /\ output_buffer \in [Bytes -> Cells]
  /\ timer \in BOOLEAN
  /\ request \in BOOLEAN
  /\ channel \in BOOLEAN
  /\ cursor \in Bytes
  /\ flags \in SUBSET {"HT", "TC"}
  /\ port \in Cells
  /\ irq \in {"out", "clear", "fill"}
  /\ half \in {0, 1}
  /\ basepos \in 0 .. HalfBuffer
  /\ ofs \in Nat
  /\ main \in MainSteps
  /\ wanted \in Patterns
  /\ lag \in 0 .. MaxLag
  /\ late \in 0 .. 2

\* The ticker implements the stream of module PulseStream: the bytes on the
\* port are 2 * HALF_BUFFER_SIZE blank ones after every start, then the frames
\* of the selected pattern without a gap or a jump, although two halves, three
\* offsets and two threads of control take part ("first round is always
\* completely empty", ticker.c:192; fill_buffer's "offset to be used for next
\* call", pattern.c:114).
Stream == INSTANCE PulseStream WITH
  Lead <- BufferSize,
  on <- channel,
  pattern <- pattern_number,
  lead <- IF channel
          THEN IF output_buffer[cursor] = Blank THEN BufferSize - cursor ELSE 0
          ELSE BufferSize,
  pos <- IF channel /\ output_buffer[cursor] # Blank
         THEN output_buffer[cursor].pos
         ELSE 0

StreamSpec == Stream!Spec

\* A late refill does no lasting damage.  DMA_IRQ does not notice when the DMA
\* comes to a half that it has not refilled, and clears both flags, so that it
\* may forget a half that ends between the test and the clear (ticker.c:121 to
\* 130); but once refills are in time again for two halves on end, the port is
\* back in the stream, without a restart.
Resumes == [][late = 0 /\ late' = 0 => Stream!Next]_(Stream!vars)

\* The DMA never reads the half that DMA_IRQ is writing.
NoTearing == channel /\ irq = "fill" => (cursor < HalfBuffer <=> half = 1)

\* No interrupt left over from before the stop gets between the memset in
\* ticker_start and the start of the DMA: the first round is empty and the
\* first frame starts at offset 0 (the order of the calls in ticker_start).
RestartClean ==
  /\ main \in {"reset", "dma_setup", "timer_setup", "dma_enable"} =>
       /\ irq = "out"
       /\ flags = {}
       /\ \A i \in Bytes : output_buffer[i] = Blank
  /\ main \in {"dma_setup", "timer_setup", "dma_enable"} => pattern_offset = 0
  /\ main \in {"timer_setup", "dma_enable"} => cursor = 0

\* When every period divides the half buffer, as those of patterns[] do, the
\* generators get whole frames only, from offset 0: stupid_pattern and
\* stupid_pattern3 index the buffer on that assumption, and the loop marked
\* "safeguard: should not be needed" (pattern.c:129) is not needed.
WholeFrames ==
  /\ pattern_offset = 0
  /\ irq = "fill" => /\ ofs = 0
                     /\ \E k \in 0 .. HalfBuffer :
                          Remaining = k * Period[pattern_number]

\* A started ticker keeps on putting reference clocks on the port until the
\* next stop.
RefclockRecurs ==
  main = "idle" ~> main # "idle" \/ (port # Blank /\ port.ref)

\* A restart, once begun, ends with the timer running.
RestartCompletes == main # "idle" ~> main = "idle"
=============================================================================
