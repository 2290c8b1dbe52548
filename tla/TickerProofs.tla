---------------------------- MODULE TickerProofs ----------------------------
(***************************************************************************)
(* Proofs about Ticker, for every buffer size, every set of patterns and   *)
(* every assignment of periods.                                            *)
(***************************************************************************)
EXTENDS Ticker, TLAPS

USE HalfBufferAssumption, PatternAssumption, PeriodAssumption, LagAssumption

-----------------------------------------------------------------------------
(***************************************************************************)
(* Types.                                                                  *)
(***************************************************************************)

\* The safeguard loop of fill_buffer ends with an offset inside the period.
LEMMA WrappedInPeriod ==
  ASSUME NEW o \in Nat, NEW period \in Nat \ {0}
  PROVE  Wrapped(o, period) \in 0 .. period - 1
BY DEF Wrapped

\* A frame byte is a cell, and no frame byte is the blank one.
LEMMA FrameIsCell ==
  ASSUME NEW p \in Patterns, NEW q \in Nat
  PROVE  Frame(p, q) \in Cells /\ Frame(p, q) # Blank
<1>1. (q = 0) \in BOOLEAN
  OBVIOUS
<1>2. Frame(p, q) \in [pattern : Patterns, pos : Nat, ref : BOOLEAN]
  BY <1>1, Zenon DEF Frame
<1> QED
  BY <1>2, BlankAssumption DEF Cells

\* A step of the main thread changes none of the handler's variables.
LEMMA MainStepTypes ==
  ASSUME TypeOK, NEW from, NEW to \in MainSteps, MainStep(from, to)
  PROVE  /\ main' \in MainSteps
         /\ lag' \in 0 .. MaxLag
         /\ UNCHANGED <<port, irq, half, basepos, ofs>>
<1>1. lag' \in 0 .. MaxLag
  BY DEF TypeOK, MainStep
<1> QED
  BY <1>1 DEF MainStep, handler

\* One turn of the loop of fill_buffer generates at least one byte and no more
\* than the half still holds, and leaves an offset.
LEMMA ChunkFits ==
  ASSUME TypeOK, Remaining > 0, NEW period \in Nat \ {0},
         NEW o \in 0 .. period - 1
  PROVE  /\ ChunkSize(o, period) \in 1 .. Remaining
         /\ OffsetAfter(o, ChunkSize(o, period), period) \in Nat
BY DEF TypeOK, Remaining, ChunkSize, OffsetAfter

\* The variables have their types; no index leaves the buffer.
THEOREM TypeCorrect == Spec => []TypeOK
<1>1. ASSUME Init PROVE TypeOK
  <2>1. /\ 0 \in Patterns
        /\ 0 \in Bytes
        /\ 0 \in 0 .. HalfBuffer
        /\ 0 \in 0 .. MaxLag
    BY DEF Patterns, Bytes, BufferSize
  <2>2. /\ Blank \in Cells
        /\ "select" \in MainSteps
    BY DEF Cells, MainSteps
  <2>3. output_buffer \in [Bytes -> Cells]
    BY <1>1, <2>2 DEF Init
  <2>4. half \in {0, 1} /\ late \in 0 .. 2 /\ flags \in SUBSET {"HT", "TC"}
    BY <1>1 DEF Init
  <2> QED
    BY <1>1, <2>1, <2>2, <2>3, <2>4 DEF Init, TypeOK
<1>2. TypeOK /\ [Next]_vars => TypeOK'
  <2> SUFFICES ASSUME TypeOK, [Next]_vars PROVE TypeOK'
    OBVIOUS
  <2>1. CASE TimerTick
    BY <2>1 DEF TypeOK, TimerTick, handler, thread
  <2>2. CASE DmaTransfer
    <3>1. cursor' \in Bytes
      BY <2>2 DEF TypeOK, DmaTransfer, Bytes, BufferSize
    <3>2. port' \in Cells
      BY <2>2 DEF TypeOK, DmaTransfer
    <3>3. flags' \in SUBSET {"HT", "TC"}
      BY <2>2 DEF TypeOK, DmaTransfer, Crossed
    <3>4. late' \in 0 .. 2
      BY <2>2 DEF TypeOK, DmaTransfer, LateAfter
    <3> QED
      BY <2>2, <3>1, <3>2, <3>3, <3>4 DEF TypeOK, DmaTransfer, handler, thread
  <2>3. ASSUME NEW h \in {0, 1}, EnterIrq(h) PROVE TypeOK'
    <3>1. lag' \in 0 .. MaxLag
      BY <2>3 DEF TypeOK, EnterIrq
    <3> QED
      BY <2>3, <3>1 DEF TypeOK, EnterIrq, hardware, thread
  <2>17. CASE ClearFlags
    <3>1. flags' \in SUBSET {"HT", "TC"}
      BY <2>17 DEF TypeOK, ClearFlags, Cleared
    <3>2. basepos' \in 0 .. HalfBuffer /\ ofs' \in Nat
      BY <2>17 DEF TypeOK, ClearFlags
    <3> QED
      BY <2>17, <3>1, <3>2 DEF TypeOK, ClearFlags, thread
  <2>4. CASE FillStep
    <3> DEFINE period == Period[pattern_number]
               o == Wrapped(ofs, period)
               n == ChunkSize(o, period)
    <3>1. period \in Nat \ {0}
      BY DEF TypeOK
    <3>2. o \in 0 .. period - 1
      BY <3>1, WrappedInPeriod DEF TypeOK
    <3>3. /\ n \in 1 .. Remaining
          /\ OffsetAfter(o, n, period) \in Nat
      BY <2>4, <3>1, <3>2, ChunkFits DEF FillStep
    <3>4. output_buffer' \in [Bytes -> Cells]
      <4> DEFINE start == half * HalfBuffer + basepos
      <4>1. output_buffer' = Generated(start, n, o)
        BY <2>4 DEF FillStep
      <4>2. start \in Nat
        BY DEF TypeOK
      <4>3. ASSUME NEW i \in Bytes, i \in start .. start + n - 1
            PROVE  Frame(pattern_number, o + (i - start)) \in Cells
        <5>1. o + (i - start) \in Nat
          BY <3>1, <3>2, <3>3, <4>2, <4>3 DEF Bytes, BufferSize
        <5> HIDE DEF o, start
        <5> QED
          BY <5>1, FrameIsCell DEF TypeOK
      <4> HIDE DEF start, o, n
      <4> QED
        BY <4>1, <4>3 DEF Generated, TypeOK
    <3>5. basepos' \in 0 .. HalfBuffer
      BY <2>4, <3>3 DEF FillStep, TypeOK, Remaining
    <3>6. ofs' \in Nat
      BY <2>4, <3>3 DEF FillStep
    <3> QED
      BY <2>4, <3>4, <3>5, <3>6 DEF FillStep, TypeOK, hardware, thread
  <2>5. CASE FillReturn
    BY <2>5 DEF TypeOK, FillReturn, hardware, thread
  <2>6. ASSUME NEW p \in Patterns, StopTimer(p) PROVE TypeOK'
    BY <2>6, MainStepTypes DEF TypeOK, StopTimer, MainSteps
  <2>7. CASE StopDma
    BY <2>7, MainStepTypes DEF TypeOK, StopDma, MainSteps
  <2>8. CASE PatternSelect
    BY <2>8, MainStepTypes DEF TypeOK, PatternSelect, MainSteps, Patterns
  <2>9. CASE StartMeasure
    BY <2>9, MainStepTypes DEF TypeOK, StartMeasure, MainSteps
  <2>10. CASE StartClear
    BY <2>10, MainStepTypes DEF TypeOK, StartClear, MainSteps, Cells
  <2>11. CASE StartReset
    BY <2>11, MainStepTypes DEF TypeOK, StartReset, MainSteps
  <2>12. CASE DmaSetup
    <3>1. 0 \in Bytes
      BY DEF Bytes, BufferSize
    <3>2. late' \in 0 .. 2 /\ flags' \in SUBSET {"HT", "TC"}
      BY <2>12 DEF DmaSetup
    <3>3. channel' \in BOOLEAN /\ cursor' \in Bytes
      BY <2>12, <3>1 DEF DmaSetup
    <3>4. /\ main' \in MainSteps /\ lag' \in 0 .. MaxLag
          /\ UNCHANGED <<port, irq, half, basepos, ofs>>
      BY <2>12, MainStepTypes DEF DmaSetup, MainSteps
    <3> QED
      BY <2>12, <3>2, <3>3, <3>4 DEF TypeOK, DmaSetup
  <2>13. CASE TimerSetup
    BY <2>13, MainStepTypes DEF TypeOK, TimerSetup, MainSteps
  <2>14. CASE EnableDma
    BY <2>14, MainStepTypes DEF TypeOK, EnableDma, MainSteps
  <2>15. CASE EnableTimer
    BY <2>15, MainStepTypes DEF TypeOK, EnableTimer, MainSteps
  <2>16. CASE UNCHANGED vars
    <3>1. /\ UNCHANGED <<pattern_number, pattern_offset, output_buffer>>
          /\ UNCHANGED <<timer, request, channel, cursor, flags, port>>
          /\ UNCHANGED <<irq, half, basepos, ofs, main, wanted, lag, late>>
      BY <2>16 DEF vars, hardware, handler, thread
    <3> QED
      BY <3>1 DEF TypeOK
  <2> QED
    BY <2>1, <2>2, <2>3, <2>4, <2>5, <2>6, <2>7, <2>8, <2>9, <2>10, <2>11,
       <2>12, <2>13, <2>14, <2>15, <2>16, <2>17
    DEF Next, Hardware, Handler, Restart, DmaIrqComplete, DmaIrqHalf
<1> QED
  BY <1>1, <1>2, PTL DEF Spec

-----------------------------------------------------------------------------
(***************************************************************************)
(* Restarts.  The last interrupt of the old round is raised before         *)
(* StopDma.  Rank counts the steps the main thread has made since; with    *)
(* MaxLag steps allowed, the interrupt has been taken before the memset    *)
(* ends.                                                                   *)
(***************************************************************************)
Running == main \in {"idle", "stop_dma", "timer_enable"}

\* How long an interrupt found pending at a step must have been so.
Rank ==
  CASE main = "select" -> 1
    [] main = "measure" -> 2
    [] main = "clear" -> 3
    [] OTHER -> 0

RestartInv ==
  /\ channel <=> Running
  /\ flags # {} /\ irq # "clear" => lag >= Rank
  /\ RestartClean

LEMMA RestartInvariant == Spec => [](TypeOK /\ RestartInv)
<1>1. ASSUME Init PROVE RestartInv
  BY <1>1 DEF Init, RestartInv, Running, RestartClean
<1>2. ASSUME TypeOK, RestartInv, [Next]_vars PROVE RestartInv'
  <2> USE <1>2
  <2>1. CASE TimerTick
    BY <2>1 DEF TimerTick, handler, thread, RestartInv, Running, Rank,
                RestartClean
  <2>2. CASE DmaTransfer
    <3>1. main \in {"idle", "stop_dma", "timer_enable"}
      BY <2>2 DEF DmaTransfer, RestartInv, Running
    <3> QED
      BY <2>2, <3>1 DEF DmaTransfer, handler, thread, RestartInv, Running,
                        Rank, RestartClean, TypeOK
  <2>3. ASSUME NEW h \in {0, 1}, EnterIrq(h), flags # {}
        PROVE  RestartInv'
    BY <2>3 DEF EnterIrq, hardware, thread, RestartInv, Running, Rank,
                RestartClean
  <2>17. CASE ClearFlags
    BY <2>17 DEF ClearFlags, Cleared, thread, RestartInv, Running, Rank,
                 RestartClean
  <2>4. CASE FillStep
    BY <2>4 DEF FillStep, hardware, thread, RestartInv, Running, Rank,
                RestartClean
  <2>5. CASE FillReturn
    BY <2>5 DEF FillReturn, hardware, thread, RestartInv, Running, Rank,
                RestartClean
  <2>6. ASSUME NEW p \in Patterns, StopTimer(p) PROVE RestartInv'
    BY <2>6 DEF StopTimer, MainStep, handler, RestartInv, Running, Rank,
                RestartClean, TypeOK
  <2>7. CASE StopDma
    BY <2>7 DEF StopDma, MainStep, handler, RestartInv, Running, Rank,
                RestartClean, TypeOK
  <2>8. CASE PatternSelect
    BY <2>8 DEF PatternSelect, MainStep, handler, RestartInv, Running, Rank,
                RestartClean, TypeOK
  <2>9. CASE StartMeasure
    BY <2>9 DEF StartMeasure, MainStep, handler, RestartInv, Running, Rank,
                RestartClean, TypeOK
  <2>10. CASE StartClear
    BY <2>10 DEF StartClear, MainStep, handler, RestartInv, Running, Rank,
                 RestartClean, TypeOK
  <2>11. CASE StartReset
    BY <2>11 DEF StartReset, MainStep, handler, RestartInv, Running, Rank,
                 RestartClean, TypeOK
  <2>12. CASE DmaSetup
    BY <2>12 DEF DmaSetup, MainStep, handler, RestartInv, Running, Rank,
                 RestartClean, TypeOK
  <2>13. CASE TimerSetup
    BY <2>13 DEF TimerSetup, MainStep, handler, RestartInv, Running, Rank,
                 RestartClean, TypeOK
  <2>14. CASE EnableDma
    BY <2>14 DEF EnableDma, MainStep, handler, RestartInv, Running, Rank,
                 RestartClean, TypeOK
  <2>15. CASE EnableTimer
    BY <2>15 DEF EnableTimer, MainStep, handler, RestartInv, Running, Rank,
                 RestartClean, TypeOK
  <2>16. CASE UNCHANGED vars
    BY <2>16 DEF vars, hardware, handler, thread, RestartInv, Running, Rank,
                 RestartClean
  <2> QED
    BY <2>1, <2>2, <2>3, <2>4, <2>5, <2>6, <2>7, <2>8, <2>9, <2>10, <2>11,
       <2>12, <2>13, <2>14, <2>15, <2>16, <2>17
    DEF Next, Hardware, Handler, Restart, DmaIrqComplete, DmaIrqHalf
<1> QED
  BY <1>1, <1>2, TypeCorrect, PTL DEF Spec

\* No interrupt of the old round comes after the memset of ticker_start.
THEOREM RestartsAreClean == Spec => []RestartClean
<1>1. RestartInv => RestartClean
  BY DEF RestartInv
<1> QED
  BY <1>1, RestartInvariant, PTL

-----------------------------------------------------------------------------
(***************************************************************************)
(* Whole frames.  WholeFrames is inductive by itself: a turn of the loop   *)
(* of fill_buffer takes one whole frame off the bytes that remain.         *)
(***************************************************************************)
PeriodsDivide ==
  \A p \in Patterns : \E k \in Nat : HalfBuffer = k * Period[p]

\* A positive multiple of a period is a period and a smaller multiple.
LEMMA OneFrameLess ==
  ASSUME NEW period \in Nat \ {0}, NEW k \in Nat, k * period > 0
  PROVE  /\ k > 0
         /\ k * period = (k - 1) * period + period
         /\ (k - 1) * period \in Nat
<1>1. k > 0
  OBVIOUS
<1>2. k * period = (k - 1) * period + period
  OBVIOUS
<1>3. (k - 1) \in Nat
  BY <1>1
<1> QED
  BY <1>1, <1>2, <1>3

\* A count of positive periods is at most the bytes they take.
LEMMA CountBounded ==
  ASSUME NEW period \in Nat \ {0}, NEW k \in Nat
  PROVE  k <= k * period
<1>1. k * period = k + k * (period - 1)
  OBVIOUS
<1>2. k * (period - 1) >= 0
  OBVIOUS
<1> QED
  BY <1>1, <1>2

\* When the periods divide the half buffer, the generators get whole frames
\* only, from offset 0.
THEOREM FramesAreWhole ==
  ASSUME PeriodsDivide
  PROVE  Spec => []WholeFrames
<1>1. Init => WholeFrames
  BY DEF Init, WholeFrames
<1>2. ASSUME TypeOK, WholeFrames, [Next]_vars PROVE WholeFrames'
  <2> USE <1>2
  <2>1. CASE ClearFlags
    <3> DEFINE period == Period[pattern_number]
    <3>1. PICK k \in Nat : HalfBuffer = k * period
      BY PeriodsDivide DEF PeriodsDivide, TypeOK
    <3>2. k \in 0 .. HalfBuffer
      BY <3>1, CountBounded DEF TypeOK
    <3>3. HalfBuffer - basepos' = k * Period[pattern_number']
      BY <2>1, <3>1 DEF ClearFlags
    <3> QED
      BY <2>1, <3>2, <3>3 DEF ClearFlags, WholeFrames, Remaining
  <2>2. CASE FillStep
    <3> DEFINE period == Period[pattern_number]
    <3>1. period \in Nat \ {0}
      BY DEF TypeOK
    <3>2. ofs = 0 /\ Wrapped(ofs, period) = 0
      BY <2>2, <3>1 DEF FillStep, WholeFrames, Wrapped
    <3>3. PICK k \in 0 .. HalfBuffer : Remaining = k * period
      BY <2>2 DEF FillStep, WholeFrames
    <3> DEFINE rest == (k - 1) * period
    <3>4. k > 0 /\ Remaining = rest + period /\ rest \in Nat
      BY <2>2, <3>1, <3>3, OneFrameLess DEF FillStep
    <3> HIDE DEF rest
    <3>5. /\ ChunkSize(0, period) = period
          /\ OffsetAfter(0, period, period) = 0
      BY <3>1, <3>4 DEF ChunkSize, OffsetAfter
    <3>6. /\ basepos' = basepos + period
          /\ ofs' = 0
          /\ UNCHANGED <<pattern_number, pattern_offset>>
      BY <2>2, <3>2, <3>5 DEF FillStep
    <3>7. Remaining' = rest
      BY <3>1, <3>4, <3>6 DEF Remaining, TypeOK
    <3> QED
      BY <3>3, <3>4, <3>6, <3>7 DEF WholeFrames, rest
  <2>3. CASE FillReturn
    BY <2>3 DEF FillReturn, WholeFrames
  <2>4. CASE Hardware \/ UNCHANGED vars
    BY <2>4 DEF Hardware, TimerTick, DmaTransfer, vars, handler, thread,
                WholeFrames, Remaining
  <2>5. CASE Restart
    BY <2>5 DEF Restart, StopDma, PatternSelect, StartMeasure, StartClear,
                StartReset, DmaSetup, TimerSetup, EnableDma, EnableTimer,
                MainStep, handler, WholeFrames, Remaining
  <2>6. ASSUME NEW p \in Patterns, StopTimer(p) PROVE WholeFrames'
    BY <2>6 DEF StopTimer, MainStep, handler, WholeFrames, Remaining
  <2>7. ASSUME NEW h \in {0, 1}, EnterIrq(h) PROVE WholeFrames'
    BY <2>7 DEF EnterIrq, WholeFrames, Remaining
  <2> QED
    BY <2>1, <2>2, <2>3, <2>4, <2>5, <2>6, <2>7
    DEF Next, Handler, DmaIrqComplete, DmaIrqHalf
<1> QED
  BY <1>1, <1>2, TypeCorrect, PTL DEF Spec

-----------------------------------------------------------------------------
(***************************************************************************)
(* The stream.  While the channel is on and the refills are in time, the   *)
(* bytes from the cursor to the frontier, the place where the next byte    *)
(* goes, are one sequence laid out on a circle: every byte leads to the    *)
(* one after it, and the byte before the frontier leads to the byte that   *)
(* is generated next.  With one spoilt half to go, it is what is written   *)
(* since the last one was left.                                            *)
(***************************************************************************)
Succ(i) == IF i + 1 = BufferSize THEN 0 ELSE i + 1

\* The half that is filled, or is filled next.
WriteHalf ==
  IF irq = "fill" THEN half
  ELSE IF flags = {} THEN IF cursor < HalfBuffer THEN 1 ELSE 0
  ELSE IF "TC" \in flags THEN 1 ELSE 0

Written ==
  IF irq = "fill" THEN basepos ELSE IF flags = {} THEN HalfBuffer ELSE 0

Frontier ==
  LET f == IF WriteHalf = 1 THEN HalfBuffer + Written ELSE Written
  IN  IF f = BufferSize THEN 0 ELSE f

\* The offset of the next byte to generate.
NextOfs == IF irq = "fill" THEN ofs ELSE pattern_offset

\* b may come after byte i of the buffer.
Leads(i, b) ==
  IF output_buffer[i] = Blank
  THEN b = IF i + 1 = BufferSize THEN Frame(pattern_number, 0) ELSE Blank
  ELSE b = Frame(pattern_number,
                 Stream!NextPos(pattern_number, output_buffer[i].pos))

NextByte(i) ==
  IF Succ(i) = Frontier THEN Frame(pattern_number, NextOfs)
  ELSE output_buffer[Succ(i)]

\* The bytes that are to come and can be relied on.
Ahead(i) ==
  \/ WriteHalf = 1 /\ i \in HalfBuffer .. HalfBuffer + Written - 1
  \/ WriteHalf = 0 /\ i \in 0 .. Written - 1
  \/ late = 0 /\ i >= cursor /\ (i < HalfBuffer <=> WriteHalf = 1)

\* The handler works on the half the DMA has left, and nothing else is pending.
Turns ==
  /\ irq = "fill" => flags = {} /\ (half = 1 <=> cursor < HalfBuffer)
  /\ irq = "clear" => flags = {IF half = 1 THEN "TC" ELSE "HT"}
  /\ "HT" \in flags => cursor >= HalfBuffer
  /\ "TC" \in flags => cursor < HalfBuffer

Sequence ==
  \A i \in Bytes : Ahead(i) =>
    /\ output_buffer[i] # Blank =>
         output_buffer[i] = Frame(pattern_number, output_buffer[i].pos)
    /\ Leads(i, NextByte(i))

OffsetsInv ==
  /\ pattern_offset < Period[pattern_number]
  /\ irq = "fill" => ofs < Period[pattern_number]

LiveInv == channel => OffsetsInv /\ (late < 2 => Turns /\ Sequence)

Inv == TypeOK /\ RestartInv /\ LiveInv

\* The sequence depends on the buffer, the pattern, the frontier and the next
\* offset alone.
LEMMA SequenceKept ==
  ASSUME Sequence, UNCHANGED <<output_buffer, pattern_number>>,
         Frontier' = Frontier, NextOfs' = NextOfs,
         \A i \in Bytes : Ahead(i)' => Ahead(i)
  PROVE  Sequence'
BY DEF Sequence, Leads, NextByte, Succ

\* What LiveInv depends on.
LEMMA LiveInvKept ==
  ASSUME channel => OffsetsInv /\ (late < 2 => Turns /\ Sequence),
         UNCHANGED <<output_buffer, pattern_number, pattern_offset, channel,
                     cursor, flags, irq, half, basepos, ofs, late>>
  PROVE  LiveInv'
<1>1. /\ Frontier' = Frontier /\ NextOfs' = NextOfs
      /\ \A i \in Bytes : Ahead(i)' => Ahead(i)
  BY DEF Frontier, WriteHalf, Written, NextOfs, Ahead
<1> QED
  BY <1>1, SequenceKept DEF LiveInv, Turns, OffsetsInv

\* The byte at the cursor can be relied on and is not where the handler writes.
LEMMA CursorAhead ==
  ASSUME TypeOK, Turns, late = 0
  PROVE  Ahead(cursor) /\ (cursor < HalfBuffer <=> WriteHalf = 1)
<1>1. cursor < HalfBuffer <=> WriteHalf = 1
  <2>1. flags # {} /\ "TC" \notin flags => cursor >= HalfBuffer
    BY DEF TypeOK, Turns
  <2>2. cursor \in Nat
    BY DEF TypeOK, Bytes
  <2> QED
    BY <2>1, <2>2 DEF TypeOK, Turns, WriteHalf
<1> QED
  BY <1>1 DEF Ahead, TypeOK, Bytes

\* The byte after the cursor is written already.
LEMMA NextIsWritten ==
  ASSUME TypeOK, Turns, Crossed(cursor) # {} => Refilled
  PROVE  Succ(cursor) # Frontier
<1>1. CASE Crossed(cursor) = {}
  <2>1. cursor + 1 # HalfBuffer /\ cursor + 1 # BufferSize
    BY <1>1 DEF Crossed
  <2> QED
    BY <2>1 DEF Succ, Frontier, WriteHalf, Written, Turns, TypeOK, Bytes,
                BufferSize
<1>2. CASE Crossed(cursor) # {}
  <2>1. flags = {} /\ irq = "out"
    BY <1>2 DEF Refilled
  <2>2. cursor + 1 = HalfBuffer \/ cursor + 1 = BufferSize
    BY <1>2 DEF Crossed
  <2> QED
    BY <2>1, <2>2 DEF Succ, Frontier, WriteHalf, Written, BufferSize, TypeOK,
                      Bytes
<1> QED
  BY <1>1, <1>2

\* The DMA moves a byte: the frontier stays where it is.  At the end of a half
\* the one that was written is the one to come, and one that was late is over.
LEMMA TransferKeepsLiveInv ==
  ASSUME TypeOK, LiveInv, DmaTransfer
  PROVE  LiveInv'
<1>1. channel /\ OffsetsInv /\ (late < 2 => Turns /\ Sequence)
  BY DEF DmaTransfer, LiveInv
<1>2. /\ cursor' = Succ(cursor)
      /\ flags' = flags \cup Crossed(cursor)
      /\ late' = LateAfter(Crossed(cursor))
      /\ UNCHANGED <<output_buffer, pattern_number, pattern_offset, irq, half,
                     basepos, ofs>>
  BY DEF DmaTransfer, Succ, handler
<1>3. OffsetsInv'
  BY <1>1, <1>2 DEF OffsetsInv
<1>4. CASE Crossed(cursor) = {}
  <2> SUFFICES ASSUME late' < 2 PROVE Turns' /\ Sequence'
    BY <1>3 DEF LiveInv
  <2>1. cursor + 1 # HalfBuffer /\ cursor + 1 # BufferSize
    BY <1>4 DEF Crossed
  <2>2. /\ flags' = flags /\ late' = late
        /\ cursor' = cursor + 1
        /\ cursor' < HalfBuffer <=> cursor < HalfBuffer
    BY <1>2, <1>4, <2>1 DEF Succ, TypeOK, Bytes, BufferSize, LateAfter
  <2>3. Turns /\ Sequence
    BY <1>1, <2>2
  <2>4. Turns'
    <3>1. cursor' >= HalfBuffer <=> cursor >= HalfBuffer
      BY <2>2 DEF TypeOK, Bytes
    <3>2. irq' = irq /\ half' = half
      BY <1>2
    <3> QED
      BY <2>2, <2>3, <3>1, <3>2, Zenon DEF Turns
  <2>5. WriteHalf' = WriteHalf /\ Written' = Written
    BY <1>2, <2>2 DEF WriteHalf, Written
  <2>6. Frontier' = Frontier /\ NextOfs' = NextOfs
    BY <1>2, <2>5 DEF Frontier, NextOfs
  <2>7. ASSUME NEW i \in Bytes, Ahead(i)' PROVE Ahead(i)
    <3>1. i \in Nat /\ cursor \in Nat
      BY DEF TypeOK, Bytes
    <3> QED
      BY <2>2, <2>5, <2>7, <3>1 DEF Ahead
  <2> QED
    BY <1>2, <2>3, <2>4, <2>6, <2>7, SequenceKept
<1>5. CASE Crossed(cursor) # {} /\ Refilled
  <2> SUFFICES ASSUME late' < 2 PROVE Turns' /\ Sequence'
    BY <1>3 DEF LiveInv
  <2>1. flags = {} /\ irq = "out" /\ irq' = "out"
    BY <1>2, <1>5 DEF Refilled
  <2>2. \/ cursor + 1 = HalfBuffer /\ flags' = {"HT"} /\ cursor' = HalfBuffer
        \/ cursor + 1 = BufferSize /\ flags' = {"TC"} /\ cursor' = 0
    BY <1>2, <1>5, <2>1 DEF Crossed, Succ, BufferSize, TypeOK, Bytes
  <2>3. Turns'
    BY <2>1, <2>2 DEF Turns
  <2>4. /\ Written = HalfBuffer /\ Written' = 0
        /\ WriteHalf = IF cursor < HalfBuffer THEN 1 ELSE 0
        /\ WriteHalf' = IF "TC" \in flags' THEN 1 ELSE 0
    BY <2>1, <2>2 DEF Written, WriteHalf
  <2>5. CASE late = 2
    <3>1. late' = 1
      BY <1>2, <1>5, <2>5 DEF LateAfter
    <3>2. ASSUME NEW i \in Bytes PROVE ~Ahead(i)'
      BY <2>4, <3>1 DEF Ahead, Bytes
    <3> QED
      BY <2>3, <3>2 DEF Sequence
  <2>6. CASE late # 2
    <3>1. late < 2 /\ late \in Nat /\ late' = 0
      BY <1>2, <1>5, <2>6 DEF LateAfter, TypeOK
    <3>2. Sequence
      BY <1>1, <3>1
    <3>3. Frontier' = Frontier
      BY <2>2, <2>4 DEF Frontier, BufferSize, TypeOK, Bytes
    <3>4. NextOfs' = NextOfs
      BY <1>2, <2>1 DEF NextOfs
    <3>5. ASSUME NEW i \in Bytes, Ahead(i)' PROVE Ahead(i)
      BY <2>2, <2>4, <3>1, <3>5 DEF Ahead, BufferSize, Bytes, TypeOK
    <3> QED
      BY <1>2, <2>3, <3>2, <3>3, <3>4, <3>5, SequenceKept
  <2> QED
    BY <2>5, <2>6
<1>6. CASE Crossed(cursor) # {} /\ ~Refilled
  <2>1. late' = 2
    BY <1>2, <1>6 DEF LateAfter
  <2> QED
    BY <1>3, <2>1 DEF LiveInv
<1> QED
  BY <1>4, <1>5, <1>6

\* An interrupt is taken for the half where the frontier is.
LEMMA EnterKeepsLiveInv ==
  ASSUME TypeOK, LiveInv, NEW h \in {0, 1}, EnterIrq(h),
         h = 1 => "TC" \in flags,
         h = 0 => "HT" \in flags /\ "TC" \notin flags
  PROVE  LiveInv'
<1> SUFFICES ASSUME channel
             PROVE  OffsetsInv' /\ (late' < 2 => Turns' /\ Sequence')
  BY DEF EnterIrq, hardware, LiveInv
<1>1. /\ irq = "out" /\ irq' = "clear" /\ half' = h
      /\ UNCHANGED <<output_buffer, pattern_number, pattern_offset, cursor,
                     flags, late, basepos, ofs>>
  BY DEF EnterIrq, hardware
<1>2. OffsetsInv'
  BY <1>1 DEF LiveInv, OffsetsInv
<1> SUFFICES ASSUME late' < 2 PROVE Turns' /\ Sequence'
  BY <1>2
<1>3. Turns /\ Sequence
  BY <1>1 DEF LiveInv
<1>4. flags = {IF h = 1 THEN "TC" ELSE "HT"}
  <2>1. ~("HT" \in flags /\ "TC" \in flags)
    BY <1>3 DEF Turns, TypeOK, Bytes
  <2>2. flags \in SUBSET {"HT", "TC"}
    BY DEF TypeOK
  <2>3. CASE h = 1
    <3>1. "TC" \in flags /\ "HT" \notin flags
      BY <2>1, <2>3
    <3> QED
      BY <2>2, <2>3, <3>1
  <2>4. CASE h = 0
    <3>1. "HT" \in flags /\ "TC" \notin flags
      BY <2>4
    <3> QED
      BY <2>2, <2>4, <3>1
  <2> QED
    BY <2>3, <2>4
<1>5. Turns'
  BY <1>1, <1>3, <1>4 DEF Turns
<1>6. /\ Frontier' = Frontier /\ NextOfs' = NextOfs
      /\ \A i \in Bytes : Ahead(i)' => Ahead(i)
  BY <1>1 DEF Frontier, WriteHalf, Written, NextOfs, Ahead
<1> QED
  BY <1>1, <1>3, <1>5, <1>6, SequenceKept

\* The flag is cleared, and it is the only one.
LEMMA ClearKeepsLiveInv ==
  ASSUME TypeOK, LiveInv, ClearFlags
  PROVE  LiveInv'
<1> SUFFICES ASSUME channel
             PROVE  OffsetsInv' /\ (late' < 2 => Turns' /\ Sequence')
  BY DEF ClearFlags, LiveInv
<1>1. /\ irq = "clear" /\ irq' = "fill" /\ flags' = {} /\ basepos' = 0
      /\ ofs' = pattern_offset
      /\ UNCHANGED <<output_buffer, pattern_number, pattern_offset, cursor,
                     half, late>>
  BY DEF ClearFlags, Cleared
<1>2. OffsetsInv'
  BY <1>1 DEF LiveInv, OffsetsInv
<1> SUFFICES ASSUME late' < 2 PROVE Turns' /\ Sequence'
  BY <1>2
<1>3. Turns /\ Sequence
  BY <1>1 DEF LiveInv
<1>4. flags = {IF half = 1 THEN "TC" ELSE "HT"}
  BY <1>1, <1>3 DEF Turns
<1>5. Turns'
  BY <1>1, <1>3, <1>4 DEF Turns, TypeOK, Bytes
<1>6. WriteHalf' = WriteHalf /\ Written' = Written
  BY <1>1, <1>4 DEF WriteHalf, Written, TypeOK
<1>7. /\ Frontier' = Frontier /\ NextOfs' = NextOfs
      /\ \A i \in Bytes : Ahead(i)' => Ahead(i)
  BY <1>1, <1>6 DEF Frontier, NextOfs, Ahead
<1> QED
  BY <1>1, <1>3, <1>5, <1>7, SequenceKept

\* The handler returns with its half full.
LEMMA ReturnKeepsLiveInv ==
  ASSUME TypeOK, LiveInv, FillReturn
  PROVE  LiveInv'
<1> SUFFICES ASSUME channel
             PROVE  OffsetsInv' /\ (late' < 2 => Turns' /\ Sequence')
  BY DEF FillReturn, hardware, LiveInv
<1>1. /\ irq = "fill" /\ irq' = "out" /\ pattern_offset' = ofs
      /\ basepos = HalfBuffer
      /\ UNCHANGED <<output_buffer, pattern_number, cursor, flags, half, basepos,
                     late>>
  BY DEF FillReturn, hardware, Remaining, TypeOK
<1>2. OffsetsInv'
  BY <1>1 DEF LiveInv, OffsetsInv
<1> SUFFICES ASSUME late' < 2 PROVE Turns' /\ Sequence'
  BY <1>2
<1>3. Turns /\ Sequence /\ flags = {}
  BY <1>1 DEF LiveInv, Turns
<1>4. Turns'
  BY <1>1, <1>3 DEF Turns
<1>5. WriteHalf' = WriteHalf /\ Written' = Written
  BY <1>1, <1>3 DEF WriteHalf, Written, Turns, TypeOK
<1>6. /\ Frontier' = Frontier /\ NextOfs' = NextOfs
      /\ \A i \in Bytes : Ahead(i)' => Ahead(i)
  BY <1>1, <1>5 DEF Frontier, NextOfs, Ahead
<1> QED
  BY <1>1, <1>3, <1>4, <1>6, SequenceKept

\* A turn of the loop of fill_buffer continues the sequence.
LEMMA FillKeepsLiveInv ==
  ASSUME TypeOK, LiveInv, FillStep
  PROVE  /\ LiveInv'
         /\ channel /\ late < 2 => output_buffer'[cursor] = output_buffer[cursor]
<1> SUFFICES ASSUME channel
             PROVE  /\ OffsetsInv'
                    /\ late < 2 =>
                         /\ Turns' /\ Sequence'
                         /\ output_buffer'[cursor] = output_buffer[cursor]
  BY DEF FillStep, hardware, LiveInv
<1> DEFINE p == pattern_number
           period == Period[p]
           start == IF half = 1 THEN HalfBuffer + basepos ELSE basepos
           n == ChunkSize(ofs, period)
           next == OffsetAfter(ofs, n, period)
<1>0. OffsetsInv /\ irq = "fill" /\ Remaining > 0
  BY DEF LiveInv, FillStep
<1>2. period \in Nat \ {0} /\ ofs \in 0 .. period - 1
  BY <1>0 DEF OffsetsInv, TypeOK
<1>3. Wrapped(ofs, period) = ofs
  BY <1>2 DEF Wrapped
<1>4. /\ n \in 1 .. Remaining
      /\ ofs + n <= period
      /\ next = IF ofs + n = period THEN 0 ELSE ofs + n
  BY <1>0, <1>2 DEF ChunkSize, OffsetAfter, Remaining, TypeOK
<1>5. start = half * HalfBuffer + basepos
  BY DEF TypeOK
<1>6. /\ output_buffer' = Generated(start, n, ofs)
      /\ basepos' = basepos + n
      /\ ofs' = next
      /\ UNCHANGED <<pattern_number, pattern_offset, cursor, flags, irq, half,
                     late>>
  BY <1>3, <1>5 DEF FillStep, hardware
<1>16. OffsetsInv'
  BY <1>0, <1>2, <1>4, <1>6 DEF OffsetsInv, TypeOK
<1> SUFFICES ASSUME late < 2
             PROVE  /\ Turns' /\ Sequence'
                    /\ output_buffer'[cursor] = output_buffer[cursor]
  BY <1>16
<1>1. Turns /\ Sequence /\ irq = "fill" /\ Remaining > 0
  BY <1>0 DEF LiveInv
<1>7. /\ start \in Bytes
      /\ start + n <= BufferSize
      /\ start + n <= HalfBuffer \/ start >= HalfBuffer
      /\ start < HalfBuffer <=> half # 1
      /\ start = 0 => start + n < BufferSize
  BY <1>1, <1>4 DEF TypeOK, Remaining, Bytes, BufferSize
<1>8. Frontier = start
  BY <1>1, <1>7 DEF Frontier, WriteHalf, Written, Bytes
<1>9. Frontier' = IF start + n = BufferSize THEN 0 ELSE start + n
  BY <1>1, <1>4, <1>6 DEF Frontier, WriteHalf, Written, TypeOK
<1>10. NextOfs = ofs /\ NextOfs' = next
  BY <1>1, <1>6 DEF NextOfs
<1>11. Turns'
  BY <1>1, <1>6 DEF Turns
<1> DEFINE Filled(i) == i \in start .. start + n - 1
<1>17. ASSUME NEW i \in Bytes, Ahead(i)', ~Filled(i) PROVE Ahead(i)
  <2>1. /\ WriteHalf = half /\ WriteHalf' = half
        /\ Written = basepos /\ Written' = basepos + n
    BY <1>1, <1>6 DEF WriteHalf, Written
  <2>2. i \in Nat /\ cursor \in Nat /\ basepos \in Nat /\ half \in {0, 1}
    BY DEF TypeOK, Bytes
  <2>3. n \in Nat
    BY <1>1, <1>4 DEF Remaining, TypeOK
  <2> HIDE DEF n
  <2> QED
    BY <1>6, <1>17, <2>1, <2>2, <2>3 DEF Ahead
<1>12. ASSUME NEW i \in Bytes
       PROVE  output_buffer'[i] = IF Filled(i) THEN Frame(p, ofs + (i - start))
                                  ELSE output_buffer[i]
  BY <1>6 DEF Generated
<1> HIDE DEF n, start, next
<1>13. output_buffer'[cursor] = output_buffer[cursor]
  <2>1. cursor \in Bytes /\ ~Filled(cursor)
    BY <1>1, <1>4, <1>7 DEF Turns, TypeOK, Bytes
  <2> QED
    BY <2>1, <1>12
<1>14. ASSUME NEW i \in Bytes, Ahead(i)'
       PROVE  /\ output_buffer[i]' # Blank =>
                   output_buffer[i]' = Frame(p', output_buffer[i].pos')
              /\ Leads(i, NextByte(i))'
  <2>1. Succ(i) \in Bytes
    BY DEF Succ, Bytes, BufferSize
  <2>2. CASE Filled(i)
    <3> DEFINE q == ofs + (i - start)
    <3>1. q \in Nat /\ q < period
      BY <1>2, <1>4, <1>7, <2>2 DEF Bytes
    <3>2. output_buffer'[i] = Frame(p, q) /\ Frame(p, q) # Blank
      BY <1>12, <2>2, <3>1, FrameIsCell DEF TypeOK
    <3>3. Frame(p, q).pos = q
      BY DEF Frame
    <3>4. NextByte(i)' = Frame(p, Stream!NextPos(p, q))
      <4>1. CASE i = start + n - 1
        <5>1. Succ(i) = Frontier'
          BY <1>4, <1>7, <1>9, <4>1 DEF Succ, Bytes, BufferSize
        <5>2. Stream!NextPos(p, q) = next
          BY <1>2, <1>4, <1>7, <4>1 DEF Stream!NextPos, Bytes
        <5> QED
          BY <5>1, <5>2, <1>6, <1>10 DEF NextByte, Succ
      <4>2. CASE i # start + n - 1
        <5>1. PICK j \in Bytes : j = Succ(i)
          BY <2>1
        <5>2. j = i + 1 /\ Filled(j) /\ j # Frontier'
          BY <1>4, <1>7, <1>9, <2>2, <4>2, <5>1 DEF Succ, Bytes, BufferSize
        <5>3. output_buffer'[j] = Frame(p, ofs + (j - start))
          BY <1>12, <5>2
        <5>4. /\ ofs + (j - start) = q + 1
              /\ q + 1 # period
          BY <1>2, <1>4, <1>7, <2>2, <4>2, <5>2 DEF Bytes
        <5> QED
          BY <5>1, <5>2, <5>3, <5>4, <1>6 DEF NextByte, Succ, Stream!NextPos
      <4> QED
        BY <4>1, <4>2
    <3> QED
      BY <3>2, <3>3, <3>4, <1>6 DEF Leads
  <2>3. CASE ~Filled(i)
    <3>1. output_buffer'[i] = output_buffer[i]
      BY <1>12, <2>3
    <3>2. NextByte(i)' = NextByte(i)
      <4>1. CASE Succ(i) = start
        <5>1. Filled(start) /\ Succ(i) # Frontier'
          BY <1>4, <1>7, <1>9, <4>1 DEF Bytes
        <5>2. output_buffer'[Succ(i)] = Frame(p, ofs)
          BY <1>2, <1>7, <1>12, <4>1, <5>1 DEF Bytes
        <5> QED
          BY <4>1, <5>1, <5>2, <1>8, <1>10 DEF NextByte, Succ
      <4>2. CASE Succ(i) # start
        <5>1. ~Filled(Succ(i)) /\ Succ(i) # Frontier'
          BY <1>4, <1>7, <1>9, <2>3, <4>2 DEF Succ, Bytes, BufferSize
        <5> QED
          BY <1>8, <1>12, <2>1, <4>2, <5>1 DEF NextByte, Succ
      <4> QED
        BY <4>1, <4>2
    <3>3. /\ output_buffer[i] # Blank =>
               output_buffer[i] = Frame(p, output_buffer[i].pos)
          /\ Leads(i, NextByte(i))
      BY <1>1, <1>14, <1>17, <2>3 DEF Sequence
    <3> QED
      BY <3>1, <3>2, <3>3, <1>6 DEF Leads
  <2> QED
    BY <2>2, <2>3
<1> QED
  BY <1>11, <1>13, <1>14 DEF Sequence

LEMMA Invariance == Spec => []Inv
<1>1. Init => LiveInv
  BY DEF Init, LiveInv
<1>2. ASSUME TypeOK, RestartInv, RestartInv', LiveInv, [Next]_vars
      PROVE  LiveInv'
  <2> USE <1>2
  <2>1. CASE TimerTick
    BY <2>1, LiveInvKept DEF TimerTick, handler, LiveInv
  <2>2. CASE DmaTransfer
    BY <2>2, TransferKeepsLiveInv
  <2>3. CASE DmaIrqComplete
    BY <2>3, EnterKeepsLiveInv DEF DmaIrqComplete
  <2>4. CASE DmaIrqHalf
    BY <2>4, EnterKeepsLiveInv DEF DmaIrqHalf
  <2>5. CASE FillStep
    BY <2>5, FillKeepsLiveInv
  <2>6. CASE FillReturn
    BY <2>6, ReturnKeepsLiveInv
  <2>12. CASE ClearFlags
    BY <2>12, ClearKeepsLiveInv
  <2>7. ASSUME NEW p \in Patterns, StopTimer(p) PROVE LiveInv'
    BY <2>7, LiveInvKept DEF StopTimer, MainStep, handler, LiveInv
  <2>8. CASE StopDma \/ PatternSelect \/ StartMeasure \/ StartClear
             \/ StartReset \/ DmaSetup \/ TimerSetup
    <3>1. ~Running'
      BY <2>8 DEF StopDma, PatternSelect, StartMeasure, StartClear, StartReset,
                  DmaSetup, TimerSetup, MainStep, Running
    <3> QED
      BY <3>1 DEF RestartInv, LiveInv
  <2>9. CASE EnableDma
    <3>1. /\ irq = "out" /\ flags = {} /\ cursor = 0 /\ pattern_offset = 0
          /\ \A i \in Bytes : output_buffer[i] = Blank
          /\ UNCHANGED <<irq, half, basepos, ofs, flags, cursor, pattern_offset,
                         output_buffer, pattern_number>>
      BY <2>9 DEF EnableDma, MainStep, handler, RestartInv, RestartClean
    <3>2. Frontier' = 0 /\ NextOfs' = 0
      BY <3>1 DEF Frontier, WriteHalf, Written, NextOfs, BufferSize
    <3>3. ASSUME NEW i \in Bytes
          PROVE  output_buffer'[i] = Blank /\ Leads(i, NextByte(i))'
      <4>1. CASE i + 1 = BufferSize
        <5>1. NextByte(i)' = Frame(pattern_number, 0)
          BY <3>1, <3>2, <4>1 DEF NextByte, Succ
        <5> QED
          BY <3>1, <4>1, <5>1 DEF Leads
      <4>2. CASE i + 1 # BufferSize
        <5>1. Succ(i) = i + 1 /\ Succ(i) \in Bytes /\ Succ(i) # 0
          BY <4>2 DEF Succ, Bytes, BufferSize
        <5>2. NextByte(i)' = Blank
          BY <3>1, <3>2, <5>1 DEF NextByte, Succ
        <5> QED
          BY <3>1, <4>2, <5>2 DEF Leads
      <4> QED
        BY <4>1, <4>2
    <3>4. Sequence'
      BY <3>1, <3>3 DEF Sequence
    <3>5. Turns' /\ OffsetsInv'
      BY <3>1 DEF Turns, OffsetsInv, TypeOK
    <3> QED
      BY <3>4, <3>5 DEF LiveInv
  <2>10. CASE EnableTimer
    BY <2>10, LiveInvKept DEF EnableTimer, MainStep, handler, LiveInv
  <2>11. CASE UNCHANGED vars
    BY <2>11, LiveInvKept DEF vars, hardware, handler, LiveInv
  <2> QED
    BY <2>1, <2>2, <2>3, <2>4, <2>5, <2>6, <2>7, <2>8, <2>9, <2>10, <2>11,
       <2>12
    DEF Next, Hardware, Handler, Restart
<1> QED
  BY <1>1, <1>2, RestartInvariant, PTL DEF Spec, Inv

\* With refills in time no half is ever late.
LEMMA NeverLate ==
  ASSUME Punctual
  PROVE  Spec => [](late = 0)
<1>1. Init => late = 0
  BY DEF Init
<1>2. ASSUME late = 0, [Next]_vars PROVE (late = 0)'
  <2>1. CASE DmaTransfer
    <3>1. Crossed(cursor) # {} => Refilled
      BY <2>1 DEF DmaTransfer, InTime
    <3> QED
      BY <1>2, <2>1, <3>1 DEF DmaTransfer, LateAfter
  <2>2. CASE TimerTick \/ Handler \/ UNCHANGED vars
    BY <1>2, <2>2 DEF TimerTick, Handler, DmaIrqComplete, DmaIrqHalf, EnterIrq,
                      ClearFlags, FillStep, FillReturn, vars
  <2>3. CASE Restart
    BY <1>2, <2>3 DEF Restart, StopDma, PatternSelect, StartMeasure, StartClear,
                      StartReset, DmaSetup, TimerSetup, EnableDma, EnableTimer
  <2>4. ASSUME NEW p \in Patterns, StopTimer(p) PROVE late' = 0
    BY <1>2, <2>4 DEF StopTimer
  <2> QED
    BY <1>2, <2>1, <2>2, <2>3, <2>4 DEF Next, Hardware
<1> QED
  BY <1>1, <1>2, PTL DEF Spec

\* The DMA channel never reads the half that the handler writes.
THEOREM NoTearingEver ==
  ASSUME Punctual
  PROVE  Spec => []NoTearing
<1>1. Inv /\ late = 0 => NoTearing
  BY DEF Inv, LiveInv, Turns, NoTearing
<1> QED
  BY <1>1, Invariance, NeverLate, PTL

\* A step between two states with no half late is one of the stream.
LEMMA StreamStep ==
  ASSUME Inv, Inv', [Next]_vars, late = 0, late' = 0
  PROVE  [Stream!Next]_(Stream!vars)
<1> DEFINE leadBar == IF channel
                      THEN IF output_buffer[cursor] = Blank
                           THEN BufferSize - cursor ELSE 0
                      ELSE BufferSize
           posBar == IF channel /\ output_buffer[cursor] # Blank
                     THEN output_buffer[cursor].pos ELSE 0
<1>1. ASSUME UNCHANGED <<port, channel, pattern_number>>,
             leadBar' = leadBar, posBar' = posBar
      PROVE  UNCHANGED Stream!vars
  BY <1>1 DEF Stream!vars
<1>2. CASE DmaTransfer
  <2> DEFINE b == output_buffer[cursor]
  <2>1. /\ channel /\ port' = b /\ cursor' = Succ(cursor)
        /\ UNCHANGED <<channel, pattern_number, output_buffer>>
    BY <1>2 DEF DmaTransfer, Succ
  <2>7. TypeOK /\ Turns /\ Sequence
    BY <2>1 DEF Inv, LiveInv
  <2>8. Crossed(cursor) # {} => Refilled
    BY <1>2 DEF DmaTransfer, LateAfter
  <2>2. cursor \in Bytes /\ Ahead(cursor) /\ Succ(cursor) # Frontier
    BY <2>7, <2>8, CursorAhead, NextIsWritten DEF TypeOK
  <2>3. /\ Leads(cursor, output_buffer[cursor'])
        /\ b # Blank => b = Frame(pattern_number, b.pos)
    BY <2>1, <2>2, <2>7 DEF Sequence, NextByte
  <2>4. Frame(pattern_number, 0) # Blank /\ Frame(pattern_number, 0).pos = 0
    BY FrameIsCell DEF Frame, Inv, TypeOK
  <2>5. CASE b = Blank
    <3>1. leadBar = BufferSize - cursor /\ leadBar > 0 /\ posBar = 0
      BY <2>1, <2>2, <2>5 DEF Bytes, BufferSize
    <3>2. leadBar' = leadBar - 1 /\ posBar' = 0
      BY <2>1, <2>2, <2>3, <2>4, <2>5
      DEF Leads, Succ, Bytes, BufferSize
    <3> QED
      BY <2>1, <2>5, <3>1, <3>2 DEF Stream!Next, Stream!EmitBlank
  <2>6. CASE b # Blank
    <3>1. leadBar = 0 /\ posBar = b.pos /\ b.pos \in Nat
      BY <2>1, <2>2, <2>6 DEF Inv, TypeOK, Cells
    <3> DEFINE q == Stream!NextPos(pattern_number, b.pos)
    <3>2. q \in Nat
      BY <3>1 DEF Stream!NextPos
    <3>3. output_buffer[cursor'] = Frame(pattern_number, q)
      BY <2>3, <2>6 DEF Leads
    <3>4. Frame(pattern_number, q) # Blank /\ Frame(pattern_number, q).pos = q
      BY <3>2, FrameIsCell DEF Frame, Inv, TypeOK
    <3>5. leadBar' = 0 /\ posBar' = q
      BY <2>1, <3>3, <3>4
    <3>6. port' = Stream!Frame(pattern_number, posBar)
      BY <2>1, <2>3, <2>6, <3>1 DEF Frame, Stream!Frame
    <3> QED
      BY <2>1, <3>1, <3>5, <3>6 DEF Stream!Next, Stream!EmitFrame
  <2> QED
    BY <2>5, <2>6
<1>3. CASE FillStep
  <2>1. channel => output_buffer'[cursor] = output_buffer[cursor]
    BY <1>3, FillKeepsLiveInv DEF Inv
  <2> QED
    BY <1>1, <1>3, <2>1 DEF FillStep, hardware
<1>4. CASE TimerTick \/ DmaIrqComplete \/ DmaIrqHalf \/ ClearFlags
           \/ FillReturn \/ UNCHANGED vars
  BY <1>1, <1>4 DEF TimerTick, DmaIrqComplete, DmaIrqHalf, EnterIrq,
                    ClearFlags, FillReturn, vars, hardware
<1>5. ASSUME NEW p \in Patterns, StopTimer(p)
      PROVE  UNCHANGED Stream!vars
  BY <1>1, <1>5 DEF StopTimer, MainStep
<1>6. CASE StopDma
  <2>1. channel
    BY <1>6 DEF StopDma, MainStep, Inv, RestartInv, Running
  <2> QED
    BY <1>6, <2>1 DEF StopDma, MainStep, Stream!Next, Stream!Stop
<1>7. CASE PatternSelect
  <2>1. ~channel /\ ~channel'
    BY <1>7 DEF PatternSelect, MainStep, Inv, RestartInv, Running
  <2>2. wanted \in Patterns /\ wanted <= MaxPattern
    BY DEF Inv, TypeOK, Patterns
  <2>3. Stream!Select(wanted)
    BY <1>7, <2>1, <2>2 DEF PatternSelect, MainStep, Stream!Select
  <2> QED
    BY <2>2, <2>3 DEF Stream!Next, Stream!Patterns, Patterns
<1>8. CASE StartMeasure \/ StartClear \/ StartReset \/ DmaSetup \/ TimerSetup
  <2>1. ~channel /\ ~channel'
    BY <1>8 DEF StartMeasure, StartClear, StartReset, DmaSetup, TimerSetup,
                MainStep, Inv, RestartInv, Running
  <2>2. UNCHANGED <<port, channel, pattern_number>>
    BY <1>8, <2>1 DEF StartMeasure, StartClear, StartReset, DmaSetup,
                      TimerSetup, MainStep, Inv, TypeOK
  <2>3. leadBar' = leadBar /\ posBar' = posBar
    BY <2>1
  <2> QED
    BY <1>1, <2>2, <2>3
<1>9. CASE EnableDma
  <2>1. /\ ~channel /\ channel' /\ cursor' = 0
        /\ output_buffer'[cursor'] = Blank
    BY <1>9 DEF EnableDma, MainStep, Inv, RestartInv, Running, RestartClean,
                TypeOK
  <2>2. leadBar' = leadBar /\ posBar' = posBar
    BY <2>1 DEF BufferSize
  <2> QED
    BY <1>9, <2>1, <2>2 DEF EnableDma, MainStep, Stream!Next, Stream!Start
<1>10. CASE EnableTimer
  BY <1>1, <1>10 DEF EnableTimer, MainStep
<1> QED
  BY <1>2, <1>3, <1>4, <1>5, <1>6, <1>7, <1>8, <1>9, <1>10
  DEF Next, Hardware, Handler, Restart

\* Once refills have been in time for two halves on end the port is back in the
\* stream, whatever was late, torn or forgotten before (DMA_IRQ), for all
\* periods and sizes.
THEOREM ComesBack == Spec => Resumes
<1>1. ASSUME Inv, Inv', [Next]_vars
      PROVE  [late = 0 /\ late' = 0 => Stream!Next]_(Stream!vars)
  BY <1>1, StreamStep
<1> QED
  BY <1>1, Invariance, PTL DEF Spec, Resumes

\* The port shows the blank bytes and then the frames of the selected pattern,
\* whatever their periods and the size of the buffer: the double buffer
\* implements the stream.
THEOREM TickerImplementsStream ==
  ASSUME Punctual
  PROVE  Spec => StreamSpec
<1>1. Init => Stream!Init
  BY DEF Init, Stream!Init
<1>2. Inv /\ Inv' /\ [Next]_vars /\ late = 0 /\ (late = 0)'
      => [Stream!Next]_(Stream!vars)
  BY StreamStep
<1> QED
  BY <1>1, <1>2, Invariance, NeverLate, PTL
  DEF Spec, StreamSpec, Stream!Spec
=============================================================================
