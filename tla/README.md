# Verification of stm32f103x8_pulser

The firmware turns an STM32F103 board into a pulse generator for testing
histogramming hardware: one byte per timer tick goes to eight output pins, bit 7
marks the start of a frame (the reference clock), bits 0 to 6 carry pulses of
seven channels. A front panel with eight keys, eight lamps and a display selects
the pattern, the time base and the rate.

This directory holds TLA+ models of it, TLC configurations that check them, and
proofs that TLAPS checks. Line numbers refer to the files of the repository.

## 1. The system

| Part | State it keeps | Operations | Works with |
|---|---|---|---|
| Ticker (`ticker.c`, `fill_buffer` in `pattern.c`) | `output_buffer[2][8192]`, `pattern_offset`, `timer_ticks`, TIM2, DMA1 channel 2 | `ticker_start`, `ticker_stop`, `DMA_IRQ`, `fill_buffer` | calls the selected generator; restarted by the panel |
| Time base (`ticker_start`, `timer_setup`) | – (arithmetic) | autorange, requested value, prescaler | used by the ticker, read back by the panel |
| Front panel (`ui.c`) | `selected_*`, `last_key`, lamps | `ui_check_event`, `ui_apply` | reads keys through `tm1638.c`, restarts the ticker, writes the increment of the generic pattern |
| Generators with fixed places (`pattern.c`) | static `m`, `i`, `walker`, `wcounts`, `wmask` of each | one call per frame | called by `fill_buffer` in the interrupt handler |
| Generators with an envelope (`pattern.c`) | static `ctr`, `interp`, `m`; `generic_pattern_*` | one call per frame | the generic one shares its increments with `ui_apply` |
| Main loop (`main.c`, `delay.c`) | SysTick counters | `setup`, `loop`, `delay`, `sys_tick_handler` | polls the panel every 200 ms |
| Key and display chip (`tm1638.c`) | three pins, and the chip behind them | `tm1638_init`, `tm1638_read_keys`, `tm1638_put_string`, `tm1638_set_led`, ... | used by the panel |
| Serial port (`usart.c`) | the transmitter's data register | `_write`, `usart_putchar` | `printf` of the main thread and of the interrupt handler |
| USB serial port (`usbcdc.c`, `buffer.h`; with `USE_USBCDC`) | a ring buffer for each direction | `_write`, `_read`, `idle` in three interrupts and in waits | in place of `usart.c` |
| Debugger console (`stlinky.c`; with `USE_STLINKY`) | a mailbox that a debugger empties | `_write`, `stl_putchar` | in place of `usart.c` |
| Random generators (`random.c`), lamp on the board (`led.c`), build files, host scripts | | | not part of what runs or without state |

Three actors run at once: the **hardware** (timer and DMA, which read the buffer
on their own), the **interrupt handler** (which refills the half that the DMA
has left) and the **main thread** (which polls the keys and stops, reselects and
restarts the ticker). The handler preempts the main thread; nothing is locked.

What is hard here:

* *Interleaving*: refill against DMA; an interrupt left over from before a stop
  against the restart; the first run of `generic_pattern` against `ui_apply`;
  the two stores of `ui_apply` (increment, extra increment) against a frame.
* *Order*: of the calls in `ticker_start`; of the two branches of `DMA_IRQ`.
* *Stale state*: the period of the old pattern in `ui_apply`; the rest of the
  last frame in `generic_pattern`; static variables that no restart resets.
* *Boundaries*: frames that end with a half buffer, sizes masked to eight bits,
  rounding from events to an increment and back, interpolation by addition.
* *Deadlines*: a refill must be done before the DMA ends the next half.
* *Shared output*: two threads that print through one transmitter; ring buffers
  whose writer waits by calling the function that also fills and empties them.
* *Restart*: a fault starts the program again in the middle of a transfer to the
  display chip, which keeps its state.

`PROJECT.json` lists every hazard with its line and the properties that cover it.

## 2. Modules

| Module | Models |
|---|---|
| `PulseStream` | the abstract promise at the port: blank bytes after a start, then whole frames without gap, repeat or jump; the pattern changes only while the output is off |
| `Ticker` | `ticker.c` with `fill_buffer`: timer, DMA channel, `DMA_IRQ`, the main thread's restart, one action per call that touches shared state |
| `TickerProofs` | theorems about `Ticker` |
| `TickerRate` | the arithmetic of the time base |
| `EventRate` | the arithmetic of events and increments in `ui_apply` |
| `Panel` | `ui.c`: keys, lamps, selection, `ui_apply`; extends the two above |
| `PanelProofs` | theorems about `Panel` |
| `Generators` | the ten generators with fixed places |
| `GeneratorsProofs` | theorems about `Generators` |
| `Shaped` | the five generators with an envelope, with `ui_apply` tuning the generic one |
| `ShapedProofs` | theorems about `Shaped` |
| `MainLoop` | `loop`, `delay`, `sys_tick_handler` and the rate of a held key |
| `MainLoopProofs` | theorems about `MainLoop` |
| `KeyDisplay` | the abstract promise of a display driver: a call changes the cells it is about to what it says and no others, also after restarts |
| `Tm1638` | `tm1638.c`: every call as its accesses to the pins, the chip that follows the edges, a restart between any two accesses |
| `BoundedFifo` | the abstract queue of one writer and one reader |
| `Ring` | the macro `BUFFER` of `buffer.h` |
| `RingProofs` | theorems about `Ring` |
| `UsbCdc` | `usbcdc.c` from line 234 on: `idle` in interrupts and waits, `_write`, `_read` |
| `UsbCdcProofs` | theorems about `UsbCdc` |
| `Usart` | `usart.c`: `_write` in the main thread and in the handler |
| `StLinky` | `stlinky.c` and a debugger |
| `Drivers` | the last five put together for checking; they share no state, and a behaviour follows one of them |
| `DriversProofs` | theorems about `Tm1638`, `Usart` and `StLinky`, and those about `Ring` and `UsbCdc` for the drivers put together |
| `MCTicker`, `MCPanel`, `MCGenerators`, `MCShaped`, `MCMainLoop`, `MCDrivers` | instances for TLC |

Operators marked `Mutant:` are not part of a model: each is the form a plausible
bug would give to the definition after it, and is used to see that a property
fails when the code is wrong.

### Ticker

The buffer is one circle of `2 * HalfBuffer` bytes. A byte is `Blank` (what
`memset` writes) or a record of the pattern, the position in its frame and the
reference clock bit, so that a torn or misplaced frame can be told from a right
one whatever the generator draws. `TimerTick` raises the DMA request,
`DmaTransfer` moves a byte to the port and raises the half or full transfer flag.
`DmaIrqComplete` and `DmaIrqHalf` are the tests of `DMA_IRQ` that choose a branch, and
`ClearFlags` is the clear in it and the call of `fill_buffer`: the global flag clears both
flags, so that a half which ends between the test and the clear is forgotten. `FillStep` is a
turn of the loop of `fill_buffer`, `FillReturn` the store of the new offset. The observer
`late` counts how many halves, the one at the DMA and the next, a late refill may have
spoilt; no guard reads it. The main thread has one
action per step: `StopTimer`, `StopDma` (`ticker_stop`), `PatternSelect`,
`StartMeasure`, `StartClear`, `StartReset`, `DmaSetup`, `TimerSetup`,
`EnableDma`, `EnableTimer` (`ticker_start`). While the handler runs the main
thread does not; an interrupt may stay pending for `MaxLag` steps of it.

Two assumptions are constants. `Punctual`: a refill is done before the DMA ends
the next half (half a buffer lasts at least 8 ms, a refill takes far less, except
for the first run of `generic_pattern`, which prints). `MaxLag <= 3`: an
interrupt is taken before the main thread has come from `ticker_stop` to the
`memset`; the processor needs a few cycles for it.

### Panel

`UiCheckEvent` is a poll of the keys: the branch of the selected parameter, then
the choice of a parameter and the lamps. `UiApply` limits the time base with the
period of the running pattern, turns events into an increment and restarts the
ticker if the copies differ. `GenericPattern` is the handler's run of the generic
pattern, which takes the total and raises the increment; if it is the first one it
may come in the middle of `ui_apply`. If that is before the first load of the total,
`ui_apply` computes with the new total; if it is later, some of its loads see the old and
some the new values (`RacedRates`). How fast a held key counts is left to a
choice of steps (`MainLoop` says which there are), and the text on the display is left out.

### Generators

A frame is the set of its bytes that are not zero. A behaviour follows one
generator, since they share no state. `TickerStart` may come at any time: it
empties the buffer and touches no static variable, because `fill_buffer` with no
bytes returns before the generator is called. The observer `drawn` counts the pulses of
`bin_walk` by bin and channel. `mask` stands for the mask variables
up to the place in the loop where they are shifted: `slow_reg` keeps the channel
that fired, `med_reg` and `fast_reg` the next one; the model keeps the former.

### Shaped

A step is a round of a generator's loop, that is one byte. `LinearByte` is the
code that `fast_lin`, `med_lin` and `rare_lin` share; the two `if`s on `ctr` are a
division with remainder, since the gain of a slot is smaller than the modulus.
`StoreIncrement` and `StoreExtra` are the two stores of `ui_apply`; they come
between frames because a frame is generated within one run of the handler. The
variable `late` records whether a frame began with a rest that is no smaller than
the increment now in use: it is an observer, nothing depends on it.

### MainLoop

`SysTickHandler` is the interrupt; the main loop has one action per access to what
it shares with it: `Delay` stores the counter, `DelayReturns` sees it at 0,
`ReadKeys` stops, starts or keeps the timer of the keys, `SingleStep` and
`GrowingStep` compare it with the threshold, `LoadFactor` and `Square` are the two
loads of the square. The observers `waited` and `held` count the interrupts since
the wait began and since the keys were last seen released; no guard reads them.
The interrupt comes at most once between two loads that are a few cycles apart.

### Tm1638 and KeyDisplay

Every access to a pin is an action: `SendStart`, `SendLow`, `SendBit`, `SendHigh` and
`SendEnd` are those of `sendbyte`, `ReadStart`, `PullUp`, `ReadLow`, `Sample` and `ReadHigh`
those of `readbyte`, and `Transfer` and `Close` move STB. `pc` is the place, `bytes` what the
transfer still has to send, and `next` what the call does after the transfer: `WriteMode`,
`SetBrightness` and `Clear` in `tm1638_init`, `SetLed`, a `PutChar` for every round of
`tm1638_put_string`, and `ReadKeys`, `StoreKeys` and `Release` in `tm1638_read_keys`. The
chip is external and modelled by its protocol: it shifts a bit in on the rising edge of CLK
while STB is low, takes the first byte of a transfer as a command, and hands out the keys on
the falling edge after the command to read. A text is modelled with the `glyphs` the panel
means by it, characters with or without a dot (`Spelt`). `Restart` is the fault handler: the program
begins with `tm1638_init` again, with the pins and the chip as they were. `KeyDisplay`
knows only the cells of the chip and the call; `Target` says what a call is to show.

### Ring, UsbCdc, StLinky and BoundedFifo

`put` is two actions, the store of the element and the push that waits for room, and `get`
is two, the load and the pop; writer and reader interleave in between. The mapping to
`BoundedFifo` takes the slots from the tail to the head as the queue. `StLinky` has
the same promise with a writer that eats what does not fit and a reader outside of the program.

In `UsbCdc` `idle` is a sequence of actions that runs in the thread `"isr"` or, from
the wait for a full TX buffer, in `"main"`, which stands still while an interrupt runs. The
USB device is external: a packet of any size may be there, the endpoint takes a packet
or is busy. The bytes of the host are numbered, those of the program are not told apart,
since none is ever sent (see section 5). No Makefile defines `USE_USBCDC` or
`USE_STLINKY`, and no file defines `systick_usbcdc_timeout_ctr`, so that the build with
USB would not link; its sources are taken as they are, with the counter as a free choice.

### Usart

`Wait` is the test of TXE and `Send` the store that follows, between which the handler may
come. `owed` counts characters of the main thread that were stored and are not on
the line yet. The library's buffer between `printf` and `_write` is external and left out:
the properties are about the texts that `_write` is given.

## 3. Runs

| Run | Result | What it shows |
|---|---|---|
| `ticker` (`Ticker.cfg`) | pass | `StreamSpec`: the ticker implements `PulseStream`. `NoTearing`: the DMA never reads the half being written. `RefclockRecurs`, `RestartCompletes`: a started ticker goes on, a restart ends. |
| `ticker_late` (`TickerLate.cfg`) | pass | with refills of any duration: `RestartClean`, no interrupt from before a stop survives into the new round; `Resumes`, once refills are in time again the port is back in the stream, also after a half was forgotten; `WholeFrames`, generators get whole frames only. |
| `panel` (`Panel.cfg`) | pass | `PanelInSync`, what runs is what is selected; `LampShowsParam`; `RateCopied`, wherever the first run of the generic pattern comes in `ui_apply`, the rate it leaves may be asked for and the panel's copy is the number of events made of it, or 0; `EventKeysMonotone`, `EventsKept`, what the event keys and rounding do to that number. |
| `panel_frame` (`PanelFrame.cfg`) | **violation** | frames longer than the limit after a change from a short pattern to a long one. |
| `panel_events` (`PanelEvents.cfg`) | **violation** | the first change of the time base under the generic pattern also changes the rate of events. |
| `generators` (`Generators.cfg`) | pass | `InTurn`, the rhythm and the channels go on across frames; `WholePulses`; `BinsVisited`, `bin_walk` draws every channel in every bin 1, 2, 4 ... as often as it should and ends (the 1000 frames at bin 0 stay empty, `wmask` is 0 there); `OnlySevenBits`; no byte outside a frame. |
| `binary` (`Binary.cfg`) | **violation** | `bin-ctr` draws nothing. |
| `walk_restart` (`WalkRestart.cfg`) | **violation** | the walkers are never initialised. |
| `shaped` (`Shaped.cfg`) | pass | `PulsesApart`, no channel fires in two bytes on end; `PromiseKept`, events per frame as shown; `EnvelopeReturns`, no drift; `ChannelsTakeTurns`. |
| `burst` (`Burst.cfg`) | **violation** | after a request for more events a frame pays the rest of the old increment with a burst. |
| `main_loop` (`MainLoop.cfg`) | pass | `DelayLasts`, `PollsGoOn`: waits are neither short nor endless. `StepsEarned`, `StepsGrow`: a held key steps no faster than its time allows, never slower than before until the square of its time wraps, and by one after a change of key. |
| `drivers` (`Drivers.cfg`) | pass | Display: `DisplaySpec`, the driver implements `KeyDisplay`, restarts included; `KeysRead`, every key has its own bit, those of the panel in the low byte. Buffer: `FifoSpec`, it implements `BoundedFifo`. Serial port: `MainTextWhole`, `OnlyLastLost`, which characters can be lost when the handler prints into a text of the main thread; `WriteReturns`. USB: `IsrNeverWaits`; `RxInOrder`, the program reads the bytes in the order of the host. Debugger console: `MailboxSpec`, it implements `BoundedFifo`. |

`RxInOrder` holds although `idle` is entered from two threads that both write to the RX
buffer: the main thread writes to it only from the wait for a full TX buffer, and since
nothing is ever sent that wait never ends and nothing is read after it. Whoever repairs the
one has to repair the other.

Every property of a passing run is shown to fail for a mutant of the code.

### Bounds

* `ticker`: half buffers of three bytes, frames of two and of five bytes. The frame of five
  is longer than a half and ends at every place in it, so every case of
  `fill_buffer`'s loop occurs. The state space is finite without a bound.
* `ticker_late`: half buffers of four bytes, frames of one, two and four, which divide
  the half as 256, 2048 and 8192 divide 8192.
* `panel`: time bases 4 to 40, a frame limit of 12, four patterns and a total of 100 with a least increment
  of 6, so that every rounding is met and every clamp but one, the upper limit of the
  events asked for, which is out of reach here as in the code (790 events and a step of 4095
  are less than 22222). The violations use the real
  numbers: 15 patterns with their periods, 72 cycles per microsecond, total 402944.
* `generators`: the real frames and distances; 3 and 5 events instead of 1000 at every
  place of a walker, which only counts.
* `shaped`: six slots of eight bytes, an envelope up to 7 with two peaks, three
  channels. The thresholds keep their proportion to the envelope. All phases of
  all increments are visited, which the real frame (8192 bytes, phases up to 402943) does not allow.
  With the real table a frame of the generic pattern sums up to 403028 and not to
  the total of 402944, so that for some requests one event more than the rounding
  explains comes in a frame; the small envelope shows the same, and `Promised` allows for it.

* `main_loop`: a word of 64 values, so that the square wraps from a time of 8 and
  the timer itself from 64; a threshold of 2 and a divisor of 4, so that as in the code
  the threshold comes before the first time that steps by two. A wait takes two interrupts.
* `drivers`, display: a lamp, and the one that the panel puts out while it shows no parameter
  (`selected_param` is -1, in eight bits 255, which is the last lamp), texts from the seventh digit on, of which one ends
  before the last digit and one runs beyond it, with dots at every place, and five sets of keys whose
  membership tells all 24 bits apart. Every access of every call can be the last one
  before a restart. The memory of the chip is lit in two cells when it gets power.
  Every call is made from every picture that calls and restarts leave behind.
* `drivers`, buffer and debugger console: four slots, three elements; the indices go round, both
  ends of full and empty are met.
* `drivers`, USB: four slots and packets of two bytes, so that as in the code (256 and 64) one
  packet just fits where the test lets it in, and two do not; a byte has four values, as a
  byte of the code has as many as the buffer has slots, which is what makes 256 overflow. Numbers go modulo 8, twice
  what the buffer holds. The program reads three bytes at a time and writes four
  characters (`MaxWritten`), one more than fit.
* `drivers`, serial port: texts of up to four characters, three texts of the handler, which
  prints only when a pattern runs for the first time.

### Fairness

`Ticker` assumes weak fairness of the timer, the DMA, the handler and the main
thread within a restart: the hardware runs by itself, an enabled interrupt is
taken, and the code of a restart has no wait in it. Nobody has to press a key.
`Generators` and `Shaped` assume that frames go on being requested, which is what
`RefclockRecurs` says of the ticker. `Panel` has no liveness property.
`MainLoop` assumes weak fairness of the interrupt, which a timer raises, and of the
main loop, which waits for nothing but that interrupt.
`Usart` assumes a transmitter that runs by itself
and threads that go on, the main thread when the handler has returned (strong fairness,
since every interrupt stops it for a while). `Ring`, `UsbCdc`, `StLinky` and `Tm1638` have no liveness property and no fairness.

## 4. Proofs

`TickerProofs`, for every size of the buffer and every set of periods:

* `TypeCorrect`: `Spec => []TypeOK`.
* `RestartsAreClean`: `Spec => []RestartClean`, from `MaxLag <= 3`, whatever the
  refills' timing. The invariant counts how far the main thread can have come
  with an interrupt pending: a flag raised before `StopDma` is taken and handled
  before the `memset`.
* `FramesAreWhole`: `Spec => []WholeFrames`, if all periods divide the half buffer.
* `NoTearingEver`: `Spec => []NoTearing`, if refills are in time.
* `ComesBack`: `Spec => Resumes`, whatever the refills' timing.
* `TickerImplementsStream`: `Spec => StreamSpec`, if refills are in time.

The last three rest on the inductive invariant `Inv`, the conjunction of `TypeOK`,
`RestartInv` and `LiveInv`. The properties are not inductive: that the port goes
on with the next byte of the frame when the DMA comes to a new half depends on
what the handler wrote half a buffer earlier, from an offset it had stored before
that. `LiveInv` says it of every state: `Turns`, whose turn it is to write which
half, and `Sequence`, that from the cursor to the frontier (the place up to which
the buffer is filled) every byte is the successor of the one before, and that the
offset of the next call continues after the last of them. They are claimed
while `late` is less than 2, for the places that are `Ahead`: what is written of the half whose
turn it is, and, if the DMA's half was not spoilt either (`late = 0`), the rest of that one. A half
that ends before the other is refilled, a forgotten one included, makes `late` 2 and takes the
claims away; the first half that ends in time gives them back, since the handler is then at rest
with an offset that fits no matter what is in the buffer, and the second puts the port back in the
stream. With refills in time `late` stays 0 (`NeverLate`). Each action then keeps
it for a reason of its own (`TransferKeepsLiveInv`, `EnterKeepsLiveInv`,
`ClearKeepsLiveInv`, `FillKeepsLiveInv`, `ReturnKeepsLiveInv`). TLC checked `Inv` before it was proved.

`PanelProofs`: `PanelStaysInSync`, `Spec => [](TypeOK /\ PanelInSync)`, for every
set of periods, limits and keys, under `RateAssumption`: a time base short enough
for the frame limit needs no prescaler. That is what makes the rounding of
`timer_setup` never happen and the comparison in `ui_apply` come to rest. Also:

* `TypeCorrect`, and `LampIsLit`: `Spec => []LampShowsParam`, for keys pressed together too.
* `RateIsCopied`: `Spec => []RateCopied`; `RacedRate` computes what each interleaving of the
  handler's first run leaves, `CopyInv` that it stays so.
* `EventsStay`: `Spec => EventsKept`, and `EventKeysWork`: `Spec => EventKeysMonotone`. Both
  rest on `RateInv`: once the total is known, the increment is 0 or one that `ui_apply` could
  have chosen, between the least one and the total. The lemmas `SameWanted`, `FewerWanted` and
  `MoreWanted` say what the division into an increment and the division back do to a number
  of events. `EventsAssumption` asks that the increment at boot is no greater than the total
  (8058 of 402944) and that the keys can ask for all the events the least increment makes (790
  of 22222); without the second, NEXT would take events away at its limit.

`ShapedProofs`, for every table of gains, every number of slots and channels:

* `TypeCorrect` and `EnvelopeComesBack` (`Spec => []EnvelopeReturns`): the interpolation by
  addition ends a frame where it began. The invariant is a line: at the given place of a slot,
  `LinearBase * (cenv - Env[slot]) + ctr` is the start of the slot plus the place times the
  difference of its two gains. It needs from the table that it begins with 0, that a slot is one
  byte longer than the modulus, that no gain is greater than the modulus, and that no slot
  falls from there to 0 (`TableAssumption`).
* `EveryPulseEnds`: `Spec => []PulsesApart`. The invariant `PulseInv` bounds what `interp` can
  still hold after a byte: with `fast_lin` less than a threshold, and together with the pulses
  of the byte no more than a threshold and one envelope value (`TurnsInv`); after a pulse of the
  generic pattern less than one envelope value (`GenericInv`). From `ApartAssumption`: the
  thresholds of all channels together are at least twice the greatest step, and the least
  increment is at least twice the greatest envelope value. The code's 77 (seven of which
  are 539, of 512) and 510 (of 510) are just enough.

* `FramesKeepPromise`: `Spec => PromiseKept`. `FrameInv` keeps the account of a frame: the rest in
  `interp` and an increment for every pulse are the rest the frame began with, the extra increment
  and `Sums[pos]`, what the envelope has come to. `Sums` is a recursive function; that it exists
  and follows its equation is proved with a least counterexample (`SumsExist`, `SumsAddUp`). That the byte at
  `pos` really adds `Value(pos)` follows from the line of the envelope invariant (`ByteValue`).
  `SumAssumption` asks that a whole frame sums up to no less than `total`, and to less than one least
  increment more. Only rounding makes the difference, which is 84 with the table of the code (403028
  against 402944, where 510 are allowed). TLC evaluates the assumption on the small table, where the
  two also differ. With rests smaller than an increment on both sides, `PulsesCounted` leaves
  the events of the division and up to two more.

`GeneratorsProofs`, for every length of the frames, gap and walk:

* `TypeCorrect` and `BitSevenIsFree` (`Spec => []OnlySevenBits`).
* `PulsesAreWhole` (`Spec => []WholePulses`): the bytes of the walker's pulses are counted; they are
  three for every pulse, since a pulse is not longer than a step and a walker that has gone
  furthest still ends a step before the next pulse begins.
* `RhythmGoesOn` (`Spec => InTurn`).

`InTurn` relates two frames, so the invariant `Inv` has to say what the static variables remember of the
last one: `InStep`, that the last pulse of the frame was on the channel in `mask` and that `count` bytes of
its gap are left after the end of the frame, and `StaticsInv`, that `mask` is a channel and that the
walker is a multiple of its step below its distance. `PlacesAssumption` and `StepAssumption`
are what the table of patterns gives: frames of at least 8 and 4 bytes for the two
patterns with fixed places, whole multiples of 256 for `bin-ctr`, a step of at least three
bytes that divides the walker's distance, which divides the frame.

`MainLoopProofs`, for every delay, threshold, divisor, word and set of keys:
`TypeCorrect`, `DelaysLast` (`Spec => []DelayLasts`), `StepsAreEarned`
(`Spec => []StepsEarned`) and `StepsKeepGrowing` (`Spec => StepsGrow`, which claims growth
only as long as the square of the held time fits its word). The invariant adds
`TimerInv`: the timer, and what the
main loop has loaded from it, never run ahead of `held`, and without a key the timer
stands. The wrap of the square only takes away (`ProductBounded`). For `StepsKeepGrowing` it
adds `GrowInv`: as long as the square fits the word, an increment greater than one was made of
a time that the timer has passed since.

`RingProofs`, for every size and every set of elements: `TypeCorrect` and
`RingImplementsFifo` (`RingSpec => FifoSpec`). The mapping of the indices onto a queue needs
that the slots between tail and head are exactly the queue (`PushAppends` and `PopTakesHead`),
and the invariant adds that an element is stored in the free slot while
the writer waits, and that the reader holds the oldest one.

`UsbCdcProofs`, for every size of the buffers and of a packet, from the hypothesis `Sane`
(the sizes are natural numbers, those that are divided by or waited for are not 0):

* `TypeCorrect`.
* `IsrFindsRoom`: the interrupt handler never waits for a full RX buffer. `RoomInv` says that
  the room its test saw is still there at every byte it stores, because the main thread
  stands still meanwhile and a wait of the main thread takes nothing out.
* `ReadInOrder`: the program reads the bytes in the order in which the host sent them.
  `OrderInv` follows the numbers from the buffer over the packet in hand to the host's next one;
  it needs `TxInv`, that nothing is ever sent: the one case in which two threads could
  mix their packets is the one in which the main thread never comes back.

`DriversProofs`, whose theorems are about `DriversSpec`, the specification that the run
`drivers` checks:

* of the display driver, for every font, every set of calls of the kinds `IsCall` names and
  every content of the chip when it gets power: `ChipTypeCorrect`, `ShowsWhatIsCalled`
  (`DriversSpec => DisplaySpec`, the refinement of `KeyDisplay`) and `EveryKeyRead`. The
  promise speaks of whole calls and a step is one edge of a line, so `ChipInv` has to say at
  every place what the chip has made of the edges so far: `PinsInv` what the lines are,
  `ByteInv` that the chip holds the lower bits of the byte on its way, `CommandInv` and
  `DataInv` that the byte is a command in its place or data for a cell the call wants it in
  (`Wanted`), `WritingInv` that the chip takes data unless the command for it is still to come,
  which is what a restart in the middle of reading the keys puts at risk. `ShownInv` is the
  part that reaches across transfers: every cell of the call is right already, is coming with
  this transfer (`Coming`) or with one after it (`Later`); at the return both are empty.
  `CursorInv` ties the pointer into the text to the character the panel means, and
  `KeysInv` does for the bits that are read what `ByteInv` does for those sent.
* of the serial port, for texts of every length and any number of them: `MainTextArrives`
  (`DriversSpec => []MainTextWhole`) and `LossIsBounded` (`DriversSpec => OnlyLastLost`).
  The invariant says what can be in the data register at each place of the two threads: a main
  thread about to store has seen the register empty, so that what it finds there now is the
  end of a text of the handler.
* of the buffer: `BufferIsQueue`, from the theorems of `RingProofs`.
* of the debugger console, for every size of the buffer and every set of characters:
  `DebuggerReadsInOrder` (`DriversSpec => MailboxSpec`). Its buffer is a ring, and the
  lemmas of `RingProofs` are used for it through an instance. `MailboxInv` says that the place after the
  head stays free from the test to the store of the head, because the debugger can only
  make more room.
* of the USB port: `IsrFindsRoom` and `ReadInOrder`. A behaviour of `Drivers` that follows the
  USB port is one of `UsbCdc`, another keeps its state; `Sane` follows from the assumptions
  of `Drivers`.
* `TypesCorrect`: the types of the drivers besides the display's.

With these every invariant and every action property of the passing runs is a theorem. Only
model-checked is all liveness: `RefclockRecurs`, `RestartCompletes`, `BinsVisited`,
`ChannelsTakeTurns`, `PollsGoOn` and `WriteReturns`, which is outside the
prover's reach.

## 5. Findings

1. `ui.c:94` limits the time base with the period of the *old* pattern (`panel_frame`).
2. `ui.c:112` computes with a total of 0 until the generic pattern has run (`panel_events`).
3. `pattern.c:223` masks the size 256 to 0: `bin-ctr` draws nothing (`binary`).
4. `pattern.c:122` returns before the generators' "re-init" (`walk_restart`).
5. `pattern.c:620` keeps the rest of the old increment (`burst`).

Seen while modelling, without a run of their own: `stupid 2` repeats every 26
frames, its comment says 32 (`pattern.c:181`); the generic pattern makes at most
790 events per frame, its comment says 8192 (`pattern.c:88`); the extra increment is
decided from the total, which is not the sum of a frame, and no increment the panel
can store divides that sum, so it is not needed; pressing several parameter keys
leaves lamps lit; NEXT is accepted up to 222222 events and clamped to 22222, neither of which can
be reached from 790 with steps of up to 4095; the
square of a held key's time wraps after 65.5 s, and the steps start again from one
(`ui.c:169`, which is why `StepsGrow` asks for `SquareFits`).

In the drivers: with the TX tail at 0 the number of bytes to send, 256 minus the tail, is
stored in eight bits as 0, so that with USB nothing is ever sent (`usbcdc.c:282`; the comment at
line 275 says the buffer is emptied), and once it is full a print waits for ever
(`buffer.h:67`); `idle` writes to the RX buffer from the main thread and from interrupts
(`usbcdc.c:252,269`), although `buffer.h:8-10` asks for one writer; `_read` returns -1 for
`len` bytes it has read (`usbcdc.c:370`), `_write` of the serial port -1 for a text it has
written (`usart.c:74`); the debugger console is not safe for two printing threads
(`stlinky.c:68-74`); the font has 95 characters, the test `c < 128` also lets the character 127
through (`tm1638.c:164`).

## 6. Not modelled

The clock of seconds; the random generators, which no pattern uses; the lamp on the
board; the texts of the panel and most of the font; `usbcdc_init`, the control requests and the
descriptors of the USB port, which are data for the USB library; build files and host
scripts. The handler as a third thread of the USB port, and a second printing thread of the
debugger console, which would take back characters of the first (`stlinky.c:68-74`). The
time a refill takes is an assumption. After a fault the pins and the display chip are as
they were, which `Tm1638` models; what timer, DMA and interrupts do inside the fault's
handler is a matter of the processor.

## 7. Plan

In this order:

1. `Ticker`, `PulseStream` and their proofs – done.
2. `Panel` with `TickerRate` and `EventRate`, and the proof that the panel is in sync – done.
3. `Generators`, `Shaped` – done, with proofs of all their safety properties, and the
   proofs of the events for `Panel`.
4. `MainLoop` and its proofs – done.
5. `BoundedFifo` and `Ring`, `UsbCdc`, both with proofs, `StLinky` – done.
6. `KeyDisplay` and `Tm1638`, with the proof of the refinement – done.
7. `Usart` and its proofs – done.
8. `System`: `Panel` and `Ticker` composed, the panel's restart refined into the
   ticker's steps.
