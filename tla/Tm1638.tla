------------------------------- MODULE Tm1638 -------------------------------
(***************************************************************************)
(* tm1638.c: the driver of the chip with the digits, the lamps and the     *)
(* keys.  A step is an access to one of three pins or a statement without  *)
(* one; the chip, which is external, follows the edges.  The program may   *)
(* start again between any two accesses (main.c:55), and nothing resets    *)
(* the chip then.                                                          *)
(***************************************************************************)
EXTENDS Integers, Sequences

CONSTANTS
  LED_FONT,      \* the segments of a character
  Calls,         \* the calls the program makes
  PowerOnCells   \* what the memory of the chip holds when it gets power

Bytes == 0 .. 255

Weights == <<1, 2, 4, 8, 16, 32, 64, 128>>

Bit(byte, k) == (byte \div Weights[k + 1]) % 2

\* The places of the memory of the chip; 16 is its display control.
Cells == 0 .. 16

\* '.' and ',' light the dot of the character before them.
DotAt(text, k) == k <= Len(text) /\ text[k] \in {".", ","}

Width(glyph) == IF glyph.dot THEN 2 ELSE 1

\* The text is that of characters with or without a dot, one after the other:
\* the place of each of them is that of a function.
Spelt(text, glyphs, start) ==
  /\ start \in [1 .. Len(glyphs) + 1 -> 1 .. Len(text) + 1]
  /\ start[1] = 1
  /\ start[Len(glyphs) + 1] = Len(text) + 1
  /\ \A g \in 1 .. Len(glyphs) :
       /\ start[g + 1] = start[g] + Width(glyphs[g])
       /\ text[start[g]] = glyphs[g].char
       /\ glyphs[g].dot = DotAt(text, start[g] + 1)

IsCall(c) ==
  \/ c.op = "led" /\ {c.pos, c.color} \subseteq Bytes
  \/ c.op = "keys" /\ c.held \subseteq (0 .. 2) \X (0 .. 7)
  \/ /\ c.op = "string"
     /\ c.pos \in Bytes
     /\ c.text \in Seq(STRING)
     /\ c.glyphs \in Seq([char : DOMAIN LED_FONT, dot : BOOLEAN])
     /\ \E start \in [1 .. Len(c.glyphs) + 1 -> 1 .. Len(c.text) + 1] :
          Spelt(c.text, c.glyphs, start)

ASSUME FontAssumption == LED_FONT \in [DOMAIN LED_FONT -> Bytes]
ASSUME CallsAssumption == \A c \in Calls : IsCall(c)
ASSUME CellsAssumption == PowerOnCells \subseteq [Cells -> Bytes]

None == [op |-> "none"]

FirstCall == [op |-> "init"]

VARIABLES
  call,      \* the call that is running
  pc,        \* where it is
  next,      \* where it goes on after the transfer
  bytes,     \* what the transfer still has to send, the byte on its way first
  i,         \* sendbyte and readbyte: the bit
  read,      \* readbyte: the bits of result
  n,         \* tm1638_read_keys: bytes read
  result,    \* tm1638_read_keys: the bits of result
  pos, s,    \* tm1638_put_string
  stb, clk, dio, mode,   \* output latches, and the direction of DIO
  chip

pins == <<stb, clk, dio, mode>>
reading == <<read, n, result>>
cursor == <<pos, s>>

vars == <<call, pc, next, bytes, i, reading, cursor, pins, chip>>

-----------------------------------------------------------------------------
(* The chip (external): shifts bits in on the rising edge of CLK and out on *)
(* the falling one while STB is low; the first byte of a transfer is a      *)
(* command.                                                                 *)

Chips == [cells : [Cells -> Bytes], phase : {"idle", "command", "data", "read"},
          in : Bytes, bits : 0 .. 7, out : 0 .. 32, level : 0 .. 1,
          address : 0 .. 15, writing : BOOLEAN]

HeldKeys == IF call.op = "keys" THEN call.held ELSE {}

\* The keys as the chip hands them out: bit i of byte n is key n of line i, and
\* bit i + 4 the one four further on.
KeyBit(k) ==
  LET bit == k % 8
  IN  IF <<bit % 4, (k \div 8) + 4 * (bit \div 4)>> \in HeldKeys THEN 1 ELSE 0

Command(byte) ==
  CASE byte \div 64 = 1 /\ (byte \div 2) % 2 = 1 ->
         [chip EXCEPT !.phase = "read", !.writing = FALSE, !.out = 0]
    [] byte \div 64 = 1 /\ (byte \div 2) % 2 = 0 ->
         [chip EXCEPT !.phase = "idle", !.writing = TRUE]
    [] byte \div 64 = 2 ->
         [chip EXCEPT !.phase = "idle", !.cells[16] = byte % 16]
    [] byte \div 64 = 3 ->
         [chip EXCEPT !.phase = "data", !.address = byte % 16]
    [] OTHER -> [chip EXCEPT !.phase = "idle"]

Data(byte) ==
  IF chip.writing
  THEN [chip EXCEPT !.cells[chip.address] = byte,
                    !.address = (chip.address + 1) % 16]
  ELSE chip

RisingClk(bit) ==
  LET byte == chip.in + bit * Weights[chip.bits + 1]
  IN  IF chip.phase \notin {"command", "data"} THEN chip
      ELSE IF chip.bits < 7
      THEN [chip EXCEPT !.in = byte, !.bits = chip.bits + 1]
      ELSE [(IF chip.phase = "command" THEN Command(byte) ELSE Data(byte))
              EXCEPT !.in = 0, !.bits = 0]

FallingClk ==
  IF chip.phase = "read" /\ chip.out < 32
  THEN [chip EXCEPT !.level = KeyBit(chip.out), !.out = chip.out + 1]
  ELSE chip

RisingStb ==
  [chip EXCEPT !.phase = "idle", !.in = 0, !.bits = 0, !.out = 0, !.level = 1]

FallingStb == [chip EXCEPT !.phase = "command"]

\* Open drain with a pull-up: whoever pulls the line low wins.
Line == IF mode = "output" /\ dio = 0 THEN 0 ELSE chip.level

-----------------------------------------------------------------------------
(* The pins. *)

SetStb(v) ==
  /\ stb' = v
  /\ chip' = IF v = stb THEN chip ELSE IF v = 1 THEN RisingStb ELSE FallingStb
  /\ UNCHANGED <<clk, dio, mode>>

SetClk(v) ==
  /\ clk' = v
  /\ chip' = IF v = clk THEN chip ELSE IF v = 1 THEN RisingClk(Line)
             ELSE FallingClk
  /\ UNCHANGED <<stb, dio, mode>>

SetDio(v) == dio' = v /\ UNCHANGED <<stb, clk, mode, chip>>

SetMode(m) == mode' = m /\ UNCHANGED <<stb, clk, dio, chip>>

Go(from, to) == pc = from /\ pc' = to /\ UNCHANGED call

-----------------------------------------------------------------------------
(* sendbyte and readbyte. *)

SendStart ==
  /\ Go("send", "low")
  /\ SetDio(1)
  /\ i' = 0
  /\ UNCHANGED <<next, bytes, reading, cursor>>

SendLow ==
  /\ Go("low", "bit")
  /\ SetClk(0)
  /\ UNCHANGED <<next, bytes, i, reading, cursor>>

SendBit ==
  /\ Go("bit", "high")
  /\ SetDio(Bit(Head(bytes), i))
  /\ UNCHANGED <<next, bytes, i, reading, cursor>>

SendHigh ==
  /\ Go("high", IF i < 7 THEN "low" ELSE "sent")
  /\ SetClk(1)
  /\ i' = i + 1
  /\ bytes' = IF i < 7 THEN bytes ELSE Tail(bytes)
  /\ UNCHANGED <<next, reading, cursor>>

\* The end of sendbyte, and what follows it: the next byte, the keys or the end
\* of the transfer.
SendEnd ==
  /\ Go("sent", IF bytes # <<>> THEN "send"
                ELSE IF next = "read" THEN "input" ELSE "close")
  /\ SetDio(1)
  /\ UNCHANGED <<next, bytes, i, reading, cursor>>

ReadStart ==
  /\ Go("input", "pullup")
  /\ SetMode("input")
  /\ read' = {}
  /\ i' = 0
  /\ UNCHANGED <<next, bytes, n, result, cursor>>

PullUp ==
  /\ Go("pullup", "fall")
  /\ SetDio(1)
  /\ UNCHANGED <<next, bytes, i, reading, cursor>>

ReadLow ==
  /\ Go("fall", "sample")
  /\ SetClk(0)
  /\ UNCHANGED <<next, bytes, i, reading, cursor>>

\* The bits come in from the left, the first one ends up lowest.
Sample ==
  /\ Go("sample", "rise")
  /\ read' = {k - 1 : k \in read \ {0}} \cup (IF Line = 1 THEN {7} ELSE {})
  /\ UNCHANGED <<next, bytes, i, n, result, cursor, pins, chip>>

ReadHigh ==
  /\ Go("rise", IF i < 7 THEN "fall" ELSE "keys")
  /\ SetClk(1)
  /\ i' = i + 1
  /\ UNCHANGED <<next, bytes, reading, cursor>>

-----------------------------------------------------------------------------
(* The interface. *)

Transfer(message, then) ==
  /\ pc = "call"
  /\ SetStb(0)
  /\ pc' = "send"
  /\ bytes' = message
  /\ next' = then
  /\ UNCHANGED <<call, i, reading>>

Close ==
  /\ Go("close", "call")
  /\ SetStb(1)
  /\ UNCHANGED <<next, bytes, i, reading, cursor>>

InitPort ==
  /\ Go("output", "lines")
  /\ SetMode("output")
  /\ UNCHANGED <<next, bytes, i, reading, cursor>>

\* Mutant: the clock goes up while the chip may still be in a transfer.
ClockFirst(first) == IF first THEN SetClk(1) ELSE SetStb(1)

IdleLines(first) == IF first THEN SetStb(1) ELSE SetClk(1)

InitLines ==
  /\ \/ Go("lines", "lines2") /\ IdleLines(TRUE)
     \/ Go("lines2", "call") /\ IdleLines(FALSE)
  /\ UNCHANGED <<next, bytes, i, reading, cursor>>

\* The command to write, in tm1638_init and at the end of tm1638_read_keys.
WriteMode ==
  /\ next = "write"
  /\ Transfer(<<64>>, IF call.op = "init" THEN "brightness" ELSE "return")
  /\ UNCHANGED cursor

Brightness(level) == IF level = 0 THEN 128 ELSE 136 + ((level - 1) % 8)

SetBrightness ==
  /\ next = "brightness"
  /\ Transfer(<<Brightness(8)>>, "clear")
  /\ UNCHANGED cursor

\* The clear command starts at the first cell, whatever was written last.
Clear ==
  /\ next = "clear"
  /\ Transfer([k \in 1 .. 17 |-> IF k = 1 THEN 192 ELSE 0], "return")
  /\ UNCHANGED cursor

SetLed ==
  /\ next = "led"
  /\ Transfer(<<193 + 2 * (call.pos % 8), call.color>>, "return")
  /\ UNCHANGED cursor

WithDot(pattern) == IF pattern < 128 THEN pattern + 128 ELSE pattern

Pattern(char, dot) == IF dot THEN WithDot(LED_FONT[char]) ELSE LED_FONT[char]

MoreText == pos < 8 /\ s <= Len(call.text)

\* A round of tm1638_put_string, with tm1638_set_raw_digit.
PutChar ==
  LET dot == DotAt(call.text, s + 1)
  IN  /\ next = "string"
      /\ MoreText
      /\ Transfer(<<192 + 2 * (pos % 8), Pattern(call.text[s], dot)>>, "string")
      /\ pos' = pos + 1
      /\ s' = s + (IF dot THEN 2 ELSE 1)

ReadKeys ==
  /\ next = "keys"
  /\ Transfer(<<66>>, "read")
  /\ UNCHANGED cursor

\* Mutant: the keys of the second half of a byte go next to those of the first.
PlaceAdjacent(k) == IF k < 4 THEN 8 * k ELSE 8 * (k - 4) + 1

\* Mutant: one zero too many in the second three masks.
PlaceTooFar(k) == IF k < 4 THEN 8 * k ELSE 8 * (k - 4) + 8

\* Where bit k of the first byte goes in the result.
Place(k) == IF k < 4 THEN 8 * k ELSE 8 * (k - 4) + 4

StoreKeys ==
  /\ Go("keys", IF n < 3 THEN "input" ELSE "release")
  /\ result' = result \cup {Place(k) + n : k \in read \ {3, 7}}
  /\ n' = n + 1
  /\ UNCHANGED <<next, bytes, i, read, cursor, pins, chip>>

Release ==
  /\ Go("release", "close")
  /\ SetMode("output")
  /\ next' = "write"
  /\ UNCHANGED <<bytes, i, reading, cursor>>

\* The values of the variables end with the call.
Locals ==
  i' = 0 /\ read' = {} /\ n' = 0 /\ result' = {} /\ pos' = 0 /\ s' = 1

Begin(c) ==
  /\ call = None
  /\ call' = c
  /\ next' = c.op
  /\ pos' = IF c.op = "string" THEN c.pos ELSE 0
  /\ UNCHANGED <<pc, bytes, i, reading, s, pins, chip>>

Return ==
  /\ pc = "call"
  /\ next = "return" \/ (next = "string" /\ ~MoreText)
  /\ call' = None
  /\ next' = "none"
  /\ Locals
  /\ UNCHANGED <<pc, bytes, pins, chip>>

\* A fault calls the reset handler: the pins stay as they are.
Restart ==
  /\ call' = FirstCall
  /\ pc' = "output"
  /\ next' = "write"
  /\ bytes' = <<>>
  /\ Locals
  /\ UNCHANGED <<pins, chip>>

\* The latches are low after a reset, so the first access pulls STB down.
Init ==
  /\ call = FirstCall
  /\ pc = "output"
  /\ next = "write"
  /\ bytes = <<>>
  /\ i = 0 /\ read = {} /\ n = 0 /\ result = {} /\ pos = 0 /\ s = 1
  /\ stb = 0
  /\ clk = 0
  /\ dio = 0
  /\ mode = "output"
  /\ chip \in [cells : PowerOnCells, phase : {"command"}, in : {0}, bits : {0},
               out : {0}, level : {1}, address : {0}, writing : BOOLEAN]

Send == SendStart \/ SendLow \/ SendBit \/ SendHigh \/ SendEnd

ReadBit == ReadStart \/ PullUp \/ ReadLow \/ Sample \/ ReadHigh

Initialise == InitPort \/ InitLines \/ WriteMode \/ SetBrightness \/ Clear

Next ==
  \/ Send \/ ReadBit \/ Initialise \/ Close
  \/ SetLed \/ PutChar \/ ReadKeys \/ StoreKeys \/ Release
  \/ \E c \in Calls : Begin(c)
  \/ Return
  \/ Restart

Spec == Init /\ [][Next]_vars
-----------------------------------------------------------------------------
Places ==
  {"output", "lines", "lines2", "call", "send", "low", "bit", "high", "sent",
   "close", "input", "pullup", "fall", "sample", "rise", "keys", "release"}

TypeOK ==
  /\ call \in Calls \cup {FirstCall, None}
  /\ pc \in Places
  /\ next \in {"write", "brightness", "clear", "led", "string", "keys", "read",
               "return", "none"}
  /\ bytes \in Seq(Bytes)
  /\ i \in 0 .. 8
  /\ read \subseteq 0 .. 7 /\ n \in 0 .. 4 /\ result \subseteq 0 .. 23
  /\ pos \in Bytes /\ s \in Nat
  /\ pins \in (0 .. 1) \X (0 .. 1) \X (0 .. 1) \X {"input", "output"}
  /\ chip \in Chips

\* What the calls are to show (ui.c:184-298 and tm1638.h:32-38), as cells of the
\* chip: digit pos has the cell 2 pos, lamp pos the one after it, and cell 16 is
\* the brightness.
Digits(first, glyphs) ==
  [cell \in {2 * (first + k - 1) : k \in 1 .. Len(glyphs)} \cap (0 .. 15) |->
     LET glyph == glyphs[(cell \div 2) - first + 1]
     IN  Pattern(glyph.char, glyph.dot)]

Target(c) ==
  CASE c.op = "init"   -> [cell \in Cells |-> IF cell = 16 THEN 15 ELSE 0]
    [] c.op = "led"    -> [cell \in {2 * (c.pos % 8) + 1} |-> c.color]
    [] c.op = "string" -> Digits(c.pos, c.glyphs)
    [] c.op = "keys"   -> [cell \in {} |-> 0]

\* Every call does what the panel expects of it, and nothing else is ever seen.
Display == INSTANCE KeyDisplay WITH cells <- chip.cells

DisplaySpec == Display!Spec

\* read_keys gives every key its own bit: line times eight plus the number of
\* the key, so that the first line is the low byte, all that ui_poll takes
\* (tm1638.c:188-217, ui.c:156).
KeysRead ==
  [][call.op = "keys" /\ call' = None =>
       result = {8 * k[1] + k[2] : k \in call.held}]_vars
=============================================================================
