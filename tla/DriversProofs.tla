--------------------------- MODULE DriversProofs ---------------------------
(***************************************************************************)
(* Theorems about the drivers put together.  Of the chip of the panel, for *)
(* every font, every call and whatever the chip held when it got power:    *)
(* it shows what it is told and its keys are read.  Of the serial port,    *)
(* for texts of any length and any number of texts of the handler: nothing *)
(* the main thread prints is lost, and of a text of the handler at most    *)
(* its last character.  Of the debugger console, for a buffer of any size: *)
(* it hands on what was not eaten, in its order.  What RingProofs and      *)
(* UsbCdcProofs prove holds for the drivers put together, too.             *)
(***************************************************************************)
EXTENDS Drivers, RingProofs

(***************************************************************************)
(* The chip of the panel: the parts of its invariant.                      *)
(***************************************************************************)

\* Where a byte is on its way, and where the program is in a transfer.
Sending == {"send", "low", "bit", "high"}
InTransfer == Sending \cup {"sent"}
Sampling == {"pullup", "fall", "sample", "rise", "keys", "release"}
Starting == {"output", "lines", "lines2"}

\* Where a call can go on.
StageInv ==
  /\ call.op = "none" => next = "none"
  /\ call.op = "init" => next \in {"write", "brightness", "clear", "return"}
  /\ call.op = "led" => next \in {"led", "return"}
  /\ call.op = "string" => next = "string"
  /\ call.op = "keys" => next \in {"keys", "read", "write", "return"}
  /\ pc \in Starting => call.op = "init" /\ next = "write"
  /\ pc \in InTransfer => next \in {"brightness", "clear", "string", "read", "return"}
  /\ pc \in Sampling \cup {"input"} => next = "read"
  /\ pc = "close" => next \notin {"none", "read", "keys", "led"}
  /\ pc = "call" => next # "read"

\* What the lines are at every place, and that a chip that is not selected waits.
PinsInv ==
  /\ stb = 1 => chip.phase = "idle" /\ chip.bits = 0 /\ chip.in = 0 /\ chip.level = 1
  /\ stb = IF pc \in {"call", "lines2"} THEN 1 ELSE IF pc \in Starting THEN stb ELSE 0
  /\ clk = IF pc \in {"bit", "high", "sample", "rise"} THEN 0
           ELSE IF pc \in Starting THEN clk ELSE 1
  /\ mode = IF pc \in Sampling THEN "input"
            ELSE IF pc \in {"output", "input"} THEN mode ELSE "output"

\* The chip has the lower bits of the byte on its way.
ByteInv ==
  /\ pc \notin InTransfer => bytes = <<>>
  /\ pc \in InTransfer => chip.level = 1
  /\ pc \in Sending => bytes # <<>> /\ chip.phase \in {"command", "data"}
  /\ pc \in {"send", "sent"} => chip.bits = 0 /\ chip.in = 0
  /\ pc \in {"low", "bit", "high"} => /\ i < 8 /\ chip.bits = i
                                      /\ chip.in = Head(bytes) % Weights[i + 1]
  /\ pc = "high" => dio = Bit(Head(bytes), i)
  /\ pc = "sent" => IF bytes = <<>> THEN chip.phase # "command" ELSE chip.phase = "data"

\* Bytes that the chip puts into the cells from first on, as the call wants them.
Wanted(new, first, rest) ==
  /\ first + Len(rest) <= 16
  /\ \A k \in 1 .. Len(rest) : /\ first + (k - 1) \in DOMAIN Target(new)
                               /\ Target(new)[first + (k - 1)] = rest[k]

CommandInv ==
  pc \in Sending /\ chip.phase = "command" =>
    \/ bytes = <<64>> /\ next \in {"brightness", "return"}
    \/ bytes = <<143>> /\ next = "clear"
    \/ bytes = <<66>> /\ next = "read"
    \/ /\ Head(bytes) \in 192 .. 207
       /\ next \in {"return", "string"}
       /\ chip.writing
       /\ Wanted(call, Head(bytes) % 16, Tail(bytes))

DataInv ==
  pc \in InTransfer /\ chip.phase = "data" =>
    /\ next \in {"return", "string"}
    /\ chip.writing
    /\ Wanted(call, chip.address, bytes)

\* The chip takes data, except between the command to read and the next to write.
WritingInv ==
  \/ chip.writing
  \/ next \in {"write", "read"}
  \/ pc \in Sending /\ chip.phase = "command" /\ bytes = <<64>>

\* The cells that the transfer still brings, and those of the transfers after it.
Coming ==
  IF pc \in InTransfer /\ chip.phase = "data"
  THEN chip.address .. chip.address + Len(bytes) - 1
  ELSE IF pc \in Sending /\ chip.phase = "command" /\ Head(bytes) = 143 THEN {16}
  ELSE IF pc \in Sending /\ chip.phase = "command" /\ Head(bytes) >= 192
  THEN Head(bytes) % 16 .. (Head(bytes) % 16) + Len(bytes) - 2
  ELSE {}

Later ==
  {cell \in Cells :
     \/ next \in {"write", "brightness", "led"}
     \/ next = "clear" /\ cell < 16
     \/ next = "string" /\ cell >= 2 * pos}

ShownInv ==
  call # None =>
    \A cell \in DOMAIN Target(call) \ (Coming \cup Later) :
      chip.cells[cell] = Target(call)[cell]

\* The next character of a text is one of those that the panel means.
CursorInv ==
  /\ call = None => s = 1
  /\ call.op = "string" =>
       \E start \in [1 .. Len(call.glyphs) + 1 -> 1 .. Len(call.text) + 1] :
         /\ Spelt(call.text, call.glyphs, start)
         /\ \E g \in 1 .. Len(call.glyphs) + 1 : pos = call.pos + g - 1 /\ s = start[g]

\* The last bits of the byte in hand, and the keys of the bytes before it.
BitsRead(j) == {k \in 8 - j .. 7 : KeyBit(8 * n + (k + j - 8)) = 1}

KeysOf(count) == {8 * k[1] + k[2] : k \in {h \in HeldKeys : h[2] % 4 < count}}

KeysInv ==
  /\ call = None => n = 0 /\ result = {}
  /\ next = "keys" \/ (next = "read" /\ pc \in InTransfer) => n = 0 /\ result = {}
  /\ next = "read" /\ pc = "sent" => bytes = <<>>
  /\ next = "read" /\ pc \notin Sending \cup {"release"} =>
       /\ chip.phase = "read" /\ n < 4
       /\ pc \in {"sent", "input", "pullup"} => chip.out = 8 * n
       /\ pc = "pullup" => i = 0 /\ read = {}
       /\ pc = "fall" => i < 8 /\ chip.out = 8 * n + i /\ read = BitsRead(i)
       /\ pc = "sample" => /\ i < 8 /\ chip.out = 8 * n + i + 1 /\ read = BitsRead(i)
                           /\ chip.level = KeyBit(8 * n + i)
       /\ pc = "rise" => i < 8 /\ chip.out = 8 * n + i + 1 /\ read = BitsRead(i + 1)
       /\ pc = "keys" => chip.out = 8 * n + 8 /\ read = BitsRead(8)
  /\ next = "read" /\ pc \in Sampling \cup {"input"} => result = KeysOf(n)
  /\ pc = "release" => n = 4
  /\ call.op = "keys" /\ next \in {"write", "return"} => result = KeysOf(4)

ChipInv ==
  /\ TypeOK /\ StageInv /\ PinsInv /\ ByteInv /\ CommandInv /\ DataInv
  /\ WritingInv /\ ShownInv /\ CursorInv /\ KeysInv

-----------------------------------------------------------------------------
\* As long as a byte is on its way, and the chip has not got it, only the lines
\* and the bits in the chip change.
LEMMA ByteGoesOn ==
  ASSUME StageInv, CommandInv, DataInv, WritingInv, ShownInv, CursorInv, KeysInv,
         pc \in Sending, pc' \in Sending,
         UNCHANGED <<call, next, bytes, reading, cursor, chip.phase, chip.cells,
                     chip.address, chip.writing>>
  PROVE  /\ StageInv' /\ CommandInv' /\ DataInv' /\ WritingInv' /\ ShownInv'
         /\ CursorInv' /\ KeysInv'
<1> USE DEF Sending, InTransfer, Sampling, Starting, reading, cursor
<1>1. StageInv'
  BY DEF StageInv
<1>2. CommandInv'
  BY DEF CommandInv
<1>3. DataInv' /\ WritingInv'
  BY DEF DataInv, WritingInv
<1>4. ShownInv'
  BY DEF ShownInv, Coming, Later
<1>5. CursorInv'
  BY DEF CursorInv
<1>6. KeysInv'
  BY DEF KeysInv, KeysOf, HeldKeys
<1> QED
  BY <1>1, <1>2, <1>3, <1>4, <1>5, <1>6

LEMMA SendStartStep == ChipInv /\ SendStart => ChipInv'
<1> SUFFICES ASSUME ChipInv, SendStart PROVE ChipInv'
  OBVIOUS
<1> USE DEF Sending, InTransfer, Sampling, Starting, reading, cursor, pins
<1>1. /\ TypeOK /\ StageInv /\ PinsInv /\ ByteInv /\ CommandInv /\ DataInv
      /\ WritingInv /\ ShownInv /\ CursorInv /\ KeysInv
  BY DEF ChipInv
<1>2. /\ pc = "send" /\ pc' = "low" /\ i' = 0 /\ dio' = 1
      /\ UNCHANGED <<call, next, bytes, reading, cursor, stb, clk, mode, chip>>
  BY DEF SendStart, Go, SetDio
<1>3. /\ StageInv' /\ CommandInv' /\ DataInv' /\ WritingInv' /\ ShownInv'
      /\ CursorInv' /\ KeysInv'
  BY <1>1, <1>2, ByteGoesOn
<1>4. TypeOK'
  BY <1>1, <1>2 DEF TypeOK, Places
<1>5. PinsInv'
  BY <1>1, <1>2 DEF PinsInv
<1>6. ByteInv'
  <2>1. Head(bytes) \in Bytes /\ Weights[1] = 1
    BY <1>1, <1>2 DEF ByteInv, Weights, TypeOK
  <2>2. Head(bytes) % Weights[0 + 1] = 0
    BY <2>1 DEF Bytes
  <2> QED
    BY <1>1, <1>2, <2>2 DEF ByteInv
<1> QED
  BY <1>3, <1>4, <1>5, <1>6 DEF ChipInv

\* The bits of a byte, put together from the lowest one up.
LEMMA BitsMakeByte ==
  ASSUME NEW byte \in Bytes, NEW k \in 0 .. 7
  PROVE  /\ Bit(byte, k) \in 0 .. 1
         /\ k < 7 => /\ (byte % Weights[k + 1]) + Bit(byte, k) * Weights[k + 1]
                          = byte % Weights[k + 2]
                     /\ byte % Weights[k + 2] \in Bytes
         /\ k = 7 => (byte % Weights[k + 1]) + Bit(byte, k) * Weights[k + 1] = byte
<1>1. Bit(byte, k) = (byte \div Weights[k + 1]) % 2
  BY DEF Bit
<1>2. CASE k = 0
  BY <1>1, <1>2 DEF Weights, Bytes
<1>3. CASE k = 1
  BY <1>1, <1>3 DEF Weights, Bytes
<1>4. CASE k = 2
  BY <1>1, <1>4 DEF Weights, Bytes
<1>5. CASE k = 3
  BY <1>1, <1>5 DEF Weights, Bytes
<1>6. CASE k = 4
  BY <1>1, <1>6 DEF Weights, Bytes
<1>7. CASE k = 5
  BY <1>1, <1>7 DEF Weights, Bytes
<1>8. CASE k = 6
  BY <1>1, <1>8 DEF Weights, Bytes
<1>9. CASE k = 7
  BY <1>1, <1>9 DEF Weights, Bytes
<1> QED
  BY <1>2, <1>3, <1>4, <1>5, <1>6, <1>7, <1>8, <1>9

LEMMA SendLowStep == ChipInv /\ SendLow => ChipInv'
<1> SUFFICES ASSUME ChipInv, SendLow PROVE ChipInv'
  OBVIOUS
<1> USE DEF Sending, InTransfer, Sampling, Starting, reading, cursor, pins
<1>1. /\ TypeOK /\ StageInv /\ PinsInv /\ ByteInv /\ CommandInv /\ DataInv
      /\ WritingInv /\ ShownInv /\ CursorInv /\ KeysInv
  BY DEF ChipInv
<1>2. /\ pc = "low" /\ pc' = "bit" /\ clk' = 0
      /\ UNCHANGED <<call, next, bytes, i, reading, cursor, stb, dio, mode, chip>>
  BY <1>1 DEF SendLow, Go, SetClk, FallingClk, ByteInv
<1>3. /\ StageInv' /\ CommandInv' /\ DataInv' /\ WritingInv' /\ ShownInv'
      /\ CursorInv' /\ KeysInv'
  BY <1>1, <1>2, ByteGoesOn
<1>4. TypeOK'
  BY <1>1, <1>2 DEF TypeOK, Places
<1>5. PinsInv' /\ ByteInv'
  BY <1>1, <1>2 DEF PinsInv, ByteInv
<1> QED
  BY <1>1, <1>2, <1>3, <1>4, <1>5 DEF ChipInv

LEMMA SendBitStep == ChipInv /\ SendBit => ChipInv'
<1> SUFFICES ASSUME ChipInv, SendBit PROVE ChipInv'
  OBVIOUS
<1> USE DEF Sending, InTransfer, Sampling, Starting, reading, cursor, pins
<1>1. /\ TypeOK /\ StageInv /\ PinsInv /\ ByteInv /\ CommandInv /\ DataInv
      /\ WritingInv /\ ShownInv /\ CursorInv /\ KeysInv
  BY DEF ChipInv
<1>2. /\ pc = "bit" /\ pc' = "high" /\ dio' = Bit(Head(bytes), i)
      /\ UNCHANGED <<call, next, bytes, i, reading, cursor, stb, clk, mode, chip>>
  BY DEF SendBit, Go, SetDio
<1>3. /\ StageInv' /\ CommandInv' /\ DataInv' /\ WritingInv' /\ ShownInv'
      /\ CursorInv' /\ KeysInv'
  BY <1>1, <1>2, ByteGoesOn
<1>4. Head(bytes) \in Bytes /\ i \in 0 .. 7
  BY <1>1, <1>2 DEF TypeOK, ByteInv
<1>5. dio' \in 0 .. 1
  BY <1>2, <1>4, BitsMakeByte
<1>6. TypeOK'
  BY <1>1, <1>2, <1>5 DEF TypeOK, Places
<1>7. PinsInv' /\ ByteInv'
  BY <1>1, <1>2 DEF PinsInv, ByteInv
<1> QED
  BY <1>3, <1>6, <1>7 DEF ChipInv

\* What the calls are to show, call by call.
LEMMA TargetsOfCalls ==
  ASSUME NEW new \in Calls \cup {FirstCall, None}
  PROVE  /\ new = None \/ new.op \in {"init", "led", "string", "keys"}
         /\ new = None <=> new.op = "none"
         /\ new.op = "init" =>
              Target(new) = [cell \in Cells |-> IF cell = 16 THEN 15 ELSE 0]
         /\ new.op = "led" =>
              /\ Target(new) = [cell \in {2 * (new.pos % 8) + 1} |-> new.color]
              /\ new.pos \in Bytes /\ new.color \in Bytes
         /\ new.op = "string" =>
              /\ Target(new) = Digits(new.pos, new.glyphs) /\ new.pos \in Bytes
              /\ new.text \in Seq(STRING)
              /\ new.glyphs \in Seq([char : DOMAIN LED_FONT, dot : BOOLEAN])
              /\ \E start \in [1 .. Len(new.glyphs) + 1 -> 1 .. Len(new.text) + 1] :
                   Spelt(new.text, new.glyphs, start)
         /\ new.op = "keys" =>
              /\ Target(new) = [cell \in {} |-> 0]
              /\ new.held \subseteq (0 .. 2) \X (0 .. 7)
<1>1. CASE new = None
  BY <1>1 DEF None
<1>2. CASE new = FirstCall
  BY <1>2 DEF FirstCall, None, Target
<1>3. CASE new \in Calls
  <2>1. IsCall(new)
    BY <1>3, CallsAssumption
  <2>2. CASE new.op = "led"
    BY <2>1, <2>2 DEF IsCall, Target, None
  <2>3. CASE new.op = "keys"
    BY <2>1, <2>3 DEF IsCall, Target, None
  <2>4. CASE new.op = "string"
    BY <2>1, <2>4 DEF IsCall, Target, None
  <2> QED
    BY <2>1, <2>2, <2>3, <2>4 DEF IsCall
<1> QED
  BY <1>1, <1>2, <1>3

LEMMA Targets ==
  ASSUME TypeOK
  PROVE  /\ call = None \/ call.op \in {"init", "led", "string", "keys"}
         /\ call = None <=> call.op = "none"
         /\ call.op = "init" =>
              Target(call) = [cell \in Cells |-> IF cell = 16 THEN 15 ELSE 0]
         /\ call.op = "led" =>
              /\ Target(call) = [cell \in {2 * (call.pos % 8) + 1} |-> call.color]
              /\ call.pos \in Bytes /\ call.color \in Bytes
         /\ call.op = "string" =>
              /\ Target(call) = Digits(call.pos, call.glyphs) /\ call.pos \in Bytes
              /\ call.text \in Seq(STRING)
              /\ call.glyphs \in Seq([char : DOMAIN LED_FONT, dot : BOOLEAN])
         /\ call.op = "keys" =>
              /\ Target(call) = [cell \in {} |-> 0]
              /\ call.held \subseteq (0 .. 2) \X (0 .. 7)
BY TargetsOfCalls DEF TypeOK

\* The last bit of a byte: what the chip does with the byte.
LEMMA ByteArrives ==
  ASSUME ChipInv, SendHigh, i = 7
  PROVE  /\ Head(bytes) \in Bytes /\ bytes' = Tail(bytes) /\ bytes # <<>>
         /\ pc = "high" /\ pc' = "sent" /\ i' = 8 /\ clk' = 1
         /\ UNCHANGED <<call, next, reading, cursor, stb, dio, mode>>
         /\ chip' = [(IF chip.phase = "command" THEN Command(Head(bytes))
                      ELSE Data(Head(bytes))) EXCEPT !.in = 0, !.bits = 0]
<1> USE DEF Sending, InTransfer
<1>1. /\ TypeOK /\ PinsInv /\ ByteInv
  BY DEF ChipInv
<1>2. /\ pc = "high" /\ pc' = "sent" /\ i' = 8 /\ bytes' = Tail(bytes) /\ clk' = 1
      /\ UNCHANGED <<call, next, reading, cursor, stb, dio, mode>>
      /\ chip' = RisingClk(Line)
  BY <1>1 DEF SendHigh, Go, SetClk, PinsInv, Starting
<1>3. Head(bytes) \in Bytes /\ bytes # <<>>
  BY <1>1, <1>2 DEF TypeOK, ByteInv
<1>4. Line = Bit(Head(bytes), 7)
  <2>1. dio = Bit(Head(bytes), 7) /\ mode = "output" /\ chip.level = 1
    BY <1>1, <1>2 DEF ByteInv, PinsInv, Sampling
  <2> QED
    BY <1>3, <2>1, BitsMakeByte DEF Line
<1>5. chip.in + Line * Weights[chip.bits + 1] = Head(bytes) /\ chip.bits = 7
  BY <1>1, <1>2, <1>3, <1>4, BitsMakeByte DEF ByteInv
<1>6. chip.phase \in {"command", "data"}
  BY <1>1, <1>2 DEF ByteInv
<1>7. RisingClk(Line) = [(IF chip.phase = "command" THEN Command(Head(bytes))
                          ELSE Data(Head(bytes))) EXCEPT !.in = 0, !.bits = 0]
  <2>1. chip.phase \notin {"command", "data"} <=> FALSE
    BY <1>6
  <2>2. chip.bits < 7 <=> FALSE
    BY <1>5
  <2> QED
    BY <1>5, <2>1, <2>2, Zenon DEF RisingClk
<1> QED
  BY <1>2, <1>3, <1>7, Zenon

\* The chip after an access.
LEMMA ChipParts ==
  ASSUME NEW some \in Chips
  PROVE  /\ some.cells \in [Cells -> Bytes]
         /\ some.phase \in {"idle", "command", "data", "read"}
         /\ some.in \in Bytes /\ some.bits \in 0 .. 7 /\ some.out \in 0 .. 32
         /\ some.level \in 0 .. 1 /\ some.address \in 0 .. 15 /\ some.writing \in BOOLEAN
BY DEF Chips

LEMMA ChipMade ==
  ASSUME NEW some, some.cells \in [Cells -> Bytes],
         some.phase \in {"idle", "command", "data", "read"},
         some.in \in Bytes, some.bits \in 0 .. 7, some.out \in 0 .. 32,
         some.level \in 0 .. 1, some.address \in 0 .. 15, some.writing \in BOOLEAN,
         some = [cells |-> some.cells, phase |-> some.phase, in |-> some.in,
                 bits |-> some.bits, out |-> some.out, level |-> some.level,
                 address |-> some.address, writing |-> some.writing]
  PROVE  some \in Chips
BY DEF Chips

\* What does not depend on the byte.
LEMMA ByteSent ==
  ASSUME ChipInv, SendHigh, i = 7
  PROVE  /\ StageInv' /\ PinsInv' /\ CursorInv'
         /\ chip' \in Chips => TypeOK'
<1> USE DEF Sending, InTransfer, Sampling, Starting, reading, cursor, pins
<1>1. TypeOK /\ StageInv /\ PinsInv /\ CursorInv
  BY DEF ChipInv
<1>2. /\ Head(bytes) \in Bytes /\ bytes' = Tail(bytes) /\ bytes # <<>>
      /\ pc = "high" /\ pc' = "sent" /\ i' = 8 /\ clk' = 1
      /\ UNCHANGED <<call, next, reading, cursor, stb, dio, mode>>
  BY ByteArrives
<1>3. StageInv'
  BY <1>1, <1>2 DEF StageInv
<1>4. PinsInv'
  BY <1>1, <1>2 DEF PinsInv
<1>5. CursorInv'
  BY <1>1, <1>2 DEF CursorInv
<1>6. bytes' \in Seq(Bytes)
  BY <1>1, <1>2 DEF TypeOK
<1> QED
  BY <1>1, <1>2, <1>3, <1>4, <1>5, <1>6 DEF TypeOK, Places

\* The command to write.
LEMMA WriteArrives ==
  ASSUME ChipInv, SendHigh, i = 7, chip.phase = "command", bytes = << 64 >>,
         next \in {"brightness", "return"}
  PROVE  ChipInv' /\ \A cell \in Cells : Display!Shown(cell)
<1> USE DEF Sending, InTransfer, Sampling, Starting, reading, cursor
<1>1. /\ TypeOK /\ ByteInv /\ ShownInv /\ KeysInv
  BY DEF ChipInv
<1>2. /\ bytes' = Tail(bytes) /\ pc = "high" /\ pc' = "sent"
      /\ UNCHANGED <<call, next, reading, cursor>>
      /\ chip' = [Command(64) EXCEPT !.in = 0, !.bits = 0]
  BY ByteArrives
<1>3. Command(64) = [chip EXCEPT !.phase = "idle", !.writing = TRUE]
  <2>1. /\ 64 \div 64 = 1 /\ (64 \div 2) % 2 = 0 /\ (64 \div 2) % 2 # 1
        /\ 64 \div 64 # 2 /\ 64 \div 64 # 3
    OBVIOUS
  <2> QED
    BY <2>1, Zenon DEF Command
<1>4. /\ chip' \in Chips
      /\ chip'.phase = "idle" /\ chip'.writing /\ chip'.cells = chip.cells
      /\ chip'.bits = 0 /\ chip'.in = 0 /\ chip'.level = chip.level
  <2>1. /\ chip' = [cells |-> chip'.cells, phase |-> chip'.phase, in |-> chip'.in,
                    bits |-> chip'.bits, out |-> chip'.out, level |-> chip'.level,
                    address |-> chip'.address, writing |-> chip'.writing]
        /\ chip'.phase = "idle" /\ chip'.writing = TRUE /\ chip'.cells = chip.cells
        /\ chip'.bits = 0 /\ chip'.in = 0 /\ chip'.level = chip.level
        /\ chip'.out = chip.out /\ chip'.address = chip.address
    BY <1>1, <1>2, <1>3 DEF TypeOK, Chips
  <2>2. /\ chip'.cells \in [Cells -> Bytes]
        /\ chip'.phase \in {"idle", "command", "data", "read"}
        /\ chip'.in \in Bytes /\ chip'.bits \in 0 .. 7 /\ chip'.out \in 0 .. 32
        /\ chip'.level \in 0 .. 1 /\ chip'.address \in 0 .. 15
    BY <1>1, <2>1, ChipParts DEF TypeOK, Bytes
  <2>3. chip'.writing \in BOOLEAN
    BY <2>1, Zenon
  <2>4. chip' \in Chips
    BY <2>1, <2>2, <2>3, ChipMade, Zenon
  <2> QED
    BY <2>1, <2>4, Zenon
<1>5. bytes' = <<>>
  BY <1>2
<1>6. ByteInv' /\ CommandInv' /\ DataInv' /\ WritingInv'
  BY <1>1, <1>2, <1>4, <1>5 DEF ByteInv, CommandInv, DataInv, WritingInv
<1>7. ShownInv'
  <2>1. Coming = {} /\ Coming' = {} /\ Later' = Later
    BY <1>2, <1>4 DEF Coming, Later
  <2> QED
    BY <1>1, <1>2, <1>4, <2>1 DEF ShownInv
<1>8. KeysInv'
  BY <1>1, <1>2 DEF KeysInv, KeysOf, HeldKeys
<1>9. \A cell \in Cells : Display!Shown(cell)
  BY <1>4 DEF Display!Shown
<1> QED
  BY <1>4, <1>6, <1>7, <1>8, <1>9, ByteSent DEF ChipInv

\* The brightness.
LEMMA BrightnessArrives ==
  ASSUME ChipInv, SendHigh, i = 7, chip.phase = "command", bytes = << 143 >>,
         next = "clear"
  PROVE  ChipInv' /\ \A cell \in Cells : Display!Shown(cell)
<1> USE DEF Sending, InTransfer, Sampling, Starting, reading, cursor
<1>1. /\ TypeOK /\ StageInv /\ ByteInv /\ WritingInv /\ ShownInv /\ KeysInv
  BY DEF ChipInv
<1>2. /\ bytes' = Tail(bytes) /\ pc = "high" /\ pc' = "sent"
      /\ UNCHANGED <<call, next, reading, cursor>>
      /\ chip' = [Command(143) EXCEPT !.in = 0, !.bits = 0]
  BY ByteArrives
<1>3. Command(143) = [chip EXCEPT !.phase = "idle", !.cells[16] = 15]
  <2>1. 143 \div 64 = 2 /\ 143 \div 64 # 1 /\ 143 \div 64 # 3 /\ 143 % 16 = 15
    OBVIOUS
  <2> QED
    BY <2>1, Zenon DEF Command
<1>4. /\ chip' \in Chips
      /\ chip'.phase = "idle" /\ chip'.writing = chip.writing
      /\ chip'.cells = [chip.cells EXCEPT ![16] = 15]
      /\ chip'.bits = 0 /\ chip'.in = 0 /\ chip'.level = chip.level
  <2>1. /\ chip' = [cells |-> chip'.cells, phase |-> chip'.phase, in |-> chip'.in,
                    bits |-> chip'.bits, out |-> chip'.out, level |-> chip'.level,
                    address |-> chip'.address, writing |-> chip'.writing]
        /\ chip'.phase = "idle" /\ chip'.writing = chip.writing
        /\ chip'.cells = [chip.cells EXCEPT ![16] = 15]
        /\ chip'.bits = 0 /\ chip'.in = 0 /\ chip'.level = chip.level
        /\ chip'.out = chip.out /\ chip'.address = chip.address
    BY <1>1, <1>2, <1>3 DEF TypeOK, Chips
  <2>2. chip'.cells \in [Cells -> Bytes]
    BY <1>1, <2>1, ChipParts DEF TypeOK, Cells, Bytes
  <2> QED
    BY <1>1, <2>1, <2>2, ChipParts, ChipMade DEF TypeOK, Bytes
<1>5. bytes' = <<>>
  BY <1>2
<1>6. ByteInv' /\ CommandInv' /\ DataInv' /\ WritingInv'
  BY <1>1, <1>2, <1>4, <1>5 DEF ByteInv, CommandInv, DataInv, WritingInv
<1>7. ShownInv'
  <2>1. call.op = "init" /\ call # None
    BY <1>1, Targets DEF StageInv, None
  <2>2. Target(call) = [cell \in Cells |-> IF cell = 16 THEN 15 ELSE 0]
    BY <1>1, <2>1, Targets
  <2>3. Coming' = {} /\ Later' = 0 .. 15
    BY <1>2, <1>4 DEF Coming, Later, Cells
  <2>4. chip'.cells[16] = 15 /\ call' = call
    BY <1>1, <1>2, <1>4, ChipParts DEF TypeOK, Cells
  <2>5. \A cell \in Cells \ 0 .. 15 : cell = 16
    BY DEF Cells
  <2> QED
    BY <2>2, <2>3, <2>4, <2>5 DEF ShownInv, Cells
<1>8. KeysInv'
  BY <1>1, <1>2, Targets DEF KeysInv, StageInv
<1>9. \A cell \in Cells : Display!Shown(cell)
  <2>1. call.op = "init"
    BY <1>1, Targets DEF StageInv, None
  <2>2. Target(call) = [cell \in Cells |-> IF cell = 16 THEN 15 ELSE 0]
    BY <1>1, <2>1, Targets
  <2>3. chip.cells \in [Cells -> Bytes]
    BY <1>1, ChipParts DEF TypeOK
  <2> QED
    BY <1>4, <2>2, <2>3 DEF Display!Shown
<1> QED
  BY <1>4, <1>6, <1>7, <1>8, <1>9, ByteSent DEF ChipInv

\* The command to read.
LEMMA ReadArrives ==
  ASSUME ChipInv, SendHigh, i = 7, chip.phase = "command", bytes = << 66 >>,
         next = "read"
  PROVE  ChipInv' /\ \A cell \in Cells : Display!Shown(cell)
<1> USE DEF Sending, InTransfer, Sampling, Starting, reading, cursor
<1>1. /\ TypeOK /\ StageInv /\ ByteInv /\ ShownInv /\ KeysInv
  BY DEF ChipInv
<1>2. /\ bytes' = Tail(bytes) /\ pc = "high" /\ pc' = "sent"
      /\ UNCHANGED <<call, next, reading, cursor>>
      /\ chip' = [Command(66) EXCEPT !.in = 0, !.bits = 0]
  BY ByteArrives
<1>3. Command(66) = [chip EXCEPT !.phase = "read", !.writing = FALSE, !.out = 0]
  <2>1. /\ 66 \div 64 = 1 /\ (66 \div 2) % 2 = 1 /\ (66 \div 2) % 2 # 0
        /\ 66 \div 64 # 2 /\ 66 \div 64 # 3
    OBVIOUS
  <2> QED
    BY <2>1, Zenon DEF Command
<1>4. /\ chip' \in Chips
      /\ chip'.phase = "read" /\ chip'.out = 0 /\ chip'.cells = chip.cells
      /\ chip'.bits = 0 /\ chip'.in = 0 /\ chip'.level = chip.level
  <2>1. /\ chip' = [cells |-> chip'.cells, phase |-> chip'.phase, in |-> chip'.in,
                    bits |-> chip'.bits, out |-> chip'.out, level |-> chip'.level,
                    address |-> chip'.address, writing |-> chip'.writing]
        /\ chip'.phase = "read" /\ chip'.writing = FALSE /\ chip'.cells = chip.cells
        /\ chip'.bits = 0 /\ chip'.in = 0 /\ chip'.level = chip.level
        /\ chip'.out = 0 /\ chip'.address = chip.address
    BY <1>1, <1>2, <1>3 DEF TypeOK, Chips
  <2>2. /\ chip'.cells \in [Cells -> Bytes]
        /\ chip'.phase \in {"idle", "command", "data", "read"}
        /\ chip'.in \in Bytes /\ chip'.bits \in 0 .. 7 /\ chip'.out \in 0 .. 32
        /\ chip'.level \in 0 .. 1 /\ chip'.address \in 0 .. 15
    BY <1>1, <2>1, ChipParts DEF TypeOK, Bytes
  <2>3. chip'.writing \in BOOLEAN
    BY <2>1, Zenon
  <2>4. chip' \in Chips
    BY <2>1, <2>2, <2>3, ChipMade, Zenon
  <2> QED
    BY <2>1, <2>4, Zenon
<1>5. bytes' = <<>>
  BY <1>2
<1>6. ByteInv' /\ CommandInv' /\ DataInv' /\ WritingInv'
  BY <1>1, <1>2, <1>4, <1>5 DEF ByteInv, CommandInv, DataInv, WritingInv
<1>7. ShownInv'
  <2>1. Coming = {} /\ Coming' = {} /\ Later' = Later
    BY <1>2, <1>4 DEF Coming, Later
  <2> QED
    BY <1>1, <1>2, <1>4, <2>1 DEF ShownInv
<1>8. KeysInv'
  BY <1>1, <1>2, <1>4, <1>5, Targets DEF KeysInv, StageInv
<1>9. \A cell \in Cells : Display!Shown(cell)
  BY <1>4 DEF Display!Shown
<1> QED
  BY <1>4, <1>6, <1>7, <1>8, <1>9, ByteSent DEF ChipInv

\* An address.
LEMMA AddressArrives ==
  ASSUME ChipInv, SendHigh, i = 7, chip.phase = "command", Head(bytes) \in 192 .. 207,
         next \in {"return", "string"}, chip.writing,
         Wanted(call, Head(bytes) % 16, Tail(bytes))
  PROVE  ChipInv' /\ \A cell \in Cells : Display!Shown(cell)
<1> USE DEF Sending, InTransfer, Sampling, Starting, reading, cursor
<1>1. /\ TypeOK /\ StageInv /\ ByteInv /\ ShownInv /\ KeysInv
  BY DEF ChipInv
<1> DEFINE first == Head(bytes) % 16
<1>2. /\ bytes' = Tail(bytes) /\ bytes # <<>> /\ pc = "high" /\ pc' = "sent"
      /\ UNCHANGED <<call, next, reading, cursor>>
      /\ chip' = [Command(Head(bytes)) EXCEPT !.in = 0, !.bits = 0]
  BY ByteArrives
<1>3. Command(Head(bytes)) = [chip EXCEPT !.phase = "data", !.address = first]
  <2>1. Head(bytes) \div 64 = 3 /\ Head(bytes) \div 64 # 1 /\ Head(bytes) \div 64 # 2
    OBVIOUS
  <2> QED
    BY <2>1, Zenon DEF Command
<1>4. /\ chip' \in Chips
      /\ chip'.phase = "data" /\ chip'.writing = chip.writing
      /\ chip'.cells = chip.cells /\ chip'.address = first
      /\ chip'.bits = 0 /\ chip'.in = 0 /\ chip'.level = chip.level
  <2>1. /\ chip' = [cells |-> chip'.cells, phase |-> chip'.phase, in |-> chip'.in,
                    bits |-> chip'.bits, out |-> chip'.out, level |-> chip'.level,
                    address |-> chip'.address, writing |-> chip'.writing]
        /\ chip'.phase = "data" /\ chip'.writing = chip.writing
        /\ chip'.cells = chip.cells /\ chip'.bits = 0 /\ chip'.in = 0
        /\ chip'.level = chip.level /\ chip'.out = chip.out /\ chip'.address = first
    BY <1>1, <1>2, <1>3 DEF TypeOK, Chips
  <2>2. first \in 0 .. 15
    OBVIOUS
  <2>3. /\ chip'.cells \in [Cells -> Bytes]
        /\ chip'.phase \in {"idle", "command", "data", "read"}
        /\ chip'.in \in Bytes /\ chip'.bits \in 0 .. 7 /\ chip'.out \in 0 .. 32
        /\ chip'.level \in 0 .. 1 /\ chip'.address \in 0 .. 15
        /\ chip'.writing \in BOOLEAN
    BY <1>1, <2>1, <2>2, ChipParts DEF TypeOK, Bytes
  <2>4. chip' \in Chips
    BY <2>1, <2>3, ChipMade, Zenon
  <2> QED
    BY <2>1, <2>4, Zenon
<1>5. bytes \in Seq(Bytes) /\ Len(bytes') = Len(bytes) - 1 /\ Len(bytes) \in Nat
  BY <1>1, <1>2 DEF TypeOK
<1>6. Wanted(call', chip'.address, bytes')
  BY <1>2, <1>4
<1>7. ByteInv' /\ CommandInv' /\ DataInv' /\ WritingInv'
  BY <1>1, <1>2, <1>4, <1>6 DEF ByteInv, CommandInv, DataInv, WritingInv
<1>8. ShownInv'
  <2>1. Coming = first .. first + Len(bytes) - 2
    BY <1>2 DEF Coming
  <2>2. Coming' = first .. first + Len(bytes') - 1
    BY <1>2, <1>4 DEF Coming
  <2>3. Coming' = Coming /\ Later' = Later
    BY <1>2, <1>5, <2>1, <2>2 DEF Later
  <2> QED
    BY <1>1, <1>2, <1>4, <2>3 DEF ShownInv
<1>9. KeysInv'
  BY <1>1, <1>2 DEF KeysInv, KeysOf, HeldKeys
<1>10. \A cell \in Cells : Display!Shown(cell)
  BY <1>4 DEF Display!Shown
<1> QED
  BY <1>4, <1>7, <1>8, <1>9, <1>10, ByteSent DEF ChipInv

\* A byte for a cell.
LEMMA DataArrives ==
  ASSUME ChipInv, SendHigh, i = 7, chip.phase = "data"
  PROVE  ChipInv' /\ \A cell \in Cells : Display!Shown(cell)
<1> USE DEF Sending, InTransfer, Sampling, Starting, reading, cursor
<1>1. /\ TypeOK /\ StageInv /\ ByteInv /\ DataInv /\ ShownInv /\ KeysInv
  BY DEF ChipInv
<1> DEFINE a == chip.address
           after == (a + 1) % 16
<1>2. /\ bytes' = Tail(bytes) /\ bytes # <<>> /\ pc = "high" /\ pc' = "sent"
      /\ Head(bytes) \in Bytes
      /\ UNCHANGED <<call, next, reading, cursor>>
      /\ chip' = [Data(Head(bytes)) EXCEPT !.in = 0, !.bits = 0]
  BY ByteArrives
<1>3. /\ next \in {"return", "string"} /\ chip.writing /\ Wanted(call, a, bytes)
      /\ call # None
  BY <1>1, <1>2, Targets DEF DataInv, StageInv
<1>4. /\ chip' \in Chips
      /\ chip'.phase = "data" /\ chip'.writing = chip.writing
      /\ chip'.cells = [chip.cells EXCEPT ![a] = Head(bytes)]
      /\ chip'.address = after
      /\ chip'.bits = 0 /\ chip'.in = 0 /\ chip'.level = chip.level
  <2>1. /\ chip' = [cells |-> chip'.cells, phase |-> chip'.phase, in |-> chip'.in,
                    bits |-> chip'.bits, out |-> chip'.out, level |-> chip'.level,
                    address |-> chip'.address, writing |-> chip'.writing]
        /\ chip'.phase = chip.phase /\ chip'.writing = chip.writing
        /\ chip'.cells = [chip.cells EXCEPT ![a] = Head(bytes)]
        /\ chip'.bits = 0 /\ chip'.in = 0
        /\ chip'.level = chip.level /\ chip'.out = chip.out /\ chip'.address = after
    BY <1>1, <1>2, <1>3 DEF Data, TypeOK, Chips
  <2>2. after \in 0 .. 15 /\ a \in 0 .. 15
    BY <1>1, ChipParts DEF TypeOK
  <2>3. chip'.cells \in [Cells -> Bytes]
    <3>1. chip.cells \in [Cells -> Bytes]
      BY <1>1, ChipParts DEF TypeOK
    <3>2. [chip.cells EXCEPT ![a] = Head(bytes)] \in [Cells -> Bytes]
      BY <1>2, <3>1
    <3> QED
      BY <2>1, <3>2
  <2>4. /\ chip'.phase \in {"idle", "command", "data", "read"}
        /\ chip'.in \in Bytes /\ chip'.bits \in 0 .. 7 /\ chip'.out \in 0 .. 32
        /\ chip'.level \in 0 .. 1 /\ chip'.address \in 0 .. 15
        /\ chip'.writing \in BOOLEAN
    BY <1>1, <2>1, <2>2, ChipParts DEF TypeOK, Bytes
  <2>5. chip' \in Chips
    BY <2>1, <2>3, <2>4, ChipMade, Zenon
  <2> QED
    BY <2>1, <2>5, Zenon
<1>5. /\ bytes \in Seq(Bytes) /\ Len(bytes) \in Nat \ {0} /\ Len(bytes') = Len(bytes) - 1
      /\ Head(bytes) = bytes[1]
      /\ \A k \in 1 .. Len(bytes') : bytes'[k] = bytes[k + 1]
  BY <1>1, <1>2 DEF TypeOK
<1>6. a \in 0 .. 15 /\ a + Len(bytes) <= 16
  BY <1>1, <1>3, ChipParts DEF TypeOK, Wanted
<1>7. Wanted(call', chip'.address, bytes')
  <2>1. CASE Len(bytes) = 1
    BY <1>2, <1>4, <1>5, <1>6, <2>1 DEF Wanted
  <2>2. CASE Len(bytes) > 1
    <3>1. after = a + 1 /\ after + Len(bytes') <= 16
      BY <1>5, <1>6, <2>2
    <3> HIDE DEF after, a
    <3>2. ASSUME NEW k \in 1 .. Len(bytes')
          PROVE  /\ after + (k - 1) \in DOMAIN Target(call)
                 /\ Target(call)[after + (k - 1)] = bytes'[k]
      <4>1. k + 1 \in 1 .. Len(bytes) /\ a + ((k + 1) - 1) = after + (k - 1)
        BY <1>5, <1>6, <3>1
      <4>2. /\ a + ((k + 1) - 1) \in DOMAIN Target(call)
            /\ Target(call)[a + ((k + 1) - 1)] = bytes[k + 1]
        BY <1>3, <4>1 DEF Wanted
      <4> QED
        BY <1>5, <4>1, <4>2
    <3> QED
      BY <1>2, <1>4, <3>1, <3>2 DEF Wanted
  <2> QED
    BY <1>5, <2>1, <2>2
<1>8. ByteInv' /\ CommandInv' /\ DataInv' /\ WritingInv'
  BY <1>1, <1>2, <1>3, <1>4, <1>7 DEF ByteInv, CommandInv, DataInv, WritingInv
<1>9. ShownInv'
  <2>1. Coming = a .. a + Len(bytes) - 1
    BY <1>2 DEF Coming
  <2>2. Coming' = after .. after + Len(bytes') - 1
    BY <1>2, <1>4 DEF Coming
  <2>3. Coming \ {a} \subseteq Coming'
    <3>1. CASE Len(bytes) = 1
      BY <1>6, <2>1, <3>1
    <3>2. CASE Len(bytes) > 1
      <4>1. after = a + 1
        BY <1>5, <1>6, <3>2
      <4> HIDE DEF after, a
      <4> QED
        BY <1>5, <1>6, <2>1, <2>2, <4>1
    <3> QED
      BY <1>5, <3>1, <3>2
  <2>4. Later' = Later
    BY <1>2 DEF Later
  <2>5. a + (1 - 1) = a /\ 1 \in 1 .. Len(bytes)
    BY <1>5, <1>6
  <2>6. Target(call)[a] = Head(bytes)
    BY <1>3, <1>5, <2>5 DEF Wanted
  <2>7. chip.cells \in [Cells -> Bytes] /\ a \in Cells
    BY <1>1, <1>6, ChipParts DEF TypeOK, Cells
  <2>8. ASSUME NEW cell \in DOMAIN Target(call) \ (Coming' \cup Later')
        PROVE  chip'.cells[cell] = Target(call)[cell]
    <3>1. CASE cell = a
      BY <1>4, <2>6, <2>7, <3>1
    <3>2. CASE cell # a
      <4>1. chip.cells[cell] = Target(call)[cell]
        BY <1>1, <1>3, <2>3, <2>4, <2>8, <3>2 DEF ShownInv
      <4> QED
        BY <1>4, <2>7, <3>2, <4>1
    <3> QED
      BY <3>1, <3>2
  <2> QED
    BY <1>2, <2>8 DEF ShownInv
<1>10. KeysInv'
  BY <1>1, <1>2, <1>3 DEF KeysInv, KeysOf, HeldKeys
<1>11. \A cell \in Cells : Display!Shown(cell)
  <2>1. a + (1 - 1) = a /\ 1 \in 1 .. Len(bytes)
    BY <1>5, <1>6
  <2>2. a \in DOMAIN Target(call) /\ Target(call)[a] = Head(bytes)
    BY <1>3, <1>5, <2>1 DEF Wanted
  <2>3. chip.cells \in [Cells -> Bytes]
    BY <1>1, ChipParts DEF TypeOK
  <2> QED
    BY <1>4, <2>2, <2>3 DEF Display!Shown
<1> QED
  BY <1>4, <1>8, <1>9, <1>10, <1>11, ByteSent DEF ChipInv

LEMMA SendHighStep ==
  ASSUME ChipInv, SendHigh
  PROVE  ChipInv' /\ \A cell \in Cells : Display!Shown(cell)
<1> USE DEF Sending, InTransfer, Sampling, Starting, reading, cursor, pins
<1>1. /\ TypeOK /\ StageInv /\ PinsInv /\ ByteInv /\ CommandInv /\ DataInv
      /\ WritingInv /\ ShownInv /\ CursorInv /\ KeysInv
  BY DEF ChipInv
<1>2. pc = "high" /\ i \in 0 .. 7 /\ Head(bytes) \in Bytes
  BY <1>1 DEF SendHigh, Go, ByteInv, TypeOK
<1>3. CASE i < 7
  <2>1. /\ pc' = "low" /\ i' = i + 1 /\ clk' = 1
        /\ UNCHANGED <<call, next, bytes, reading, cursor, stb, dio, mode>>
        /\ chip' = RisingClk(Line)
    BY <1>1, <1>2, <1>3 DEF SendHigh, Go, SetClk, PinsInv
  <2>2. dio = Bit(Head(bytes), i) /\ mode = "output" /\ chip.level = 1
    BY <1>1, <1>2 DEF ByteInv, PinsInv
  <2>3. Line = Bit(Head(bytes), i)
    BY <1>2, <2>2, BitsMakeByte DEF Line
  <2>4. /\ chip.in + Line * Weights[chip.bits + 1] = Head(bytes) % Weights[i + 2]
        /\ Head(bytes) % Weights[i + 2] \in Bytes /\ chip.bits = i
        /\ chip.phase \in {"command", "data"}
    BY <1>1, <1>2, <1>3, <2>3, BitsMakeByte DEF ByteInv
  <2>5. chip' = [chip EXCEPT !.in = Head(bytes) % Weights[i + 2], !.bits = i + 1]
    BY <1>3, <2>1, <2>4 DEF RisingClk
  <2>6. chip' \in Chips
    <3>1. PICK in \in Bytes, k \in 0 .. 7 :
            in = Head(bytes) % Weights[i + 2] /\ k = i + 1
      BY <1>2, <1>3, <2>4
    <3>2. chip' = [chip EXCEPT !.in = in, !.bits = k]
      BY <2>5, <3>1
    <3> QED
      BY <1>1, <3>2 DEF TypeOK, Chips
  <2>7. /\ chip'.in = Head(bytes) % Weights[i + 2] /\ chip'.bits = i + 1
        /\ UNCHANGED <<chip.phase, chip.cells, chip.address, chip.writing, chip.level>>
    BY <1>1, <2>5 DEF TypeOK, Chips
  <2>8. /\ StageInv' /\ CommandInv' /\ DataInv' /\ WritingInv' /\ ShownInv'
        /\ CursorInv' /\ KeysInv'
    BY <1>1, <1>2, <2>1, <2>7, ByteGoesOn
  <2>9. TypeOK'
    BY <1>1, <1>2, <1>3, <2>1, <2>6 DEF TypeOK, Places
  <2>10. PinsInv'
    BY <1>1, <1>2, <2>1 DEF PinsInv
  <2>11. ByteInv'
    BY <1>1, <1>2, <1>3, <2>1, <2>7 DEF ByteInv
  <2> QED
    BY <2>7, <2>8, <2>9, <2>10, <2>11 DEF ChipInv, Display!Shown
<1>4. CASE i = 7
  <2>1. CASE chip.phase = "data"
    BY <1>4, <2>1, DataArrives
  <2>2. CASE chip.phase = "command"
    BY <1>1, <1>2, <1>4, <2>2, WriteArrives, BrightnessArrives, ReadArrives,
       AddressArrives DEF CommandInv
  <2> QED
    BY <1>1, <1>2, <2>1, <2>2 DEF ByteInv
<1> QED
  BY <1>2, <1>3, <1>4

LEMMA SendEndStep == ChipInv /\ SendEnd => ChipInv'
<1> SUFFICES ASSUME ChipInv, SendEnd PROVE ChipInv'
  OBVIOUS
<1> USE DEF Sending, InTransfer, Sampling, Starting, reading, cursor, pins
<1>1. /\ TypeOK /\ StageInv /\ PinsInv /\ ByteInv /\ CommandInv /\ DataInv
      /\ WritingInv /\ ShownInv /\ CursorInv /\ KeysInv
  BY DEF ChipInv
<1>2. /\ pc = "sent" /\ dio' = 1
      /\ pc' = IF bytes # <<>> THEN "send" ELSE IF next = "read" THEN "input" ELSE "close"
      /\ UNCHANGED <<call, next, bytes, i, reading, cursor, stb, clk, mode, chip>>
  BY DEF SendEnd, Go, SetDio
<1>3. TypeOK'
  BY <1>1, <1>2 DEF TypeOK, Places
<1>4. StageInv'
  BY <1>1, <1>2 DEF StageInv
<1>5. PinsInv' /\ ByteInv'
  BY <1>1, <1>2 DEF PinsInv, ByteInv
<1>6. CommandInv' /\ DataInv' /\ WritingInv'
  BY <1>1, <1>2 DEF CommandInv, DataInv, WritingInv, ByteInv
<1>7. ShownInv'
  <2>1. Later' = Later
    BY <1>2 DEF Later
  <2>2. CASE bytes # <<>>
    BY <1>1, <1>2, <2>1, <2>2 DEF ShownInv, Coming, ByteInv
  <2>3. CASE bytes = <<>>
    <3>1. Coming = {} /\ Coming' = {}
      BY <1>1, <1>2, <2>3, ChipParts DEF Coming, TypeOK
    <3> QED
      BY <1>1, <1>2, <2>1, <3>1 DEF ShownInv
  <2> QED
    BY <2>2, <2>3
<1>8. CursorInv'
  BY <1>1, <1>2 DEF CursorInv
<1>9. KeysInv'
  <2>1. CASE next # "read"
    BY <1>1, <1>2, <2>1 DEF KeysInv, KeysOf, HeldKeys
  <2>2. CASE next = "read"
    <3>1. /\ pc' = "input" /\ n = 0 /\ result = {} /\ chip.phase = "read"
          /\ chip.out = 8 * n /\ call # None
      BY <1>1, <1>2, <2>2 DEF KeysInv, StageInv, None
    <3>2. KeysOf(0) = {}
      BY <1>1, Targets DEF KeysOf, HeldKeys
    <3> QED
      BY <1>2, <2>2, <3>1, <3>2 DEF KeysInv, KeysOf, HeldKeys
  <2> QED
    BY <2>1, <2>2
<1> QED
  BY <1>3, <1>4, <1>5, <1>6, <1>7, <1>8, <1>9 DEF ChipInv

-----------------------------------------------------------------------------
\* The keys, bit by bit.  The cells stay as they are.
LEMMA ReadingGoesOn ==
  ASSUME StageInv, ByteInv, WritingInv, ShownInv, CursorInv, next = "read",
         pc \in Sampling \cup {"input"}, pc' \in Sampling \cup {"input"},
         UNCHANGED <<call, next, bytes, cursor, chip.cells>>
  PROVE  /\ StageInv' /\ ByteInv' /\ CommandInv' /\ DataInv' /\ WritingInv'
         /\ ShownInv' /\ CursorInv'
<1> USE DEF Sending, InTransfer, Sampling, Starting, cursor
<1>1. StageInv' /\ ByteInv' /\ CommandInv' /\ DataInv' /\ WritingInv'
  BY DEF StageInv, ByteInv, CommandInv, DataInv, WritingInv
<1>2. ShownInv'
  BY DEF ShownInv, Coming, Later
<1>3. CursorInv'
  BY DEF CursorInv
<1> QED
  BY <1>1, <1>2, <1>3

LEMMA ReadStartStep == ChipInv /\ ReadStart => ChipInv'
<1> SUFFICES ASSUME ChipInv, ReadStart PROVE ChipInv'
  OBVIOUS
<1> USE DEF Sending, InTransfer, Sampling, Starting, cursor, pins
<1>1. /\ TypeOK /\ StageInv /\ PinsInv /\ ByteInv /\ WritingInv /\ ShownInv
      /\ CursorInv /\ KeysInv
  BY DEF ChipInv
<1>2. /\ pc = "input" /\ pc' = "pullup" /\ mode' = "input" /\ read' = {} /\ i' = 0
      /\ UNCHANGED <<call, next, bytes, n, result, cursor, stb, clk, dio, chip>>
  BY DEF ReadStart, Go, SetMode
<1>3. next = "read"
  BY <1>1, <1>2 DEF StageInv
<1>4. TypeOK'
  BY <1>1, <1>2 DEF TypeOK, Places
<1>5. PinsInv'
  BY <1>1, <1>2 DEF PinsInv
<1>6. KeysInv'
  BY <1>1, <1>2, <1>3 DEF KeysInv, KeysOf, HeldKeys
<1> QED
  BY <1>1, <1>2, <1>3, <1>4, <1>5, <1>6, ReadingGoesOn DEF ChipInv

LEMMA PullUpStep == ChipInv /\ PullUp => ChipInv'
<1> SUFFICES ASSUME ChipInv, PullUp PROVE ChipInv'
  OBVIOUS
<1> USE DEF Sending, InTransfer, Sampling, Starting, reading, cursor, pins
<1>1. /\ TypeOK /\ StageInv /\ PinsInv /\ ByteInv /\ WritingInv /\ ShownInv
      /\ CursorInv /\ KeysInv
  BY DEF ChipInv
<1>2. /\ pc = "pullup" /\ pc' = "fall" /\ dio' = 1
      /\ UNCHANGED <<call, next, bytes, i, reading, cursor, stb, clk, mode, chip>>
  BY DEF PullUp, Go, SetDio
<1>3. next = "read"
  BY <1>1, <1>2 DEF StageInv
<1>4. TypeOK'
  BY <1>1, <1>2 DEF TypeOK, Places
<1>5. PinsInv'
  BY <1>1, <1>2 DEF PinsInv
<1>6. BitsRead(0) = {}
  BY DEF BitsRead
<1>7. i = 0 /\ read = {} /\ chip.out = 8 * n /\ n \in 0 .. 3 /\ chip.phase = "read"
  BY <1>1, <1>2, <1>3 DEF KeysInv, TypeOK
<1>8. KeysInv'
  BY <1>1, <1>2, <1>3, <1>6, <1>7 DEF KeysInv, KeysOf, HeldKeys, BitsRead
<1> QED
  BY <1>1, <1>2, <1>3, <1>4, <1>5, <1>8, ReadingGoesOn DEF ChipInv

LEMMA ReadLowStep == ChipInv /\ ReadLow => ChipInv'
<1> SUFFICES ASSUME ChipInv, ReadLow PROVE ChipInv'
  OBVIOUS
<1> USE DEF Sending, InTransfer, Sampling, Starting, reading, cursor, pins
<1>1. /\ TypeOK /\ StageInv /\ PinsInv /\ ByteInv /\ WritingInv /\ ShownInv
      /\ CursorInv /\ KeysInv
  BY DEF ChipInv
<1>2. /\ pc = "fall" /\ pc' = "sample" /\ clk' = 0 /\ chip' = FallingClk
      /\ UNCHANGED <<call, next, bytes, i, reading, cursor, stb, dio, mode>>
  BY <1>1 DEF ReadLow, Go, SetClk, PinsInv
<1>3. next = "read"
  BY <1>1, <1>2 DEF StageInv
<1>4. /\ chip.out = 8 * n + i /\ n \in 0 .. 3 /\ i \in 0 .. 7 /\ chip.phase = "read"
      /\ read = BitsRead(i)
  BY <1>1, <1>2, <1>3 DEF KeysInv, TypeOK
<1>5. PICK bit \in 0 .. 1, out \in 0 .. 32 :
        bit = KeyBit(8 * n + i) /\ out = 8 * n + i + 1
  BY <1>4 DEF KeyBit
<1>6. chip' = [chip EXCEPT !.level = bit, !.out = out]
  BY <1>2, <1>4, <1>5 DEF FallingClk
<1>7. /\ chip' \in Chips /\ chip'.cells = chip.cells /\ chip'.phase = "read"
      /\ chip'.out = 8 * n + i + 1 /\ chip'.level = KeyBit(8 * n + i)
  BY <1>1, <1>4, <1>5, <1>6 DEF TypeOK, Chips
<1>8. TypeOK'
  BY <1>1, <1>2, <1>7 DEF TypeOK, Places
<1>9. PinsInv'
  BY <1>1, <1>2 DEF PinsInv
<1>10. KeysInv'
  BY <1>1, <1>2, <1>3, <1>4, <1>7 DEF KeysInv, KeysOf, HeldKeys, BitsRead, KeyBit
<1> QED
  BY <1>1, <1>2, <1>3, <1>7, <1>8, <1>9, <1>10, ReadingGoesOn DEF ChipInv

LEMMA SampleStep == ChipInv /\ Sample => ChipInv'
<1> SUFFICES ASSUME ChipInv, Sample PROVE ChipInv'
  OBVIOUS
<1> USE DEF Sending, InTransfer, Sampling, Starting, cursor, pins
<1>1. /\ TypeOK /\ StageInv /\ PinsInv /\ ByteInv /\ WritingInv /\ ShownInv
      /\ CursorInv /\ KeysInv
  BY DEF ChipInv
<1>2. /\ pc = "sample" /\ pc' = "rise"
      /\ read' = {k - 1 : k \in read \ {0}} \cup (IF Line = 1 THEN {7} ELSE {})
      /\ UNCHANGED <<call, next, bytes, i, n, result, cursor, pins, chip>>
  BY DEF Sample, Go
<1>3. next = "read"
  BY <1>1, <1>2 DEF StageInv
<1>4. /\ chip.out = 8 * n + i + 1 /\ n \in 0 .. 3 /\ i \in 0 .. 7 /\ chip.phase = "read"
      /\ read = BitsRead(i) /\ chip.level = KeyBit(8 * n + i)
  BY <1>1, <1>2, <1>3 DEF KeysInv, TypeOK
<1>5. Line = KeyBit(8 * n + i)
  BY <1>1, <1>2, <1>4 DEF Line, PinsInv
<1>6. read' = BitsRead(i + 1)
  <2>1. {k - 1 : k \in read \ {0}} = BitsRead(i + 1) \ {7}
    <3>1. ASSUME NEW k \in read \ {0} PROVE k - 1 \in BitsRead(i + 1) \ {7}
      <4>1. /\ k \in 8 - i .. 7 /\ KeyBit(8 * n + (k + i - 8)) = 1
        BY <1>4, <3>1 DEF BitsRead
      <4>2. (k - 1) + (i + 1) - 8 = k + i - 8 /\ k - 1 \in 8 - (i + 1) .. 6
        BY <1>4, <4>1
      <4> QED
        BY <1>4, <4>1, <4>2 DEF BitsRead
    <3>2. ASSUME NEW m \in BitsRead(i + 1) \ {7}
          PROVE  \E k \in read \ {0} : m = k - 1
      <4>1. m \in 8 - (i + 1) .. 6 /\ KeyBit(8 * n + (m + (i + 1) - 8)) = 1
        BY <1>4, <3>2 DEF BitsRead
      <4>2. (m + 1) + i - 8 = m + (i + 1) - 8 /\ m + 1 \in 8 - i .. 7
        BY <1>4, <4>1
      <4>3. m + 1 \in BitsRead(i) \ {0}
        BY <1>4, <4>1, <4>2 DEF BitsRead
      <4> QED
        BY <1>4, <4>1, <4>3
    <3> QED
      BY <3>1, <3>2
  <2>2. 7 \in BitsRead(i + 1) <=> KeyBit(8 * n + i) = 1
    <3>1. 7 + (i + 1) - 8 = i /\ 7 \in 8 - (i + 1) .. 7
      BY <1>4
    <3> QED
      BY <3>1 DEF BitsRead
  <2> QED
    BY <1>2, <1>5, <2>1, <2>2
<1>7. read' \subseteq 0 .. 7
  <2>1. 8 - (i + 1) .. 7 \subseteq 0 .. 7
    BY <1>4
  <2> QED
    BY <1>6, <2>1 DEF BitsRead
<1>8. TypeOK'
  BY <1>1, <1>2, <1>7 DEF TypeOK, Places
<1>9. PinsInv'
  BY <1>1, <1>2 DEF PinsInv
<1>10. KeysInv'
  BY <1>1, <1>2, <1>3, <1>4, <1>6 DEF KeysInv, KeysOf, HeldKeys, BitsRead, KeyBit
<1> QED
  BY <1>1, <1>2, <1>3, <1>8, <1>9, <1>10, ReadingGoesOn DEF ChipInv

LEMMA ReadHighStep == ChipInv /\ ReadHigh => ChipInv'
<1> SUFFICES ASSUME ChipInv, ReadHigh PROVE ChipInv'
  OBVIOUS
<1> USE DEF Sending, InTransfer, Sampling, Starting, reading, cursor, pins
<1>1. /\ TypeOK /\ StageInv /\ PinsInv /\ ByteInv /\ WritingInv /\ ShownInv
      /\ CursorInv /\ KeysInv
  BY DEF ChipInv
<1>2. next = "read"
  BY <1>1 DEF StageInv, ReadHigh, Go
<1>3. /\ pc = "rise" /\ n \in 0 .. 3 /\ i \in 0 .. 7 /\ chip.phase = "read"
      /\ chip.out = 8 * n + i + 1 /\ read = BitsRead(i + 1)
  BY <1>1, <1>2 DEF KeysInv, TypeOK, ReadHigh, Go
<1>4. /\ pc' = IF i < 7 THEN "fall" ELSE "keys"
      /\ i' = i + 1 /\ clk' = 1
      /\ UNCHANGED <<call, next, bytes, reading, cursor, stb, dio, mode, chip>>
  BY <1>3 DEF ReadHigh, Go, SetClk, RisingClk
<1>5. TypeOK'
  BY <1>1, <1>3, <1>4 DEF TypeOK, Places
<1>6. PinsInv'
  BY <1>1, <1>3, <1>4 DEF PinsInv
<1>7. KeysInv'
  <2>1. \A k \in 0 .. 8 : BitsRead(k)' = BitsRead(k)
    BY <1>4 DEF BitsRead, KeyBit, HeldKeys
  <2>2. PICK j \in 1 .. 8 : j = i' /\ read' = BitsRead(j)'
    BY <1>3, <1>4, <2>1
  <2>3. result' = KeysOf(n)' /\ n' = n /\ chip'.phase = "read"
    BY <1>1, <1>2, <1>3, <1>4 DEF KeysInv, KeysOf, HeldKeys
  <2>4. next' = "read" /\ call'.op # "none" /\ call' # None
    BY <1>1, <1>2, <1>4 DEF StageInv, None
  <2>5. CASE i < 7
    <3>1. pc' = "fall" /\ i' < 8 /\ chip'.out = 8 * n + i'
      BY <1>3, <1>4, <2>5
    <3> QED
      BY <1>3, <2>2, <2>3, <2>4, <3>1 DEF KeysInv, BitsRead
  <2>6. CASE i = 7
    <3>1. pc' = "keys" /\ i' = 8 /\ chip'.out = 8 * n + 8
      BY <1>3, <1>4, <2>6
    <3> QED
      BY <1>3, <2>2, <2>3, <2>4, <3>1 DEF KeysInv, BitsRead
  <2> QED
    BY <1>3, <2>5, <2>6
<1> QED
  BY <1>1, <1>2, <1>3, <1>4, <1>5, <1>6, <1>7, ReadingGoesOn DEF ChipInv

\* The keys of a byte are those of the call with its number modulo four.
LEMMA StoreKeysStep == ChipInv /\ StoreKeys => ChipInv'
<1> SUFFICES ASSUME ChipInv, StoreKeys PROVE ChipInv'
  OBVIOUS
<1> USE DEF Sending, InTransfer, Sampling, Starting, cursor, pins
<1>1. /\ TypeOK /\ StageInv /\ PinsInv /\ ByteInv /\ WritingInv /\ ShownInv
      /\ CursorInv /\ KeysInv
  BY DEF ChipInv
<1>2. /\ pc = "keys" /\ pc' = IF n < 3 THEN "input" ELSE "release"
      /\ result' = result \cup {Place(k) + n : k \in read \ {3, 7}}
      /\ n' = n + 1
      /\ UNCHANGED <<call, next, bytes, i, read, cursor, pins, chip>>
  BY DEF StoreKeys, Go
<1>3. next = "read" /\ call.op = "keys"
  BY <1>1, <1>2, Targets DEF StageInv, None
<1>4. /\ chip.out = 8 * n + 8 /\ n \in 0 .. 3 /\ chip.phase = "read"
      /\ read = BitsRead(8) /\ result = KeysOf(n)
  BY <1>1, <1>2, <1>3 DEF KeysInv, TypeOK
<1>5. call.held \subseteq (0 .. 2) \X (0 .. 7) /\ HeldKeys = call.held
  BY <1>1, <1>3, Targets DEF HeldKeys
<1>6. \A k \in 0 .. 7 : /\ (8 * n + k) % 8 = k /\ (8 * n + k) \div 8 = n
                        /\ k + 8 - 8 = k
  BY <1>4
<1>7. read = {k \in 0 .. 7 : <<k % 4, n + 4 * (k \div 4)>> \in call.held}
  <2>1. ASSUME NEW k \in 0 .. 7
        PROVE  KeyBit(8 * n + (k + 8 - 8)) = 1
                 <=> <<k % 4, n + 4 * (k \div 4)>> \in call.held
    BY <1>4, <1>5, <1>6 DEF KeyBit
  <2>2. 8 - 8 .. 7 = 0 .. 7
    OBVIOUS
  <2> QED
    BY <1>4, <2>1, <2>2 DEF BitsRead
<1>8. ASSUME NEW k \in read \ {3, 7}
      PROVE  \E h \in call.held : h[2] % 4 = n /\ Place(k) + n = 8 * h[1] + h[2]
  <2>1. k \in {0, 1, 2, 4, 5, 6} /\ <<k % 4, n + 4 * (k \div 4)>> \in call.held
    BY <1>7, <1>8
  <2>2. (n + 4 * (k \div 4)) % 4 = n
    BY <1>4, <2>1
  <2>3. Place(k) + n = 8 * (k % 4) + (n + 4 * (k \div 4))
    BY <1>4, <2>1 DEF Place
  <2> QED
    BY <2>1, <2>2, <2>3
<1>9. ASSUME NEW h \in call.held, h[2] % 4 = n
      PROVE  \E k \in read \ {3, 7} : Place(k) + n = 8 * h[1] + h[2]
  <2>1. PICK l \in 0 .. 2, key \in 0 .. 7 : h = <<l, key>>
    BY <1>5
  <2>2. PICK k \in 0 .. 7 : k = l + 4 * (key \div 4)
    BY <2>1
  <2>3. k % 4 = l /\ k \div 4 = key \div 4 /\ n + 4 * (key \div 4) = key /\ k \notin {3, 7}
    BY <1>4, <1>9, <2>1, <2>2
  <2>4. k \in read
    BY <1>7, <2>1, <2>3
  <2>5. Place(k) + n = 8 * l + key
    BY <1>4, <2>1, <2>2, <2>3 DEF Place
  <2> QED
    BY <2>1, <2>3, <2>4, <2>5
<1>10. result' = {8 * k[1] + k[2] : k \in {h \in call.held : h[2] % 4 < n + 1}}
  <2>1. \A h \in call.held : h[2] % 4 < n + 1 <=> h[2] % 4 < n \/ h[2] % 4 = n
    BY <1>4, <1>5
  <2> QED
    BY <1>2, <1>4, <1>5, <1>8, <1>9, <2>1 DEF KeysOf
<1>11. result' = KeysOf(n)'
  BY <1>2, <1>3, <1>10 DEF KeysOf, HeldKeys
<1>12. TypeOK'
  <2>1. result' \subseteq 0 .. 23
    BY <1>5, <1>10
  <2>2. n' \in 0 .. 4 /\ pc' \in Places
    BY <1>2, <1>4 DEF Places
  <2>3. UNCHANGED <<call, next, bytes, i, read, pos, s, stb, clk, dio, mode, chip>>
    BY <1>2
  <2> QED
    BY <1>1, <2>1, <2>2, <2>3 DEF TypeOK
<1>13. PinsInv'
  BY <1>1, <1>2, <1>4 DEF PinsInv
<1>14. KeysInv'
  BY <1>2, <1>3, <1>4, <1>11 DEF KeysInv, None
<1> QED
  BY <1>1, <1>2, <1>3, <1>12, <1>13, <1>14, ReadingGoesOn DEF ChipInv

LEMMA ReleaseStep == ChipInv /\ Release => ChipInv'
<1> SUFFICES ASSUME ChipInv, Release PROVE ChipInv'
  OBVIOUS
<1> USE DEF Sending, InTransfer, Sampling, Starting, reading, cursor, pins
<1>1. /\ TypeOK /\ StageInv /\ PinsInv /\ ByteInv /\ ShownInv /\ CursorInv /\ KeysInv
  BY DEF ChipInv
<1>2. /\ pc = "release" /\ pc' = "close" /\ mode' = "output" /\ next' = "write"
      /\ UNCHANGED <<call, bytes, i, reading, cursor, stb, clk, dio, chip>>
  BY DEF Release, Go, SetMode
<1>3. next = "read" /\ call.op = "keys" /\ call # None
  BY <1>1, <1>2, Targets DEF StageInv, None
<1>4. TypeOK'
  BY <1>1, <1>2 DEF TypeOK, Places
<1>5. StageInv' /\ PinsInv' /\ ByteInv'
  BY <1>1, <1>2, <1>3 DEF StageInv, PinsInv, ByteInv
<1>6. CommandInv' /\ DataInv' /\ WritingInv'
  BY <1>2 DEF CommandInv, DataInv, WritingInv
<1>7. ShownInv'
  BY <1>1, <1>2, <1>3, Targets DEF ShownInv
<1>8. CursorInv'
  BY <1>1, <1>2 DEF CursorInv
<1>9. KeysInv'
  BY <1>1, <1>2, <1>3 DEF KeysInv, KeysOf, HeldKeys
<1> QED
  BY <1>4, <1>5, <1>6, <1>7, <1>8, <1>9 DEF ChipInv

-----------------------------------------------------------------------------
\* The end of a transfer, and the lines at the beginning.
LEMMA LinesRest ==
  ASSUME ChipInv, pc \in Starting \cup {"close"},
         pc' \in Starting \cup {"close", "call"}, pc' \in Starting => pc \in Starting,
         UNCHANGED <<call, next, bytes, reading, cursor, chip.cells, chip.writing>>
  PROVE  /\ StageInv' /\ CommandInv' /\ DataInv' /\ WritingInv' /\ ShownInv'
         /\ CursorInv' /\ KeysInv'
<1> USE DEF Sending, InTransfer, Sampling, Starting, reading, cursor
<1>1. StageInv /\ WritingInv /\ ShownInv /\ CursorInv /\ KeysInv
  BY DEF ChipInv
<1>2. StageInv' /\ CommandInv' /\ DataInv' /\ WritingInv'
  BY <1>1 DEF StageInv, CommandInv, DataInv, WritingInv
<1>3. ShownInv'
  BY <1>1 DEF ShownInv, Coming, Later
<1>4. CursorInv'
  BY <1>1 DEF CursorInv
<1>5. KeysInv'
  BY <1>1 DEF KeysInv, KeysOf, HeldKeys, StageInv
<1> QED
  BY <1>2, <1>3, <1>4, <1>5

\* STB goes up: the chip is as it is between two transfers.
LEMMA Deselected ==
  ASSUME ChipInv, SetStb(1)
  PROVE  /\ stb' = 1 /\ UNCHANGED <<clk, dio, mode>>
         /\ chip' \in Chips /\ chip'.cells = chip.cells /\ chip'.writing = chip.writing
         /\ chip'.phase = "idle" /\ chip'.bits = 0 /\ chip'.in = 0 /\ chip'.level = 1
<1>1. TypeOK /\ PinsInv
  BY DEF ChipInv
<1>2. stb' = 1 /\ UNCHANGED <<clk, dio, mode>>
  BY DEF SetStb
<1>3. CASE stb = 1
  BY <1>1, <1>2, <1>3 DEF SetStb, PinsInv, TypeOK
<1>4. CASE stb # 1
  <2>1. chip' = RisingStb
    BY <1>4 DEF SetStb
  <2>2. /\ chip' = [cells |-> chip'.cells, phase |-> chip'.phase, in |-> chip'.in,
                    bits |-> chip'.bits, out |-> chip'.out, level |-> chip'.level,
                    address |-> chip'.address, writing |-> chip'.writing]
        /\ chip'.cells = chip.cells /\ chip'.phase = "idle" /\ chip'.bits = 0
        /\ chip'.in = 0 /\ chip'.out = 0 /\ chip'.level = 1
        /\ chip'.address = chip.address /\ chip'.writing = chip.writing
    BY <1>1, <2>1 DEF RisingStb, TypeOK, Chips
  <2>3. /\ chip'.cells \in [Cells -> Bytes]
        /\ chip'.phase \in {"idle", "command", "data", "read"}
        /\ chip'.in \in Bytes /\ chip'.bits \in 0 .. 7 /\ chip'.out \in 0 .. 32
        /\ chip'.level \in 0 .. 1 /\ chip'.address \in 0 .. 15
        /\ chip'.writing \in BOOLEAN
    BY <1>1, <2>2, ChipParts DEF TypeOK, Bytes
  <2>4. chip' \in Chips
    BY <2>2, <2>3, ChipMade, Zenon
  <2> QED
    BY <1>2, <2>2, <2>4
<1> QED
  BY <1>3, <1>4

LEMMA CloseStep == ChipInv /\ Close => ChipInv'
<1> SUFFICES ASSUME ChipInv, Close PROVE ChipInv'
  OBVIOUS
<1> USE DEF Sending, InTransfer, Sampling, Starting, reading, cursor, pins
<1>1. TypeOK /\ PinsInv /\ ByteInv
  BY DEF ChipInv
<1>2. /\ pc = "close" /\ pc' = "call" /\ SetStb(1)
      /\ UNCHANGED <<call, next, bytes, i, reading, cursor>>
  BY DEF Close, Go
<1>3. /\ stb' = 1 /\ UNCHANGED <<clk, dio, mode>>
      /\ chip' \in Chips /\ chip'.cells = chip.cells /\ chip'.writing = chip.writing
      /\ chip'.phase = "idle" /\ chip'.bits = 0 /\ chip'.in = 0 /\ chip'.level = 1
  BY <1>2, Deselected
<1>4. TypeOK'
  BY <1>1, <1>2, <1>3 DEF TypeOK, Places
<1>5. PinsInv' /\ ByteInv'
  BY <1>1, <1>2, <1>3 DEF PinsInv, ByteInv
<1> QED
  BY <1>2, <1>3, <1>4, <1>5, LinesRest DEF ChipInv

LEMMA InitPortStep == ChipInv /\ InitPort => ChipInv'
<1> SUFFICES ASSUME ChipInv, InitPort PROVE ChipInv'
  OBVIOUS
<1> USE DEF Sending, InTransfer, Sampling, Starting, reading, cursor, pins
<1>1. TypeOK /\ PinsInv /\ ByteInv
  BY DEF ChipInv
<1>2. /\ pc = "output" /\ pc' = "lines" /\ mode' = "output"
      /\ UNCHANGED <<call, next, bytes, i, reading, cursor, stb, clk, dio, chip>>
  BY DEF InitPort, Go, SetMode
<1>3. TypeOK'
  BY <1>1, <1>2 DEF TypeOK, Places
<1>4. PinsInv' /\ ByteInv'
  BY <1>1, <1>2 DEF PinsInv, ByteInv
<1> QED
  BY <1>2, <1>3, <1>4, LinesRest DEF ChipInv

LEMMA InitLinesStep == ChipInv /\ InitLines => ChipInv'
<1> SUFFICES ASSUME ChipInv, InitLines PROVE ChipInv'
  OBVIOUS
<1> USE DEF Sending, InTransfer, Sampling, Starting, reading, cursor, pins
<1>1. TypeOK /\ PinsInv /\ ByteInv
  BY DEF ChipInv
<1>2. UNCHANGED <<call, next, bytes, i, reading, cursor>>
  BY DEF InitLines, Go
<1>3. CASE pc = "lines" /\ pc' = "lines2" /\ SetStb(1)
  <2>1. /\ stb' = 1 /\ UNCHANGED <<clk, dio, mode>>
        /\ chip' \in Chips /\ chip'.cells = chip.cells /\ chip'.writing = chip.writing
        /\ chip'.phase = "idle" /\ chip'.bits = 0 /\ chip'.in = 0 /\ chip'.level = 1
    BY <1>3, Deselected
  <2>2. TypeOK'
    BY <1>1, <1>2, <1>3, <2>1 DEF TypeOK, Places
  <2>3. PinsInv' /\ ByteInv'
    BY <1>1, <1>2, <1>3, <2>1 DEF PinsInv, ByteInv
  <2> QED
    BY <1>2, <1>3, <2>1, <2>2, <2>3, LinesRest DEF ChipInv
<1>4. CASE pc = "lines2" /\ pc' = "call" /\ SetClk(1)
  <2>1. clk' = 1 /\ UNCHANGED <<stb, dio, mode, chip>>
    BY <1>1, <1>4 DEF SetClk, RisingClk, PinsInv
  <2>2. TypeOK'
    BY <1>1, <1>2, <1>4, <2>1 DEF TypeOK, Places
  <2>3. PinsInv' /\ ByteInv'
    BY <1>1, <1>2, <1>4, <2>1 DEF PinsInv, ByteInv
  <2> QED
    BY <1>2, <1>4, <2>1, <2>2, <2>3, LinesRest DEF ChipInv
<1> QED
  BY <1>3, <1>4 DEF InitLines, IdleLines, Go

-----------------------------------------------------------------------------
\* The beginning of a transfer, the same for all of them.
LEMMA TransferStarts ==
  ASSUME ChipInv, NEW message \in Seq(Bytes), message # <<>>,
         NEW then \in {"brightness", "clear", "string", "read", "return"},
         Transfer(message, then), pos' \in Bytes, s' \in Nat
  PROVE  /\ TypeOK' /\ PinsInv' /\ ByteInv' /\ DataInv'
         /\ pc = "call" /\ pc' = "send" /\ bytes' = message /\ next' = then
         /\ UNCHANGED <<call, reading>>
         /\ chip'.phase = "command" /\ chip'.cells = chip.cells
         /\ chip'.writing = chip.writing
         /\ Coming = {}
<1> USE DEF Sending, InTransfer, Sampling, Starting, reading, cursor, pins
<1>1. TypeOK /\ PinsInv
  BY DEF ChipInv
<1>2. /\ pc = "call" /\ pc' = "send" /\ bytes' = message /\ next' = then
      /\ stb' = 0 /\ UNCHANGED <<call, i, reading, clk, dio, mode>>
  BY DEF Transfer, SetStb
<1>3. chip' = [chip EXCEPT !.phase = "command"]
  BY <1>1, <1>2 DEF Transfer, SetStb, FallingStb, PinsInv
<1>4. /\ chip' \in Chips /\ chip'.phase = "command"
      /\ UNCHANGED <<chip.cells, chip.writing, chip.in, chip.bits, chip.level>>
  BY <1>1, <1>3 DEF TypeOK, Chips
<1>5. TypeOK'
  BY <1>1, <1>2, <1>4 DEF TypeOK, Places
<1>6. PinsInv' /\ ByteInv' /\ DataInv'
  BY <1>1, <1>2, <1>4 DEF PinsInv, ByteInv, DataInv
<1>7. Coming = {}
  BY <1>2 DEF Coming
<1> QED
  BY <1>2, <1>4, <1>5, <1>6, <1>7

LEMMA WriteModeStep == ChipInv /\ WriteMode => ChipInv'
<1> SUFFICES ASSUME ChipInv, WriteMode PROVE ChipInv'
  OBVIOUS
<1> USE DEF Sending, InTransfer, Sampling, Starting, reading, cursor
<1>1. TypeOK /\ StageInv /\ ShownInv /\ CursorInv /\ KeysInv
  BY DEF ChipInv
<1> DEFINE then == IF call.op = "init" THEN "brightness" ELSE "return"
<1>2. <<64>> \in Seq(Bytes) /\ <<64>> # <<>>
  BY DEF Bytes
<1>3. then \in {"brightness", "clear", "string", "read", "return"}
  OBVIOUS
<1>4. next = "write" /\ Transfer(<<64>>, then) /\ UNCHANGED <<pos, s>>
  BY DEF WriteMode
<1>5. pos' \in Bytes /\ s' \in Nat
  BY <1>1, <1>4 DEF TypeOK
<1>6. /\ TypeOK' /\ PinsInv' /\ ByteInv' /\ DataInv'
      /\ pc = "call" /\ pc' = "send" /\ bytes' = <<64>> /\ next' = then
      /\ UNCHANGED <<call, reading>>
      /\ chip'.phase = "command" /\ chip'.cells = chip.cells
  BY <1>2, <1>3, <1>4, <1>5, TransferStarts, Zenon
<1>7. call.op \in {"init", "keys"} /\ call # None
  BY <1>1, <1>4, Targets DEF StageInv, None
<1>8. StageInv' /\ CommandInv' /\ WritingInv'
  BY <1>6, <1>7 DEF StageInv, CommandInv, WritingInv
<1>9. ShownInv'
  BY <1>1, <1>6, <1>7, Targets DEF ShownInv, Later
<1>10. CursorInv'
  BY <1>4, <1>6, <1>7 DEF CursorInv
<1>11. KeysInv'
  BY <1>1, <1>4, <1>6, <1>7 DEF KeysInv, KeysOf, HeldKeys
<1> QED
  BY <1>6, <1>8, <1>9, <1>10, <1>11 DEF ChipInv

LEMMA SetBrightnessStep == ChipInv /\ SetBrightness => ChipInv'
<1> SUFFICES ASSUME ChipInv, SetBrightness PROVE ChipInv'
  OBVIOUS
<1> USE DEF Sending, InTransfer, Sampling, Starting, reading, cursor
<1>1. TypeOK /\ StageInv /\ WritingInv /\ ShownInv /\ CursorInv /\ KeysInv
  BY DEF ChipInv
<1>2. <<143>> \in Seq(Bytes) /\ <<143>> # <<>> /\ Brightness(8) = 143
  BY DEF Bytes, Brightness
<1>3. next = "brightness" /\ Transfer(<<143>>, "clear") /\ UNCHANGED <<pos, s>>
  BY <1>2 DEF SetBrightness
<1>4. pos' \in Bytes /\ s' \in Nat
  BY <1>1, <1>3 DEF TypeOK
<1>5. /\ TypeOK' /\ PinsInv' /\ ByteInv' /\ DataInv'
      /\ pc = "call" /\ pc' = "send" /\ bytes' = <<143>> /\ next' = "clear"
      /\ UNCHANGED <<call, reading>>
      /\ chip'.phase = "command" /\ chip'.cells = chip.cells
      /\ chip'.writing = chip.writing
  BY <1>2, <1>3, <1>4, TransferStarts
<1>6. call.op = "init" /\ call # None
  BY <1>1, <1>3, Targets DEF StageInv, None
<1>7. StageInv' /\ CommandInv' /\ WritingInv'
  BY <1>1, <1>3, <1>5, <1>6 DEF StageInv, CommandInv, WritingInv
<1>8. ShownInv'
  <2>1. Coming' = {16} /\ Later' = 0 .. 15
    BY <1>5 DEF Coming, Later, Cells
  <2>2. DOMAIN Target(call) = Cells
    BY <1>1, <1>6, Targets
  <2> QED
    BY <1>5, <2>1, <2>2 DEF ShownInv, Cells
<1>9. CursorInv' /\ KeysInv'
  BY <1>1, <1>3, <1>5, <1>6 DEF CursorInv, KeysInv
<1> QED
  BY <1>5, <1>7, <1>8, <1>9 DEF ChipInv

LEMMA ClearStep == ChipInv /\ Clear => ChipInv'
<1> SUFFICES ASSUME ChipInv, Clear PROVE ChipInv'
  OBVIOUS
<1> USE DEF Sending, InTransfer, Sampling, Starting, reading, cursor
<1>1. TypeOK /\ StageInv /\ WritingInv /\ ShownInv /\ CursorInv /\ KeysInv
  BY DEF ChipInv
<1> DEFINE message == [k \in 1 .. 17 |-> IF k = 1 THEN 192 ELSE 0]
<1>2. /\ message \in Seq(Bytes) /\ message # <<>> /\ Len(message) = 17
      /\ Head(message) = 192
      /\ Len(Tail(message)) = 16 /\ 0 + Len(Tail(message)) <= 16
      /\ \A k \in 1 .. 16 : Tail(message)[k] = 0
  <2>1. message \in [1 .. 17 -> Bytes]
    BY DEF Bytes
  <2>2. message \in Seq(Bytes) /\ Len(message) = 17
    BY <2>1
  <2> QED
    BY <2>2
<1>3. next = "clear" /\ Transfer(message, "return") /\ UNCHANGED <<pos, s>>
  BY DEF Clear
<1> HIDE DEF message
<1>4. pos' \in Bytes /\ s' \in Nat
  BY <1>1, <1>3 DEF TypeOK
<1>5. /\ TypeOK' /\ PinsInv' /\ ByteInv' /\ DataInv'
      /\ pc = "call" /\ pc' = "send" /\ bytes' = message /\ next' = "return"
      /\ UNCHANGED <<call, reading>>
      /\ chip'.phase = "command" /\ chip'.cells = chip.cells
      /\ chip'.writing = chip.writing /\ Coming = {}
  BY <1>2, <1>3, <1>4, TransferStarts
<1>6. /\ call.op = "init" /\ call # None
      /\ Target(call) = [cell \in Cells |-> IF cell = 16 THEN 15 ELSE 0]
  BY <1>1, <1>3, Targets DEF StageInv, None
<1>7. Wanted(call, 0, Tail(message))
  <2>1. ASSUME NEW k \in 1 .. 16
        PROVE  0 + (k - 1) \in Cells /\ 0 + (k - 1) # 16 /\ Tail(message)[k] = 0
    <3>1. Tail(message)[k] = 0
      BY <1>2, Zenon
    <3>2. 0 + (k - 1) \in Cells /\ 0 + (k - 1) # 16
      BY DEF Cells
    <3> QED
      BY <3>1, <3>2
  <2>2. ASSUME NEW k \in 1 .. 16
        PROVE  /\ 0 + (k - 1) \in DOMAIN Target(call)
               /\ Target(call)[0 + (k - 1)] = Tail(message)[k]
    BY <1>6, <2>1
  <2>3. Len(Tail(message)) = 16 /\ 0 + Len(Tail(message)) <= 16
    BY <1>2, Zenon
  <2> QED
    BY <2>2, <2>3, Zenon DEF Wanted
<1>8. chip.writing
  BY <1>1, <1>3, <1>5 DEF WritingInv
<1>9. StageInv' /\ CommandInv' /\ WritingInv'
  <2>1. Head(bytes') \in 192 .. 207 /\ Head(bytes') % 16 = 0
    BY <1>2, <1>5
  <2> QED
    BY <1>1, <1>5, <1>6, <1>7, <1>8, <2>1 DEF StageInv, CommandInv, WritingInv
<1>10. ShownInv'
  <2>1. Coming' = 0 .. 15
    <3>1. Head(bytes') = 192 /\ 192 % 16 = 0 /\ Len(bytes') = 17 /\ 0 + 17 - 2 = 15
      BY <1>2, <1>5
    <3> QED
      BY <1>5, <3>1 DEF Coming
  <2>2. Later = 0 .. 15
    BY <1>3 DEF Later, Cells
  <2>3. chip.cells[16] = 15
    BY <1>1, <1>5, <1>6, <2>2 DEF ShownInv, Cells
  <2> QED
    BY <1>5, <1>6, <2>1, <2>3 DEF ShownInv, Cells
<1>11. CursorInv' /\ KeysInv'
  BY <1>1, <1>3, <1>5, <1>6 DEF CursorInv, KeysInv
<1> QED
  BY <1>5, <1>9, <1>10, <1>11 DEF ChipInv

LEMMA SetLedStep == ChipInv /\ SetLed => ChipInv'
<1> SUFFICES ASSUME ChipInv, SetLed PROVE ChipInv'
  OBVIOUS
<1> USE DEF Sending, InTransfer, Sampling, Starting, reading, cursor
<1>1. TypeOK /\ StageInv /\ WritingInv /\ ShownInv /\ CursorInv /\ KeysInv
  BY DEF ChipInv
<1> DEFINE message == <<193 + 2 * (call.pos % 8), call.color>>
<1>2. next = "led" /\ Transfer(message, "return") /\ UNCHANGED <<pos, s>>
  BY DEF SetLed
<1>3. /\ call.op = "led" /\ call # None
      /\ Target(call) = [cell \in {2 * (call.pos % 8) + 1} |-> call.color]
      /\ call.pos \in Bytes /\ call.color \in Bytes
  BY <1>1, <1>2, Targets DEF StageInv, None
<1>4. PICK place \in 0 .. 7 : place = call.pos % 8
  BY <1>3 DEF Bytes
<1>5. /\ message = <<193 + 2 * place, call.color>>
      /\ Target(call) = [cell \in {2 * place + 1} |-> call.color]
  BY <1>3, <1>4
<1>6. /\ message \in Seq(Bytes) /\ message # <<>> /\ Len(message) = 2
      /\ Head(message) = 193 + 2 * place /\ Tail(message) = <<call.color>>
  <2>1. 193 + 2 * place \in Bytes
    BY DEF Bytes
  <2> QED
    BY <1>3, <1>5, <2>1
<1> HIDE DEF message
<1>7. pos' \in Bytes /\ s' \in Nat
  BY <1>1, <1>2 DEF TypeOK
<1>8. /\ TypeOK' /\ PinsInv' /\ ByteInv' /\ DataInv'
      /\ pc = "call" /\ pc' = "send" /\ bytes' = message /\ next' = "return"
      /\ UNCHANGED <<call, reading>>
      /\ chip'.phase = "command" /\ chip'.cells = chip.cells
      /\ chip'.writing = chip.writing /\ Coming = {}
  BY <1>2, <1>6, <1>7, TransferStarts
<1>9. /\ (193 + 2 * place) % 16 = 2 * place + 1 /\ 193 + 2 * place \in 192 .. 207
  OBVIOUS
<1>10. Wanted(call, 2 * place + 1, Tail(message))
  BY <1>5, <1>6 DEF Wanted
<1>11. chip.writing
  BY <1>1, <1>2, <1>8 DEF WritingInv
<1>12. StageInv' /\ CommandInv' /\ WritingInv'
  BY <1>3, <1>6, <1>8, <1>9, <1>10, <1>11 DEF StageInv, CommandInv, WritingInv
<1>13. ShownInv'
  <2>1. Coming' = {2 * place + 1}
    <3>1. /\ Head(bytes') = 193 + 2 * place /\ Len(bytes') = 2
          /\ Head(bytes') % 16 = 2 * place + 1 /\ Head(bytes') # 143
          /\ Head(bytes') >= 192
      BY <1>6, <1>8, <1>9
    <3>2. Coming' = 2 * place + 1 .. (2 * place + 1) + 2 - 2
      BY <1>8, <3>1 DEF Coming
    <3> QED
      BY <3>2
  <2> QED
    BY <1>5, <1>8, <2>1 DEF ShownInv
<1>14. CursorInv' /\ KeysInv'
  BY <1>1, <1>2, <1>3, <1>8 DEF CursorInv, KeysInv
<1> QED
  BY <1>8, <1>12, <1>13, <1>14 DEF ChipInv

LEMMA ReadKeysStep == ChipInv /\ ReadKeys => ChipInv'
<1> SUFFICES ASSUME ChipInv, ReadKeys PROVE ChipInv'
  OBVIOUS
<1> USE DEF Sending, InTransfer, Sampling, Starting, reading, cursor
<1>1. TypeOK /\ StageInv /\ WritingInv /\ ShownInv /\ CursorInv /\ KeysInv
  BY DEF ChipInv
<1>2. <<66>> \in Seq(Bytes) /\ <<66>> # <<>>
  BY DEF Bytes
<1>3. next = "keys" /\ Transfer(<<66>>, "read") /\ UNCHANGED <<pos, s>>
  BY DEF ReadKeys
<1>4. pos' \in Bytes /\ s' \in Nat
  BY <1>1, <1>3 DEF TypeOK
<1>5. /\ TypeOK' /\ PinsInv' /\ ByteInv' /\ DataInv'
      /\ pc = "call" /\ pc' = "send" /\ bytes' = <<66>> /\ next' = "read"
      /\ UNCHANGED <<call, reading>>
      /\ chip'.phase = "command" /\ chip'.cells = chip.cells
  BY <1>2, <1>3, <1>4, TransferStarts
<1>6. call.op = "keys" /\ call # None
  BY <1>1, <1>3, Targets DEF StageInv, None
<1>7. StageInv' /\ CommandInv' /\ WritingInv'
  BY <1>5, <1>6 DEF StageInv, CommandInv, WritingInv
<1>8. ShownInv'
  BY <1>1, <1>5, <1>6, Targets DEF ShownInv
<1>9. CursorInv' /\ KeysInv'
  BY <1>1, <1>3, <1>5, <1>6 DEF CursorInv, KeysInv
<1> QED
  BY <1>5, <1>7, <1>8, <1>9 DEF ChipInv

\* The dot adds its bit to a pattern that does not have it.
LEMMA PatternIsByte ==
  ASSUME NEW char \in DOMAIN LED_FONT, NEW dot \in BOOLEAN
  PROVE  Pattern(char, dot) \in Bytes
<1>1. LED_FONT[char] \in Bytes
  BY FontAssumption
<1> QED
  BY <1>1 DEF Pattern, WithDot, Bytes

\* The next character of the text is the next one the panel means, it is for
\* digit pos, and the rest of the text is that of the rest of them.
LEMMA NextGlyph ==
  ASSUME TypeOK, CursorInv, call.op = "string", MoreText
  PROVE  LET dot == DotAt(call.text, s + 1)
         IN  /\ Pattern(call.text[s], dot) \in Bytes
             /\ 2 * pos \in DOMAIN Target(call)
             /\ Target(call)[2 * pos] = Pattern(call.text[s], dot)
             /\ \E start \in [1 .. Len(call.glyphs) + 1 -> 1 .. Len(call.text) + 1] :
                  /\ Spelt(call.text, call.glyphs, start)
                  /\ \E g \in 1 .. Len(call.glyphs) + 1 :
                       /\ pos + 1 = call.pos + g - 1
                       /\ start[g] = s + (IF dot THEN 2 ELSE 1)
<1>1. /\ call.pos \in Bytes /\ call.text \in Seq(STRING)
      /\ call.glyphs \in Seq([char : DOMAIN LED_FONT, dot : BOOLEAN])
      /\ Target(call) = Digits(call.pos, call.glyphs)
  BY Targets, Zenon
<1>2. PICK count \in Nat, size \in Nat, f \in 0 .. 255 :
        count = Len(call.glyphs) /\ size = Len(call.text) /\ f = call.pos
  BY <1>1 DEF Bytes
<1>3. pos \in 0 .. 7 /\ s \in Nat /\ s <= size
  <2>1. pos \in Bytes /\ s \in Nat
    BY Zenon DEF TypeOK
  <2>2. pos < 8 /\ s <= size
    BY <1>2, Zenon DEF MoreText
  <2> QED
    BY <2>1, <2>2 DEF Bytes
<1>4. \A k \in 1 .. count : call.glyphs[k] \in [char : DOMAIN LED_FONT, dot : BOOLEAN]
  <2> DEFINE Glyphs == [char : DOMAIN LED_FONT, dot : BOOLEAN]
  <2>1. call.glyphs \in Seq(Glyphs)
    BY <1>1
  <2> HIDE DEF Glyphs
  <2>2. \A k \in 1 .. count : call.glyphs[k] \in Glyphs
    BY <1>2, <2>1
  <2> QED
    BY <2>2 DEF Glyphs
<1>5. PICK start \in [1 .. Len(call.glyphs) + 1 -> 1 .. Len(call.text) + 1] :
        /\ Spelt(call.text, call.glyphs, start)
        /\ \E g \in 1 .. Len(call.glyphs) + 1 : pos = call.pos + g - 1 /\ s = start[g]
  BY DEF CursorInv
<1>6. PICK g \in 1 .. count + 1 : pos = f + (g - 1) /\ s = start[g]
  BY <1>2, <1>5
<1>7. start[count + 1] = size + 1
  BY <1>2, <1>5 DEF Spelt
<1>8. g \in 1 .. count
  BY <1>3, <1>6, <1>7
<1> DEFINE glyph == call.glyphs[g]
           dot == DotAt(call.text, s + 1)
<1>9. /\ start[g + 1] = start[g] + Width(glyph)
      /\ call.text[s] = glyph.char
      /\ glyph.dot = dot
  BY <1>2, <1>5, <1>6, <1>8 DEF Spelt
<1>10. glyph.char \in DOMAIN LED_FONT /\ glyph.dot \in BOOLEAN
  BY <1>4, <1>8
<1>11. Pattern(glyph.char, glyph.dot) \in Bytes
  BY <1>10, PatternIsByte
<1>12. /\ 2 * pos \in DOMAIN Target(call)
       /\ Target(call)[2 * pos] = Pattern(glyph.char, glyph.dot)
  <2>1. /\ 2 * pos = 2 * (f + (g - 1)) /\ 2 * pos \in 0 .. 15
        /\ (2 * pos) \div 2 = pos
    BY <1>3, <1>6
  <2>2. 2 * pos \in {2 * (f + (k - 1)) : k \in 1 .. count} \cap (0 .. 15)
    BY <1>8, <2>1
  <2>3. ((2 * pos) \div 2) - f + 1 = g
    BY <1>3, <1>6, <2>1
  <2> QED
    BY <1>1, <1>2, <2>2, <2>3 DEF Digits
<1>13. /\ g + 1 \in 1 .. Len(call.glyphs) + 1
       /\ pos + 1 = call.pos + (g + 1) - 1
  BY <1>2, <1>6, <1>8
<1>14. start[g + 1] = s + (IF dot THEN 2 ELSE 1)
  BY <1>6, <1>9 DEF Width
<1> QED
  BY <1>5, <1>9, <1>11, <1>12, <1>13, <1>14

LEMMA PutCharStep == ChipInv /\ PutChar => ChipInv'
<1> SUFFICES ASSUME ChipInv, PutChar PROVE ChipInv'
  OBVIOUS
<1> USE DEF Sending, InTransfer, Sampling, Starting, reading
<1>1. TypeOK /\ StageInv /\ WritingInv /\ ShownInv /\ CursorInv /\ KeysInv
  BY DEF ChipInv
<1> DEFINE dot == DotAt(call.text, s + 1)
           pattern == Pattern(call.text[s], dot)
           message == <<192 + 2 * (pos % 8), pattern>>
<1>2. /\ next = "string" /\ MoreText /\ Transfer(message, "string")
      /\ pos' = pos + 1 /\ s' = s + (IF dot THEN 2 ELSE 1)
  BY DEF PutChar
<1>3. call.op = "string" /\ call # None
  BY <1>1, <1>2, Targets DEF StageInv, None
<1>4. /\ pattern \in Bytes /\ 2 * pos \in DOMAIN Target(call)
      /\ Target(call)[2 * pos] = pattern
      /\ \E start \in [1 .. Len(call.glyphs) + 1 -> 1 .. Len(call.text) + 1] :
           /\ Spelt(call.text, call.glyphs, start)
           /\ \E g \in 1 .. Len(call.glyphs) + 1 :
                pos + 1 = call.pos + g - 1 /\ start[g] = s + (IF dot THEN 2 ELSE 1)
  BY <1>1, <1>2, <1>3, NextGlyph
<1> HIDE DEF dot, pattern
<1>5. PICK place \in 0 .. 7 : place = pos
  <2>1. pos \in Bytes /\ pos < 8
    BY <1>1, <1>2, Zenon DEF TypeOK, MoreText
  <2> QED
    BY <2>1 DEF Bytes
<1>6. pos' \in Bytes /\ s' \in Nat
  <2>1. s \in Nat
    BY <1>1, Zenon DEF TypeOK
  <2> QED
    BY <1>2, <1>5, <2>1 DEF Bytes
<1>7. /\ message \in Seq(Bytes) /\ message # <<>> /\ Len(message) = 2
      /\ Head(message) = 192 + 2 * place /\ Tail(message) = <<pattern>>
      /\ Len(Tail(message)) = 1 /\ Tail(message)[1] = pattern
  <2>1. pos % 8 = place /\ 192 + 2 * place \in Bytes
    BY <1>5 DEF Bytes
  <2> QED
    BY <1>4, <2>1
<1> HIDE DEF message
<1>8. /\ TypeOK' /\ PinsInv' /\ ByteInv' /\ DataInv'
      /\ pc = "call" /\ pc' = "send" /\ bytes' = message /\ next' = "string"
      /\ UNCHANGED <<call, reading>>
      /\ chip'.phase = "command" /\ chip'.cells = chip.cells
      /\ chip'.writing = chip.writing /\ Coming = {}
  BY <1>2, <1>6, <1>7, TransferStarts
<1>9. /\ (192 + 2 * place) % 16 = 2 * place /\ 192 + 2 * place \in 192 .. 207
  OBVIOUS
<1>10. Wanted(call, 2 * place, Tail(message))
  <2>1. 2 * place + Len(Tail(message)) <= 16 /\ 1 .. Len(Tail(message)) = {1}
        /\ 2 * place + (1 - 1) = 2 * place
    BY <1>7
  <2>2. 2 * place \in DOMAIN Target(call) /\ Target(call)[2 * place] = Tail(message)[1]
    BY <1>4, <1>5, <1>7, Zenon
  <2>3. ASSUME NEW k \in 1 .. Len(Tail(message))
        PROVE  /\ 2 * place + (k - 1) \in DOMAIN Target(call)
               /\ Target(call)[2 * place + (k - 1)] = Tail(message)[k]
    <3>1. k = 1
      BY <2>1, <2>3
    <3> QED
      BY <2>1, <2>2, <3>1, Zenon
  <2> QED
    BY <2>1, <2>3, Zenon DEF Wanted
<1>11. chip.writing
  BY <1>1, <1>2, <1>8 DEF WritingInv
<1>12. StageInv' /\ CommandInv' /\ WritingInv'
  BY <1>3, <1>7, <1>8, <1>9, <1>10, <1>11 DEF StageInv, CommandInv, WritingInv
<1>13. ShownInv'
  <2>1. Coming' = {2 * place}
    <3>1. /\ Head(bytes') = 192 + 2 * place /\ Len(bytes') = 2
          /\ Head(bytes') % 16 = 2 * place /\ Head(bytes') # 143
          /\ Head(bytes') >= 192
      BY <1>7, <1>8, <1>9
    <3>2. Coming' = 2 * place .. 2 * place + 2 - 2
      BY <1>8, <3>1 DEF Coming
    <3> QED
      BY <3>2
  <2>2. Later = {cell \in Cells : cell >= 2 * place}
    BY <1>2, <1>5 DEF Later
  <2>3. Later' = {cell \in Cells : cell >= 2 * (place + 1)}
    BY <1>2, <1>5, <1>8 DEF Later
  <2>4. ASSUME NEW cell \in DOMAIN Target(call) \ (Coming' \cup Later')
        PROVE  chip.cells[cell] = Target(call)[cell]
    <3>1. PICK k \in Nat : cell = 2 * k /\ cell \in 0 .. 15
      <4>1. /\ Target(call) = Digits(call.pos, call.glyphs) /\ call.pos \in Bytes
            /\ call.glyphs \in Seq([char : DOMAIN LED_FONT, dot : BOOLEAN])
        BY <1>1, <1>3, Targets, Zenon
      <4>2. PICK f \in 0 .. 255, count \in Nat : f = call.pos /\ count = Len(call.glyphs)
        BY <4>1 DEF Bytes
      <4>3. PICK j \in 1 .. count : cell = 2 * (f + (j - 1)) /\ cell \in 0 .. 15
        BY <4>1, <4>2 DEF Digits
      <4> QED
        BY <4>3
    <3>2. cell \notin Later
      BY <2>1, <2>2, <2>3, <2>4, <3>1 DEF Cells
    <3> QED
      BY <1>1, <1>3, <1>8, <3>2 DEF ShownInv
  <2> QED
    BY <1>8, <2>4 DEF ShownInv
<1>14. CursorInv'
  BY <1>2, <1>3, <1>4, <1>8 DEF CursorInv
<1>15. KeysInv'
  BY <1>1, <1>2, <1>3, <1>8 DEF KeysInv
<1> QED
  BY <1>8, <1>12, <1>13, <1>14, <1>15 DEF ChipInv

LEMMA BeginStep == ChipInv /\ (\E new \in Calls : Begin(new)) => ChipInv'
<1> SUFFICES ASSUME ChipInv, NEW new \in Calls, Begin(new) PROVE ChipInv'
  OBVIOUS
<1> USE DEF Sending, InTransfer, Sampling, Starting, reading
<1>1. /\ TypeOK /\ StageInv /\ PinsInv /\ ByteInv /\ CommandInv /\ DataInv
      /\ WritingInv /\ ShownInv /\ CursorInv /\ KeysInv
  BY DEF ChipInv
<1>2. /\ call = None /\ call' = new /\ next' = new.op
      /\ pos' = (IF new.op = "string" THEN new.pos ELSE 0)
      /\ UNCHANGED <<pc, bytes, i, reading, s, pins, chip>>
  BY DEF Begin
<1>3. new.op \in {"led", "string", "keys"} /\ new \in Calls \cup {FirstCall, None}
  BY CallsAssumption DEF IsCall
<1>4. call.op = "none" /\ next = "none"
  BY <1>1, <1>2 DEF StageInv, None
<1>5. pc = "call"
  BY <1>1, <1>4, Zenon DEF StageInv, TypeOK, Places
<1>6. TypeOK'
  <2>1. new.op = "string" => new.pos \in Bytes
    BY <1>3, TargetsOfCalls, Zenon
  <2>2. pos' \in Bytes
    BY <1>2, <2>1 DEF Bytes
  <2> QED
    BY <1>1, <1>2, <1>3, <2>2 DEF TypeOK, pins
<1>7. StageInv' /\ PinsInv' /\ ByteInv' /\ CommandInv' /\ DataInv'
  BY <1>1, <1>2, <1>3, <1>5 DEF StageInv, PinsInv, ByteInv, CommandInv, DataInv, pins
<1>8. WritingInv'
  BY <1>1, <1>2, <1>4, <1>5 DEF WritingInv
<1>9. ShownInv'
  <2>1. CASE new.op = "led"
    <3>1. Later' = Cells
      BY <1>2, <2>1 DEF Later
    <3>2. DOMAIN Target(new) = {2 * (new.pos % 8) + 1} /\ new.pos \in Bytes
      BY <1>3, <2>1, TargetsOfCalls
    <3>3. DOMAIN Target(new) \subseteq Cells
      BY <3>2 DEF Bytes, Cells
    <3> QED
      BY <1>2, <3>1, <3>3 DEF ShownInv
  <2>2. CASE new.op = "keys"
    <3>1. DOMAIN Target(new) = {}
      BY <1>3, <2>2, TargetsOfCalls
    <3> QED
      BY <1>2, <3>1 DEF ShownInv
  <2>3. CASE new.op = "string"
    <3>1. Later' = {cell \in Cells : cell >= 2 * new.pos}
      BY <1>2, <2>3 DEF Later
    <3>2. Target(new) = Digits(new.pos, new.glyphs) /\ new.pos \in Bytes
          /\ new.glyphs \in Seq([char : DOMAIN LED_FONT, dot : BOOLEAN])
      BY <1>3, <2>3, TargetsOfCalls, Zenon
    <3>3. PICK f \in 0 .. 255, count \in Nat : f = new.pos /\ count = Len(new.glyphs)
      BY <3>2 DEF Bytes
    <3>4. ASSUME NEW cell \in DOMAIN Target(new) PROVE cell \in Later'
      <4>1. PICK k \in 1 .. count : cell = 2 * (f + (k - 1)) /\ cell \in 0 .. 15
        BY <3>2, <3>3, <3>4 DEF Digits
      <4> QED
        BY <3>1, <3>3, <4>1 DEF Cells
    <3> QED
      BY <1>2, <3>4 DEF ShownInv
  <2> QED
    BY <1>3, <2>1, <2>2, <2>3
<1>10. CursorInv'
  <2>1. s = 1 /\ new # None
    BY <1>1, <1>2, <1>3 DEF CursorInv, None
  <2>2. CASE new.op = "string"
    <3>1. new.glyphs \in Seq([char : DOMAIN LED_FONT, dot : BOOLEAN]) /\ new.pos \in Bytes
          /\ \E start \in [1 .. Len(new.glyphs) + 1 -> 1 .. Len(new.text) + 1] :
               Spelt(new.text, new.glyphs, start)
      BY <1>3, <2>2, TargetsOfCalls, Zenon
    <3>2. PICK start \in [1 .. Len(new.glyphs) + 1 -> 1 .. Len(new.text) + 1] :
             Spelt(new.text, new.glyphs, start)
      BY <3>1
    <3>3. start[1] = 1
      BY <3>2 DEF Spelt
    <3>4. 1 \in 1 .. Len(new.glyphs) + 1 /\ new.pos = new.pos + 1 - 1
      <4>1. Len(new.glyphs) \in Nat
        BY <3>1
      <4>2. PICK f \in 0 .. 255 : f = new.pos
        BY <3>1, Zenon DEF Bytes
      <4> QED
        BY <4>1, <4>2
    <3> QED
      BY <1>2, <2>1, <2>2, <3>2, <3>3, <3>4 DEF CursorInv
  <2>3. CASE new.op # "string"
    BY <1>2, <2>1, <2>3 DEF CursorInv
  <2> QED
    BY <2>2, <2>3
<1>11. KeysInv'
  BY <1>1, <1>2, <1>3, <1>4, <1>5 DEF KeysInv, None
<1> QED
  BY <1>6, <1>7, <1>8, <1>9, <1>10, <1>11 DEF ChipInv

LEMMA ReturnStep == ChipInv /\ Return => ChipInv'
<1> SUFFICES ASSUME ChipInv, Return PROVE ChipInv'
  OBVIOUS
<1> USE DEF Sending, InTransfer, Sampling, Starting, reading
<1>1. /\ TypeOK /\ StageInv /\ PinsInv /\ ByteInv /\ CommandInv /\ DataInv
      /\ WritingInv /\ ShownInv /\ CursorInv /\ KeysInv
  BY DEF ChipInv
<1>2. /\ pc = "call" /\ next \in {"return", "string"}
      /\ call' = None /\ next' = "none"
      /\ i' = 0 /\ read' = {} /\ n' = 0 /\ result' = {} /\ pos' = 0 /\ s' = 1
      /\ UNCHANGED <<pc, bytes, pins, chip>>
  BY DEF Return, Locals
<1>3. TypeOK'
  BY <1>1, <1>2 DEF TypeOK, Bytes, pins
<1>4. StageInv' /\ PinsInv' /\ ByteInv' /\ CommandInv' /\ DataInv'
  BY <1>1, <1>2 DEF StageInv, PinsInv, ByteInv, CommandInv, DataInv, pins, None
<1>5. WritingInv' /\ ShownInv' /\ CursorInv' /\ KeysInv'
  BY <1>1, <1>2 DEF WritingInv, ShownInv, CursorInv, KeysInv, None
<1> QED
  BY <1>3, <1>4, <1>5 DEF ChipInv

\* The chip may be anywhere in a transfer when the program starts again.
LEMMA RestartStep == ChipInv /\ Restart => ChipInv'
<1> SUFFICES ASSUME ChipInv, Restart PROVE ChipInv'
  OBVIOUS
<1> USE DEF Sending, InTransfer, Sampling, Starting, reading
<1>1. /\ TypeOK /\ PinsInv
  BY DEF ChipInv
<1>2. /\ pc' = "output" /\ next' = "write" /\ bytes' = <<>> /\ call' = FirstCall
      /\ i' = 0 /\ read' = {} /\ n' = 0 /\ result' = {} /\ pos' = 0 /\ s' = 1
      /\ UNCHANGED <<pins, chip>>
  BY DEF Restart, Locals
<1>3. TypeOK'
  BY <1>1, <1>2 DEF TypeOK, Bytes, pins, Places
<1>4. StageInv' /\ PinsInv' /\ ByteInv' /\ CommandInv' /\ DataInv'
  BY <1>1, <1>2 DEF StageInv, PinsInv, ByteInv, CommandInv, DataInv, pins, FirstCall
<1>5. WritingInv' /\ CursorInv' /\ KeysInv'
  BY <1>2 DEF WritingInv, CursorInv, KeysInv, FirstCall, None
<1>6. ShownInv'
  <2>1. Later' = Cells
    BY <1>2 DEF Later
  <2>2. DOMAIN Target(FirstCall) = Cells
    BY DEF Target, FirstCall
  <2> QED
    BY <1>2, <2>1, <2>2 DEF ShownInv
<1> QED
  BY <1>3, <1>4, <1>5, <1>6 DEF ChipInv

LEMMA ChipInit == Init => ChipInv
<1> SUFFICES ASSUME Init PROVE ChipInv
  OBVIOUS
<1> USE DEF Sending, InTransfer, Sampling, Starting
<1>1. /\ call = FirstCall /\ pc = "output" /\ next = "write" /\ bytes = <<>>
      /\ i = 0 /\ read = {} /\ n = 0 /\ result = {} /\ pos = 0 /\ s = 1
      /\ stb = 0 /\ clk = 0 /\ dio = 0 /\ mode = "output"
      /\ chip \in [cells : PowerOnCells, phase : {"command"}, in : {0}, bits : {0},
                   out : {0}, level : {1}, address : {0}, writing : BOOLEAN]
  BY DEF Init
<1>2. chip \in Chips
  BY <1>1, CellsAssumption DEF Chips, Bytes
<1>3. TypeOK
  BY <1>1, <1>2 DEF TypeOK, Bytes, pins, Places
<1>4. StageInv /\ PinsInv /\ ByteInv /\ CommandInv /\ DataInv
  BY <1>1 DEF StageInv, PinsInv, ByteInv, CommandInv, DataInv, FirstCall
<1>5. WritingInv /\ CursorInv /\ KeysInv
  BY <1>1 DEF WritingInv, CursorInv, KeysInv, FirstCall, None
<1>6. ShownInv
  <2>1. Later = Cells
    BY <1>1 DEF Later
  <2>2. DOMAIN Target(FirstCall) = Cells
    BY DEF Target, FirstCall
  <2> QED
    BY <1>1, <2>1, <2>2 DEF ShownInv
<1> QED
  BY <1>3, <1>4, <1>5, <1>6 DEF ChipInv

LEMMA ChipNext == ChipInv /\ [Next]_vars => ChipInv'
<1> SUFFICES ASSUME ChipInv, [Next]_vars PROVE ChipInv'
  OBVIOUS
<1>1. CASE Send
  BY <1>1, SendStartStep, SendLowStep, SendBitStep, SendHighStep, SendEndStep DEF Send
<1>2. CASE ReadBit
  BY <1>2, ReadStartStep, PullUpStep, ReadLowStep, SampleStep, ReadHighStep DEF ReadBit
<1>3. CASE Initialise
  BY <1>3, InitPortStep, InitLinesStep, WriteModeStep, SetBrightnessStep, ClearStep
     DEF Initialise
<1>4. CASE Close \/ SetLed \/ PutChar \/ ReadKeys \/ StoreKeys \/ Release
  BY <1>4, CloseStep, SetLedStep, PutCharStep, ReadKeysStep, StoreKeysStep, ReleaseStep
<1>5. CASE \E new \in Calls : Begin(new)
  BY <1>5, BeginStep
<1>6. CASE Return \/ Restart
  BY <1>6, ReturnStep, RestartStep
<1>7. CASE UNCHANGED vars
  <2> USE DEF vars, pins, reading, cursor
  <2>1. TypeOK' /\ StageInv' /\ PinsInv' /\ ByteInv' /\ CommandInv' /\ DataInv'
    BY <1>7 DEF ChipInv, TypeOK, StageInv, PinsInv, ByteInv, CommandInv, DataInv
  <2>2. WritingInv' /\ ShownInv' /\ CursorInv'
    BY <1>7 DEF ChipInv, WritingInv, ShownInv, Coming, Later, CursorInv
  <2>3. KeysInv'
    <3>1. BitsRead(i)' = BitsRead(i)
      BY <1>7, Zenon DEF BitsRead, KeyBit, HeldKeys
    <3>2. (BitsRead(i + 1))' = BitsRead(i + 1)
      BY <1>7, Zenon DEF BitsRead, KeyBit, HeldKeys
    <3>3. (BitsRead(8))' = BitsRead(8)
      BY <1>7, Zenon DEF BitsRead, KeyBit, HeldKeys
    <3>4. (KeyBit(8 * n + i))' = KeyBit(8 * n + i)
      BY <1>7, Zenon DEF KeyBit, HeldKeys
    <3> QED
      BY <1>7, <3>1, <3>2, <3>3, <3>4 DEF ChipInv, KeysInv, KeysOf, HeldKeys
  <2> QED
    BY <2>1, <2>2, <2>3 DEF ChipInv
<1> QED
  BY <1>1, <1>2, <1>3, <1>4, <1>5, <1>6, <1>7 DEF Next

-----------------------------------------------------------------------------
\* What the panel gets of the driver.

\* Only the last bit of a byte changes what the chip shows.
LEMMA CellsKept ==
  ASSUME ChipInv, Next, ~SendHigh
  PROVE  chip'.cells = chip.cells
<1> USE DEF pins
<1>1. /\ chip \in Chips /\ PinsInv /\ StageInv /\ KeysInv
  BY DEF ChipInv, TypeOK
<1>2. ASSUME NEW v, SetStb(v) PROVE chip'.cells = chip.cells
  BY <1>1, <1>2 DEF SetStb, RisingStb, FallingStb, Chips
<1>3. ASSUME SetClk(0) PROVE chip'.cells = chip.cells
  BY <1>1, <1>3 DEF SetClk, FallingClk, Chips
<1>4. ASSUME SetClk(1), chip.phase \notin {"command", "data"}
      PROVE  chip'.cells = chip.cells
  BY <1>4 DEF SetClk, RisingClk, FallingClk
<1>5. CASE Send
  BY <1>3, <1>5 DEF Send, SendStart, SendLow, SendBit, SendEnd, SetDio
<1>6. CASE ReadBit
  <2>1. ReadHigh => chip.phase = "read"
    BY <1>1 DEF ReadHigh, Go, StageInv, KeysInv, Sending, Sampling
  <2> QED
    BY <1>3, <1>4, <1>6, <2>1
    DEF ReadBit, ReadStart, PullUp, ReadLow, Sample, ReadHigh, SetDio, SetMode
<1>7. CASE InitPort \/ InitLines
  <2>1. pc = "lines2" => chip.phase = "idle"
    BY <1>1 DEF PinsInv
  <2> QED
    BY <1>2, <1>4, <1>7, <2>1 DEF InitPort, InitLines, IdleLines, Go, SetMode
<1>8. CASE WriteMode \/ SetBrightness \/ Clear \/ SetLed \/ PutChar \/ ReadKeys
  <2>1. SetStb(0)
    BY <1>8 DEF WriteMode, SetBrightness, Clear, SetLed, PutChar, ReadKeys, Transfer
  <2> QED
    BY <1>2, <2>1
<1>9. CASE Close \/ StoreKeys \/ Release
  BY <1>2, <1>9 DEF Close, StoreKeys, Release, SetMode
<1>10. CASE (\E new \in Calls : Begin(new)) \/ Return \/ Restart
  BY <1>10 DEF Begin, Return, Restart
<1> QED
  BY <1>5, <1>6, <1>7, <1>8, <1>9, <1>10 DEF Next, Initialise

\* A call goes on to its end, unless the program starts again.
LEMMA CallKept ==
  ASSUME Next, ~Return, ~Restart, \A new \in Calls : ~Begin(new)
  PROVE  call' = call
BY DEF Next, Send, ReadBit, Initialise, SendStart, SendLow, SendBit, SendHigh, SendEnd,
       ReadStart, PullUp, ReadLow, Sample, ReadHigh, InitPort, InitLines, WriteMode,
       SetBrightness, Clear, Close, SetLed, PutChar, ReadKeys, StoreKeys, Release,
       Transfer, Go

\* Nothing goes on between the calls.
LEMMA NothingBetween ==
  ASSUME ChipInv, call = None
  PROVE  ~SendHigh
BY DEF ChipInv, StageInv, SendHigh, Go, InTransfer, Sending, None

\* At its end, all that a call is about is as it says.  A text has ended at the
\* last digit or after its last character.
LEMMA CallEnds ==
  ASSUME ChipInv, Return
  PROVE  /\ call # None
         /\ \A cell \in DOMAIN Target(call) : chip.cells[cell] = Target(call)[cell]
<1> USE DEF Sending, InTransfer
<1>1. TypeOK /\ StageInv /\ ShownInv /\ CursorInv
  BY DEF ChipInv
<1>2. pc = "call" /\ (next = "return" \/ (next = "string" /\ ~MoreText))
  BY DEF Return
<1>3. call # None /\ Coming = {}
  BY <1>1, <1>2 DEF StageInv, None, Coming
<1>4. CASE next = "return"
  <2>1. Later = {}
    BY <1>4 DEF Later
  <2> QED
    BY <1>1, <1>3, <2>1 DEF ShownInv
<1>5. CASE next = "string" /\ ~MoreText
  <2>1. call.op = "string"
    BY <1>1, <1>3, <1>5, Targets DEF StageInv
  <2>2. /\ Target(call) = Digits(call.pos, call.glyphs) /\ call.pos \in Bytes
        /\ call.glyphs \in Seq([char : DOMAIN LED_FONT, dot : BOOLEAN])
        /\ call.text \in Seq(STRING)
    BY <1>1, <2>1, Targets, Zenon
  <2>3. PICK count \in Nat, size \in Nat, f \in 0 .. 255 :
          count = Len(call.glyphs) /\ size = Len(call.text) /\ f = call.pos
    <3>1. Len(call.glyphs) \in Nat
      BY <2>2
    <3>2. Len(call.text) \in Nat
      BY <2>2
    <3> QED
      BY <2>2, <3>1, <3>2, Zenon DEF Bytes
  <2>4. PICK start \in [1 .. Len(call.glyphs) + 1 -> 1 .. Len(call.text) + 1] :
          /\ Spelt(call.text, call.glyphs, start)
          /\ \E g \in 1 .. Len(call.glyphs) + 1 : pos = call.pos + g - 1 /\ s = start[g]
    BY <1>1, <2>1 DEF CursorInv
  <2>5. PICK g \in 1 .. count + 1 : pos = f + (g - 1) /\ s = start[g]
    BY <2>3, <2>4
  <2>6. pos >= 8 \/ g = count + 1
    <3>1. SUFFICES ASSUME pos < 8, g # count + 1 PROVE FALSE
      BY <2>3, <2>5
    <3>2. s > size
      BY <1>5, <2>3, <2>4, <2>5, <3>1 DEF MoreText
    <3>3. g \in 1 .. count /\ g + 1 \in 1 .. count + 1
      BY <2>5, <3>1
    <3>4. start[g + 1] = start[g] + Width(call.glyphs[g])
      BY <2>3, <2>4, <3>3 DEF Spelt
    <3>5. start[g + 1] \in 1 .. size + 1 /\ start[g] \in 1 .. size + 1
      BY <2>3, <2>4, <2>5, <3>3
    <3> QED
      BY <2>5, <3>2, <3>4, <3>5 DEF Width
  <2>7. ASSUME NEW cell \in DOMAIN Target(call) PROVE cell \notin Later
    <3>1. PICK k \in 1 .. count : cell = 2 * (f + (k - 1)) /\ cell \in 0 .. 15
      BY <2>2, <2>3, <2>7 DEF Digits
    <3>2. Later = {other \in Cells : other >= 2 * pos}
      BY <1>5 DEF Later
    <3> QED
      BY <2>5, <2>6, <3>1, <3>2
  <2> QED
    BY <1>1, <1>3, <2>7 DEF ShownInv
<1> QED
  BY <1>2, <1>3, <1>4, <1>5

\* Every step is one of what the driver promises, or none.
LEMMA DisplayStep == ChipInv /\ [Next]_vars => [Display!Next]_(Display!vars)
<1> SUFFICES ASSUME ChipInv, [Next]_vars PROVE [Display!Next]_(Display!vars)
  OBVIOUS
<1>1. chip.cells \in [Cells -> Bytes]
  BY ChipParts DEF ChipInv, TypeOK
<1>2. CASE SendHigh
  <2>1. call' = call /\ call # None
    BY <1>2, NothingBetween DEF SendHigh, Go
  <2>2. chip'.cells \in [Cells -> Bytes]
    BY <1>2, SendHighStep, ChipParts DEF ChipInv, TypeOK
  <2>3. \A cell \in Cells : Display!Shown(cell)
    BY <1>2, SendHighStep
  <2> QED
    BY <1>1, <2>1, <2>2, <2>3 DEF Display!Next, Display!Show
<1>3. CASE Next /\ ~SendHigh
  <2>1. chip'.cells = chip.cells
    BY <1>3, CellsKept
  <2>2. ASSUME NEW new \in Calls, Begin(new) PROVE Display!Next
    BY <2>1, <2>2 DEF Begin, Display!Next, Display!Begin
  <2>3. CASE Return
    BY <2>1, <2>3, CallEnds DEF Return, Display!Next, Display!Return
  <2>4. CASE Restart
    BY <2>1, <2>4 DEF Restart, Display!Next, Display!Restart
  <2>5. CASE call' = call
    BY <2>1, <2>5 DEF Display!vars
  <2> QED
    BY <1>3, <2>2, <2>3, <2>4, <2>5, CallKept
<1>4. CASE UNCHANGED vars
  BY <1>4 DEF vars, Display!vars
<1> QED
  BY <1>2, <1>3, <1>4

\* The keys of the call have all been read when it ends.
LEMMA KeysStep ==
  ChipInv /\ [Next]_vars
    => [call.op = "keys" /\ call' = None =>
          result = {8 * k[1] + k[2] : k \in call.held}]_vars
<1> SUFFICES ASSUME ChipInv, Next, call.op = "keys", call' = None
             PROVE  result = {8 * k[1] + k[2] : k \in call.held}
  OBVIOUS
<1>1. TypeOK /\ StageInv /\ KeysInv
  BY DEF ChipInv
<1>2. call # None
  BY DEF None
<1>3. Return
  <2>1. ~Restart
    BY DEF Restart, FirstCall, None
  <2>2. \A new \in Calls : ~Begin(new)
    BY <1>2 DEF Begin
  <2> QED
    BY <1>2, <2>1, <2>2, CallKept
<1>4. next = "return"
  BY <1>1, <1>3 DEF Return, StageInv
<1>5. result = KeysOf(4)
  BY <1>1, <1>4 DEF KeysInv
<1>6. call.held \subseteq (0 .. 2) \X (0 .. 7)
  BY <1>1, Targets
<1>7. {h \in HeldKeys : h[2] % 4 < 4} = call.held
  BY <1>6 DEF HeldKeys
<1> QED
  BY <1>5, <1>7 DEF KeysOf

LEMMA ChipTypes == Spec => []TypeOK
<1>1. ChipInv => TypeOK
  BY DEF ChipInv
<1> QED
  BY <1>1, ChipInit, ChipNext, PTL DEF Spec

LEMMA DisplayPromise == Spec => DisplaySpec
<1>1. Init => Display!Init
  BY DEF Init, Display!Init
<1> QED
  BY <1>1, ChipInit, ChipNext, DisplayStep, PTL DEF Spec, DisplaySpec, Display!Spec

LEMMA KeysPromise == Spec => KeysRead
  BY ChipInit, ChipNext, KeysStep, PTL DEF Spec, KeysRead

-----------------------------------------------------------------------------
(***************************************************************************)
(* The serial port.                                                        *)
(***************************************************************************)
\* What the test of TXE is still worth when the character is stored: the handler
\* stores into an empty register, the main thread over a character of the handler
\* at worst, and that one ended a text.
UsartStep ==
  /\ \A x \in Serial!Threads :
       serial_pc[x] \in {"wait", "send"} => serial_ret[x] < len[x]
  /\ serial_pc["handler"] = "send" => dr = Serial!Empty
  /\ serial_pc["main"] = "send" => dr.from # "main"
  /\ dr.from = "handler" /\ serial_pc["handler"] = "out" => dr.last
  /\ dr.from = "handler" /\ serial_pc["handler"] = "loop"
       => dr.last \/ serial_ret["handler"] < len["handler"]

UsartInv == Serial!TypeOK /\ Serial!MainTextWhole /\ UsartStep

LEMMA UsartInit == Serial!Init => UsartInv
  BY TextsAssumption
  DEF Serial!Init, UsartInv, Serial!TypeOK, Serial!MainTextWhole, UsartStep,
      Serial!Threads, Serial!Empty

\* A step of the invariant, one action after the other.
LEMMA UsartNext == UsartInv /\ [Serial!Next]_(Serial!vars) => UsartInv'
<1> SUFFICES ASSUME UsartInv, [Serial!Next]_(Serial!vars) PROVE UsartInv'
  OBVIOUS
<1>0. Serial!TypeOK /\ Serial!MainTextWhole /\ UsartStep
  BY DEF UsartInv
<1>1. ASSUME NEW x \in Serial!Threads, Serial!Write(x) PROVE UsartInv'
  BY <1>0, <1>1, TextsAssumption
  DEF Serial!Write, Serial!At, Serial!Goto, UsartInv, Serial!TypeOK,
      Serial!MainTextWhole, UsartStep, Serial!Threads
<1>2. ASSUME NEW x \in Serial!Threads, Serial!Loop(x) PROVE UsartInv'
  BY <1>0, <1>2
  DEF Serial!Loop, Serial!More, Serial!At, Serial!Goto, UsartInv, Serial!TypeOK,
      Serial!MainTextWhole, UsartStep, Serial!Threads
<1>3. ASSUME NEW x \in Serial!Threads, Serial!Wait(x) PROVE UsartInv'
  BY <1>0, <1>3
  DEF Serial!Wait, Serial!TransmitterEmpty, Serial!Empty, Serial!At, Serial!Goto,
      UsartInv, Serial!TypeOK, Serial!MainTextWhole, UsartStep, Serial!Threads
<1>4. ASSUME NEW x \in Serial!Threads, Serial!Send(x) PROVE UsartInv'
  <2>1. /\ serial_pc[x] = "send" /\ (x = "main" => serial_pc["handler"] = "out")
        /\ dr' = [from |-> x, last |-> serial_ret[x] + 1 = len[x]]
        /\ serial_ret' = [serial_ret EXCEPT ![x] = serial_ret[x] + 1]
        /\ owed' = owed + (IF x = "main" THEN 1 ELSE 0)
        /\ serial_pc' = [serial_pc EXCEPT ![x] = "loop"]
        /\ len' = len /\ texts' = texts
    BY <1>4 DEF Serial!Send, Serial!At, Serial!Goto
  <2>2. serial_ret[x] < len[x] /\ serial_ret[x] + 1 \in 0 .. MaxLen
    BY <1>0, <2>1, TextsAssumption DEF Serial!TypeOK, UsartStep, Serial!Threads
  <2>3. Serial!MainTextWhole' /\ owed' \in 0 .. 1
    BY <1>0, <2>1 DEF Serial!MainTextWhole, Serial!TypeOK, UsartStep, Serial!Threads, Serial!Empty
  <2>4. dr' \in [from : Serial!Threads, last : BOOLEAN]
    BY <2>1
  <2>5. Serial!TypeOK'
    BY <1>0, <2>1, <2>2, <2>3, <2>4 DEF Serial!TypeOK, Serial!Threads
  <2>6. UsartStep'
    <3>1. /\ serial_pc'[x] = "loop" /\ serial_ret'[x] = serial_ret[x] + 1
          /\ dr'.from = x /\ dr'.last = (serial_ret[x] + 1 = len[x]) /\ dr' # Serial!Empty
          /\ \A y \in Serial!Threads \ {x} :
               serial_pc'[y] = serial_pc[y] /\ serial_ret'[y] = serial_ret[y]
      BY <1>0, <2>1 DEF Serial!TypeOK, Serial!Threads, Serial!Empty
    <3>2. CASE x = "main"
      BY <1>0, <2>1, <3>1, <3>2 DEF UsartStep, Serial!Threads
    <3>3. CASE x = "handler"
      <4>1. dr'.last \/ serial_ret'["handler"] < len'["handler"]
        <5>1. CASE serial_ret[x] + 1 = len[x]
          BY <3>1, <5>1, Zenon
        <5>2. CASE serial_ret[x] + 1 # len[x]
          BY <1>0, <2>1, <2>2, <3>1, <3>3, <5>2 DEF Serial!TypeOK, Serial!Threads
        <5> QED
          BY <5>1, <5>2
      <4> QED
        BY <1>0, <2>1, <3>1, <3>3, <4>1 DEF UsartStep, Serial!Threads
    <3> QED
      BY <3>2, <3>3 DEF Serial!Threads
  <2> QED
    BY <2>3, <2>5, <2>6 DEF UsartInv
<1>5. CASE Serial!Transmit
  BY <1>0, <1>5
  DEF Serial!Transmit, UsartInv, Serial!TypeOK, Serial!MainTextWhole, UsartStep,
      Serial!Threads, Serial!Empty
<1>6. CASE UNCHANGED Serial!vars
  BY <1>0, <1>6 DEF Serial!vars, UsartInv, Serial!TypeOK, Serial!MainTextWhole, UsartStep
<1> QED
  BY <1>1, <1>2, <1>3, <1>4, <1>5, <1>6 DEF Serial!Next, Serial!Going

\* Every thread is at a place of _write and within its text, and at most one
\* character of the main thread is on its way (usart.c:52-76).
LEMMA UsartTypeCorrect == Serial!Spec => []Serial!TypeOK
<1>1. UsartInv => Serial!TypeOK
  BY DEF UsartInv
<1> QED
  BY <1>1, UsartInit, UsartNext, PTL DEF Serial!Spec

\* What the main thread has stored reaches the line, although the handler may
\* print between its test of TXE and its store (usart.c:52-57).
LEMMA MainTextKept == Serial!Spec => []Serial!MainTextWhole
<1>1. UsartInv => Serial!MainTextWhole
  BY DEF UsartInv
<1> QED
  BY <1>1, UsartInit, UsartNext, PTL DEF Serial!Spec

\* A character is only ever stored over the last one of a text of the handler.
LEMMA LossAtTheEnd == Serial!Spec => Serial!OnlyLastLost
<1>1. ASSUME UsartInv, NEW x \in Serial!Threads, Serial!Send(x), dr # Serial!Empty
      PROVE  dr.from = "handler" /\ dr.last
  <2>1. x = "main" /\ serial_pc["main"] = "send" /\ serial_pc["handler"] = "out"
    BY <1>1 DEF UsartInv, UsartStep, Serial!Send, Serial!At, Serial!Threads
  <2>2. dr.from = "handler"
    BY <1>1, <2>1 DEF UsartInv, Serial!TypeOK, UsartStep, Serial!Threads
  <2> QED
    BY <1>1, <2>1, <2>2 DEF UsartInv, UsartStep
<1>2. UsartInv /\ [Serial!Next]_(Serial!vars)
        => [dr # Serial!Empty /\ (\E x \in Serial!Threads : Serial!Send(x))
              => dr.from = "handler" /\ dr.last]_(Serial!vars)
  BY <1>1
<1> QED
  BY <1>2, UsartInit, UsartNext, PTL DEF Serial!Spec, Serial!OnlyLastLost

-----------------------------------------------------------------------------
(***************************************************************************)
(* The debugger console.  Its buffer is a ring, the lemmas of RingProofs   *)
(* are those about its indices and its contents.                           *)
(***************************************************************************)
MailboxRing == INSTANCE RingProofs WITH
  Size <- STLINKY_BUFSIZE, Elements <- Characters, data <- upbuff, head <- up_head,
  tail <- up_tail, writer <- stl_pc, reader <- stl_pc, c <- stl_c, got <- seen

LEMMA MailboxSane == MailboxRing!SizeAssumption /\ MailboxRing!NothingAssumption
  BY MailboxAssumption DEF MailboxRing!SizeAssumption, MailboxRing!NothingAssumption

LEMMA MailboxNextSlot ==
  ASSUME NEW h \in 0 .. STLINKY_BUFSIZE - 1
  PROVE  /\ (h + 1) % STLINKY_BUFSIZE \in 0 .. STLINKY_BUFSIZE - 1
         /\ (h + 1) % STLINKY_BUFSIZE = IF h = STLINKY_BUFSIZE - 1 THEN 0 ELSE h + 1
<1>1. h \in MailboxRing!Slots
  BY DEF MailboxRing!Slots
<1>2. /\ MailboxRing!Masked(h + 1) \in MailboxRing!Slots
      /\ MailboxRing!Masked(h + 1) = IF h = STLINKY_BUFSIZE - 1 THEN 0 ELSE h + 1
  BY <1>1, MailboxSane, MailboxRing!NextSlot
<1> QED
  BY <1>2 DEF MailboxRing!Masked, MailboxRing!Slots

Letters == MailboxRing!Contents(upbuff, up_head, up_tail)

\* What a character on its way relies on: there is room for it, whatever the
\* debugger takes in between, and the slot of the head holds it before the head
\* is moved.
MailboxInv ==
  /\ Mailbox!TypeOK
  /\ stl_pc # "out" => /\ next_head = Mailbox!NextHead /\ next_head # up_tail
                       /\ stl_c \in Characters
  /\ stl_pc = "advance" => upbuff[up_head] = stl_c

LEMMA MailboxInit == Mailbox!Init => MailboxInv
  BY MailboxAssumption DEF Mailbox!Init, MailboxInv, Mailbox!TypeOK

\* A step keeps the invariant and is one of the queue, or none.
LEMMA MailboxNext ==
  MailboxInv /\ [Mailbox!Next]_mailboxVars
    => MailboxInv' /\ [Mailbox!Fifo!Next]_(Mailbox!Fifo!vars)
<1> SUFFICES ASSUME MailboxInv, [Mailbox!Next]_mailboxVars
             PROVE  MailboxInv' /\ [Mailbox!Fifo!Next]_(Mailbox!Fifo!vars)
  OBVIOUS
<1> DEFINE S == 0 .. STLINKY_BUFSIZE - 1
<1>0. /\ upbuff \in [S -> Characters \cup {Nothing}]
      /\ up_head \in S /\ up_tail \in S /\ next_head \in S
      /\ stl_pc \in {"out", "store", "advance"}
      /\ stl_c \in Characters \cup {Nothing} /\ seen \in Characters \cup {Nothing}
      /\ stl_pc # "out" => /\ next_head = (up_head + 1) % STLINKY_BUFSIZE
                           /\ next_head # up_tail /\ stl_c \in Characters
      /\ stl_pc = "advance" => upbuff[up_head] = stl_c
  BY DEF MailboxInv, Mailbox!TypeOK, Mailbox!NextHead
<1>00. /\ (up_head + 1) % STLINKY_BUFSIZE \in S
       /\ (up_tail + 1) % STLINKY_BUFSIZE \in S
       /\ up_head # up_tail => (up_head + 1) % STLINKY_BUFSIZE
                                 # (up_tail + 1) % STLINKY_BUFSIZE
  BY <1>0, MailboxNextSlot, MailboxAssumption
<1>1. ASSUME NEW char \in Characters, Mailbox!stl_putchar(char)
      PROVE  MailboxInv' /\ UNCHANGED <<upbuff, up_head, up_tail, seen>>
  BY <1>0, <1>00, <1>1
  DEF Mailbox!stl_putchar, Mailbox!Checked, Mailbox!NextHead, MailboxInv,
      Mailbox!TypeOK
<1>2. CASE Mailbox!Store
  <2>1. MailboxInv'
    BY <1>0, <1>2
    DEF Mailbox!Store, Mailbox!Slot, Mailbox!NextHead, MailboxInv, Mailbox!TypeOK
  <2>2. MailboxRing!Contents([upbuff EXCEPT ![up_head] = stl_c], up_head, up_tail)
          = MailboxRing!Contents(upbuff, up_head, up_tail)
    BY <1>0, MailboxSane, MailboxRing!PutKeepsContents DEF MailboxRing!Slots
  <2>3. /\ upbuff' = [upbuff EXCEPT ![up_head] = stl_c]
        /\ up_head' = up_head /\ up_tail' = up_tail /\ seen' = seen
    BY <1>2 DEF Mailbox!Store, Mailbox!Slot
  <2>4. Letters' = Letters
    BY <2>2, <2>3 DEF Letters, MailboxRing!Contents
  <2> QED
    BY <2>1, <2>3, <2>4
    DEF Letters, MailboxRing!Contents, MailboxRing!Masked, Mailbox!Fifo!vars
<1>3. CASE Mailbox!Advance
  <2>1. MailboxInv'
    BY <1>0, <1>3 DEF Mailbox!Advance, Mailbox!NextHead, MailboxInv, Mailbox!TypeOK
  <2>2. /\ up_head' = (up_head + 1) % STLINKY_BUFSIZE /\ up_head' # up_tail
        /\ upbuff' = upbuff /\ up_tail' = up_tail /\ seen' = seen
        /\ upbuff[up_head] = stl_c /\ stl_c \in Characters
    BY <1>0, <1>3 DEF Mailbox!Advance
  <2>3. MailboxRing!Masked(up_head + 1) # up_tail
    BY <2>2 DEF MailboxRing!Masked
  <2>4. /\ Len(Letters) < STLINKY_BUFSIZE - 1
        /\ MailboxRing!Contents(upbuff, MailboxRing!Masked(up_head + 1), up_tail)
             = Append(Letters, upbuff[up_head])
    BY <1>0, <2>3, MailboxSane, MailboxRing!PushAppends DEF Letters, MailboxRing!Slots
  <2>5. Letters' = Append(Letters, stl_c)
    BY <2>2, <2>4 DEF Letters, MailboxRing!Contents, MailboxRing!Masked
  <2>6. PICK char \in Characters : char = stl_c
    BY <2>2
  <2>7. Mailbox!Fifo!Put(char)
    BY <2>2, <2>4, <2>5, <2>6
    DEF Letters, MailboxRing!Contents, MailboxRing!Masked, Mailbox!Fifo!Put
  <2> QED
    BY <2>1, <2>7 DEF Mailbox!Fifo!Next
<1>4. CASE Mailbox!Take
  <2>1. /\ up_head # up_tail /\ seen' = upbuff[up_tail]
        /\ up_tail' = (up_tail + 1) % STLINKY_BUFSIZE
        /\ upbuff' = upbuff /\ up_head' = up_head /\ stl_pc' = stl_pc
        /\ stl_c' = stl_c /\ next_head' = next_head
    BY <1>4 DEF Mailbox!Take
  <2>2. MailboxInv'
    BY <1>0, <1>00, <2>1 DEF MailboxInv, Mailbox!TypeOK, Mailbox!NextHead
  <2>3. /\ Letters # <<>> /\ Head(Letters) = upbuff[up_tail]
        /\ MailboxRing!Contents(upbuff, up_head, MailboxRing!Masked(up_tail + 1))
             = Tail(Letters)
    BY <1>0, <2>1, MailboxSane, MailboxRing!PopTakesHead DEF Letters, MailboxRing!Slots
  <2>4. Letters' = Tail(Letters)
    BY <2>1, <2>3 DEF Letters, MailboxRing!Contents, MailboxRing!Masked
  <2>5. Mailbox!Fifo!Get
    BY <2>1, <2>3, <2>4
    DEF Letters, MailboxRing!Contents, MailboxRing!Masked, Mailbox!Fifo!Get
  <2> QED
    BY <2>2, <2>5 DEF Mailbox!Fifo!Next
<1>5. CASE UNCHANGED mailboxVars
  BY <1>0, <1>5
  DEF mailboxVars, MailboxInv, Mailbox!TypeOK, Mailbox!NextHead, Mailbox!Fifo!vars
<1>6. ASSUME NEW char \in Characters, Mailbox!stl_putchar(char)
      PROVE  MailboxInv' /\ UNCHANGED Mailbox!Fifo!vars
  BY <1>1, <1>6 DEF Mailbox!Fifo!vars
<1> QED
  BY <1>2, <1>3, <1>4, <1>5, <1>6 DEF Mailbox!Next, Mailbox!_write

-----------------------------------------------------------------------------
(***************************************************************************)
(* The drivers put together.                                               *)
(***************************************************************************)
LEMMA DriversSteps == DriversSpec => DriversInit /\ [][DriversNext]_allVars
  BY PTL DEF DriversSpec

LEMMA FollowsOthers ==
  [DriversNext]_allVars
    => /\ [Next]_vars /\ [RingNext]_ring /\ [Serial!Next]_(Serial!vars)
       /\ [Mailbox!Next]_mailboxVars
  BY DEF DriversNext, Follow, allVars, serialVars, Serial!vars

LEMMA ChipSpec == DriversSpec => Spec
<1>1. DriversInit => Init
  BY DEF DriversInit
<1> QED
  BY <1>1, DriversSteps, FollowsOthers, PTL DEF Spec

LEMMA UsartSpec == DriversSpec => Serial!Spec
<1>1. DriversInit => Serial!Init
  BY DEF DriversInit
<1> QED
  BY <1>1, DriversSteps, FollowsOthers, PTL DEF Serial!Spec

LEMMA BufferSpec == DriversSpec => RingSpec
<1>1. DriversInit => RingInit
  BY DEF DriversInit
<1> QED
  BY <1>1, DriversSteps, FollowsOthers, PTL DEF RingSpec

\* A call of the driver of the panel changes what it is about and nothing else, no
\* cell ever shows anything but what was there and what the call puts there, and all
\* of it is there when the call returns, wherever the program was started again
\* (tm1638.c:60-182).
THEOREM ShowsWhatIsCalled == DriversSpec => DisplaySpec
  BY ChipSpec, DisplayPromise, PTL

\* Every key that is held has its own bit in what tm1638_read_keys returns, and no
\* other bit is set (tm1638.c:188-217, ui.c:156).
THEOREM EveryKeyRead == DriversSpec => KeysRead
  BY ChipSpec, KeysPromise, PTL

\* The variables of the driver of the panel have their types; the chip counts the bits
\* of a byte and the addresses of its cells as the driver does (tm1638.c).
THEOREM ChipTypeCorrect == DriversSpec => []TypeOK
  BY ChipSpec, ChipTypes, PTL

\* What the main thread has stored reaches the line, although the handler may
\* print between its test of TXE and its store (usart.c:52-57).
THEOREM MainTextArrives == DriversSpec => []MainTextWhole
  BY UsartSpec, MainTextKept, PTL DEF MainTextWhole

\* A character is only ever stored over the last one of a text of the handler
\* (usart.c:52-76).
THEOREM LossIsBounded == DriversSpec => OnlyLastLost
  BY UsartSpec, LossAtTheEnd, PTL DEF OnlyLastLost

\* The buffer of buffer.h is a queue (buffer.h:8-10, 57-71), whichever driver the
\* build takes.
THEOREM BufferIsQueue == DriversSpec => []RingTypeOK /\ FifoSpec
  BY BufferSpec, TypeCorrect, RingImplementsFifo, PTL

\* The debugger sees the characters that were not eaten, in their order and each
\* of them once, whenever it looks (stlinky.c:66-75).
THEOREM DebuggerReadsInOrder == DriversSpec => MailboxSpec
<1>1. DriversInit => Mailbox!Init /\ Mailbox!Fifo!Init
  <2> SUFFICES ASSUME Mailbox!Init PROVE Mailbox!Fifo!Init
    BY DEF DriversInit
  <2>1. (up_head - up_tail) % STLINKY_BUFSIZE = 0 /\ seen = Nothing
    BY MailboxAssumption DEF Mailbox!Init
  <2> QED
    BY <2>1 DEF Mailbox!Fifo!Init
<1>2. [DriversNext]_allVars => [Mailbox!Next]_mailboxVars
  BY FollowsOthers
<1> QED
  BY <1>1, <1>2, MailboxInit, MailboxNext, DriversSteps, PTL
  DEF MailboxSpec, Mailbox!FifoSpec, Mailbox!Fifo!Spec

-----------------------------------------------------------------------------
(***************************************************************************)
(* What UsbCdcProofs proves about the USB serial port, for the drivers put *)
(* together.                                                               *)
(***************************************************************************)
UsbProofs == INSTANCE UsbCdcProofs WITH
  pc <- usb_pc, i <- usb_i, c <- usb_c, got <- usb_got, ret <- usb_ret

\* Both instances of UsbCdc are the same one.
LEMMA SameInit == DriversInit => UsbProofs!Init
BY DEF DriversInit, Usb!Init, UsbProofs!Init, Usb!Threads, UsbProofs!Threads

LEMMA SameVars == UNCHANGED usbVars => UNCHANGED UsbProofs!vars
BY DEF usbVars, UsbProofs!vars, UsbProofs!rx, UsbProofs!tx, UsbProofs!application

LEMMA SameNext == Usb!Next => UsbProofs!Next
BY DEF Usb!Next, Usb!Main, Usb!Idle, Usb!Interrupt, Usb!check_tx_buffer,
       Usb!check_rx_buffer, Usb!read_packet, Usb!RxPut, Usb!RxPush, Usb!WriteChar,
       Usb!TxPush, Usb!Read, Usb!ReadData, Usb!Pop, Usb!ReadReturn, Usb!Threads,
       Usb!At, Usb!Goto, Usb!Caller, Usb!SendBytes, Usb!EnoughSpace, Usb!Advanced,
       Usb!Element, Usb!Masked, Usb!RxUsed, Usb!TxUsed, Usb!RxFull, Usb!TxFull,
       Usb!rx, Usb!tx, Usb!application,
       UsbProofs!Next, UsbProofs!Main, UsbProofs!Idle, UsbProofs!Interrupt,
       UsbProofs!check_tx_buffer, UsbProofs!check_rx_buffer, UsbProofs!read_packet,
       UsbProofs!RxPut, UsbProofs!RxPush, UsbProofs!WriteChar, UsbProofs!TxPush,
       UsbProofs!Read, UsbProofs!ReadData, UsbProofs!Pop, UsbProofs!ReadReturn,
       UsbProofs!Threads, UsbProofs!At, UsbProofs!Goto, UsbProofs!Caller,
       UsbProofs!SendBytes, UsbProofs!EnoughSpace, UsbProofs!Advanced,
       UsbProofs!Element, UsbProofs!Masked, UsbProofs!RxUsed, UsbProofs!TxUsed,
       UsbProofs!RxFull, UsbProofs!TxFull, UsbProofs!rx, UsbProofs!tx,
       UsbProofs!application

LEMMA FollowsUsb == [DriversNext]_allVars => [UsbProofs!Next]_(UsbProofs!vars)
<1>1. UNCHANGED allVars => UNCHANGED usbVars
  BY DEF allVars
<1>2. DriversNext => Usb!Next \/ UNCHANGED usbVars
  BY DEF DriversNext, Follow
<1> QED
  BY <1>1, <1>2, SameNext, SameVars

LEMMA UsbSpec == DriversSpec => UsbProofs!Spec
<1>1. DriversSpec => DriversInit /\ [][DriversNext]_allVars
  BY PTL DEF DriversSpec
<1> QED
  BY <1>1, SameInit, FollowsUsb, PTL DEF UsbProofs!Spec

LEMMA UsbSane == UsbProofs!Sane
BY UsbAssumption, SizeAssumption DEF UsbProofs!Sane

\* An interrupt that has read a packet finds room for all of it (usbcdc.c:261-262).
THEOREM IsrFindsRoom == DriversSpec => []IsrNeverWaits
<1>1. UsbProofs!IsrNeverWaits => IsrNeverWaits
  BY DEF IsrNeverWaits, Usb!IsrNeverWaits, UsbProofs!IsrNeverWaits, Usb!At,
         UsbProofs!At, Usb!RxFull, UsbProofs!RxFull, Usb!Masked, UsbProofs!Masked
<1>2. UsbProofs!Spec => []UsbProofs!IsrNeverWaits
  BY UsbSane, UsbProofs!IsrFindsRoom
<1> QED
  BY <1>1, <1>2, UsbSpec, PTL

\* What the program reads over USB is what the host has sent, in that order and
\* without a gap (usbcdc.c:260-272).
THEOREM ReadInOrder == DriversSpec => RxInOrder
<1>1. UsbProofs!Spec => UsbProofs!RxInOrder
  BY UsbSane, UsbProofs!ReadInOrder
<1>2. [UsbProofs!Pop => usb_got' = (usb_got + 1) % Numbers]_(UsbProofs!vars)
        => [Usb!Pop => usb_got' = (usb_got + 1) % Numbers]_(Usb!vars)
  BY DEF UsbProofs!Pop, Usb!Pop, UsbProofs!At, Usb!At, UsbProofs!Goto, Usb!Goto,
         UsbProofs!Advanced, Usb!Advanced, UsbProofs!Masked, Usb!Masked,
         UsbProofs!vars, Usb!vars, UsbProofs!rx, Usb!rx, UsbProofs!tx, Usb!tx,
         UsbProofs!application, Usb!application
<1> QED
  BY <1>1, <1>2, UsbSpec, PTL DEF RxInOrder, Usb!RxInOrder, UsbProofs!RxInOrder

\* Every thread is at a place of its driver and within its text, its packet or its
\* buffer (usart.c, usbcdc.c, stlinky.c).
THEOREM TypesCorrect == DriversSpec => []TypesOK
<1>1. DriversSpec => []Serial!TypeOK
  BY UsartSpec, UsartTypeCorrect, PTL
<1>2. DriversSpec => []Usb!TypeOK
  <2>1. UsbProofs!TypeOK => Usb!TypeOK
    BY DEF UsbProofs!TypeOK, Usb!TypeOK, UsbProofs!Threads, Usb!Threads
  <2>2. UsbProofs!Spec => []UsbProofs!TypeOK
    BY UsbSane, UsbProofs!TypeCorrect
  <2> QED
    BY <2>1, <2>2, UsbSpec, PTL
<1>3. DriversSpec => []Mailbox!TypeOK
  <2>1. DriversInit => MailboxInv
    BY MailboxInit DEF DriversInit
  <2>2. MailboxInv /\ [DriversNext]_allVars => MailboxInv'
    BY MailboxNext, FollowsOthers
  <2>3. MailboxInv => Mailbox!TypeOK
    BY DEF MailboxInv
  <2> QED
    BY <2>1, <2>2, <2>3, DriversSteps, PTL
<1> QED
  BY <1>1, <1>2, <1>3, BufferIsQueue, PTL DEF TypesOK
=============================================================================
