------------------------------- MODULE UsbCdc -------------------------------
(***************************************************************************)
(* usbcdc.c from line 234 on: the serial port over USB, with a buffer for  *)
(* each direction.  idle() polls the device; it runs in three interrupts   *)
(* that do not preempt one another, and in the main thread while that      *)
(* waits for a full buffer.  The USB device is external: a packet may or   *)
(* may not be there to read, and the endpoint takes one or is busy.        *)
(***************************************************************************)
EXTENDS Integers, Sequences

CONSTANTS
  Size,         \* SIZE of both buffers, and the range of a byte
  PacketSize,   \* USBCDC_PKT_SIZE_DAT, less than SIZE
  ReadLen,      \* the length the C library asks _read for
  MaxWritten,   \* bound: characters the program writes
  Numbers       \* bound: the host numbers its bytes modulo this

Threads == {"main", "isr"}

VARIABLES
  pc,        \* where each thread is; an interrupt at "out" is not running
  packet,    \* usbcdc_check_rx_buffer: what is left of buffer
  rx_data, rx_head, rx_tail, tx_head, tx_tail,
  i, c,      \* _read: i, and the element get is about to pop
  got, ret,  \* the byte read last, and what the last _read returned
  sent,      \* the number of the next byte of the host
  written

rx == <<rx_data, rx_head, rx_tail>>
tx == <<tx_head, tx_tail>>
application == <<i, c, got, ret, written>>
vars == <<pc, packet, rx, tx, application, sent>>

Masked(n) == n % Size

RxUsed == Masked(rx_head - rx_tail)
TxUsed == Masked(tx_head - tx_tail)
RxFull == Masked(rx_head + 1) = rx_tail
TxFull == Masked(tx_head + 1) = tx_tail

\* The main thread stands still while an interrupt runs.
At(x, label) == pc[x] = label /\ (x = "main" => pc["isr"] = "out")

Goto(x, label) == pc' = [pc EXCEPT ![x] = label]

-----------------------------------------------------------------------------
(* idle *)

\* idle returns to the interrupt's end or to the wait for the full TX buffer.
Caller(x) == IF x = "isr" THEN "out" ELSE "tx_push"

Interrupt == /\ pc["isr"] = "out"
             /\ Goto("isr", "check_tx")
             /\ UNCHANGED <<packet, rx, tx, application, sent>>

\* The room up to the end of the buffer, stored in eight bits.
SendBytes ==
  LET room == Masked(Size - tx_tail)
  IN  IF TxUsed < room THEN TxUsed ELSE room

\* Nothing is taken if the endpoint is busy, and less than a packet waits for a
\* timeout besides, whose counter no source defines.
check_tx_buffer(x) ==
  /\ At(x, "check_tx")
  /\ \E taken \in {0, SendBytes} : tx_tail' = Masked(tx_tail + taken)
  /\ Goto(x, "check_rx")
  /\ UNCHANGED <<packet, rx, tx_head, application, sent>>

\* Mutant: a packet is also read when it leaves no slot free.
OneTooMany == RxUsed <= Size - PacketSize

EnoughSpace == RxUsed < Size - PacketSize

check_rx_buffer(x) ==
  /\ At(x, "check_rx")
  /\ Goto(x, IF EnoughSpace THEN "read_packet" ELSE Caller(x))
  /\ UNCHANGED <<packet, rx, tx, application, sent>>

\* Without a packet usbd_ep_read_packet returns 0.
read_packet(x) ==
  /\ At(x, "read_packet")
  /\ \E n \in 0 .. PacketSize :
       /\ packet' = [packet EXCEPT
                       ![x] = [k \in 1 .. n |-> (sent + k - 1) % Numbers]]
       /\ sent' = (sent + n) % Numbers
  /\ Goto(x, "rx_put")
  /\ UNCHANGED <<rx, tx, application>>

RxPut(x) ==
  /\ At(x, "rx_put")
  /\ IF packet[x] = <<>>
     THEN Goto(x, Caller(x)) /\ UNCHANGED <<packet, rx_data>>
     ELSE /\ rx_data' = [rx_data EXCEPT ![rx_head] = Head(packet[x])]
          /\ packet' = [packet EXCEPT ![x] = Tail(packet[x])]
          /\ Goto(x, "rx_push")
  /\ UNCHANGED <<rx_head, rx_tail, tx, application, sent>>

Advanced(index) == Masked(index + 1)

\* Waiting for a full RX buffer, idle reads no packet: there is no room for one.
RxPush(x) ==
  /\ At(x, "rx_push")
  /\ ~RxFull
  /\ rx_head' = Advanced(rx_head)
  /\ Goto(x, "rx_put")
  /\ UNCHANGED <<packet, rx_data, rx_tail, tx, application, sent>>

-----------------------------------------------------------------------------
(* The main thread: _write and _read. *)

\* put_char: the character is in its slot, push waits for another one.
WriteChar ==
  /\ At("main", "run")
  /\ written < MaxWritten
  /\ written' = written + 1
  /\ Goto("main", "tx_push")
  /\ UNCHANGED <<packet, rx, tx, i, c, got, ret, sent>>

TxPush ==
  /\ At("main", "tx_push")
  /\ IF TxFull
     THEN Goto("main", "check_tx") /\ UNCHANGED tx_head
     ELSE tx_head' = Advanced(tx_head) /\ Goto("main", "run")
  /\ UNCHANGED <<packet, rx, tx_tail, application, sent>>

Read ==
  /\ At("main", "run")
  /\ i' = 0
  /\ Goto("main", "read")
  /\ UNCHANGED <<packet, rx, tx, c, got, ret, sent, written>>

\* Mutant: pop before the element is copied.
PopFirst == rx_data[Advanced(rx_tail)]

Element == rx_data[rx_tail]

ReadData ==
  /\ At("main", "read")
  /\ i < ReadLen
  /\ rx_head # rx_tail
  /\ c' = Element
  /\ Goto("main", "pop")
  /\ UNCHANGED <<packet, rx, tx, i, got, ret, sent, written>>

Pop ==
  /\ At("main", "pop")
  /\ rx_tail' = Advanced(rx_tail)
  /\ got' = c
  /\ i' = i + 1
  /\ Goto("main", "read")
  /\ UNCHANGED <<packet, rx_data, rx_head, tx, c, ret, sent, written>>

\* An empty buffer ends _read with the count, the end of the loop with an error.
ReadReturn ==
  /\ At("main", "read")
  /\ i = ReadLen \/ rx_head = rx_tail
  /\ ret' = IF i = ReadLen THEN -1 ELSE i
  /\ Goto("main", "run")
  /\ UNCHANGED <<packet, rx, tx, i, c, got, sent, written>>

Init ==
  /\ pc = [x \in Threads |-> IF x = "isr" THEN "out" ELSE "run"]
  /\ packet = [x \in Threads |-> <<>>]
  /\ rx_data = [k \in 0 .. Size - 1 |-> 0]
  /\ rx_head = 0 /\ rx_tail = 0
  /\ tx_head = 0 /\ tx_tail = 0
  /\ i = 0 /\ c = 0 /\ ret = 0 /\ got = Numbers - 1
  /\ sent = 0 /\ written = 0

Idle(x) == \/ check_tx_buffer(x) \/ check_rx_buffer(x) \/ read_packet(x)
           \/ RxPut(x) \/ RxPush(x)

Main == \/ Idle("main")
        \/ WriteChar \/ TxPush
        \/ Read \/ ReadData \/ Pop \/ ReadReturn

Next == Interrupt \/ Idle("isr") \/ Main

Spec == Init /\ [][Next]_vars

-----------------------------------------------------------------------------
TypeOK ==
  /\ pc["main"] \in {"run", "tx_push", "check_tx", "check_rx", "read_packet",
                     "rx_put", "rx_push", "read", "pop"}
  /\ pc["isr"] \in {"out", "check_tx", "check_rx", "read_packet", "rx_put",
                    "rx_push"}
  /\ {rx_head, rx_tail, tx_head, tx_tail} \subseteq 0 .. Size - 1
  /\ \A x \in Threads : Len(packet[x]) <= PacketSize
  /\ i \in 0 .. ReadLen /\ ret \in -1 .. ReadLen
  /\ {c, got, sent} \subseteq 0 .. Numbers - 1

\* The program reads the bytes in the order in which the host sent them, every
\* one once (buffer.h:4-10, usbcdc.c:260-272, 313-316).
RxInOrder == [][Pop => got' = (got + 1) % Numbers]_vars

\* An interrupt never waits for room in the buffer: only the thread it interrupts
\* could make room (usbcdc.c:261-262, buffer.h:67).
IsrNeverWaits == ~(At("isr", "rx_push") /\ RxFull)
=============================================================================
