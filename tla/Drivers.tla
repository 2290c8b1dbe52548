------------------------------- MODULE Drivers -------------------------------
(***************************************************************************)
(* The drivers next to the pulse generator, put together for checking: the *)
(* chip of the panel, the three ways a text of printf can go (the build    *)
(* takes one of them) and the buffer that one of these is made of.  They   *)
(* share no state, so a behaviour follows one of them while the others     *)
(* stand at their start.                                                   *)
(***************************************************************************)
EXTENDS Tm1638, Ring

CONSTANTS MaxLen, MaxTexts,                         \* Usart
          PacketSize, ReadLen, MaxWritten, Numbers, \* UsbCdc, besides Size
          STLINKY_BUFSIZE, Characters               \* StLinky, besides Nothing

\* Texts have characters.
ASSUME TextsAssumption == MaxLen \in Nat \ {0} /\ MaxTexts \in Nat

\* A packet, a read and a text may be empty; bytes are numbered in their order.
ASSUME UsbAssumption ==
  /\ PacketSize \in Nat /\ ReadLen \in Nat /\ MaxWritten \in Nat
  /\ Numbers \in Nat \ {0}

\* The array of stlinky.c has a slot to spare (stlinky.c:45, 53).
ASSUME MailboxAssumption ==
  /\ STLINKY_BUFSIZE \in Nat /\ STLINKY_BUFSIZE > 1
  /\ Nothing \notin Characters

VARIABLES
  driver,   \* the one the behaviour follows
  serial_pc, len, serial_ret, dr, owed, texts,
  usb_pc, packet, rx_data, rx_head, rx_tail, tx_head, tx_tail, usb_i, usb_c,
  usb_got, usb_ret, sent, written,
  upbuff, up_head, up_tail, stl_pc, stl_c, next_head, seen

serialVars == <<serial_pc, len, serial_ret, dr, owed, texts>>
usbVars == <<usb_pc, packet, rx_data, rx_head, rx_tail, tx_head, tx_tail,
             usb_i, usb_c, usb_got, usb_ret, sent, written>>
mailboxVars == <<upbuff, up_head, up_tail, stl_pc, stl_c, next_head, seen>>

allVars == <<driver, vars, ring, serialVars, usbVars, mailboxVars>>

Serial == INSTANCE Usart WITH pc <- serial_pc, ret <- serial_ret

Usb == INSTANCE UsbCdc WITH
  pc <- usb_pc, i <- usb_i, c <- usb_c, got <- usb_got, ret <- usb_ret

Mailbox == INSTANCE StLinky WITH pc <- stl_pc, c <- stl_c

\* The driver that is followed is d, and the others are left alone.
Follow(d) ==
  /\ driver = d
  /\ driver' = driver
  /\ d # "usart"   => UNCHANGED serialVars
  /\ d # "buffer"  => UNCHANGED ring
  /\ d # "tm1638"  => UNCHANGED vars
  /\ d # "usbcdc"  => UNCHANGED usbVars
  /\ d # "stlinky" => UNCHANGED mailboxVars

DriversInit ==
  /\ driver \in {"usart", "buffer", "tm1638", "usbcdc", "stlinky"}
  /\ Init
  /\ RingInit
  /\ Serial!Init
  /\ Usb!Init
  /\ Mailbox!Init

DriversNext ==
  \/ Follow("usart") /\ Serial!Next
  \/ Follow("buffer") /\ RingNext
  \/ Follow("tm1638") /\ Next
  \/ Follow("usbcdc") /\ Usb!Next
  \/ Follow("stlinky") /\ Mailbox!Next

\* Of the driver that is followed: the transmitter runs by itself, and the main
\* thread goes on between the interrupts of the handler.
UsartFairness ==
  /\ WF_allVars(Follow("usart") /\ Serial!Transmit)
  /\ \A x \in Serial!Threads : SF_allVars(Follow("usart") /\ Serial!Going(x))

DriversSpec ==
  /\ DriversInit
  /\ [][DriversNext]_allVars
  /\ UsartFairness

-----------------------------------------------------------------------------
\* The variables of the drivers besides the display's have their types.
TypesOK == RingTypeOK /\ Serial!TypeOK /\ Usb!TypeOK /\ Mailbox!TypeOK

\* What the main thread prints over the serial port is not lost, and of a text
\* of the handler no more than its last character (usart.c:52-76).
MainTextWhole == Serial!MainTextWhole

OnlyLastLost == Serial!OnlyLastLost

\* Both get their texts through (usart.c:59-76).
WriteReturns == Serial!WriteReturns

\* An interrupt never waits for room that only the main thread could make
\* (usbcdc.c:261-262).
IsrNeverWaits == Usb!IsrNeverWaits

\* The program reads the bytes of the host in their order (usbcdc.c:260-272).
RxInOrder == Usb!RxInOrder

\* The debugger sees the characters that were not eaten, in their order and each
\* of them once (stlinky.c:66-75).
MailboxSpec == Mailbox!FifoSpec
=============================================================================
