---------------------------- MODULE UsbCdcProofs ----------------------------
(***************************************************************************)
(* Theorems about UsbCdc, for buffers and packets of every size: an        *)
(* interrupt never waits for room, and what the program reads is in order. *)
(***************************************************************************)
EXTENDS UsbCdc, SequenceTheorems, TLAPS

\* What is asked of the constants; ReadLen is the length of a buffer of the
\* C library.
Sane ==
  /\ Size \in Nat \ {0} /\ PacketSize \in Nat /\ ReadLen \in Nat
  /\ MaxWritten \in Nat /\ Numbers \in Nat \ {0}

Slots == 0 .. Size - 1
Bytes == 0 .. Numbers - 1

MainLabels == {"run", "tx_push", "check_tx", "check_rx", "read_packet", "rx_put",
               "rx_push", "read", "pop"}
IsrLabels == {"out", "check_tx", "check_rx", "read_packet", "rx_put", "rx_push"}

TypeInv ==
  /\ TypeOK
  /\ pc \in [Threads -> MainLabels \cup IsrLabels]
  /\ packet \in [Threads -> Seq(Bytes)]
  /\ rx_data \in [Slots -> Bytes]
  /\ pc["main"] = "pop" => i < ReadLen

\* The room an interrupt has seen is there while it fills it.
RoomInv ==
  /\ pc["isr"] = "read_packet" => RxUsed + PacketSize < Size
  /\ pc["isr"] = "rx_put" => RxUsed + Len(packet["isr"]) < Size
  /\ pc["isr"] = "rx_push" => (RxUsed + 1) + Len(packet["isr"]) < Size

Polling == pc["main"] \in {"check_tx", "check_rx", "read_packet", "rx_put", "rx_push"}

\* The main thread waits for room in the TX buffer, and will for ever.
Stuck == Polling \/ (pc["main"] = "tx_push" /\ tx_head = Size - 1)

TxInv == tx_tail = 0 /\ (Polling => tx_head = Size - 1)

\* The element in the slot of the head is not counted yet.
Pushing == IF pc["isr"] = "rx_push" THEN 1 ELSE 0

\* Number n after the byte that was read last.
After(n) == (got + n) % Numbers

\* From the tail of the buffer over the packet in hand to the next byte of the
\* host the numbers follow one another.
Ordered ==
  /\ \A k \in 0 .. RxUsed - 1 : rx_data[Masked(rx_tail + k)] = After(1 + k)
  /\ pc["isr"] = "rx_push" => rx_data[rx_head] = After(1 + RxUsed)
  /\ \A k \in 1 .. Len(packet["isr"]) :
       packet["isr"][k] = After((RxUsed + Pushing) + k)
  /\ sent = After((RxUsed + Pushing) + (1 + Len(packet["isr"])))
  /\ pc["main"] = "pop" => RxUsed > 0 /\ c = rx_data[rx_tail]

OrderInv ==
  /\ pc["isr"] \notin {"rx_put", "rx_push"} => packet["isr"] = <<>>
  /\ ~Stuck => Ordered

Inv == TypeInv /\ RoomInv /\ TxInv /\ OrderInv

-----------------------------------------------------------------------------
(***************************************************************************)
(* Indices and numbers that go round.                                      *)
(***************************************************************************)
LEMMA RemainderIsUnique ==
  ASSUME NEW n \in Nat \ {0}, NEW q \in Int, NEW a \in Int,
         n * q <= a, a < (n * q) + n
  PROVE  a % n = a - (n * q)
<1> DEFINE p == a \div n
           t == a % n
<1>1. p \in Int /\ t \in 0 .. n - 1 /\ a = (n * p) + t
  OBVIOUS
<1> HIDE DEF p, t
<1>2. n * p \in Int /\ n * q \in Int
  BY <1>1
<1>3. n * p < (n * q) + n /\ n * q < (n * p) + n
  BY <1>1, <1>2
<1>4. p <= q
  <2>1. SUFFICES ASSUME p >= q + 1 PROVE FALSE
    BY <1>1
  <2>2. n * p >= n * (q + 1) /\ n * (q + 1) = (n * q) + n
    BY <1>1, <2>1
  <2> QED
    BY <1>2, <1>3, <2>2
<1>5. q <= p
  <2>1. SUFFICES ASSUME q >= p + 1 PROVE FALSE
    BY <1>1
  <2>2. n * q >= n * (p + 1) /\ n * (p + 1) = (n * p) + n
    BY <1>1, <2>1
  <2> QED
    BY <1>2, <1>3, <2>2
<1>6. p = q
  BY <1>1, <1>4, <1>5
<1>7. t = a - (n * q)
  BY <1>1, <1>2, <1>6
<1> QED
  BY <1>7 DEF t

\* Going on from a number that has been wrapped.
LEMMA WrappedSum ==
  ASSUME NEW n \in Nat \ {0}, NEW a \in Int, NEW b \in Int
  PROVE  ((a % n) + b) % n = (a + b) % n
<1> DEFINE p == a \div n
           r == a % n
           q == (r + b) \div n
           t == (r + b) % n
           m == p + q
           s == a + b
<1>1. p \in Int /\ r \in 0 .. n - 1 /\ a = (n * p) + r
  OBVIOUS
<1> HIDE DEF p, r
<1>2. r + b \in Int
  BY <1>1
<1>3. q \in Int /\ t \in 0 .. n - 1 /\ r + b = (n * q) + t
  BY <1>2
<1> HIDE DEF q, t
<1>4. m \in Int /\ n * m = (n * p) + (n * q) /\ n * p \in Int /\ n * q \in Int
  BY <1>1, <1>3
<1>5. s \in Int /\ s = (n * m) + t /\ n * m \in Int
  BY <1>1, <1>3, <1>4
<1> HIDE DEF m, s
<1>6. n * m <= s
  BY <1>3, <1>5
<1>7. s < (n * m) + n
  BY <1>3, <1>5
<1>8. s % n = s - (n * m)
  BY <1>4, <1>5, <1>6, <1>7, RemainderIsUnique
<1>9. s % n = t
  BY <1>3, <1>5, <1>8
<1> QED
  BY <1>9 DEF t, r, s

-----------------------------------------------------------------------------
(***************************************************************************)
(* The slots between the tail and the head.                                *)
(***************************************************************************)
LEMMA MaskLow == ASSUME Sane, NEW n \in Slots PROVE Masked(n) = n
  BY SMTT(30) DEF Sane, Slots, Masked

LEMMA NextSlot ==
  ASSUME Sane, NEW h \in Slots
  PROVE  /\ Masked(h + 1) \in Slots
         /\ Masked(h + 1) = IF h = Size - 1 THEN 0 ELSE h + 1
<1>1. CASE h = Size - 1
  <2>1. h + 1 = Size /\ Size % Size = 0 /\ 0 \in Slots
    BY <1>1 DEF Sane, Slots
  <2> QED
    BY <1>1, <2>1 DEF Masked
<1>2. CASE h # Size - 1
  <2>1. h + 1 \in Slots
    BY <1>2 DEF Sane, Slots
  <2> QED
    BY <1>2, <2>1, MaskLow
<1> QED
  BY <1>1, <1>2

LEMMA UsedSlots ==
  ASSUME Sane, NEW h \in Slots, NEW t \in Slots
  PROVE  /\ Masked(h - t) \in Slots
         /\ Masked(h - t) = IF h >= t THEN h - t ELSE (h - t) + Size
<1>1. CASE h >= t
  <2>1. h - t \in Slots
    BY <1>1 DEF Sane, Slots
  <2> QED
    BY <1>1, <2>1, MaskLow
<1>2. CASE ~(h >= t)
  <2>1. h - t \in (1 - Size) .. -1 /\ (h - t) + Size \in Slots
    BY <1>2 DEF Sane, Slots
  <2>2. \A n \in (1 - Size) .. -1 : n % Size = n + Size
    BY SMTT(30) DEF Sane
  <2> QED
    BY <1>2, <2>1, <2>2 DEF Masked
<1> QED
  BY <1>1, <1>2

LEMMA SlotAt ==
  ASSUME Sane, NEW t \in Slots, NEW k \in Slots
  PROVE  /\ Masked(t + k) \in Slots
         /\ Masked(t + k) = IF t + k < Size THEN t + k ELSE (t + k) - Size
<1>1. CASE t + k < Size
  <2>1. t + k \in Slots
    BY <1>1 DEF Sane, Slots
  <2> QED
    BY <1>1, <2>1, MaskLow
<1>2. CASE ~(t + k < Size)
  <2>1. t + k \in Size .. 2 * Size - 1 /\ (t + k) - Size \in Slots
    BY <1>2 DEF Sane, Slots
  <2>2. \A n \in Size .. 2 * Size - 1 : n % Size = n - Size
    BY SMTT(30) DEF Sane
  <2> QED
    BY <1>2, <2>1, <2>2 DEF Masked
<1> QED
  BY <1>1, <1>2

\* The slot of the head is the first one that is not counted.
LEMMA HeadIsNext ==
  ASSUME Sane, NEW h \in Slots, NEW t \in Slots
  PROVE  /\ Masked(t + Masked(h - t)) = h
         /\ \A k \in 0 .. Masked(h - t) - 1 :
              Masked(t + k) \in Slots /\ Masked(t + k) # h
<1>1. PICK u \in Slots : /\ u = Masked(h - t)
                         /\ u = IF h >= t THEN h - t ELSE (h - t) + Size
  BY UsedSlots
<1>2. \A k \in Slots : /\ Masked(t + k) \in Slots
                       /\ Masked(t + k) = IF t + k < Size THEN t + k
                                         ELSE (t + k) - Size
  BY SlotAt
<1>3. Masked(t + u) = h
  BY <1>1, <1>2 DEF Sane, Slots
<1>4. ASSUME NEW k \in 0 .. u - 1
      PROVE  Masked(t + k) \in Slots /\ Masked(t + k) # h
  <2>1. k \in Slots
    BY <1>1 DEF Sane, Slots
  <2>2. PICK s \in Slots : /\ s = Masked(t + k)
                           /\ s = IF t + k < Size THEN t + k ELSE (t + k) - Size
    BY <1>2, <2>1
  <2> QED
    BY <1>1, <2>1, <2>2 DEF Sane, Slots
<1> QED
  BY <1>1, <1>3, <1>4

\* push counts one element more, pop one less.
LEMMA HeadMoves ==
  ASSUME Sane, NEW h \in Slots, NEW t \in Slots, Masked(h - t) + 1 < Size
  PROVE  Masked(Masked(h + 1) - t) = Masked(h - t) + 1
<1>1. PICK u \in Slots : /\ u = Masked(h - t)
                         /\ u = IF h >= t THEN h - t ELSE (h - t) + Size
  BY UsedSlots
<1>2. PICK n \in Slots : /\ n = Masked(h + 1)
                         /\ n = IF h = Size - 1 THEN 0 ELSE h + 1
  BY NextSlot
<1>3. Masked(n - t) = IF n >= t THEN n - t ELSE (n - t) + Size
  BY UsedSlots
<1>4. Masked(n - t) = u + 1
  BY <1>1, <1>2, <1>3 DEF Sane, Slots
<1> QED
  BY <1>1, <1>2, <1>4

LEMMA TailMoves ==
  ASSUME Sane, NEW h \in Slots, NEW t \in Slots, h # t
  PROVE  /\ Masked(h - Masked(t + 1)) = Masked(h - t) - 1
         /\ Masked(h - t) > 0
<1>1. PICK u \in Slots : /\ u = Masked(h - t)
                         /\ u = IF h >= t THEN h - t ELSE (h - t) + Size
  BY UsedSlots
<1>2. PICK n \in Slots : /\ n = Masked(t + 1)
                         /\ n = IF t = Size - 1 THEN 0 ELSE t + 1
  BY NextSlot
<1>3. Masked(h - n) = IF h >= n THEN h - n ELSE (h - n) + Size
  BY UsedSlots
<1>4. Masked(h - n) = u - 1 /\ u > 0
  BY <1>1, <1>2, <1>3 DEF Sane, Slots
<1> QED
  BY <1>1, <1>2, <1>4

-----------------------------------------------------------------------------
(***************************************************************************)
(* The invariant, one action after the other.                              *)
(***************************************************************************)
LEMMA UsedIsSlot == ASSUME Sane, TypeInv PROVE RxUsed \in Slots
  BY UsedSlots DEF TypeInv, TypeOK, RxUsed, Slots

LEMMA InitInv == ASSUME Sane, Init PROVE Inv
<1>1. 0 \in Slots /\ Masked(0) = 0
  <2>1. 0 \in Slots
    BY DEF Sane, Slots
  <2> QED
    BY <2>1, MaskLow
<1>2. RxUsed = 0
  BY <1>1 DEF Init, RxUsed
<1>3. TypeInv
  BY <1>1 DEF Sane, Init, TypeInv, TypeOK, Threads, MainLabels, IsrLabels, Slots, Bytes
<1>4. RoomInv /\ TxInv
  BY DEF Init, RoomInv, TxInv, Polling, Threads
<1>5. sent = After(1)
  BY DEF Init, After, Sane
<1>6. OrderInv
  BY <1>2, <1>5 DEF Init, OrderInv, Ordered, Pushing, Threads
<1> QED
  BY <1>3, <1>4, <1>6 DEF Inv

LEMMA InterruptKeeps == ASSUME Sane, Inv, Interrupt PROVE Inv'
<1>0. TypeInv /\ RoomInv /\ TxInv /\ OrderInv
  BY DEF Inv
<1>1. /\ pc["isr"] = "out" /\ pc' = [pc EXCEPT !["isr"] = "check_tx"]
      /\ UNCHANGED <<packet, rx, tx, application, sent>>
  BY DEF Interrupt, Goto
<1>2. TypeInv'
  BY <1>0, <1>1 DEF TypeInv, TypeOK, Threads, MainLabels, IsrLabels, rx, tx, application
<1>3. RoomInv' /\ TxInv'
  BY <1>0, <1>1 DEF TypeInv, RoomInv, TxInv, Polling, Threads, rx, tx
<1>4. OrderInv'
  BY <1>0, <1>1
  DEF TypeInv, OrderInv, Stuck, Polling, Ordered, RxUsed, Pushing, After, Threads,
      rx, tx, application
<1> QED
  BY <1>2, <1>3, <1>4 DEF Inv

\* With the tail at 0 no room is left that eight bits could tell.
LEMMA NothingToSend == ASSUME Sane, TypeInv, TxInv PROVE SendBytes = 0
<1>1. Masked(Size - 0) = 0
  BY DEF Sane, Masked
<1>2. TxUsed \in Slots
  BY UsedSlots DEF TypeInv, TypeOK, TxUsed, Slots
<1>3. ~(TxUsed < 0)
  BY <1>2 DEF Slots, Sane
<1> QED
  BY <1>1, <1>3 DEF SendBytes, TxInv

LEMMA CheckTxKeeps ==
  ASSUME Sane, Inv, NEW x \in Threads, check_tx_buffer(x) PROVE Inv'
<1>0. TypeInv /\ RoomInv /\ TxInv /\ OrderInv
  BY DEF Inv
<1>1. tx_tail' = 0
  <2>1. 0 \in Slots /\ Masked(0 + 0) = 0
    <3>1. 0 \in Slots
      BY DEF Sane, Slots
    <3> QED
      BY <3>1, MaskLow
  <2> QED
    BY <1>0, <2>1, NothingToSend DEF check_tx_buffer, TxInv
<1>2. /\ pc[x] = "check_tx" /\ pc' = [pc EXCEPT ![x] = "check_rx"]
      /\ UNCHANGED <<packet, rx, tx_head, application, sent>>
  BY DEF check_tx_buffer, At, Goto
<1>3. TypeInv'
  BY <1>0, <1>1, <1>2
  DEF Sane, TypeInv, TypeOK, Threads, MainLabels, IsrLabels, rx, application
<1>4. RoomInv' /\ TxInv'
  BY <1>0, <1>1, <1>2 DEF TypeInv, RoomInv, TxInv, Polling, RxUsed, Threads, rx
<1>5. OrderInv'
  BY <1>0, <1>2
  DEF TypeInv, OrderInv, Stuck, Polling, Ordered, RxUsed, Pushing, After, Threads,
      rx, application
<1> QED
  BY <1>3, <1>4, <1>5 DEF Inv

LEMMA CheckRxKeeps ==
  ASSUME Sane, Inv, NEW x \in Threads, check_rx_buffer(x) PROVE Inv'
<1>0. TypeInv /\ RoomInv /\ TxInv /\ OrderInv
  BY DEF Inv
<1>1. /\ pc[x] = "check_rx"
      /\ pc' = [pc EXCEPT ![x] = IF EnoughSpace THEN "read_packet" ELSE Caller(x)]
      /\ UNCHANGED <<packet, rx, tx, application, sent>>
  BY DEF check_rx_buffer, At, Goto
<1>2. TypeInv'
  BY <1>0, <1>1
  DEF TypeInv, TypeOK, Threads, MainLabels, IsrLabels, Caller, rx, tx, application
<1>3. EnoughSpace => RxUsed + PacketSize < Size
  BY <1>0, UsedIsSlot DEF EnoughSpace, Sane, Slots
<1>4. RoomInv'
  BY <1>0, <1>1, <1>3 DEF TypeInv, RoomInv, RxUsed, Caller, Threads, rx
<1>5. TxInv'
  BY <1>0, <1>1 DEF TypeInv, TxInv, Polling, Caller, Threads, tx
<1>6. OrderInv'
  BY <1>0, <1>1
  DEF TypeInv, TxInv, OrderInv, Stuck, Polling, Ordered, RxUsed, Pushing, After,
      Caller, Threads, rx, tx, application
<1> QED
  BY <1>2, <1>4, <1>5, <1>6 DEF Inv

\* The packet goes on where the bytes before it end.
LEMMA ReadPacketKeeps ==
  ASSUME Sane, Inv, NEW x \in Threads, read_packet(x) PROVE Inv'
<1>0. TypeInv /\ RoomInv /\ TxInv /\ OrderInv
  BY DEF Inv
<1>1. PICK n \in 0 .. PacketSize :
        /\ packet' = [packet EXCEPT
                        ![x] = [k \in 1 .. n |-> (sent + k - 1) % Numbers]]
        /\ sent' = (sent + n) % Numbers
  BY DEF read_packet
<1>2. /\ pc[x] = "read_packet" /\ pc' = [pc EXCEPT ![x] = "rx_put"]
      /\ UNCHANGED <<rx, tx, application>>
  BY DEF read_packet, At, Goto
<1> DEFINE p == [k \in 1 .. n |-> (sent + k - 1) % Numbers]
<1>3. n \in Nat /\ n <= PacketSize /\ sent \in Int /\ Numbers \in Nat \ {0}
  BY <1>0 DEF Sane, TypeInv, TypeOK
<1>4. p \in Seq(Bytes) /\ Len(p) = n /\ sent' \in Bytes
  <2>1. \A k \in 1 .. n : (sent + k - 1) % Numbers \in Bytes
    BY <1>3 DEF Bytes
  <2>2. sent' \in Bytes
    BY <1>1, <1>3 DEF Bytes
  <2> QED
    BY <1>3, <2>1, <2>2
<1> HIDE DEF p
<1>5. packet' = [packet EXCEPT ![x] = p]
  BY <1>1 DEF p
<1>6. TypeInv'
  <2>1. packet' \in [Threads -> Seq(Bytes)]
    BY <1>0, <1>4, <1>5 DEF TypeInv
  <2>2. \A y \in Threads : Len(packet'[y]) <= PacketSize
    BY <1>0, <1>3, <1>4, <1>5 DEF TypeInv, TypeOK
  <2>3. pc' \in [Threads -> MainLabels \cup IsrLabels]
    BY <1>0, <1>2 DEF TypeInv, MainLabels
  <2> QED
    BY <1>0, <1>2, <1>4, <2>1, <2>2, <2>3
    DEF TypeInv, TypeOK, Threads, Bytes, rx, tx, application
<1>7. RoomInv'
  <2>1. RxUsed' = RxUsed /\ RxUsed \in Slots
    BY <1>0, <1>2, UsedIsSlot DEF RxUsed, rx
  <2>2. CASE x = "isr"
    <3>1. pc'["isr"] = "rx_put" /\ packet'["isr"] = p
      BY <1>0, <1>2, <1>5, <2>2 DEF TypeInv
    <3>2. RxUsed + PacketSize < Size
      BY <1>0, <1>2, <2>2 DEF RoomInv
    <3>3. RxUsed + n < Size
      BY <1>3, <2>1, <3>2 DEF Sane, Slots
    <3> QED
      BY <1>4, <2>1, <3>1, <3>3 DEF RoomInv
  <2>3. CASE x = "main"
    BY <1>0, <1>2, <1>5, <2>1, <2>3 DEF TypeInv, RoomInv
  <2> QED
    BY <2>2, <2>3 DEF Threads
<1>8. TxInv'
  BY <1>0, <1>2 DEF TypeInv, TxInv, Polling, Threads, tx
<1>9. OrderInv'
  <2>1. CASE x = "main"
    BY <1>0, <1>2, <1>5, <2>1 DEF TypeInv, OrderInv, Stuck, Polling, Threads
  <2>2. CASE x = "isr"
    <3>1. /\ pc'["isr"] = "rx_put" /\ packet'["isr"] = p /\ pc'["main"] = pc["main"]
          /\ packet["isr"] = <<>> /\ Len(<<>>) = 0
      BY <1>0, <1>2, <1>5, <2>2 DEF TypeInv, OrderInv, Threads
    <3>2. Stuck' = Stuck
      BY <1>2, <3>1 DEF Stuck, Polling, tx
    <3>3. ASSUME ~Stuck PROVE Ordered'
      <4>1. PICK u \in Slots : u = RxUsed /\ RxUsed' = u
        BY <1>0, <1>2, UsedIsSlot DEF RxUsed, rx
      <4>2. PICK g \in Bytes : g = got /\ got' = g
        BY <1>0, <1>2 DEF TypeInv, TypeOK, Bytes, application
      <4>3. Ordered /\ Pushing = 0 /\ Pushing' = 0
        BY <1>0, <1>2, <2>2, <3>1, <3>3 DEF OrderInv, Pushing
      <4>4. u \in Int /\ g \in Int
        BY <4>1, <4>2 DEF Slots, Bytes
      <4>5. sent = (g + (u + 1)) % Numbers
        BY <3>1, <4>1, <4>2, <4>3, <4>4 DEF Ordered, After
      <4>6. ASSUME NEW b \in Int
            PROVE  (sent + b) % Numbers = (g + ((u + 1) + b)) % Numbers
        <5>1. (((g + (u + 1)) % Numbers) + b) % Numbers
                = ((g + (u + 1)) + b) % Numbers
          BY <1>3, <4>4, g + (u + 1) \in Int, WrappedSum
        <5>2. (g + (u + 1)) + b = g + ((u + 1) + b)
          BY <4>4
        <5> QED
          BY <4>5, <5>1, <5>2
      <4>7. \A k \in 1 .. n : p[k] = (g + (u + k)) % Numbers
        <5> TAKE k \in 1 .. n
        <5>1. p[k] = (sent + (k - 1)) % Numbers
          BY <1>3 DEF p
        <5>2. (sent + (k - 1)) % Numbers = (g + ((u + 1) + (k - 1))) % Numbers
          BY <4>6, k - 1 \in Int
        <5>3. (u + 1) + (k - 1) = u + k
          BY <4>4
        <5> QED
          BY <5>1, <5>2, <5>3
      <4>8. sent' = (g + (u + (1 + n))) % Numbers
        <5>1. (u + 1) + n = u + (1 + n)
          BY <1>3, <4>4
        <5> QED
          BY <1>1, <1>3, <4>6, <5>1
      <4>9. /\ \A k \in 0 .. u - 1 :
                 rx_data'[Masked(rx_tail' + k)] = (got' + (1 + k)) % Numbers
            /\ pc'["main"] = "pop" => u > 0 /\ c' = rx_data'[rx_tail']
        BY <1>2, <3>1, <4>1, <4>3 DEF Ordered, After, rx, application
      <4>10. /\ \A k \in 1 .. Len(packet'["isr"]) :
                  packet'["isr"][k] = (got' + ((u + 0) + k)) % Numbers
             /\ sent' = (got' + ((u + 0) + (1 + Len(packet'["isr"])))) % Numbers
        BY <1>4, <3>1, <4>2, <4>4, <4>7, <4>8
      <4> QED
        BY <3>1, <4>1, <4>3, <4>9, <4>10 DEF Ordered, After
    <3> QED
      BY <3>1, <3>2, <3>3 DEF OrderInv
  <2> QED
    BY <2>1, <2>2 DEF Threads
<1> QED
  BY <1>6, <1>7, <1>8, <1>9 DEF Inv

\* put: the byte is in the slot of the head and not counted yet.
LEMMA RxPutKeeps == ASSUME Sane, Inv, NEW x \in Threads, RxPut(x) PROVE Inv'
<1>0. TypeInv /\ RoomInv /\ TxInv /\ OrderInv
  BY DEF Inv
<1>1. /\ pc[x] = "rx_put"
      /\ UNCHANGED <<rx_head, rx_tail, tx, application, sent>>
      /\ RxUsed' = RxUsed /\ RxUsed \in Slots
  BY <1>0, UsedIsSlot DEF RxPut, At, RxUsed
<1>2. CASE packet[x] = <<>>
  <2>1. pc' = [pc EXCEPT ![x] = Caller(x)] /\ UNCHANGED <<packet, rx_data>>
    BY <1>2 DEF RxPut, Goto
  <2>2. TypeInv'
    BY <1>0, <1>1, <2>1
    DEF TypeInv, TypeOK, Threads, MainLabels, IsrLabels, Caller, tx, application
  <2>3. RoomInv' /\ TxInv'
    BY <1>0, <1>1, <2>1 DEF TypeInv, RoomInv, TxInv, Polling, Caller, Threads, tx
  <2>4. OrderInv'
    BY <1>0, <1>1, <1>2, <2>1
    DEF TypeInv, TxInv, OrderInv, Stuck, Polling, Ordered, Pushing, After, Caller,
        Threads, tx, application
  <2> QED
    BY <2>2, <2>3, <2>4 DEF Inv
<1>3. CASE packet[x] # <<>>
  <2>1. /\ pc' = [pc EXCEPT ![x] = "rx_push"]
        /\ rx_data' = [rx_data EXCEPT ![rx_head] = Head(packet[x])]
        /\ packet' = [packet EXCEPT ![x] = Tail(packet[x])]
    BY <1>3 DEF RxPut, Goto
  <2> DEFINE p == packet[x]
             m == Len(Tail(p))
  <2>2. p \in Seq(Bytes) /\ p # <<>> /\ Len(p) <= PacketSize
    BY <1>0, <1>3 DEF TypeInv, TypeOK
  <2> HIDE DEF p
  <2>3. /\ Head(p) \in Bytes /\ Tail(p) \in Seq(Bytes) /\ Head(p) = p[1]
        /\ m = Len(p) - 1 /\ m \in Nat /\ Len(p) \in Nat
        /\ \A k \in 1 .. m : Tail(p)[k] = p[k + 1]
    BY <2>2, HeadTailProperties
  <2>4. packet' = [packet EXCEPT ![x] = Tail(p)]
        /\ rx_data' = [rx_data EXCEPT ![rx_head] = Head(p)]
    BY <2>1 DEF p
  <2> HIDE DEF m
  <2>5. TypeInv'
    <3>1. packet' \in [Threads -> Seq(Bytes)] /\ rx_data' \in [Slots -> Bytes]
      BY <1>0, <2>3, <2>4 DEF TypeInv
    <3>2. \A y \in Threads : Len(packet'[y]) <= PacketSize
      BY <1>0, <2>2, <2>3, <2>4 DEF TypeInv, TypeOK, Sane, m
    <3>3. pc' \in [Threads -> MainLabels \cup IsrLabels]
      BY <1>0, <2>1 DEF TypeInv, MainLabels
    <3> QED
      BY <1>0, <1>1, <2>1, <3>1, <3>2, <3>3
      DEF TypeInv, TypeOK, Threads, tx, application
  <2>6. TxInv'
    BY <1>0, <1>1, <2>1 DEF TypeInv, TxInv, Polling, Threads, tx
  <2>7. CASE x = "main"
    <3>1. RoomInv'
      BY <1>0, <1>1, <2>1, <2>7 DEF TypeInv, RoomInv, Threads
    <3>2. OrderInv'
      BY <1>0, <1>1, <2>1, <2>7 DEF TypeInv, OrderInv, Stuck, Polling, Threads
    <3> QED
      BY <2>5, <2>6, <3>1, <3>2 DEF Inv
  <2>8. CASE x = "isr"
    <3>1. /\ pc'["isr"] = "rx_push" /\ packet'["isr"] = Tail(p)
          /\ pc'["main"] = pc["main"] /\ packet["isr"] = p
      BY <1>0, <2>1, <2>4, <2>8 DEF TypeInv, Threads, p
    <3>2. RoomInv'
      <4>1. RxUsed + Len(p) < Size
        BY <1>0, <1>1, <2>8, <3>1 DEF RoomInv
      <4>2. (RxUsed + 1) + m < Size
        BY <1>1, <2>3, <4>1 DEF Sane, Slots
      <4> QED
        BY <1>1, <3>1, <4>2 DEF RoomInv, m
    <3>3. Stuck' = Stuck
      BY <1>1, <3>1 DEF Stuck, Polling, tx
    <3>4. ASSUME ~Stuck PROVE Ordered'
      <4>1. PICK u \in Slots : u = RxUsed /\ RxUsed' = u
        BY <1>1
      <4>2. PICK h \in Slots : h = rx_head /\ rx_head' = h
        BY <1>0, <1>1 DEF TypeInv, TypeOK, Slots
      <4>3. PICK t \in Slots : t = rx_tail /\ rx_tail' = t
        BY <1>0, <1>1 DEF TypeInv, TypeOK, Slots
      <4>4. Ordered /\ Pushing = 0 /\ Pushing' = 1 /\ u \in Nat
        BY <1>0, <1>1, <2>8, <3>1, <3>4 DEF OrderInv, Pushing, Slots
      <4>5. \A n : After(n)' = After(n)
        BY <1>1 DEF After, application
      <4>6. \A k \in 0 .. u - 1 :
              rx_data'[Masked(t + k)] = rx_data[Masked(t + k)]
        <5>1. \A k \in 0 .. u - 1 : Masked(t + k) \in Slots /\ Masked(t + k) # h
          BY <4>1, <4>2, <4>3, HeadIsNext DEF RxUsed
        <5> QED
          BY <1>0, <2>4, <4>2, <5>1 DEF TypeInv
      <4>7. \A k \in 0 .. u - 1 : rx_data'[Masked(t + k)] = After(1 + k)
        BY <4>1, <4>3, <4>4, <4>6 DEF Ordered
      <4>8. \A k \in 1 .. Len(p) : p[k] = After(u + k)
        BY <3>1, <4>1, <4>4 DEF Ordered
      <4>9. rx_data'[h] = After(1 + u)
        <5>1. rx_data'[h] = p[1]
          BY <1>0, <2>3, <2>4, <4>2 DEF TypeInv
        <5>2. p[1] = After(u + 1) /\ u + 1 = 1 + u
          BY <2>3, <4>4, <4>8 DEF m
        <5> QED
          BY <5>1, <5>2
      <4>10. \A k \in 1 .. m : Tail(p)[k] = After((u + 1) + k)
        <5> TAKE k \in 1 .. m
        <5>1. k + 1 \in 1 .. Len(p) /\ u + (k + 1) = (u + 1) + k
          BY <2>3, <4>4
        <5> QED
          BY <2>3, <4>8, <5>1
      <4>11. sent' = After((u + 1) + (1 + m))
        <5>1. sent' = After((u + 0) + (1 + Len(p)))
          BY <1>1, <3>1, <4>1, <4>4 DEF Ordered
        <5>2. (u + 0) + (1 + Len(p)) = (u + 1) + (1 + m)
          BY <2>3, <4>4
        <5> QED
          BY <5>1, <5>2
      <4>12. pc'["main"] = "pop" => u > 0 /\ c' = rx_data'[t]
        <5>1. SUFFICES ASSUME pc["main"] = "pop" PROVE u > 0 /\ c' = rx_data'[t]
          BY <3>1
        <5>2. u > 0 /\ c' = rx_data[t]
          BY <1>1, <4>1, <4>3, <4>4, <5>1 DEF Ordered, application
        <5>3. Masked(t + 0) = t
          BY <4>3, MaskLow DEF Slots
        <5> QED
          BY <4>4, <4>6, <5>2, <5>3
      <4> QED
        BY <3>1, <4>1, <4>2, <4>3, <4>4, <4>5, <4>7, <4>9, <4>10, <4>11, <4>12
        DEF Ordered, m
    <3> QED
      BY <2>5, <2>6, <3>1, <3>2, <3>3, <3>4 DEF OrderInv, Inv
  <2> QED
    BY <2>7, <2>8 DEF Threads
<1> QED
  BY <1>2, <1>3

LEMMA RxPushKeeps == ASSUME Sane, Inv, NEW x \in Threads, RxPush(x) PROVE Inv'
<1>0. TypeInv /\ RoomInv /\ TxInv /\ OrderInv
  BY DEF Inv
<1>1. /\ pc[x] = "rx_push" /\ rx_head' = Masked(rx_head + 1)
      /\ pc' = [pc EXCEPT ![x] = "rx_put"]
      /\ UNCHANGED <<packet, rx_data, rx_tail, tx, application, sent>>
  BY DEF RxPush, At, Goto, Advanced
<1>2. TypeInv'
  <2>1. rx_head' \in Slots
    BY <1>0, <1>1, NextSlot DEF TypeInv, TypeOK, Slots
  <2> QED
    BY <1>0, <1>1, <2>1
    DEF TypeInv, TypeOK, Threads, MainLabels, IsrLabels, Slots, tx, application
<1>3. TxInv'
  BY <1>0, <1>1 DEF TypeInv, TxInv, Polling, Threads, tx
<1>4. CASE x = "main"
  <2>1. RoomInv' /\ OrderInv'
    <3>1. pc["isr"] = "out"
      BY <1>4 DEF RxPush, At
    <3> QED
      BY <1>0, <1>1, <1>4, <3>1
      DEF TypeInv, RoomInv, OrderInv, Stuck, Polling, Threads
  <2> QED
    BY <1>2, <1>3, <2>1 DEF Inv
<1>5. CASE x = "isr"
  <2> DEFINE m == Len(packet["isr"])
  <2>1. /\ pc'["isr"] = "rx_put" /\ pc'["main"] = pc["main"]
        /\ packet'["isr"] = packet["isr"] /\ m \in Nat
    BY <1>0, <1>1, <1>5 DEF TypeInv, Threads
  <2> HIDE DEF m
  <2>2. PICK u \in Slots : u = RxUsed
    BY <1>0, UsedIsSlot
  <2>3. PICK h \in Slots : h = rx_head
    BY <1>0 DEF TypeInv, TypeOK, Slots
  <2>4. PICK t \in Slots : t = rx_tail /\ rx_tail' = t
    BY <1>0, <1>1 DEF TypeInv, TypeOK, Slots
  <2>5. (u + 1) + m < Size /\ u \in Nat
    <3>1. (RxUsed + 1) + m < Size
      BY <1>0, <1>1, <1>5 DEF RoomInv, m
    <3>2. u \in Nat
      BY <2>2 DEF Slots
    <3> QED
      BY <2>2, <3>1, <3>2
  <2>6. RxUsed' = u + 1
    <3>1. u + 1 < Size
      BY <2>1, <2>5 DEF Sane
    <3> QED
      BY <1>1, <2>2, <2>3, <2>4, <3>1, HeadMoves DEF RxUsed
  <2>7. RoomInv'
    BY <2>1, <2>5, <2>6 DEF RoomInv, m
  <2>8. Stuck' = Stuck
    BY <1>1, <2>1 DEF Stuck, Polling, tx
  <2>9. ASSUME ~Stuck PROVE Ordered'
    <3>1. Ordered /\ Pushing = 1 /\ Pushing' = 0
      BY <1>0, <1>1, <1>5, <2>1, <2>9 DEF OrderInv, Pushing
    <3>2. \A n : After(n)' = After(n)
      BY <1>1 DEF After, application
    <3>3. Masked(t + u) = h
      BY <2>2, <2>3, <2>4, HeadIsNext DEF RxUsed
    <3>4. \A k \in 0 .. (u + 1) - 1 : rx_data[Masked(t + k)] = After(1 + k)
      <4> TAKE k \in 0 .. (u + 1) - 1
      <4>1. CASE k = u
        BY <1>1, <1>5, <2>2, <2>3, <3>1, <3>3, <4>1 DEF Ordered
      <4>2. CASE k # u
        <5>1. k \in 0 .. u - 1
          BY <2>5, <4>2
        <5> QED
          BY <2>2, <2>4, <3>1, <5>1 DEF Ordered
      <4> QED
        BY <4>1, <4>2
    <3>5. /\ \A k \in 1 .. m : packet["isr"][k] = After((u + 1) + k)
          /\ sent = After((u + 1) + (1 + m))
      BY <2>2, <3>1 DEF Ordered, m
    <3>6. (u + 1) + 0 = u + 1
      BY <2>5
    <3>7. pc'["main"] = "pop" => u + 1 > 0 /\ c' = rx_data'[t]
      BY <1>1, <2>1, <2>4, <2>5, <3>1 DEF Ordered, application
    <3> QED
      BY <1>1, <2>1, <2>4, <2>6, <3>1, <3>2, <3>4, <3>5, <3>6, <3>7
      DEF Ordered, m
  <2> QED
    BY <1>0, <1>2, <1>3, <2>1, <2>7, <2>8, <2>9 DEF OrderInv, Inv
<1> QED
  BY <1>4, <1>5 DEF Threads

LEMMA WriteKeeps == ASSUME Sane, Inv, WriteChar PROVE Inv'
<1>0. TypeInv /\ RoomInv /\ TxInv /\ OrderInv
  BY DEF Inv
<1>1. /\ pc["main"] = "run" /\ pc["isr"] = "out"
      /\ pc' = [pc EXCEPT !["main"] = "tx_push"]
      /\ UNCHANGED <<packet, rx, tx, i, c, got, ret, sent>>
  BY DEF WriteChar, At, Goto
<1>2. TypeInv'
  BY <1>0, <1>1 DEF TypeInv, TypeOK, Threads, MainLabels, IsrLabels, rx, tx
<1>3. RoomInv' /\ TxInv'
  BY <1>0, <1>1 DEF TypeInv, RoomInv, TxInv, Polling, Threads, rx, tx
<1>4. OrderInv'
  BY <1>0, <1>1
  DEF TypeInv, OrderInv, Stuck, Polling, Ordered, RxUsed, Pushing, After, Threads,
      rx, tx
<1> QED
  BY <1>2, <1>3, <1>4 DEF Inv

\* Only the last slot before the tail makes push wait, and then for ever.
LEMMA TxPushKeeps == ASSUME Sane, Inv, TxPush PROVE Inv'
<1>0. TypeInv /\ RoomInv /\ TxInv /\ OrderInv
  BY DEF Inv
<1>1. /\ pc["main"] = "tx_push" /\ pc["isr"] = "out"
      /\ UNCHANGED <<packet, rx, tx_tail, application, sent>>
  BY DEF TxPush, At
<1>2. PICK h \in Slots : h = tx_head
  BY <1>0 DEF TypeInv, TypeOK, Slots
<1>3. /\ Masked(h + 1) \in Slots
      /\ Masked(h + 1) = IF h = Size - 1 THEN 0 ELSE h + 1
  BY NextSlot
<1>4. TxFull <=> tx_head = Size - 1
  BY <1>0, <1>2, <1>3 DEF TxFull, TxInv, Slots
<1>5. CASE TxFull
  <2>1. pc' = [pc EXCEPT !["main"] = "check_tx"] /\ tx_head' = tx_head
    BY <1>5 DEF TxPush, Goto
  <2>2. TypeInv'
    BY <1>0, <1>1, <2>1
    DEF TypeInv, TypeOK, Threads, MainLabels, IsrLabels, rx, application
  <2>3. RoomInv' /\ TxInv'
    BY <1>0, <1>1, <1>4, <1>5, <2>1
    DEF TypeInv, RoomInv, TxInv, Polling, Threads, rx
  <2>4. OrderInv'
    BY <1>0, <1>1, <2>1 DEF TypeInv, OrderInv, Stuck, Polling, Threads
  <2> QED
    BY <2>2, <2>3, <2>4 DEF Inv
<1>6. CASE ~TxFull
  <2>1. /\ pc' = [pc EXCEPT !["main"] = "run"]
        /\ tx_head' = Masked(h + 1) /\ ~Stuck
    BY <1>1, <1>2, <1>4, <1>6 DEF TxPush, Goto, Advanced, Stuck, Polling
  <2>2. TypeInv'
    BY <1>0, <1>1, <1>3, <2>1
    DEF TypeInv, TypeOK, Threads, MainLabels, IsrLabels, Slots, rx, application
  <2>3. RoomInv' /\ TxInv'
    BY <1>0, <1>1, <2>1 DEF TypeInv, RoomInv, TxInv, Polling, Threads, rx
  <2>4. OrderInv'
    BY <1>0, <1>1, <2>1
    DEF TypeInv, OrderInv, Ordered, RxUsed, Pushing, After, Threads, rx, application
  <2> QED
    BY <2>2, <2>3, <2>4 DEF Inv
<1> QED
  BY <1>5, <1>6

LEMMA ReadKeeps == ASSUME Sane, Inv, Read \/ ReadReturn PROVE Inv'
<1>0. TypeInv /\ RoomInv /\ TxInv /\ OrderInv
  BY DEF Inv
<1>1. /\ pc["main"] \in {"run", "read"} /\ pc["isr"] = "out"
      /\ pc' = [pc EXCEPT !["main"] = "read"] \/ pc' = [pc EXCEPT !["main"] = "run"]
      /\ UNCHANGED <<packet, rx, tx, c, got, sent>>
  BY DEF Read, ReadReturn, At, Goto
<1>2. i' \in 0 .. ReadLen /\ ret' \in -1 .. ReadLen
  BY <1>0 DEF Sane, TypeInv, TypeOK, Read, ReadReturn
<1>3. TypeInv'
  BY <1>0, <1>1, <1>2 DEF TypeInv, TypeOK, Threads, MainLabels, IsrLabels, rx, tx
<1>4. RoomInv' /\ TxInv'
  BY <1>0, <1>1 DEF TypeInv, RoomInv, TxInv, Polling, Threads, rx, tx
<1>5. OrderInv'
  BY <1>0, <1>1
  DEF TypeInv, OrderInv, Stuck, Polling, Ordered, RxUsed, Pushing, After, Threads,
      rx, tx
<1> QED
  BY <1>3, <1>4, <1>5 DEF Inv

LEMMA ReadDataKeeps == ASSUME Sane, Inv, ReadData PROVE Inv'
<1>0. TypeInv /\ RoomInv /\ TxInv /\ OrderInv
  BY DEF Inv
<1>1. /\ pc["main"] = "read" /\ pc["isr"] = "out" /\ i < ReadLen
      /\ rx_head # rx_tail /\ c' = rx_data[rx_tail]
      /\ pc' = [pc EXCEPT !["main"] = "pop"]
      /\ UNCHANGED <<packet, rx, tx, i, got, ret, sent>>
  BY DEF ReadData, Element, At, Goto
<1>2. TypeInv'
  <2>1. c' \in Bytes
    BY <1>0, <1>1 DEF TypeInv, TypeOK, Slots
  <2> QED
    BY <1>0, <1>1, <2>1
    DEF TypeInv, TypeOK, Threads, MainLabels, IsrLabels, Bytes, rx, tx
<1>3. RoomInv' /\ TxInv'
  BY <1>0, <1>1 DEF TypeInv, RoomInv, TxInv, Polling, Threads, rx, tx
<1>4. RxUsed > 0
  <2>1. rx_head \in Slots /\ rx_tail \in Slots
    BY <1>0 DEF TypeInv, TypeOK, Slots
  <2> QED
    BY <1>1, <2>1, TailMoves DEF RxUsed
<1>5. OrderInv'
  BY <1>0, <1>1, <1>4
  DEF TypeInv, OrderInv, Stuck, Polling, Ordered, RxUsed, Pushing, After, Threads,
      rx, tx
<1> QED
  BY <1>2, <1>3, <1>5 DEF Inv

\* The byte in hand follows the one read before it.
LEMMA PopIsNext == ASSUME Sane, Inv, Pop PROVE got' = (got + 1) % Numbers
<1>1. /\ TypeInv /\ Ordered /\ pc["main"] = "pop" /\ got' = c
  BY DEF Inv, OrderInv, Stuck, Polling, Pop, At
<1>2. PICK t \in Slots : t = rx_tail
  BY <1>1 DEF TypeInv, TypeOK, Slots
<1>3. RxUsed > 0 /\ RxUsed \in Slots /\ c = rx_data[t]
  BY <1>1, <1>2, UsedIsSlot DEF Ordered
<1>4. Masked(t + 0) = t
  BY MaskLow DEF Slots
<1>5. 0 \in 0 .. RxUsed - 1
  BY <1>3 DEF Slots
<1>6. rx_data[Masked(t + 0)] = After(1 + 0)
  BY <1>1, <1>2, <1>5 DEF Ordered
<1> QED
  BY <1>1, <1>3, <1>4, <1>6 DEF After

\* The queue begins with the next slot and the next number.
LEMMA PopKeeps == ASSUME Sane, Inv, Pop PROVE Inv'
<1>0. TypeInv /\ RoomInv /\ TxInv /\ OrderInv
  BY DEF Inv
<1>1. /\ pc["main"] = "pop" /\ pc["isr"] = "out"
      /\ pc' = [pc EXCEPT !["main"] = "read"]
      /\ rx_tail' = Masked(rx_tail + 1) /\ got' = c /\ i' = i + 1
      /\ UNCHANGED <<packet, rx_data, rx_head, tx, c, ret, sent>>
  BY DEF Pop, At, Goto, Advanced
<1>2. PICK t \in Slots : t = rx_tail /\ rx_tail' = Masked(t + 1)
  BY <1>0, <1>1 DEF TypeInv, TypeOK, Slots
<1>3. TypeInv'
  <2>1. rx_tail' \in Slots /\ i' \in 0 .. ReadLen
    <3>1. rx_tail' \in Slots
      BY <1>2, NextSlot
    <3>2. i < ReadLen /\ i \in 0 .. ReadLen
      BY <1>0, <1>1 DEF TypeInv, TypeOK
    <3> QED
      BY <1>1, <3>1, <3>2 DEF Sane
  <2> QED
    BY <1>0, <1>1, <2>1
    DEF TypeInv, TypeOK, Threads, MainLabels, IsrLabels, Slots, tx
<1>4. RoomInv' /\ TxInv'
  BY <1>0, <1>1 DEF TypeInv, RoomInv, TxInv, Polling, Threads, tx
<1>5. OrderInv'
  <2>1. /\ Ordered /\ packet["isr"] = <<>> /\ packet'["isr"] = <<>>
        /\ Pushing = 0 /\ Pushing' = 0 /\ pc'["isr"] = "out"
        /\ pc'["main"] = "read" /\ Len(<<>>) = 0
    BY <1>0, <1>1 DEF TypeInv, OrderInv, Stuck, Polling, Pushing, Threads
  <2>2. PICK u \in Slots : u = RxUsed
    BY <1>0, UsedIsSlot
  <2>3. u > 0 /\ RxUsed' = u - 1 /\ u \in Nat
    <3>1. RxUsed > 0
      BY <1>1, <2>1 DEF Ordered
    <3>2. PICK h \in Slots : h = rx_head
      BY <1>0 DEF TypeInv, TypeOK, Slots
    <3>3. h # t
      <4>1. h = t => Masked(h - t) = 0
        <5>1. 0 \in Slots /\ (h = t => h - t = 0)
          BY <2>2 DEF Slots, Sane
        <5> QED
          BY <5>1, MaskLow
      <4> QED
        BY <1>2, <3>1, <3>2, <4>1 DEF RxUsed
    <3> QED
      BY <1>1, <1>2, <2>2, <3>1, <3>2, <3>3, TailMoves DEF RxUsed, Slots
  <2>4. got \in Int /\ Numbers \in Nat \ {0}
    BY <1>0 DEF TypeInv, TypeOK, Sane
  <2>5. ASSUME NEW n \in Int PROVE After(n)' = After(1 + n)
    <3>1. After(n)' = (((got + 1) % Numbers) + n) % Numbers
      BY PopIsNext DEF After
    <3>2. (((got + 1) % Numbers) + n) % Numbers = ((got + 1) + n) % Numbers
      BY <2>4, got + 1 \in Int, WrappedSum
    <3>3. (got + 1) + n = got + (1 + n)
      BY <2>4
    <3> QED
      BY <3>1, <3>2, <3>3 DEF After
  <2>6. \A k \in 0 .. (u - 1) - 1 :
          rx_data'[Masked(rx_tail' + k)] = After(1 + k)'
    <3> TAKE k \in 0 .. (u - 1) - 1
    <3>1. k + 1 \in 0 .. u - 1 /\ k \in Slots /\ k + 1 \in Slots /\ 1 + k \in Int
          /\ 1 + (k + 1) = 1 + (1 + k)
      BY <2>2, <2>3 DEF Slots, Sane
    <3>2. Masked(Masked(t + 1) + k) = Masked(t + (k + 1))
      <4>1. PICK n \in Slots : n = Masked(t + 1)
                               /\ n = IF t = Size - 1 THEN 0 ELSE t + 1
        BY NextSlot
      <4>2. Masked(n + k) = IF n + k < Size THEN n + k ELSE (n + k) - Size
        BY <3>1, SlotAt
      <4>3. Masked(t + (k + 1)) = IF t + (k + 1) < Size THEN t + (k + 1)
                                  ELSE (t + (k + 1)) - Size
        BY <3>1, SlotAt
      <4>4. Masked(n + k) = Masked(t + (k + 1))
        BY <3>1, <4>1, <4>2, <4>3 DEF Slots, Sane
      <4> QED
        BY <4>1, <4>4
    <3>3. rx_data[Masked(t + (k + 1))] = After(1 + (k + 1))
      BY <1>2, <2>1, <2>2, <3>1 DEF Ordered
    <3> QED
      BY <1>1, <1>2, <2>5, <3>1, <3>2, <3>3
  <2>7. sent' = After(((u - 1) + 0) + (1 + 0))'
    <3>1. sent' = After((u + 0) + (1 + 0))
      BY <1>1, <2>1, <2>2 DEF Ordered
    <3>2. ((u - 1) + 0) + (1 + 0) \in Int
          /\ 1 + (((u - 1) + 0) + (1 + 0)) = (u + 0) + (1 + 0)
      BY <2>3
    <3> QED
      BY <2>5, <3>1, <3>2
  <2>8. Ordered'
    BY <2>1, <2>3, <2>6, <2>7 DEF Ordered
  <2> QED
    BY <2>1, <2>8 DEF OrderInv
<1> QED
  BY <1>3, <1>4, <1>5 DEF Inv

LEMMA NextInv == ASSUME Sane, Inv, [Next]_vars PROVE Inv'
<1>1. CASE UNCHANGED vars
  BY <1>1
  DEF vars, rx, tx, application, Inv, TypeInv, TypeOK, RoomInv, TxInv, Polling,
      OrderInv, Stuck, Ordered, RxUsed, Pushing, After
<1>2. CASE \E x \in Threads : Idle(x)
  BY <1>2, CheckTxKeeps, CheckRxKeeps, ReadPacketKeeps, RxPutKeeps, RxPushKeeps
  DEF Idle
<1>3. CASE WriteChar \/ TxPush \/ Read \/ ReadData \/ Pop \/ ReadReturn
  BY <1>3, WriteKeeps, TxPushKeeps, ReadKeeps, ReadDataKeeps, PopKeeps
<1> QED
  BY <1>1, <1>2, <1>3, InterruptKeeps DEF Next, Main, Threads

-----------------------------------------------------------------------------
\* The indices stay in the buffers, and a packet in hand is never longer than
\* one of the device (usbcdc.c:250-316).
THEOREM TypeCorrect == ASSUME Sane PROVE Spec => []TypeOK
<1>1. Inv => TypeOK
  BY DEF Inv, TypeInv
<1>2. Init => Inv
  BY InitInv
<1>3. Inv /\ [Next]_vars => Inv'
  BY NextInv
<1> QED
  BY <1>1, <1>2, <1>3, PTL DEF Spec

\* An interrupt that has read a packet finds room for all of it, so that it never
\* waits for the thread it has interrupted (usbcdc.c:261-262, buffer.h:67).
THEOREM IsrFindsRoom == ASSUME Sane PROVE Spec => []IsrNeverWaits
<1>1. ASSUME Inv PROVE IsrNeverWaits
  <2>1. SUFFICES ASSUME pc["isr"] = "rx_push", RxFull PROVE FALSE
    BY DEF IsrNeverWaits, At
  <2>2. PICK h \in Slots : h = rx_head
    BY <1>1 DEF Inv, TypeInv, TypeOK, Slots
  <2>3. PICK t \in Slots : t = rx_tail
    BY <1>1 DEF Inv, TypeInv, TypeOK, Slots
  <2>4. (RxUsed + 1) + Len(packet["isr"]) < Size /\ Len(packet["isr"]) \in Nat
    BY <1>1, <2>1 DEF Inv, TypeInv, RoomInv, Threads
  <2>5. Masked(h - t) + 1 < Size /\ Masked(h - t) \in Slots
    BY <1>1, <2>2, <2>3, <2>4, UsedIsSlot DEF Inv, RxUsed, Sane, Slots
  <2>6. Masked(t - t) = Masked(h - t) + 1
    BY <2>1, <2>2, <2>3, <2>5, HeadMoves DEF RxFull
  <2>7. Masked(t - t) = 0
    <3>1. t - t = 0 /\ 0 \in Slots
      BY DEF Sane, Slots
    <3> QED
      BY <3>1, MaskLow
  <2> QED
    BY <2>5, <2>6, <2>7 DEF Slots
<1>2. Init => Inv
  BY InitInv
<1>3. Inv /\ [Next]_vars => Inv'
  BY NextInv
<1> QED
  BY <1>1, <1>2, <1>3, PTL DEF Spec

\* What the program reads is what the host has sent, in that order and without a
\* gap, whatever the sizes and wherever the interrupts come (usbcdc.c:260-272,
\* 305-316).
THEOREM ReadInOrder == ASSUME Sane PROVE Spec => RxInOrder
<1>1. Inv /\ [Next]_vars => [Pop => got' = (got + 1) % Numbers]_vars
  BY PopIsNext
<1>2. Init => Inv
  BY InitInv
<1>3. Inv /\ [Next]_vars => Inv'
  BY NextInv
<1> QED
  BY <1>1, <1>2, <1>3, PTL DEF Spec, RxInOrder
=============================================================================
