------------------------------- MODULE Usart -------------------------------
(***************************************************************************)
(* usart.c: printf of the main thread and of the interrupt handler         *)
(* (pattern.c:598, 615) end up in the same _write, which waits for the     *)
(* transmitter and stores one character after the other.  The handler may  *)
(* come between any two accesses, and the main thread waits for its end.   *)
(***************************************************************************)
EXTENDS Integers

CONSTANTS
  MaxLen,    \* bound: characters of a text
  MaxTexts   \* bound: texts of the handler, which prints only at a first run

Threads == {"main", "handler"}

Empty == [from |-> "none", last |-> FALSE]

VARIABLES
  pc,     \* where each thread is in _write
  len,    \* _write: the characters up to its end or to the first '\0'
  ret,    \* _write: ret
  dr,     \* the transmitter's data register (external)
  owed,   \* characters the main thread has stored and the line has not seen
  texts   \* how many texts the handler has printed

vars == <<pc, len, ret, dr, owed, texts>>

At(x, label) == pc[x] = label /\ (x = "main" => pc["handler"] = "out")

Goto(x, label) == pc' = [pc EXCEPT ![x] = label]

Write(x) ==
  /\ At(x, "out")
  /\ \E n \in 0 .. MaxLen : len' = [len EXCEPT ![x] = n]
  /\ ret' = [ret EXCEPT ![x] = 0]
  /\ IF x = "handler" THEN texts < MaxTexts /\ texts' = texts + 1
     ELSE UNCHANGED texts
  /\ Goto(x, "loop")
  /\ UNCHANGED <<dr, owed>>

\* Mutant: one character beyond the end is written, too.
OneMore(x) == ret[x] <= len[x]

More(x) == ret[x] < len[x]

Loop(x) ==
  /\ At(x, "loop")
  /\ Goto(x, IF More(x) THEN "wait" ELSE "out")
  /\ UNCHANGED <<len, ret, dr, owed, texts>>

\* Mutant: the character is stored without waiting.
NoWait == TRUE

\* Mutant: the wait is for the wrong level of TXE.
TransmitterBusy == dr # Empty

TransmitterEmpty == dr = Empty

\* usart_putchar: TXE is tested ...
Wait(x) ==
  /\ At(x, "wait")
  /\ TransmitterEmpty
  /\ Goto(x, "send")
  /\ UNCHANGED <<len, ret, dr, owed, texts>>

\* ... before the character is stored, whatever became of TXE in between.
Send(x) ==
  /\ At(x, "send")
  /\ dr' = [from |-> x, last |-> ret[x] + 1 = len[x]]
  /\ ret' = [ret EXCEPT ![x] = ret[x] + 1]
  /\ owed' = owed + (IF x = "main" THEN 1 ELSE 0)
  /\ Goto(x, "loop")
  /\ UNCHANGED <<len, texts>>

\* The transmitter (external) puts a character on the line.
Transmit ==
  /\ dr # Empty
  /\ owed' = owed - (IF dr.from = "main" THEN 1 ELSE 0)
  /\ dr' = Empty
  /\ UNCHANGED <<pc, len, ret, texts>>

Init ==
  /\ pc = [x \in Threads |-> "out"]
  /\ len = [x \in Threads |-> 0]
  /\ ret = [x \in Threads |-> 0]
  /\ dr = Empty
  /\ owed = 0
  /\ texts = 0

Going(x) == Loop(x) \/ Wait(x) \/ Send(x)

Next ==
  \/ Transmit
  \/ \E x \in Threads : Write(x) \/ Going(x)

Spec == Init /\ [][Next]_vars

-----------------------------------------------------------------------------
TypeOK ==
  /\ pc \in [Threads -> {"out", "loop", "wait", "send"}]
  /\ len \in [Threads -> 0 .. MaxLen]
  /\ ret \in [Threads -> 0 .. MaxLen]
  /\ \A x \in Threads : ret[x] <= len[x]
  /\ dr = Empty \/ dr \in [from : Threads, last : BOOLEAN]
  /\ owed \in 0 .. 1
  /\ texts \in 0 .. MaxTexts

\* What the main thread has stored is on the line or about to be, even if the
\* handler prints in between (usart.c:52-57).
MainTextWhole == owed = IF dr.from = "main" THEN 1 ELSE 0

\* The main thread may store its character over one of the handler's, if TXE was
\* tested before the interrupt; only the last one of a text of the handler can be
\* lost that way.
OnlyLastLost ==
  [][dr # Empty /\ (\E x \in Threads : Send(x))
       => dr.from = "handler" /\ dr.last]_vars

\* Both get their texts through: _write returns (usart.c:59-76).
WriteReturns == \A x \in Threads : At(x, "loop") ~> At(x, "out")
=============================================================================
