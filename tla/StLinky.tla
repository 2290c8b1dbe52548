------------------------------ MODULE StLinky ------------------------------
(***************************************************************************)
(* stlinky.c: characters for a debugger, which reads them out of the       *)
(* program's memory at any time (external), if there is one at all.  One   *)
(* thread prints.                                                          *)
(***************************************************************************)
EXTENDS Integers

CONSTANTS STLINKY_BUFSIZE, Characters, Nothing

VARIABLES
  upbuff, up_head, up_tail,
  pc, c, next_head,   \* stl_putchar
  seen                \* the character the debugger took last

vars == <<upbuff, up_head, up_tail, pc, c, next_head, seen>>

NextHead == (up_head + 1) % STLINKY_BUFSIZE

\* A character that does not fit is eaten.
Checked(next) == IF next = up_tail THEN "out" ELSE "store"

stl_putchar(char) ==
  /\ pc = "out"
  /\ c' = char
  /\ next_head' = NextHead
  /\ pc' = Checked(next_head')
  /\ UNCHANGED <<upbuff, up_head, up_tail, seen>>

\* Mutant: the character goes where the head is about to be.
StoredAhead == next_head

Slot == up_head

Store ==
  /\ pc = "store"
  /\ upbuff' = [upbuff EXCEPT ![Slot] = c]
  /\ pc' = "advance"
  /\ UNCHANGED <<up_head, up_tail, c, next_head, seen>>

Advance ==
  /\ pc = "advance"
  /\ up_head' = next_head
  /\ pc' = "out"
  /\ UNCHANGED <<upbuff, up_tail, c, next_head, seen>>

\* The debugger (external).
Take ==
  /\ up_head # up_tail
  /\ seen' = upbuff[up_tail]
  /\ up_tail' = (up_tail + 1) % STLINKY_BUFSIZE
  /\ UNCHANGED <<upbuff, up_head, pc, c, next_head>>

Init ==
  /\ upbuff = [i \in 0 .. STLINKY_BUFSIZE - 1 |-> Nothing]
  /\ up_head = 0 /\ up_tail = 0 /\ next_head = 0
  /\ pc = "out" /\ c = Nothing /\ seen = Nothing

_write == Store \/ Advance \/ \E char \in Characters : stl_putchar(char)

Next == _write \/ Take

Spec == Init /\ [][Next]_vars

-----------------------------------------------------------------------------
TypeOK ==
  /\ upbuff \in [0 .. STLINKY_BUFSIZE - 1 -> Characters \cup {Nothing}]
  /\ {up_head, up_tail, next_head} \subseteq 0 .. STLINKY_BUFSIZE - 1
  /\ pc \in {"out", "store", "advance"}
  /\ {c, seen} \subseteq Characters \cup {Nothing}

\* The debugger sees the characters that were not eaten, in their order and each
\* of them once, whenever it looks (stlinky.c:66-75).
Fifo == INSTANCE BoundedFifo WITH
  Capacity <- STLINKY_BUFSIZE - 1,
  Elements <- Characters,
  got <- seen,
  queue <- [i \in 1 .. (up_head - up_tail) % STLINKY_BUFSIZE |->
              upbuff[(up_tail + i - 1) % STLINKY_BUFSIZE]]

FifoSpec == Fifo!Spec
=============================================================================
