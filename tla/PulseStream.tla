----------------------------- MODULE PulseStream -----------------------------
(***************************************************************************)
(* What the pulser promises at its output port, one byte per timer tick.   *)
(*                                                                         *)
(* While the output is on, Lead blank bytes come first, then the frames of *)
(* the selected pattern, back to back and without a gap, a repeat or a     *)
(* jump, the first byte of every frame carrying the reference clock.  The  *)
(* pattern changes only while the output is off, and every start begins    *)
(* again with the blank bytes and the first byte of a frame.               *)
(*                                                                         *)
(* Nothing here knows of buffers, DMA or interrupts: module Ticker does.   *)
(***************************************************************************)
EXTENDS Naturals

CONSTANTS MaxPattern,  \* the patterns are 0 .. MaxPattern
          Period,      \* Period[p] is the number of bytes of a frame of p
          Lead,        \* number of blank bytes after a start
          Blank        \* the byte without pulses that is in no frame

VARIABLES port,     \* the byte last put on the port
          on,       \* is the output on?
          pattern,  \* the selected pattern
          lead,     \* blank bytes still to come
          pos       \* position in the frame of the next byte that is not blank

vars == <<port, on, pattern, lead, pos>>

Patterns == 0 .. MaxPattern

\* Byte q of a frame of pattern p; ref is the reference clock bit.
Frame(p, q) == [pattern |-> p, pos |-> q, ref |-> q = 0]

NextPos(p, q) == IF q + 1 = Period[p] THEN 0 ELSE q + 1

Init ==
  /\ port = Blank
  /\ on = FALSE
  /\ pattern = 0
  /\ lead = Lead
  /\ pos = 0

Select(p) ==
  /\ ~on
  /\ pattern' = p
  /\ UNCHANGED <<port, on, lead, pos>>

Start ==
  /\ ~on
  /\ on' = TRUE
  /\ UNCHANGED <<port, pattern, lead, pos>>

Stop ==
  /\ on
  /\ on' = FALSE
  /\ lead' = Lead
  /\ pos' = 0
  /\ UNCHANGED <<port, pattern>>

EmitBlank ==
  /\ on
  /\ lead > 0
  /\ port' = Blank
  /\ lead' = lead - 1
  /\ UNCHANGED <<on, pattern, pos>>

EmitFrame ==
  /\ on
  /\ lead = 0
  /\ port' = Frame(pattern, pos)
  /\ pos' = NextPos(pattern, pos)
  /\ UNCHANGED <<on, pattern, lead>>

Next ==
  \/ \E p \in Patterns : Select(p)
  \/ Start
  \/ Stop
  \/ EmitBlank
  \/ EmitFrame

Spec == Init /\ [][Next]_vars
=============================================================================
