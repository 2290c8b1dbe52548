----------------------------- MODULE KeyDisplay -----------------------------
(***************************************************************************)
(* What a driver of a display promises its caller: a call changes the      *)
(* cells it is about and no others, no cell ever shows anything but what   *)
(* it showed before or what the call puts there, and all of them are as    *)
(* the call says when it returns.  After a restart the program begins with *)
(* the first call again, wherever it was.                                  *)
(***************************************************************************)
CONSTANTS Calls, FirstCall, None,
          Target(_)   \* the cells a call is about, with what it puts there

VARIABLES cells, call

vars == <<cells, call>>

Init == call = FirstCall

Begin(new) ==
  /\ call = None
  /\ call' = new
  /\ UNCHANGED cells

Shown(cell) ==
  \/ cells'[cell] = cells[cell]
  \/ cell \in DOMAIN Target(call) /\ cells'[cell] = Target(call)[cell]

Show ==
  /\ call # None
  /\ DOMAIN cells' = DOMAIN cells
  /\ \A cell \in DOMAIN cells : Shown(cell)
  /\ UNCHANGED call

Return ==
  /\ call # None
  /\ \A cell \in DOMAIN Target(call) : cells[cell] = Target(call)[cell]
  /\ call' = None
  /\ UNCHANGED cells

Restart ==
  /\ call' = FirstCall
  /\ UNCHANGED cells

Next == Show \/ Return \/ Restart \/ \E new \in Calls : Begin(new)

Spec == Init /\ [][Next]_vars
=============================================================================
