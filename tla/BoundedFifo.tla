---------------------------- MODULE BoundedFifo ----------------------------
(***************************************************************************)
(* What a buffer promises its one writer and its one reader: at most       *)
(* Capacity elements at a time, handed out in the order they were put in,  *)
(* every one of them once.                                                 *)
(***************************************************************************)
EXTENDS Naturals, Sequences

CONSTANTS Capacity, Elements, Nothing

VARIABLES queue, got  \* the elements inside, and the one handed out last

vars == <<queue, got>>

Init ==
  /\ queue = <<>>
  /\ got = Nothing

Put(e) ==
  /\ Len(queue) < Capacity
  /\ queue' = Append(queue, e)
  /\ UNCHANGED got

Get ==
  /\ queue # <<>>
  /\ got' = Head(queue)
  /\ queue' = Tail(queue)

Next == Get \/ \E e \in Elements : Put(e)

Spec == Init /\ [][Next]_vars
=============================================================================
