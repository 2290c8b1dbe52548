------------------------------ MODULE MCTicker ------------------------------
(***************************************************************************)
(* Instances of Ticker for TLC.                                            *)
(***************************************************************************)
EXTENDS Ticker

\* One frame shorter than a half buffer that does not divide it, and one longer.
UnevenPeriod == [p \in 0 .. MaxPattern |-> IF p = 0 THEN 2 ELSE 5]

\* Frames that divide the half buffer, as 256, 2048 and 8192 divide 8192.
DividingPeriod == [p \in 0 .. MaxPattern |-> 2 ^ p]
=============================================================================
