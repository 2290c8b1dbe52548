------------------------------ MODULE MCShaped ------------------------------
(***************************************************************************)
(* Instances of Shaped for TLC: a small frame of six slots of eight bytes *)
(* and three channels, in the proportions of pattern.c.  The thresholds    *)
(* keep theirs to the envelope: 255 / 77 = 3.3 pulses in a byte become two *)
(* for three channels, 567 and 1777 are 2.2 and 7 times its maximum.       *)
(***************************************************************************)
EXTENDS Shaped

SmallEnv == [s \in 0 .. 5 |-> CASE s = 1 -> 2
                                [] s = 2 -> 7
                                [] s = 3 -> 4
                                [] s = 4 -> 6
                                [] OTHER -> 0]

SmallThreshold ==
  [n \in Names \ {"generic"} |-> CASE n = "step" -> 7
                                   [] n = "fast_lin" -> 6
                                   [] n = "med_lin" -> 15
                                   [] n = "rare_lin" -> 49]

JustGeneric == {"generic"}
=============================================================================
