---------------------------- MODULE MCGenerators ----------------------------
(***************************************************************************)
(* Instances of Generators for TLC: the frames of pattern.c, and fewer     *)
(* events at every place a walker stops.                                   *)
(***************************************************************************)
EXTENDS Generators

RealLength ==
  [g \in Names |-> CASE g \in {"null", "stupid1", "binary", "slow_reg"} -> 256
                     [] g = "med_reg" -> 2048
                     [] OTHER -> 8192]

AllButFast == Names \ {"fast_reg"}

JustBinary == {"binary"}

Walkers == {"walking", "bin_walk"}
=============================================================================
