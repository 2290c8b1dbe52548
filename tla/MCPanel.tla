------------------------------ MODULE MCPanel ------------------------------
(***************************************************************************)
(* Instances of Panel for TLC: a small one, and the real numbers.          *)
(***************************************************************************)
EXTENDS Panel

\* Two short frames, a long one and the generic pattern.
SmallPeriod == [p \in 0 .. MaxPattern |-> IF p < 2 THEN 2 ELSE 8]

\* The periods of patterns[] in pattern.c.
RealPeriod ==
  [p \in 0 .. MaxPattern |-> CASE p \in {0, 1, 2, 9} -> 256
                               [] p = 7 -> 2048
                               [] OTHER -> 8192]

\* No key, one key, PREV with NEXT, and two parameters at once.
SomeKeys == {{}, {0, 7}, {1, 2}} \cup {{k} : k \in 0 .. 7}

\* The keys that matter for the running ticker.
SettingKeys == {{}} \cup {{k} : k \in {0, 1, 2, 7}}

SmallIncrements == {1, 3}

\* The slowest and the fastest step of a key held down: (65535 ^ 2) >> 20.
RealIncrements == {1, 4095}
=============================================================================
