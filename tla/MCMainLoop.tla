----------------------------- MODULE MCMainLoop ----------------------------
(***************************************************************************)
(* An instance of MainLoop for TLC: 6 bits for a word, so that its square  *)
(* root is 8, and a threshold below the first time that steps by two.      *)
(***************************************************************************)
EXTENDS MainLoop

TwoKeys == {"KEY_PREV", "KEY_NEXT"}
OneOther == {"KEY_PAR"}
=============================================================================
