------------------------------ MODULE MCDrivers ------------------------------
(***************************************************************************)
(* An instance of Drivers for TLC.  The display: a lamp, the one that the  *)
(* panel puts out when no parameter is shown (ui.c:73, 285), one text    *)
(* that ends before the last digit and one that goes beyond it, with dots  *)
(* after a character, on their own and at the end, and sets of keys that   *)
(* tell all 24 bits apart.  Buffers of four slots, whose indices go round. *)
(***************************************************************************)
EXTENDS Drivers, SequencesExt, TLC

\* Four characters of led_font.h.
Font == " " :> 0 @@ "." :> 128 @@ "1" :> 6 @@ "-" :> 64

Glyph(char, dot) == [char |-> char, dot |-> dot]

Written(g) == IF g.dot THEN <<g.char, ".">> ELSE <<g.char>>

TextCalls ==
  {[op |-> "string", pos |-> 6, glyphs |-> gs,
    text |-> FlattenSeq([g \in DOMAIN gs |-> Written(gs[g])])] :
     gs \in {<<Glyph("-", TRUE)>>,
             <<Glyph(".", TRUE), Glyph("1", FALSE), Glyph("-", TRUE)>>}}

\* A key of line l and number n is in the set j if bit j of 8 l + n is set.
KeySets ==
  {{k \in (0 .. 2) \X (0 .. 7) : ((8 * k[1] + k[2]) \div 2^j) % 2 = 1} : j \in 0 .. 4}

PanelCalls ==
  TextCalls \cup {[op |-> "keys", held |-> ks] : ks \in KeySets}
    \cup {[op |-> "led", pos |-> 6, color |-> lit] : lit \in 0 .. 1}
    \cup {[op |-> "led", pos |-> 255, color |-> 0]}

\* Nobody has cleared the chip when it gets power.
SomeLit == {[cell \in 0 .. 16 |-> IF cell \in {0, 15} THEN 255 ELSE 0]}

ThreeElements == {"a", "b", "c"}
=============================================================================
