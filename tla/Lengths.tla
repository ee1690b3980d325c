------------------------------- MODULE Lengths -------------------------------
(***************************************************************************)
(* Lengths of the layouts.  The code computes with floats; a length here   *)
(* is an integer number of parts of a pixel, and a pixel has Unit of them, *)
(* so many that every division of the modelled inputs is exact.            *)
(***************************************************************************)
EXTENDS Integers

CONSTANT Unit

ASSUME UnitAssumption == Unit \in Nat \ {0}

\* xent_clampf.  With low > high a value of at least low becomes high.
Clamp(x, low, high) == IF x < low THEN low ELSE IF x > high THEN high ELSE x

AtLeastZero(x) == IF x < 0 THEN 0 ELSE x
Least(x, y) == IF x < y THEN x ELSE y

\* flex_spacing_rule: what a way of distributing free space puts in front of the
\* first of n things.  Only a shift of all may be negative.
StartOffset(mode, free, n) ==
  CASE mode = "end"    -> free
    [] mode = "center" -> free \div 2
    [] mode = "around" -> AtLeastZero(free) \div (2 * n)
    [] mode = "evenly" -> AtLeastZero(free) \div (n + 1)
    [] OTHER           -> 0

SharePerItem(mode, free, n) == AtLeastZero(free) \div n  \* faulty: a share behind the last one, too

\* What it adds to each gap between them.
GapShare(mode, free, n) ==
  CASE mode = "between" /\ n > 1 -> AtLeastZero(free) \div (n - 1)
    [] mode = "around"           -> AtLeastZero(free) \div n
    [] mode = "evenly"           -> AtLeastZero(free) \div (n + 1)
    [] OTHER                     -> 0

SpacingModes == {"start", "end", "center", "between", "around", "evenly"}

-----------------------------------------------------------------------------
(* xent_quantize_node_layout, with one pixel a point: the two edges of a   *)
(* box are rounded, halves away from zero, and its size is what is then    *)
(* between them.                                                           *)

RoundedUp(x) == ((2 * x + Unit) \div (2 * Unit)) * Unit
Rounded(x) == IF x < 0 THEN -RoundedUp(-x) ELSE RoundedUp(x)

Snapped(begin, long) == [begin |-> Rounded(begin), long |-> Rounded(begin + long) - Rounded(begin)]

-----------------------------------------------------------------------------
(* xent_node_baseline, of a text, a box, or a nested flex container whose  *)
(* first child is a box: the child counts as high as the container while   *)
(* it has no height of its own.                                            *)

Kinds == {"text", "box", "nest"}

Baseline(kind, cross, within) ==
  IF cross <= 0 THEN 0
  ELSE IF kind = "text" THEN (4 * cross) \div 5
  ELSE IF kind = "nest" /\ within > 0 THEN within
  ELSE cross
=============================================================================
