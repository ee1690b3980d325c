---------------------------- MODULE MCLayoutBoxes ----------------------------
(* Styles for checking LayoutBoxes. *)
EXTENDS LayoutBoxes

Style(unit, value) == [unit |-> unit, value |-> value]

Relative == {Style("fixed", 60), Style("percent", 50), Style("auto", 0)}
Absolute == {Style("fixed", 1), Style("fixed", 4)}
=============================================================================
