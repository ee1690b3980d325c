--------------------------- MODULE MCLayoutDriver ----------------------------
(* Trees and bounds for checking LayoutDriver. *)
EXTENDS LayoutDriver

\* A chain of four nodes, and a leaf beside it.
Chain == <<0, 1, 2, 3, 1>>
\* Two leaves below a container, and a leaf beside it.
Bush == <<0, 1, 2, 1>>
=============================================================================
