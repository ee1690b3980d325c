------------------------------- MODULE Doubling -------------------------------
(***************************************************************************)
(* How the arrays of the program grow: the capacity is doubled until it is *)
(* large enough.                                                           *)
(***************************************************************************)
EXTENDS Integers

\* first, doubled up to n times.
Doubled(first, n) ==
  LET f[k \in 0 .. n] == IF k = 0 THEN first ELSE 2 * f[k - 1]
  IN f

\* The first of the doublings of first, a positive number, with room for size.
DoubledFor(first, size) ==
  LET caps == Doubled(first, size)
      fits == {k \in 0 .. size : caps[k] >= size}
  IN caps[CHOOSE k \in fits : \A j \in fits : k <= j]
=============================================================================
