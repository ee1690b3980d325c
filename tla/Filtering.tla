------------------------------ MODULE Filtering ------------------------------
(***************************************************************************)
(* The loop that compacts an array in place, as node_observers and         *)
(* dirty_nodes are: the entries that are to stay move to the front in      *)
(* their order.                                                            *)
(*                                                                         *)
(* It is SelectSeq of the standard modules with a set in the place of a    *)
(* test, written as a recursive function: the provers know nothing of      *)
(* SelectSeq, and cannot instantiate a theorem about an operator.          *)
(***************************************************************************)
EXTENDS Integers, Sequences

\* f[i]: what the loop has kept of s after i entries.
FilteredTo(s, keep) ==
  LET f[i \in 0 .. Len(s)] ==
        IF i = 0 THEN <<>>
        ELSE IF s[i] \in keep THEN Append(f[i - 1], s[i])
        ELSE f[i - 1]
  IN f

Filtered(s, keep) == FilteredTo(s, keep)[Len(s)]
=============================================================================
