---------------------------- MODULE NodeTreeImpl ----------------------------
(***************************************************************************)
(* The linked slots of NodeTree implement the ordered forest of            *)
(* NodeForest: a client that walks first child and next siblings sees      *)
(* exactly the list that inserts, moves and removals should have left.     *)
(***************************************************************************)
EXTENDS NodeTree, SequencesExt, Filtering

\* The first child of h, then next siblings, and Null behind the last.
Enumerated(t, h) ==
  LET nth[k \in 1 .. MaxSlots] ==
        IF k = 1 THEN t.first[Index(h)]
        ELSE IF nth[k - 1] = Null THEN Null ELSE t.next[Index(nth[k - 1])]
  IN nth

InOrder(t, h) ==
  LET nth == Enumerated(t, h)
  IN [k \in {j \in 1 .. MaxSlots : nth[j] # Null} |-> nth[k]]

\* The children of a handle as a client enumerates them.
ChildrenInOrder(h) == IF Live(h) THEN InOrder(topo, h) ELSE <<>>

ChildLists == [h \in Handles |-> ChildrenInOrder(h)]

Abstract == INSTANCE NodeForest WITH
  Ids <- Handles,
  born <- issued,
  nodes <- LiveHandles,
  kids <- ChildLists

\* Every call of the tree is a step of the ordered forest, or none: create
\* gives out a new id, a placement puts the child before its anchor, and the
\* destroy walk drops childless nodes, first children first.
ImplementsForest == Abstract!ForestSpec

\* Where b stands in list s, or the place behind it when b is Null.
PlaceOf(s, b) == IF b = Null THEN Len(s) + 1 ELSE CHOOSE n \in 1 .. Len(s) : s[n] = b

(***************************************************************************)
(* A placement puts the child exactly before its anchor, at the end        *)
(* without one, and every other list keeps its order: the words of         *)
(* xent_node_insert, _move and _reparent in include/xent/xent.h.           *)
(***************************************************************************)
PlacementsAreExact ==
  [][\A p, c \in LiveHandles : \A b \in LiveHandles \cup {Null} :
       PlaceBefore(p, c, b, "any") =>
         \A h \in LiveHandles :
           LET rest == Filtered(ChildrenInOrder(h), Handles \ {c})
           IN ChildrenInOrder(h)' = IF h = p THEN InsertAt(rest, PlaceOf(rest, b), c) ELSE rest]_treeVars
=============================================================================
