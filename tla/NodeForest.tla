----------------------------- MODULE NodeForest -----------------------------
(***************************************************************************)
(* What the node tree promises its clients, without slots, generations or  *)
(* links: a forest whose nodes carry ids that are never used twice, with   *)
(* an ordered list of children at every node (the topology calls of        *)
(* include/xent/xent.h).                                                   *)
(***************************************************************************)
EXTENDS Integers, Sequences, SequencesExt, Filtering

CONSTANT Ids   \* every id a node may get

VARIABLES
  born,   \* the ids handed out so far
  nodes,  \* the ids of the nodes that exist
  kids    \* kids[n]: the children of n in order, <<>> when n does not exist

forestVars == <<born, nodes, kids>>

ForestInit ==
  /\ born = {}
  /\ nodes = {}
  /\ kids = [n \in Ids |-> <<>>]

IsKid(k, n, c) == c \in ToSet(k[n])

\* The parent of c in the child lists k, as a set of at most one node.
Parents(k, c) == {n \in Ids : IsKid(k, n, c)}

\* Everything above c, c included: the least set closed under Parents.
Above(c) == {a \in nodes : \A S \in SUBSET nodes :
               c \in S /\ (\A s \in S : Parents(kids, s) \subseteq S) => a \in S}

\* The child lists without c.
Without(k, c) == [n \in Ids |-> Filtered(k[n], Ids \ {c})]

BirthOf(n) ==
  /\ n \in Ids \ born
  /\ born' = born \cup {n}
  /\ nodes' = nodes \cup {n}
  /\ UNCHANGED kids

\* c, with its own children, becomes the child of p at position i.
Put(p, c, i) ==
  /\ p \in nodes
  /\ c \in nodes \ Above(p)
  /\ LET rest == Without(kids, c)
     IN /\ i \in 1 .. Len(rest[p]) + 1
        /\ kids' = [rest EXCEPT ![p] = InsertAt(@, i, c)]
  /\ UNCHANGED <<born, nodes>>

\* c leaves its parent and becomes a root.
Detach(c) ==
  /\ c \in nodes
  /\ Parents(kids, c) # {}
  /\ kids' = Without(kids, c)
  /\ UNCHANGED <<born, nodes>>

\* A childless node disappears: a root, or the first child of its parent.
Drop(n) ==
  /\ n \in nodes
  /\ kids[n] = <<>>
  /\ \A p \in Parents(kids, n) : kids[p][1] = n
  /\ nodes' = nodes \ {n}
  /\ kids' = Without(kids, n)
  /\ UNCHANGED born

ForestNext ==
  \E n \in Ids :
    \/ BirthOf(n)
    \/ Detach(n)
    \/ Drop(n)
    \/ \E p \in nodes : \E i \in 1 .. Len(kids[p]) + 1 : Put(p, n, i)

ForestSpec == ForestInit /\ [][ForestNext]_forestVars
=============================================================================
