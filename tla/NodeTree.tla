------------------------------ MODULE NodeTree ------------------------------
(***************************************************************************)
(* The node tree of src/core/xent_tree.c: children are doubly linked lists *)
(* of node handles, placed, moved, removed and destroyed by the xent_node_ *)
(* calls.  xent_node_destroy takes its subtree apart one node at a time    *)
(* and runs the observers of each DESTROY event in the middle of the walk, *)
(* so it is a sequence of steps here; every other call is one step.        *)
(*                                                                         *)
(* A call that the code rejects leaves everything as it was: a stuttering  *)
(* step.  Placing and removing a node notifies the observers too, as the   *)
(* last thing those calls do: what an observer finds there is the state    *)
(* after the call, and it may do less than a client may do then.           *)
(*                                                                         *)
(* The calls to xent_mark_dirty that the same handlers make act on  *)
(* columns of their own; module DirtyTree adds them to these actions.      *)
(***************************************************************************)
EXTENDS NodeSlots, FiniteSets

VARIABLES
  topo,    \* the topology columns of the node store
  walk,    \* the loop of destroy_subtree, NoWalk when it is not running
  doomed   \* history: the subtree the running destroy set out to destroy

treeVars == <<alive, generation, count, freeList, freeCap, dying, issued, topo, walk, doomed>>

Link == Handles \cup {Null}

Topology == [
  parent : [Slots -> Link],
  first  : [Slots -> Link],
  last   : [Slots -> Link],
  next   : [Slots -> Link],
  prev   : [Slots -> Link],
  nchild : [Slots -> 0 .. MaxSlots]]

NoWalk == [root |-> Null, rootParent |-> Null, cursor |-> Null, oldParent |-> Null]

TreeInit ==
  /\ SlotsInit
  /\ topo = [parent |-> [i \in Slots |-> Null],
             first  |-> [i \in Slots |-> Null],
             last   |-> [i \in Slots |-> Null],
             next   |-> [i \in Slots |-> Null],
             prev   |-> [i \in Slots |-> Null],
             nchild |-> [i \in Slots |-> 0]]
  /\ walk = NoWalk
  /\ doomed = {}

(***************************************************************************)
(* The program is single threaded: client code runs between two calls, or  *)
(* inside an observer that a call has invoked.  The second condition is    *)
(* the test of node_observer_dispatch_depth that every mutator makes.      *)
(***************************************************************************)
ClientRuns == walk = NoWalk \/ dying # Null
NotDispatching == dying = Null

-----------------------------------------------------------------------------
(* The pointer surgery.                                                    *)

\* Column col with link h in the slot of sibling s, if there is one.
RelinkNothing(col, s, h) == col  \* faulty: neighbours keep their links
Relink(col, s, h) == [i \in Slots |-> IF i = Index(s) THEN h ELSE col[i]]

\* unlink_child: child c leaves the list of parent slot p.
Unlink(t, p, c) ==
  LET before == t.prev[c]
      after == t.next[c]
  IN [parent |-> [t.parent EXCEPT ![c] = Null],
      first  |-> [t.first EXCEPT ![p] = IF before = Null THEN after ELSE @],
      last   |-> [t.last EXCEPT ![p] = IF after = Null THEN before ELSE @],
      next   |-> [Relink(t.next, before, after) EXCEPT ![c] = Null],
      prev   |-> [Relink(t.prev, after, before) EXCEPT ![c] = Null],
      nchild |-> [t.nchild EXCEPT ![p] = @ - 1]]

\* The sibling to the left of a child that enters the list of p before b.
LastOf(t, p, b) == t.last[Index(p)]  \* faulty: ignores the anchor
LeftOf(t, p, b) ==
  IF b # Null THEN t.prev[Index(b)]
  ELSE IF t.first[Index(p)] = Null THEN Null ELSE t.last[Index(p)]

\* link_before: the unlinked child c enters the list of parent p before b,
\* at the end when b is Null.
LinkBefore(t, p, c, b) ==
  LET left == LeftOf(t, p, b)
  IN [parent |-> [t.parent EXCEPT ![Index(c)] = p],
      first  |-> [t.first EXCEPT ![Index(p)] = IF left = Null THEN c ELSE @],
      last   |-> [t.last EXCEPT ![Index(p)] = IF b = Null THEN c ELSE @],
      next   |-> [Relink(t.next, left, c) EXCEPT ![Index(c)] = b],
      prev   |-> [Relink(t.prev, b, c) EXCEPT ![Index(c)] = left],
      nchild |-> [t.nchild EXCEPT ![Index(p)] = @ + 1]]

\* The topology columns of a fresh or dead slot.
ClearLinks(t, i) ==
  [parent |-> [t.parent EXCEPT ![i] = Null],
   first  |-> [t.first EXCEPT ![i] = Null],
   last   |-> [t.last EXCEPT ![i] = Null],
   next   |-> [t.next EXCEPT ![i] = Null],
   prev   |-> [t.prev EXCEPT ![i] = Null],
   nchild |-> [t.nchild EXCEPT ![i] = 0]]

(***************************************************************************)
(* is_ancestor_index climbs the parent links from slot i.  The slots it    *)
(* meets are the least set that holds i and the parents of its members.    *)
(***************************************************************************)
UpClosed(t, S) == \A i \in S : t.parent[i] # Null => Index(t.parent[i]) \in S

OnChain(t, i, j) == \A S \in SUBSET Slots : i \in S /\ UpClosed(t, S) => j \in S

Subtree(h) == {d \in LiveHandles : OnChain(topo, Index(d), Index(h))}

-----------------------------------------------------------------------------
(* Creating and placing nodes.                                             *)

Create ==
  /\ ClientRuns
  /\ CreateReused \/ CreateFresh
  /\ topo' = ClearLinks(topo, NextSlot)
  /\ UNCHANGED <<walk, doomed>>

\* place_mode_ok
ModeOK(mode, p, old) ==
  CASE mode = "insert"   -> old = Null
    [] mode = "move"     -> old = p
    [] mode = "reparent" -> old # p
    [] OTHER             -> TRUE

\* place_resolve_before
BeforeOK(p, b) == b = Null \/ (Live(b) /\ topo.parent[Index(b)] = p)

\* place_is_noop
AlreadyThere(p, c, b) ==
  /\ topo.parent[Index(c)] = p
  /\ IF b = Null THEN topo.last[Index(p)] = c ELSE topo.next[Index(c)] = b

\* place_before, the common part of the four placing calls.
PlaceBefore(p, c, b, mode) ==
  LET old == topo.parent[Index(c)]
      loose == IF old = Null THEN topo ELSE Unlink(topo, Index(old), Index(c))
  IN /\ ClientRuns
     /\ Live(p)
     /\ Live(c)
     /\ NotDispatching
     /\ ~OnChain(topo, Index(p), Index(c))
     /\ ModeOK(mode, p, old)
     /\ b # c
     /\ BeforeOK(p, b)
     /\ ~AlreadyThere(p, c, b)
     /\ topo' = LinkBefore(loose, p, c, b)
     /\ UNCHANGED <<slotVars, walk, doomed>>

NodeAppend(p, c) == PlaceBefore(p, c, Null, "any")
NodeInsert(p, c, b) == PlaceBefore(p, c, b, "insert")
NodeMove(p, c, b) == PlaceBefore(p, c, b, "move")
NodeReparent(p, c, b) == PlaceBefore(p, c, b, "reparent")

NodeRemove(p, c) ==
  /\ ClientRuns
  /\ Live(p)
  /\ Live(c)
  /\ NotDispatching
  /\ topo.parent[Index(c)] = p
  /\ topo' = Unlink(topo, Index(p), Index(c))
  /\ UNCHANGED <<slotVars, walk, doomed>>

-----------------------------------------------------------------------------
(* Destroying a subtree.                                                   *)

\* xent_node_destroy: the root of the doomed subtree leaves its parent.
DestroyBegin(h) ==
  LET p == topo.parent[Index(h)]
  IN /\ ClientRuns
     /\ Live(h)
     /\ NotDispatching
     /\ topo' = IF p = Null THEN topo ELSE Unlink(topo, Index(p), Index(h))
     /\ walk' = [root |-> h, rootParent |-> p, cursor |-> h, oldParent |-> Null]
     /\ doomed' = Subtree(h)
     /\ UNCHANGED slotVars

Walking == walk # NoWalk /\ dying = Null

NoFirstChild == Null  \* faulty: does not look for children

FirstChild == topo.first[Index(walk.cursor)]

\* destroy_subtree descends to a first child.
WalkDown ==
  /\ Walking
  /\ FirstChild # Null
  /\ walk' = [walk EXCEPT !.cursor = FirstChild]
  /\ UNCHANGED <<slotVars, topo, doomed>>

\* The old parent that the DESTROY event of a node with parent p names.
RootItself(node, p) == IF node = walk.root THEN node ELSE p  \* faulty
OldParentOf(node, p) == IF node = walk.root THEN walk.rootParent ELSE p

WalkVisitLinked ==  \* faulty: leaves the dead node in its parent's list
  LET node == walk.cursor
      i == Index(node)
      p == topo.parent[i]
      next == topo.next[i]
  IN /\ Walking
     /\ FirstChild = Null
     /\ Kill(node)
     /\ topo' = ClearLinks(topo, i)
     /\ walk' = [walk EXCEPT
                   !.cursor = IF node = walk.root THEN Null ELSE IF next # Null THEN next ELSE p,
                   !.oldParent = OldParentOf(node, p)]
     /\ UNCHANGED doomed

(***************************************************************************)
(* destroy_subtree reaches a leaf: it notes where to go on, unlinks the    *)
(* leaf and hands it to destroy_single_node, whose observers now run.      *)
(***************************************************************************)
WalkVisit ==
  LET node == walk.cursor
      i == Index(node)
      p == topo.parent[i]
      next == topo.next[i]
      loose == IF p = Null THEN topo ELSE Unlink(topo, Index(p), i)
  IN /\ Walking
     /\ FirstChild = Null
     /\ Kill(node)
     /\ topo' = ClearLinks(loose, i)
     /\ walk' = [walk EXCEPT
                   !.cursor = IF node = walk.root THEN Null ELSE IF next # Null THEN next ELSE p,
                   !.oldParent = OldParentOf(node, p)]
     /\ UNCHANGED doomed

\* The observers return: the slot is retired or recycled, and the walk goes
\* on, or ends with the root of the subtree.
WalkResume ==
  /\ walk # NoWalk
  /\ Retire \/ Recycle
  /\ walk' = IF walk.cursor = Null THEN NoWalk ELSE [walk EXCEPT !.oldParent = Null]
  /\ doomed' = IF walk.cursor = Null THEN {} ELSE doomed
  /\ UNCHANGED topo

WalkStep == WalkDown \/ WalkVisit \/ WalkResume

-----------------------------------------------------------------------------
\* A call with a stale handle is rejected: the placing calls are tried with
\* those that resolve.
TreeNext ==
  \/ Create
  \/ \E p, c \in LiveHandles :
       \/ NodeAppend(p, c)
       \/ NodeRemove(p, c)
       \/ \E b \in LiveHandles \cup {Null} :
            NodeInsert(p, c, b) \/ NodeMove(p, c, b) \/ NodeReparent(p, c, b)
  \/ \E h \in issued : DestroyBegin(h)
  \/ WalkStep

TreeSpec == TreeInit /\ [][TreeNext]_treeVars

(***************************************************************************)
(* The walk is a loop inside one call: once begun it is not preempted, and *)
(* observers return.                                                       *)
(***************************************************************************)
FairTreeSpec == TreeSpec /\ WF_treeVars(WalkStep)

-----------------------------------------------------------------------------
TreeTypeOK ==
  /\ SlotsTypeOK
  /\ topo \in Topology
  /\ walk \in [root : Link, rootParent : Link, cursor : Link, oldParent : Link]
  /\ doomed \in SUBSET Handles

Children(i) == {c \in Slots : topo.parent[c] # Null /\ Index(topo.parent[c]) = i}

\* Every link of a live slot names a live node, and a dead slot has no links.
LinksAreLive ==
  \A i \in Slots :
    LET links == {topo.parent[i], topo.first[i], topo.last[i], topo.next[i], topo.prev[i]}
    IN \A h \in links : h # Null => alive[i] /\ Live(h)

\* A node is its parent's first child or the next of its previous sibling,
\* and the same from the other end.
ListsAreDoublyLinked ==
  \A i \in Slots :
    LET p == Index(topo.parent[i])
        h == HandleOf(i)
    IN /\ topo.parent[i] = Null => topo.next[i] = Null /\ topo.prev[i] = Null
       /\ topo.parent[i] # Null =>
            /\ IF topo.prev[i] = Null THEN topo.first[p] = h
               ELSE /\ topo.next[Index(topo.prev[i])] = h
                    /\ topo.parent[Index(topo.prev[i])] = topo.parent[i]
            /\ IF topo.next[i] = Null THEN topo.last[p] = h
               ELSE /\ topo.prev[Index(topo.next[i])] = h
                    /\ topo.parent[Index(topo.next[i])] = topo.parent[i]
       /\ topo.first[i] # Null =>
            /\ topo.parent[Index(topo.first[i])] = h
            /\ topo.prev[Index(topo.first[i])] = Null
       /\ topo.last[i] # Null =>
            /\ topo.parent[Index(topo.last[i])] = h
            /\ topo.next[Index(topo.last[i])] = Null

\* No node is its own ancestor and no sibling list is a ring: in every
\* nonempty set of slots some parent link, and some next link, leads out.
NoCycles ==
  \A S \in SUBSET Slots : S # {} =>
    /\ \E i \in S : Index(topo.parent[i]) \notin S
    /\ \E i \in S : Index(topo.next[i]) \notin S

ChildCountsAgree == \A i \in Slots : topo.nchild[i] = Cardinality(Children(i))

\* What the observers of a DESTROY event are told: the node is dead already,
\* and the old parent, if any, still resolves.
EventNamesLiveParent ==
  dying # Null =>
    /\ ~Live(dying)
    /\ walk.oldParent # Null => Live(walk.oldParent)

(***************************************************************************)
(* The sibling lists and parent links form an ordered forest of live nodes *)
(* at every moment a client can look, observers of a half-destroyed        *)
(* subtree included, and the parent such an observer is told of is one of  *)
(* those nodes.                                                            *)
(***************************************************************************)
WellLinked ==
  /\ LinksAreLive
  /\ ListsAreDoublyLinked
  /\ NoCycles
  /\ ChildCountsAgree
  /\ EventNamesLiveParent

(***************************************************************************)
(* A destroy call kills the nodes that were in the subtree when it began,  *)
(* all of them and no other, whatever happens while its observers run.     *)
(***************************************************************************)
DestroyExact ==
  [][/\ \A h \in issued : Live(h) /\ ~Live(h)' => h \in doomed
     /\ walk # NoWalk /\ walk' = NoWalk => \A h \in doomed : ~Live(h)']_treeVars

(***************************************************************************)
(* A destroy call returns: the walk never visits a node twice or loses its *)
(* way back to the root.                                                   *)
(***************************************************************************)
DestroyReturns == walk # NoWalk ~> walk = NoWalk
=============================================================================
