--------------------------- MODULE NodeTree_proofs ---------------------------
(***************************************************************************)
(* Proofs about NodeTree and NodeTreeImpl, for every number of slots and   *)
(* generations:                                                            *)
(*                                                                         *)
(* - whatever the topology calls do, and although a destroy lets observers *)
(*   run in the middle of its walk, the slots below the tree behave as     *)
(*   NodeSlots says;                                                       *)
(* - the links form an ordered forest of live nodes at every moment a      *)
(*   client can look;                                                      *)
(* - a destroy kills exactly the nodes that were in the subtree when it    *)
(*   began;                                                                *)
(* - the links implement the ordered forest of NodeForest, and a placement *)
(*   puts the child exactly before its anchor.                             *)
(*                                                                         *)
(* The first takes an invariant of the links (LinksInv): the walk kills    *)
(* the node its cursor names, so the cursor, which comes from the link     *)
(* columns, must name a node.  The others take the forest itself (TreeInv).*)
(* The pointer surgery is proved about slot numbers in place of handles,   *)
(* as the handle in a link of live nodes is told by its slot.  A list is   *)
(* two chains, one from each end, so that what is proved of one end holds  *)
(* of the other; and that neither next nor previous links close a ring is  *)
(* what makes a node without a first child a leaf.  The walk is sound      *)
(* because what is left of the doomed nodes is always what is left of the  *)
(* subtree below the root, and the parent it was taken from is outside.    *)
(***************************************************************************)
EXTENDS NodeTreeImpl, NodeSlots_proofs, Filtering_proofs

\* The columns hold links; that child counts stay in range takes more.
Columns == [
  parent : [Slots -> Link],
  first  : [Slots -> Link],
  last   : [Slots -> Link],
  next   : [Slots -> Link],
  prev   : [Slots -> Link],
  nchild : [Slots -> Int]]

Walks == [root : Link, rootParent : Link, cursor : Link, oldParent : Link]

CursorNamesNode == Walking => walk.cursor \in Handles

LinksInv ==
  /\ SlotsInv
  /\ topo \in Columns
  /\ walk \in Walks
  /\ CursorNamesNode

-----------------------------------------------------------------------------
\* A column with one entry replaced, whether or not the entry is a slot's.
LEMMA Put ==
  ASSUME NEW S, NEW f \in [Slots -> S], NEW i, NEW v, i \in Slots => v \in S
  PROVE  [f EXCEPT ![i] = v] \in [Slots -> S]
OBVIOUS

LEMMA RelinkColumn ==
  ASSUME NEW f \in [Slots -> Link], NEW s, NEW h \in Link
  PROVE  Relink(f, s, h) \in [Slots -> Link]
BY DEF Relink

\* The pointer surgery yields columns of links.
LEMMA UnlinkColumns ==
  ASSUME NEW t \in Columns, NEW p, NEW c \in Slots
  PROVE  Unlink(t, p, c) \in Columns
<1> DEFINE before == t.prev[c]
           after == t.next[c]
           first == IF before = Null THEN after ELSE t.first[p]
           last == IF after = Null THEN before ELSE t.last[p]
           fewer == t.nchild[p] - 1
           next == Relink(t.next, before, after)
           prev == Relink(t.prev, after, before)
<1>1. /\ t.parent \in [Slots -> Link] /\ t.first \in [Slots -> Link]
      /\ t.last \in [Slots -> Link] /\ t.next \in [Slots -> Link]
      /\ t.prev \in [Slots -> Link] /\ t.nchild \in [Slots -> Int]
  BY DEF Columns
<1>2. before \in Link /\ after \in Link /\ Null \in Link
  BY <1>1 DEF Link
<1>3. p \in Slots => first \in Link /\ last \in Link /\ fewer \in Int
  BY <1>1, <1>2
<1>4. next \in [Slots -> Link] /\ prev \in [Slots -> Link]
  BY <1>1, <1>2, RelinkColumn
<1>5. Unlink(t, p, c) =
        [parent |-> [t.parent EXCEPT ![c] = Null],
         first  |-> [t.first EXCEPT ![p] = first],
         last   |-> [t.last EXCEPT ![p] = last],
         next   |-> [next EXCEPT ![c] = Null],
         prev   |-> [prev EXCEPT ![c] = Null],
         nchild |-> [t.nchild EXCEPT ![p] = fewer]]
  BY DEF Unlink
<1> HIDE DEF before, after, first, last, fewer, next, prev
<1>6. /\ [t.parent EXCEPT ![c] = Null] \in [Slots -> Link]
      /\ [next EXCEPT ![c] = Null] \in [Slots -> Link]
      /\ [prev EXCEPT ![c] = Null] \in [Slots -> Link]
  BY <1>1, <1>2, <1>4, Put
<1>7. /\ [t.first EXCEPT ![p] = first] \in [Slots -> Link]
      /\ [t.last EXCEPT ![p] = last] \in [Slots -> Link]
      /\ [t.nchild EXCEPT ![p] = fewer] \in [Slots -> Int]
  BY <1>1, <1>3, Put
<1> QED BY <1>5, <1>6, <1>7 DEF Columns

LEMMA LinkColumns ==
  ASSUME NEW t \in Columns, NEW p \in Handles, NEW c \in Handles, NEW b \in Link
  PROVE  LinkBefore(t, p, c, b) \in Columns
<1> DEFINE left == LeftOf(t, p, b)
           i == Index(p)
           j == Index(c)
           first == IF left = Null THEN c ELSE t.first[i]
           last == IF b = Null THEN c ELSE t.last[i]
           more == t.nchild[i] + 1
           next == Relink(t.next, left, c)
           prev == Relink(t.prev, b, c)
<1>1. /\ t.parent \in [Slots -> Link] /\ t.first \in [Slots -> Link]
      /\ t.last \in [Slots -> Link] /\ t.next \in [Slots -> Link]
      /\ t.prev \in [Slots -> Link] /\ t.nchild \in [Slots -> Int]
  BY DEF Columns
<1>2. /\ Null \in Link /\ p \in Link /\ c \in Link
      /\ i \in Slots /\ j \in Slots
  BY HandlePair DEF Link
<1>3. left \in Link
  BY <1>1, <1>2, HandlePair DEF LeftOf, Link
<1>4. first \in Link /\ last \in Link /\ more \in Int
  BY <1>1, <1>2
<1>5. next \in [Slots -> Link] /\ prev \in [Slots -> Link]
  BY <1>1, <1>2, RelinkColumn
<1>6. LinkBefore(t, p, c, b) =
        [parent |-> [t.parent EXCEPT ![j] = p],
         first  |-> [t.first EXCEPT ![i] = first],
         last   |-> [t.last EXCEPT ![i] = last],
         next   |-> [next EXCEPT ![j] = b],
         prev   |-> [prev EXCEPT ![j] = left],
         nchild |-> [t.nchild EXCEPT ![i] = more]]
  BY DEF LinkBefore
<1> HIDE DEF left, i, j, first, last, more, next, prev
<1>7. /\ [t.parent EXCEPT ![j] = p] \in [Slots -> Link]
      /\ [next EXCEPT ![j] = b] \in [Slots -> Link]
      /\ [prev EXCEPT ![j] = left] \in [Slots -> Link]
  BY <1>1, <1>2, <1>3, <1>5, Put
<1>8. /\ [t.first EXCEPT ![i] = first] \in [Slots -> Link]
      /\ [t.last EXCEPT ![i] = last] \in [Slots -> Link]
      /\ [t.nchild EXCEPT ![i] = more] \in [Slots -> Int]
  BY <1>1, <1>4, Put
<1> QED BY <1>6, <1>7, <1>8 DEF Columns

LEMMA ClearColumns ==
  ASSUME NEW t \in Columns, NEW i
  PROVE  ClearLinks(t, i) \in Columns
<1>1. /\ t.parent \in [Slots -> Link] /\ t.first \in [Slots -> Link]
      /\ t.last \in [Slots -> Link] /\ t.next \in [Slots -> Link]
      /\ t.prev \in [Slots -> Link] /\ t.nchild \in [Slots -> Int]
  BY DEF Columns
<1>2. Null \in Link /\ 0 \in Int
  BY DEF Link
<1>3. /\ [t.parent EXCEPT ![i] = Null] \in [Slots -> Link]
      /\ [t.first EXCEPT ![i] = Null] \in [Slots -> Link]
      /\ [t.last EXCEPT ![i] = Null] \in [Slots -> Link]
      /\ [t.next EXCEPT ![i] = Null] \in [Slots -> Link]
      /\ [t.prev EXCEPT ![i] = Null] \in [Slots -> Link]
      /\ [t.nchild EXCEPT ![i] = 0] \in [Slots -> Int]
  BY <1>1, <1>2, Put
<1> QED BY <1>3 DEF ClearLinks, Columns

\* A live handle names a slot.
LEMMA LiveNode == ASSUME NEW h, Live(h) PROVE Index(h) \in Slots /\ h # Null
  BY NullOutside DEF Live

-----------------------------------------------------------------------------
(* What the calls do to the slots: nothing, or a step of NodeSlots.        *)

\* The topology calls leave the slots and the walk alone.
LEMMA PlacingKeepsSlots ==
  ASSUME NEW p, NEW c,
         \/ NodeAppend(p, c)
         \/ NodeRemove(p, c)
         \/ \E b \in LiveHandles \cup {Null} :
              NodeInsert(p, c, b) \/ NodeMove(p, c, b) \/ NodeReparent(p, c, b)
  PROVE  UNCHANGED slotVars /\ UNCHANGED walk
  BY DEF NodeAppend, NodeInsert, NodeMove, NodeReparent, PlaceBefore, NodeRemove

\* The walk kills a node that was issued.
LEMMA WalkKillsIssued ==
  ASSUME LinksInv, WalkVisit
  PROVE  walk.cursor \in issued /\ Kill(walk.cursor)
<1>1. walk.cursor \in Handles /\ Kill(walk.cursor) /\ Live(walk.cursor)
  BY DEF LinksInv, CursorNamesNode, WalkVisit, Kill
<1>2. walk.cursor = <<Index(walk.cursor), Generation(walk.cursor)>> /\ Index(walk.cursor) \in Slots
  BY <1>1, HandlePair
<1>3. <<Index(walk.cursor), generation[Index(walk.cursor)]>> \in issued
  BY <1>1, <1>2 DEF Live, LinksInv, SlotsInv, LiveIssued
<1> QED BY <1>1, <1>2, <1>3 DEF Live

LEMMA StepsOfTree == LinksInv /\ [TreeNext]_treeVars => [SlotsNext]_slotVars
<1> SUFFICES ASSUME LinksInv, [TreeNext]_treeVars PROVE [SlotsNext]_slotVars
  OBVIOUS
<1>1. CASE UNCHANGED treeVars
  BY <1>1 DEF treeVars, slotVars
<1>2. CASE Create
  BY <1>2 DEF Create, SlotsNext
<1>3. ASSUME NEW h \in issued, DestroyBegin(h) PROVE UNCHANGED slotVars
  BY <1>3 DEF DestroyBegin
<1>4. CASE WalkDown
  BY <1>4 DEF WalkDown
<1>5. CASE WalkVisit
  BY <1>5, WalkKillsIssued DEF SlotsNext
<1>6. CASE WalkResume
  BY <1>6 DEF WalkResume, SlotsNext
<1> QED BY <1>1, <1>2, <1>3, <1>4, <1>5, <1>6, PlacingKeepsSlots DEF TreeNext, WalkStep

-----------------------------------------------------------------------------
(* The links stay links.                                                   *)

LEMMA TreeInitInv == TreeInit => LinksInv
<1> SUFFICES ASSUME TreeInit PROVE LinksInv
  OBVIOUS
<1>1. SlotsInv
  BY InitInv DEF TreeInit
<1>2. Null \in Link
  BY DEF Link
<1>3. topo \in Columns
  BY <1>2 DEF TreeInit, Columns
<1>4. walk \in Walks /\ CursorNamesNode
  BY <1>2 DEF TreeInit, Walks, NoWalk, CursorNamesNode, Walking
<1> QED BY <1>1, <1>3, <1>4 DEF LinksInv

\* The four placing calls are place_before.
LEMMA PlaceInv ==
  ASSUME LinksInv, NEW p \in LiveHandles, NEW c \in LiveHandles, NEW b \in LiveHandles \cup {Null}, NEW mode,
         PlaceBefore(p, c, b, mode)
  PROVE  topo' \in Columns
<1> DEFINE old == topo.parent[Index(c)]
           loose == IF old = Null THEN topo ELSE Unlink(topo, Index(old), Index(c))
<1>1. p \in Handles /\ c \in Handles /\ b \in Link
  BY DEF LinksInv, SlotsInv, SlotsTypeOK, LiveHandles, Link
<1>2. loose \in Columns
  BY <1>1, HandlePair, UnlinkColumns DEF LinksInv
<1>3. topo' = LinkBefore(loose, p, c, b)
  BY DEF PlaceBefore
<1> QED BY <1>1, <1>2, <1>3, LinkColumns

LEMMA StepKeepsLinks ==
  ASSUME LinksInv, SlotsInv', [TreeNext]_treeVars
  PROVE  LinksInv'
<1> USE DEF LinksInv
<1>0. \A h \in issued : h \in Handles /\ Index(h) \in Slots
  BY HandlePair DEF SlotsInv, SlotsTypeOK
<1>1. CASE UNCHANGED treeVars
  BY <1>1 DEF treeVars, CursorNamesNode, Walking
<1>2. CASE Create
  <2>1. topo' \in Columns /\ walk' = walk /\ dying' = dying
    BY <1>2, ClearColumns DEF Create, CreateReused, CreateFresh, Revive
  <2> QED BY <2>1 DEF CursorNamesNode, Walking
<1>3. ASSUME NEW p \in LiveHandles, NEW c \in LiveHandles,
             \/ NodeAppend(p, c)
             \/ NodeRemove(p, c)
             \/ \E b \in LiveHandles \cup {Null} :
                  NodeInsert(p, c, b) \/ NodeMove(p, c, b) \/ NodeReparent(p, c, b)
      PROVE  LinksInv'
  <2>1. UNCHANGED <<dying, walk>>
    BY <1>3, PlacingKeepsSlots DEF slotVars
  <2>2. topo' \in Columns
    <3>1. CASE NodeRemove(p, c)
      BY <3>1, <1>0, UnlinkColumns DEF NodeRemove, LiveHandles
    <3>2. CASE NodeAppend(p, c)
      BY <3>2, PlaceInv DEF NodeAppend
    <3>3. ASSUME NEW b \in LiveHandles \cup {Null},
                 NodeInsert(p, c, b) \/ NodeMove(p, c, b) \/ NodeReparent(p, c, b)
          PROVE  topo' \in Columns
      BY <3>3, PlaceInv DEF NodeInsert, NodeMove, NodeReparent
    <3> QED BY <1>3, <3>1, <3>2, <3>3
  <2> QED BY <2>1, <2>2 DEF CursorNamesNode, Walking
<1>4. ASSUME NEW h \in issued, DestroyBegin(h) PROVE LinksInv'
  <2>1. topo' \in Columns
    BY <1>4, <1>0, UnlinkColumns DEF DestroyBegin
  <2>2. h \in Link /\ Null \in Link /\ topo.parent[Index(h)] \in Link
    BY <1>0 DEF Link, Columns
  <2>3. walk' = [root |-> h, rootParent |-> topo.parent[Index(h)], cursor |-> h, oldParent |-> Null]
    BY <1>4 DEF DestroyBegin
  <2> QED BY <2>1, <2>2, <2>3, <1>0 DEF Walks, CursorNamesNode
<1>5. CASE WalkDown
  <2>1. topo' = topo /\ walk' = [walk EXCEPT !.cursor = FirstChild] /\ FirstChild # Null
    BY <1>5 DEF WalkDown
  <2>2. FirstChild \in Handles
    <3>1. Index(walk.cursor) \in Slots
      BY <1>5, HandlePair DEF WalkDown, CursorNamesNode
    <3> QED BY <3>1, <2>1 DEF FirstChild, Columns, Link
  <2>3. walk' \in Walks /\ walk'.cursor = FirstChild
    BY <2>1, <2>2 DEF Walks, Link
  <2> QED BY <2>1, <2>2, <2>3 DEF CursorNamesNode
<1>6. CASE WalkVisit
  <2> DEFINE i == Index(walk.cursor)
             p == topo.parent[i]
             next == topo.next[i]
  <2>1. i \in Slots /\ dying' = walk.cursor /\ walk.cursor # Null
    BY <1>6, WalkKillsIssued, LiveNode DEF Kill
  <2>2. p \in Link /\ next \in Link /\ Null \in Link
    BY <2>1 DEF Columns, Link
  <2>3. topo' \in Columns
    BY <1>6, <2>1, UnlinkColumns, ClearColumns DEF WalkVisit
  <2>4. OldParentOf(walk.cursor, p) \in Link
    BY <2>2 DEF OldParentOf, Walks
  <2>5. walk' \in Walks
    <3> DEFINE cursor == IF walk.cursor = walk.root THEN Null ELSE IF next # Null THEN next ELSE p
               parent == OldParentOf(walk.cursor, p)
    <3>1. cursor \in Link /\ parent \in Link
      BY <2>2, <2>4
    <3>2. walk' = [walk EXCEPT !.cursor = cursor, !.oldParent = parent]
      BY <1>6 DEF WalkVisit
    <3> HIDE DEF cursor, parent
    <3> QED BY <3>1, <3>2 DEF Walks
  <2> QED BY <2>1, <2>3, <2>5 DEF CursorNamesNode, Walking
<1>7. CASE WalkResume
  <2>1. topo' = topo /\ walk \in Walks /\ Null \in Link
    BY <1>7 DEF WalkResume, Link
  <2>2. CASE walk.cursor = Null
    BY <1>7, <2>1, <2>2 DEF WalkResume, NoWalk, Walks, CursorNamesNode, Walking
  <2>3. CASE walk.cursor # Null
    <3>1. walk' = [walk EXCEPT !.oldParent = Null]
      BY <1>7, <2>3 DEF WalkResume
    <3>2. walk' \in Walks /\ walk'.cursor = walk.cursor /\ walk.cursor \in Handles
      BY <2>1, <2>3, <3>1 DEF Walks, Link
    <3> QED BY <2>1, <3>2 DEF CursorNamesNode
  <2> QED BY <2>2, <2>3
<1> QED BY <1>1, <1>2, <1>3, <1>4, <1>5, <1>6, <1>7 DEF TreeNext, WalkStep

LEMMA TreeStepInv == LinksInv /\ [TreeNext]_treeVars => LinksInv'
<1> SUFFICES ASSUME LinksInv, [TreeNext]_treeVars PROVE LinksInv'
  OBVIOUS
<1>1. SlotsInv'
  BY StepsOfTree, StepInv DEF LinksInv
<1> QED BY <1>1, StepKeepsLinks

\* The links and the slots in every reachable state of the tree.
THEOREM TreeInvariance == TreeSpec => []LinksInv
  BY TreeInitInv, TreeStepInv, PTL DEF TreeSpec

(***************************************************************************)
(* The calls of the node tree, the destroy walk with its observers         *)
(* included, use the slots as NodeSlots says, so a handle stays dead, the  *)
(* free list stays sound and no slot is lost under the tree as well.       *)
(***************************************************************************)
THEOREM TreeUsesSlots == TreeSpec => SlotsSpec
<1>1. TreeInit => SlotsInit
  BY DEF TreeInit
<1> QED BY <1>1, TreeInvariance, StepsOfTree, PTL DEF TreeSpec, SlotsSpec

\* A long sequence of creates and destroys of whole subtrees loses no slot.
THEOREM TreeKeepsSlots == TreeSpec => []NoSlotLost
  BY TreeUsesSlots, SlotsAreKept, PTL
-----------------------------------------------------------------------------
(* The links as slot numbers, 0 for none: what the surgery does to them.   *)

Spots == 0 .. MaxSlots
Columned == [Slots -> Spots]

(***************************************************************************)
(* One end of the sibling lists: a child is the first of its parent or the *)
(* next of its previous sibling.  Read with last, prev and next it is the  *)
(* other end.                                                              *)
(***************************************************************************)
Chained(par, fst, nxt, prv) ==
  \A i \in Slots :
    /\ par[i] = 0 => prv[i] = 0
    /\ par[i] # 0 /\ prv[i] = 0 => fst[par[i]] = i
    /\ prv[i] # 0 => nxt[prv[i]] = i /\ par[prv[i]] = par[i]
    /\ fst[i] # 0 => par[fst[i]] = i /\ prv[fst[i]] = 0

\* No set of slots leads into itself.
RingFree(f) == \A S \in SUBSET Slots : S # {} => \E i \in S : f[i] \notin S

LEMMA SpotIsSlot == \A i \in Spots : i # 0 <=> i \in Slots
  BY SlotsAssumption DEF Spots, Slots

\* What the surgery does to a column: an entry is put, the first of a list
\* changes, a link skips slot c, a link is led through slot c.
Puts(f, g, c, v) == \A i \in Slots : g[i] = IF i = c THEN v ELSE f[i]
CutsEnd(fst, g, par, nxt, prv, c) ==
  \A i \in Slots : g[i] = IF i = par[c] /\ prv[c] = 0 THEN nxt[c] ELSE fst[i]
Skips(f, g, back, c) ==
  \A i \in Slots : g[i] = IF i = c THEN 0 ELSE IF i = back[c] THEN f[c] ELSE f[i]
JoinsEnd(fst, g, p, left, c) ==
  \A i \in Slots : g[i] = IF i = p /\ left = 0 THEN c ELSE fst[i]
LeadsThrough(f, g, left, c, right) ==
  \A i \in Slots : g[i] = IF i = c THEN right ELSE IF i = left THEN c ELSE f[i]

\* unlink_child, one end.
LEMMA CutChained ==
  ASSUME NEW par \in Columned, NEW fst \in Columned, NEW lst \in Columned,
         NEW nxt \in Columned, NEW prv \in Columned,
         Chained(par, fst, nxt, prv), Chained(par, lst, prv, nxt),
         NEW c \in Slots, par[c] # 0,
         NEW par2 \in Columned, NEW fst2 \in Columned, NEW nxt2 \in Columned, NEW prv2 \in Columned,
         Puts(par, par2, c, 0), CutsEnd(fst, fst2, par, nxt, prv, c),
         Skips(nxt, nxt2, prv, c), Skips(prv, prv2, nxt, c)
  PROVE  Chained(par2, fst2, nxt2, prv2)
<1>1. /\ par \in [Slots -> Spots] /\ fst \in [Slots -> Spots] /\ lst \in [Slots -> Spots]
      /\ nxt \in [Slots -> Spots] /\ prv \in [Slots -> Spots]
      /\ par2 \in [Slots -> Spots] /\ fst2 \in [Slots -> Spots]
      /\ nxt2 \in [Slots -> Spots] /\ prv2 \in [Slots -> Spots]
  BY DEF Columned
<1>2. \A i \in Slots : par2[i] = 0 => prv2[i] = 0
  BY <1>1, SpotIsSlot DEF Chained, Puts, CutsEnd, Skips
<1>3. \A i \in Slots : par2[i] # 0 /\ prv2[i] = 0 => fst2[par2[i]] = i
  BY <1>1, SpotIsSlot DEF Chained, Puts, CutsEnd, Skips
<1>4. \A i \in Slots : prv2[i] # 0 => nxt2[prv2[i]] = i /\ par2[prv2[i]] = par2[i]
  BY <1>1, SpotIsSlot DEF Chained, Puts, CutsEnd, Skips
<1>5. \A i \in Slots : fst2[i] # 0 => par2[fst2[i]] = i /\ prv2[fst2[i]] = 0
  BY <1>1, SpotIsSlot DEF Chained, Puts, CutsEnd, Skips
<1> QED BY <1>2, <1>3, <1>4, <1>5 DEF Chained

\* link_before, one end: c goes between left and right in the list of p.
LEMMA JoinChained ==
  ASSUME NEW par \in Columned, NEW fst \in Columned, NEW lst \in Columned,
         NEW nxt \in Columned, NEW prv \in Columned,
         Chained(par, fst, nxt, prv), Chained(par, lst, prv, nxt),
         NEW c \in Slots, par[c] = 0, NEW p \in Slots,
         NEW left \in Spots, NEW right \in Spots,
         left = 0 => fst[p] = right,
         right = 0 => lst[p] = left,
         left # 0 => par[left] = p /\ nxt[left] = right,
         right # 0 => par[right] = p /\ prv[right] = left,
         NEW par2 \in Columned, NEW fst2 \in Columned, NEW nxt2 \in Columned, NEW prv2 \in Columned,
         Puts(par, par2, c, p), JoinsEnd(fst, fst2, p, left, c),
         LeadsThrough(nxt, nxt2, left, c, right), LeadsThrough(prv, prv2, right, c, left)
  PROVE  Chained(par2, fst2, nxt2, prv2)
<1>1. /\ par \in [Slots -> Spots] /\ fst \in [Slots -> Spots] /\ lst \in [Slots -> Spots]
      /\ nxt \in [Slots -> Spots] /\ prv \in [Slots -> Spots]
      /\ par2 \in [Slots -> Spots] /\ fst2 \in [Slots -> Spots]
      /\ nxt2 \in [Slots -> Spots] /\ prv2 \in [Slots -> Spots]
  BY DEF Columned
<1>2. \A i \in Slots : par2[i] = 0 => prv2[i] = 0
  BY <1>1, SpotIsSlot DEF Chained, Puts, JoinsEnd, LeadsThrough
<1>3. \A i \in Slots : par2[i] # 0 /\ prv2[i] = 0 => fst2[par2[i]] = i
  BY <1>1, SpotIsSlot DEF Chained, Puts, JoinsEnd, LeadsThrough
<1>4. \A i \in Slots : prv2[i] # 0 => nxt2[prv2[i]] = i /\ par2[prv2[i]] = par2[i]
  BY <1>1, SpotIsSlot DEF Chained, Puts, JoinsEnd, LeadsThrough
<1>5. \A i \in Slots : fst2[i] # 0 => par2[fst2[i]] = i /\ prv2[fst2[i]] = 0
  BY <1>1, SpotIsSlot DEF Chained, Puts, JoinsEnd, LeadsThrough
<1> QED BY <1>2, <1>3, <1>4, <1>5 DEF Chained

\* Links that are dropped close no ring.
LEMMA RingDropped ==
  ASSUME NEW f \in Columned, RingFree(f), NEW g \in Columned,
         \A i \in Slots : g[i] = f[i] \/ g[i] = 0
  PROVE  RingFree(g)
<1> SUFFICES ASSUME NEW S \in SUBSET Slots, S # {} PROVE \E i \in S : g[i] \notin S
  BY DEF RingFree
<1>1. PICK i \in S : f[i] \notin S
  BY DEF RingFree
<1>2. 0 \notin S
  BY DEF Slots
<1> QED BY <1>1, <1>2

\* A link that skips a slot, and one from that slot dropped.
LEMMA RingCut ==
  ASSUME NEW f \in Columned, RingFree(f), NEW g \in Columned,
         NEW c \in Slots, NEW back \in Columned, back[c] # 0 => f[back[c]] = c,
         Skips(f, g, back, c)
  PROVE  RingFree(g)
<1> SUFFICES ASSUME NEW S \in SUBSET Slots, S # {}, \A i \in S : g[i] \in S PROVE FALSE
  BY DEF RingFree
<1> DEFINE b == back[c]
<1>0. /\ b \in Spots /\ (b # 0 => f[b] = c)
      /\ \A i \in Slots : g[i] = IF i = c THEN 0 ELSE IF i = b THEN f[c] ELSE f[i]
  BY DEF Skips, Columned
<1> HIDE DEF b
<1>1. c \notin S
  BY <1>0 DEF Slots
<1>2. CASE b \notin S
  BY <1>0, <1>1, <1>2 DEF RingFree
<1>3. CASE b \in S
  <2> DEFINE R == S \cup {c}
  <2>1. \A i \in R : f[i] \in R
    BY <1>0, <1>1, <1>3, SpotIsSlot
  <2> QED BY <2>1 DEF RingFree
<1> QED BY <1>2, <1>3

\* A slot that nothing led to is put in the middle of a link.
LEMMA RingJoin ==
  ASSUME NEW f \in Columned, RingFree(f), NEW g \in Columned,
         NEW c \in Slots, NEW left \in Spots, NEW right \in Spots, right # c,
         left # 0 => f[left] = right,
         \A i \in Slots : f[i] # c, LeadsThrough(f, g, left, c, right)
  PROVE  RingFree(g)
<1> SUFFICES ASSUME NEW S \in SUBSET Slots, S # {}, \A i \in S : g[i] \in S PROVE FALSE
  BY DEF RingFree
<1> USE DEF LeadsThrough
<1>1. CASE c \notin S
  <2>1. \A i \in S : f[i] \in S
    BY <1>1
  <2> QED BY <2>1 DEF RingFree
<1>2. CASE c \in S
  <2> DEFINE R == S \ {c}
  <2>1. right \in R
    BY <1>2
  <2>2. \A i \in R : f[i] \in R
    BY <2>1, SpotIsSlot
  <2> QED BY <2>1, <2>2 DEF RingFree
<1> QED BY <1>1, <1>2

\* A slot hung below one that is not below it.
LEMMA RingHang ==
  ASSUME NEW f \in Columned, RingFree(f), NEW g \in Columned,
         NEW c \in Slots, NEW p \in Slots, NEW T \in SUBSET Slots, p \in T, c \notin T,
         \A i \in T : f[i] # 0 => f[i] \in T,
         Puts(f, g, c, p)
  PROVE  RingFree(g)
<1> SUFFICES ASSUME NEW S \in SUBSET Slots, S # {}, \A i \in S : g[i] \in S PROVE FALSE
  BY DEF RingFree
<1> USE DEF Puts
<1>1. CASE c \notin S
  BY <1>1 DEF RingFree
<1>2. CASE c \in S
  <2> DEFINE R == S \cap T
  <2>1. p \in R
    BY <1>2
  <2>2. \A i \in R : f[i] \in S /\ f[i] # 0
    BY DEF Slots
  <2>3. \A i \in R : f[i] \in R
    BY <2>2
  <2> QED BY <2>1, <2>3 DEF RingFree
<1> QED BY <1>1, <1>2
\* The kids of slot i.
Kids(par, i) == {c \in Slots : par[c] = i}

LEMMA KidsFinite == ASSUME NEW par, NEW i PROVE IsFiniteSet(Kids(par, i)) /\ Cardinality(Kids(par, i)) \in Nat
<1>1. Kids(par, i) \in SUBSET Slots /\ IsFiniteSet(Slots)
  BY SlotsAssumption, FS_Interval DEF Kids, Slots
<1> QED BY <1>1, FS_Subset, FS_CardinalityType

\* Both ends of a list are there or none is, and none without kids.
LEMMA EndsMeet ==
  ASSUME NEW par \in Columned, NEW fst \in Columned, NEW nxt \in Columned, NEW prv \in Columned,
         Chained(par, fst, nxt, prv), RingFree(prv),
         NEW i \in Slots
  PROVE  fst[i] = 0 <=> Kids(par, i) = {}
<1>1. ASSUME fst[i] # 0 PROVE Kids(par, i) # {}
  BY <1>1, SpotIsSlot DEF Chained, Kids, Columned
<1>2. ASSUME Kids(par, i) # {} PROVE fst[i] # 0
  <2>1. PICK c \in Kids(par, i) : prv[c] \notin Kids(par, i)
    BY <1>2 DEF RingFree, Kids
  <2>2. c \in Slots /\ par[c] = i /\ i # 0 /\ prv[c] \in Spots
    BY DEF Kids, Columned, Slots
  <2>3. prv[c] = 0
    BY <2>1, <2>2, SpotIsSlot DEF Chained, Kids
  <2>4. fst[i] = c
    BY <2>2, <2>3 DEF Chained
  <2> QED BY <2>2, <2>4 DEF Slots
<1> QED BY <1>1, <1>2

-----------------------------------------------------------------------------
(* The same of the columns of links.                                       *)

Spotted(col) == [i \in Slots |-> Index(col[i])]

LEMMA LinkSpot ==
  ASSUME NEW h \in Link
  PROVE  Index(h) \in Spots /\ (Index(h) = 0 <=> h = Null) /\ (h # Null <=> Index(h) \in Slots)
<1>1. CASE h = Null
  BY <1>1, NullOutside, SlotsAssumption DEF Spots
<1>2. CASE h \in Handles
  BY <1>2, HandlePair, NullOutside, SpotIsSlot DEF Spots, Slots
<1> QED BY <1>1, <1>2 DEF Link

LEMMA SpottedColumn ==
  ASSUME NEW col \in [Slots -> Link]
  PROVE  /\ Spotted(col) \in Columned
         /\ \A i \in Slots : /\ Spotted(col)[i] = Index(col[i])
                             /\ Spotted(col)[i] = 0 <=> col[i] = Null
  BY LinkSpot DEF Spotted, Columned

\* The children of every slot form a list, and nothing a ring.
Forest(t) ==
  /\ Chained(Spotted(t.parent), Spotted(t.first), Spotted(t.next), Spotted(t.prev))
  /\ Chained(Spotted(t.parent), Spotted(t.last), Spotted(t.prev), Spotted(t.next))
  /\ RingFree(Spotted(t.parent))
  /\ RingFree(Spotted(t.next))
  /\ RingFree(Spotted(t.prev))

Counted(t) == \A i \in Slots : t.nchild[i] = Cardinality(Kids(Spotted(t.parent), i))

ColumnLive(col) == \A i \in Slots : col[i] # Null => alive[i] /\ Live(col[i])

AllLive(t) ==
  /\ ColumnLive(t.parent)
  /\ ColumnLive(t.first)
  /\ ColumnLive(t.last)
  /\ ColumnLive(t.next)
  /\ ColumnLive(t.prev)

\* u is t with slot c out of the list of slot p: what unlink_child writes.
Unlinked(t, u, p, c) ==
  /\ u \in Columns
  /\ \A i \in Slots :
       /\ u.parent[i] = IF i = c THEN Null ELSE t.parent[i]
       /\ u.first[i] = IF i = p /\ t.prev[c] = Null THEN t.next[c] ELSE t.first[i]
       /\ u.last[i] = IF i = p /\ t.next[c] = Null THEN t.prev[c] ELSE t.last[i]
       /\ u.next[i] = IF i = c THEN Null ELSE IF i = Index(t.prev[c]) THEN t.next[c] ELSE t.next[i]
       /\ u.prev[i] = IF i = c THEN Null ELSE IF i = Index(t.next[c]) THEN t.prev[c] ELSE t.prev[i]
       /\ u.nchild[i] = IF i = p THEN t.nchild[i] - 1 ELSE t.nchild[i]

LEMMA UnlinkWrites ==
  ASSUME NEW t \in Columns, NEW p \in Slots, NEW c \in Slots
  PROVE  Unlinked(t, Unlink(t, p, c), p, c)
<1> DEFINE u == Unlink(t, p, c)
<1>1. u \in Columns
  BY UnlinkColumns
<1>2. ASSUME NEW i \in Slots
      PROVE  /\ u.parent[i] = IF i = c THEN Null ELSE t.parent[i]
             /\ u.nchild[i] = IF i = p THEN t.nchild[i] - 1 ELSE t.nchild[i]
  BY DEF Unlink, Relink, Columns
<1>3. ASSUME NEW i \in Slots
      PROVE  /\ u.first[i] = IF i = p /\ t.prev[c] = Null THEN t.next[c] ELSE t.first[i]
             /\ u.last[i] = IF i = p /\ t.next[c] = Null THEN t.prev[c] ELSE t.last[i]
  BY DEF Unlink, Relink, Columns
<1>4. ASSUME NEW i \in Slots
      PROVE  u.next[i] = IF i = c THEN Null ELSE IF i = Index(t.prev[c]) THEN t.next[c] ELSE t.next[i]
  BY DEF Unlink, Relink, Columns
<1>5. ASSUME NEW i \in Slots
      PROVE  u.prev[i] = IF i = c THEN Null ELSE IF i = Index(t.next[c]) THEN t.prev[c] ELSE t.prev[i]
  BY DEF Unlink, Relink, Columns
<1> HIDE DEF u
<1> QED
  BY <1>1, <1>2, <1>3, <1>4, <1>5 DEF Unlinked, u

\* u is t with c between left and b in the list of p: what link_before writes.
Linked(t, u, p, c, left, b) ==
  /\ u \in Columns
  /\ \A i \in Slots :
       /\ u.parent[i] = IF i = Index(c) THEN p ELSE t.parent[i]
       /\ u.first[i] = IF i = Index(p) /\ left = Null THEN c ELSE t.first[i]
       /\ u.last[i] = IF i = Index(p) /\ b = Null THEN c ELSE t.last[i]
       /\ u.next[i] = IF i = Index(c) THEN b ELSE IF i = Index(left) THEN c ELSE t.next[i]
       /\ u.prev[i] = IF i = Index(c) THEN left ELSE IF i = Index(b) THEN c ELSE t.prev[i]
       /\ u.nchild[i] = IF i = Index(p) THEN t.nchild[i] + 1 ELSE t.nchild[i]

LEMMA LinkWrites ==
  ASSUME NEW t \in Columns, NEW p \in Handles, NEW c \in Handles, NEW b \in Link
  PROVE  Linked(t, LinkBefore(t, p, c, b), p, c, LeftOf(t, p, b), b)
<1>1. LinkBefore(t, p, c, b) \in Columns
  BY LinkColumns
<1> DEFINE left == LeftOf(t, p, b)
<1> HIDE DEF left
<1> QED BY <1>1 DEF Linked, LinkBefore, Relink, Columns, left

-----------------------------------------------------------------------------
(* unlink_child keeps the forest, its counts and its links live.           *)

LEMMA ColumnsSpotted ==
  ASSUME NEW t \in Columns
  PROVE  /\ Spotted(t.parent) \in Columned /\ Spotted(t.first) \in Columned
         /\ Spotted(t.last) \in Columned /\ Spotted(t.next) \in Columned
         /\ Spotted(t.prev) \in Columned
         /\ t.nchild \in [Slots -> Int]
         /\ \A i \in Slots :
              /\ t.parent[i] \in Link /\ t.first[i] \in Link /\ t.last[i] \in Link
              /\ t.next[i] \in Link /\ t.prev[i] \in Link
  BY SpottedColumn DEF Columns

LEMMA UnlinkForest ==
  ASSUME NEW t \in Columns, NEW u, NEW p \in Slots, NEW c \in Slots,
         Unlinked(t, u, p, c), Index(t.parent[c]) = p, Forest(t)
  PROVE  Forest(u)
<1>1. u \in Columns /\ p # 0
  BY DEF Unlinked, Slots
<1> DEFINE par == Spotted(t.parent)
           fst == Spotted(t.first)
           lst == Spotted(t.last)
           nxt == Spotted(t.next)
           prv == Spotted(t.prev)
           par2 == Spotted(u.parent)
           fst2 == Spotted(u.first)
           lst2 == Spotted(u.last)
           nxt2 == Spotted(u.next)
           prv2 == Spotted(u.prev)
<1>2. /\ par \in Columned /\ fst \in Columned /\ lst \in Columned
      /\ nxt \in Columned /\ prv \in Columned
      /\ par2 \in Columned /\ fst2 \in Columned /\ lst2 \in Columned
      /\ nxt2 \in Columned /\ prv2 \in Columned
  BY <1>1, ColumnsSpotted
<1>3. /\ par[c] = p
      /\ prv[c] = 0 <=> t.prev[c] = Null
      /\ nxt[c] = 0 <=> t.next[c] = Null
      /\ prv[c] = Index(t.prev[c]) /\ nxt[c] = Index(t.next[c])
      /\ prv[c] \in Spots /\ nxt[c] \in Spots
  BY SpottedColumn DEF Columns, Columned
<1>4. /\ Puts(par, par2, c, 0)
      /\ CutsEnd(fst, fst2, par, nxt, prv, c) /\ CutsEnd(lst, lst2, par, prv, nxt, c)
      /\ Skips(nxt, nxt2, prv, c) /\ Skips(prv, prv2, nxt, c)
  BY <1>3, NullOutside DEF Spotted, Unlinked, Puts, CutsEnd, Skips
<1>5. /\ Chained(par, fst, nxt, prv) /\ Chained(par, lst, prv, nxt)
      /\ RingFree(par) /\ RingFree(nxt) /\ RingFree(prv)
  BY DEF Forest
<1> HIDE DEF par, fst, lst, nxt, prv, par2, fst2, lst2, nxt2, prv2
<1>6. Chained(par2, fst2, nxt2, prv2)
  BY <1>1, <1>2, <1>3, <1>4, <1>5, CutChained
<1>7. Chained(par2, lst2, prv2, nxt2)
  BY <1>1, <1>2, <1>3, <1>4, <1>5, CutChained
<1>8. RingFree(par2)
  BY <1>2, <1>4, <1>5, RingDropped DEF Puts
<1>9. (prv[c] # 0 => nxt[prv[c]] = c) /\ (nxt[c] # 0 => prv[nxt[c]] = c)
  BY <1>5 DEF Chained
<1>10. RingFree(nxt2) /\ RingFree(prv2)
  BY <1>2, <1>3, <1>4, <1>5, <1>9, RingCut
<1> QED BY <1>6, <1>7, <1>8, <1>10 DEF Forest, par2, fst2, lst2, nxt2, prv2

LEMMA UnlinkCounted ==
  ASSUME NEW t \in Columns, NEW u, NEW p \in Slots, NEW c \in Slots,
         Unlinked(t, u, p, c), Index(t.parent[c]) = p, Counted(t)
  PROVE  Counted(u)
<1> DEFINE par == Spotted(t.parent)
           par2 == Spotted(u.parent)
<1>1. \A i \in Slots : par2[i] = IF i = c THEN 0 ELSE par[i]
  BY NullOutside DEF Spotted, Unlinked
<1>2. par[c] = p
  BY DEF Spotted
<1>3. \A i \in Slots : t.nchild[i] = Cardinality(Kids(par, i))
  BY DEF Counted
<1> HIDE DEF par, par2
<1>4. \A i \in Slots : i # p => Kids(par2, i) = Kids(par, i)
  BY <1>1, <1>2 DEF Kids, Slots
<1>5. Kids(par2, p) = Kids(par, p) \ {c} /\ c \in Kids(par, p)
  BY <1>1, <1>2 DEF Kids, Slots
<1>6. Cardinality(Kids(par2, p)) = Cardinality(Kids(par, p)) - 1
  <2>1. IsFiniteSet(Kids(par, p))
    BY KidsFinite
  <2> QED BY <1>5, <2>1, FS_RemoveElement
<1>7. \A i \in Slots : u.nchild[i] = Cardinality(Kids(par2, i))
  BY <1>3, <1>4, <1>6 DEF Unlinked
<1> QED BY <1>7 DEF Counted, par2

LEMMA UnlinkLive ==
  ASSUME NEW t \in Columns, NEW u, NEW p \in Slots, NEW c \in Slots,
         Unlinked(t, u, p, c), Index(t.parent[c]) = p, AllLive(t)
  PROVE  AllLive(u)
<1>1. /\ \A i \in Slots : t.parent[i] # Null => alive[i] /\ Live(t.parent[i])
      /\ \A i \in Slots : t.first[i] # Null => alive[i] /\ Live(t.first[i])
      /\ \A i \in Slots : t.last[i] # Null => alive[i] /\ Live(t.last[i])
      /\ \A i \in Slots : t.next[i] # Null => alive[i] /\ Live(t.next[i])
      /\ \A i \in Slots : t.prev[i] # Null => alive[i] /\ Live(t.prev[i])
  BY DEF AllLive, ColumnLive
<1>2. \A h : Live(h) => alive[Index(h)]
  BY DEF Live
<1>3. /\ alive[p]
      /\ t.prev[c] # Null => alive[Index(t.prev[c])]
      /\ t.next[c] # Null => alive[Index(t.next[c])]
  BY <1>1, <1>2, NullOutside
<1>4. ColumnLive(u.parent) /\ ColumnLive(u.first) /\ ColumnLive(u.last)
  BY <1>1, <1>3 DEF ColumnLive, Unlinked
<1>5. ColumnLive(u.next) /\ ColumnLive(u.prev)
  BY <1>1, <1>3, NullOutside DEF ColumnLive, Unlinked
<1> QED BY <1>4, <1>5 DEF AllLive


-----------------------------------------------------------------------------
(* link_before does the same.                                              *)

\* Between spots l and r there is room for a child of slot i.
Gap(par, fst, lst, nxt, prv, i, l, r) ==
  /\ l \in Spots /\ r \in Spots
  /\ l = 0 => fst[i] = r
  /\ r = 0 => lst[i] = l
  /\ l # 0 => par[l] = i /\ nxt[l] = r
  /\ r # 0 => par[r] = i /\ prv[r] = l

LEMMA GapBefore ==
  ASSUME NEW t \in Columns, NEW p \in Handles, NEW b \in Link, Forest(t),
         b # Null => t.parent[Index(b)] = p
  PROVE  /\ LeftOf(t, p, b) \in Link
         /\ Gap(Spotted(t.parent), Spotted(t.first), Spotted(t.last), Spotted(t.next), Spotted(t.prev),
                Index(p), Index(LeftOf(t, p, b)), Index(b))
<1> DEFINE i == Index(p)
           par == Spotted(t.parent)
           fst == Spotted(t.first)
           lst == Spotted(t.last)
           nxt == Spotted(t.next)
           prv == Spotted(t.prev)
           left == LeftOf(t, p, b)
<1>1. /\ par \in Columned /\ fst \in Columned /\ lst \in Columned
      /\ nxt \in Columned /\ prv \in Columned
  BY ColumnsSpotted
<1>2. /\ Chained(par, fst, nxt, prv) /\ Chained(par, lst, prv, nxt)
      /\ RingFree(par) /\ RingFree(nxt) /\ RingFree(prv)
  BY DEF Forest
<1>3. i \in Slots /\ i # 0
  BY HandlePair DEF Slots
<1>4. fst[i] = 0 <=> lst[i] = 0
  <2> HIDE DEF i, par, fst, lst, nxt, prv
  <2>1. fst[i] = 0 <=> Kids(par, i) = {}
    BY <1>1, <1>2, <1>3, EndsMeet
  <2>2. lst[i] = 0 <=> Kids(par, i) = {}
    BY <1>1, <1>2, <1>3, EndsMeet
  <2> QED BY <2>1, <2>2
<1>5. CASE b # Null
  <2> DEFINE r == Index(b)
  <2>1. r \in Slots /\ r \in Spots /\ r # 0
    BY <1>5, LinkSpot DEF Slots
  <2>2. left = t.prev[r] /\ left \in Link
    BY <1>5, <2>1, ColumnsSpotted DEF LeftOf
  <2>3. par[r] = i /\ prv[r] = Index(left) /\ prv[r] \in Spots
    BY <1>1, <1>5, <2>1, <2>2 DEF Spotted, Columned
  <2> HIDE DEF r, i, par, fst, lst, nxt, prv, left
  <2>4. Gap(par, fst, lst, nxt, prv, i, prv[r], r)
    BY <1>2, <1>3, <2>1, <2>3 DEF Gap, Chained
  <2> QED BY <2>2, <2>3, <2>4 DEF r, i, par, fst, lst, nxt, prv, left
<1>6. CASE b = Null
  <2>1. left = t.last[i] /\ left \in Link /\ Index(left) = lst[i]
    <3>1. CASE t.first[i] = Null
      <4>1. left = Null
        BY <1>6, <3>1 DEF LeftOf
      <4>2. fst[i] = 0
        BY <3>1, <1>3, NullOutside DEF Spotted
      <4>3. lst[i] = 0 /\ t.last[i] = Null
        BY <4>2, <1>3, <1>4, SpottedColumn DEF Columns
      <4> QED BY <4>1, <4>3, NullOutside DEF Link
    <3>2. CASE t.first[i] # Null
      BY <1>3, <1>6, <3>2, ColumnsSpotted DEF LeftOf, Spotted
    <3> QED BY <3>1, <3>2
  <2>2. Index(b) = 0 /\ 0 \in Spots /\ lst[i] \in Spots
    BY <1>1, <1>3, <1>6, NullOutside, SlotsAssumption DEF Spots, Columned
  <2> HIDE DEF i, par, fst, lst, nxt, prv, left
  <2>3. Gap(par, fst, lst, nxt, prv, i, lst[i], 0)
    BY <1>2, <1>3, <1>4, <2>2, SpotIsSlot DEF Gap, Chained
  <2> QED BY <2>1, <2>2, <2>3 DEF i, par, fst, lst, nxt, prv, left
<1> QED BY <1>5, <1>6

LEMMA LinkForest ==
  ASSUME NEW t \in Columns, NEW u, NEW p \in Handles, NEW c \in Handles, NEW b \in Link,
         NEW left \in Link, Linked(t, u, p, c, left, b), Forest(t),
         Gap(Spotted(t.parent), Spotted(t.first), Spotted(t.last), Spotted(t.next), Spotted(t.prev),
             Index(p), Index(left), Index(b)),
         t.parent[Index(c)] = Null, Index(b) # Index(c),
         NEW T \in SUBSET Slots, Index(p) \in T, Index(c) \notin T, UpClosed(t, T)
  PROVE  Forest(u)
<1>1. u \in Columns
  BY DEF Linked
<1> DEFINE par == Spotted(t.parent)
           fst == Spotted(t.first)
           lst == Spotted(t.last)
           nxt == Spotted(t.next)
           prv == Spotted(t.prev)
           par2 == Spotted(u.parent)
           fst2 == Spotted(u.first)
           lst2 == Spotted(u.last)
           nxt2 == Spotted(u.next)
           prv2 == Spotted(u.prev)
           i == Index(p)
           j == Index(c)
           l == Index(left)
           r == Index(b)
<1>2. /\ par \in Columned /\ fst \in Columned /\ lst \in Columned
      /\ nxt \in Columned /\ prv \in Columned
      /\ par2 \in Columned /\ fst2 \in Columned /\ lst2 \in Columned
      /\ nxt2 \in Columned /\ prv2 \in Columned
  BY <1>1, ColumnsSpotted
<1>3. /\ i \in Slots /\ j \in Slots /\ l \in Spots /\ r \in Spots /\ r # j /\ j # 0
      /\ (l = 0 <=> left = Null) /\ (r = 0 <=> b = Null)
  BY HandlePair, LinkSpot DEF Slots
<1>4. par[j] = 0 /\ prv[j] = 0 /\ nxt[j] = 0
  <2>1. par[j] = 0
    BY <1>3, NullOutside DEF Spotted
  <2> HIDE DEF par, fst, lst, nxt, prv, j
  <2> QED BY <1>3, <2>1 DEF Forest, Chained, par, fst, lst, nxt, prv
<1>5. /\ Puts(par, par2, j, i)
      /\ JoinsEnd(fst, fst2, i, l, j) /\ JoinsEnd(lst, lst2, i, r, j)
      /\ LeadsThrough(nxt, nxt2, l, j, r) /\ LeadsThrough(prv, prv2, r, j, l)
  BY <1>3 DEF Spotted, Linked, Puts, JoinsEnd, LeadsThrough
<1>6. /\ Chained(par, fst, nxt, prv) /\ Chained(par, lst, prv, nxt)
      /\ RingFree(par) /\ RingFree(nxt) /\ RingFree(prv)
  BY DEF Forest
<1>7. /\ l = 0 => fst[i] = r
      /\ r = 0 => lst[i] = l
      /\ l # 0 => par[l] = i /\ nxt[l] = r
      /\ r # 0 => par[r] = i /\ prv[r] = l
  BY DEF Gap
<1>8. \A k \in T : par[k] # 0 => par[k] \in T
  BY NullOutside DEF UpClosed, Spotted
<1> HIDE DEF par, fst, lst, nxt, prv, par2, fst2, lst2, nxt2, prv2, i, j, l, r
<1>9. Chained(par2, fst2, nxt2, prv2)
  BY <1>2, <1>3, <1>4, <1>5, <1>6, <1>7, JoinChained
<1>10. Chained(par2, lst2, prv2, nxt2)
  BY <1>2, <1>3, <1>4, <1>5, <1>6, <1>7, JoinChained
<1>11. RingFree(par2)
  BY <1>2, <1>3, <1>5, <1>6, <1>8, RingHang DEF i, j
<1>12. \A k \in Slots : nxt[k] # j /\ prv[k] # j
  BY <1>3, <1>4, <1>6 DEF Chained, Slots
<1>13. l # j
  BY <1>3, <1>4, <1>7, i # 0 DEF Slots
<1>14. RingFree(nxt2)
  BY <1>2, <1>3, <1>5, <1>6, <1>7, <1>12, RingJoin
<1>15. RingFree(prv2)
  BY <1>2, <1>3, <1>5, <1>6, <1>7, <1>12, <1>13, RingJoin
<1> QED BY <1>9, <1>10, <1>11, <1>14, <1>15 DEF Forest, par2, fst2, lst2, nxt2, prv2

LEMMA LinkCounted ==
  ASSUME NEW t \in Columns, NEW u, NEW p \in Handles, NEW c \in Handles, NEW left, NEW b,
         Linked(t, u, p, c, left, b), t.parent[Index(c)] = Null, Counted(t)
  PROVE  Counted(u)
<1> DEFINE par == Spotted(t.parent)
           par2 == Spotted(u.parent)
           i == Index(p)
           j == Index(c)
<1>1. i \in Slots /\ j \in Slots
  BY HandlePair
<1>2. \A k \in Slots : par2[k] = IF k = j THEN i ELSE par[k]
  BY DEF Spotted, Linked
<1>3. par[j] = 0
  BY <1>1, NullOutside DEF Spotted
<1>4. \A k \in Slots : t.nchild[k] = Cardinality(Kids(par, k))
  BY DEF Counted
<1>5. \A k \in Slots : u.nchild[k] = IF k = i THEN t.nchild[k] + 1 ELSE t.nchild[k]
  BY DEF Linked
<1> HIDE DEF par, par2, i, j
<1>6. \A k \in Slots : k # i => Kids(par2, k) = Kids(par, k)
  BY <1>1, <1>2, <1>3 DEF Kids, Slots
<1>7. Kids(par2, i) = Kids(par, i) \cup {j} /\ j \notin Kids(par, i)
  BY <1>1, <1>2, <1>3 DEF Kids, Slots
<1>8. Cardinality(Kids(par2, i)) = Cardinality(Kids(par, i)) + 1
  <2>1. IsFiniteSet(Kids(par, i))
    BY KidsFinite
  <2> QED BY <1>7, <2>1, FS_AddElement
<1>9. \A k \in Slots : u.nchild[k] = Cardinality(Kids(par2, k))
  BY <1>4, <1>5, <1>6, <1>8
<1> QED BY <1>9 DEF Counted, par2

LEMMA LinkLive ==
  ASSUME NEW t \in Columns, NEW u, NEW p, NEW c, NEW left \in Link, NEW b \in Link,
         Linked(t, u, p, c, left, b), AllLive(t), Live(p), Live(c),
         b # Null => Live(b), left # Null => Live(left)
  PROVE  AllLive(u)
<1>1. /\ \A i \in Slots : t.parent[i] # Null => alive[i] /\ Live(t.parent[i])
      /\ \A i \in Slots : t.first[i] # Null => alive[i] /\ Live(t.first[i])
      /\ \A i \in Slots : t.last[i] # Null => alive[i] /\ Live(t.last[i])
      /\ \A i \in Slots : t.next[i] # Null => alive[i] /\ Live(t.next[i])
      /\ \A i \in Slots : t.prev[i] # Null => alive[i] /\ Live(t.prev[i])
  BY DEF AllLive, ColumnLive
<1>2. \A h : Live(h) => alive[Index(h)]
  BY DEF Live
<1>3. alive[Index(p)] /\ alive[Index(c)]
      /\ (b # Null => alive[Index(b)]) /\ (left # Null => alive[Index(left)])
  BY <1>2
<1>4. ColumnLive(u.parent) /\ ColumnLive(u.first) /\ ColumnLive(u.last)
  BY <1>1, <1>3 DEF ColumnLive, Linked
<1>5. ColumnLive(u.next) /\ ColumnLive(u.prev)
  BY <1>1, <1>3, NullOutside DEF ColumnLive, Linked
<1> QED BY <1>4, <1>5 DEF AllLive


-----------------------------------------------------------------------------
(* Chains of parents.                                                      *)

LEMMA ChainSelf == \A t, i : OnChain(t, i, i)
  BY DEF OnChain

\* A chain that leads further leads through the parent.
LEMMA ChainUp ==
  ASSUME NEW t \in Columns, NEW i \in Slots, NEW j, j # i, OnChain(t, i, j)
  PROVE  t.parent[i] # Null /\ OnChain(t, Index(t.parent[i]), j)
<1>1. t.parent[i] # Null
  <2> SUFFICES ASSUME t.parent[i] = Null PROVE FALSE
    OBVIOUS
  <2>1. UpClosed(t, {i})
    BY DEF UpClosed
  <2> QED BY <2>1 DEF OnChain
<1>2. ASSUME NEW S \in SUBSET Slots, Index(t.parent[i]) \in S, UpClosed(t, S) PROVE j \in S
  <2>1. UpClosed(t, S \cup {i})
    BY <1>2 DEF UpClosed
  <2>2. j \in S \cup {i}
    BY <2>1 DEF OnChain
  <2> QED BY <2>2
<1> QED BY <1>1, <1>2 DEF OnChain

LEMMA ChainDown ==
  ASSUME NEW t, NEW i, t.parent[i] # Null, NEW j, OnChain(t, Index(t.parent[i]), j)
  PROVE  OnChain(t, i, j)
  BY DEF OnChain, UpClosed

\* A chain of slots stays in the slots.
LEMMA ChainInSlots ==
  ASSUME NEW t \in Columns, NEW i \in Slots, NEW j, OnChain(t, i, j)
  PROVE  j \in Slots
<1>1. UpClosed(t, Slots)
  BY LinkSpot DEF UpClosed, Columns
<1> QED BY <1>1 DEF OnChain

\* No node is above its own parent.
LEMMA ChainNoRing ==
  ASSUME NEW t \in Columns, Forest(t), NEW h \in Slots, t.parent[h] # Null
  PROVE  ~OnChain(t, Index(t.parent[h]), h)
<1> SUFFICES ASSUME OnChain(t, Index(t.parent[h]), h) PROVE FALSE
  OBVIOUS
<1> DEFINE p == Index(t.parent[h])
           ring == {j \in Slots : OnChain(t, j, h) /\ OnChain(t, p, j)}
<1>1. p \in Slots
  BY LinkSpot DEF Columns
<1>2. h \in ring
  BY ChainSelf
<1>3. ASSUME NEW j \in ring PROVE Index(t.parent[j]) \in ring
  <2>1. CASE j = h
    BY <1>1, <2>1, ChainSelf
  <2>2. CASE j # h
    <3>1. t.parent[j] # Null /\ OnChain(t, Index(t.parent[j]), h)
      BY <2>2, ChainUp
    <3>2. OnChain(t, j, Index(t.parent[j]))
      BY <3>1, ChainSelf, ChainDown
    <3>3. OnChain(t, p, Index(t.parent[j]))
      BY <3>1 DEF OnChain, UpClosed
    <3> QED BY <1>1, <3>1, <3>3, ChainInSlots
  <2> QED BY <2>1, <2>2
<1>4. RingFree(Spotted(t.parent)) /\ ring \in SUBSET Slots
  BY DEF Forest
<1> HIDE DEF ring
<1> QED BY <1>2, <1>3, <1>4 DEF RingFree, Spotted

\* u is t with the parent of slot n gone.
Cut(t, u, n) == \A i \in Slots : u.parent[i] = IF i = n THEN Null ELSE t.parent[i]

LEMMA ChainCut ==
  ASSUME NEW t, NEW u, NEW n, Cut(t, u, n), NEW i, NEW j
  PROVE  /\ OnChain(u, i, j) => OnChain(t, i, j)
         /\ OnChain(t, i, n) => OnChain(u, i, n)
<1>1. ASSUME NEW S \in SUBSET Slots, UpClosed(t, S) PROVE UpClosed(u, S)
  BY <1>1 DEF Cut, UpClosed
<1>2. ASSUME NEW S \in SUBSET Slots, UpClosed(u, S), n \notin S PROVE UpClosed(t, S)
  BY <1>2 DEF Cut, UpClosed
<1> QED BY <1>1, <1>2 DEF OnChain

Childless(t, n) == \A i \in Slots : Index(t.parent[i]) # n

\* Only the leaf itself is below a leaf, and no chain leads through it.
LEMMA ChainLeaf ==
  ASSUME NEW t \in Columns, NEW n \in Slots, Childless(t, n), NEW i \in Slots, i # n
  PROVE  /\ ~OnChain(t, i, n)
         /\ \A u, j : Cut(t, u, n) /\ OnChain(t, i, j) => OnChain(u, i, j)
<1>1. UpClosed(t, Slots \ {n})
  BY LinkSpot DEF Childless, UpClosed, Columns
<1>2. ~OnChain(t, i, n)
  BY <1>1 DEF OnChain
<1>3. ASSUME NEW u, NEW j, Cut(t, u, n), OnChain(t, i, j),
             NEW S \in SUBSET Slots, i \in S, UpClosed(u, S)
      PROVE  j \in S
  <2>1. UpClosed(t, S \ {n})
    BY <1>3 DEF Childless, UpClosed, Cut
  <2> QED BY <1>3, <2>1 DEF OnChain
<1> QED BY <1>2, <1>3 DEF OnChain

-----------------------------------------------------------------------------
(* The inductive invariant.                                                *)

(***************************************************************************)
(* What the loop of destroy_subtree relies on while it has a cursor: it    *)
(* stands on a live node of the doomed subtree, whose root has left its    *)
(* parent, the parent is not one of the doomed, and what is left of the    *)
(* doomed nodes is what is left of the subtree.                            *)
(***************************************************************************)
WalkGoesOn ==
  /\ Live(walk.root)
  /\ Live(walk.cursor)
  /\ topo.parent[Index(walk.root)] = Null
  /\ OnChain(topo, Index(walk.cursor), Index(walk.root))
  /\ walk.rootParent # Null => ~OnChain(topo, Index(walk.rootParent), Index(walk.root))
  /\ LiveHandles \cap doomed = Subtree(walk.root)

WalkSound ==
  /\ doomed \in SUBSET issued
  /\ walk = NoWalk => dying = Null
  /\ walk.rootParent # Null => Live(walk.rootParent)
  /\ walk.oldParent # Null => Live(walk.oldParent)
  /\ walk # NoWalk /\ walk.cursor = Null => \A h \in doomed : ~Live(h)
  /\ walk.cursor # Null => WalkGoesOn

TreeInv ==
  /\ LinksInv
  /\ AllLive(topo)
  /\ Forest(topo)
  /\ Counted(topo)
  /\ WalkSound


\* A live handle that is a link was issued, and its slot tells it.
LEMMA LiveLink ==
  ASSUME LinksInv, NEW h \in Link, Live(h)
  PROVE  /\ h \in Handles /\ h # Null /\ Index(h) \in Slots
         /\ h = <<Index(h), generation[Index(h)]>>
         /\ h \in issued /\ h \in LiveHandles
<1>1. h \in Handles
  BY NullOutside DEF Live, Link
<1>2. h = <<Index(h), generation[Index(h)]>> /\ Index(h) \in Slots /\ alive[Index(h)]
  BY <1>1, HandlePair DEF Live
<1>3. h \in issued
  BY <1>2 DEF LinksInv, SlotsInv, LiveIssued
<1> QED BY <1>1, <1>2, <1>3, NullOutside DEF LiveHandles

LEMMA IssuedLink == ASSUME LinksInv, NEW h \in issued PROVE h \in Link /\ h \in Handles
  BY DEF LinksInv, SlotsInv, SlotsTypeOK, Link

\* Two live nodes do not share a slot.
LEMMA LiveApart ==
  ASSUME LinksInv, NEW g \in Link, NEW h \in Link, Live(g), Live(h), Index(g) = Index(h)
  PROVE  g = h
<1>1. g = <<Index(g), generation[Index(g)]>>
  BY LiveLink
<1>2. h = <<Index(h), generation[Index(h)]>>
  BY LiveLink
<1> QED BY <1>1, <1>2

\* The forest without slot c, and what else unlink_child leaves behind.
Loose(c) == IF topo.parent[c] = Null THEN topo ELSE Unlink(topo, Index(topo.parent[c]), c)

LEMMA LooseTree ==
  ASSUME LinksInv, AllLive(topo), Forest(topo), Counted(topo), NEW c \in Slots
  PROVE  /\ Loose(c) \in Columns /\ AllLive(Loose(c)) /\ Forest(Loose(c)) /\ Counted(Loose(c))
         /\ Cut(topo, Loose(c), c)
         /\ Loose(c).parent[c] = Null
<1>1. topo \in Columns
  BY DEF LinksInv
<1>2. CASE topo.parent[c] = Null
  BY <1>1, <1>2 DEF Loose, Cut
<1>3. CASE topo.parent[c] # Null
  <2> DEFINE p == Index(topo.parent[c])
             u == Unlink(topo, p, c)
  <2>1. p \in Slots
    BY <1>1, <1>3, LinkSpot, ColumnsSpotted
  <2>2. Unlinked(topo, u, p, c)
    BY <1>1, <2>1, UnlinkWrites
  <2>3. u = Loose(c) /\ Index(topo.parent[c]) = p
    BY <1>3 DEF Loose
  <2> HIDE DEF u, p
  <2>4. u \in Columns /\ Cut(topo, u, c) /\ u.parent[c] = Null
    BY <2>2 DEF Unlinked, Cut
  <2>5. AllLive(u) /\ Forest(u) /\ Counted(u)
    BY <1>1, <2>1, <2>2, <2>3, UnlinkLive, UnlinkForest, UnlinkCounted
  <2> QED BY <2>3, <2>4, <2>5
<1> QED BY <1>2, <1>3

\* Without a cursor and without a walk there is little to show.
LEMMA NoWalkSound ==
  ASSUME walk = NoWalk, dying = Null, doomed \in SUBSET issued
  PROVE  WalkSound
  BY DEF WalkSound, NoWalk

LEMMA TreeInvInit == TreeInit => TreeInv
<1> SUFFICES ASSUME TreeInit PROVE TreeInv
  OBVIOUS
<1>1. LinksInv
  BY TreeInitInv
<1>2. /\ topo.parent = [i \in Slots |-> Null] /\ topo.first = [i \in Slots |-> Null]
      /\ topo.last = [i \in Slots |-> Null] /\ topo.next = [i \in Slots |-> Null]
      /\ topo.prev = [i \in Slots |-> Null] /\ topo.nchild = [i \in Slots |-> 0]
  BY DEF TreeInit
<1>3. AllLive(topo)
  BY <1>2 DEF AllLive, ColumnLive
<1>4. Spotted([i \in Slots |-> Null]) = [i \in Slots |-> 0]
  BY NullOutside DEF Spotted
<1>5. RingFree([i \in Slots |-> 0])
  <2> SUFFICES ASSUME NEW S \in SUBSET Slots, NEW i \in S PROVE [k \in Slots |-> 0][i] \notin S
    BY DEF RingFree
  <2> QED BY DEF Slots
<1>6. Chained([i \in Slots |-> 0], [i \in Slots |-> 0], [i \in Slots |-> 0], [i \in Slots |-> 0])
  BY DEF Chained
<1>7. Forest(topo)
  BY <1>2, <1>4, <1>5, <1>6 DEF Forest
<1>8. \A i \in Slots : Kids([k \in Slots |-> 0], i) = {}
  BY DEF Kids, Slots
<1>9. Counted(topo)
  BY <1>2, <1>4, <1>8, FS_EmptySet DEF Counted
<1>10. WalkSound
  BY NoWalkSound DEF TreeInit, SlotsInit
<1> QED BY <1>1, <1>3, <1>7, <1>9, <1>10 DEF TreeInv

\* A slot without a node has no links, and none lead to it.
LEMMA DeadSlotBare ==
  ASSUME TreeInv, NEW i \in Slots, ~alive[i]
  PROVE  /\ topo.parent[i] = Null /\ topo.first[i] = Null /\ topo.last[i] = Null
         /\ topo.next[i] = Null /\ topo.prev[i] = Null /\ topo.nchild[i] = 0
<1>1. /\ topo.parent[i] = Null /\ topo.first[i] = Null /\ topo.last[i] = Null
      /\ topo.next[i] = Null /\ topo.prev[i] = Null
  BY DEF TreeInv, AllLive, ColumnLive
<1>2. Kids(Spotted(topo.parent), i) = {}
  <2> SUFFICES ASSUME NEW c \in Slots, Index(topo.parent[c]) = i PROVE FALSE
    BY DEF Kids, Spotted
  <2>1. Live(topo.parent[c])
    BY NullOutside DEF TreeInv, AllLive, ColumnLive
  <2> QED BY <2>1 DEF Live
<1>3. topo.nchild[i] = 0
  BY <1>2, FS_EmptySet DEF TreeInv, Counted
<1> QED BY <1>1, <1>3

\* Live nodes stay live when slots without a node change.
LEMMA AllLiveKept ==
  ASSUME NEW t, AllLive(t), \A i \in Slots : alive[i] => alive'[i] /\ generation'[i] = generation[i]
  PROVE  AllLive(t)'
  BY DEF AllLive, ColumnLive, Live

\* A create takes a slot without a node and leaves the others alone.
LEMMA CreateSparesLive ==
  ASSUME TreeInv, Create
  PROVE  /\ NextSlot \in Slots /\ ~alive[NextSlot]
         /\ \A i \in Slots : alive[i] => alive'[i] /\ generation'[i] = generation[i]
<1>1. NextSlot \in Slots /\ ~alive[NextSlot]
  <2>1. CASE freeList # <<>>
    <3>1. Len(freeList) \in 1 .. Len(freeList) /\ freeList[Len(freeList)] \in Slots
      BY <2>1, TopIsSlot DEF TreeInv, LinksInv, SlotsInv, Top
    <3> QED BY <2>1, <3>1 DEF TreeInv, LinksInv, SlotsInv, FreeListSound, NextSlot, Top
  <2>2. CASE freeList = <<>>
    <3>1. count + 1 \in Slots /\ ~(count + 1 <= count)
      BY <2>2, SlotsAssumption
      DEF Create, CreateReused, CreateFresh, TreeInv, LinksInv, SlotsInv, SlotsTypeOK, Slots
    <3> QED BY <2>2, <3>1 DEF TreeInv, LinksInv, SlotsInv, LiveIssued, NextSlot
  <2> QED BY <2>1, <2>2
<1>2. \A i \in Slots : alive[i] => alive'[i] /\ generation'[i] = generation[i]
  <2>1. PICK g : /\ alive' = [alive EXCEPT ![NextSlot] = TRUE]
                 /\ generation' = [generation EXCEPT ![NextSlot] = g]
    BY DEF Create, CreateReused, CreateFresh, Revive, NextSlot
  <2> QED BY <1>1, <2>1 DEF TreeInv, LinksInv, SlotsInv, SlotsTypeOK
<1> QED BY <1>1, <1>2

\* The slot a create takes has no links to clear.
LEMMA CreateLeavesLinks == ASSUME TreeInv, Create PROVE topo' = topo
<1>1. NextSlot \in Slots /\ ~alive[NextSlot]
  BY CreateSparesLive
<1>2. topo' = ClearLinks(topo, NextSlot) /\ topo \in Columns
  BY DEF Create, TreeInv, LinksInv
<1> DEFINE i == NextSlot
<1> HIDE DEF i
<1>3. ClearLinks(topo, i) = topo
  BY <1>1, <1>2, DeadSlotBare DEF ClearLinks, Columns, i
<1> QED BY <1>2, <1>3 DEF i

LEMMA CreateKeepsTree == ASSUME TreeInv, LinksInv', Create PROVE TreeInv'
<1>2. topo' = topo
  BY CreateLeavesLinks
<1>3. \A i \in Slots : alive[i] => alive'[i] /\ generation'[i] = generation[i]
  BY CreateSparesLive
<1>4. AllLive(topo)'
  BY <1>2, <1>3, AllLiveKept DEF TreeInv, AllLive, ColumnLive, Live
<1>5. Forest(topo)' /\ Counted(topo)'
  BY <1>2 DEF TreeInv, Forest, Counted
<1>6. WalkSound'
  <2>1. /\ dying = Null /\ dying' = dying /\ walk' = walk /\ doomed' = doomed
        /\ issued \in SUBSET issued' /\ walk = NoWalk
    BY DEF Create, ClientRuns, CreateReused, CreateFresh, Revive
  <2> QED BY <2>1, NoWalkSound DEF TreeInv, WalkSound, NoWalk
<1> QED BY <1>4, <1>5, <1>6 DEF TreeInv


\* Outside a walk nothing is left for WalkSound to say.
LEMMA PlacedTreeInv ==
  ASSUME TreeInv, LinksInv', UNCHANGED <<slotVars, walk, doomed>>, ClientRuns, NotDispatching,
         AllLive(topo'), Forest(topo'), Counted(topo')
  PROVE  TreeInv'
<1>1. AllLive(topo)' /\ Forest(topo)' /\ Counted(topo)'
  BY DEF AllLive, ColumnLive, Live, Forest, Counted, slotVars
<1>2. WalkSound'
  BY DEF TreeInv, WalkSound, NoWalk, ClientRuns, NotDispatching, slotVars
<1> QED BY <1>1, <1>2 DEF TreeInv

LEMMA RemoveKeepsTree ==
  ASSUME TreeInv, LinksInv', NEW p \in LiveHandles, NEW c \in LiveHandles, NodeRemove(p, c)
  PROVE  TreeInv'
<1>1. /\ topo.parent[Index(c)] = p /\ topo' = Unlink(topo, Index(p), Index(c))
      /\ UNCHANGED <<slotVars, walk, doomed>> /\ ClientRuns /\ NotDispatching
      /\ Live(p) /\ Live(c)
  BY DEF NodeRemove
<1>2. Index(c) \in Slots /\ p # Null
  BY <1>1, LiveNode
<1>3. topo' = Loose(Index(c))
  BY <1>1, <1>2 DEF Loose
<1>4. AllLive(topo') /\ Forest(topo') /\ Counted(topo')
  BY <1>2, <1>3, LooseTree DEF TreeInv
<1> QED BY <1>1, <1>4, PlacedTreeInv

LEMMA PlaceKeepsTree ==
  ASSUME TreeInv, LinksInv', NEW p \in LiveHandles, NEW c \in LiveHandles,
         NEW b \in LiveHandles \cup {Null}, NEW mode, PlaceBefore(p, c, b, mode)
  PROVE  TreeInv'
<1> DEFINE i == Index(p)
           j == Index(c)
           u == Loose(j)
           left == LeftOf(u, p, b)
<1>1. /\ topo' = LinkBefore(u, p, c, b)
      /\ UNCHANGED <<slotVars, walk, doomed>> /\ ClientRuns /\ NotDispatching
      /\ ~OnChain(topo, i, j) /\ b # c /\ BeforeOK(p, b)
  BY DEF PlaceBefore, Loose
<1>2. /\ p \in Handles /\ c \in Handles /\ b \in Link /\ i \in Slots /\ j \in Slots
      /\ Live(p) /\ Live(c) /\ c \in Link /\ LinksInv
  BY HandlePair DEF LiveHandles, TreeInv, LinksInv, SlotsInv, SlotsTypeOK, Link
<1>3. /\ u \in Columns /\ AllLive(u) /\ Forest(u) /\ Counted(u)
      /\ Cut(topo, u, j) /\ u.parent[j] = Null
  BY <1>2, LooseTree DEF TreeInv
<1>4. Index(b) # j
  <2>1. CASE b = Null
    BY <1>2, <2>1, NullOutside
  <2>2. CASE b # Null
    BY <1>1, <1>2, <2>2, LiveApart DEF BeforeOK
  <2> QED BY <2>1, <2>2
<1>5. b # Null => u.parent[Index(b)] = p /\ Live(b)
  BY <1>1, <1>2, <1>3, <1>4, LinkSpot DEF BeforeOK, Cut
<1> HIDE DEF u
<1>6. /\ left \in Link
      /\ Gap(Spotted(u.parent), Spotted(u.first), Spotted(u.last), Spotted(u.next), Spotted(u.prev),
             Index(p), Index(left), Index(b))
  BY <1>2, <1>3, <1>5, GapBefore
<1>7. Linked(u, topo', p, c, left, b)
  BY <1>1, <1>2, <1>3, LinkWrites
<1>8. PICK T \in SUBSET Slots : i \in T /\ j \notin T /\ UpClosed(topo, T)
  BY <1>1 DEF OnChain
<1>9. UpClosed(u, T)
  BY <1>3, <1>8 DEF Cut, UpClosed
<1>10. left # Null => Live(left)
  <2>1. CASE b # Null
    BY <1>3, <1>5, <1>2, <2>1, LinkSpot DEF LeftOf, AllLive, ColumnLive
  <2>2. CASE b = Null
    BY <1>2, <1>3, <2>2 DEF LeftOf, AllLive, ColumnLive
  <2> QED BY <2>1, <2>2
<1> HIDE DEF left
<1>11. Forest(topo')
  BY <1>2, <1>3, <1>4, <1>6, <1>7, <1>8, <1>9, LinkForest
<1>12. Counted(topo')
  BY <1>2, <1>3, <1>7, LinkCounted
<1>13. AllLive(topo')
  BY <1>2, <1>3, <1>5, <1>6, <1>7, <1>10, LinkLive
<1> QED BY <1>1, <1>11, <1>12, <1>13, PlacedTreeInv

LEMMA DestroyBeginKeepsTree ==
  ASSUME TreeInv, LinksInv', NEW h \in issued, DestroyBegin(h)
  PROVE  TreeInv'
<1> DEFINE i == Index(h)
           p == topo.parent[i]
<1>1. /\ topo' = Loose(i) /\ Live(h) /\ UNCHANGED slotVars
      /\ walk' = [root |-> h, rootParent |-> p, cursor |-> h, oldParent |-> Null]
      /\ doomed' = Subtree(h) /\ walk = NoWalk /\ dying = Null
  BY DEF DestroyBegin, Loose, ClientRuns, NotDispatching
<1>2. i \in Slots /\ h # Null /\ LinksInv /\ topo \in Columns
  BY <1>1, LiveNode DEF TreeInv, LinksInv
<1>3. /\ AllLive(topo') /\ Forest(topo') /\ Counted(topo')
      /\ Cut(topo, topo', i) /\ topo'.parent[i] = Null
  BY <1>1, <1>2, LooseTree DEF TreeInv
<1>4. AllLive(topo)' /\ Forest(topo)' /\ Counted(topo)'
  BY <1>1, <1>3 DEF AllLive, ColumnLive, Live, Forest, Counted, slotVars
<1>5. p # Null => Live(p) /\ ~OnChain(topo', Index(p), i)
  <2> SUFFICES ASSUME p # Null PROVE Live(p) /\ ~OnChain(topo', Index(p), i)
    OBVIOUS
  <2>1. ~OnChain(topo, Index(p), i)
    BY <1>2, ChainNoRing DEF TreeInv
  <2> QED BY <1>2, <1>3, <2>1, ChainCut DEF TreeInv, AllLive, ColumnLive
<1>6. OnChain(topo', i, i)
  BY ChainSelf
<1>7. \A j : OnChain(topo, j, i) <=> OnChain(topo', j, i)
  BY <1>3, ChainCut
<1>8. \A g : Live(g)' <=> Live(g)
  BY <1>1 DEF Live, slotVars
<1>9. LiveHandles' = LiveHandles
  BY <1>1 DEF LiveHandles, Live, slotVars
<1>10. (LiveHandles \cap doomed = Subtree(walk.root))'
  <2>1. Subtree(walk.root)' = {d \in LiveHandles' : OnChain(topo', Index(d), i)}
    BY <1>1 DEF Subtree
  <2>2. Subtree(h) = {d \in LiveHandles : OnChain(topo, Index(d), i)}
    BY DEF Subtree
  <2> QED BY <1>1, <1>7, <1>9, <2>1, <2>2
<1>11. WalkGoesOn'
  BY <1>1, <1>3, <1>5, <1>6, <1>8, <1>10 DEF WalkGoesOn
<1>12. WalkSound'
  <2>1. doomed' \in SUBSET issued'
    BY <1>1 DEF Subtree, LiveHandles, slotVars
  <2>2. walk' # NoWalk
    BY <1>1, <1>2 DEF NoWalk
  <2> QED BY <1>1, <1>2, <1>5, <1>8, <1>11, <2>1, <2>2 DEF WalkSound
<1> QED BY <1>4, <1>12 DEF TreeInv


LEMMA WalkDownKeepsTree == ASSUME TreeInv, LinksInv', WalkDown PROVE TreeInv'
<1> DEFINE i == Index(walk.cursor)
           f == topo.first[i]
<1>1. /\ walk' = [walk EXCEPT !.cursor = f] /\ f # Null /\ dying = Null
      /\ walk # NoWalk /\ UNCHANGED <<slotVars, topo, doomed>>
  BY DEF WalkDown, Walking, FirstChild
<1>2. /\ walk.cursor # Null /\ i \in Slots /\ topo \in Columns /\ walk \in Walks /\ WalkGoesOn
  BY <1>1, HandlePair, NullOutside
  DEF TreeInv, LinksInv, CursorNamesNode, Walking, WalkSound
<1>3. f \in Link /\ Index(f) \in Slots /\ Live(f)
  BY <1>1, <1>2, ColumnsSpotted, LinkSpot DEF TreeInv, AllLive, ColumnLive
<1>4. Index(topo.parent[Index(f)]) = i /\ topo.parent[Index(f)] # Null
  <2>1. Chained(Spotted(topo.parent), Spotted(topo.first), Spotted(topo.next), Spotted(topo.prev))
    BY DEF TreeInv, Forest
  <2>2. Spotted(topo.first)[i] = Index(f) /\ Index(f) # 0 /\ i # 0
    BY <1>2, <1>3 DEF Spotted, Slots
  <2>3. Spotted(topo.parent)[Index(f)] = i
    BY <1>2, <2>1, <2>2 DEF Chained
  <2> QED BY <1>3, <2>2, <2>3, NullOutside DEF Spotted
<1>5. OnChain(topo, Index(f), Index(walk.root))
  BY <1>2, <1>4, ChainDown DEF WalkGoesOn
<1> HIDE DEF f
<1>6. walk'.cursor = f /\ walk'.root = walk.root /\ walk'.rootParent = walk.rootParent
      /\ walk'.oldParent = walk.oldParent
  BY <1>1, <1>2 DEF Walks
<1>7. \A g : Live(g)' <=> Live(g)
  BY <1>1 DEF Live, slotVars
<1>8. AllLive(topo)' /\ Forest(topo)' /\ Counted(topo)'
  BY <1>1 DEF TreeInv, AllLive, ColumnLive, Live, Forest, Counted, slotVars
<1>9. (LiveHandles \cap doomed = Subtree(walk.root))'
  BY <1>1, <1>2, <1>6 DEF WalkGoesOn, Subtree, LiveHandles, Live, slotVars
<1>10. WalkGoesOn'
  BY <1>1, <1>2, <1>3, <1>5, <1>6, <1>7, <1>9 DEF WalkGoesOn
<1>11. WalkSound'
  <2>1. walk' # NoWalk
    BY <1>1, <1>6 DEF NoWalk
  <2> QED BY <1>1, <1>6, <1>7, <1>10, <2>1 DEF TreeInv, WalkSound, slotVars
<1> QED BY <1>8, <1>11 DEF TreeInv

\* A leaf out of its list has no links, and none lead to it.
LEMMA LooseLeaf ==
  ASSUME NEW u \in Columns, Forest(u), Counted(u), NEW i \in Slots,
         u.parent[i] = Null, Childless(u, i)
  PROVE  /\ u.first[i] = Null /\ u.last[i] = Null /\ u.next[i] = Null /\ u.prev[i] = Null
         /\ u.nchild[i] = 0
         /\ \A k \in Slots : /\ Index(u.first[k]) # i /\ Index(u.last[k]) # i
                             /\ Index(u.next[k]) # i /\ Index(u.prev[k]) # i
<1> DEFINE par == Spotted(u.parent)
           fst == Spotted(u.first)
           lst == Spotted(u.last)
           nxt == Spotted(u.next)
           prv == Spotted(u.prev)
<1>1. /\ par \in Columned /\ fst \in Columned /\ lst \in Columned
      /\ nxt \in Columned /\ prv \in Columned
  BY ColumnsSpotted
<1>2. /\ Chained(par, fst, nxt, prv) /\ Chained(par, lst, prv, nxt)
      /\ RingFree(nxt) /\ RingFree(prv)
  BY DEF Forest
<1>3. Kids(par, i) = {} /\ par[i] = 0 /\ i # 0
  BY NullOutside DEF Childless, Kids, Spotted, Slots
<1>4. u.nchild[i] = 0
  BY <1>3, FS_EmptySet DEF Counted
<1>5. /\ u.first[i] = Null <=> fst[i] = 0
      /\ u.last[i] = Null <=> lst[i] = 0
      /\ u.next[i] = Null <=> nxt[i] = 0
      /\ u.prev[i] = Null <=> prv[i] = 0
  BY SpottedColumn DEF Columns
<1>6. \A k \in Slots : /\ fst[k] = Index(u.first[k]) /\ lst[k] = Index(u.last[k])
                       /\ nxt[k] = Index(u.next[k]) /\ prv[k] = Index(u.prev[k])
  BY DEF Spotted
<1> HIDE DEF par, fst, lst, nxt, prv
<1>7. fst[i] = 0 /\ lst[i] = 0
  BY <1>1, <1>2, <1>3, EndsMeet
<1>8. nxt[i] = 0 /\ prv[i] = 0
  BY <1>2, <1>3 DEF Chained
<1>9. \A k \in Slots : fst[k] # i /\ lst[k] # i /\ nxt[k] # i /\ prv[k] # i
  BY <1>2, <1>3, <1>8 DEF Chained, Slots
<1> QED BY <1>4, <1>5, <1>6, <1>7, <1>8, <1>9

\* The links of the others stay live when the leaf dies.
LEMMA KilledLive ==
  ASSUME NEW i \in Slots, \A g : Live(g)' <=> Live(g) /\ Index(g) # i,
         \A k \in Slots : k # i => alive'[k] = alive[k],
         topo' \in Columns, AllLive(topo'), Forest(topo'), Counted(topo'),
         topo'.parent[i] = Null, Childless(topo', i)
  PROVE  AllLive(topo)'
<1>1. PICK v : v = topo'
  OBVIOUS
<1>2. /\ \A k \in Slots : /\ Index(v.first[k]) # i /\ Index(v.last[k]) # i
                          /\ Index(v.next[k]) # i /\ Index(v.prev[k]) # i
                          /\ Index(v.parent[k]) # i
      /\ v.first[i] = Null /\ v.last[i] = Null /\ v.next[i] = Null /\ v.prev[i] = Null
      /\ v.parent[i] = Null
  BY <1>1, LooseLeaf DEF Childless
<1>3. AllLive(v)
  BY <1>1
<1>4. /\ \A k \in Slots : v.parent[k] # Null => alive'[k] /\ Live(v.parent[k])'
      /\ \A k \in Slots : v.first[k] # Null => alive'[k] /\ Live(v.first[k])'
      /\ \A k \in Slots : v.last[k] # Null => alive'[k] /\ Live(v.last[k])'
      /\ \A k \in Slots : v.next[k] # Null => alive'[k] /\ Live(v.next[k])'
      /\ \A k \in Slots : v.prev[k] # Null => alive'[k] /\ Live(v.prev[k])'
  BY <1>2, <1>3 DEF AllLive, ColumnLive
<1> QED BY <1>1, <1>4 DEF AllLive, ColumnLive, Live

\* The walk visits a leaf, and takes it out of its list before it kills it.
LEMMA VisitLoosens ==
  ASSUME TreeInv, WalkVisit
  PROVE  /\ topo' = Loose(Index(walk.cursor))
         /\ Childless(topo, Index(walk.cursor))
         /\ Childless(Loose(Index(walk.cursor)), Index(walk.cursor))
<1> DEFINE i == Index(walk.cursor)
           u == Loose(i)
<1>1. topo' = ClearLinks(u, i) /\ topo.first[i] = Null /\ Live(walk.cursor)
  BY DEF WalkVisit, FirstChild, Loose, Kill
<1>2. i \in Slots /\ topo \in Columns /\ LinksInv
  BY <1>1, LiveNode DEF TreeInv, LinksInv
<1>3. /\ u \in Columns /\ Forest(u) /\ Counted(u)
      /\ Cut(topo, u, i) /\ u.parent[i] = Null
  BY <1>2, LooseTree DEF TreeInv
<1>4. Childless(topo, i) /\ Childless(u, i)
  <2>1. Spotted(topo.first)[i] = 0
    BY <1>1, <1>2, NullOutside DEF Spotted
  <2>2. Kids(Spotted(topo.parent), i) = {}
    BY <1>2, <2>1, ColumnsSpotted, EndsMeet DEF TreeInv, Forest
  <2>3. Childless(topo, i)
    BY <2>2 DEF Kids, Childless, Spotted
  <2> QED BY <1>2, <1>3, <2>3, NullOutside DEF Childless, Cut
<1>5. topo' = u
  <2> HIDE DEF u, i
  <2>1. ClearLinks(u, i) = u
    BY <1>2, <1>3, <1>4, LooseLeaf DEF ClearLinks, Columns
  <2> QED BY <1>1, <2>1
<1> QED BY <1>4, <1>5

LEMMA WalkVisitKeepsTree == ASSUME TreeInv, LinksInv', WalkVisit PROVE TreeInv'
<1> DEFINE node == walk.cursor
           i == Index(node)
           p == topo.parent[i]
           next == topo.next[i]
           u == Loose(i)
           cursor == IF node = walk.root THEN Null ELSE IF next # Null THEN next ELSE p
           parent == OldParentOf(node, p)
<1>1. /\ walk' = [walk EXCEPT !.cursor = cursor, !.oldParent = parent]
      /\ walk # NoWalk /\ dying = Null /\ doomed' = doomed /\ Live(node)
      /\ alive' = [alive EXCEPT ![i] = FALSE] /\ UNCHANGED <<generation, issued>>
  BY DEF WalkVisit, Walking, Kill
<1>2. /\ node # Null /\ i \in Slots /\ topo \in Columns /\ walk \in Walks /\ WalkGoesOn
      /\ node \in Link /\ walk.root \in Link /\ walk.rootParent \in Link /\ LinksInv
      /\ alive \in [Slots -> BOOLEAN]
  BY <1>1, LiveNode
  DEF TreeInv, LinksInv, WalkSound, Walks, SlotsInv, SlotsTypeOK
<1>3. /\ u \in Columns /\ AllLive(u) /\ Forest(u) /\ Counted(u)
      /\ Cut(topo, u, i) /\ u.parent[i] = Null
  BY <1>2, LooseTree DEF TreeInv
<1>4. Childless(topo, i) /\ Childless(u, i)
  BY VisitLoosens
<1>5. topo' = u
  BY VisitLoosens
<1>6. \A g : Live(g)' <=> Live(g) /\ Index(g) # i
  BY <1>1, <1>2 DEF Live
<1>7. /\ topo' \in Columns /\ AllLive(topo') /\ Forest(topo') /\ Counted(topo')
      /\ Cut(topo, topo', i) /\ topo'.parent[i] = Null /\ Childless(topo', i)
  BY <1>3, <1>4, <1>5
<1> HIDE DEF u
<1>8. AllLive(topo)' /\ Forest(topo)' /\ Counted(topo)'
  <2>1. \A k \in Slots : k # i => alive'[k] = alive[k]
    BY <1>1, <1>2
  <2>2. AllLive(topo)'
    BY <1>2, <1>6, <1>7, <2>1, KilledLive
  <2> QED BY <1>7, <2>2 DEF Forest, Counted
<1> HIDE DEF cursor, parent
<1>9. walk'.cursor = cursor /\ walk'.root = walk.root /\ walk'.rootParent = walk.rootParent
      /\ walk'.oldParent = parent
  BY <1>1, <1>2 DEF Walks
<1>10. (walk.rootParent # Null => Live(walk.rootParent))'
  <2>1. walk.rootParent # Null => Index(walk.rootParent) # i
    BY <1>2 DEF WalkGoesOn
  <2>2. walk.rootParent # Null => Live(walk.rootParent)
    BY DEF TreeInv, WalkSound
  <2> QED BY <1>6, <1>9, <2>1, <2>2
<1>11. CASE node = walk.root
  <2>1. cursor = Null /\ parent = walk.rootParent
    BY <1>11 DEF cursor, parent, OldParentOf
  <2>2. ASSUME NEW h \in doomed, Live(h)' PROVE FALSE
    <3>1. Live(h) /\ Index(h) # i /\ Index(h) \in Slots
      BY <1>6, <2>2 DEF Live
    <3>2. h \in LiveHandles \cap doomed
      BY <3>1 DEF TreeInv, WalkSound, LiveHandles
    <3>3. OnChain(topo, Index(h), i)
      BY <1>2, <1>11, <3>2 DEF WalkGoesOn, Subtree
    <3> QED BY <1>2, <1>4, <3>1, <3>3, ChainLeaf
  <2>3. walk' # NoWalk
    BY <1>2, <1>9, <1>11 DEF NoWalk
  <2> QED BY <1>1, <1>8, <1>9, <1>10, <2>1, <2>2, <2>3 DEF TreeInv, WalkSound
<1>12. CASE node # walk.root
  <2>1. Live(walk.root) /\ Index(walk.root) # i /\ Index(walk.root) \in Slots
    BY <1>1, <1>2, <1>12, LiveApart, LiveNode DEF WalkGoesOn
  <2>2. p # Null /\ OnChain(topo, Index(p), Index(walk.root))
    BY <1>2, <2>1, ChainUp DEF WalkGoesOn
  <2>3. Live(p) /\ Index(p) # i /\ Index(p) \in Slots
    BY <1>2, <1>4, <2>2, LiveNode DEF TreeInv, AllLive, ColumnLive, Childless
  <2>4. /\ cursor # Null /\ Live(cursor) /\ Index(cursor) # i /\ Index(cursor) \in Slots
        /\ OnChain(topo, Index(cursor), Index(walk.root))
    <3>1. CASE next = Null
      BY <1>12, <2>2, <2>3, <3>1 DEF cursor
    <3>2. CASE next # Null
      <4>1. cursor = next /\ Live(next) /\ Index(next) \in Slots
        BY <1>2, <1>12, <3>2, LiveNode DEF cursor, TreeInv, AllLive, ColumnLive
      <4>2. Index(topo.parent[Index(next)]) = Index(p) /\ topo.prev[Index(next)] # Null
        <5>1. Chained(Spotted(topo.parent), Spotted(topo.last), Spotted(topo.prev), Spotted(topo.next))
          BY DEF TreeInv, Forest
        <5>2. Spotted(topo.next)[i] = Index(next) /\ Index(next) # 0 /\ i # 0
          BY <1>2, <4>1 DEF Spotted, Slots
        <5>3. /\ Spotted(topo.parent)[Index(next)] = Spotted(topo.parent)[i]
              /\ Spotted(topo.prev)[Index(next)] = i
          BY <1>2, <5>1, <5>2 DEF Chained
        <5> QED BY <1>2, <4>1, <5>2, <5>3, NullOutside DEF Spotted
      <4>3. Index(next) # i
        <5>1. RingFree(Spotted(topo.next)) /\ {i} \in SUBSET Slots
          BY <1>2 DEF TreeInv, Forest
        <5> QED BY <1>2, <5>1 DEF RingFree, Spotted
      <4>4. topo.parent[Index(next)] # Null
        BY <2>3, <4>2, NullOutside
      <4> QED BY <2>2, <3>2, <4>1, <4>2, <4>3, <4>4, ChainDown
    <3> QED BY <3>1, <3>2
  <2>5. parent = p
    BY <1>12 DEF parent, OldParentOf
  <2>6. OnChain(topo', Index(cursor), Index(walk.root))
    BY <1>2, <1>4, <1>7, <2>4, ChainLeaf
  <2>7. walk.rootParent # Null => ~OnChain(topo', Index(walk.rootParent), Index(walk.root))
    BY <1>2, <1>7, ChainCut DEF WalkGoesOn
  <2>8. topo'.parent[Index(walk.root)] = Null
    BY <1>2, <1>7, <2>1 DEF Cut, WalkGoesOn
  <2>9. (LiveHandles \cap doomed = Subtree(walk.root))'
    <3>1. LiveHandles' = {d \in LiveHandles : Index(d) # i}
      BY <1>1, <1>6 DEF LiveHandles
    <3>2. \A d \in LiveHandles : Index(d) # i =>
            (OnChain(topo', Index(d), Index(walk.root)) <=> OnChain(topo, Index(d), Index(walk.root)))
      <4> SUFFICES ASSUME NEW d \in LiveHandles, Index(d) # i
                   PROVE  OnChain(topo', Index(d), Index(walk.root)) <=> OnChain(topo, Index(d), Index(walk.root))
        OBVIOUS
      <4>1. Index(d) \in Slots
        BY DEF LiveHandles, Live
      <4> QED BY <1>2, <1>4, <1>7, <4>1, ChainLeaf, ChainCut
    <3>3. Subtree(walk.root)' = {d \in LiveHandles' : OnChain(topo', Index(d), Index(walk.root))}
      BY <1>9 DEF Subtree
    <3>4. LiveHandles \cap doomed = {d \in LiveHandles : OnChain(topo, Index(d), Index(walk.root))}
      BY <1>2 DEF WalkGoesOn, Subtree
    <3> QED BY <1>1, <1>9, <3>1, <3>2, <3>3, <3>4
  <2>10. WalkGoesOn'
    BY <1>2, <1>6, <1>9, <2>1, <2>4, <2>6, <2>7, <2>8, <2>9 DEF WalkGoesOn
  <2>11. walk' # NoWalk
    BY <1>9, <2>4 DEF NoWalk
  <2> QED BY <1>1, <1>6, <1>8, <1>9, <1>10, <2>3, <2>4, <2>5, <2>10, <2>11 DEF TreeInv, WalkSound
<1> QED BY <1>11, <1>12


\* What the end of a DESTROY event does to the slots: the dead one may get
\* its next generation.
LEMMA ResumeSlots ==
  ASSUME LinksInv, Retire \/ Recycle
  PROVE  /\ dying # Null /\ dying' = Null /\ alive' = alive /\ issued' = issued
         /\ \A h : Live(h)' <=> Live(h)
         /\ \A i \in Slots : alive[i] => alive'[i] /\ generation'[i] = generation[i]
<1>1. dying # Null /\ dying' = Null /\ alive' = alive /\ issued' = issued
  BY DEF Retire, Recycle
<1>2. ~alive[Index(dying)] /\ generation \in [Slots -> 0 .. MaxGen]
  BY <1>1 DEF LinksInv, SlotsInv, DyingIssued, SlotsTypeOK
<1>3. \A i \in Slots : alive[i] => generation'[i] = generation[i]
  BY <1>2 DEF Retire, Recycle
<1> QED BY <1>1, <1>3 DEF Live

LEMMA WalkResumeKeepsTree == ASSUME TreeInv, LinksInv', WalkResume PROVE TreeInv'
<1>1. /\ dying' = Null /\ issued' = issued
      /\ \A h : Live(h)' <=> Live(h)
      /\ \A i \in Slots : alive[i] => alive'[i] /\ generation'[i] = generation[i]
      /\ topo' = topo /\ walk # NoWalk /\ walk \in Walks
  BY ResumeSlots DEF WalkResume, TreeInv, LinksInv
<1>2. AllLive(topo)' /\ Forest(topo)' /\ Counted(topo)'
  <2>1. PICK v : v = topo
    OBVIOUS
  <2>2. AllLive(v)'
    BY <1>1, <2>1, AllLiveKept DEF TreeInv
  <2> QED BY <1>1, <2>1, <2>2 DEF TreeInv, AllLive, ColumnLive, Live, Forest, Counted
<1>3. CASE walk.cursor = Null
  BY <1>1, <1>2, <1>3 DEF WalkResume, TreeInv, WalkSound, NoWalk
<1>4. CASE walk.cursor # Null
  <2>1. /\ walk'.cursor = walk.cursor /\ walk'.root = walk.root
        /\ walk'.rootParent = walk.rootParent /\ walk'.oldParent = Null /\ doomed' = doomed
    BY <1>1, <1>4 DEF WalkResume, Walks
  <2>2. (LiveHandles \cap doomed = Subtree(walk.root))'
    <3>1. LiveHandles' = LiveHandles
      BY <1>1 DEF LiveHandles
    <3> QED BY <1>1, <1>4, <2>1, <3>1 DEF TreeInv, WalkSound, WalkGoesOn, Subtree
  <2>3. WalkGoesOn'
    BY <1>1, <1>4, <2>1, <2>2 DEF TreeInv, WalkSound, WalkGoesOn
  <2>4. walk' # NoWalk
    BY <1>4, <2>1 DEF NoWalk
  <2> QED BY <1>1, <1>2, <1>4, <2>1, <2>3, <2>4 DEF TreeInv, WalkSound
<1> QED BY <1>3, <1>4

LEMMA TreeInvStep == TreeInv /\ [TreeNext]_treeVars => TreeInv'
<1> SUFFICES ASSUME TreeInv, [TreeNext]_treeVars PROVE TreeInv'
  OBVIOUS
<1>1. LinksInv'
  BY TreeStepInv DEF TreeInv
<1>2. CASE UNCHANGED treeVars
  BY <1>1, <1>2
  DEF treeVars, TreeInv, AllLive, ColumnLive, Live, Forest, Counted, WalkSound, WalkGoesOn, Subtree,
      LiveHandles
<1>3. CASE Create
  BY <1>1, <1>3, CreateKeepsTree
<1>4. ASSUME NEW p \in LiveHandles, NEW c \in LiveHandles,
             \/ NodeAppend(p, c)
             \/ NodeRemove(p, c)
             \/ \E b \in LiveHandles \cup {Null} :
                  NodeInsert(p, c, b) \/ NodeMove(p, c, b) \/ NodeReparent(p, c, b)
      PROVE  TreeInv'
  BY <1>1, <1>4, RemoveKeepsTree, PlaceKeepsTree DEF NodeAppend, NodeInsert, NodeMove, NodeReparent
<1>5. ASSUME NEW h \in issued, DestroyBegin(h) PROVE TreeInv'
  BY <1>1, <1>5, DestroyBeginKeepsTree
<1>6. CASE WalkStep
  BY <1>1, <1>6, WalkDownKeepsTree, WalkVisitKeepsTree, WalkResumeKeepsTree DEF WalkStep
<1> QED BY <1>2, <1>3, <1>4, <1>5, <1>6 DEF TreeNext

THEOREM TreeStaysSound == TreeSpec => []TreeInv
  BY TreeInvInit, TreeInvStep, PTL DEF TreeSpec

-----------------------------------------------------------------------------
(* What the invariant says of the properties.                              *)

LEMMA SoundLists == ASSUME LinksInv, AllLive(topo), Forest(topo) PROVE ListsAreDoublyLinked
<1> SUFFICES ASSUME NEW i \in Slots
             PROVE  /\ topo.parent[i] = Null => topo.next[i] = Null /\ topo.prev[i] = Null
                    /\ topo.parent[i] # Null =>
                         /\ IF topo.prev[i] = Null THEN topo.first[Index(topo.parent[i])] = HandleOf(i)
                            ELSE /\ topo.next[Index(topo.prev[i])] = HandleOf(i)
                                 /\ topo.parent[Index(topo.prev[i])] = topo.parent[i]
                         /\ IF topo.next[i] = Null THEN topo.last[Index(topo.parent[i])] = HandleOf(i)
                            ELSE /\ topo.prev[Index(topo.next[i])] = HandleOf(i)
                                 /\ topo.parent[Index(topo.next[i])] = topo.parent[i]
                    /\ topo.first[i] # Null =>
                         /\ topo.parent[Index(topo.first[i])] = HandleOf(i)
                         /\ topo.prev[Index(topo.first[i])] = Null
                    /\ topo.last[i] # Null =>
                         /\ topo.parent[Index(topo.last[i])] = HandleOf(i)
                         /\ topo.next[Index(topo.last[i])] = Null
  BY DEF ListsAreDoublyLinked
<1> DEFINE Ref(k) == IF k = 0 THEN Null ELSE <<k, generation[k]>>
           par == Spotted(topo.parent)
           fst == Spotted(topo.first)
           lst == Spotted(topo.last)
           nxt == Spotted(topo.next)
           prv == Spotted(topo.prev)
<1>1. ASSUME NEW h \in Link, h # Null => Live(h) PROVE h = Ref(Index(h))
  BY <1>1, LiveLink, NullOutside, SpotIsSlot DEF Slots
<1>2. \A k \in Slots :
        /\ topo.parent[k] = Ref(par[k]) /\ topo.first[k] = Ref(fst[k]) /\ topo.last[k] = Ref(lst[k])
        /\ topo.next[k] = Ref(nxt[k]) /\ topo.prev[k] = Ref(prv[k])
  <2>1. ASSUME NEW col \in [Slots -> Link], ColumnLive(col), NEW k \in Slots
        PROVE  col[k] = Ref(Spotted(col)[k])
    BY <2>1, <1>1 DEF ColumnLive, Spotted
  <2> HIDE DEF Ref
  <2> QED
    BY <2>1 DEF LinksInv, Columns, AllLive
<1>3. /\ par \in Columned /\ fst \in Columned /\ lst \in Columned
      /\ nxt \in Columned /\ prv \in Columned
  BY ColumnsSpotted DEF LinksInv
<1>4. /\ par[i] = Index(topo.parent[i]) /\ fst[i] = Index(topo.first[i]) /\ lst[i] = Index(topo.last[i])
      /\ nxt[i] = Index(topo.next[i]) /\ prv[i] = Index(topo.prev[i])
  BY DEF Spotted
<1>5. /\ topo.parent[i] = Null <=> par[i] = 0
      /\ topo.first[i] = Null <=> fst[i] = 0
      /\ topo.last[i] = Null <=> lst[i] = 0
      /\ topo.next[i] = Null <=> nxt[i] = 0
      /\ topo.prev[i] = Null <=> prv[i] = 0
  BY SpottedColumn DEF LinksInv, Columns
<1>6. (topo.parent[i] # Null \/ topo.first[i] # Null \/ topo.last[i] # Null) => HandleOf(i) = Ref(i)
  BY DEF AllLive, ColumnLive, HandleOf, Slots
<1>7. /\ Chained(par, fst, nxt, prv) /\ Chained(par, lst, prv, nxt)
  BY DEF Forest
<1>8. Ref(0) = Null
  OBVIOUS
<1> HIDE DEF Ref, par, fst, lst, nxt, prv
<1>9. topo.parent[i] = Null => topo.next[i] = Null /\ topo.prev[i] = Null
  BY <1>5, <1>7 DEF Chained
<1>10. topo.parent[i] # Null =>
         /\ IF topo.prev[i] = Null THEN topo.first[Index(topo.parent[i])] = HandleOf(i)
            ELSE /\ topo.next[Index(topo.prev[i])] = HandleOf(i)
                 /\ topo.parent[Index(topo.prev[i])] = topo.parent[i]
         /\ IF topo.next[i] = Null THEN topo.last[Index(topo.parent[i])] = HandleOf(i)
            ELSE /\ topo.prev[Index(topo.next[i])] = HandleOf(i)
                 /\ topo.parent[Index(topo.next[i])] = topo.parent[i]
  BY <1>2, <1>3, <1>4, <1>5, <1>6, <1>7, SpotIsSlot DEF Chained, Columned
<1>11. topo.first[i] # Null =>
         /\ topo.parent[Index(topo.first[i])] = HandleOf(i)
         /\ topo.prev[Index(topo.first[i])] = Null
  BY <1>2, <1>3, <1>4, <1>5, <1>6, <1>7, <1>8, SpotIsSlot DEF Chained, Columned
<1>12. topo.last[i] # Null =>
         /\ topo.parent[Index(topo.last[i])] = HandleOf(i)
         /\ topo.next[Index(topo.last[i])] = Null
  BY <1>2, <1>3, <1>4, <1>5, <1>6, <1>7, <1>8, SpotIsSlot DEF Chained, Columned
<1> QED BY <1>9, <1>10, <1>11, <1>12

LEMMA SoundTree == TreeInv => WellLinked
<1> SUFFICES ASSUME TreeInv PROVE WellLinked
  OBVIOUS
<1> USE DEF TreeInv
<1>1. LinksAreLive
  BY DEF LinksAreLive, AllLive, ColumnLive
<1>2. ListsAreDoublyLinked
  BY SoundLists
<1>3. NoCycles
  BY DEF NoCycles, Forest, RingFree, Spotted
<1>4. ChildCountsAgree
  <2>1. \A i \in Slots : Children(i) = Kids(Spotted(topo.parent), i)
    BY NullOutside DEF Children, Kids, Spotted
  <2> QED BY <2>1 DEF ChildCountsAgree, Counted
<1>5. EventNamesLiveParent
  BY DEF EventNamesLiveParent, WalkSound, LinksInv, SlotsInv, DyingIssued, Live
<1> QED BY <1>1, <1>2, <1>3, <1>4, <1>5 DEF WellLinked

(***************************************************************************)
(* Whatever the topology calls do, sibling lists and parent links form an  *)
(* ordered forest of live nodes at every moment a client can look, also    *)
(* for the observers of a half-destroyed subtree, and the old parent such  *)
(* an observer is told of is one of its nodes.                             *)
(***************************************************************************)
THEOREM TreeStaysLinked == TreeSpec => []WellLinked
  BY TreeStaysSound, SoundTree, PTL

\* No child count leaves the range of its column.
THEOREM TreeTypeCorrect == TreeSpec => []TreeTypeOK
<1>1. TreeInv => TreeTypeOK
  <2> SUFFICES ASSUME TreeInv PROVE TreeTypeOK
    OBVIOUS
  <2>1. \A i \in Slots : topo.nchild[i] \in 0 .. MaxSlots
    <3> SUFFICES ASSUME NEW i \in Slots PROVE topo.nchild[i] \in 0 .. MaxSlots
      OBVIOUS
    <3>1. Kids(Spotted(topo.parent), i) \in SUBSET Slots
      BY DEF Kids
    <3>2. IsFiniteSet(Slots) /\ Cardinality(Slots) = MaxSlots
      BY SlotsAssumption, FS_Interval DEF Slots
    <3>3. Cardinality(Kids(Spotted(topo.parent), i)) <= MaxSlots
      BY <3>1, <3>2, FS_Subset
    <3> QED BY <3>3, KidsFinite, SlotsAssumption DEF TreeInv, Counted
  <2>2. topo \in Columns
    BY DEF TreeInv, LinksInv
  <2>3. topo \in Topology
    BY <2>1, <2>2 DEF Columns, Topology
  <2> QED BY <2>3 DEF TreeTypeOK, TreeInv, LinksInv, SlotsInv, SlotsTypeOK, Walks, WalkSound
<1> QED BY <1>1, TreeStaysSound, PTL

\* The nodes that die are doomed ones, and the end of a walk leaves none.
LEMMA StepIsExact ==
  ASSUME TreeInv, [TreeNext]_treeVars
  PROVE  /\ \A h \in issued : Live(h) /\ ~Live(h)' => h \in doomed
         /\ walk # NoWalk /\ walk' = NoWalk => \A h \in doomed : ~Live(h)'
<1>1. CASE UNCHANGED <<alive, generation>> /\ (walk # NoWalk => walk' # NoWalk)
  BY <1>1 DEF Live
<1>2. CASE UNCHANGED treeVars
  BY <1>1, <1>2 DEF treeVars
<1>3. CASE Create
  <2>1. walk' = walk
    BY <1>3 DEF Create
  <2>2. \A i \in Slots : alive[i] => alive'[i] /\ generation'[i] = generation[i]
    BY <1>3, CreateSparesLive
  <2> QED BY <2>1, <2>2 DEF Live
<1>4. ASSUME NEW p \in LiveHandles, NEW c \in LiveHandles,
             \/ NodeAppend(p, c)
             \/ NodeRemove(p, c)
             \/ \E b \in LiveHandles \cup {Null} :
                  NodeInsert(p, c, b) \/ NodeMove(p, c, b) \/ NodeReparent(p, c, b)
      PROVE  UNCHANGED <<alive, generation>> /\ (walk # NoWalk => walk' # NoWalk)
  BY <1>4, PlacingKeepsSlots DEF slotVars
<1>5. ASSUME NEW h \in issued, DestroyBegin(h)
      PROVE  UNCHANGED <<alive, generation>> /\ (walk # NoWalk => walk' # NoWalk)
  BY <1>5 DEF DestroyBegin, slotVars, ClientRuns, NotDispatching
<1>6. CASE WalkDown
  <2>1. walk'.cursor # Null /\ UNCHANGED <<alive, generation>>
    BY <1>6 DEF WalkDown, slotVars, TreeInv, LinksInv, Walks
  <2> QED BY <1>1, <2>1 DEF NoWalk
<1>7. CASE WalkVisit
  <2> DEFINE i == Index(walk.cursor)
  <2>1. /\ walk # NoWalk /\ Live(walk.cursor) /\ walk.cursor # Null
        /\ alive' = [alive EXCEPT ![i] = FALSE] /\ generation' = generation
    BY <1>7, LiveNode DEF WalkVisit, Walking, Kill
  <2>2. /\ WalkGoesOn /\ LinksInv /\ walk \in Walks /\ i \in Slots
        /\ alive \in [Slots -> BOOLEAN]
    BY <2>1, LiveNode DEF TreeInv, LinksInv, WalkSound, SlotsInv, SlotsTypeOK
  <2>3. walk.cursor \in doomed
    <3>1. walk.cursor \in LiveHandles
      BY <2>1, <2>2, LiveLink DEF Walks
    <3> QED BY <2>2, <3>1 DEF WalkGoesOn, Subtree
  <2>4. ASSUME NEW h \in issued, Live(h), ~Live(h)' PROVE h = walk.cursor
    <3>1. Index(h) = i
      BY <2>1, <2>2, <2>4 DEF Live
    <3> QED BY <2>1, <2>2, <2>4, <3>1, IssuedLink, LiveApart DEF Walks
  <2>5. walk' # NoWalk
    <3>1. walk'.root = walk.root /\ walk.root # Null
      BY <1>7, <2>2, LiveNode DEF WalkVisit, Walks, WalkGoesOn
    <3> QED BY <3>1 DEF NoWalk
  <2> QED BY <2>3, <2>4, <2>5
<1>8. CASE WalkResume
  <2>1. \A h : Live(h)' <=> Live(h)
    BY <1>8, ResumeSlots DEF WalkResume, TreeInv
  <2>2. walk' = NoWalk => walk.cursor = Null
    <3>1. walk.cursor # Null => walk'.cursor = walk.cursor
      BY <1>8 DEF WalkResume, TreeInv, LinksInv, Walks
    <3> QED BY <3>1 DEF NoWalk
  <2>3. walk # NoWalk /\ walk.cursor = Null => \A h \in doomed : ~Live(h)
    BY DEF TreeInv, WalkSound
  <2> QED BY <2>1, <2>2, <2>3
<1> QED BY <1>1, <1>2, <1>3, <1>4, <1>5, <1>6, <1>7, <1>8 DEF TreeNext, WalkStep

(***************************************************************************)
(* A destroy call kills the nodes that were in the subtree when it began,  *)
(* all of them and no other, whatever happens while its observers run.     *)
(***************************************************************************)
THEOREM DestroyStaysExact == TreeSpec => DestroyExact
<1>1. TreeInv /\ [TreeNext]_treeVars =>
        [/\ \A h \in issued : Live(h) /\ ~Live(h)' => h \in doomed
         /\ walk # NoWalk /\ walk' = NoWalk => \A h \in doomed : ~Live(h)']_treeVars
  BY StepIsExact
<1> QED BY <1>1, TreeStaysSound, PTL DEF TreeSpec, DestroyExact

-----------------------------------------------------------------------------
(***************************************************************************)
(* The linked slots implement the ordered forest.                          *)
(***************************************************************************)

-----------------------------------------------------------------------------
(* Sequences that are read past their ends.                                *)

\* The k-th entry of s, Null on both sides of it.
At(s, k) == IF k \in 1 .. Len(s) THEN s[k] ELSE Null

\* Filtering that drops exactly the m-th entry.
LEMMA FilterDropsOne ==
  ASSUME NEW T, NEW s \in Seq(T), NEW keep, NEW m \in 1 .. Len(s),
         \A k \in 1 .. Len(s) : s[k] \in keep <=> k # m
  PROVE  /\ Filtered(s, keep) \in Seq(T)
         /\ Len(Filtered(s, keep)) = Len(s) - 1
         /\ \A k \in 1 .. Len(s) - 1 : Filtered(s, keep)[k] = IF k < m THEN s[k] ELSE s[k + 1]
<1> DEFINE f == FilteredTo(s, keep)
           n == Len(s)
           size(i) == IF i < m THEN i ELSE i - 1
           good == {i \in Nat : i <= n =>
                      /\ Len(f[i]) = size(i)
                      /\ \A k \in 1 .. size(i) : f[i][k] = IF k < m THEN s[k] ELSE s[k + 1]}
<1>1. n \in Nat /\ m \in Nat /\ 1 <= m /\ m <= n /\ \A i \in 1 .. n : s[i] \in T
  BY LenProperties
<1>2. f[0] = <<>> /\ \A i \in 1 .. n :
        f[i] = IF s[i] \in keep THEN Append(f[i - 1], s[i]) ELSE f[i - 1]
  BY <1>1, FilterSteps
<1>3. \A i \in 0 .. n : f[i] \in Seq(T)
  <2>1. \A i \in 0 .. n : f[i] \in Seq(T \cap keep)
    BY FilterType
  <2> HIDE DEF f
  <2>2. ASSUME NEW i \in 0 .. n PROVE f[i] \in Seq(T)
    <3>1. f[i] \in Seq(T \cap keep) /\ T \cap keep \subseteq T
      BY <2>1
    <3> QED BY <3>1, SeqMonotonic
  <2> QED BY <2>2
<1> HIDE DEF f, n
<1>4. 0 \in good
  BY <1>1, <1>2
<1>5. ASSUME NEW i \in 0 .. n - 1, i \in good PROVE i + 1 \in good
  <2>1. i \in Nat /\ i + 1 \in 1 .. n /\ i + 1 - 1 = i /\ i \in 0 .. n
    BY <1>1
  <2> DEFINE e == f[i]
             x == s[i + 1]
  <2>2. e \in Seq(T) /\ x \in T
    BY <1>1, <1>3, <2>1
  <2>3. Len(e) = size(i) /\ \A k \in 1 .. size(i) : e[k] = IF k < m THEN s[k] ELSE s[k + 1]
    BY <1>5, <2>1
  <2>4. f[i + 1] = IF x \in keep THEN Append(e, x) ELSE e
    BY <1>2, <2>1
  <2>5. x \in keep <=> i + 1 # m
    BY <2>1 DEF n
  <2> HIDE DEF e
  <2>6. CASE i + 1 = m
    <3>1. size(i + 1) = size(i) /\ f[i + 1] = e
      BY <1>1, <2>1, <2>4, <2>5, <2>6
    <3> QED BY <3>1, <2>1, <2>3
  <2>7. CASE i + 1 # m
    <3>1. size(i + 1) = size(i) + 1 /\ size(i) \in Nat
      BY <1>1, <2>1, <2>7
    <3>2. f[i + 1] = Append(e, x)
      BY <2>4, <2>5, <2>7
    <3>3. Len(f[i + 1]) = size(i) + 1
      BY <2>2, <2>3, <3>2, AppendProperties
    <3>4. /\ f[i + 1][size(i) + 1] = x
          /\ \A k \in 1 .. size(i) : f[i + 1][k] = e[k]
      BY <2>2, <2>3, <3>2, AppendProperties
    <3>5. x = IF size(i) + 1 < m THEN s[size(i) + 1] ELSE s[(size(i) + 1) + 1]
      <4>1. CASE i < m
        BY <1>1, <2>1, <2>7, <4>1
      <4>2. CASE ~(i < m)
        <5>1. size(i) + 1 = i /\ ~(size(i) + 1 < m)
          BY <1>1, <2>1, <4>2
        <5> QED BY <5>1
      <4> QED BY <4>1, <4>2
    <3> HIDE DEF size
    <3>6. ASSUME NEW k \in 1 .. size(i) + 1 PROVE f[i + 1][k] = IF k < m THEN s[k] ELSE s[k + 1]
      <4>1. CASE k = size(i) + 1
        BY <3>4, <3>5, <4>1
      <4>2. CASE k \in 1 .. size(i)
        BY <2>3, <3>4, <4>2
      <4> QED BY <3>1, <4>1, <4>2
    <3> QED BY <2>1, <3>1, <3>3, <3>6
  <2> QED BY <2>6, <2>7
<1>6. n \in good
  <2> HIDE DEF good
  <2>1. \A i \in 0 .. n : i \in good
    BY <1>1, <1>4, <1>5, Counting
  <2> QED BY <1>1, <2>1
<1>7. n \in 0 .. n /\ size(n) = n - 1
  BY <1>1
<1>8. Len(f[n]) = size(n) /\ \A k \in 1 .. size(n) : f[n][k] = IF k < m THEN s[k] ELSE s[k + 1]
  BY <1>1, <1>6
<1> HIDE DEF size
<1>9. f[n] \in Seq(T) /\ Len(f[n]) = n - 1 /\ \A k \in 1 .. n - 1 : f[n][k] = IF k < m THEN s[k] ELSE s[k + 1]
  BY <1>3, <1>7, <1>8
<1> QED BY <1>9 DEF Filtered, f, n

\* Inserting at place n.
LEMMA InsertedAt ==
  ASSUME NEW T, NEW s \in Seq(T), NEW x \in T, NEW n \in 1 .. Len(s) + 1
  PROVE  /\ InsertAt(s, n, x) \in Seq(T)
         /\ Len(InsertAt(s, n, x)) = Len(s) + 1
         /\ \A k \in 1 .. Len(s) + 1 :
              InsertAt(s, n, x)[k] = IF k < n THEN s[k] ELSE IF k = n THEN x ELSE s[k - 1]
<1> DEFINE l == Len(s)
           a == SubSeq(s, 1, n - 1)
           b == SubSeq(s, n, l)
           c == a \o <<x>>
<1>1. l \in Nat /\ n \in Nat /\ 1 <= n /\ n <= l + 1 /\ \A i \in 1 .. l : s[i] \in T
  BY LenProperties
<1> HIDE DEF l
<1>2. a \in Seq(T) /\ Len(a) = n - 1 /\ \A k \in 1 .. n - 1 : a[k] = s[k]
  <2>1. n - 1 \in Int /\ \A i \in 1 .. n - 1 : s[i] \in T
    BY <1>1
  <2>2. /\ a \in Seq(T)
        /\ Len(a) = IF 1 <= n - 1 THEN (n - 1) - 1 + 1 ELSE 0
        /\ \A k \in 1 .. (n - 1) - 1 + 1 : a[k] = s[1 + k - 1]
    BY <2>1, SubSeqProperties
  <2> HIDE DEF a
  <2>3. Len(a) = n - 1
    BY <1>1, <2>2
  <2>4. ASSUME NEW k \in 1 .. n - 1 PROVE a[k] = s[k]
    <3>1. k \in 1 .. (n - 1) - 1 + 1 /\ 1 + k - 1 = k
      BY <1>1
    <3> QED BY <2>2, <3>1
  <2> QED BY <2>2, <2>3, <2>4
<1>3. b \in Seq(T) /\ Len(b) = l + 1 - n /\ \A k \in 1 .. l + 1 - n : b[k] = s[n + k - 1]
  <2>1. n \in Int /\ l \in Int /\ \A i \in n .. l : s[i] \in T
    BY <1>1
  <2>2. /\ b \in Seq(T)
        /\ Len(b) = IF n <= l THEN l - n + 1 ELSE 0
        /\ \A k \in 1 .. l - n + 1 : b[k] = s[n + k - 1]
    BY <2>1, SubSeqProperties
  <2> HIDE DEF b
  <2> QED BY <1>1, <2>2
<1> HIDE DEF a, b
<1>4. <<x>> \in Seq(T) /\ Len(<<x>>) = 1 /\ <<x>>[1] = x
  OBVIOUS
<1>5. /\ c \in Seq(T) /\ Len(c) = n
      /\ \A k \in 1 .. n : c[k] = IF k < n THEN s[k] ELSE x
  <2> DEFINE o == <<x>>
  <2> HIDE DEF o
  <2>1. /\ c \in Seq(T) /\ Len(c) = (n - 1) + 1
        /\ \A k \in 1 .. (n - 1) + 1 : c[k] = IF k <= n - 1 THEN a[k] ELSE o[k - (n - 1)]
    <3>1. /\ a \o o \in Seq(T) /\ Len(a \o o) = Len(a) + Len(o)
          /\ \A k \in 1 .. Len(a) + Len(o) : (a \o o)[k] = IF k <= Len(a) THEN a[k] ELSE o[k - Len(a)]
      BY <1>2, <1>4, ConcatProperties DEF o
    <3>2. Len(a) = n - 1 /\ Len(o) = 1
      BY <1>2, <1>4 DEF o
    <3> QED BY <3>1, <3>2 DEF o
  <2> HIDE DEF c
  <2>2. Len(c) = n
    BY <1>1, <2>1
  <2>3. ASSUME NEW k \in 1 .. n PROVE c[k] = IF k < n THEN s[k] ELSE x
    <3>1. k \in 1 .. (n - 1) + 1
      BY <1>1
    <3>2. CASE k < n
      <4>1. k <= n - 1 /\ k \in 1 .. n - 1
        BY <1>1, <3>2
      <4> QED BY <1>2, <2>1, <3>1, <3>2, <4>1
    <3>3. CASE k = n
      <4>1. ~(k <= n - 1) /\ k - (n - 1) = 1 /\ ~(k < n)
        BY <1>1, <3>3
      <4> QED BY <1>4, <2>1, <3>1, <4>1 DEF o
    <3> QED BY <1>1, <3>2, <3>3
  <2> QED BY <2>1, <2>2, <2>3
<1> HIDE DEF c
<1> DEFINE r == c \o b
<1>6. /\ r \in Seq(T) /\ Len(r) = n + (l + 1 - n)
      /\ \A k \in 1 .. n + (l + 1 - n) : r[k] = IF k <= n THEN c[k] ELSE b[k - n]
  <2>1. /\ c \o b \in Seq(T) /\ Len(c \o b) = Len(c) + Len(b)
        /\ \A k \in 1 .. Len(c) + Len(b) : (c \o b)[k] = IF k <= Len(c) THEN c[k] ELSE b[k - Len(c)]
    BY <1>3, <1>5, ConcatProperties
  <2> QED BY <1>3, <1>5, <2>1
<1>7. InsertAt(s, n, x) = r
  BY DEF InsertAt, a, b, c, l
<1> HIDE DEF r
<1>8. n + (l + 1 - n) = l + 1
  BY <1>1
<1>9. ASSUME NEW k \in 1 .. l + 1 PROVE r[k] = IF k < n THEN s[k] ELSE IF k = n THEN x ELSE s[k - 1]
  <2>1. CASE k <= n
    <3>1. k \in 1 .. n
      BY <1>1, <2>1
    <3>2. r[k] = c[k]
      BY <1>6, <1>8, <2>1
    <3> QED BY <1>1, <1>5, <3>1, <3>2
  <2>2. CASE n < k
    <3>1. k - n \in 1 .. l + 1 - n /\ n + (k - n) - 1 = k - 1 /\ ~(k <= n) /\ ~(k < n) /\ k # n
      BY <1>1, <2>2
    <3>2. r[k] = b[k - n]
      BY <1>6, <1>8, <3>1
    <3> QED BY <1>3, <3>1, <3>2
  <2> QED BY <1>1, <2>1, <2>2
<1> QED BY <1>6, <1>7, <1>8, <1>9 DEF l

\* r is s without its m-th entry; r is s with x before the n-th.
Dropped(r, s, m) ==
  /\ Len(r) = Len(s) - 1
  /\ \A k \in Nat : At(r, k) = IF k < m THEN At(s, k) ELSE At(s, k + 1)
Added(r, s, n, x) ==
  /\ Len(r) = Len(s) + 1
  /\ \A k \in Nat : At(r, k) = IF k < n THEN At(s, k) ELSE IF k = n THEN x ELSE At(s, k - 1)

LEMMA FilteredIsDropped ==
  ASSUME NEW T, NEW s \in Seq(T), NEW keep, NEW m \in 1 .. Len(s),
         \A k \in 1 .. Len(s) : s[k] \in keep <=> k # m
  PROVE  Filtered(s, keep) \in Seq(T) /\ Dropped(Filtered(s, keep), s, m)
<1> DEFINE r == Filtered(s, keep)
<1>1. Len(s) \in Nat
  BY LenProperties
<1>2. /\ r \in Seq(T) /\ Len(r) = Len(s) - 1
      /\ \A k \in 1 .. Len(s) - 1 : r[k] = IF k < m THEN s[k] ELSE s[k + 1]
  BY FilterDropsOne
<1> HIDE DEF r
<1>3. ASSUME NEW k \in Nat PROVE At(r, k) = IF k < m THEN At(s, k) ELSE At(s, k + 1)
  <2>1. CASE k \in 1 .. Len(s) - 1
    BY <1>1, <1>2, <2>1 DEF At
  <2>2. CASE k \notin 1 .. Len(s) - 1
    BY <1>1, <1>2, <2>2 DEF At
  <2> QED BY <2>1, <2>2
<1> QED BY <1>2, <1>3 DEF Dropped, r

LEMMA InsertedIsAdded ==
  ASSUME NEW T, NEW s \in Seq(T), NEW x \in T, NEW n \in 1 .. Len(s) + 1
  PROVE  InsertAt(s, n, x) \in Seq(T) /\ Added(InsertAt(s, n, x), s, n, x)
<1>0. /\ InsertAt(s, n, x) \in Seq(T)
      /\ Len(InsertAt(s, n, x)) = Len(s) + 1
      /\ \A k \in 1 .. Len(s) + 1 :
           InsertAt(s, n, x)[k] = IF k < n THEN s[k] ELSE IF k = n THEN x ELSE s[k - 1]
  BY InsertedAt
<1> DEFINE r == InsertAt(s, n, x)
<1>1. Len(s) \in Nat
  BY LenProperties
<1>2. /\ r \in Seq(T) /\ Len(r) = Len(s) + 1
      /\ \A k \in 1 .. Len(s) + 1 : r[k] = IF k < n THEN s[k] ELSE IF k = n THEN x ELSE s[k - 1]
  BY <1>0
<1> HIDE DEF r
<1>3. ASSUME NEW k \in Nat
      PROVE  At(r, k) = IF k < n THEN At(s, k) ELSE IF k = n THEN x ELSE At(s, k - 1)
  <2>1. CASE k \in 1 .. Len(s) + 1
    BY <1>1, <1>2, <2>1 DEF At
  <2>2. CASE k \notin 1 .. Len(s) + 1
    BY <1>1, <1>2, <2>2 DEF At
  <2> QED BY <2>1, <2>2
<1> QED BY <1>2, <1>3 DEF Added, r

-----------------------------------------------------------------------------
(***************************************************************************)
(* The links of t enumerate the children of h as s: forwards, backwards    *)
(* and all of them.                                                        *)
(***************************************************************************)
ListOf(t, h, s) ==
  /\ s \in Seq(Handles)
  /\ \A j, k \in 1 .. Len(s) : Index(s[j]) = Index(s[k]) => j = k
  /\ \A k \in 1 .. Len(s) :
       /\ t.parent[Index(s[k])] = h
       /\ t.next[Index(s[k])] = At(s, k + 1)
       /\ t.prev[Index(s[k])] = At(s, k - 1)
  /\ \A i \in Slots : t.parent[i] = h => \E k \in 1 .. Len(s) : Index(s[k]) = i
  /\ t.first[Index(h)] = At(s, 1)
  /\ t.last[Index(h)] = At(s, Len(s))

\* Entries of a list, and what is no entry.
LEMMA AtList ==
  ASSUME NEW s \in Seq(Handles)
  PROVE  /\ Len(s) \in Nat
         /\ \A k \in 1 .. Len(s) : /\ At(s, k) = s[k] /\ s[k] \in Handles /\ s[k] # Null
                                    /\ Index(s[k]) \in Slots
         /\ \A k : k \notin 1 .. Len(s) => At(s, k) = Null
<1>1. Len(s) \in Nat /\ \A k \in 1 .. Len(s) : s[k] \in Handles
  BY LenProperties
<1> QED BY <1>1, HandlePair, NullOutside DEF At

\* unlink_child takes child c out of the list of its parent.
LEMMA UnlinkList ==
  ASSUME NEW t \in Columns, NEW p \in Handles, NEW c \in Handles, NEW u,
         Unlinked(t, u, Index(p), Index(c)),
         NEW s, ListOf(t, p, s), NEW m \in 1 .. Len(s), s[m] = c,
         NEW r \in Seq(Handles), Dropped(r, s, m)
  PROVE  ListOf(u, p, r)
<1> DEFINE n == Len(s)
           i == Index(p)
           j == Index(c)
<1>1. /\ s \in Seq(Handles) /\ n \in Nat /\ m \in Nat /\ 1 <= m /\ m <= n
      /\ i \in Slots /\ j \in Slots
  BY AtList, HandlePair DEF ListOf
<1>2. /\ \A k \in 1 .. n : At(s, k) = s[k] /\ s[k] # Null /\ Index(s[k]) \in Slots
      /\ \A k : k \notin 1 .. n => At(s, k) = Null
  BY <1>1, AtList
<1>3. /\ Len(r) = n - 1
      /\ \A k \in 1 .. n - 1 : At(r, k) = r[k]
      /\ \A k : k \notin 1 .. n - 1 => At(r, k) = Null
      /\ \A k \in Nat : At(r, k) = IF k < m THEN At(s, k) ELSE At(s, k + 1)
  BY AtList DEF Dropped
<1>4. /\ \A a, b \in 1 .. n : Index(s[a]) = Index(s[b]) => a = b
      /\ \A k \in 1 .. n : /\ t.parent[Index(s[k])] = p
                           /\ t.next[Index(s[k])] = At(s, k + 1)
                           /\ t.prev[Index(s[k])] = At(s, k - 1)
      /\ t.first[i] = At(s, 1) /\ t.last[i] = At(s, n)
      /\ t.next[j] = At(s, m + 1) /\ t.prev[j] = At(s, m - 1)
  BY DEF ListOf
<1>5. \A a \in Slots : t.parent[a] = p => \E k \in 1 .. n : Index(s[k]) = a
  BY DEF ListOf
<1> HIDE DEF n, i, j
<1>6. \A k \in 1 .. n - 1 :
        /\ k < m => k \in 1 .. n /\ r[k] = s[k]
        /\ ~(k < m) => k + 1 \in 1 .. n /\ r[k] = s[k + 1]
  <2> SUFFICES ASSUME NEW k \in 1 .. n - 1
               PROVE  /\ k < m => k \in 1 .. n /\ r[k] = s[k]
                      /\ ~(k < m) => k + 1 \in 1 .. n /\ r[k] = s[k + 1]
    OBVIOUS
  <2>1. k \in Nat /\ k \in 1 .. n /\ k + 1 \in 1 .. n
    BY <1>1
  <2>2. r[k] = IF k < m THEN At(s, k) ELSE At(s, k + 1)
    BY <1>3, <2>1
  <2> QED BY <1>2, <2>1, <2>2
<1>7. /\ \A a \in Slots : u.parent[a] = IF a = j THEN Null ELSE t.parent[a]
      /\ u.first[i] = IF At(s, m - 1) = Null THEN At(s, m + 1) ELSE t.first[i]
      /\ u.last[i] = IF At(s, m + 1) = Null THEN At(s, m - 1) ELSE t.last[i]
      /\ \A a \in Slots : u.next[a] = IF a = j THEN Null ELSE IF a = Index(At(s, m - 1)) THEN At(s, m + 1) ELSE t.next[a]
      /\ \A a \in Slots : u.prev[a] = IF a = j THEN Null ELSE IF a = Index(At(s, m + 1)) THEN At(s, m - 1) ELSE t.prev[a]
  BY <1>1, <1>4 DEF Unlinked, i, j
<1>8. \A k \in 1 .. n : Index(s[k]) = j <=> k = m
  <2>1. m \in 1 .. n /\ Index(s[m]) = j
    BY <1>1 DEF j
  <2> QED BY <1>4, <2>1
\* the neighbours of c
<1>9. \A k \in 1 .. n :
        /\ Index(s[k]) = Index(At(s, m - 1)) <=> k = m - 1
        /\ Index(s[k]) = Index(At(s, m + 1)) <=> k = m + 1
  <2> SUFFICES ASSUME NEW k \in 1 .. n, NEW l \in {m - 1, m + 1}
               PROVE  Index(s[k]) = Index(At(s, l)) <=> k = l
    OBVIOUS
  <2>1. CASE l \in 1 .. n
    BY <1>2, <1>4, <2>1
  <2>2. CASE l \notin 1 .. n
    BY <1>2, <2>2, NullOutside
  <2> QED BY <2>1, <2>2
<1>10. ASSUME NEW a \in 1 .. n - 1, NEW b \in 1 .. n - 1, Index(r[a]) = Index(r[b]) PROVE a = b
  <2> DEFINE d == IF a < m THEN a ELSE a + 1
             e == IF b < m THEN b ELSE b + 1
  <2>1. d \in 1 .. n /\ e \in 1 .. n /\ r[a] = s[d] /\ r[b] = s[e]
    BY <1>6
  <2>2. d = e
    <3> HIDE DEF d, e
    <3> QED BY <1>4, <1>10, <2>1
  <2> QED BY <1>1, <2>2
<1>11. ASSUME NEW k \in 1 .. n - 1
       PROVE  /\ u.parent[Index(r[k])] = p
              /\ u.next[Index(r[k])] = At(r, k + 1)
              /\ u.prev[Index(r[k])] = At(r, k - 1)
  <2>0. k \in Nat /\ k + 1 \in Nat /\ k - 1 \in Nat /\ k - 1 + 1 = k
    OBVIOUS
  <2>1. CASE k < m
    <3>1. r[k] = s[k] /\ k \in 1 .. n /\ k # m /\ k # m + 1
      BY <1>1, <1>6, <2>1
    <3>2. At(r, k - 1) = At(s, k - 1)
      BY <1>1, <1>3, <2>0, <2>1
    <3>3. At(r, k + 1) = IF k = m - 1 THEN At(s, m + 1) ELSE At(s, k + 1)
      <4>1. CASE k = m - 1
        <5>1. ~(k + 1 < m) /\ k + 1 + 1 = m + 1
          BY <1>1, <4>1
        <5> QED BY <1>3, <2>0, <4>1, <5>1
      <4>2. CASE k # m - 1
        <5>1. k + 1 < m
          BY <1>1, <2>0, <2>1, <4>2
        <5> QED BY <1>3, <2>0, <4>2, <5>1
      <4> QED BY <4>1, <4>2
    <3>4. Index(s[k]) \in Slots /\ Index(s[k]) # j
      BY <1>2, <1>8, <3>1
    <3>5. u.parent[Index(s[k])] = p
      BY <1>4, <1>7, <3>1, <3>4
    <3>6. u.next[Index(s[k])] = IF k = m - 1 THEN At(s, m + 1) ELSE At(s, k + 1)
      BY <1>4, <1>7, <1>9, <3>1, <3>4
    <3>7. u.prev[Index(s[k])] = At(s, k - 1)
      BY <1>4, <1>7, <1>9, <3>1, <3>4
    <3> QED BY <3>1, <3>2, <3>3, <3>5, <3>6, <3>7
  <2>2. CASE ~(k < m)
    <3> DEFINE q == k + 1
    <3>1. r[k] = s[q] /\ q \in 1 .. n /\ q # m /\ q # m - 1 /\ q \in Nat
      BY <1>1, <1>6, <2>2
    <3>2. At(r, k + 1) = At(s, q + 1)
      BY <1>1, <1>3, <2>0, <2>2
    <3>3. At(r, k - 1) = IF q = m + 1 THEN At(s, m - 1) ELSE At(s, q - 1)
      <4>1. CASE k = m
        <5>1. k - 1 < m /\ k - 1 = m - 1 /\ q = m + 1
          BY <1>1, <4>1
        <5> QED BY <1>3, <2>0, <5>1
      <4>2. CASE k # m
        <5>1. ~(k - 1 < m) /\ q - 1 = k - 1 + 1 /\ q # m + 1
          BY <1>1, <2>0, <2>2, <4>2
        <5> QED BY <1>3, <2>0, <5>1
      <4> QED BY <4>1, <4>2
    <3> HIDE DEF q
    <3>4. Index(s[q]) \in Slots /\ Index(s[q]) # j
      BY <1>2, <1>8, <3>1
    <3>5. u.parent[Index(s[q])] = p
      BY <1>4, <1>7, <3>1, <3>4
    <3>6. u.next[Index(s[q])] = At(s, q + 1)
      BY <1>4, <1>7, <1>9, <3>1, <3>4
    <3>7. u.prev[Index(s[q])] = IF q = m + 1 THEN At(s, m - 1) ELSE At(s, q - 1)
      BY <1>4, <1>7, <1>9, <3>1, <3>4
    <3> QED BY <3>1, <3>2, <3>3, <3>5, <3>6, <3>7
  <2> QED BY <2>1, <2>2
<1>12. ASSUME NEW a \in Slots, u.parent[a] = p PROVE \E k \in 1 .. n - 1 : Index(r[k]) = a
  <2>1. a # j /\ t.parent[a] = p
    BY <1>7, <1>12, NullOutside
  <2>2. PICK q \in 1 .. n : Index(s[q]) = a
    BY <1>5, <2>1
  <2>3. q # m
    BY <1>8, <2>1, <2>2
  <2>4. CASE q < m
    <3>1. q \in 1 .. n - 1
      BY <1>1, <2>4
    <3>2. Index(r[q]) = a
      BY <1>6, <2>2, <2>4, <3>1
    <3> QED BY <3>1, <3>2
  <2>5. CASE m < q
    <3> DEFINE k == q - 1
    <3>1. k \in 1 .. n - 1 /\ ~(k < m) /\ k + 1 = q
      BY <1>1, <2>5
    <3>2. Index(r[k]) = a
      BY <1>6, <2>2, <3>1
    <3> QED BY <3>1, <3>2
  <2> QED BY <1>1, <2>3, <2>4, <2>5
<1>13. u.first[i] = At(r, 1)
  <2>1. At(s, m - 1) = Null <=> m = 1
    BY <1>1, <1>2
  <2>2. At(r, 1) = IF 1 < m THEN At(s, 1) ELSE At(s, 2)
    BY <1>3
  <2> QED BY <1>1, <1>4, <1>7, <2>1, <2>2
<1>14. u.last[i] = At(r, n - 1)
  <2>1. At(s, m + 1) = Null <=> m = n
    BY <1>1, <1>2
  <2>2. n - 1 \in Nat /\ n - 1 + 1 = n /\ (n - 1 < m <=> m = n)
    BY <1>1
  <2>3. At(r, n - 1) = IF n - 1 < m THEN At(s, n - 1) ELSE At(s, n - 1 + 1)
    BY <1>3, <2>2
  <2> QED BY <1>1, <1>4, <1>7, <2>1, <2>2, <2>3
<1> QED BY <1>3, <1>10, <1>11, <1>12, <1>13, <1>14 DEF ListOf, i

\* The slot of an entry tells its place, also of the places next to a list.
LEMMA PlaceOfSlot ==
  ASSUME NEW t, NEW h, NEW s, ListOf(t, h, s), NEW l \in Int, NEW k \in 1 .. Len(s)
  PROVE  Index(s[k]) = Index(At(s, l)) <=> k = l
<1>1. s \in Seq(Handles)
  BY DEF ListOf
<1>2. Index(s[k]) \in Slots
  BY <1>1, AtList
<1>3. CASE l \in 1 .. Len(s)
  <2>1. At(s, l) = s[l]
    BY <1>3 DEF At
  <2> QED BY <1>3, <2>1 DEF ListOf
<1>4. CASE l \notin 1 .. Len(s)
  <2>1. At(s, l) = Null
    BY <1>4 DEF At
  <2> QED BY <1>2, <1>4, <2>1, NullOutside
<1> QED BY <1>3, <1>4

\* What is next to a child is no child of another node.
LEMMA ListsApart ==
  ASSUME NEW t, NEW p \in Handles, NEW s, ListOf(t, p, s), NEW l \in Int,
         NEW h \in Handles, Index(h) # Index(p), NEW r, ListOf(t, h, r), NEW k \in 1 .. Len(r)
  PROVE  Index(r[k]) \in Slots /\ Index(r[k]) # Index(At(s, l))
<1>1. s \in Seq(Handles) /\ r \in Seq(Handles)
  BY DEF ListOf
<1>2. Index(r[k]) \in Slots /\ t.parent[Index(r[k])] = h
  BY <1>1, AtList DEF ListOf
<1>3. CASE l \in 1 .. Len(s)
  <2>1. At(s, l) = s[l] /\ t.parent[Index(s[l])] = p
    BY <1>3 DEF At, ListOf
  <2> QED BY <1>2, <2>1
<1>4. CASE l \notin 1 .. Len(s)
  <2>1. At(s, l) = Null
    BY <1>4 DEF At
  <2> QED BY <1>2, <2>1, NullOutside
<1> QED BY <1>2, <1>3, <1>4

\* unlink_child leaves the other lists alone.
LEMMA UnlinkOther ==
  ASSUME NEW t \in Columns, NEW p \in Handles, NEW c \in Handles, NEW u,
         Unlinked(t, u, Index(p), Index(c)),
         NEW s, ListOf(t, p, s), NEW m \in 1 .. Len(s), s[m] = c,
         NEW h \in Handles, Index(h) # Index(p), NEW r, ListOf(t, h, r)
  PROVE  ListOf(u, h, r)
<1> DEFINE j == Index(c)
<1>1. /\ r \in Seq(Handles) /\ s \in Seq(Handles) /\ Index(h) \in Slots /\ j \in Slots
      /\ m \in Int /\ m - 1 \in Int /\ m + 1 \in Int
  BY AtList, HandlePair DEF ListOf
<1>2. At(s, m) = c /\ t.next[j] = At(s, m + 1) /\ t.prev[j] = At(s, m - 1)
  BY DEF ListOf, At
<1>3. \A k \in 1 .. Len(r) :
        /\ Index(r[k]) \in Slots /\ Index(r[k]) # j
        /\ Index(r[k]) # Index(t.next[j]) /\ Index(r[k]) # Index(t.prev[j])
  BY <1>1, <1>2, ListsApart
<1>4. \A k \in 1 .. Len(r) :
        /\ u.parent[Index(r[k])] = t.parent[Index(r[k])]
        /\ u.next[Index(r[k])] = t.next[Index(r[k])]
        /\ u.prev[Index(r[k])] = t.prev[Index(r[k])]
  BY <1>3 DEF Unlinked
<1>5. \A i \in Slots : u.parent[i] = h => t.parent[i] = h
  BY NullOutside DEF Unlinked
<1>6. u.first[Index(h)] = t.first[Index(h)] /\ u.last[Index(h)] = t.last[Index(h)]
  BY <1>1 DEF Unlinked
<1> QED BY <1>4, <1>5, <1>6 DEF ListOf

\* link_before puts c before the n-th child of p.
LEMMA LinkList ==
  ASSUME NEW t \in Columns, NEW p \in Handles, NEW c \in Handles, NEW left, NEW b, NEW u,
         Linked(t, u, p, c, left, b), t.parent[Index(c)] = Null,
         NEW s, ListOf(t, p, s), NEW n \in 1 .. Len(s) + 1, b = At(s, n), left = At(s, n - 1),
         NEW r \in Seq(Handles), Added(r, s, n, c)
  PROVE  ListOf(u, p, r)
<1> DEFINE l == Len(s)
           i == Index(p)
           j == Index(c)
<1>1. /\ s \in Seq(Handles) /\ l \in Nat /\ n \in Nat /\ 1 <= n /\ n <= l + 1
      /\ i \in Slots /\ j \in Slots
  BY AtList, HandlePair DEF ListOf
<1>2. /\ \A k \in 1 .. l : At(s, k) = s[k] /\ s[k] # Null /\ Index(s[k]) \in Slots
      /\ \A k : k \notin 1 .. l => At(s, k) = Null
  BY <1>1, AtList
<1>3. /\ Len(r) = l + 1
      /\ \A k \in 1 .. l + 1 : At(r, k) = r[k]
      /\ \A k \in Nat : At(r, k) = IF k < n THEN At(s, k) ELSE IF k = n THEN c ELSE At(s, k - 1)
  BY AtList DEF Added
<1>4. /\ \A k \in 1 .. l : /\ t.parent[Index(s[k])] = p
                           /\ t.next[Index(s[k])] = At(s, k + 1)
                           /\ t.prev[Index(s[k])] = At(s, k - 1)
                          /\ Index(s[k]) # j
      /\ t.first[i] = At(s, 1) /\ t.last[i] = At(s, l)
  BY NullOutside DEF ListOf
<1>5. /\ \A a \in Slots : t.parent[a] = p => \E k \in 1 .. l : Index(s[k]) = a
      /\ \A d, e \in 1 .. l : Index(s[d]) = Index(s[e]) => d = e
  BY DEF ListOf
<1>6. \A k \in 1 .. l :
        /\ Index(s[k]) = Index(left) <=> k = n - 1
        /\ Index(s[k]) = Index(b) <=> k = n
  <2>1. n \in Int /\ n - 1 \in Int
    BY <1>1
  <2> QED BY <2>1, PlaceOfSlot
<1>7. /\ \A a \in Slots : u.parent[a] = IF a = j THEN p ELSE t.parent[a]
      /\ u.first[i] = IF left = Null THEN c ELSE t.first[i]
      /\ u.last[i] = IF b = Null THEN c ELSE t.last[i]
      /\ \A a \in Slots : u.next[a] = IF a = j THEN b ELSE IF a = Index(left) THEN c ELSE t.next[a]
      /\ \A a \in Slots : u.prev[a] = IF a = j THEN left ELSE IF a = Index(b) THEN c ELSE t.prev[a]
  BY <1>1 DEF Linked
<1> HIDE DEF l, i
<1>8. \A k \in 1 .. l + 1 :
        /\ k < n => k \in 1 .. l /\ r[k] = s[k]
        /\ k = n => r[k] = c
        /\ n < k => k - 1 \in 1 .. l /\ r[k] = s[k - 1]
  <2> SUFFICES ASSUME NEW k \in 1 .. l + 1
               PROVE  /\ k < n => k \in 1 .. l /\ r[k] = s[k]
                      /\ k = n => r[k] = c
                      /\ n < k => k - 1 \in 1 .. l /\ r[k] = s[k - 1]
    OBVIOUS
  <2>1. /\ k \in Nat /\ (k < n => k \in 1 .. l)
        /\ n < k => k - 1 \in 1 .. l /\ ~(k < n) /\ k # n
        /\ k = n => ~(k < n)
    BY <1>1
  <2>2. r[k] = IF k < n THEN At(s, k) ELSE IF k = n THEN c ELSE At(s, k - 1)
    BY <1>3, <2>1
  <2> QED BY <1>2, <2>1, <2>2
\* the links of the children that were there
<1>14. ASSUME NEW k \in 1 .. l
       PROVE  /\ u.next[Index(s[k])] = IF k = n - 1 THEN c ELSE At(s, k + 1)
              /\ u.prev[Index(s[k])] = IF k = n THEN c ELSE At(s, k - 1)
  <2> DEFINE a == Index(s[k])
  <2>1. /\ a \in Slots /\ a # j
        /\ t.next[a] = At(s, k + 1) /\ t.prev[a] = At(s, k - 1)
    BY <1>2, <1>4
  <2>2. (a = Index(left) <=> k = n - 1) /\ (a = Index(b) <=> k = n)
    BY <1>6
  <2>3. /\ u.next[a] = IF a = j THEN b ELSE IF a = Index(left) THEN c ELSE t.next[a]
        /\ u.prev[a] = IF a = j THEN left ELSE IF a = Index(b) THEN c ELSE t.prev[a]
    BY <1>7, <2>1
  <2> HIDE DEF a, j
  <2>4. u.next[a] = IF k = n - 1 THEN c ELSE At(s, k + 1)
    BY <2>1, <2>2, <2>3
  <2>5. u.prev[a] = IF k = n THEN c ELSE At(s, k - 1)
    BY <2>1, <2>2, <2>3
  <2> QED BY <2>4, <2>5 DEF a
<1>9. ASSUME NEW x \in 1 .. l + 1, NEW y \in 1 .. l + 1, Index(r[x]) = Index(r[y]) PROVE x = y
  <2> DEFINE d == IF x < n THEN x ELSE x - 1
             e == IF y < n THEN y ELSE y - 1
  <2>0. ASSUME NEW z \in 1 .. l + 1, z # n
        PROVE  LET f == IF z < n THEN z ELSE z - 1 IN f \in 1 .. l /\ r[z] = s[f]
    <3>1. CASE z < n
      BY <1>8, <3>1
    <3>2. CASE n < z /\ ~(z < n)
      BY <1>8, <3>2
    <3> QED BY <1>1, <2>0, <3>1, <3>2
  <2>1. /\ x # n => d \in 1 .. l /\ r[x] = s[d]
        /\ y # n => e \in 1 .. l /\ r[y] = s[e]
    BY <2>0
  <2>2. CASE x = n \/ y = n
    <3> HIDE DEF d, e
    <3> QED BY <1>4, <1>8, <1>9, <2>1, <2>2 DEF j
  <2>3. CASE x # n /\ y # n
    <3>1. d = e
      <4> HIDE DEF d, e
      <4> QED BY <1>5, <1>9, <2>1, <2>3
    <3> QED BY <1>1, <2>3, <3>1
  <2> QED BY <2>2, <2>3
<1>10. ASSUME NEW k \in 1 .. l + 1
       PROVE  /\ u.parent[Index(r[k])] = p
              /\ u.next[Index(r[k])] = At(r, k + 1)
              /\ u.prev[Index(r[k])] = At(r, k - 1)
  <2>0. k \in Nat /\ k + 1 \in Nat /\ k - 1 \in Nat /\ k + 1 - 1 = k
    BY <1>1
  <2>1. CASE k < n
    <3>1. r[k] = s[k] /\ k \in 1 .. l /\ k # n
      BY <1>1, <1>8, <2>1
    <3>2. At(r, k - 1) = At(s, k - 1)
      BY <1>1, <1>3, <2>0, <2>1
    <3>3. At(r, k + 1) = IF k = n - 1 THEN c ELSE At(s, k + 1)
      <4>1. CASE k = n - 1
        <5>1. ~(k + 1 < n) /\ k + 1 = n
          BY <1>1, <4>1
        <5> QED BY <1>3, <2>0, <4>1, <5>1
      <4>2. CASE k # n - 1
        <5>1. k + 1 < n
          BY <1>1, <2>0, <2>1, <4>2
        <5> QED BY <1>3, <2>0, <4>2, <5>1
      <4> QED BY <4>1, <4>2
    <3>4. Index(s[k]) \in Slots /\ Index(s[k]) # j
      BY <1>2, <1>4, <3>1
    <3>5. u.parent[Index(s[k])] = p
      BY <1>4, <1>7, <3>1, <3>4
    <3>6. u.next[Index(s[k])] = IF k = n - 1 THEN c ELSE At(s, k + 1)
      BY <1>14, <3>1
    <3>7. u.prev[Index(s[k])] = At(s, k - 1)
      BY <1>14, <3>1
    <3> QED BY <3>1, <3>2, <3>3, <3>5, <3>6, <3>7
  <2>2. CASE k = n
    <3>1. r[k] = c
      BY <1>8, <2>2
    <3>2. ~(k + 1 < n) /\ k + 1 # n /\ k - 1 < n
      BY <1>1, <2>2
    <3>3. At(r, k + 1) = At(s, n)
      BY <1>3, <2>0, <2>2, <3>2
    <3>4. At(r, k - 1) = At(s, n - 1)
      BY <1>3, <2>0, <2>2, <3>2
    <3> QED BY <1>1, <1>7, <3>1, <3>3, <3>4 DEF j
  <2>3. CASE n < k
    <3> DEFINE q == k - 1
    <3>1. r[k] = s[q] /\ q \in 1 .. l /\ q # n - 1 /\ q \in Nat /\ q + 1 = k
      BY <1>1, <1>8, <2>3
    <3>2. At(r, k + 1) = At(s, q + 1)
      <4>1. ~(k + 1 < n) /\ k + 1 # n
        BY <1>1, <2>0, <2>3
      <4> QED BY <1>3, <2>0, <3>1, <4>1
    <3>3. At(r, k - 1) = IF q = n THEN c ELSE At(s, q - 1)
      <4>1. ~(q < n)
        BY <1>1, <2>3
      <4> QED BY <1>3, <2>0, <4>1
    <3> HIDE DEF q
    <3>4. Index(s[q]) \in Slots /\ Index(s[q]) # j
      BY <1>2, <1>4, <3>1
    <3>5. u.parent[Index(s[q])] = p
      BY <1>4, <1>7, <3>1, <3>4
    <3>6. u.next[Index(s[q])] = At(s, q + 1)
      BY <1>14, <3>1
    <3>7. u.prev[Index(s[q])] = IF q = n THEN c ELSE At(s, q - 1)
      BY <1>14, <3>1
    <3> QED BY <3>1, <3>2, <3>3, <3>5, <3>6, <3>7
  <2> QED BY <1>1, <2>0, <2>1, <2>2, <2>3
<1>11. ASSUME NEW a \in Slots, u.parent[a] = p PROVE \E k \in 1 .. l + 1 : Index(r[k]) = a
  <2>1. CASE a = j
    <3>1. n \in 1 .. l + 1 /\ r[n] = c
      BY <1>1, <1>8
    <3> QED BY <2>1, <3>1 DEF j
  <2>2. CASE a # j
    <3>1. t.parent[a] = p
      BY <1>7, <1>11, <2>2
    <3>2. PICK q \in 1 .. l : Index(s[q]) = a
      BY <1>5, <3>1
    <3> DEFINE k == IF q < n THEN q ELSE q + 1
    <3>3. k \in 1 .. l + 1 /\ k # n /\ (k < n => q = k) /\ (n < k => q = k - 1)
      BY <1>1
    <3>4. r[k] = s[q]
      <4> HIDE DEF k
      <4>1. k < n \/ n < k
        BY <1>1, <3>3
      <4> QED BY <1>8, <3>3, <4>1
    <3> QED BY <3>2, <3>3, <3>4
  <2> QED BY <2>1, <2>2
<1>12. u.first[i] = At(r, 1)
  <2>1. left = Null <=> n = 1
    BY <1>1, <1>2
  <2>2. At(r, 1) = IF 1 < n THEN At(s, 1) ELSE IF 1 = n THEN c ELSE At(s, 0)
    BY <1>3
  <2> QED BY <1>1, <1>4, <1>7, <2>1, <2>2
<1>13. u.last[i] = At(r, l + 1)
  <2>1. b = Null <=> n = l + 1
    BY <1>1, <1>2
  <2>2. l + 1 \in Nat /\ l + 1 - 1 = l /\ ~(l + 1 < n)
    BY <1>1
  <2>3. At(r, l + 1) = IF l + 1 = n THEN c ELSE At(s, l)
    <3> DEFINE k == l + 1
    <3>1. At(r, k) = IF k < n THEN At(s, k) ELSE IF k = n THEN c ELSE At(s, k - 1)
      <4> HIDE DEF k
      <4>1. k \in Nat
        BY <2>2 DEF k
      <4> QED BY <1>3, <4>1
    <3>2. k - 1 = l /\ ~(k < n)
      BY <1>1, <2>2
    <3> QED BY <3>1, <3>2
  <2> QED BY <1>4, <1>7, <2>1, <2>3
<1> QED BY <1>3, <1>9, <1>10, <1>11, <1>12, <1>13 DEF ListOf, i

\* link_before leaves the other lists alone.
LEMMA LinkOther ==
  ASSUME NEW t \in Columns, NEW p \in Handles, NEW c \in Handles, NEW left, NEW b, NEW u,
         Linked(t, u, p, c, left, b), t.parent[Index(c)] = Null,
         NEW s, ListOf(t, p, s), NEW n \in 1 .. Len(s) + 1, b = At(s, n), left = At(s, n - 1),
         NEW h \in Handles, Index(h) # Index(p), NEW r, ListOf(t, h, r)
  PROVE  ListOf(u, h, r)
<1> DEFINE j == Index(c)
<1>1. r \in Seq(Handles) /\ s \in Seq(Handles) /\ Index(h) \in Slots /\ n \in Int /\ n - 1 \in Int
  BY AtList, HandlePair DEF ListOf
<1>2. \A k \in 1 .. Len(r) :
        /\ Index(r[k]) \in Slots
        /\ Index(r[k]) # Index(left) /\ Index(r[k]) # Index(b)
  BY <1>1, ListsApart
<1>3. \A k \in 1 .. Len(r) : Index(r[k]) # j
  BY NullOutside DEF ListOf
<1>4. \A k \in 1 .. Len(r) :
        /\ u.parent[Index(r[k])] = t.parent[Index(r[k])]
        /\ u.next[Index(r[k])] = t.next[Index(r[k])]
        /\ u.prev[Index(r[k])] = t.prev[Index(r[k])]
  BY <1>2, <1>3 DEF Linked
<1>5. \A i \in Slots : u.parent[i] = h => t.parent[i] = h
  BY DEF Linked
<1>6. u.first[Index(h)] = t.first[Index(h)] /\ u.last[Index(h)] = t.last[Index(h)]
  BY <1>1 DEF Linked
<1> QED BY <1>4, <1>5, <1>6 DEF ListOf

-----------------------------------------------------------------------------
(* What a client enumerates is the list.                                   *)

LEMMA EnumeratedSteps ==
  ASSUME NEW t, NEW h
  PROVE  /\ Enumerated(t, h)[1] = t.first[Index(h)]
         /\ \A k \in 1 .. MaxSlots - 1 :
              Enumerated(t, h)[k + 1] =
                IF Enumerated(t, h)[k] = Null THEN Null ELSE t.next[Index(Enumerated(t, h)[k])]
<1> DEFINE Step(g, i) == IF i = 1 THEN t.first[Index(h)]
                         ELSE IF g[i - 1] = Null THEN Null ELSE t.next[Index(g[i - 1])]
           T == {n \in Nat : \E g : g = [i \in 1 .. n + 1 |-> Step(g, i)]}
           last == MaxSlots - 1
<1>0. last \in Nat /\ last + 1 = MaxSlots
  BY SlotsAssumption
<1>1. 0 \in T
  <2> DEFINE g == [i \in 1 .. 0 + 1 |-> t.first[Index(h)]]
  <2>1. \A i \in 1 .. 0 + 1 : i = 1
    OBVIOUS
  <2>2. g = [i \in 1 .. 0 + 1 |-> Step(g, i)]
    BY <2>1
  <2> HIDE DEF g, Step
  <2> QED BY <2>2
<1>2. ASSUME NEW n \in 0 .. last - 1, n \in T PROVE n + 1 \in T
  <2>1. PICK g : g = [i \in 1 .. n + 1 |-> Step(g, i)]
    BY <1>2
  <2>2. \A i \in 1 .. n + 1 : g[i] = Step(g, i)
    <3> HIDE DEF Step
    <3> QED BY <2>1
  <2>3. n \in Nat /\ n + 1 + 1 \in Nat
    BY <1>0
  <2> DEFINE next == IF g[n + 1] = Null THEN Null ELSE t.next[Index(g[n + 1])]
             f == [i \in 1 .. n + 1 + 1 |-> IF i <= n + 1 THEN g[i] ELSE next]
  <2>4. ASSUME NEW i \in 1 .. n + 1 + 1 PROVE f[i] = Step(f, i)
    <3> HIDE DEF next
    <3>1. CASE i = 1
      <4>1. f[1] = g[1] /\ g[1] = Step(g, 1)
        BY <2>2, <2>3
      <4> QED BY <3>1, <4>1
    <3>2. CASE i \in 2 .. n + 1
      <4>1. f[i] = g[i] /\ f[i - 1] = g[i - 1] /\ i # 1
        BY <3>2, <2>3
      <4>2. g[i] = Step(g, i)
        BY <3>2, <2>2, <2>3
      <4> QED BY <4>1, <4>2
    <3>3. CASE i = n + 1 + 1
      <4>1. f[n + 1] = g[n + 1] /\ i - 1 = n + 1 /\ i # 1
        BY <3>3, <2>3
      <4>2. f[i] = next
        BY <3>3, <2>3
      <4> QED BY <4>1, <4>2 DEF next
    <3> QED BY <2>3, <3>1, <3>2, <3>3
  <2>5. f = [i \in 1 .. n + 1 + 1 |-> Step(f, i)]
    <3>1. f = [i \in 1 .. n + 1 + 1 |-> f[i]]
      OBVIOUS
    <3> HIDE DEF f
    <3> QED BY <3>1, <2>4
  <2> HIDE DEF f, next, Step
  <2> QED BY <2>3, <2>5
<1>3. last \in T
  <2> HIDE DEF T, last
  <2>1. \A n \in 0 .. last : n \in T
    BY <1>0, <1>1, <1>2, Counting
  <2> QED BY <1>0, <2>1
<1> DEFINE e == Enumerated(t, h)
<1>4. e = [i \in 1 .. MaxSlots |-> Step(e, i)]
  <2>1. e = CHOOSE g : g = [i \in 1 .. MaxSlots |-> Step(g, i)]
    BY DEF Enumerated
  <2>2. \E g : g = [i \in 1 .. MaxSlots |-> Step(g, i)]
    <3> HIDE DEF Step, last
    <3> QED BY <1>0, <1>3
  <2> QED BY <2>1, <2>2
<1>5. \A i \in 1 .. MaxSlots : e[i] = Step(e, i)
  <2> HIDE DEF e
  <2> QED BY <1>4
<1> HIDE DEF e
<1>6. e[1] = t.first[Index(h)]
  BY <1>0, <1>5
<1>7. ASSUME NEW k \in 1 .. MaxSlots - 1
      PROVE  e[k + 1] = IF e[k] = Null THEN Null ELSE t.next[Index(e[k])]
  <2>1. k + 1 \in 1 .. MaxSlots /\ k + 1 # 1 /\ k + 1 - 1 = k
    BY <1>0
  <2> QED BY <1>5, <2>1
<1> QED BY <1>6, <1>7 DEF e

\* A list has no more entries than there are slots.
LEMMA ListFits ==
  ASSUME NEW t, NEW h, NEW s, ListOf(t, h, s)
  PROVE  Len(s) <= MaxSlots
<1> DEFINE n == Len(s)
           f == [k \in 1 .. n |-> Index(s[k])]
<1>1. /\ s \in Seq(Handles) /\ n \in Nat /\ MaxSlots \in Nat
      /\ \A k \in 1 .. n : Index(s[k]) \in Slots
  BY AtList, SlotsAssumption DEF ListOf
<1>2. \A j, k \in 1 .. n : Index(s[j]) = Index(s[k]) => j = k
  BY DEF ListOf
<1> HIDE DEF n
<1>3. f \in [1 .. n -> Slots] /\ \A j, k \in 1 .. n : f[j] = f[k] => j = k
  BY <1>1, <1>2
<1> HIDE DEF f
<1>4. /\ IsFiniteSet(1 .. n) /\ Cardinality(1 .. n) = n
      /\ IsFiniteSet(Slots) /\ Cardinality(Slots) = MaxSlots
  <2>1. /\ IsFiniteSet(1 .. n)
        /\ Cardinality(1 .. n) = IF n >= 1 THEN n - 1 + 1 ELSE 0
    BY <1>1, FS_Interval
  <2>2. /\ IsFiniteSet(1 .. MaxSlots)
        /\ Cardinality(1 .. MaxSlots) = IF MaxSlots >= 1 THEN MaxSlots - 1 + 1 ELSE 0
    BY <1>1, FS_Interval
  <2> QED BY <1>1, <2>1, <2>2 DEF Slots
<1>5. SUFFICES ASSUME MaxSlots < n PROVE FALSE
  BY <1>1 DEF n
<1>6. \E j, k \in 1 .. n : j # k /\ f[j] = f[k]
  BY <1>3, <1>4, <1>5, FS_PigeonHole
<1> QED BY <1>3, <1>6

LEMMA ListIsOrder ==
  ASSUME NEW t, NEW h, NEW s, ListOf(t, h, s)
  PROVE  InOrder(t, h) = s
<1> DEFINE e == Enumerated(t, h)
           n == Len(s)
           good == {k \in Nat : k < MaxSlots => e[k + 1] = At(s, k + 1)}
<1>0. s = [k \in 1 .. n |-> s[k]]
  <2>1. s \in [1 .. n -> Handles]
    BY LenProperties DEF ListOf
  <2> HIDE DEF n
  <2> QED BY <2>1
<1>1. s \in Seq(Handles) /\ n \in Nat /\ n <= MaxSlots /\ MaxSlots \in Nat /\ 1 <= MaxSlots
  <2>1. s \in Seq(Handles)
    BY DEF ListOf
  <2>2. n \in Nat
    BY <2>1, AtList
  <2>3. n <= MaxSlots
    BY ListFits
  <2>4. MaxSlots \in Nat /\ 1 <= MaxSlots
    BY SlotsAssumption
  <2> QED BY <2>1, <2>2, <2>3, <2>4
<1>2. /\ e[1] = t.first[Index(h)]
      /\ \A k \in 1 .. MaxSlots - 1 : e[k + 1] = IF e[k] = Null THEN Null ELSE t.next[Index(e[k])]
  BY EnumeratedSteps
<1>3. /\ \A k \in 1 .. n : /\ At(s, k) = s[k] /\ s[k] # Null
                          /\ t.next[Index(s[k])] = At(s, k + 1)
      /\ \A k : k \notin 1 .. n => At(s, k) = Null
      /\ t.first[Index(h)] = At(s, 1)
  BY <1>1, AtList DEF ListOf
<1>4. InOrder(t, h) = [k \in {j \in 1 .. MaxSlots : e[j] # Null} |-> e[k]]
  BY DEF InOrder
<1> HIDE DEF e, n
<1>5. 0 \in good
  BY <1>2, <1>3
<1>6. ASSUME NEW k \in 0 .. MaxSlots - 1 - 1, k \in good PROVE k + 1 \in good
  <2>1. k \in Nat /\ k + 1 \in 1 .. MaxSlots - 1 /\ k < MaxSlots /\ k + 1 \in Nat
    BY <1>1
  <2>2. e[k + 1] = At(s, k + 1)
    BY <1>6, <2>1
  <2>3. e[k + 1 + 1] = IF e[k + 1] = Null THEN Null ELSE t.next[Index(e[k + 1])]
    BY <1>2, <2>1
  <2>4. e[k + 1 + 1] = At(s, k + 1 + 1)
    <3>1. CASE k + 1 \in 1 .. n
      BY <1>3, <2>2, <2>3, <3>1
    <3>2. CASE k + 1 \notin 1 .. n
      <4>1. k + 1 + 1 \notin 1 .. n
        BY <1>1, <2>1, <3>2
      <4> QED BY <1>3, <2>2, <2>3, <3>2, <4>1
    <3> QED BY <3>1, <3>2
  <2> QED BY <2>1, <2>4
<1>7. \A k \in 1 .. MaxSlots : e[k] = At(s, k)
  <2> DEFINE last == MaxSlots - 1
  <2>1. last \in Nat
    BY <1>1
  <2>2. \A k \in 0 .. last : k \in good
    <3> HIDE DEF good, last
    <3>1. \A k \in 0 .. last - 1 : k \in good => k + 1 \in good
      BY <1>6 DEF last
    <3> QED BY <1>5, <2>1, <3>1, Counting
  <2> SUFFICES ASSUME NEW k \in 1 .. MaxSlots PROVE e[k] = At(s, k)
    OBVIOUS
  <2>3. k - 1 \in 0 .. last /\ k - 1 < MaxSlots /\ k - 1 + 1 = k
    BY <1>1
  <2>4. k - 1 \in good
    <3> HIDE DEF good, last
    <3> QED BY <2>2, <2>3
  <2> QED BY <2>3, <2>4
<1>8. \A k \in 1 .. n : k \in 1 .. MaxSlots /\ e[k] = s[k] /\ e[k] # Null
  <2>1. \A k \in 1 .. n : k \in 1 .. MaxSlots
    BY <1>1
  <2> QED BY <1>3, <1>7, <2>1
<1>9. \A k \in 1 .. MaxSlots : k \notin 1 .. n => e[k] = Null
  BY <1>3, <1>7
<1>10. {j \in 1 .. MaxSlots : e[j] # Null} = 1 .. n
  BY <1>8, <1>9
<1> QED BY <1>0, <1>4, <1>8, <1>10

-----------------------------------------------------------------------------
(* The lists of the live nodes, and what the surgery makes of them.        *)

Ordered(t) == \A h \in Handles : Live(h) => \E s : ListOf(t, h, s)

LEMMA EntriesLive ==
  ASSUME NEW t, AllLive(t), NEW h \in Handles, NEW s, ListOf(t, h, s), NEW k \in 1 .. Len(s)
  PROVE  Live(s[k]) /\ s[k] \in Handles /\ s[k] \in Link /\ Index(s[k]) \in Slots
<1>1. /\ s \in Seq(Handles) /\ Len(s) \in Nat /\ Index(h) \in Slots
      /\ \A i \in 1 .. Len(s) : At(s, i) = s[i] /\ s[i] \in Handles /\ s[i] # Null /\ Index(s[i]) \in Slots
  BY AtList, HandlePair DEF ListOf
<1>2. CASE k = 1
  <2>1. t.first[Index(h)] = s[k]
    BY <1>1, <1>2 DEF ListOf
  <2> QED BY <1>1, <2>1 DEF AllLive, ColumnLive, Link
<1>3. CASE k # 1
  <2>1. k - 1 \in 1 .. Len(s) /\ k - 1 + 1 = k
    BY <1>1, <1>3
  <2>2. t.next[Index(s[k - 1])] = At(s, k - 1 + 1)
    BY <2>1 DEF ListOf
  <2>3. t.next[Index(s[k - 1])] = s[k] /\ Index(s[k - 1]) \in Slots
    BY <1>1, <2>1, <2>2
  <2> QED BY <1>1, <2>3 DEF AllLive, ColumnLive, Link
<1> QED BY <1>2, <1>3

\* A child of p stands in its list.
LEMMA ChildPlace ==
  ASSUME LinksInv, NEW t, AllLive(t), NEW p \in Handles, NEW s, ListOf(t, p, s),
         NEW c \in Link, Live(c), t.parent[Index(c)] = p
  PROVE  \E m \in 1 .. Len(s) : s[m] = c
<1>1. Index(c) \in Slots
  BY LiveNode
<1>2. PICK m \in 1 .. Len(s) : Index(s[m]) = Index(c)
  BY <1>1 DEF ListOf
<1>3. Live(s[m]) /\ s[m] \in Link
  BY EntriesLive
<1> QED BY <1>2, <1>3, LiveApart

\* Nothing but a child of h stands in its list.
LEMMA NoPlace ==
  ASSUME NEW t, NEW h, NEW s, ListOf(t, h, s), NEW c, t.parent[Index(c)] # h
  PROVE  Filtered(s, Handles \ {c}) = s
<1>1. \A k \in 1 .. Len(s) : s[k] \in Handles \ {c}
  BY AtList DEF ListOf
<1> QED BY <1>1, FilterAll DEF ListOf

\* Every list without c, once c has left the one it was in.
LEMMA LooseLists ==
  ASSUME LinksInv, AllLive(topo), Ordered(topo), NEW c \in Handles, Live(c),
         NEW h \in Handles, Live(h), NEW s, ListOf(topo, h, s)
  PROVE  ListOf(Loose(Index(c)), h, Filtered(s, Handles \ {c}))
<1> DEFINE j == Index(c)
           q == topo.parent[j]
           u == Loose(j)
<1>1. j \in Slots /\ topo \in Columns /\ c \in Link /\ h \in Link /\ h # Null
  BY HandlePair, NullOutside DEF LinksInv, Link
<1>2. CASE q = Null
  <2>1. Filtered(s, Handles \ {c}) = s
    BY <1>1, <1>2, NoPlace
  <2>2. u = topo
    BY <1>2 DEF Loose
  <2> QED BY <2>1, <2>2
<1>3. CASE q # Null
  <2>1. q \in Link /\ q \in Handles /\ Live(q) /\ Index(q) \in Slots
    BY <1>1, <1>3, ColumnsSpotted, LiveNode DEF Link, AllLive, ColumnLive
  <2>2. Unlinked(topo, u, Index(q), j)
    <3>1. Unlinked(topo, Unlink(topo, Index(q), j), Index(q), j)
      BY <1>1, <2>1, UnlinkWrites
    <3> QED BY <1>3, <3>1 DEF Loose
  <2> HIDE DEF u
  <2>3. CASE h = q
    <3>1. PICK m \in 1 .. Len(s) : s[m] = c
      BY <1>1, <2>3, ChildPlace
    <3>2. \A k \in 1 .. Len(s) : s[k] \in Handles \ {c} <=> k # m
      <4>1. \A k \in 1 .. Len(s) : s[k] \in Handles
        BY AtList DEF ListOf
      <4>2. \A k \in 1 .. Len(s) : s[k] = c => k = m
        BY <3>1 DEF ListOf
      <4> QED BY <3>1, <4>1, <4>2
    <3>3. s \in Seq(Handles)
      BY DEF ListOf
    <3> DEFINE r == Filtered(s, Handles \ {c})
    <3>4. r \in Seq(Handles) /\ Dropped(r, s, m)
      BY <3>2, <3>3, FilteredIsDropped
    <3> HIDE DEF r, j, q
    <3>5. ListOf(u, q, r)
      BY <1>1, <2>1, <2>2, <2>3, <3>1, <3>4, UnlinkList DEF j
    <3> QED BY <2>3, <3>5 DEF r, u, j
  <2>4. CASE h # q
    <3>1. Filtered(s, Handles \ {c}) = s
      BY <2>4, NoPlace
    <3>2. Index(h) # Index(q)
      BY <1>1, <2>1, <2>4, LiveApart
    <3>3. PICK l : ListOf(topo, q, l)
      BY <2>1 DEF Ordered
    <3>4. PICK m \in 1 .. Len(l) : l[m] = c
      BY <1>1, <2>1, <3>3, ChildPlace
    <3>5. ListOf(u, h, s)
      BY <1>1, <2>1, <2>2, <3>2, <3>3, <3>4, UnlinkOther
    <3> QED BY <3>1, <3>5 DEF u
  <2> QED BY <2>3, <2>4
<1> QED BY <1>2, <1>3

\* The list of p with c before b, and the other lists as they were.
LEMMA PlacedLists ==
  ASSUME LinksInv, NEW t \in Columns, AllLive(t), NEW p \in Handles, NEW c \in Handles, NEW b \in Link,
         t.parent[Index(c)] = Null, b # Null => Live(b) /\ t.parent[Index(b)] = p,
         NEW s, ListOf(t, p, s)
  PROVE  /\ PlaceOf(s, b) \in 1 .. Len(s) + 1
         /\ ListOf(LinkBefore(t, p, c, b), p, InsertAt(s, PlaceOf(s, b), c))
         /\ \A h \in Handles : \A r :
              Index(h) # Index(p) /\ ListOf(t, h, r) => ListOf(LinkBefore(t, p, c, b), h, r)
<1> DEFINE n == PlaceOf(s, b)
           u == LinkBefore(t, p, c, b)
           left == LeftOf(t, p, b)
           r == InsertAt(s, n, c)
<1>1. /\ s \in Seq(Handles) /\ Len(s) \in Nat
      /\ \A k \in 1 .. Len(s) : At(s, k) = s[k] /\ s[k] # Null
      /\ \A k : k \notin 1 .. Len(s) => At(s, k) = Null
  BY AtList DEF ListOf
<1>2. n \in 1 .. Len(s) + 1 /\ b = At(s, n)
  <2>1. CASE b = Null
    <3>1. n = Len(s) + 1 /\ n \notin 1 .. Len(s)
      BY <1>1, <2>1 DEF PlaceOf
    <3> QED BY <1>1, <2>1, <3>1
  <2>2. CASE b # Null
    <3>1. \E m \in 1 .. Len(s) : s[m] = b
      BY <2>2, ChildPlace
    <3>2. n \in 1 .. Len(s) /\ s[n] = b
      BY <2>2, <3>1 DEF PlaceOf
    <3> QED BY <1>1, <3>2
  <2> QED BY <2>1, <2>2
<1>3. left = At(s, n - 1)
  <2>1. CASE b = Null
    <3>1. n = Len(s) + 1 /\ n - 1 = Len(s)
      BY <1>1, <2>1 DEF PlaceOf
    <3>2. left = IF t.first[Index(p)] = Null THEN Null ELSE t.last[Index(p)]
      BY <2>1 DEF LeftOf
    <3>3. t.first[Index(p)] = At(s, 1) /\ t.last[Index(p)] = At(s, Len(s))
      BY DEF ListOf
    <3>4. At(s, 1) = Null => Len(s) \notin 1 .. Len(s)
      BY <1>1
    <3> QED BY <1>1, <3>1, <3>2, <3>3, <3>4
  <2>2. CASE b # Null
    <3>1. n \in 1 .. Len(s) /\ s[n] = b
      BY <1>1, <1>2, <2>2
    <3> QED BY <2>2, <3>1 DEF LeftOf, ListOf
  <2> QED BY <2>1, <2>2
<1>4. Linked(t, u, p, c, left, b)
  BY LinkWrites
<1>5. r \in Seq(Handles) /\ Added(r, s, n, c)
  BY <1>1, <1>2, InsertedIsAdded
<1> HIDE DEF n, u, left, r
<1>6. ListOf(u, p, r)
  BY <1>2, <1>3, <1>4, <1>5, LinkList
<1>7. ASSUME NEW h \in Handles, NEW l, Index(h) # Index(p), ListOf(t, h, l) PROVE ListOf(u, h, l)
  BY <1>2, <1>3, <1>4, <1>7, LinkOther
<1> QED BY <1>2, <1>6, <1>7 DEF n, u, r

-----------------------------------------------------------------------------
(* What the calls do to the lists.                                         *)

\* A create gives out a handle that was never issued.
LEMMA CreateGives ==
  ASSUME SlotsInv, CreateReused \/ CreateFresh
  PROVE  /\ <<NextSlot, generation'[NextSlot]>> \notin issued
         /\ issued' = issued \cup {<<NextSlot, generation'[NextSlot]>>}
<1> USE SlotsAssumption DEF SlotsInv
<1>1. CASE CreateReused
  <2>1. /\ Top \in Slots /\ <<Top, generation[Top]>> \in Handles \ issued
        /\ freeList # <<>>
    BY <1>1, ReusePops DEF Top, FreeListSound, CreateReused
  <2>2. NextSlot = Top /\ generation[Top] # 0
    BY <2>1 DEF NextSlot, Handles, Generations
  <2>3. generation' = generation /\ issued' = issued \cup {<<Top, generation[Top]>>}
    BY <1>1, <2>1, <2>2 DEF CreateReused, Revive, SlotsTypeOK
  <2> QED BY <2>1, <2>2, <2>3
<1>2. CASE CreateFresh
  <2>1. NextSlot = count + 1 /\ count + 1 \in Slots /\ count \in Nat
    BY <1>2 DEF CreateFresh, NextSlot, SlotsTypeOK, Slots
  <2>2. generation'[NextSlot] = 1 /\ issued' = issued \cup {<<NextSlot, 1>>}
    BY <1>2, <2>1 DEF CreateFresh, Revive, SlotsTypeOK
  <2>3. \A h \in issued : h[1] <= count
    BY DEF IssuedBounded, Index
  <2>4. <<NextSlot, 1>> \notin issued
    BY <2>1, <2>3
  <2> QED BY <2>2, <2>4
<1> QED BY <1>1, <1>2

\* The new node is a root without children, and nothing else changes.
LEMMA CreateLists ==
  ASSUME TreeInv, Create
  PROVE  \E n \in Handles \ issued :
           /\ issued' = issued \cup {n}
           /\ ~Live(n)
           /\ \A h \in Handles : Live(h)' <=> Live(h) \/ h = n
           /\ topo' = topo
           /\ ListOf(topo, n, <<>>)
<1> DEFINE n == <<NextSlot, generation'[NextSlot]>>
<1>1. SlotsInv /\ (CreateReused \/ CreateFresh) /\ topo' = topo /\ topo \in Columns
  BY CreateLeavesLinks DEF TreeInv, LinksInv, Create
<1>2. /\ n \in Handles /\ n \notin issued /\ issued' = issued \cup {n}
      /\ NextSlot \in Slots /\ ~alive[NextSlot]
      /\ \A h \in Handles : Live(h)' <=> Live(h) \/ h = n
  BY <1>1, CreateRevives, CreateGives
<1>3. Index(n) = NextSlot /\ ~Live(n)
  BY <1>2 DEF Index, Live
<1> HIDE DEF n
<1>4. topo.first[Index(n)] = Null /\ topo.last[Index(n)] = Null
  BY <1>2, <1>3, DeadSlotBare
<1>5. \A i \in Slots : topo.parent[i] # n
  BY <1>2, <1>3, NullOutside DEF TreeInv, AllLive, ColumnLive
<1>6. ListOf(topo, n, <<>>)
  <2>1. <<>> \in Seq(Handles) /\ Len(<<>>) = 0 /\ \A k : At(<<>>, k) = Null
    BY DEF At
  <2> QED BY <1>4, <1>5, <2>1 DEF ListOf
<1> QED BY <1>1, <1>2, <1>3, <1>6

\* place_before takes c out of the list it was in and puts it before b.
LEMMA PlaceLists ==
  ASSUME TreeInv, Ordered(topo), NEW p \in LiveHandles, NEW c \in LiveHandles,
         NEW b \in LiveHandles \cup {Null}, NEW mode, PlaceBefore(p, c, b, mode),
         NEW h \in Handles, Live(h), NEW s, ListOf(topo, h, s)
  PROVE  LET rest == Filtered(s, Handles \ {c})
         IN /\ h = p => PlaceOf(rest, b) \in 1 .. Len(rest) + 1
            /\ ListOf(topo', h, IF h = p THEN InsertAt(rest, PlaceOf(rest, b), c) ELSE rest)
<1> DEFINE j == Index(c)
           u == Loose(j)
           rest(l) == Filtered(l, Handles \ {c})
<1>1. /\ topo' = LinkBefore(u, p, c, b) /\ b # c /\ BeforeOK(p, b)
  BY DEF PlaceBefore, Loose
<1>2. /\ p \in Handles /\ c \in Handles /\ b \in Link /\ Index(p) \in Slots /\ j \in Slots
      /\ Live(p) /\ Live(c) /\ c \in Link /\ p \in Link /\ h \in Link
      /\ LinksInv /\ AllLive(topo)
  BY HandlePair DEF LiveHandles, TreeInv, LinksInv, SlotsInv, SlotsTypeOK, Link
<1>3. u \in Columns /\ AllLive(u) /\ Cut(topo, u, j) /\ u.parent[j] = Null
  BY <1>2, LooseTree DEF TreeInv
<1>4. b # Null => Live(b) /\ u.parent[Index(b)] = p
  <2> SUFFICES ASSUME b # Null PROVE Live(b) /\ u.parent[Index(b)] = p
    OBVIOUS
  <2>1. Live(b) /\ Index(b) # j /\ topo.parent[Index(b)] = p /\ Index(b) \in Slots
    BY <1>1, <1>2, LiveApart, LinkSpot DEF BeforeOK
  <2> QED BY <1>3, <2>1 DEF Cut
<1>5. PICK l : ListOf(topo, p, l)
  BY <1>2 DEF Ordered
<1>6. ListOf(u, p, rest(l)) /\ ListOf(u, h, rest(s))
  BY <1>2, <1>5, LooseLists
<1> HIDE DEF u, j
<1>7. CASE h = p
  <2> DEFINE r == rest(s)
  <2>1. ListOf(u, p, r)
    BY <1>6, <1>7
  <2> HIDE DEF r
  <2>2. u.parent[Index(c)] = Null
    BY <1>3 DEF j
  <2>3. /\ PlaceOf(r, b) \in 1 .. Len(r) + 1
        /\ ListOf(LinkBefore(u, p, c, b), p, InsertAt(r, PlaceOf(r, b), c))
    BY <1>2, <1>3, <1>4, <2>1, <2>2, PlacedLists
  <2> QED BY <1>1, <1>7, <2>3 DEF r
<1>8. CASE h # p
  <2> DEFINE r == rest(s)
             q == rest(l)
  <2>1. ListOf(u, p, q) /\ ListOf(u, h, r) /\ Index(h) # Index(p)
    BY <1>2, <1>6, <1>8, LiveApart
  <2> HIDE DEF r, q
  <2>2. u.parent[Index(c)] = Null
    BY <1>3 DEF j
  <2>3. ListOf(LinkBefore(u, p, c, b), h, r)
    <3>1. \A g \in Handles : \A x :
            Index(g) # Index(p) /\ ListOf(u, g, x) => ListOf(LinkBefore(u, p, c, b), g, x)
      BY <1>2, <1>3, <1>4, <2>1, <2>2, PlacedLists
    <3> QED BY <2>1, <3>1
  <2> QED BY <1>1, <1>8, <2>3 DEF r
<1> QED BY <1>7, <1>8

-----------------------------------------------------------------------------
(* The children of every live node form one list; and no node from the     *)
(* cursor of a destroy walk up to its root has a previous sibling.         *)

WalkLeft ==
  walk.cursor # Null =>
    \A j \in Slots : OnChain(topo, Index(walk.cursor), j) => topo.prev[j] = Null

OrderInv ==
  /\ TreeInv
  /\ Ordered(topo)
  /\ WalkLeft

LEMMA OrderInit == TreeInit => OrderInv
<1> SUFFICES ASSUME TreeInit PROVE OrderInv
  OBVIOUS
<1>1. TreeInv
  BY TreeInvInit
<1>2. Ordered(topo)
  BY DEF TreeInit, SlotsInit, Ordered, Live
<1>3. WalkLeft
  BY DEF TreeInit, NoWalk, WalkLeft
<1> QED BY <1>1, <1>2, <1>3 DEF OrderInv

LEMMA LoosenOrder ==
  ASSUME TreeInv, Ordered(topo), NEW c \in Handles, Live(c), topo' = Loose(Index(c)),
         \A h \in Handles : Live(h)' => Live(h)
  PROVE  Ordered(topo)'
<1> SUFFICES ASSUME NEW h \in Handles, Live(h)' PROVE \E s : ListOf(topo', h, s)
  BY DEF Ordered
<1>1. Live(h) /\ LinksInv /\ AllLive(topo)
  BY DEF TreeInv
<1>2. PICK s : ListOf(topo, h, s)
  BY <1>1 DEF Ordered
<1>3. ListOf(Loose(Index(c)), h, Filtered(s, Handles \ {c}))
  BY <1>1, <1>2, LooseLists
<1> QED BY <1>3

\* A first child has no previous sibling, and it is a child of its parent.
LEMMA FirstIsLeft ==
  ASSUME NEW t \in Columns, Forest(t), NEW i \in Slots, t.first[i] # Null
  PROVE  /\ Index(t.first[i]) \in Slots /\ t.prev[Index(t.first[i])] = Null
         /\ t.parent[Index(t.first[i])] # Null /\ Index(t.parent[Index(t.first[i])]) = i
<1> DEFINE f == t.first[i]
<1>1. f \in Link /\ Index(f) \in Slots
  BY ColumnsSpotted, LinkSpot
<1>2. Chained(Spotted(t.parent), Spotted(t.first), Spotted(t.next), Spotted(t.prev))
  BY DEF Forest
<1>3. Spotted(t.first)[i] = Index(f) /\ Index(f) # 0 /\ i # 0
  BY <1>1 DEF Spotted, Slots
<1>4. Spotted(t.parent)[Index(f)] = i /\ Spotted(t.prev)[Index(f)] = 0
  BY <1>2, <1>3 DEF Chained
<1>5. t.prev[Index(f)] = Null
  BY <1>1, <1>4, SpottedColumn DEF Columns
<1>6. Index(t.parent[Index(f)]) = i /\ t.parent[Index(f)] # Null
  BY <1>1, <1>3, <1>4, NullOutside DEF Spotted
<1> QED BY <1>1, <1>5, <1>6

\* A next sibling has the same parent.
LEMMA NextIsSibling ==
  ASSUME NEW t \in Columns, Forest(t), NEW i \in Slots, t.next[i] # Null
  PROVE  /\ Index(t.next[i]) \in Slots
         /\ Index(t.parent[Index(t.next[i])]) = Index(t.parent[i])
<1> DEFINE f == t.next[i]
<1>1. f \in Link /\ Index(f) \in Slots
  BY ColumnsSpotted, LinkSpot
<1>2. Chained(Spotted(t.parent), Spotted(t.last), Spotted(t.prev), Spotted(t.next))
  BY DEF Forest
<1>3. Spotted(t.next)[i] = Index(f) /\ Index(f) # 0
  BY <1>1 DEF Spotted, Slots
<1>4. Spotted(t.parent)[Index(f)] = Spotted(t.parent)[i]
  BY <1>2, <1>3 DEF Chained
<1> QED BY <1>1, <1>4 DEF Spotted

LEMMA DestroyBeginLeft ==
  ASSUME TreeInv, TreeInv', NEW h \in issued, DestroyBegin(h)
  PROVE  WalkLeft'
<1> DEFINE i == Index(h)
<1>1. topo' = Loose(i) /\ walk'.cursor = h /\ Live(h)
  BY DEF DestroyBegin, Loose
<1>2. i \in Slots /\ LinksInv
  BY <1>1, LiveNode DEF TreeInv
<1>3. topo' \in Columns /\ Forest(topo') /\ topo'.parent[i] = Null
  BY <1>1, <1>2, LooseTree DEF TreeInv
<1>4. ASSUME NEW j \in Slots, OnChain(topo', i, j) PROVE j = i
  BY <1>2, <1>3, <1>4, ChainUp
<1>5. topo'.prev[i] = Null
  <2> DEFINE t == topo'
  <2>1. Chained(Spotted(t.parent), Spotted(t.first), Spotted(t.next), Spotted(t.prev))
    BY <1>3 DEF Forest
  <2>2. Spotted(t.parent)[i] = 0
    BY <1>2, <1>3, NullOutside DEF Spotted
  <2>3. Spotted(t.prev)[i] = 0
    BY <1>2, <2>1, <2>2 DEF Chained
  <2> QED BY <1>2, <1>3, <2>3, SpottedColumn DEF Columns
<1> QED BY <1>1, <1>4, <1>5 DEF WalkLeft

LEMMA WalkDownLeft == ASSUME TreeInv, WalkLeft, WalkDown PROVE WalkLeft'
<1> DEFINE i == Index(walk.cursor)
           f == topo.first[i]
<1>1. /\ walk' = [walk EXCEPT !.cursor = f] /\ f # Null /\ topo' = topo
      /\ walk # NoWalk /\ dying = Null
  BY DEF WalkDown, Walking, FirstChild
<1>2. walk.cursor # Null /\ i \in Slots /\ topo \in Columns /\ walk \in Walks /\ Forest(topo)
  BY <1>1, HandlePair, NullOutside DEF TreeInv, LinksInv, CursorNamesNode, Walking
<1>3. walk'.cursor = f
  BY <1>1, <1>2 DEF Walks
<1>4. /\ Index(f) \in Slots /\ topo.prev[Index(f)] = Null
      /\ topo.parent[Index(f)] # Null /\ Index(topo.parent[Index(f)]) = i
  BY <1>1, <1>2, FirstIsLeft
<1> HIDE DEF f
<1>5. ASSUME NEW j \in Slots, OnChain(topo, Index(f), j) PROVE topo.prev[j] = Null
  <2>1. CASE j = Index(f)
    BY <1>4, <2>1
  <2>2. CASE j # Index(f)
    <3>1. OnChain(topo, i, j)
      BY <1>2, <1>4, <1>5, <2>2, ChainUp
    <3> QED BY <1>2, <3>1 DEF WalkLeft
  <2> QED BY <2>1, <2>2
<1> QED BY <1>1, <1>3, <1>5 DEF WalkLeft

LEMMA WalkVisitLeft == ASSUME TreeInv, WalkLeft, WalkVisit PROVE WalkLeft'
<1> DEFINE node == walk.cursor
           i == Index(node)
           p == topo.parent[i]
           next == topo.next[i]
           cursor == IF node = walk.root THEN Null ELSE IF next # Null THEN next ELSE p
           u == Loose(i)
<1>1. walk' = [walk EXCEPT !.cursor = cursor, !.oldParent = OldParentOf(node, p)] /\ Live(node)
  BY DEF WalkVisit, Kill
<1>2. /\ node # Null /\ i \in Slots /\ topo \in Columns /\ walk \in Walks /\ Forest(topo)
      /\ LinksInv
  BY <1>1, LiveNode DEF TreeInv, LinksInv
<1>3. walk'.cursor = cursor
  BY <1>1, <1>2 DEF Walks
<1>4. topo' = u /\ Cut(topo, u, i) /\ u \in Columns
  BY <1>2, VisitLoosens, LooseTree DEF TreeInv
<1>5. SUFFICES ASSUME cursor # Null, NEW j \in Slots, OnChain(u, Index(cursor), j)
               PROVE  u.prev[j] = Null
  BY <1>3, <1>4 DEF WalkLeft
<1>6. (cursor = next /\ next # Null) \/ (cursor = p /\ p # Null)
  BY <1>5
\* what is above the cursor is the cursor itself or above the leaf
<1>7. (j = Index(next) /\ next # Null) \/ OnChain(topo, i, j)
  <2>1. CASE cursor = p /\ p # Null
    <3>1. OnChain(topo, Index(p), j)
      BY <1>4, <1>5, <2>1, ChainCut
    <3> QED BY <2>1, <3>1, ChainDown
  <2>2. CASE cursor = next /\ next # Null /\ j # Index(next)
    <3>1. Index(next) \in Slots /\ Index(topo.parent[Index(next)]) = Index(p)
      BY <1>2, <2>2, NextIsSibling
    <3> HIDE DEF cursor, u, next
    <3>2. u.parent[Index(next)] # Null /\ OnChain(u, Index(u.parent[Index(next)]), j)
      BY <1>4, <1>5, <2>2, <3>1, ChainUp
    <3>3. u.parent[Index(next)] = topo.parent[Index(next)]
      BY <1>4, <3>1, <3>2 DEF Cut
    <3>4. OnChain(u, Index(p), j) /\ Index(p) \in Slots
      BY <1>2, <3>1, <3>2, <3>3, ColumnsSpotted, LinkSpot
    <3>5. OnChain(topo, Index(p), j) /\ p # Null
      BY <1>4, <3>4, ChainCut, NullOutside
    <3> QED BY <3>5, ChainDown
  <2> QED BY <1>6, <2>1, <2>2
<1>8. topo.prev[i] = Null
  BY <1>2, ChainSelf DEF WalkLeft
<1>9. OnChain(topo, i, j) => topo.prev[j] = Null
  BY <1>2 DEF WalkLeft
<1>10. CASE p = Null
  <2>1. u = topo
    BY <1>10 DEF Loose
  <2>2. next = Null
    <3>1. Chained(Spotted(topo.parent), Spotted(topo.last), Spotted(topo.prev), Spotted(topo.next))
      BY <1>2 DEF Forest
    <3>2. Spotted(topo.parent)[i] = 0
      BY <1>2, <1>10, NullOutside DEF Spotted
    <3>3. Spotted(topo.next)[i] = 0
      BY <1>2, <3>1, <3>2 DEF Chained
    <3> QED BY <1>2, <3>3, SpottedColumn DEF Columns
  <2> QED BY <1>6, <1>10, <2>2
<1>11. CASE p # Null
  <2>1. Index(p) \in Slots
    BY <1>2, <1>11, ColumnsSpotted, LinkSpot
  <2>2. Unlinked(topo, u, Index(p), i)
    <3>1. Unlinked(topo, Unlink(topo, Index(p), i), Index(p), i)
      BY <1>2, <2>1, UnlinkWrites
    <3> QED BY <1>11, <3>1 DEF Loose
  <2> HIDE DEF u
  <2>3. u.prev[j] = IF j = i THEN Null ELSE IF j = Index(next) THEN topo.prev[i] ELSE topo.prev[j]
    BY <2>2 DEF Unlinked
  <2> QED BY <1>7, <1>8, <1>9, <2>3
<1> QED BY <1>10, <1>11

LEMMA OrderStep == OrderInv /\ [TreeNext]_treeVars => OrderInv'
<1> SUFFICES ASSUME OrderInv, [TreeNext]_treeVars PROVE OrderInv'
  OBVIOUS
<1>0. TreeInv /\ Ordered(topo) /\ WalkLeft /\ TreeInv'
  BY TreeInvStep DEF OrderInv
<1>1. CASE UNCHANGED treeVars
  BY <1>0, <1>1 DEF treeVars, Ordered, Live, WalkLeft, OrderInv
<1>2. CASE Create
  <2>1. PICK n \in Handles : /\ \A h \in Handles : Live(h)' <=> Live(h) \/ h = n
                             /\ topo' = topo /\ ListOf(topo, n, <<>>)
    BY <1>0, <1>2, CreateLists
  <2>2. Ordered(topo)'
    BY <1>0, <2>1 DEF Ordered
  <2>3. WalkLeft'
    BY <1>0, <1>2, <2>1 DEF Create, WalkLeft
  <2> QED BY <1>0, <2>2, <2>3 DEF OrderInv
<1>3. ASSUME NEW p \in LiveHandles, NEW c \in LiveHandles, NEW b \in LiveHandles \cup {Null}, NEW mode,
             PlaceBefore(p, c, b, mode)
      PROVE  OrderInv'
  <2>1. UNCHANGED slotVars /\ walk' = walk /\ walk = NoWalk
    BY <1>3 DEF PlaceBefore, ClientRuns, NotDispatching
  <2>2. Ordered(topo)'
    <3> SUFFICES ASSUME NEW h \in Handles, Live(h)' PROVE \E s : ListOf(topo', h, s)
      BY DEF Ordered
    <3>1. Live(h)
      BY <2>1 DEF slotVars, Live
    <3>2. PICK s : ListOf(topo, h, s)
      BY <1>0, <3>1 DEF Ordered
    <3> QED BY <1>0, <1>3, <3>1, <3>2, PlaceLists
  <2>3. WalkLeft'
    BY <2>1 DEF WalkLeft, NoWalk
  <2> QED BY <1>0, <2>2, <2>3 DEF OrderInv
<1>4. ASSUME NEW p \in LiveHandles, NEW c \in LiveHandles, NodeRemove(p, c) PROVE OrderInv'
  <2>1. /\ UNCHANGED slotVars /\ walk' = walk /\ walk = NoWalk /\ Live(p) /\ Live(c)
        /\ topo.parent[Index(c)] = p /\ topo' = Unlink(topo, Index(p), Index(c))
    BY <1>4 DEF NodeRemove, ClientRuns, NotDispatching
  <2>2. topo' = Loose(Index(c)) /\ c \in Handles
    BY <1>0, <2>1, LiveNode DEF Loose, LiveHandles, TreeInv, LinksInv, SlotsInv, SlotsTypeOK
  <2>3. \A h \in Handles : Live(h)' => Live(h)
    BY <2>1 DEF slotVars, Live
  <2>4. Ordered(topo)'
    BY <1>0, <2>1, <2>2, <2>3, LoosenOrder
  <2>5. WalkLeft'
    BY <2>1 DEF WalkLeft, NoWalk
  <2> QED BY <1>0, <2>4, <2>5 DEF OrderInv
<1>5. ASSUME NEW h \in issued, DestroyBegin(h) PROVE OrderInv'
  <2>1. topo' = Loose(Index(h)) /\ Live(h) /\ UNCHANGED slotVars /\ h \in Handles
    BY <1>0, <1>5 DEF DestroyBegin, Loose, TreeInv, LinksInv, SlotsInv, SlotsTypeOK
  <2>2. \A g \in Handles : Live(g)' => Live(g)
    BY <2>1 DEF slotVars, Live
  <2>3. Ordered(topo)'
    BY <1>0, <2>1, <2>2, LoosenOrder
  <2> QED BY <1>0, <1>5, <2>3, DestroyBeginLeft DEF OrderInv
<1>6. CASE WalkDown
  <2>1. Ordered(topo)'
    BY <1>0, <1>6 DEF WalkDown, slotVars, Ordered, Live
  <2> QED BY <1>0, <1>6, <2>1, WalkDownLeft DEF OrderInv
<1>7. CASE WalkVisit
  <2>1. topo' = Loose(Index(walk.cursor)) /\ walk.cursor \in Handles /\ Live(walk.cursor)
    BY <1>0, <1>7, VisitLoosens DEF WalkVisit, Kill, TreeInv, LinksInv, CursorNamesNode
  <2>2. \A h \in Handles : Live(h)' => Live(h)
    BY <1>0, <1>7 DEF WalkVisit, Kill, Live, TreeInv, LinksInv, SlotsInv, SlotsTypeOK
  <2>3. Ordered(topo)'
    BY <1>0, <2>1, <2>2, LoosenOrder
  <2> QED BY <1>0, <1>7, <2>3, WalkVisitLeft DEF OrderInv
<1>8. CASE WalkResume
  <2>1. (\A h : Live(h)' <=> Live(h)) /\ topo' = topo
    BY <1>0, <1>8, ResumeSlots DEF WalkResume, TreeInv
  <2>2. Ordered(topo)'
    BY <1>0, <2>1 DEF Ordered
  <2>3. walk'.cursor # Null => walk'.cursor = walk.cursor
    BY <1>0, <1>8 DEF WalkResume, NoWalk, TreeInv, LinksInv, Walks
  <2>4. WalkLeft'
    BY <1>0, <2>1, <2>3 DEF WalkLeft
  <2> QED BY <1>0, <2>2, <2>4 DEF OrderInv
<1> QED BY <1>1, <1>2, <1>3, <1>4, <1>5, <1>6, <1>7, <1>8
  DEF TreeNext, WalkStep, NodeAppend, NodeInsert, NodeMove, NodeReparent

LEMMA OrderInvariance == TreeSpec => []OrderInv
  BY OrderInit, OrderStep, PTL DEF TreeSpec

-----------------------------------------------------------------------------
(* What a client enumerates, before and after a step.                      *)

LEMMA ListIsEnumerated ==
  ASSUME NEW h \in Handles, NEW s
  PROVE  /\ Live(h) /\ ListOf(topo, h, s) => ChildrenInOrder(h) = s
         /\ Live(h)' /\ ListOf(topo', h, s) => ChildrenInOrder(h)' = s
<1>1. ASSUME Live(h), ListOf(topo, h, s) PROVE ChildrenInOrder(h) = s
  <2>1. InOrder(topo, h) = s
    BY <1>1, ListIsOrder
  <2> QED BY <1>1, <2>1 DEF ChildrenInOrder
<1>2. ASSUME Live(h)', ListOf(topo', h, s) PROVE ChildrenInOrder(h)' = s
  <2>1. InOrder(topo', h) = s
    BY <1>2, ListIsOrder
  <2> QED BY <1>2, <2>1 DEF ChildrenInOrder
<1> QED BY <1>1, <1>2

\* The list of every handle.
LEMMA ListOfAll ==
  ASSUME OrderInv, NEW h \in Handles
  PROVE  /\ ChildLists[h] = ChildrenInOrder(h)
         /\ ChildLists[h] \in Seq(Handles)
         /\ Live(h) => ListOf(topo, h, ChildLists[h])
         /\ ~Live(h) => ChildLists[h] = <<>>
<1>1. ChildLists[h] = ChildrenInOrder(h)
  BY DEF ChildLists
<1>2. CASE Live(h)
  <2>1. PICK s : ListOf(topo, h, s)
    BY <1>2 DEF OrderInv, Ordered
  <2>2. ChildrenInOrder(h) = s
    BY <1>2, <2>1, ListIsEnumerated
  <2> QED BY <1>1, <1>2, <2>1, <2>2 DEF ListOf
<1>3. CASE ~Live(h)
  BY <1>1, <1>3 DEF ChildrenInOrder
<1> QED BY <1>1, <1>2, <1>3

(***************************************************************************)
(* A placement puts the child exactly before its anchor, at the end        *)
(* without one, and every other list keeps its order.                      *)
(***************************************************************************)
THEOREM PlacementsStayExact == TreeSpec => PlacementsAreExact
<1>1. ASSUME OrderInv, [TreeNext]_treeVars, NEW p \in LiveHandles, NEW c \in LiveHandles,
             NEW b \in LiveHandles \cup {Null}, PlaceBefore(p, c, b, "any"), NEW h \in LiveHandles
      PROVE  LET rest == Filtered(ChildrenInOrder(h), Handles \ {c})
             IN ChildrenInOrder(h)' = IF h = p THEN InsertAt(rest, PlaceOf(rest, b), c) ELSE rest
  <2>1. h \in Handles /\ Live(h) /\ TreeInv /\ Ordered(topo)
    BY <1>1 DEF OrderInv, TreeInv, LinksInv, SlotsInv, SlotsTypeOK, LiveHandles
  <2>2. ListOf(topo, h, ChildrenInOrder(h))
    BY <1>1, <2>1, ListOfAll
  <2>3. Live(h)'
    BY <1>1, <2>1 DEF PlaceBefore, slotVars, Live
  <2> DEFINE s == ChildrenInOrder(h)
             rest == Filtered(s, Handles \ {c})
             r == IF h = p THEN InsertAt(rest, PlaceOf(rest, b), c) ELSE rest
  <2> HIDE DEF s
  <2>4. ListOf(topo', h, r)
    BY <1>1, <2>1, <2>2, PlaceLists DEF s
  <2> HIDE DEF r
  <2>5. ChildrenInOrder(h)' = r
    BY <2>1, <2>3, <2>4, ListIsEnumerated
  <2> QED BY <2>5 DEF r, s
<1>2. OrderInv /\ [TreeNext]_treeVars =>
        [\A p, c \in LiveHandles : \A b \in LiveHandles \cup {Null} :
           PlaceBefore(p, c, b, "any") =>
             \A h \in LiveHandles :
               LET rest == Filtered(ChildrenInOrder(h), Handles \ {c})
               IN ChildrenInOrder(h)' =
                    IF h = p THEN InsertAt(rest, PlaceOf(rest, b), c) ELSE rest]_treeVars
  BY <1>1
<1> QED BY <1>2, OrderInvariance, PTL DEF TreeSpec, PlacementsAreExact

-----------------------------------------------------------------------------
(* The ordered forest that the slots implement, step by step.              *)

LEMMA ForestFilters ==
  \A k, c : \A h \in Handles : Abstract!Without(k, c)[h] = Filtered(k[h], Handles \ {c})
<1>1. \A s, keep : Abstract!Filtered(s, keep) = Filtered(s, keep)
  BY DEF Abstract!Filtered, Abstract!FilteredTo, Filtered, FilteredTo
<1> QED BY <1>1 DEF Abstract!Without

LEMMA ForestInserts == \A s, n, c : Abstract!InsertAt(s, n, c) = InsertAt(s, n, c)
  BY DEF Abstract!InsertAt, InsertAt

\* The parent of a node is where its parent link leads.
LEMMA ForestParents ==
  ASSUME OrderInv, NEW c \in LiveHandles
  PROVE  \A h \in Handles : h \in Abstract!Parents(ChildLists, c) <=> topo.parent[Index(c)] = h
<1> SUFFICES ASSUME NEW h \in Handles
             PROVE  h \in Abstract!Parents(ChildLists, c) <=> topo.parent[Index(c)] = h
  OBVIOUS
<1> DEFINE s == ChildLists[h]
<1>1. h \in Abstract!Parents(ChildLists, c) <=> \E k \in DOMAIN s : s[k] = c
  BY DEF Abstract!Parents, Abstract!IsKid, Abstract!ToSet
<1>2. /\ s \in Seq(Handles) /\ (Live(h) => ListOf(topo, h, s)) /\ (~Live(h) => s = <<>>)
      /\ LinksInv /\ AllLive(topo) /\ Live(c) /\ c \in Link /\ Index(c) \in Slots /\ h # Null
  BY ListOfAll, IssuedLink, LiveNode, NullOutside DEF OrderInv, TreeInv, LiveHandles
<1> HIDE DEF s
<1>3. DOMAIN s = 1 .. Len(s)
  BY <1>2, LenProperties
<1>4. CASE Live(h)
  <2>1. ASSUME NEW k \in 1 .. Len(s), s[k] = c PROVE topo.parent[Index(c)] = h
    BY <1>2, <1>4, <2>1 DEF ListOf
  <2>2. ASSUME topo.parent[Index(c)] = h PROVE \E k \in 1 .. Len(s) : s[k] = c
    BY <1>2, <1>4, <2>2, ChildPlace
  <2> QED BY <1>1, <1>3, <2>1, <2>2
<1>5. CASE ~Live(h)
  <2>1. topo.parent[Index(c)] # h
    BY <1>2, <1>5 DEF AllLive, ColumnLive
  <2>2. Len(s) = 0
    BY <1>2, <1>5
  <2> QED BY <1>1, <1>3, <2>1, <2>2
<1> QED BY <1>4, <1>5

\* What the code finds above p is above p in the forest.
LEMMA ForestAbove ==
  ASSUME OrderInv, NEW p \in LiveHandles, NEW c \in LiveHandles, ~OnChain(topo, Index(p), Index(c))
  PROVE  c \notin Abstract!Above(p)
<1>1. PICK T \in SUBSET Slots : Index(p) \in T /\ UpClosed(topo, T) /\ Index(c) \notin T
  BY DEF OnChain
<1> DEFINE S == {a \in LiveHandles : Index(a) \in T}
<1>2. p \in S /\ c \notin S /\ S \in SUBSET LiveHandles
  BY <1>1
<1>3. ASSUME NEW a \in S PROVE Abstract!Parents(ChildLists, a) \subseteq S
  <2> SUFFICES ASSUME NEW h \in Abstract!Parents(ChildLists, a) PROVE h \in S
    OBVIOUS
  <2>1. h \in Handles
    BY DEF Abstract!Parents
  <2>2. topo.parent[Index(a)] = h
    BY <2>1, ForestParents
  <2>3. Index(a) \in Slots /\ h # Null
    BY <2>1, LiveNode, NullOutside DEF LiveHandles
  <2>4. Live(h) /\ h \in Link /\ LinksInv
    BY <2>1, <2>2, <2>3 DEF OrderInv, TreeInv, AllLive, ColumnLive, Link
  <2>5. Index(h) \in T
    BY <1>1, <2>2, <2>3 DEF UpClosed
  <2> QED BY <2>4, <2>5, LiveLink
<1> HIDE DEF S
<1> QED BY <1>2, <1>3 DEF Abstract!Above

\* A create is a birth.
LEMMA CreateIsBirth == ASSUME OrderInv, Create PROVE \E n \in Handles : Abstract!BirthOf(n)
<1>1. TreeInv /\ LinksInv /\ issued \in SUBSET Handles
  BY DEF OrderInv, TreeInv, LinksInv, SlotsInv, SlotsTypeOK
<1>2. PICK n \in Handles \ issued :
        /\ issued' = issued \cup {n} /\ ~Live(n)
        /\ \A h \in Handles : Live(h)' <=> Live(h) \/ h = n
        /\ topo' = topo /\ ListOf(topo, n, <<>>)
  BY <1>1, CreateLists
<1>3. LiveHandles' = LiveHandles \cup {n}
  BY <1>1, <1>2 DEF LiveHandles
<1>4. ASSUME NEW h \in Handles PROVE ChildrenInOrder(h)' = ChildrenInOrder(h)
  <2>1. CASE Live(h)
    <3>1. ListOf(topo', h, ChildLists[h]) /\ ChildLists[h] = ChildrenInOrder(h)
      BY <1>2, <2>1, ListOfAll
    <3> DEFINE s == ChildLists[h]
    <3> HIDE DEF s
    <3>2. Live(h)' /\ ListOf(topo', h, s)
      BY <1>2, <2>1, <3>1 DEF s
    <3>3. ChildrenInOrder(h)' = s
      BY <3>2, ListIsEnumerated
    <3> QED BY <3>1, <3>3 DEF s
  <2>2. CASE ~Live(h) /\ h = n
    <3>1. ChildrenInOrder(h) = <<>>
      BY <2>2 DEF ChildrenInOrder
    <3>2. ChildrenInOrder(h)' = <<>>
      BY <1>2, <2>2, ListIsEnumerated
    <3> QED BY <3>1, <3>2
  <2>3. CASE ~Live(h) /\ h # n
    BY <1>2, <2>3 DEF ChildrenInOrder
  <2> QED BY <2>1, <2>2, <2>3
<1>5. ChildLists' = ChildLists
  BY <1>4 DEF ChildLists
<1> QED BY <1>2, <1>3, <1>5 DEF Abstract!BirthOf

\* The list without c is not longer.
LEMMA ForestRest ==
  ASSUME OrderInv, NEW p \in LiveHandles, NEW c \in LiveHandles
  PROVE  Len(Filtered(ChildLists[p], Handles \ {c})) <= Len(ChildLists[p])
<1> DEFINE s == ChildLists[p]
<1>1. /\ p \in Handles /\ c \in Handles /\ c \in Link /\ Live(p) /\ Live(c) /\ LinksInv /\ AllLive(topo)
  BY DEF OrderInv, TreeInv, LinksInv, SlotsInv, SlotsTypeOK, LiveHandles, Link
<1>2. s \in Seq(Handles) /\ ListOf(topo, p, s) /\ Len(s) \in Nat
  BY <1>1, ListOfAll, LenProperties
<1> HIDE DEF s
<1>3. CASE topo.parent[Index(c)] = p
  <2>1. PICK m \in 1 .. Len(s) : s[m] = c
    BY <1>1, <1>2, <1>3, ChildPlace
  <2>2. \A k \in 1 .. Len(s) : s[k] \in Handles \ {c} <=> k # m
    <3>1. \A k \in 1 .. Len(s) : s[k] \in Handles
      BY <1>2, AtList
    <3>2. \A k \in 1 .. Len(s) : s[k] = c => k = m
      BY <1>2, <2>1 DEF ListOf
    <3> QED BY <2>1, <3>1, <3>2
  <2>3. Dropped(Filtered(s, Handles \ {c}), s, m)
    BY <1>2, <2>2, FilteredIsDropped
  <2> QED BY <1>2, <2>3 DEF Dropped, s
<1>4. CASE topo.parent[Index(c)] # p
  <2>1. Filtered(s, Handles \ {c}) = s
    BY <1>2, <1>4, NoPlace
  <2> QED BY <1>2, <2>1 DEF s
<1> QED BY <1>3, <1>4

\* A placement is one in the forest, at the place of the anchor.
LEMMA PlaceIsPut ==
  ASSUME OrderInv, NEW p \in LiveHandles, NEW c \in LiveHandles, NEW b \in LiveHandles \cup {Null},
         NEW mode, PlaceBefore(p, c, b, mode)
  PROVE  \E i \in 1 .. Len(ChildLists[p]) + 1 : Abstract!Put(p, c, i)
<1> DEFINE keep == Handles \ {c}
           all == Abstract!Without(ChildLists, c)
           rest == Filtered(ChildLists[p], keep)
           i == PlaceOf(rest, b)
<1>1. /\ p \in Handles /\ c \in Handles /\ Live(p) /\ Live(c) /\ TreeInv /\ Ordered(topo)
      /\ c \notin Abstract!Above(p)
      /\ UNCHANGED slotVars
  BY ForestAbove DEF PlaceBefore, OrderInv, TreeInv, LinksInv, SlotsInv, SlotsTypeOK, LiveHandles
<1>2. \A h : Live(h)' <=> Live(h)
  BY <1>1 DEF slotVars, Live
<1>3. LiveHandles' = LiveHandles /\ issued' = issued
  BY <1>1, <1>2 DEF slotVars, LiveHandles
<1>4. all = [h \in Handles |-> Filtered(ChildLists[h], keep)]
  <2>1. all = [h \in Handles |-> all[h]]
    BY DEF Abstract!Without
  <2>2. \A h \in Handles : all[h] = Filtered(ChildLists[h], keep)
    BY ForestFilters
  <2> HIDE DEF all
  <2> QED BY <2>1, <2>2
<1>5. i \in 1 .. Len(rest) + 1
  <2>1. ListOf(topo, p, ChildLists[p])
    BY <1>1, ListOfAll
  <2> DEFINE s == ChildLists[p]
  <2> HIDE DEF s
  <2> QED BY <1>1, <2>1, PlaceLists DEF s
<1>6. ASSUME NEW h \in Handles
      PROVE  ChildrenInOrder(h)' = IF h = p THEN InsertAt(rest, i, c) ELSE Filtered(ChildLists[h], keep)
  <2>1. CASE Live(h)
    <3> DEFINE s == ChildLists[h]
               own == Filtered(s, keep)
               r == IF h = p THEN InsertAt(own, PlaceOf(own, b), c) ELSE own
    <3>1. ListOf(topo, h, s)
      BY <2>1, ListOfAll
    <3> HIDE DEF s
    <3>2. ListOf(topo', h, r)
      BY <1>1, <2>1, <3>1, PlaceLists
    <3> HIDE DEF r
    <3>3. ChildrenInOrder(h)' = r
      BY <1>2, <2>1, <3>2, ListIsEnumerated
    <3> QED BY <3>3 DEF r, s
  <2>2. CASE ~Live(h)
    <3>1. h # p /\ ChildLists[h] = <<>> /\ ~Live(h)'
      BY <1>1, <1>2, <2>2, ListOfAll
    <3>2. ChildrenInOrder(h)' = <<>>
      BY <3>1 DEF ChildrenInOrder
    <3> QED BY <3>1, <3>2, FilterEmpty
  <2> QED BY <2>1, <2>2
<1>7. ChildLists' = [all EXCEPT ![p] = InsertAt(all[p], i, c)]
  <2>1. ChildLists' = [h \in Handles |-> IF h = p THEN InsertAt(rest, i, c) ELSE Filtered(ChildLists[h], keep)]
    <3> HIDE DEF rest, i
    <3> QED BY <1>6 DEF ChildLists
  <2>2. all[p] = rest
    BY <1>1, <1>4
  <2> HIDE DEF i, rest, all
  <2> QED BY <1>1, <1>4, <2>1, <2>2
<1>8. i \in 1 .. Len(ChildLists[p]) + 1
  <2>1. Len(rest) <= Len(ChildLists[p])
    BY ForestRest
  <2>2. Len(ChildLists[p]) \in Nat
    BY <1>1, ListOfAll, LenProperties
  <2>3. Len(rest) \in Nat
    <3>1. rest \in Seq(Handles \cap keep)
      BY <1>1, ListOfAll, FilterType
    <3> QED BY <3>1, LenProperties
  <2> HIDE DEF i, rest
  <2> QED BY <1>5, <2>1, <2>2, <2>3
<1>9. all[p] = rest /\ Abstract!InsertAt(all[p], i, c) = InsertAt(all[p], i, c)
  BY <1>1, <1>4, ForestInserts
<1> HIDE DEF rest, i
<1>10. Abstract!Put(p, c, i)
  BY <1>1, <1>3, <1>5, <1>7, <1>9 DEF Abstract!Put
<1> QED BY <1>8, <1>10

\* Taking c out of its list does so in the forest, whether c stays or dies.
LEMMA LoosenedLists ==
  ASSUME OrderInv, NEW c \in Handles, Live(c), topo' = Loose(Index(c)),
         \A h \in Handles : Live(h)' => Live(h),
         \A h \in Handles : Live(h) /\ ~Live(h)' => ChildLists[h] = <<>>
  PROVE  ChildLists' = Abstract!Without(ChildLists, c)
<1> DEFINE all == Abstract!Without(ChildLists, c)
           keep == Handles \ {c}
<1>1. LinksInv /\ AllLive(topo) /\ Ordered(topo)
  BY DEF OrderInv, TreeInv
<1>2. all = [h \in Handles |-> all[h]]
  BY DEF Abstract!Without
<1>3. \A h \in Handles : all[h] = Filtered(ChildLists[h], keep)
  BY ForestFilters
<1> HIDE DEF all
<1>4. ASSUME NEW h \in Handles PROVE ChildrenInOrder(h)' = Filtered(ChildLists[h], keep)
  <2> DEFINE s == ChildLists[h]
             r == Filtered(s, keep)
  <2>1. CASE Live(h)'
    <3>1. Live(h) /\ ListOf(topo, h, s)
      BY <2>1, ListOfAll
    <3> HIDE DEF s
    <3>2. ListOf(topo', h, r)
      BY <1>1, <3>1, LooseLists
    <3> HIDE DEF r
    <3>3. ChildrenInOrder(h)' = r
      BY <2>1, <3>2, ListIsEnumerated
    <3> QED BY <3>3 DEF r, s
  <2>2. CASE ~Live(h)'
    <3>1. s = <<>>
      BY <2>2, ListOfAll
    <3>2. ChildrenInOrder(h)' = <<>>
      BY <2>2 DEF ChildrenInOrder
    <3> QED BY <3>1, <3>2, FilterEmpty
  <2> QED BY <2>1, <2>2
<1>5. ChildLists' = [h \in Handles |-> Filtered(ChildLists[h], keep)]
  BY <1>4 DEF ChildLists
<1>6. all = [h \in Handles |-> Filtered(ChildLists[h], keep)]
  BY <1>2, <1>3
<1> QED BY <1>5, <1>6 DEF all

\* A node that leaves its parent and lives on: a removal, or the root of a
\* subtree that is to be destroyed.
LEMMA LoosenIsDetach ==
  ASSUME OrderInv, NEW c \in LiveHandles, topo.parent[Index(c)] # Null,
         topo' = Loose(Index(c)), UNCHANGED slotVars
  PROVE  Abstract!Detach(c)
<1>1. /\ c \in Handles /\ Live(c) /\ Index(c) \in Slots /\ topo \in Columns
  BY LiveNode DEF OrderInv, TreeInv, LinksInv, SlotsInv, SlotsTypeOK, LiveHandles
<1>2. \A h : Live(h)' <=> Live(h)
  BY DEF slotVars, Live
<1>3. LiveHandles' = LiveHandles /\ issued' = issued
  BY <1>2 DEF slotVars, LiveHandles
<1>4. ChildLists' = Abstract!Without(ChildLists, c)
  BY <1>1, <1>2, LoosenedLists
<1>5. Abstract!Parents(ChildLists, c) # {}
  <2>1. topo.parent[Index(c)] \in Handles
    BY <1>1, ColumnsSpotted DEF Link
  <2> QED BY <2>1, ForestParents
<1> QED BY <1>3, <1>4, <1>5 DEF Abstract!Detach

\* The walk drops a node without children that is a root or a first child.
LEMMA VisitIsDrop == ASSUME OrderInv, WalkVisit PROVE walk.cursor \in Handles /\ Abstract!Drop(walk.cursor)
<1> DEFINE n == walk.cursor
           i == Index(n)
<1>1. /\ n # Null /\ Live(n) /\ i \in Slots /\ issued' = issued
      /\ alive' = [alive EXCEPT ![i] = FALSE] /\ generation' = generation
      /\ topo.first[i] = Null
  BY LiveNode DEF WalkVisit, Kill, FirstChild
<1>2. /\ TreeInv /\ LinksInv /\ AllLive(topo) /\ topo \in Columns /\ n \in Link
      /\ alive \in [Slots -> BOOLEAN]
  BY DEF OrderInv, TreeInv, LinksInv, SlotsInv, SlotsTypeOK, Walks
<1>3. n \in Handles /\ n \in LiveHandles
  BY <1>1, <1>2, LiveLink
<1>4. topo' = Loose(i)
  BY <1>2, VisitLoosens
<1>5. \A h : Live(h)' <=> Live(h) /\ Index(h) # i
  BY <1>1, <1>2 DEF Live
<1>6. \A h \in Handles : Live(h)' <=> Live(h) /\ h # n
  <2>1. \A h \in Handles : Live(h) /\ Index(h) = i => h = n
    BY <1>1, <1>2, LiveApart DEF Link
  <2> QED BY <1>5, <2>1
<1>7. LiveHandles' = LiveHandles \ {n}
  <2>1. issued \in SUBSET Handles
    BY <1>2 DEF LinksInv, SlotsInv, SlotsTypeOK
  <2> QED BY <1>1, <1>6, <2>1 DEF LiveHandles
<1>8. ChildLists[n] = <<>>
  <2> DEFINE s == ChildLists[n]
  <2>1. s \in Seq(Handles) /\ ListOf(topo, n, s)
    BY <1>1, <1>3, ListOfAll
  <2> HIDE DEF s
  <2>2. At(s, 1) = Null
    BY <1>1, <2>1 DEF ListOf
  <2>3. Len(s) \in Nat /\ 1 \notin 1 .. Len(s)
    BY <2>1, <2>2, AtList
  <2>4. s = <<>>
    BY <2>1, <2>3, EmptySeq
  <2> QED BY <2>4 DEF s
<1>9. ChildLists' = Abstract!Without(ChildLists, n)
  BY <1>1, <1>3, <1>4, <1>6, <1>8, LoosenedLists
<1>10. ASSUME NEW p \in Abstract!Parents(ChildLists, n) PROVE ChildLists[p][1] = n
  <2>1. p \in Handles
    BY DEF Abstract!Parents
  <2>2. topo.parent[i] = p /\ p # Null
    BY <1>3, <2>1, ForestParents, NullOutside
  <2>3. Live(p)
    BY <1>1, <1>2, <2>2 DEF AllLive, ColumnLive
  <2> DEFINE s == ChildLists[p]
  <2>4. s \in Seq(Handles) /\ ListOf(topo, p, s)
    BY <2>1, <2>3, ListOfAll
  <2> HIDE DEF s
  <2>5. PICK m \in 1 .. Len(s) : s[m] = n
    BY <1>1, <1>2, <2>1, <2>2, <2>4, ChildPlace
  <2>6. topo.prev[i] = Null
    BY <1>1, ChainSelf DEF OrderInv, WalkLeft
  <2>7. At(s, m - 1) = Null
    BY <2>4, <2>5, <2>6 DEF ListOf
  <2>8. Len(s) \in Nat /\ m - 1 \notin 1 .. Len(s)
    BY <2>4, <2>7, AtList
  <2>9. m = 1
    BY <2>8
  <2> QED BY <2>5, <2>9 DEF s
<1> QED BY <1>1, <1>3, <1>7, <1>8, <1>9, <1>10 DEF Abstract!Drop

\* A client sees no difference while no handle starts or stops to resolve and
\* the links stay.
LEMMA NothingSeen ==
  ASSUME \A h : Live(h)' <=> Live(h), issued' = issued, topo' = topo
  PROVE  UNCHANGED Abstract!forestVars
<1>1. LiveHandles' = LiveHandles
  BY DEF LiveHandles
<1>2. \A h : ChildrenInOrder(h)' = ChildrenInOrder(h)
  BY DEF ChildrenInOrder
<1>3. ChildLists' = ChildLists
  BY <1>2 DEF ChildLists
<1> QED BY <1>1, <1>3 DEF Abstract!forestVars

LEMMA ForestBegins == ASSUME TreeInit PROVE Abstract!ForestInit
<1>1. issued = {} /\ LiveHandles = {}
  BY DEF TreeInit, SlotsInit, LiveHandles
<1>2. \A h : ~Live(h)
  BY DEF TreeInit, SlotsInit, Live
<1>3. ChildLists = [h \in Handles |-> <<>>]
  BY <1>2 DEF ChildLists, ChildrenInOrder
<1> QED BY <1>1, <1>3 DEF Abstract!ForestInit

LEMMA ForestSteps ==
  OrderInv /\ [TreeNext]_treeVars => [Abstract!ForestNext]_(Abstract!forestVars)
<1> SUFFICES ASSUME OrderInv, [TreeNext]_treeVars
             PROVE  Abstract!ForestNext \/ UNCHANGED Abstract!forestVars
  OBVIOUS
<1>0. TreeInv /\ LinksInv /\ issued \in SUBSET Handles
  BY DEF OrderInv, TreeInv, LinksInv, SlotsInv, SlotsTypeOK
<1>1. CASE UNCHANGED treeVars
  <2>1. (\A h : Live(h)' <=> Live(h)) /\ issued' = issued /\ topo' = topo
    BY <1>1 DEF treeVars, Live
  <2> QED BY <2>1, NothingSeen
<1>2. CASE Create
  BY <1>2, CreateIsBirth DEF Abstract!ForestNext
<1>3. ASSUME NEW p \in LiveHandles, NEW c \in LiveHandles, NEW b \in LiveHandles \cup {Null}, NEW mode,
             PlaceBefore(p, c, b, mode)
      PROVE  Abstract!ForestNext
  <2>1. PICK i \in 1 .. Len(ChildLists[p]) + 1 : Abstract!Put(p, c, i)
    BY <1>3, PlaceIsPut
  <2>2. c \in Handles
    BY <1>0 DEF LiveHandles
  <2> QED BY <2>1, <2>2 DEF Abstract!ForestNext
<1>4. ASSUME NEW p \in LiveHandles, NEW c \in LiveHandles, NodeRemove(p, c) PROVE Abstract!ForestNext
  <2>1. c \in Handles /\ p \in Handles
    BY <1>0 DEF LiveHandles
  <2>2. /\ UNCHANGED slotVars /\ topo.parent[Index(c)] = p
        /\ topo' = Unlink(topo, Index(p), Index(c))
    BY <1>4 DEF NodeRemove
  <2>3. topo.parent[Index(c)] # Null /\ topo' = Loose(Index(c))
    BY <2>1, <2>2, NullOutside DEF Loose
  <2>4. Abstract!Detach(c)
    BY <2>2, <2>3, LoosenIsDetach
  <2> QED BY <2>1, <2>4 DEF Abstract!ForestNext
<1>5. ASSUME NEW h \in issued, DestroyBegin(h)
      PROVE  Abstract!ForestNext \/ UNCHANGED Abstract!forestVars
  <2>1. topo' = Loose(Index(h)) /\ Live(h) /\ UNCHANGED slotVars /\ h \in Handles /\ h \in LiveHandles
    BY <1>0, <1>5 DEF DestroyBegin, Loose, LiveHandles
  <2>2. CASE topo.parent[Index(h)] # Null
    <3>1. Abstract!Detach(h)
      BY <2>1, <2>2, LoosenIsDetach
    <3> QED BY <2>1, <3>1 DEF Abstract!ForestNext
  <2>3. CASE topo.parent[Index(h)] = Null
    <3>1. (\A g : Live(g)' <=> Live(g)) /\ issued' = issued /\ topo' = topo
      BY <2>1, <2>3 DEF slotVars, Live, Loose
    <3> QED BY <3>1, NothingSeen
  <2> QED BY <2>2, <2>3
<1>6. CASE WalkDown
  <2>1. (\A h : Live(h)' <=> Live(h)) /\ issued' = issued /\ topo' = topo
    BY <1>6 DEF WalkDown, slotVars, Live
  <2> QED BY <2>1, NothingSeen
<1>7. CASE WalkVisit
  BY <1>7, VisitIsDrop DEF Abstract!ForestNext
<1>8. CASE WalkResume
  <2>1. (\A h : Live(h)' <=> Live(h)) /\ issued' = issued /\ topo' = topo
    BY <1>0, <1>8, ResumeSlots DEF WalkResume
  <2> QED BY <2>1, NothingSeen
<1>9. CASE \E p, c \in LiveHandles :
             \/ NodeAppend(p, c)
             \/ NodeRemove(p, c)
             \/ \E b \in LiveHandles \cup {Null} :
                  NodeInsert(p, c, b) \/ NodeMove(p, c, b) \/ NodeReparent(p, c, b)
  BY <1>3, <1>4, <1>9 DEF NodeAppend, NodeInsert, NodeMove, NodeReparent
<1> QED BY <1>1, <1>2, <1>5, <1>6, <1>7, <1>8, <1>9 DEF TreeNext, WalkStep

(***************************************************************************)
(* Links, slots and generations implement the ordered forest: whatever is  *)
(* called, with stale handles or live ones, a client that enumerates       *)
(* children sees the lists that creating, placing, removing and destroying *)
(* should have left, and a destroy takes leaves off from the left.         *)
(***************************************************************************)
THEOREM TreeImplementsForest == TreeSpec => ImplementsForest
<1>1. TreeInit => Abstract!ForestInit
  BY ForestBegins
<1>2. OrderInv /\ [TreeNext]_treeVars => [Abstract!ForestNext]_(Abstract!forestVars)
  BY ForestSteps
<1> QED BY <1>1, <1>2, OrderInvariance, PTL DEF TreeSpec, ImplementsForest, Abstract!ForestSpec
=============================================================================
