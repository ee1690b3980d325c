----------------------------- MODULE DirtyTree ------------------------------
(***************************************************************************)
(* Dirty propagation (src/core/xent_dirty.c) over the node tree: the dirty *)
(* flags of every slot, and dirty_nodes, the queue of nodes that need a    *)
(* layout pass.  The actions are those of NodeTree with the calls of       *)
(* xent_mark_dirty that the same handlers make, plus the style setters and *)
(* what a layout pass does to flags and queue.                             *)
(*                                                                         *)
(* Destroying a node leaves its entry in the queue; the entry is stale     *)
(* until the next layout compacts the queue, and by then the slot may      *)
(* belong to another node with an entry of its own.                        *)
(***************************************************************************)
EXTENDS NodeTree, SequencesExt, Filtering

CONSTANT QueueChunk   \* the first capacity of dirty_nodes (64 in the code)

ASSUME QueueAssumption == QueueChunk \in Nat \ {0}

Flags == {"self", "subtree", "layout"}

VARIABLE
  dirt   \* flags and queued: the columns; queue and cap: dirty_nodes

dirtyVars == <<alive, generation, count, freeList, freeCap, dying, issued, topo, walk, doomed, dirt>>

DirtyInit ==
  /\ TreeInit
  /\ dirt = [flags  |-> [i \in Slots |-> {}],
             queued |-> [i \in Slots |-> FALSE],
             queue  |-> <<>>,
             cap    |-> 0]

\* xent_dirty_direct: the node itself needs a pass, not only its subtree.
Direct(flags) == flags \cap {"layout", "self"} # {}

-----------------------------------------------------------------------------
(***************************************************************************)
(* note_direct_dirty and ensure_dirty_capacity: what the dirty state d may *)
(* become when h is queued.  When the queue cannot grow the node is        *)
(* silently left out of it.                                                *)
(***************************************************************************)
QueuedInFront(d, h) ==  \* faulty: a stack instead of a queue
  IF d.queued[Index(h)] \/ ~Direct(d.flags[Index(h)]) THEN {d}
  ELSE {[d EXCEPT !.queued[Index(h)] = TRUE, !.queue = <<h>> \o @, !.cap = Len(d.queue) + 1]}

Queued(d, h) ==
  LET i == Index(h)
      room == IF d.cap = 0 THEN QueueChunk ELSE 2 * d.cap
      put(cap) == [d EXCEPT !.queued[i] = TRUE, !.queue = Append(@, h), !.cap = cap]
  IN IF d.queued[i] \/ ~Direct(d.flags[i]) THEN {d}
     ELSE IF Len(d.queue) < d.cap THEN {put(d.cap)}
     ELSE {put(room)} \cup (IF Faults THEN {d} ELSE {})

(***************************************************************************)
(* xent_mark_dirty(h, flags) in topology t.  Its callers pass live nodes:  *)
(* the setters test that themselves, and links name live nodes only        *)
(* (LinksAreLive).                                                         *)
(***************************************************************************)
MarkedToParent(d, t, h, flags) ==  \* faulty: tells the parent only
  LET i == Index(h)
      spread == [j \in Slots |->
                   IF j = i THEN d.flags[j] \cup flags \cup {"self"}
                   ELSE IF j = Index(t.parent[i]) THEN d.flags[j] \cup {"subtree"}
                   ELSE d.flags[j]]
  IN Queued([d EXCEPT !.flags = spread], h)

Marked(d, t, h, flags) ==
  LET i == Index(h)
      spread == [j \in Slots |->
                   IF j = i THEN d.flags[j] \cup flags \cup {"self"}
                   ELSE IF OnChain(t, i, j) THEN d.flags[j] \cup {"subtree"}
                   ELSE d.flags[j]]
  IN Queued([d EXCEPT !.flags = spread], h)

Forgotten(d, i) == [d EXCEPT !.flags[i] = {}, !.queued[i] = FALSE]

(***************************************************************************)
(* xent_compact_dirty_nodes: entries of live, directly dirty nodes stay in *)
(* order.  The loop writes dirty_queued of the slot of every entry it      *)
(* passes, so for a slot with several entries the last one counts.         *)
(***************************************************************************)
Kept(d, h) == Live(h) /\ Direct(d.flags[Index(h)])
KeptEntries(d) == Filtered(d.queue, {h \in Handles : Kept(d, h)})

CompactedByFirst(d) ==  \* faulty: the first entry of a slot counts
  [d EXCEPT
     !.queue = KeptEntries(d),
     !.queued = [i \in Slots |->
       LET mine == {k \in 1 .. Len(d.queue) : Index(d.queue[k]) = i}
       IN IF mine = {} THEN d.queued[i]
          ELSE Kept(d, d.queue[CHOOSE k \in mine : \A m \in mine : k <= m])]]

Compacted(d) ==
  [d EXCEPT
     !.queue = KeptEntries(d),
     !.queued = [i \in Slots |->
       LET mine == {k \in 1 .. Len(d.queue) : Index(d.queue[k]) = i}
       IN IF mine = {} THEN d.queued[i]
          ELSE Kept(d, d.queue[CHOOSE k \in mine : \A m \in mine : m <= k])]]

\* xent_dirty_clear_order for the nodes of a work order.
Cleared(d, work) ==
  LET slots == {Index(h) : h \in work}
  IN Compacted(
       [d EXCEPT
          !.flags = [i \in Slots |-> IF i \in slots THEN {} ELSE d.flags[i]],
          !.queued = [i \in Slots |-> i \notin slots /\ d.queued[i]]])

-----------------------------------------------------------------------------
(* The calls of NodeTree with their marks.                                 *)

DirtyCreate ==
  /\ Create
  /\ LET h == <<NextSlot, generation'[NextSlot]>>
     IN dirt' \in Marked(Forgotten(dirt, NextSlot), topo', h, {"layout"})

ParentMarks == {"subtree", "layout"}

DirtyPlace(p, c, b, mode) ==
  /\ PlaceBefore(p, c, b, mode)
  /\ LET old == topo.parent[Index(c)]
     IN \E d \in IF old \in {Null, p} THEN {dirt} ELSE Marked(dirt, topo', old, ParentMarks) :
          dirt' \in Marked(d, topo', p, ParentMarks)

DirtyRemove(p, c) ==
  /\ NodeRemove(p, c)
  /\ dirt' \in Marked(dirt, topo', p, ParentMarks)

DirtyDestroyBegin(h) ==
  /\ DestroyBegin(h)
  /\ LET p == topo.parent[Index(h)]
     IN dirt' \in IF p = Null THEN {dirt} ELSE Marked(dirt, topo', p, ParentMarks)

DirtyVisit ==
  /\ WalkVisit
  /\ dirt' = Forgotten(dirt, Index(walk.cursor))

DirtyWalkStep == ((WalkDown \/ WalkResume) /\ UNCHANGED dirt) \/ DirtyVisit

(***************************************************************************)
(* A setter of a style column (mark LAYOUT, for the direction SUBTREE as   *)
(* well) or of a semantic column (mark SELF).  Unlike the topology calls   *)
(* it is allowed inside observers.                                         *)
(***************************************************************************)
SetColumn(h, flags) ==
  /\ ClientRuns
  /\ Live(h)
  /\ dirt' \in Marked(dirt, topo, h, flags)
  /\ UNCHANGED treeVars

(***************************************************************************)
(* invalidate_all_layout (a new scale or rounding mode): every live node   *)
(* gets all the flags, and nothing is queued.                              *)
(***************************************************************************)
InvalidateAll ==
  /\ ClientRuns
  /\ dirt' = [dirt EXCEPT !.flags = [i \in Slots |-> IF alive[i] THEN Flags ELSE @[i]]]
  /\ UNCHANGED treeVars

(***************************************************************************)
(* What a layout pass does here: it compacts the queue, lays out whole     *)
(* subtrees and clears their nodes.  Which subtrees is decided by module   *)
(* LayoutDriver; here they are arbitrary, none at all included.            *)
(***************************************************************************)
LayoutPass(roots) ==
  /\ ClientRuns
  /\ dirt' = Cleared(Compacted(dirt), UNION {Subtree(r) : r \in roots})
  /\ UNCHANGED treeVars

\* The work order of a pass cannot grow: the call fails after compacting.
LayoutFailure ==
  /\ ClientRuns
  /\ Faults
  /\ dirt' = Compacted(dirt)
  /\ UNCHANGED treeVars

DirtyNext ==
  \/ DirtyCreate
  \/ \E p, c \in LiveHandles :
       \/ DirtyRemove(p, c)
       \/ DirtyPlace(p, c, Null, "any")
       \/ \E b \in LiveHandles \cup {Null}, mode \in {"insert", "move", "reparent"} :
            DirtyPlace(p, c, b, mode)
  \/ \E h \in issued :
       \/ DirtyDestroyBegin(h)
       \/ \E marks \in {{"layout"}, {"self"}, {"layout", "subtree"}} : SetColumn(h, marks)
  \/ DirtyWalkStep
  \/ InvalidateAll
  \/ \E roots \in SUBSET LiveHandles : LayoutPass(roots)
  \/ LayoutFailure

DirtySpec == DirtyInit /\ [][DirtyNext]_dirtyVars

-----------------------------------------------------------------------------
DirtyTypeOK ==
  /\ TreeTypeOK
  /\ dirt \in [flags  : [Slots -> SUBSET Flags],
               queued : [Slots -> BOOLEAN],
               queue  : Seq(Handles),
               cap    : Nat]

\* The entries of one slot stand in the order of their generations: the
\* compaction reads the current node's entry last.
StaleEntriesFirst ==
  \A j, k \in 1 .. Len(dirt.queue) :
    /\ j < k
    /\ Index(dirt.queue[j]) = Index(dirt.queue[k])
    => Generation(dirt.queue[j]) < Generation(dirt.queue[k])

(***************************************************************************)
(* dirty_queued says exactly whether the node in the slot has an entry,    *)
(* and no node has two, also right after a compaction that met a stale     *)
(* entry of a slot that has been reused.                                   *)
(***************************************************************************)
QueueMatchesColumn ==
  /\ DirtyTypeOK
  /\ \A i \in Slots : dirt.queued[i] <=> alive[i] /\ HandleOf(i) \in ToSet(dirt.queue)
  /\ StaleEntriesFirst

\* A directly dirty node shows at every ancestor as a dirty subtree.
AncestorsKnow ==
  \A i, j \in Slots :
    /\ alive[i]
    /\ Direct(dirt.flags[i])
    /\ i # j
    /\ OnChain(topo, i, j)
    => "subtree" \in dirt.flags[j]

(***************************************************************************)
(* A node that is marked stays queued until a pass clears it: no call      *)
(* other than a layout pass or its own destruction takes a node off the    *)
(* queue, whatever happens to the slots of other nodes.                    *)
(***************************************************************************)
OnlyPassesDequeue ==
  [][\A i \in Slots :
       dirt.queued[i] /\ alive[i] /\ alive'[i] /\ ~dirt'.queued[i]
         => dirt'.flags[i] = {}]_dirtyVars
=============================================================================
