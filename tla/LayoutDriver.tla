---------------------------- MODULE LayoutDriver ----------------------------
(***************************************************************************)
(* xent_layout (src/layout/xent_layout_dispatch.c): given the root and the *)
(* available size it does nothing, lays the whole tree out, or lays out    *)
(* only some subtrees around the dirty nodes, then clears what it covered  *)
(* and remembers what it did for the next call.                            *)
(*                                                                         *)
(* Geometry is abstracted to whose box depends on whom: on the parent's,   *)
(* on those of siblings and on those of the contents, as the layout        *)
(* protocols make it (Influences), whatever the driver takes it to be.     *)
(***************************************************************************)
EXTENDS DirtyTree

CONSTANTS
  ParentOf,  \* the tree below node 1 that a behaviour starts from
  Sizes,     \* available sizes a caller may pass
  Unbounded, \* a size that is not finite
  Kinds,     \* what a node may be, see below
  OnlySteady,\* are trees limited to those that SteadyTree lets pass?
  MaxOps     \* bound on the number of calls of a behaviour

(***************************************************************************)
(* What matters of a node's protocol and style: it is an "absolute"        *)
(* container, or a flow container (flex, stack or grid) of "fixed" size,   *)
(* with both sizes a "percent" of what it is offered, or with an "auto"    *)
(* axis; or a flex container that wraps its contents along its main axis   *)
(* ("fit") or across it, within what it is offered ("snug", which stands   *)
(* for one with a percentage along one axis, too).  The lining kinds align *)
(* their children by their baselines.                                      *)
(***************************************************************************)
LiningKinds == {"fixedLining", "autoLining"}
AutoKinds == {"auto", "fit", "snug", "autoLining"}
FlowKinds == AutoKinds \cup {"fixed", "percent", "fixedLining"}

ASSUME DriverAssumption ==
  /\ ParentOf \in [Slots -> 0 .. MaxSlots]
  /\ \A i \in Slots : ParentOf[i] < i /\ (ParentOf[i] = 0 <=> i = 1)
  /\ Sizes \ {Unbounded} # {}
  /\ "absolute" \in Kinds /\ Kinds \subseteq FlowKinds \cup {"absolute"}
  /\ OnlySteady \in BOOLEAN
  /\ MaxOps \in Nat

VARIABLES
  kind,   \* kind[i]: the protocol and style of slot i
  last,   \* the last_layout_ fields of the context
  stale,  \* history: nodes whose box is out of date
  shown,  \* history: the root and size of the last layout
  done,   \* history: the root and strategy of the call just made
  ops     \* the number of calls made

driverVars == <<alive, generation, count, freeList, freeCap, dying, issued, topo, walk, doomed,
                dirt, kind, last, stale, shown, done, ops>>

NoPass == [root |-> Null, strategy |-> "none", roots |-> {}]

-----------------------------------------------------------------------------
(* What boxes depend on, by the layout protocols.                          *)

IsFlow(h) == kind[Index(h)] \in FlowKinds
Parent(h) == topo.parent[Index(h)]
InFlow(h) == Parent(h) # Null /\ IsFlow(Parent(h))

\* The nodes that a climb from h by the parent links passes when it goes on
\* from those in going: the least set that holds h and the parents of these.
Passed(h, going) ==
  {a \in LiveHandles :
     \A S \in SUBSET LiveHandles : h \in S /\ (\A b \in S \cap going : Parent(b) \in S) => a \in S}

(***************************************************************************)
(* A container takes its size from its contents if it is asked to wrap     *)
(* them, wherever it stands, and if it has no size of its own and its      *)
(* parent measures it with an infinite one, as flow containers do.  A      *)
(* percentage is no size of its own in a container that hugs its contents. *)
(***************************************************************************)
Hugs(h) ==
  \/ kind[Index(h)] \in {"fit", "snug"}
  \/ kind[Index(h)] \in AutoKinds /\ InFlow(h)
  \/ kind[Index(h)] = "percent" /\ InFlow(h) /\ kind[Index(Parent(h))] \in AutoKinds

\* A container that aligns baselines places h by its baseline, or a flow
\* container that holds h at some depth: that follows from the contents of h.
PlacedByBaseline(h) ==
  \E p \in {q \in LiveHandles : kind[Index(q)] \in LiningKinds} :
    \E a \in Passed(h, {b \in LiveHandles : InFlow(b)}) : Parent(a) = p

\* A change of the box of b may change that of a.
Influences(b, a) ==
  \/ Parent(a) = b
  \/ Parent(a) = Parent(b) /\ InFlow(b)
  \/ Parent(b) = a /\ (Hugs(a) \/ (IsFlow(a) /\ PlacedByBaseline(a)))

\* The boxes below root that changes of those in S may change.
Influenced(S, root) ==
  LET below == Subtree(root)
      steps == {e \in below \X below : Influences(e[1], e[2])}
  IN {a \in below : \A T \in SUBSET below :
                      S \subseteq T /\ (\A e \in steps : e[1] \in T => e[2] \in T) => a \in T}

\* In a container that is not a flow container a recompute root is offered its
\* own size again: it is a percentage of that, or keeps within it.
Narrowing(h) == Parent(h) # Null /\ ~InFlow(h) /\ kind[Index(h)] \in {"percent", "snug"}

(***************************************************************************)
(* The trees in which a partial pass can do what a full one does: nothing  *)
(* is narrowed; no percentage stands in a container that may hug its       *)
(* contents; and what is placed by its baseline is a container that the    *)
(* climb from its contents passes.                                         *)
(***************************************************************************)
SteadyAt(h) ==
  /\ ~Narrowing(h)
  /\ kind[Index(h)] = "percent" => ~Hugs(h)
  /\ kind[Index(h)] \in FlowKinds \ AutoKinds => ~PlacedByBaseline(h)

SteadyTree == OnlySteady => \A h \in LiveHandles : SteadyAt(h)

-----------------------------------------------------------------------------
(***************************************************************************)
(* Initially the nodes 1 .. MaxSlots have been created, each appended to   *)
(* its parent in order, and the tree has been laid out once: a state that  *)
(* the calls below build, taken as the start to keep behaviours short.     *)
(***************************************************************************)
KidsOf(i) == {c \in Slots : ParentOf[c] = i}
Fresh(i) == IF i = 0 THEN Null ELSE <<i, 1>>
Least(S) == IF S = {} THEN 0 ELSE CHOOSE m \in S : \A s \in S : m <= s
Greatest(S) == IF S = {} THEN 0 ELSE CHOOSE m \in S : \A s \in S : m >= s

DriverInit ==
  /\ alive = [i \in Slots |-> TRUE]
  /\ generation = [i \in Slots |-> 1]
  /\ count = MaxSlots
  /\ freeList = <<>>
  /\ freeCap = 0
  /\ dying = Null
  /\ issued = {<<i, 1>> : i \in Slots}
  /\ topo = [parent |-> [i \in Slots |-> Fresh(ParentOf[i])],
             first  |-> [i \in Slots |-> Fresh(Least(KidsOf(i)))],
             last   |-> [i \in Slots |-> Fresh(Greatest(KidsOf(i)))],
             next   |-> [i \in Slots |->
               IF ParentOf[i] = 0 THEN Null
               ELSE Fresh(Least({c \in KidsOf(ParentOf[i]) : c > i}))],
             prev   |-> [i \in Slots |->
               IF ParentOf[i] = 0 THEN Null
               ELSE Fresh(Greatest({c \in KidsOf(ParentOf[i]) : c < i}))],
             nchild |-> [i \in Slots |-> Cardinality(KidsOf(i))]]
  /\ walk = NoWalk
  /\ doomed = {}
  /\ dirt = [flags  |-> [i \in Slots |-> {}],
             queued |-> [i \in Slots |-> FALSE],
             queue  |-> <<>>,
             cap    |-> QueueChunk * 2 ^ (CHOOSE n \in 0 .. MaxSlots : MaxSlots <= QueueChunk * 2 ^ n)]
  /\ kind \in [Slots -> Kinds]
  /\ \A i \in Slots : KidsOf(i) = {} => kind[i] = "absolute"
  /\ SteadyTree
  /\ last \in [root : {<<1, 1>>}, size : Sizes \ {Unbounded}, nodes : {MaxSlots}]
  /\ stale = {}
  /\ shown = [root |-> last.root, size |-> last.size]
  /\ done = NoPass
  /\ ops = 0

-----------------------------------------------------------------------------
(* Choosing the strategy.                                                  *)

\* promote_dirty_root: first to the parent, then up as long as a flow
\* container with an auto axis stands in a flow parent.
CanPromote(h) == kind[Index(h)] \in AutoKinds /\ InFlow(h)
Promotes(root) == {h \in LiveHandles : h # root /\ CanPromote(h)}
Climb(h, root) == CHOOSE a \in Passed(h, Promotes(root)) : a \notin Promotes(root)

OnlyToParent(h, root) == IF Parent(h) = Null THEN h ELSE Parent(h)  \* faulty: does not climb
Promoted(h, root) == IF Parent(h) = Null THEN h ELSE Climb(Parent(h), root)

\* collect_recompute_roots: none when a dirty node needs the layout root
\* itself, and no root below another.
Nested(h, roots) ==
  \E r \in roots : r # h /\ OnChain(topo, Index(h), Index(r))

RootsWithNested(root, nodes) ==  \* faulty: keeps roots below others
  LET roots == {Promoted(h, root) : h \in nodes}
  IN IF root \in roots THEN {} ELSE roots

RecomputeRoots(root, nodes) ==
  LET roots == {Promoted(h, root) : h \in nodes}
  IN IF root \in roots THEN {} ELSE {r \in roots : ~Nested(r, roots)}

\* The directly dirty nodes of the compacted queue below root.
DirtyBelow(d, root) == {h \in ToSet(d.queue) : h \in Subtree(root)}

\* can_reuse_root_snapshot
SameRoot(root, size) == last.root = root  \* faulty: any size will do
SnapshotValid(root, size) ==
  /\ last.root = root
  /\ last.size # Unbounded
  /\ last.size = size

\* build_dirty_plan: the plan must save at least two nodes of the tree.
Affordable(roots) ==
  /\ roots # {}
  /\ Cardinality(UNION {Subtree(r) : r \in roots}) + 1 < last.nodes

\* select_layout_strategy.  The scratch block of the plan may not be had.
Strategies(d, root, size) ==
  LET nodes == DirtyBelow(d, root)
      clean == ~Direct(d.flags[Index(root)]) /\ SnapshotValid(root, size)
  IN CASE clean /\ nodes = {} -> {"none"}
       [] clean /\ nodes # {} /\ Affordable(RecomputeRoots(root, nodes))
            -> {"dirty"} \cup (IF Faults THEN {"full"} ELSE {})
       [] OTHER -> {"full"}

-----------------------------------------------------------------------------
(***************************************************************************)
(* Laying out roots decides the boxes of the nodes below them anew.  A     *)
(* recompute root keeps its own box in a flow container, and elsewhere     *)
(* makes it from that: wrongly, if it is a percentage of it or keeps       *)
(* within it.                                                              *)
(***************************************************************************)
Decided(roots) ==
  {h \in LiveHandles :
     /\ Parent(h) # Null
     /\ (\E r \in roots : Parent(h) \in Subtree(r)) \/ (h \in roots /\ ~InFlow(h))}

Spoiled(roots) == {r \in roots : Narrowing(r)}

Layout(root, size) ==
  LET before == Compacted(dirt)
  IN /\ ClientRuns
     /\ Live(root)
     /\ \E strategy \in Strategies(before, root, size) :
          LET roots == CASE strategy = "full"  -> {root}
                         [] strategy = "dirty" -> RecomputeRoots(root, DirtyBelow(before, root))
                         [] OTHER              -> {}
              settled == Decided(roots) \cup (IF strategy = "full" THEN {root} ELSE {})
              needed == IF shown = [root |-> root, size |-> size]
                        THEN Influenced(stale \cap Subtree(root), root) ELSE Subtree(root)
          IN /\ dirt' = Cleared(before, UNION {Subtree(r) : r \in roots})
             /\ last' = [root  |-> root,
                         size  |-> size,
                         nodes |-> IF strategy = "full" THEN Cardinality(Subtree(root))
                                   ELSE last.nodes]
             /\ stale' = ((stale \cup needed) \ settled) \cup (Spoiled(roots) \ {root})
             /\ shown' = [root |-> root, size |-> size]
             /\ done' = [root |-> root, strategy |-> strategy, roots |-> roots]
     /\ UNCHANGED <<treeVars, kind>>

\* A pass that is needed fails for want of memory.
LayoutFails(root, size) ==
  /\ Live(root)
  /\ Strategies(Compacted(dirt), root, size) # {"none"}
  /\ LayoutFailure
  /\ UNCHANGED <<kind, last, stale, shown>>
  /\ done' = NoPass

-----------------------------------------------------------------------------
(* The other calls: those of DirtyTree, and whose boxes they put out of    *)
(* date.                                                                   *)

Outdate(nodes) ==
  /\ stale' = {h \in stale \cup nodes : Live(h)'}
  /\ done' = NoPass

\* A new node has the default protocol, whatever its slot held before.
DriverCreate ==
  /\ DirtyCreate
  /\ kind' = [kind EXCEPT ![NextSlot] = "absolute"]
  /\ Outdate({<<NextSlot, generation'[NextSlot]>>})
  /\ UNCHANGED <<last, shown>>

(***************************************************************************)
(* The boxes below h, which its direction may turn around: direction is    *)
(* inherited through the parents (resolve_direction_internal), also from   *)
(* above a layout root, though another layout of the same root never looks *)
(* there.  Boxes below such a root are not counted, and it is laid out the *)
(* same wherever it hangs.                                                 *)
(***************************************************************************)
Inheriting(h) ==
  IF last.root \in Subtree(h) \ {h} THEN Subtree(h) \ Subtree(last.root) ELSE Subtree(h)

Moved(c) == IF c = last.root THEN {} ELSE Inheriting(c)

DriverPlace(p, c) ==
  /\ DirtyPlace(p, c, Null, "any")
  /\ Outdate({p} \cup Moved(c) \cup ({Parent(c)} \ {Null}))
  /\ UNCHANGED <<kind, last, shown>>

DriverRemove(p, c) ==
  DirtyRemove(p, c) /\ Outdate({p} \cup Moved(c)) /\ UNCHANGED <<kind, last, shown>>

DriverDestroyBegin(h) ==
  DirtyDestroyBegin(h) /\ Outdate({Parent(h)} \ {Null}) /\ UNCHANGED <<kind, last, shown>>

DriverWalkStep == DirtyWalkStep /\ Outdate({}) /\ UNCHANGED <<kind, last, shown>>

DriverSetColumn(h) == SetColumn(h, {"layout"}) /\ Outdate({h}) /\ UNCHANGED <<kind, last, shown>>

\* xent_setdir with another direction
DriverSetDirection(h) ==
  SetColumn(h, {"layout", "subtree"}) /\ Outdate(Inheriting(h)) /\ UNCHANGED <<kind, last, shown>>

\* A new protocol or size: a setter of a style column like the others.
SetKind(h, k) ==
  /\ kind[Index(h)] # k
  /\ kind' = [kind EXCEPT ![Index(h)] = k]
  /\ SetColumn(h, {"layout"})
  /\ Outdate({h})
  /\ UNCHANGED <<last, shown>>

InvalidateKeepsLast ==  \* faulty: does not forget the last layout
  InvalidateAll /\ Outdate(LiveHandles) /\ UNCHANGED <<kind, last, shown>>

DriverInvalidateAll ==
  /\ InvalidateAll
  /\ last' = [last EXCEPT !.root = Null, !.size = Unbounded]
  /\ Outdate(LiveHandles)
  /\ UNCHANGED <<kind, shown>>

Change ==
  \/ DriverCreate
  \/ \E p, c \in LiveHandles : DriverPlace(p, c) \/ DriverRemove(p, c)
  \/ \E h \in issued :
       \/ DriverDestroyBegin(h)
       \/ DriverSetColumn(h)
       \/ DriverSetDirection(h)
       \/ \E k \in Kinds : SetKind(h, k)
  \/ DriverInvalidateAll

Pass ==
  \E h \in issued, size \in Sizes :
    Layout(h, size) \/ LayoutFails(h, size)

\* A change that no layout follows shows nothing: the last call is a pass.
DriverNext ==
  \/ ops < MaxOps /\ ops' = ops + 1 /\ Pass
  \/ ops < MaxOps - 1 /\ ops' = ops + 1 /\ Change /\ SteadyTree'
  \/ UNCHANGED ops /\ DriverWalkStep /\ SteadyTree'

DriverSpec == DriverInit /\ [][DriverNext]_driverVars

-----------------------------------------------------------------------------
(***************************************************************************)
(* When a layout call has returned, no box below its root is out of date,  *)
(* whichever strategy it chose: a partial pass reaches every node whose    *)
(* box a change since the last pass may change, and the cached snapshot is *)
(* reused only when nothing changed.                                       *)
(***************************************************************************)
LayoutIsComplete ==
  done.root # Null => stale \cap Subtree(done.root) = {}

(***************************************************************************)
(* A pass lays no node out twice: none of the subtrees it recomputes lies  *)
(* within another, and all of them lie below the layout root.              *)
(***************************************************************************)
PassesApart ==
  \A r \in done.roots :
    /\ r \in Subtree(done.root)
    /\ \A s \in done.roots \ {r} : r \notin Subtree(s)

(***************************************************************************)
(* The queue is all a later layout of the same root looks at, so below the *)
(* last layout root no dirty node may be missed: it is queued, or a node   *)
(* above it is.  A global invalidation queues nothing and is sound because *)
(* it forgets the root; trees that no layout has covered since keep their  *)
(* unqueued dirty nodes, and may be attached below the root again.         *)
(***************************************************************************)
DirtyIsQueued ==
  ~Faults /\ last.root # Null /\ Live(last.root) =>
    LET below == Subtree(last.root)
    IN \A h \in below : Direct(dirt.flags[Index(h)]) =>
         \E a \in below :
           /\ dirt.queued[Index(a)]
           /\ a = h \/ OnChain(topo, Index(h), Index(a))
=============================================================================
