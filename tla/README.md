# A verification development for xent-core

xent-core is a single-threaded C library that keeps a tree of UI nodes, styles on
them, and lays the tree out. A client creates a context, builds a tree with
handles, sets styles and texts, calls `xent_layout` on a root and reads the boxes.
This directory holds TLA+ modules of the parts that keep state across calls and of
the algorithms a layout pass is made of, the TLC configurations that check them, and theorems about them checked by TLAPS.
Paths below are relative to the repository.

## 1. Inventory

| Component | Source | State it keeps | Operations |
|---|---|---|---|
| Node slots and handles | `src/core/xent_tree.c`, `xent_arena.c` | alive, generation, count, free list | create, destroy, liveness test |
| Node tree | `src/core/xent_tree.c` | parent, first/last child, next/prev sibling, child count | append, insert, move, reparent, remove, destroy a subtree |
| Node observers | `src/core/xent_observer.c` | entries, tombstones, ids, dispatch depth | add, remove, notify |
| Dirty propagation | `src/core/xent_dirty.c` | flags and `dirty_queued` per slot, queue `dirty_nodes` | mark, compact, clear, invalidate all |
| Layout driver | `src/layout/xent_layout_dispatch.c`, `xent_layout_order.c` | last root, size and node count; work order | choose a strategy, promote dirty nodes, run, clear |
| Box sizing | `src/layout/xent_layout_intrinsic.c`, `xent_layout_absolute.c` | decided sizes and positions | intrinsic size, decide a box, absolute containers |
| Flex, stack, grid | `src/layout/xent_layout_flex.c`, `_swiftstack.c`, `_grid.c` | none between calls | arrange the children of one container |
| Text | `src/text/` | backend, cache of measurements, memory of each node | measure, set text and font, replace the backend |
| External measure | `src/core/xent_measure.c` | callbacks and their owners | set, clear, call |
| Style setters and copying | `src/layout/xent_layout_style_api.c`, `_copy.c`, `*_api.c`, `_grid_def.c` | style columns, grid definitions | set, copy |
| Pixel rounding | `src/layout/xent_layout_rounding.c` | scale, mode | set, quantise |
| Node store, allocator, scratch | `src/core/xent_arena.c`, `xent_alloc.c`, `xent_scratch.c` | capacity of the columns; scratch chunks | grow, reset, allocate |
| Display list | `src/core/xent_display.c` | commands, pool of strings, depths | begin, draw, push and pop, end, abort, free |
| Focus, semantics | `src/core/xent_focus.c`, `xent_semantics.c` | semantic columns | set, enumerate |
| Context, profile | `src/core/xent_context.c`, `xent_profile.c` | all of the above; counters | create, destroy |
| SIMD kernels, CLI | `src/core/xent_simd.c`, `src/cli/` | none | recompute scalar results; print |

How they interact. Every client call enters through a handle, which
`xent_live_index` resolves. Topology calls and setters end in `xent_mark_dirty`,
which writes flags up the parent chain and queues the node. Topology calls then
notify the node observers, synchronously; the destroy walk does so once for every
node it kills, in its middle. A layout call compacts the queue, chooses between
nothing, some subtrees and the whole tree, calls the layout of every container
(which calls the text backend or a measure callback for leaves), clears the flags
of what it covered and remembers the request.

What is hard here, although nothing runs in parallel:

- observers run in the middle of a destroy and of a walk over the observer array,
  and call back into the library (`node_observer_dispatch_depth` rejects topology
  calls, everything else is allowed);
- handles outlive nodes: queue entries, the last layout root and measure owners
  are handles kept across destroy and reuse of a slot;
- a partial layout must be as good as a full one;
- allocations fail, and several callers ignore that on purpose;
- counters and tables reach limits (generations, observer ids, cache capacity).

What makes each component correct:

- slots: a dead handle never resolves again; the free list never offers a slot
  twice, or early; without failures no slot is lost;
- tree: an ordered forest at every moment a client can look; placements are exact;
  destroying kills exactly the subtree, and returns;
- observers: an event reaches who was registered when it happened and was not
  removed before its turn, once, in order; dispatch returns;
- dirty: the column and the queue agree in spite of stale entries; a dirty node is
  queued; its ancestors know;
- driver: after a layout call no box below the root is out of date, no node is left
  dirty, nothing is laid out twice; boxes equal those of a full pass;
- text: no answer is stale or somebody else's; lookups find what is in the table;
  eviction drops the least recently used half; wrapping tears no word that fits;
- flex, stack and grid: lines take what fits, space is handed out to the last part
  within the limits of the children, children do not overlap, baselines meet, every
  child of a grid has a cell that holds it;
- columns: a node's columns hold what was asked of that node and nothing of its
  predecessors; what they own is freed once; a change marks its node;
- display list: commands read back the strings they were given; a finished list
  leaves every clip it enters.

## 2. Modules

| Module | What it is |
|---|---|
| `NodeSlots` | slots, generations, free list. One action per half of create and destroy. |
| `NodeSlots_proofs` | its theorems. |
| `ExternalMeasure` | extends `NodeSlots` with the measure callbacks and their owners. |
| `NodeTree` | extends `NodeSlots` with the links; one action per topology call, the destroy walk as steps. |
| `NodeForest` | abstract: ids that are never used twice and ordered lists of children. |
| `NodeTreeImpl` | `NodeTree` implements `NodeForest`, and where a placement puts a child. |
| `NodeTree_proofs` | theorems about `NodeTree` (the slots under the tree, the forest, exact destruction) and both of `NodeTreeImpl`. |
| `DirtyTree` | extends `NodeTree`: every call with the marks its handler makes, the setters, passes. |
| `LayoutDriver` | extends `DirtyTree`: strategy selection, promotion, snapshot; beside them, whose box depends on whom by the layout protocols. |
| `LayoutDriver_proofs` | theorems about `DirtyTree` (the queue and its column, ancestors, who is dequeued) and `LayoutDriver` (no box is out of date after a layout call). |
| `LayoutBoxes` | widths along a chain of absolute containers, rows, columns and stacks, with containers that hug their contents and texts that wrap: a partial pass against a full one. |
| `ObserverPromise`, `Observers` | what registering promises, and the array with tombstones that implements it. |
| `Stores_proofs` | theorems about `ExternalMeasure`, `Observers` (the refinement included) and `NodeColumns`. |
| `Filtering`, `Filtering_proofs` | the loop that compacts an array in place, written so that it can be proved about; what it does, and the facts about numbers and induction that all proofs share. |
| `NodeColumns` | extends `NodeSlots` with the columns: growth, reset, setters, copies, what they own. |
| `TextCache` | the hash table, the measuring call in front of it and the memory of a node. |
| `Scratch` | the chunks of the scratch arena. |
| `DisplayList` | the builder of a display list and the list it becomes. |
| `Buffers_proofs` | theorems about `Scratch`, `DisplayList` and `TextCache`. |
| `Doubling` | how the arrays of the program grow, in `ExternalMeasure`, `NodeColumns` and `DisplayList`. |
| `Lengths` | lengths in parts of a pixel: clamping, spreading free space over gaps, baselines, rounding to pixels. |
| `FlexLines` | main axis of a flex container: measuring one that hugs its children, line breaking, the freeze loop, justification in both directions, rounding. |
| `FlexCross` | its cross axis: line sizes, baselines, `align_content`, offsets in a line; a second layout, which knows what is in nested containers. |
| `StackShares` | a stack: spacers, priorities, shrinking by priority groups; heights and baselines across it; the boxes of its children, held to their own limits. |
| `StackShares_proofs` | its theorems. |
| `GridTracks` | tracks of a grid along one axis, and the cells of its children there. |
| `MonoText` | line breaking of the monospace text backend. |
| `Algorithms_proofs` | theorems about `MonoText`, `LayoutBoxes`, `FlexLines`, `FlexCross` and `GridTracks`. |
| `MCStores`, `MCBuffers`, `MCAlgorithms` | independent components side by side for one run: `ExternalMeasure` and `Observers`; `Scratch`, `TextCache` and `DisplayList`; `LayoutBoxes` and the five algorithms. Each adds one variable that says which of them a behaviour is about. |
| `MCLayoutDriver`, `MCLayoutBoxes` | constants for the runs. |

Correspondence. A handle is a pair of index and generation; the packing into one
integer is injective. A column of the node store is a function on `Slots`. A
rejected call changes nothing and is a stuttering step, so guards are the negated
early returns. Because the program is single threaded, a client call is one step,
except where client code runs inside it: the destroy walk (`WalkDown`,
`WalkVisit`, observers, `WalkResume`) and the observer dispatch (`NotifyBegin`,
`NotifyCall`, ..., `NotifyEnd`). `ClientRuns` says when client code can run.
Placements and removals notify as their last act: what an observer sees and may do
then is a subset of what a client may do after the call, so no step of its own is
needed. Failing allocations are nondeterministic outcomes, switched by `Faults`.

What is abstracted: floats (layout is dependence between boxes in `LayoutDriver`,
integers in `LayoutBoxes`, integer parts of a pixel in the algorithms), texts and fonts (members of small sets), clocks (the
order of use in `TextCache`), the values of style columns (in `DirtyTree` a setter is
its mark, in `LayoutDriver` also the protocol, the kind of the sizes, wrapped contents,
baseline alignment and the inherited direction; in `NodeColumns` one column stands for all that own nothing).

History variables: `issued` (handles returned), `doomed` (the subtree a destroy set
out to destroy), `stale`, `shown`, `done` (what a layout has to bring up to date),
`wanted`, `halfway` (what was asked of a node, and onto which a copy failed halfway),
`drawn` (the drawing calls that succeeded). No guard of an action reads them except to
enumerate handles that a client can hold.

## 3. Runs

| Run | Bounds | Question |
|---|---|---|
| `stores` | slots: 3 slots, 3 generations, 2 callbacks, failures; observers: 4 ids, 3 events | Is a handle ever revived, a slot offered early or twice, a callback inherited with a slot? Do observers that add and remove one another all hear what they should? |
| `buffers` | scratch: chunks of 4, blocks of 1 or 6 bytes aligned to 1 or 4, bases 0 and 3 modulo 4, 3 chunks, 3 blocks a frame; cache: capacity 2 growing to 4, colliding hash; display list: 4 commands, 7 bytes, both arrays from 1; failures | Blocks inside their chunks and apart, equal frames need no new chunk; probing, growth, eviction, staleness; strings and nesting after failed calls. |
| `tree_links` | 4 slots, 2 generations | Links, counts and events during half-done destroys; destroy exact. |
| `forest` | 4 slots, 1 generation, fair walk | Refinement of the ordered forest, exact placement, termination. |
| `dirty_queue` | 2 slots, 2 generations, failures, queue capacity from 1 | Stale entries of reused slots. |
| `layout_chain` | depth 4 and a side leaf, 3 calls; absolute, auto-sized and baseline-aligning containers | Promotion, hugged contents and baselines; inherited direction; ancestors know, dirty nodes are queued, through moves and layouts. |
| `layout_bush` | 4 nodes, reuse, failures, unbounded sizes, any root, 3 calls; all kinds but the baseline-aligning | The snapshot and failed passes; percentages and wrapped contents. |
| `algorithms` | flex: up to 3 children of 7 kinds, main sizes 3, 5 or that of the children; cross axis: up to 2 lines of up to 2 children of 6 kinds, laid out twice; stack: up to 4 children of 8 kinds, some with limits, in rooms of 1, 4 and 10; grid: up to 3 tracks of 6 kinds, up to 2 children of 6 kinds, gaps -1 and 1; text: up to 6 glyphs, widths in half glyphs; 4 nested boxes of 5 kinds of styles, steady ones only, the outermost absolute or a row | Does each computation leave behind what its caller relies on, on every input? Does a partial pass leave the boxes of a full one? |
| `node_columns` | 2 slots, 2 generations, capacities from 0, 1 and 2, failures, bad arguments | Ownership, growth, reset, copies that fail halfway. |
| `percent_root` | 4 nested absolute boxes, percentages anywhere | The first finding below. |
| `stale_grid` | as `node_columns`, without failures and bad arguments | The second finding. |
| `limits` | 2 nested absolute boxes with a minimum of 3 and a maximum of 2 | The third finding. |

Why the bounds are enough. `MaxGen = 3` has a first, a middle and a last
generation. Four slots give a list of three siblings (an anchor with neighbours on
both sides) or a chain of four. Stale entries need one slot with two generations
beside another; a block of 6 does not fit a first chunk of 4, so a frame skips chunks;
a base of 3 makes alignment cost bytes; `FreeChunk = QueueChunk = 1` makes every second push grow. Promotion
is a condition on a node, its parent and grandparent: a chain of four below a root
holds one more step of it than its definition mentions; a pass pays only if it saves
two nodes, hence the leaf beside the chain. `MaxOps = 3` is two changes and the
layout after them, from every assignment of the kinds of a run that makes a steady tree; `DriverInit` starts
from a tree that has been laid out, a state that create, append and layout calls
build. In `layout_chain` and `layout_bush` the queue has room for every node
(`QueueChunk = 8`), see the limits below. A cache of capacity 4 that starts at 2
grows once, fills, and evicts, with keys whose probe paths collide and wrap. A pool of
7 bytes holds a text, its font and another text of two bytes with their NULs, after
doubling three times; four commands are two nested pairs. With two slots the columns
grow from every initial capacity, beside a slot in use, and a stale handle has a
successor in its slot. Three tracks are one of each mode in every order; a span of
three shares what it needs among the auto tracks, one past the end is cut off, and
one of 2^16 becomes 0.

In `algorithms` a pixel is 5040 parts, so that no share of what a few children
divide is cut off within the bounds: equalities in the properties are exact, where
the code has rounding errors of floats. The kinds of children are chosen so that each
can hit its minimum or its maximum, take a fraction of the free space, or have no
length at all; with three of them one line can freeze a child at a minimum and
another at a maximum, in one round or in two. Edges fall between pixels where three
children share, or justification divides, what is free. A third layout would read the
same heights as the second (`MaxPasses = 2`). Stacks of four have two groups with two
halves each. Six glyphs are two full lines of two and a torn word.

Steady trees and styles. `LayoutDriver` says whose box depends on whom from the layout
protocols (`Influences`), not from what the driver takes for granted when it climbs: a
child depends on its parent and, in a flow container, on its siblings; a container that
wraps its contents, or that has no size of its own and is measured with an infinite one,
depends on its children wherever it stands (`src/src/layout/xent_layout_flex.c:902-903`);
and one that is placed by its baseline depends on what is in it, at any depth
(`src/src/layout/xent_layout_baseline.c:8-33`), whatever size it has. The climb of the
driver (`CanPromote`, `Promotes`, `Climb`) is a definition of its own. The two
disagree in some trees, where a partial pass does less than a full one. These are what
`SteadyAt` leaves out:

- below a container that is not a flow container, a node with a percentage, or one that
  wraps its contents across its main axis: as a recompute root it is offered its own size
  as if that were its parent's (the finding `percent_root`, and the same for a column
  that keeps within what it is offered);
- a node with a percentage in a container that may hug its contents: the climb stops at
  the node, which has a size, although measured with an infinite one it takes that of
  its contents, so the container above changes with them;
- a container with a size of its own that is placed by its baseline, or stands in one
  that is: the climb stops at it, and nobody moves it to its new baseline.

Each condition is needed: with any one of them dropped TLC finds `LayoutIsComplete`
violated within the bounds of these runs. In `LayoutBoxes`, where the passes compute
widths and nothing is said of dependence, `SteadyStyles` makes the same conditions of
widths; there too each is needed, and together they suffice. `Influences` claims
more dependence than there is where that costs nothing: any child may carry the
baseline of a container, not only the first or those of the first line, and a stack or
a grid without a size counts as hugging its children, like a flex container. A more
precise oracle would let more trees count as steady, and none of these fail.

`CHECK_DEADLOCK FALSE` is set where behaviours end because a bound is reached
(generations, calls).

Fairness. `FairTreeSpec` and `FairObsSpec` assume weak fairness of the steps inside
one call: a loop of a single-threaded function that is not waiting for anything goes
on, and observers return. No fairness is assumed of clients.

### Findings

`percent_root`: under an absolute container, a node with a percent size that becomes
a recompute root takes its percentage of its own decided size
(`src/src/layout/xent_layout_dispatch.c:246`), so it shrinks with every partial pass:
200, 100, 50, ... The comment above that line says that the size came from the
parent's pass and is not derived anew with another result.

`stale_grid`: the setters of rows, columns and gaps of a grid fetch or make the
definition of the slot before anything asks whether the handle is live
(`src/src/layout/xent_layout_grid_api.c:52`). Called with the handle of a dead node they
are refused, but the node that now has the slot has got an empty definition, by which
a grid container is laid out otherwise than by none. `src/README.md:14` says that handles detect reuse.
A slot that nobody has may be given one, too; `xent_node_create` frees it.

`limits`: a node with a minimum above its maximum gets the maximum when it asks for more
than both (`src/src/layout/xent_layout_util.h:8`), although the comment at
`src/src/layout/xent_layout_util.h:4` says that the minimum wins. The run shows it of
boxes that are sized once, the root of a layout and children of absolute containers.
A child of a flow container is clamped twice, when it is handed a size and when it is
laid out with it, and the second time turns the result around: handed its maximum it is
then below its minimum, and gets that.

### Limits stated in the properties

`SpaceIsHandedOut` says what the freeze loop of flex really promises, which is less
than the CSS algorithm: minima and maxima violated in one round are all frozen in
that round, so a line may end up shorter or longer than the container although the
limits of its children would allow more. The line is as long as the container only
while some child that takes a share is not frozen.

For the same reason a container that hugs its children need not keep them as long as
it measured them: with space to hand out because one child is below its minimum,
another can reach its maximum in that round, is frozen there, and the line becomes
longer than the container. `SpaceIsHandedOut` asks for the measured lengths unless a
child was frozen elsewhere.

`BaselinesAlign` says what a first layout does with a nested container: the first child
of the container has no height yet, counts as high as the container, and so the
container stands on its bottom edge (`src/src/layout/xent_layout_baseline.c:10-13`). The next
layout of the same tree stands it on the baseline of its child, so two layouts
of an unchanged tree may differ. From then on the baselines are the true ones until
something inside the container changes; the layout after that again uses heights that
are one layout old, a change the model does not make.

A stack does not grow for its baselines: `StackIsFilled` says that they meet when no
child leaves the stack that way.

The child of a stack is handed a size and held to its own limits only when it is laid out
(`src/src/layout/xent_layout_intrinsic.c:236-240`). `ShrinksByPriority` is about what is
handed out, `main_sizes`. `StackIsFilled` is about the boxes: the last one ends where the
stack ends if its limits leave it what it was handed, and one that is handed less than
its minimum reaches over the next one, as nobody moves that. The same clamp is left out
of `GridTracks`: `GridHoldsChildren` is about the box a child is offered. In flex
containers it changes nothing, as what the freeze loop hands out is within the limits,
if these agree.

The other properties of the algorithms are checked for children whose minimum is not
above their maximum.

`LayoutIsComplete` and `BoxesAgree` are stated for steady trees and styles, see above.
Aspect ratios and external content, which make a width depend on a height, are in
neither model, nor are nodes sized by `flex-basis`, growing or wrapping in `LayoutBoxes`.

`LayoutIsComplete` does not ask for boxes that depend on the direction of a node above
the root of the layout call. `xent_setdir` marks and queues that node only; a second
layout of the same root inside its tree finds nothing dirty below it and does nothing.
The direction of a node at or below the root is covered, also when a subtree is moved.

`ChangesAreMarked` lets pass what `xent_copystyle` has copied when it runs out of memory
halfway, and the empty grid definition that a refused grid setter leaves behind;
`ColumnsAreOwn` lets pass the latter, which `stale_grid` is about.

A node that `dirty_nodes` has no memory for stays out of the queue
(`note_direct_dirty` ignores the failure). `DirtyIsQueued` is stated without failing
allocations, and the driver runs give the queue enough room; with less, a layout may
do nothing although a node is dirty. It speaks of the nodes below the last layout
root: a change of scale or rounding mode queues nothing and relies on forgetting that
root, and a tree that was not laid out since brings its unqueued nodes along when it
is attached, below a node that is queued.

## 4. Proofs

Every theorem holds for every value of the constants that the named assumption of its
module allows: any number of slots, generations, observers, chunks, commands, any
hash, any string, with failing allocations unless it says otherwise. Modules of proofs
share what they can: `LayoutDriver_proofs` extends `NodeTree_proofs`, that extends
`NodeSlots_proofs`, and `StackShares_proofs` extends `Algorithms_proofs`.

| Module | Theorem | States |
|---|---|---|
| `NodeSlots_proofs` | `TypeCorrect`, `FreeListCorrect`, `SlotsAreKept`, `HandlesStayDead` | types, `FreeListSound`, `NoSlotLost`, `NoRevival` |
| `NodeTree_proofs` | `TreeUsesSlots`, `TreeKeepsSlots`, `TreeTypeCorrect` | `TreeSpec => SlotsSpec`, `NoSlotLost`, types |
| | `TreeStaysLinked` | `WellLinked` |
| | `DestroyStaysExact` | `DestroyExact` |
| | `TreeImplementsForest`, `PlacementsStayExact` | the refinement `ImplementsForest`, `PlacementsAreExact` |
| `LayoutDriver_proofs` | `DirtyUsesTree` | `DirtySpec => TreeSpec` |
| | `QueueStaysMatched`, `AncestorsStayInformed`, `MarkedStaysQueued` | `QueueMatchesColumn`, `AncestorsKnow`, `OnlyPassesDequeue` |
| | `DriverStaysSound`, `DriverStaysInformed` | the invariant of the dirty tree and `AncestorsKnow`, under the calls of the driver |
| | `PassesStayApart`, `DirtyStaysQueued` | `PassesApart`, `DirtyIsQueued` |
| | `LayoutStaysComplete`, `LayoutCompleteWithMemory` | `LayoutIsComplete`, steady trees |
| `Stores_proofs` | `MeasuresCorrect`, `MeasureUsesSlots` | `MeasuresAreOwn`, `MeasureSpec => SlotsSpec` |
| | `ObserversStaySound`, `ObserversKeepPromise` | `ObserversSound`, the refinement `KeepsPromise` |
| | `ColumnsInvariance` | the invariant below |
| | `ColumnsStayOwn`, `EverythingIsFreed`, `ChangesStayMarked` | `ColumnsAreOwn`, `NothingLeaks`, `ChangesAreMarked` |
| `Buffers_proofs` | `BlocksStaySound`, `FramesStaySteady` | `BlocksSound`, `SteadyFrames` |
| | `TextsStayReadable`, `ListsStayBalanced` | `TextsReadBack`, `ListIsBalanced` |
| | `TableStaysSound`, `AnswersStayTrue`, `NewestStay` | `TableSound`, `AnswersAreTrue`, `KeepsNewest` |
| `Algorithms_proofs` | `TextInvariance` | the invariant below |
| | `WordsStayTogether` | `WordsStayWhole` |
| | `BoxesStayAgreed` | `BoxesAgree`, steady styles and limits that agree |
| | `LinesStayGreedy` | `LinesAreGreedy` |
| | `SpaceStaysHandedOut` | `SpaceIsHandedOut`, limits that agree, where shares are whole |
| | `ChildrenStayApart` | `ChildrenApart`, limits that agree, where shares are whole |
| | `BaselinesStayAligned` | `BaselinesAlign` |
| | `LinesAreInPlace` | `LinesHoldChildren`, where shares are whole |
| | `GridIsFilled`, `GridGivesRoom` | `TracksFillGrid`, `GridHoldsChildren`, where shares are whole |
| `StackShares_proofs` | `ShrinkingStaysFair`, `StackStaysFilled` | `ShrinksByPriority`, `StackIsFilled`, where shares are whole |

Each rests on an inductive invariant, because the property alone is not one:

- Slots (`SlotsInv`). That every free slot carries a handle never issued says nothing
  of the slot whose DESTROY observers run, which is pushed next. The invariant adds
  that no handle was issued for a slot above `count` or with a generation beyond the
  one its slot stores (`IssuedBounded`), and that a live slot, like the dying one,
  stores the generation of its own handle.
- External measure (`MeasureInv`) adds to it that an entry in use belongs to the live
  node of its own slot and holds what was asked for that node, and that what was asked
  for and not cleared is still stored.
- Links (`TreeInv`). `WellLinked` speaks of the moments when a client can look, and
  the walk is between two of them. The invariant says what is left of the forest at
  every step of a destroy: what is left of the doomed nodes is what is left of the
  subtree, and the parent it was taken from is outside. It states the forest without
  closures: both ends of each link agree, and neither the parent, the next nor the
  previous links close a ring, as sets closed under a link. The pointer surgery is
  proved about slot numbers; a list is two chains, one from each end, so that what is
  proved of one end holds of the other.
- Forest (`OrderInv`: `TreeInv`, `Ordered` and `WalkLeft`). That links agree and close no
  ring does not yet say that the children of a node are one list: two rows of siblings
  with one parent would satisfy it. `Ordered` says that for every live node there is a
  sequence whose members are its children, each linked to its neighbours, with the first
  and the last where the node says. It exists before and after each call, by inserting
  into it and filtering it (`UnlinkList`, `LinkList`), and such a sequence is what
  enumerating finds (`ListIsEnumerated`). `WalkLeft` says that no node from the cursor
  of a destroy walk up to its root has a previous sibling, which is why the walk drops
  leaves from the left.
- Dirty tree (`DirtyInv`: `TreeInv` and `DirtySound`). The queue names issued handles,
  those of one slot in the order of their generations (a compaction that reads the
  column decides each entry by the last one of its slot), the column says which live
  nodes it names, and every ancestor of a dirty node knows. Marking and compacting are
  lemmas about a dirty state whose tree is given; a layout pass compacts twice, the
  second time with the column cleared and the queue not, so that the lemma asks for
  less than it promises.
- Driver (`DriverInv`: `DirtyInv`, `Remembered` and `Covering`). `LayoutIsComplete` is
  about the state a pass leaves. What makes it true of the next pass has to be known
  all the time: below the last layout root, every node that is dirty or whose box is
  out of date stands at or below a queued one (`Covering`), and the history agrees with
  the root and size that the context remembers (`Remembered`). Every call queues the
  node at which it changes the tree; and a partial pass starts at or above each of these,
  so it decides every box that was out of date. That no other box depends on one of
  these is where the layout protocols and the climb of the driver meet (`DecidedClosed`,
  `InfluencedWithin`): a climb ends at a node that is not promoted (`RootsStop`), and in
  a steady tree such a node does not take its box from its contents, or a pass on it
  decides that box, too.
- Observers (`ObsInv`). An id that is registered is in the array once, so the one entry
  that `xent_node_delobs` buries is all of it; no id in the array is still to be given
  out; and the count of tombstones decides correctly whether there is anything to
  compact. The refinement maps the array to its live entries, and the rest of the walk
  to the live entries between cursor and limit; each action is a step of the promise,
  skipping a tombstone and compacting are none.
- Arena (`ScratchInv`). Two blocks of a chunk could overlap only if `used` fell behind
  a block given out, so every block ends at or below the `used` of its chunk, which
  never passes the capacity. Alignment follows from quotient and remainder being the
  only ones (`RemainderIs`). That a frame that repeats needs no
  further chunk (`SteadyInv`) takes a record of what the frame before did: a trace says
  which chunk answered each of its requests and how far it was used then. A trace says
  nothing of the chunks behind the one it has reached and nothing of what is used now,
  so it survives the growth of the list and the reset (`TraceStays`); two traces of the
  same requests are the same (`TracesAgree`), so the frame that repeats stands where the
  one before it stood, and finds the chunk that was found or added then.
- Display list (`DisplayInv`). The pool only grows at its end, so a string stays where
  its range says (`HeldStays`); every command answers the call that left it; the depth
  of a kind is what its commands have entered and not left (`DepthsCounted`), also
  after a call that lost its command.
- Text cache (`CacheInv`). No gap lies on the way from where the hash of an entry
  points to the entry, so a probe that stops at a gap has missed nothing; no key is
  held twice; every entry is what the current backend answers to its key; the keys in
  the order of last use are those in the slots, each once. Growing, evicting and
  clearing build the table anew, entry by entry, by the insertion that keeps all this
  (`PlacedSound`, `RebuiltSound`).

- Columns (`ColumnsInv`). That every live node holds what was asked for it takes what is
  known of all other slots: one that was handed out lies inside the columns
  (`RoomForAll`), and nothing is wanted for a handle before its node is created or after
  it died (`DeadWantNothing`), so that a slot starts with the defaults. Blocks are
  counted by slots: a call that writes one slot changes the count by what that slot owned
  before and owns now (`OwnedAfterWrite`), a growth adds slots that own nothing
  (`OwnedAfterGrowth`).
- Line breaking (`TextInv`). Lines that follow one another say nothing of words. The
  invariant keeps of each line why it ends (`LineOK`): the text is over, or the limit is
  reached and the line ends behind the last break before it, or the limit is reached and
  there is no break, or, for minimum content, there is a break. A word that is torn then
  lies over the end of a line without a break, so it is longer than a line
  (`TornIsLong`); a line that ends early ends behind the last break that fits, so the
  next word would not have fitted (`NextIsLong`).
- Boxes (`BoxesInv`). That the widths agree when nothing is dirty says nothing of the
  state in which the next partial pass begins. The invariant says it of every box
  that no climb from a dirty node gets to (`Shielded`), and of one at which such climbs
  end (`Screened`), unless that is a row that wraps its contents whatever it is offered
  (`Elastic`). That a full pass gives these the widths they have takes that what is
  measured above a node where a climb ends does not depend on what is below it
  (`Sealed`, `FullPassLocal`). Offered its own width such a node decides the width of a
  full pass (`BoxRepeated`), which is where the styles have to be steady and the limits
  to agree, and everything below it follows (`PassFromCut`).
- Flex lines (`LinesInv`). The open line begins behind the last one and is as long as the
  children in it with their gaps, which is what the code compares with the room; each
  line that was closed fits and is followed by a child that would not have (`Fits`,
  `Overfull`).
- Flex space (`FlexInv`, on top of `LinesInv`). The freeze loop forgets the children it
  has frozen but for what they cost: the free space is what they left of the container,
  and the sums of the factors are those of the others (`RoundOK`). At the place where
  children are given their offsets those that are left have their shares of it and are
  within their limits, so shares that are whole add up to the room (`LineTotal`,
  `TakersFill`). A container that hugs its children on one line has nothing to hand out
  unless one was frozen off its measure (`HugLeavesRest`, `HugKeepsLengths`). The loop
  over the children of a line then puts each behind the end of the one before it
  (`EdgesAre`, `EndsFollow`), and rounding keeps order and touching (`PixelsApart`,
  `PixelsFollow`).
- Baselines (`BaselineInv`). Alignment cuts an offset off where a child would leave its
  line, and then baselines could not meet. The invariant says that the lines that were
  expanded have room above and below their baseline for each child on it (`Roomy`), so
  nothing is cut off; stretching the lines afterwards keeps that, as none becomes lower.
  It also knows which heights in nested containers a pass reads, zeros in the first pass
  and those of the pass before in the others.
- Lines in place (`HoldInv`: `BaselineInv` and, once `align_content` has spread the free
  space, what start and gap add up to). The last line ends at the container because the
  heights before stretching, the gaps and what stretching adds are one sum
  (`StretchSpreads`, `LinesFollow`); that the sum is the space is `SpacingFits`, which
  says of every way of spreading what it puts in front and between.
- Grid (`GridInv`). Growing an auto track for one child must not take from another what
  it has: a child that had its turn has what it needs (`Enough`), and tracks only grow
  until the star tracks have theirs. Shares that are whole make the star tracks together
  exactly what was left (`StarsShare`), as a sum over their weights.
- Stack (`StackInv`). That a child is cut only after those of lower priority says
  nothing of the groups still to be cut. While groups are cut, the invariant says that
  those behind `rank` have what they asked for, that those before it have nothing left
  unless nothing is missing any more, and that the children have together what the stack
  has room for and the deficit (`ShrinkOK`). A group gives its share in
  two halves, and in each half in proportion to what its children have, so what they
  keep is in proportion too (`HalfIsCut`). The order the groups are read from holds each
  child once, the lower priorities first (`OrderIsSorted`), because no two children
  have equally many before them (`BeforeIs`). Where the last child ends is the sum that the
  invariant knows (`LastKidEnds`). Its box, and what the baselines meet on, is what it was
  given, held to its limits once more (`BoxesAreWithin`, `ClampIs`).

What the theorems do not say. `LayoutStaysComplete` assumes `Roomy` at all times: either
allocations do not fail, or the queue has room for what one call marks. It leaves out
exactly the case listed among the limits above, where the queue cannot grow and a dirty
node is not in it; with an allocator that never fails `Roomy` always holds, and
`LayoutCompleteWithMemory` states that without it. Both are about steady trees and
`BoxesStayAgreed` about steady styles (`OnlySteady`): they say nothing of the trees listed
in section 3, in which a partial pass does less than a full one, as `percent_root` shows of one
kind of them. And `LayoutIsComplete` is about dependence between boxes as `Influences` states
it from the code of the layout protocols; that these compute no box from anything else
is read from the code, not proved. `BoxesStayAgreed` also assumes that the minimum does
not exceed the maximum. `DirtyStaysQueued` is about a property
that itself asks for no failures. The other theorems hold with failing allocations.

The code shares out space in floats, which the models do in integers, so a share that is
not whole loses its fraction where the code has a rounding error. `LinesAreInPlace`,
`GridIsFilled`, `GridGivesRoom`, `SpaceStaysHandedOut`, `ChildrenStayApart`,
`ShrinkingStaysFair` and `StackStaysFilled` ask for equalities, and assume that the
shares of the behaviour are whole: `CrossExact` for the space spread over lines,
`GridExact` for what auto and star tracks divide, `SharesWhole` for what the last round
of a flex line hands out, `JustifyWhole` for what is left between its children,
`StackExact` for what spacers and priorities are given and what a group gives. On the
instance of the run `algorithms`, whose pixel of 5040 parts is made for that, TLC found
all five to hold in every reachable state, and `GridInv`, `FlexInv` and `StackInv` as
well; with a pixel of 1 or 3 parts it finds the properties of lines and tracks violated,
so something like these hypotheses is needed.

`SpaceStaysHandedOut` and `ChildrenStayApart` also assume `Agreeing`, that no child has a
minimum above its maximum. That leaves out the limits of the finding `limits`: held to a
maximum below its minimum a child does not keep to both, and its box is not what it was
handed. `StackAssumption` says the same of the children of a stack.

Induction. The library's theorems about induction take an operator, which the provers
cannot instantiate. `LeastNumber` and `Counting` in `Filtering_proofs` do induction with
a set in its place: the least member of the numbers that have no counterexample. With
it, loops written as recursive functions can be proved about (`FilteredTo`, `RebuiltTo`,
`Doubled`, `Dispatch`), and so can the sums that the community modules fold over a set
of positions: there is one function that adds a member up whichever is taken first
(`Adds`), and what the fold computes is that function (`FoldsAdd`). Chains of the tree need no counting: what is said of them is said of sets
closed under a link. `Filtering` takes the place of `SelectSeq` where a
list is compacted, in the array or in the ordered forest, as the provers know
nothing of `SelectSeq`; `DisplayList` says what its strings are made of (`Bytes`), so that
the type of the pool can be stated. The parentheses around a UNION in `LayoutDriver` say
what its precedence says already; the provers' parser needs them.

Only model-checked: the two liveness properties, `DestroyReturns` and
`DispatchReturns`, which are out of the provers' reach. Every other property of a run
that passes is the subject of a theorem above.

## 5. Not modelled, and the plan

Further modules join runs that exist where they compose with their modules, so that
the set of runs stays small enough to be repeated on every change. In this order:

1. callbacks that change nodes during a pass; text and external measure composed with
   `DirtyTree`;
2. the remaining algorithms: the cross size of a container that hugs its children,
   deeper nested baselines and those of wrapping rows, columns from right to left,
   min-content measuring;
3. containers that run out of scratch memory inside a pass.

Out of scope: SIMD kernels (arithmetic that TLC cannot enumerate), profiling counters,
the command line dump (output only), `xent_sort_by_priority`, which nothing calls.
