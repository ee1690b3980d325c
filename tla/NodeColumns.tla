---------------------------- MODULE NodeColumns -----------------------------
(***************************************************************************)
(* The columns of the node store and who writes them: their growth and     *)
(* reset (src/core/xent_arena.c), what xent_node_create, the destruction   *)
(* of a node and xent_ctx_destroy do to them, the setters of the styles,   *)
(* texts and grid definitions, and xent_copystyle.                         *)
(*                                                                         *)
(* Four columns stand for the eighty there are: one without memory of its  *)
(* own (style: the layout, flex, stack and placement columns), the font,   *)
(* and the two kinds that own memory, texts and grid definitions.  A       *)
(* definition is one value and one block.  Labels are kept like texts, but *)
(* are neither copied nor laid out, and are left out.                      *)
(***************************************************************************)
EXTENDS NodeSlots, FiniteSets, Doubling

CONSTANTS
  Styles, Unstyled,  \* the styles, and the one of a new node
  Fonts, Default,    \* the fonts, and the one of a new node
  Texts, Blank,      \* the texts, and the empty one
  Grids,             \* the grid definitions that setters make
  Initial,           \* the initial capacities a configuration asks for
  FirstCap,          \* the first capacity (32 in the code)
  BadCalls           \* do callers pass bad arguments to the grid setters?

NoText == "no text"         \* NULL
NoGrid == "no grid"         \* NULL
EmptyGrid == "empty grid"   \* without tracks and gaps

ASSUME ColumnsAssumption ==
  /\ Unstyled \in Styles
  /\ Default \in Fonts
  /\ Blank \in Texts
  /\ NoText \notin Texts
  /\ {NoGrid, EmptyGrid} \cap Grids = {}
  /\ Initial \subseteq Nat
  /\ FirstCap \in Nat \ {0}
  /\ BadCalls \in BOOLEAN

VARIABLES
  open,      \* has xent_ctx_destroy not been called yet?
  capacity,  \* nodes.capacity: how many slots every column has
  columns,   \* columns[i]: what the columns hold for slot i
  heap,      \* the blocks allocated for columns, texts and definitions and not freed
  marked,    \* the live nodes that carry XENT_DIRTY_LAYOUT
  given,    \* history: what the calls with each handle asked for
  halfway    \* history: the handles onto which a copy failed halfway

columnVars == <<open, capacity, columns, heap, marked, given, halfway>>

Fresh == [style |-> Unstyled, font |-> Default, text |-> NoText, grid |-> NoGrid]

-----------------------------------------------------------------------------
(* xent_ensure_node_capacity.  One array per column is allocated before    *)
(* any of them is replaced.                                                *)

Arrays == 4
ArraysHeld == IF capacity = 0 THEN 0 ELSE Arrays

\* next_node_capacity: more room than asked for.
NextCapacity(cap, needed) == DoubledFor(IF cap = 0 THEN FirstCap ELSE cap, needed + 1)

EnoughFor(needed) == IF needed <= capacity THEN capacity ELSE NextCapacity(capacity, needed)

\* commit_grown_array and init_node_defaults
GrownTo(cap) == [i \in 0 .. cap - 1 |-> IF i < capacity THEN columns[i] ELSE Fresh]
HeapAt(cap) == IF cap = capacity THEN heap ELSE heap + Arrays - ArraysHeld

\* free_new_arrays, after k arrays have been allocated
FreedNewButLast(k) == IF k = 0 THEN 0 ELSE k - 1  \* faulty: off by one
FreedNew(k) == k

\* xent_node_reserve: the k-th allocation fails, or none does.
Reserve(n) ==
  /\ open
  /\ n + 1 > capacity
  /\ \/ /\ capacity' = NextCapacity(capacity, n + 1)
        /\ columns' = GrownTo(capacity')
        /\ heap' = HeapAt(capacity')
     \/ /\ Faults
        /\ \E k \in 0 .. Arrays - 1 : heap' = heap + k - FreedNew(k)
        /\ UNCHANGED <<capacity, columns>>
  /\ UNCHANGED <<slotVars, open, marked, given, halfway>>

\* xent_ctx_create with init_context_storage
ColumnsInit ==
  /\ SlotsInit
  /\ open = TRUE
  /\ capacity \in {IF n = 0 THEN 0 ELSE NextCapacity(0, n + 1) : n \in Initial}
  /\ columns = [i \in 0 .. capacity - 1 |-> Fresh]
  /\ heap = ArraysHeld
  /\ marked = {}
  /\ given = [h \in Handles |-> Fresh]
  /\ halfway = {}

-----------------------------------------------------------------------------
(* The lifetime of a node.                                                 *)

\* The blocks that a slot owns: its text and its definition.
OwnsText(slot) == IF slot.text = NoText THEN 0 ELSE 1
OwnsGrid(slot) == IF slot.grid = NoGrid THEN 0 ELSE 1
Owns(slot) == OwnsText(slot) + OwnsGrid(slot)

\* The blocks that the slots of columns own, dead or alive: free_strings.
OwnedBlocks(cols) ==
  Cardinality({i \in DOMAIN cols : cols[i].text # NoText})
  + Cardinality({i \in DOMAIN cols : cols[i].grid # NoGrid})

\* xent_arena_reset_node
ResetButStyle(slot) == [Fresh EXCEPT !.style = slot.style]  \* faulty: leaves the styles
ResetNode(slot) == Fresh

\* The index for which alloc_slot ensures the capacity: one more than it needs.
EnsuredFor(i) == i + 1

\* xent_node_create: what the slot owns, stale calls may have left something
\* there, is freed before the slot is reset.
ColumnsCreate ==
  LET i == NextSlot
  IN /\ open
     /\ CreateReused \/ CreateFresh
     /\ capacity' = IF freeList # <<>> THEN capacity ELSE EnoughFor(EnsuredFor(i))
     /\ columns' = [GrownTo(capacity') EXCEPT ![i] = ResetNode(@)]
     /\ heap' = HeapAt(capacity') - Owns(GrownTo(capacity')[i])
     /\ marked' = marked \cup {<<i, generation'[i]>>}
     /\ UNCHANGED <<open, given, halfway>>

\* destroy_single_node up to its notification
ColumnsKill(h) ==
  /\ open
  /\ Kill(h)
  /\ columns' = [columns EXCEPT ![Index(h)].text = NoText, ![Index(h)].grid = NoGrid]
  /\ heap' = heap - Owns(columns[Index(h)])
  /\ marked' = marked \ {h}
  /\ given' = [given EXCEPT ![h] = Fresh]
  /\ halfway' = halfway \ {h}
  /\ UNCHANGED <<open, capacity>>

ColumnsRelease == open /\ (Retire \/ Recycle) /\ UNCHANGED columnVars

\* xent_ctx_destroy; not while observers run.
ColumnsDestroy ==
  /\ open
  /\ dying = Null
  /\ open' = FALSE
  /\ capacity' = 0
  /\ columns' = [i \in {} |-> Fresh]
  /\ heap' = heap - OwnedBlocks(columns) - ArraysHeld
  /\ marked' = {}
  /\ UNCHANGED <<slotVars, given, halfway>>

-----------------------------------------------------------------------------
(* The setters.  Observers may call them, too, also with the handle of the *)
(* node that is being destroyed.                                           *)

\* A live node's columns become slot; the node is marked for layout.
Put(h, slot) ==
  /\ open
  /\ Live(h)
  /\ columns' = [columns EXCEPT ![Index(h)] = slot]
  /\ marked' = marked \cup {h}
  /\ halfway' = halfway \ {h}
  /\ UNCHANGED <<slotVars, open, capacity>>

SetStyle(h, s) ==
  /\ Put(h, [columns[Index(h)] EXCEPT !.style = s])
  /\ given' = [given EXCEPT ![h].style = s]
  /\ UNCHANGED heap

\* The setters of the four stores that style stands for.  (xent_setz marks
\* nothing; its column is read by no layout.)  A placement in a grid is kept in
\* 16 bits (module GridTracks).
SetLayoutStyle(h) == \E s \in Styles : SetStyle(h, s)
SetFlexStyle(h) == \E s \in Styles : SetStyle(h, s)
SetStackStyle(h) == \E s \in Styles : SetStyle(h, s)
SetPlacement(h) == \E s \in Styles : SetStyle(h, s)

SetFont(h, f) ==
  /\ Put(h, [columns[Index(h)] EXCEPT !.font = f])
  /\ given' = [given EXCEPT ![h].font = f]
  /\ UNCHANGED heap

\* xent_settext.  Without memory for the copy nothing changes.
SetText(h, t) ==
  /\ Put(h, [columns[Index(h)] EXCEPT !.text = t])
  /\ given' = [given EXCEPT ![h].text = t]
  /\ heap' = heap + 1 - OwnsText(columns[Index(h)])

\* xent_grid_def_ensure
Ensured(slot) == IF slot.grid = NoGrid THEN [slot EXCEPT !.grid = EmptyGrid] ELSE slot
HeapEnsured(slot) == IF slot.grid = NoGrid THEN heap + 1 ELSE heap

\* xent_grid_setrows, _setcols, _setrowgap, _setcolgap, when they succeed ...
SetGridUnmarked(h, g) ==  \* faulty: does not mark the node
  /\ open
  /\ Live(h)
  /\ columns' = [columns EXCEPT ![Index(h)] = [Ensured(@) EXCEPT !.grid = g]]
  /\ heap' = HeapEnsured(columns[Index(h)])
  /\ given' = [given EXCEPT ![h].grid = g]
  /\ UNCHANGED <<slotVars, open, capacity, marked, halfway>>

SetGrid(h, g) ==
  /\ Put(h, [Ensured(columns[Index(h)]) EXCEPT !.grid = g])
  /\ heap' = HeapEnsured(columns[Index(h)])
  /\ given' = [given EXCEPT ![h].grid = g]

\* ... and when set_grid_tracks or set_grid_axis_gap refuses: the handle is
\* stale, the arguments are bad, or there is no memory for the tracks.  The
\* slot has a definition from then on.
SetGridRefused(h) ==
  /\ open
  /\ ~Live(h) \/ BadCalls \/ Faults
  /\ columns' = [columns EXCEPT ![Index(h)] = Ensured(@)]
  /\ heap' = HeapEnsured(columns[Index(h)])
  /\ UNCHANGED <<slotVars, open, capacity, marked, given, halfway>>

-----------------------------------------------------------------------------
(* xent_copystyle                                                          *)

CanCopy(dst, src) == open /\ Live(dst) /\ Live(src) /\ dst # src

\* What the columns of dst, or what was asked for, become: the styles and the
\* definition, and then the text and the font.
WithStyle(to, from) == [to EXCEPT !.style = from.style, !.grid = from.grid]
WithText(to, from) ==
  [to EXCEPT !.text = IF from.text = NoText THEN Blank ELSE from.text, !.font = from.font]

\* xent_grid_def_free of the old definition, xent_grid_def_copy of the other
HeapWithGridLeak(to, from) == heap + OwnsGrid(from)  \* faulty: the old one is not freed
HeapWithGrid(to, from) == heap - OwnsGrid(to) + OwnsGrid(from)

CopyStyle(dst, src) ==
  LET to == columns[Index(dst)]
      from == columns[Index(src)]
  IN /\ CanCopy(dst, src)
     /\ Put(dst, WithText(WithStyle(to, from), from))
     /\ given' = [given EXCEPT ![dst] = WithText(WithStyle(@, given[src]), given[src])]
     /\ heap' = HeapWithGrid(to, from) + 1 - OwnsText(to)

\* No memory for the text: the rest has been copied, and dst is not marked.
CopyLosesText(dst, src) ==
  /\ CanCopy(dst, src)
  /\ Faults
  /\ columns' = [columns EXCEPT ![Index(dst)] = WithStyle(@, columns[Index(src)])]
  /\ given' = [given EXCEPT ![dst] = WithStyle(@, given[src])]
  /\ heap' = HeapWithGrid(columns[Index(dst)], columns[Index(src)])
  /\ halfway' = halfway \cup {dst}
  /\ UNCHANGED <<slotVars, open, capacity, marked>>

\* No memory for the definition: dst has lost its own.
CopyLosesGrid(dst, src) ==
  /\ CanCopy(dst, src)
  /\ Faults
  /\ columns[Index(src)].grid # NoGrid
  /\ columns' = [columns EXCEPT ![Index(dst)] = [WithStyle(@, columns[Index(src)]) EXCEPT !.grid = NoGrid]]
  /\ given' = [given EXCEPT ![dst] = [WithStyle(@, given[src]) EXCEPT !.grid = NoGrid]]
  /\ heap' = heap - OwnsGrid(columns[Index(dst)])
  /\ halfway' = halfway \cup {dst}
  /\ UNCHANGED <<slotVars, open, capacity, marked>>

\* A layout call clears the flags.
Layout ==
  /\ open
  /\ marked' = {}
  /\ UNCHANGED <<slotVars, open, capacity, columns, heap, given, halfway>>

ColumnsNext ==
  \/ \E n \in Slots : Reserve(n)
  \/ ColumnsCreate
  \/ ColumnsRelease
  \/ ColumnsDestroy
  \/ Layout
  \/ \E h \in issued :
       \/ ColumnsKill(h)
       \/ SetLayoutStyle(h) \/ SetFlexStyle(h) \/ SetStackStyle(h) \/ SetPlacement(h)
       \/ \E f \in Fonts : SetFont(h, f)
       \/ \E t \in Texts : SetText(h, t)
       \/ \E g \in Grids : SetGrid(h, g)
       \/ SetGridRefused(h)
       \/ \E src \in issued : CopyStyle(h, src) \/ CopyLosesText(h, src) \/ CopyLosesGrid(h, src)

ColumnsSpec == ColumnsInit /\ [][ColumnsNext]_<<slotVars, columnVars>>

-----------------------------------------------------------------------------
(***************************************************************************)
(* A live node has room in the columns, and they hold for it what calls    *)
(* with its own handle asked for, or else the defaults: nothing of the     *)
(* nodes that had the slot before, whatever is done with their handles,    *)
(* and nothing is lost when the columns grow.  An empty definition in the  *)
(* place of none is let pass here.                                         *)
(***************************************************************************)
ColumnsAreOwn ==
  open =>
    \A h \in LiveHandles :
      /\ Index(h) < capacity
      /\ LET slot == columns[Index(h)]
         IN slot = given[h] \/ (given[h].grid = NoGrid /\ slot = [given[h] EXCEPT !.grid = EmptyGrid])

(***************************************************************************)
(* Whatever order nodes are created, destroyed, written and copied in, and *)
(* whichever allocation fails, every block that is allocated is one that a *)
(* column points to, and xent_ctx_destroy frees them all: no leak, and     *)
(* nothing is freed twice.                                                 *)
(***************************************************************************)
NothingLeaks == heap = OwnedBlocks(columns) + ArraysHeld

(***************************************************************************)
(* What a live node's columns hold does not change unless the node is      *)
(* marked for the next layout, but for a copy that fails halfway and an    *)
(* empty definition in the place of none.                                  *)
(***************************************************************************)
ChangesAreMarked ==
  [][\A h \in issued :
       open' /\ Live(h) /\ Live(h)' /\ columns'[Index(h)] # columns[Index(h)] =>
         \/ h \in marked' \cup halfway'
         \/ columns'[Index(h)] = [columns[Index(h)] EXCEPT !.grid = EmptyGrid]]_columnVars

(***************************************************************************)
(* The grid definition of a live node is the one that calls with its own   *)
(* handle gave it: the README says that a handle "detects stale handles    *)
(* after a slot is reused".  The grid setters do not.                      *)
(***************************************************************************)
GridIsOwn == open => \A h \in LiveHandles : columns[Index(h)].grid = given[h].grid
=============================================================================
