----------------------------- MODULE GridTracks -----------------------------
(***************************************************************************)
(* The tracks of a grid along one axis and the boxes of its children there *)
(* (src/layout/xent_layout_grid.c): auto tracks grow to what the children  *)
(* need, child by child, pixel tracks have their size, and star tracks     *)
(* share what is left by weight.  Columns and rows are computed alike.     *)
(*                                                                         *)
(* What a child needs is its intrinsic size where the content box of the   *)
(* grid is offered along this axis, an input here.  (The code offers that  *)
(* length along the other axis, too: a row asks texts how they wrap at the *)
(* height of the grid.)                                                    *)
(***************************************************************************)
EXTENDS Lengths, Sequences, FiniteSets, FiniteSetsExt, Functions, SequencesExt

CONSTANTS
  Tracks,      \* the tracks: mode and value, lengths in pixels
  MaxTracks,   \* bound on the number of tracks
  Residents,   \* the children: index and span as asked for, need and margins in pixels
  MaxResidents,\* bound on their number
  GridSpaces,  \* content extents of the container, in pixels
  GridGaps     \* gaps as asked for, in pixels

ASSUME GridAssumption ==
  /\ \A t \in Tracks : t.mode \in {"auto", "pixel", "star"} /\ t.value \in Int
  /\ MaxTracks \in Nat
  /\ \A r \in Residents :
       /\ r.index \in Nat /\ r.span \in Nat \ {0}
       /\ r.need \in Nat /\ r.lead \in Nat /\ r.trail \in Nat
  /\ MaxResidents \in Nat
  /\ GridSpaces \subseteq Nat
  /\ GridGaps \subseteq Int

VARIABLES
  def,        \* the definition of the axis and its content extent
  residents,  \* the children, in the order of the tree
  lanes,      \* the tracks of the pass: modes and values
  sizes,      \* their sizes
  starts,     \* their positions
  cells,      \* the boxes of the children laid out so far
  gridStep,   \* what is computed next
  turn        \* the child whose turn it is

gridVars == <<def, residents, lanes, sizes, starts, cells, gridStep, turn>>

\* The setters keep the row, the column and the spans of a child in 16 bits.
U16(n) == n % 65536

GridInit ==
  /\ def \in [tracks : SeqOf(Tracks, MaxTracks),
              gap : {g * Unit : g \in GridGaps},
              space : {s * Unit : s \in GridSpaces}]
  /\ residents \in SeqOf(Residents, MaxResidents)
  /\ lanes = <<>>
  /\ sizes = <<>>
  /\ starts = <<>>
  /\ cells = <<>>
  /\ gridStep = "tracks"
  /\ turn = 1

-----------------------------------------------------------------------------
Lane == 1 .. Len(lanes)
Of(mode) == {i \in Lane : lanes[i].mode = mode}
SizeOfLanes(set) == SumFunctionOnSet(sizes, set)

\* grid_init_tracks: an axis without tracks has one star track.
GridGap == AtLeastZero(def.gap)
GapsBetween(n) == IF n > 1 THEN GridGap * (n - 1) ELSE 0

InitTracks ==
  /\ gridStep = "tracks"
  /\ lanes' = IF def.tracks = <<>> THEN <<[mode |-> "star", value |-> 1]>> ELSE def.tracks
  /\ sizes' = [i \in 1 .. Len(lanes') |-> 0]
  /\ gridStep' = "auto"
  /\ UNCHANGED <<def, residents, starts, cells, turn>>

\* grid_axis_placement: clamp_track and clamp_span, as the first and the last
\* track of child k.
First(k) == 1 + Least(U16(residents[k].index), Len(lanes) - 1)
SpanUnchecked(k) ==  \* faulty: a span of 65536 becomes 0, and is none
  First(k) .. Least(First(k) + U16(residents[k].span) - 1, Len(lanes))
Span(k) ==
  LET span == U16(residents[k].span)
  IN First(k) .. Least(First(k) + (IF span = 0 THEN 1 ELSE span) - 1, Len(lanes))

MarginsOf(k) == (residents[k].lead + residents[k].trail) * Unit
NeedOf(k) == residents[k].need * Unit + MarginsOf(k)

(***************************************************************************)
(* grid_apply_auto_track_need: what the other tracks and the gaps of its   *)
(* span do not give a child, its auto tracks share.  (Pixel and star       *)
(* tracks still have no size then.)                                        *)
(***************************************************************************)
Missing(k) == NeedOf(k) - SizeOfLanes(Span(k) \ Of("auto")) - GapsBetween(Cardinality(Span(k)))

NeedPerTrack(k) ==  \* faulty: the share of a track that takes none is lost
  Missing(k) \div Cardinality(Span(k))
NeedPerAuto(k) == Missing(k) \div Cardinality(Span(k) \cap Of("auto"))

\* One round of the loop of grid_resolve_auto_tracks.
GrowAuto ==
  /\ gridStep = "auto"
  /\ turn <= Len(residents)
  /\ turn' = turn + 1
  /\ sizes' = IF Span(turn) \cap Of("auto") # {} /\ Missing(turn) > 0
              THEN [i \in Lane |-> IF i \in Span(turn) \cap Of("auto") /\ NeedPerAuto(turn) > sizes[i]
                                   THEN NeedPerAuto(turn) ELSE sizes[i]]
              ELSE sizes
  /\ UNCHANGED <<def, residents, lanes, starts, cells, gridStep>>

\* grid_resolve_pixel_tracks
SizePixels ==
  /\ gridStep = "auto"
  /\ turn > Len(residents)
  /\ sizes' = [i \in Lane |-> IF i \in Of("pixel") THEN AtLeastZero(lanes[i].value * Unit) ELSE sizes[i]]
  /\ gridStep' = "star"
  /\ UNCHANGED <<def, residents, lanes, starts, cells, turn>>

\* grid_resolve_star_tracks: a weight that is not positive counts as 1.
StarWeight(i) == IF lanes[i].value > 0 THEN lanes[i].value ELSE 1
StarWeights == MapThenSumSet(StarWeight, Of("star"))

SpaceWithoutGaps == AtLeastZero(def.space - SizeOfLanes(Lane \ Of("star")))  \* faulty: forgets the gaps
SpaceLeft == AtLeastZero(def.space - GapsBetween(Len(lanes)) - SizeOfLanes(Lane \ Of("star")))

SizeStars ==
  /\ gridStep = "star"
  /\ sizes' = [i \in Lane |-> IF i \in Of("star") THEN (SpaceLeft * StarWeight(i)) \div StarWeights ELSE sizes[i]]
  /\ gridStep' = "positions"
  /\ UNCHANGED <<def, residents, lanes, starts, cells, turn>>

\* grid_compute_positions, from the edge of the content box
Positions ==
  /\ gridStep = "positions"
  /\ starts' = [i \in Lane |-> SizeOfLanes(1 .. i - 1) + GridGap * (i - 1)]
  /\ gridStep' = "children"
  /\ turn' = 1
  /\ UNCHANGED <<def, residents, lanes, sizes, cells>>

\* grid_child_placement and grid_layout_child, with span_extent
LayoutChild ==
  LET cell == SizeOfLanes(Span(turn)) + GapsBetween(Cardinality(Span(turn)))
  IN /\ gridStep = "children"
     /\ turn <= Len(residents)
     /\ cells' = Append(cells, [from |-> starts[First(turn)] + residents[turn].lead * Unit,
                                size |-> AtLeastZero(cell - MarginsOf(turn))])
     /\ turn' = turn + 1
     /\ UNCHANGED <<def, residents, lanes, sizes, starts, gridStep>>

GridNext == InitTracks \/ GrowAuto \/ SizePixels \/ SizeStars \/ Positions \/ LayoutChild

GridSpec == GridInit /\ [][GridNext]_gridVars

-----------------------------------------------------------------------------
Ends(i) == starts[i] + sizes[i]

(***************************************************************************)
(* Star tracks take up exactly what the other tracks and the gaps leave,   *)
(* each in proportion to its weight, and they vanish where nothing is      *)
(* left; the tracks lie one behind the other with the gap between them, so *)
(* that a grid with a star track ends where its content box ends or else   *)
(* has no star to shrink.                                                  *)
(***************************************************************************)
TracksFillGrid ==
  gridStep = "children" =>
    /\ starts[1] = 0
    /\ \A i \in Lane : sizes[i] >= 0 /\ (i > 1 => starts[i] = Ends(i - 1) + GridGap)
    /\ Of("star") # {} =>
         \/ Ends(Len(lanes)) = def.space
         \/ Ends(Len(lanes)) > def.space /\ SizeOfLanes(Of("star")) = 0
    /\ \A i, j \in Of("star") : sizes[i] * StarWeight(j) = sizes[j] * StarWeight(i)

(***************************************************************************)
(* Wherever and however far a child is asked to go, it has a cell inside   *)
(* the grid; with an auto track in its span it is given at least what it   *)
(* needs, whoever else shares its tracks; and the box it is offered ends   *)
(* where its last track ends, less the margin, as far as the margins leave *)
(* room: its own limits come into it when it is laid out.  No auto track   *)
(* is wider than some child in it makes it.                                *)
(***************************************************************************)
GridHoldsChildren ==
  /\ \A k \in 1 .. Len(cells) :
       /\ Span(k) # {} /\ Span(k) \subseteq Lane
       /\ Span(k) \cap Of("auto") # {} => cells[k].size >= residents[k].need * Unit
       /\ cells[k].size > 0 =>
            \E last \in Span(k) :
              /\ \A i \in Span(k) : i <= last
              /\ cells[k].from + cells[k].size + residents[k].trail * Unit = Ends(last)
  /\ gridStep = "children" =>
       \A i \in Of("auto") : sizes[i] > 0 =>
         \E k \in 1 .. Len(residents) : i \in Span(k) /\ sizes[i] <= NeedOf(k)
=============================================================================
