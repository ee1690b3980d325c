------------------------------ MODULE FlexLines ------------------------------
(***************************************************************************)
(* The main axis of a flex container (src/layout/xent_layout_flex.c): its  *)
(* children are broken into lines, the space of each line is handed out in *)
(* rounds that freeze the children at their limits, and the children are   *)
(* placed one after the other.                                             *)
(*                                                                         *)
(* A container that hugs its children (wrap_content) is measured before,   *)
(* and is as long as they are without any space handed out.                *)
(*                                                                         *)
(* Growth factors are counted in halves, and the margins of a child are    *)
(* equal.  A container without limits of its own and at the origin of the  *)
(* pixels stands for all.  The properties are about children whose limits  *)
(* do not contradict each other.                                           *)
(***************************************************************************)
EXTENDS Lengths, Sequences, FiniteSets, FiniteSetsExt

CONSTANTS
  Items,       \* children a container may have, in pixels
  MaxItems,    \* bound on their number
  Spaces,      \* main sizes a container may have
  Gaps         \* gaps between children

ASSUME FlexAssumption ==
  /\ Items \subseteq [base : Nat, min : Nat, max : Nat, grow : Nat, shrink : Nat, margin : Nat]
  /\ MaxItems \in Nat
  /\ Spaces \subseteq Nat
  /\ Gaps \subseteq Nat

VARIABLES
  items,   \* the children, in order
  frame,   \* the main size or whether it hugs, the gap, whether lines wrap and whether
           \* they are a row from right to left, justify_content
  at,      \* where the layout is: "lines", "line", "assign", "freeze", "place", "done"
  cursor,  \* the next child, in "lines"; the line being worked on afterwards
  open,    \* the line that is being filled
  lines,   \* the lines: a sequence of [start, count]
  dist,    \* the distribution of the current line
  size,    \* final_main of the children
  pos,     \* where their main edges are placed
  pixels   \* abs_x or abs_y, and decided_w or decided_h, of the children

flexVars == <<items, frame, at, cursor, open, lines, dist, size, pos, pixels>>

NoDist == [round |-> 0, frozen |-> {}, delta |-> 0, grow |-> 0, weight |-> 0, growing |-> FALSE]
NoLine == [start |-> 1, count |-> 0, main |-> 0]

\* A main size is given, or asked of the children.
FlexFrames ==
  {f \in [main : Spaces, hug : BOOLEAN, gap : Gaps, wrap : BOOLEAN, rtl : BOOLEAN, justify : SpacingModes] :
     f.hug => \A space \in Spaces : f.main <= space}

FlexReady ==
  /\ cursor = 1
  /\ open = NoLine
  /\ lines = <<>>
  /\ dist = NoDist
  /\ size = [i \in DOMAIN items |-> 0]
  /\ pos = [i \in DOMAIN items |-> 0]
  /\ pixels = [i \in DOMAIN items |-> Snapped(0, 0)]

FlexInit ==
  /\ items \in UNION {[1 .. n -> Items] : n \in 1 .. MaxItems}
  /\ frame \in FlexFrames
  /\ at = "lines"
  /\ FlexReady

-----------------------------------------------------------------------------
Limited(i, x) == Clamp(x, items[i].min * Unit, items[i].max * Unit)
Base(i) == items[i].base * Unit
Margins(i) == 2 * items[i].margin * Unit
Gap == frame.gap * Unit

\* The length a child has in a line before the space is handed out.
Hypothetical(i) == Limited(i, Base(i))
Outer(i) == Hypothetical(i) + Margins(i)

\* xent_flex_intrinsic_content with no bound on the main axis: one line, and
\* no space to hand out.
Measured == MapThenSumSet(Outer, DOMAIN items) + Gap * (Len(items) - 1)

\* What the container got from xent_flex_wrap_content or its parent.
Space == IF frame.hug THEN Measured ELSE frame.main * Unit

GrowOf(i) == items[i].grow

\* flex_child_shrink_weight: a child of no length counts as a pixel.
Weight(i) == items[i].shrink * (IF items[i].base > 0 THEN items[i].base ELSE 1)

\* The children of line k.
Members(k) == lines[k].start .. lines[k].start + lines[k].count - 1

-----------------------------------------------------------------------------
(* flex_build_lines                                                        *)

Close == Append(lines, [start |-> open.start, count |-> open.count])

\* No wrapping, or no room: one line holds all.
SingleLine ==
  /\ at = "lines"
  /\ ~frame.wrap \/ Space <= 0
  /\ lines' = <<[start |-> 1, count |-> Len(items)]>>
  /\ at' = "line"
  /\ UNCHANGED <<items, frame, cursor, open, dist, size, pos, pixels>>

Breaking == at = "lines" /\ frame.wrap /\ Space > 0

CandidateNoGap(i) == open.main + Outer(i)  \* faulty: forgets the gap
Candidate(i) == IF open.count = 0 THEN Outer(i) ELSE open.main + Gap + Outer(i)

TakeItem ==
  /\ Breaking
  /\ cursor <= Len(items)
  /\ cursor' = cursor + 1
  /\ IF open.count > 0 /\ Candidate(cursor) > Space
     THEN /\ lines' = Close
          /\ open' = [start |-> cursor, count |-> 1, main |-> Outer(cursor)]
     ELSE /\ open' = [open EXCEPT !.count = @ + 1, !.main = Candidate(cursor)]
          /\ UNCHANGED lines
  /\ UNCHANGED <<items, frame, at, dist, size, pos, pixels>>

LastItem ==
  /\ Breaking
  /\ cursor > Len(items)
  /\ lines' = IF open.count > 0 THEN Close ELSE lines
  /\ cursor' = 1
  /\ at' = "line"
  /\ UNCHANGED <<items, frame, open, dist, size, pos, pixels>>

-----------------------------------------------------------------------------
(* flex_distribute_line_main, for the line the cursor names.               *)

\* The length of line k: its children as long as f says, their margins and gaps.
LineMain(f(_), k) ==
  MapThenSumSet(f, Members(k)) + MapThenSumSet(Margins, Members(k)) + Gap * (lines[k].count - 1)

\* compute_line_stats, flex_distribution_begin and flex_reset_line_freeze
BeginLine ==
  LET delta == Space - LineMain(Base, cursor)
  IN /\ at = "line"
     /\ cursor <= Len(lines)
     /\ dist' = [round   |-> 0,
                 frozen  |-> {},
                 delta   |-> delta,
                 grow    |-> MapThenSumSet(GrowOf, Members(cursor)),
                 weight  |-> MapThenSumSet(Weight, Members(cursor)),
                 growing |-> delta > 0]
     /\ at' = "assign"
     /\ UNCHANGED <<items, frame, cursor, open, lines, size, pos, pixels>>

\* Two halves: growth factors that add up to less hand out a part of the space.
One == 2
Shares(total) == IF total < One THEN One ELSE total

\* flex_distributed_unfrozen_main
Distributed(i) ==
  IF dist.growing /\ dist.grow > 0
  THEN Base(i) + (dist.delta * items[i].grow) \div Shares(dist.grow)
  ELSE IF ~dist.growing /\ dist.weight > 0
  THEN AtLeastZero(Base(i) + (dist.delta * Weight(i)) \div dist.weight)
  ELSE Base(i)

\* flex_assign_unfrozen_main.  The loop ends after as many rounds as the
\* line has children.
Assign ==
  /\ at = "assign"
  /\ size' = [i \in DOMAIN items |->
                IF i \in Members(cursor) \ dist.frozen THEN Distributed(i) ELSE size[i]]
  /\ at' = IF dist.round = lines[cursor].count THEN "place" ELSE "freeze"
  /\ UNCHANGED <<items, frame, cursor, open, lines, dist, pos, pixels>>

Violations == {i \in Members(cursor) \ dist.frozen : Limited(i, size[i]) # size[i]}

FreezeForgets ==  \* faulty: what a frozen child took is not taken from the rest
  /\ at = "freeze"
  /\ size' = [i \in DOMAIN items |-> IF i \in Violations THEN Limited(i, size[i]) ELSE size[i]]
  /\ dist' = [dist EXCEPT
                !.round = @ + 1,
                !.frozen = @ \cup Violations,
                !.grow = AtLeastZero(@ - MapThenSumSet(GrowOf, Violations)),
                !.weight = AtLeastZero(@ - MapThenSumSet(Weight, Violations))]
  /\ at' = IF Violations = {} THEN "place" ELSE "assign"
  /\ UNCHANGED <<items, frame, cursor, open, lines, pos, pixels>>

(***************************************************************************)
(* flex_freeze_violations: every child beyond a limit is frozen there, and *)
(* the rest is handed out among the others.                                *)
(***************************************************************************)
Freeze ==
  LET Taken(i) == Limited(i, size[i]) - Base(i)
  IN /\ at = "freeze"
     /\ size' = [i \in DOMAIN items |-> IF i \in Violations THEN Limited(i, size[i]) ELSE size[i]]
     /\ dist' = [dist EXCEPT
                   !.round = @ + 1,
                   !.frozen = @ \cup Violations,
                   !.delta = @ - MapThenSumSet(Taken, Violations),
                   !.grow = AtLeastZero(@ - MapThenSumSet(GrowOf, Violations)),
                   !.weight = AtLeastZero(@ - MapThenSumSet(Weight, Violations))]
     /\ at' = IF Violations = {} THEN "place" ELSE "assign"
     /\ UNCHANGED <<items, frame, cursor, open, lines, pos, pixels>>

-----------------------------------------------------------------------------
(* flex_resolve_line_justify and flex_layout_line_children: every child is *)
(* laid out in its turn, from the other end in a row from right to left.   *)
(* It takes the size it is given but for its own limits (decide_axis), and *)
(* its box is put on the grid of pixels.                                   *)

SizeOf(i) == size[i]
Occupied == LineMain(SizeOf, cursor)

Place ==
  LET line == lines[cursor]
      free == Space - Occupied
      step == Gap + GapShare(frame.justify, free, line.count)
      edge[i \in Members(cursor)] ==
        IF i = line.start
        THEN StartOffset(frame.justify, free, line.count) + items[i].margin * Unit
        ELSE edge[i - 1] + size[i - 1] + (items[i - 1].margin + items[i].margin) * Unit + step
      Origin(i) == IF frame.rtl THEN AtLeastZero(Space) - edge[i] - size[i] ELSE edge[i]
  IN /\ at = "place"
     /\ pos' = [i \in DOMAIN items |-> IF i \in Members(cursor) THEN Origin(i) ELSE pos[i]]
     /\ pixels' = [i \in DOMAIN items |->
                     IF i \in Members(cursor) THEN Snapped(Origin(i), Limited(i, size[i])) ELSE pixels[i]]
     /\ cursor' = cursor + 1
     /\ at' = IF cursor = Len(lines) THEN "done" ELSE "line"
     /\ UNCHANGED <<items, frame, open, lines, dist, size>>

FlexNext ==
  \/ SingleLine
  \/ TakeItem
  \/ LastItem
  \/ BeginLine
  \/ Assign
  \/ Freeze
  \/ Place

FlexSpec == FlexInit /\ [][FlexNext]_flexVars

-----------------------------------------------------------------------------
(***************************************************************************)
(* Breaking children into lines: the lines hold all children in order, and *)
(* each takes as many as fit.  A line of several children is no longer     *)
(* than the container, and the child after a line would have made it so.   *)
(***************************************************************************)
LinesAreGreedy ==
  at # "lines" /\ Len(lines) > 0 =>
    /\ lines[1].start = 1
    /\ lines[Len(lines)].start + lines[Len(lines)].count = Len(items) + 1
    /\ \A k \in 1 .. Len(lines) - 1 : lines[k + 1].start = lines[k].start + lines[k].count
    /\ frame.wrap /\ Space > 0 =>
         \A k \in 1 .. Len(lines) :
           LET Length(n) ==
                 MapThenSumSet(Outer, lines[k].start .. lines[k].start + n - 1) + Gap * (n - 1)
           IN /\ lines[k].count > 1 => Length(lines[k].count) <= Space
              /\ k < Len(lines) => Length(lines[k].count + 1) > Space

(***************************************************************************)
(* Handing out the space of a line: however the rounds go, they end with   *)
(* every child within its limits, and as long as a child may still take    *)
(* its share the line is as long as the container, unless a share would    *)
(* have made a child shorter than nothing.  In a container that hugs its   *)
(* children nothing is left to hand out: they are on one line, and as long *)
(* as they were measured, unless a first share went beyond a limit and     *)
(* froze a child there that would have come back.                          *)
(***************************************************************************)
SpaceIsHandedOut ==
  at = "place" =>
  /\ frame.hug /\ Space > 0 =>
       /\ Len(lines) = 1
       /\ (\A i \in dist.frozen : size[i] = Hypothetical(i)) =>
            \A i \in DOMAIN items : size[i] = Hypothetical(i)
  /\
    LET left == Members(cursor) \ dist.frozen
        takers == {i \in left : IF dist.growing THEN items[i].grow > 0 ELSE Weight(i) > 0}
    IN /\ \A i \in Members(cursor) : Limited(i, size[i]) = size[i]
       /\ /\ takers # {}
          /\ dist.growing => MapThenSumSet(GrowOf, left) >= One
          /\ \A i \in takers : size[i] > 0
          => Occupied = Space

(***************************************************************************)
(* Placing the children of a line: they keep their order, from one end or  *)
(* the other, and their gap, and unless they are longer than the container *)
(* they are placed inside it, at its ends or in its middle as              *)
(* justify_content says.  On the grid of pixels each edge moves by half a  *)
(* pixel at most, children that touch still touch, and rounding once more, *)
(* as the end of a pass does, changes nothing.                             *)
(***************************************************************************)
ChildrenApart ==
  at \in {"line", "done"} /\ cursor > 1 =>
    LET k == cursor - 1
        first == lines[k].start
        last == first + lines[k].count - 1
        FromStart(i) == IF frame.rtl THEN Space - pos[i] - size[i] ELSE pos[i]
        Begin(i) == FromStart(i) - items[i].margin * Unit
        End(i) == FromStart(i) + size[i] + items[i].margin * Unit
        Edge(i) == pixels[i].begin + pixels[i].long
        Near(x, y) == 2 * x <= 2 * y + Unit /\ 2 * y <= 2 * x + Unit
    IN /\ \A i \in first .. last - 1 : Begin(i + 1) >= End(i) + Gap
       /\ LineMain(SizeOf, k) <= Space =>
            /\ Begin(first) >= 0 /\ End(last) <= Space
            /\ frame.justify \in {"start", "between"} => Begin(first) = 0
            /\ frame.justify = "end" \/ (frame.justify = "between" /\ first < last) => End(last) = Space
            /\ frame.justify \in {"center", "around", "evenly"} => Begin(first) = Space - End(last)
       /\ \A i \in first .. last :
            /\ Near(pixels[i].begin, pos[i])
            /\ Near(Edge(i), pos[i] + size[i])
            /\ pixels[i].begin % Unit = 0 /\ pixels[i].long % Unit = 0
            /\ pixels[i] = Snapped(pixels[i].begin, pixels[i].long)
       /\ \A i, j \in first .. last :
            /\ i # j /\ pos[i] + size[i] <= pos[j] => Edge(i) <= pixels[j].begin
            /\ pos[i] + size[i] = pos[j] => Edge(i) = pixels[j].begin
=============================================================================
