------------------------------ MODULE FlexCross ------------------------------
(***************************************************************************)
(* The cross axis of a flex container (src/layout/xent_layout_flex.c),     *)
(* once its children are in lines and have their main sizes: the lines get *)
(* their cross sizes, grow for their baselines, are stretched or spaced,   *)
(* and the children are aligned in them.                                   *)
(*                                                                         *)
(* A child comes with its hypothetical cross size.  Its baseline is that   *)
(* of a text, of a box without one, or of the first child of a nested flex *)
(* container, a box of a height it gets when the container is laid out:    *)
(* after its own parent asked for the baseline.  Right-to-left mirroring   *)
(* is left out.                                                            *)
(***************************************************************************)
EXTENDS Lengths, Sequences, FiniteSets, FiniteSetsExt

CONSTANTS
  CrossItems,    \* children a line may have, in pixels
  MaxLines,      \* bound on the lines of a container
  MaxPerLine,    \* bound on the children of a line
  CrossSpaces,   \* cross sizes a container may have
  CrossGaps,     \* gaps between lines
  MaxPasses      \* bound on the layouts of a container

Aligns == {"start", "end", "center", "stretch", "baseline"}

ASSUME CrossAssumption ==
  /\ CrossItems \subseteq [cross : Nat, min : Nat, max : Nat, lead : Nat, trail : Nat,
                           align : Aligns, auto : BOOLEAN, kind : Kinds, inner : Nat]
  /\ \A item \in CrossItems : item.min <= item.max
  /\ MaxLines \in Nat /\ MaxPerLine \in Nat
  /\ CrossSpaces \subseteq Nat
  /\ CrossGaps \subseteq Nat
  /\ MaxPasses \in Nat

VARIABLES
  rows,     \* the lines: sequences of children
  box,      \* the cross size, the gap, row or column, wrapping, align_content
  stage,    \* where the layout is: "size", "expand", "stretch", "align", "aligned"
  current,  \* the line that is expanded or aligned
  outer,    \* cross_outer of the lines
  spread,   \* the gap in front of the first line and the one between them
  top,      \* where the lines begin
  placed,   \* the cross size and the offset in its line of every child
  inside,   \* decided_h of the first child of every nested container, 0 before it has one
  pass      \* the layout this is

crossVars == <<rows, box, stage, current, outer, spread, top, placed, inside, pass>>

Boxes == [space : CrossSpaces, gap : CrossGaps, row : BOOLEAN, wrap : BOOLEAN,
          content : SpacingModes \cup {"stretch"}]

\* Without wrapping all children are in one line, and there is no gap between lines.
CrossInit ==
  /\ box \in {b \in Boxes : ~b.wrap => \A gap \in CrossGaps : b.gap <= gap}
  /\ \E n \in 1 .. (IF box.wrap THEN MaxLines ELSE 1) :
       rows \in [1 .. n -> UNION {[1 .. m -> CrossItems] : m \in 1 .. MaxPerLine}]
  /\ stage = "size"
  /\ current = 1
  /\ outer = [k \in DOMAIN rows |-> 0]
  /\ spread = [start |-> 0, gap |-> 0]
  /\ top = [k \in DOMAIN rows |-> 0]
  /\ placed = [k \in DOMAIN rows |-> <<>>]
  /\ inside = [k \in DOMAIN rows |-> [i \in DOMAIN rows[k] |-> 0]]
  /\ pass = 1

-----------------------------------------------------------------------------
CrossSpace == box.space * Unit
LineGap == IF Len(rows) > 1 /\ box.wrap THEN box.gap * Unit ELSE 0

Lead(item) == item.lead * Unit
Trail(item) == item.trail * Unit

\* flex_child_cross_outer
CrossOuter(item) == item.cross * Unit + Lead(item) + Trail(item)

\* flex_resolved_cross_size, in a line of the given cross size
FinalCross(item, line) ==
  LET wanted == IF item.align = "stretch" /\ item.auto
                THEN line - Lead(item) - Trail(item)
                ELSE item.cross * Unit
  IN AtLeastZero(Clamp(wanted, item.min * Unit, item.max * Unit))

BaselineOf(k, i) == Baseline(rows[k][i].kind, FinalCross(rows[k][i], outer[k]), inside[k][i])

OnBaseline(k) ==
  IF box.row THEN {i \in DOMAIN rows[k] : rows[k][i].align = "baseline"} ELSE {}

\* flex_note_baseline: how far below the top of line k its baseline is.
Target(k) ==
  LET Edge(i) == Lead(rows[k][i]) + BaselineOf(k, i)
  IN Max({Edge(i) : i \in OnBaseline(k)})

\* flex_baseline_max_descent: how far its children reach below the baseline.
Descent(k) ==
  LET Below(i) == Trail(rows[k][i]) + FinalCross(rows[k][i], outer[k]) - BaselineOf(k, i)
  IN Max({0} \cup {Below(i) : i \in OnBaseline(k)})

-----------------------------------------------------------------------------
\* flex_size_lines: as large as the largest child, or the container if it has one line.
SizeLines ==
  /\ stage = "size"
  /\ outer' = [k \in DOMAIN rows |->
                 IF box.wrap THEN Max({0} \cup {CrossOuter(rows[k][i]) : i \in DOMAIN rows[k]})
                             ELSE CrossSpace]
  /\ stage' = "expand"
  /\ UNCHANGED <<rows, box, current, spread, top, placed, inside, pass>>

NoRoomBelow(k) == Target(k)  \* faulty: forgets what is below the baseline
Required(k) == Target(k) + Descent(k)

\* flex_expand_baseline_line
ExpandLine ==
  /\ stage = "expand"
  /\ outer' = IF OnBaseline(current) # {} /\ Required(current) > outer[current]
              THEN [outer EXCEPT ![current] = Required(current)]
              ELSE outer
  /\ current' = IF current = Len(rows) THEN 1 ELSE current + 1
  /\ stage' = IF current = Len(rows) THEN "stretch" ELSE "expand"
  /\ UNCHANGED <<rows, box, spread, top, placed, inside, pass>>

CrossTotal == MapThenSumSet(LAMBDA k : outer[k], DOMAIN rows) + LineGap * (Len(rows) - 1)

\* The part of flex_layout_lines between sizing and placing the lines.
StretchLines ==
  LET left == AtLeastZero(CrossSpace - CrossTotal)
      n == Len(rows)
      stretched == box.content = "stretch" /\ left > 0
      free == IF stretched THEN 0 ELSE left
  IN /\ stage = "stretch"
     /\ outer' = IF stretched THEN [k \in DOMAIN rows |-> outer[k] + left \div n] ELSE outer
     /\ spread' = [start |-> StartOffset(box.content, free, n),
                   gap |-> LineGap + GapShare(box.content, free, n)]
     /\ stage' = "align"
     /\ UNCHANGED <<rows, box, current, top, placed, inside, pass>>

\* flex_cross_offset
CrossOffset(k, i) ==
  LET item == rows[k][i]
      cross == FinalCross(item, outer[k])
      free == outer[k] - cross - Lead(item) - Trail(item)
  IN CASE i \in OnBaseline(k) ->
            Clamp(Target(k) - BaselineOf(k, i), Lead(item), Lead(item) + AtLeastZero(free))
       [] item.align = "end" -> Lead(item) + free
       [] item.align = "center" -> Lead(item) + free \div 2
       [] OTHER -> Lead(item)

AfterLineGap(k) == top[k] + outer[k] + LineGap  \* faulty: without what align_content adds
After(k) == top[k] + outer[k] + spread.gap

\* flex_prepare_line and flex_layout_line_children, for one line.  A nested
\* container lays its child out, in its turn.
AlignLine ==
  /\ stage = "align"
  /\ top' = [top EXCEPT ![current] = IF current = 1 THEN spread.start ELSE After(current - 1)]
  /\ placed' = [placed EXCEPT ![current] =
                  [i \in DOMAIN rows[current] |->
                     [cross |-> FinalCross(rows[current][i], outer[current]),
                      offset |-> CrossOffset(current, i)]]]
  /\ inside' = [inside EXCEPT ![current] =
                  [i \in DOMAIN rows[current] |-> rows[current][i].inner * Unit]]
  /\ current' = current + 1
  /\ stage' = IF current = Len(rows) THEN "aligned" ELSE "align"
  /\ UNCHANGED <<rows, box, outer, spread, pass>>

\* The container is laid out once more with the same children, which shows
\* only if one of them is a container.
Again ==
  /\ stage = "aligned"
  /\ pass < MaxPasses
  /\ \E k \in DOMAIN rows : \E i \in OnBaseline(k) : rows[k][i].kind = "nest"
  /\ pass' = pass + 1
  /\ stage' = "size"
  /\ current' = 1
  /\ UNCHANGED <<rows, box, outer, spread, top, placed, inside>>

CrossNext == SizeLines \/ ExpandLine \/ StretchLines \/ AlignLine \/ Again

CrossSpec == CrossInit /\ [][CrossNext]_crossVars

-----------------------------------------------------------------------------
(***************************************************************************)
(* Aligning children on a baseline: in each line their baselines end up at *)
(* the same height, whatever their sizes, margins and limits, although an  *)
(* offset is cut off where a child would leave its line.  A first layout   *)
(* stands a nested container on its bottom edge; the next one stands it on *)
(* the baseline of its child, and has made the room for that.              *)
(***************************************************************************)
BaselinesAlign ==
  stage = "aligned" =>
    \A k \in DOMAIN rows : \A i, j \in OnBaseline(k) :
      LET Within(c) == IF pass = 1 THEN 0 ELSE rows[k][c].inner * Unit
          Height(c) == placed[k][c].offset + Baseline(rows[k][c].kind, placed[k][c].cross, Within(c))
      IN Height(i) = Height(j)

(***************************************************************************)
(* The lines follow one another without overlapping, within the container  *)
(* if it has room for them, and at its ends as align_content says; a child *)
(* that is not larger than its line stays within it.                       *)
(***************************************************************************)
LinesHoldChildren ==
  stage = "aligned" /\ rows # <<>> =>
    LET n == Len(rows)
    IN /\ \A k \in 1 .. n - 1 : top[k + 1] >= top[k] + outer[k] + LineGap
       /\ CrossTotal <= CrossSpace =>
            /\ top[1] >= 0 /\ top[n] + outer[n] <= CrossSpace
            /\ box.content \in {"start", "between", "stretch"} => top[1] = 0
            /\ box.content \in {"end", "stretch"} \/ (box.content = "between" /\ n > 1) =>
                 top[n] + outer[n] = CrossSpace
       /\ \A k \in 1 .. n : \A i \in DOMAIN rows[k] :
            LET item == rows[k][i]
                begin == placed[k][i].offset - Lead(item)
                end == placed[k][i].offset + placed[k][i].cross + Trail(item)
            IN end - begin <= outer[k] => begin >= 0 /\ end <= outer[k]
=============================================================================
