----------------------------- MODULE LayoutBoxes -----------------------------
(***************************************************************************)
(* How wide the boxes of a nesting chain become, and whether a partial     *)
(* pass (run_dirty_plan in src/layout/xent_layout_dispatch.c) leaves every *)
(* box as wide as a full pass would make it.                               *)
(*                                                                         *)
(* Node 1 is the layout root, node i + 1 is the only child of node i, and  *)
(* the last node may hold a text.  Widths are integers and percentages are *)
(* rounded down.  Left out: aspect ratios and external content, which make *)
(* a width depend on a height, flex-basis, growing, margins and wrapping.  *)
(***************************************************************************)
EXTENDS Integers, FiniteSets

CONSTANTS
  Depth,       \* the number of nodes of the chain
  Window,      \* the available width of every layout call
  Padding,     \* left and right padding of every node together
  Protocols,   \* those a chain is built from, besides the absolute one
  Styles,      \* records [unit, value], see below
  Piece,       \* the width of a piece of text that no line may break
  MinWidth,    \* the minimal and
  MaxWidth,    \* the maximal width of every node
  OnlySteady,  \* are styles limited to those that SteadyStyles lets pass?
  MaxDirty     \* bound on the nodes changed between two layout calls

\* A column holds its child at its start or stretches it (align_items); a
\* vertical stack gives it the width it has itself.
Columns == {"column", "stretched"}
Flexes == Columns \cup {"row"}
Flows == Flexes \cup {"stack"}

\* "auto" has no width of its own, "fit" asks to wrap the contents in a flex
\* container (wrap_content_w), and "text" is the auto width of a text.
Units == {"fixed", "percent", "auto", "fit", "text"}

ASSUME BoxesAssumption ==
  /\ Depth \in Nat \ {0}
  /\ Window \in Nat
  /\ Padding \in Nat
  /\ Protocols \subseteq Flows
  /\ Styles \subseteq [unit : Units, value : Nat]
  /\ Piece \in Nat \ {0}
  /\ MinWidth \in Nat
  /\ MaxWidth \in Nat
  /\ OnlySteady \in BOOLEAN
  /\ MaxDirty \in Nat

Chain == 1 .. Depth

VARIABLES
  protocol,  \* protocol[i]: how node i lays out its child
  style,     \* style[i]: the width node i asks for
  width,     \* decided_w
  dirty      \* the directly dirty nodes

boxVars == <<protocol, style, width, dirty>>

-----------------------------------------------------------------------------
(* The width a node has by itself, compute_intrinsic_size.                 *)

\* xent_clampf
Clampf(w, low, high) == IF w < low THEN low ELSE IF w > high THEN high ELSE w

Bounded(w) == Clampf(w, MinWidth, MaxWidth)

\* The content box in a border box, and the room a measured container offers.
Inside(w) == IF w < Padding THEN 0 ELSE w - Padding

\* A text of n pieces in a border box: as many in a line as go into it, and
\* all of them when there is no room to speak of.
TextWidth(n, available) ==
  LET room == IF Inside(available) = 0 THEN 1 ELSE Inside(available)
  IN Padding + Piece * (IF available = 0 THEN n ELSE Clampf(room \div Piece, 1, n))

(***************************************************************************)
(* The width of a node that is offered an infinite one: what flex measures *)
(* along its main axis, and across it for the sizing modes "min" and       *)
(* "max".  A percentage of it is no width, and any flex container without  *)
(* a width of its own takes that of its contents (xent_flex_wrap_content). *)
(***************************************************************************)
Unconfined(i, mode, contents) ==
  Bounded(CASE style[i].unit = "fixed" -> style[i].value
            [] style[i].unit = "text"  -> Padding + Piece * (IF mode = "min" THEN 1 ELSE style[i].value)
            [] OTHER -> IF protocol[i] \in Flexes THEN Padding + contents ELSE 0)

Extent(mode) ==
  LET e[i \in Chain] == Unconfined(i, mode, IF i = Depth THEN 0 ELSE e[i + 1]) IN e

Percent(i, available) == (available * style[i].value) \div 100

\* xent_compute_hypothetical_cross in a column: a percentage of the width,
\* otherwise the width itself within the least and the greatest of the contents.
Fitting(i, available) ==
  IF style[i].unit = "percent" THEN Bounded(Percent(i, available))
  ELSE Clampf(available, Extent("min")[i], Extent("max")[i])

\* The contents of a flex container that wraps them.
Contents(i, available) ==
  IF i = Depth THEN 0
  ELSE IF protocol[i] = "row" THEN Extent("max")[i + 1]
  ELSE Fitting(i + 1, Inside(available))

Wraps(i) == style[i].unit = "fit" /\ protocol[i] \in Flexes

Intrinsic(i, available) ==
  Bounded(CASE style[i].unit = "fixed"   -> style[i].value
            [] style[i].unit = "percent" -> Percent(i, available)
            [] style[i].unit = "text"    -> TextWidth(style[i].value, available)
            [] Wraps(i)                  -> Padding + Contents(i, available)
            [] OTHER                     -> available)

-----------------------------------------------------------------------------
(* The width a node is given.                                              *)

InFlow(i) == i > 1 /\ protocol[i - 1] \in Flows

\* What a flow container of content width c gives its child i.  The only child
\* of a row shrinks to the row (flex_shrink is 1) and does not grow.
Given(i, c) ==
  LET base == IF style[i].unit = "percent" THEN Percent(i, c) ELSE Extent("max")[i]
  IN CASE protocol[i - 1] = "row"    -> Bounded(IF base > c THEN c ELSE base)
       [] protocol[i - 1] = "column" -> Bounded(Fitting(i, c))
       [] protocol[i - 1] = "stretched" ->
            Bounded(IF style[i].unit \in {"fixed", "percent"} THEN Fitting(i, c) ELSE c)
       [] OTHER -> c

\* xent_decide_node_box: a definite width is taken, within the limits.
DecideBox(i, available, definite) ==
  IF definite THEN Bounded(available) ELSE Intrinsic(i, available)

(***************************************************************************)
(* Laying out node r with the given request, and everything below it.  An  *)
(* absolute container offers its content box; a flow container sizes its   *)
(* child itself and passes the result as definite.                         *)
(***************************************************************************)
Dispatch(r, available, definite) ==
  LET w[i \in Chain] ==
        IF i < r THEN width[i]
        ELSE IF i = r THEN DecideBox(r, available, definite)
        ELSE IF InFlow(i) THEN DecideBox(i, Given(i, Inside(w[i - 1])), TRUE)
        ELSE DecideBox(i, Inside(w[i - 1]), FALSE)
  IN w

FullPass == Dispatch(1, Window, FALSE)

-----------------------------------------------------------------------------
(***************************************************************************)
(* The styles under which a partial pass can repeat what a full pass does. *)
(* Below a container that is not a flow container a recompute root is      *)
(* offered its own width as if it were that of its parent, so it must not  *)
(* be a percentage of it, nor a column that keeps within it.  And a flex   *)
(* container whose width is a percentage must not stand in one that takes  *)
(* the width of its contents: the climb ends at it, though offered an      *)
(* infinite width it takes that of its contents, too.                      *)
(***************************************************************************)
SteadyAt(st, i) ==
  /\ i > 1 /\ ~InFlow(i) => /\ st[i].unit # "percent"
                            /\ st[i].unit = "fit" => protocol[i] \notin Columns
  /\ i > 1 /\ st[i].unit = "percent" /\ protocol[i] \in Flexes =>
       protocol[i - 1] \notin Flexes \/ st[i - 1].unit = "fixed"

SteadyStyles(st) == OnlySteady => \A i \in Chain : SteadyAt(st, i)

\* Only the last node holds text.
TextIsLast(st) == \A i \in Chain : st[i].unit = "text" => i = Depth

BoxesInit ==
  /\ protocol \in [Chain -> Protocols \cup {"absolute"}]
  /\ style \in [Chain -> Styles]
  /\ TextIsLast(style)
  /\ SteadyStyles(style)
  /\ width = FullPass
  /\ dirty = {}

Mark(i) ==
  /\ dirty' = dirty \cup {i}
  /\ Cardinality(dirty \cup {i}) <= MaxDirty
  /\ UNCHANGED <<protocol, width>>

SetStyle(i, s) ==
  /\ style' = [style EXCEPT ![i] = s]
  /\ TextIsLast(style') /\ SteadyStyles(style')
  /\ Mark(i)

\* A change that is no change of a width, of a position for example.
Touch(i) == Mark(i) /\ UNCHANGED style

\* promote_dirty_root.  A node with any axis of its own size is taken to have
\* both: the climb ends sooner.
CanPromote(i) == protocol[i] \in Flows /\ style[i].unit \notin {"fixed", "percent"} /\ InFlow(i)

Promoted(i) ==
  IF i = 1 THEN 1
  ELSE CHOOSE r \in 1 .. i - 1 :
         /\ ~CanPromote(r)
         /\ \A j \in r + 1 .. i - 1 : CanPromote(j)

\* xent_layout: nothing, the whole chain, or the topmost promoted node.  The
\* recompute root is offered its own width, as definite in a flow container.
LayoutCallIndefinite ==  \* faulty: never passes a definite size
  LET roots == {Promoted(i) : i \in dirty}
      r == CHOOSE m \in roots : \A s \in roots : m <= s
  IN /\ dirty # {}
     /\ width' = IF r = 1 THEN FullPass ELSE Dispatch(r, width[r], FALSE)
     /\ dirty' = {}
     /\ UNCHANGED <<protocol, style>>

LayoutCall ==
  LET roots == {Promoted(i) : i \in dirty}
      r == CHOOSE m \in roots : \A s \in roots : m <= s
  IN /\ dirty # {}
     /\ width' = IF r = 1 THEN FullPass ELSE Dispatch(r, width[r], InFlow(r))
     /\ dirty' = {}
     /\ UNCHANGED <<protocol, style>>

BoxesNext ==
  \/ \E i \in Chain : Touch(i) \/ \E s \in Styles : SetStyle(i, s)
  \/ LayoutCall

BoxesSpec == BoxesInit /\ [][BoxesNext]_boxVars

-----------------------------------------------------------------------------
(***************************************************************************)
(* After a layout call, partial or full, every box is as wide as a full    *)
(* pass makes it: the comment in run_dirty_plan says that the size of a    *)
(* recompute root came from its parent's pass, which is unchanged, and is  *)
(* not derived anew with another result.                                   *)
(***************************************************************************)
BoxesAgree == dirty = {} => width = FullPass

(***************************************************************************)
(* Where the minimum exceeds the maximum, the minimum wins, as the comment *)
(* above xent_clampf in xent_layout_util.h says.                           *)
(***************************************************************************)
MinimumWins == \A i \in Chain : width[i] >= MinWidth
=============================================================================
