----------------------------- MODULE StackShares -----------------------------
(***************************************************************************)
(* A stack (src/layout/xent_layout_swiftstack.c).  On the main axis free   *)
(* space goes to the spacers, or to the children with a priority; missing  *)
(* space is taken from the children of the lowest priorities first, and    *)
(* among those from the ones without a main size of their own.  On the     *)
(* cross axis the children fill the stack, or keep the height they want    *)
(* and stand on a common baseline as far as the stack has room for it.     *)
(* The limits of a child are applied to what it asks for, and once more    *)
(* to the box it is given; no space is handed out anew for them.           *)
(*                                                                         *)
(* Priorities are small integers, so those the code takes for equal are.   *)
(* Children that are containers have no place in this model.               *)
(***************************************************************************)
EXTENDS Lengths, Sequences, FiniteSets, FiniteSetsExt

CONSTANTS
  Kids,        \* children a stack may have, in pixels
  MaxKids,     \* bound on their number
  Lengthwise,  \* main sizes a stack may have
  KidGaps,     \* gaps between children
  Heights      \* cross sizes a stack may have

\* A child's limits lie along the stack (min, max) and across it (low, high).  A
\* spacer is described without a size (stack_describe_child); the sizes of the
\* others are within their limits (stack_axis_style, apply_size_constraints).
ASSUME StackAssumption ==
  /\ Kids \subseteq [preferred : Nat, min : Nat, max : Nat, margin : Nat, priority : Int, fixed : BOOLEAN,
                      spacer : BOOLEAN, height : Nat, low : Nat, high : Nat, above : Nat, below : Nat,
                      kind : {"text", "box"}]
  /\ \A kid \in Kids :
       /\ kid.min <= kid.max /\ kid.low <= kid.high
       /\ IF kid.spacer THEN kid.preferred = 0 /\ ~kid.fixed ELSE kid.preferred \in kid.min .. kid.max
       /\ kid.height > 0 => kid.height \in kid.low .. kid.high
  /\ MaxKids \in Nat
  /\ Lengthwise \subseteq Nat
  /\ KidGaps \subseteq Nat
  /\ Heights \subseteq Nat

VARIABLES
  kids,     \* the children, in order
  stack,    \* the main size, the gap, the cross size, whether it aligns baselines
  phase,    \* where the layout is: "share", "shrink", "place", "placed"
  mains,    \* main_sizes
  order,    \* priority_order: the children by priority
  rank,     \* the first child in that order whose group has not been shrunk
  deficit,  \* what is still missing
  edges,    \* where the children are placed
  across,   \* the cross size they are given, and their offset
  boxes     \* their own main and cross size: decided_w and decided_h

stackVars == <<kids, stack, phase, mains, order, rank, deficit, edges, across, boxes>>

\* The cross size of a stack matters where it aligns baselines.
Stacks ==
  {s \in [main : Lengthwise, gap : KidGaps, height : Heights, baseline : BOOLEAN] :
     ~s.baseline => \A h \in Heights : s.height <= h}

StackInit ==
  /\ kids \in UNION {[1 .. n -> Kids] : n \in 1 .. MaxKids}
  /\ stack \in Stacks
  /\ phase = "share"
  /\ mains = [i \in DOMAIN kids |-> kids[i].preferred * Unit]
  /\ order = [i \in DOMAIN kids |-> i]
  /\ rank = 1
  /\ deficit = 0
  /\ edges = [i \in DOMAIN kids |-> 0]
  /\ across = [i \in DOMAIN kids |-> [height |-> 0, offset |-> 0]]
  /\ boxes = [i \in DOMAIN kids |-> [long |-> 0, high |-> 0]]

-----------------------------------------------------------------------------
Main(i) == mains[i]
Around(i) == 2 * kids[i].margin * Unit
KidGap == stack.gap * Unit
Between == MapThenSumSet(Around, DOMAIN kids) + KidGap * (Len(kids) - 1)

\* stack_collect_children
Preferred(i) == kids[i].preferred * Unit
Remainder == stack.main * Unit - MapThenSumSet(Preferred, DOMAIN kids) - Between
Spacers == {i \in DOMAIN kids : kids[i].spacer}
Eager == {i \in DOMAIN kids : ~kids[i].fixed /\ kids[i].priority > 0}
Priority(i) == kids[i].priority

\* The branches of stack_distribute_main_sizes
ExpandSpacers ==
  /\ phase = "share"
  /\ Remainder > 0 /\ Spacers # {}
  /\ mains' = [i \in DOMAIN kids |->
                 IF i \in Spacers THEN mains[i] + Remainder \div Cardinality(Spacers) ELSE mains[i]]
  /\ phase' = "place"
  /\ UNCHANGED <<kids, stack, order, rank, deficit, edges, across, boxes>>

ExpandPriorities ==
  /\ phase = "share"
  /\ Remainder > 0 /\ Spacers = {} /\ Eager # {}
  /\ mains' = [i \in DOMAIN kids |->
                 IF i \in Eager
                 THEN mains[i] + (Remainder * Priority(i)) \div MapThenSumSet(Priority, Eager)
                 ELSE mains[i]]
  /\ phase' = "place"
  /\ UNCHANGED <<kids, stack, order, rank, deficit, edges, across, boxes>>

KeepSizes ==
  /\ phase = "share"
  /\ Remainder = 0 \/ (Remainder > 0 /\ Spacers = {} /\ Eager = {})
  /\ phase' = "place"
  /\ UNCHANGED <<kids, stack, mains, order, rank, deficit, edges, across, boxes>>

-----------------------------------------------------------------------------
(* stack_shrink_sizes                                                      *)

Shrinkable == MapThenSumSet(Main, DOMAIN kids)

ShrinkToNothing ==
  /\ phase = "share"
  /\ Remainder < 0 /\ -Remainder >= Shrinkable
  /\ mains' = [i \in DOMAIN kids |-> 0]
  /\ phase' = "place"
  /\ UNCHANGED <<kids, stack, order, rank, deficit, edges, across, boxes>>

\* compare_swiftstack_order_asc
Earlier(i, j) == Priority(i) < Priority(j) \/ (Priority(i) = Priority(j) /\ i < j)

Before(i) == Cardinality({j \in DOMAIN kids : Earlier(j, i)})

BeginShrink ==
  /\ phase = "share"
  /\ Remainder < 0 /\ -Remainder < Shrinkable
  /\ order' = [r \in DOMAIN kids |-> CHOOSE i \in DOMAIN kids : Before(i) = r - 1]
  /\ deficit' = -Remainder
  /\ phase' = "shrink"
  /\ UNCHANGED <<kids, stack, mains, rank, edges, across, boxes>>

\* stack_next_priority_group, as positions in the order
Group ==
  {r \in rank .. Len(kids) :
     \A q \in rank .. r : Priority(order[q]) = Priority(order[rank])}

InGroup(fixed) == {i \in {order[r] : r \in Group} : kids[i].fixed = fixed}
Total(S) == MapThenSumSet(Main, S)

ReducedOfAll(i, amount, S) ==  \* faulty: in proportion to the whole stack
  mains[i] - Least((amount * mains[i]) \div Total(DOMAIN kids), mains[i])

\* stack_reduce_members_scalar: in proportion to their sizes
ReducedBy(i, amount, S) ==
  LET share == (amount * mains[i]) \div Total(S) IN mains[i] - Least(share, mains[i])

FixedFirst(reduce) ==  \* faulty: takes from the children with a main size first
  LET fixed == Least(reduce, Total(InGroup(TRUE)))
  IN [flexible |-> reduce - fixed, fixed |-> fixed]

\* stack_reduce_priority_group: what is taken from the two halves of a group
Halves(reduce) ==
  LET flexible == Least(reduce, Total(InGroup(FALSE)))
  IN [flexible |-> flexible, fixed |-> reduce - flexible]

ShrinkGroup ==
  LET reduce == Least(deficit, Total(InGroup(TRUE)) + Total(InGroup(FALSE)))
      Taken(S, amount) == amount > 0 /\ Total(S) > 0
  IN /\ phase = "shrink"
     /\ rank <= Len(kids) /\ deficit > 0
     /\ mains' = [i \in DOMAIN kids |->
          CASE i \in InGroup(FALSE) /\ Taken(InGroup(FALSE), Halves(reduce).flexible) ->
                 ReducedBy(i, Halves(reduce).flexible, InGroup(FALSE))
            [] i \in InGroup(TRUE) /\ Taken(InGroup(TRUE), Halves(reduce).fixed) ->
                 ReducedBy(i, Halves(reduce).fixed, InGroup(TRUE))
            [] OTHER -> mains[i]]
     /\ rank' = Max(Group) + 1
     /\ deficit' = deficit - reduce
     /\ UNCHANGED <<kids, stack, phase, order, edges, across, boxes>>

EndShrink ==
  /\ phase = "shrink"
  /\ rank > Len(kids) \/ deficit <= 0
  /\ phase' = "place"
  /\ UNCHANGED <<kids, stack, mains, order, rank, deficit, edges, across, boxes>>

-----------------------------------------------------------------------------
Above(i) == kids[i].above * Unit
Below(i) == kids[i].below * Unit

\* stack_fallback_cross: as high as the stack.
Full(i) == AtLeastZero(stack.height * Unit - Above(i) - Below(i))

\* stack_child_cross_size
Height(i) == IF kids[i].height > 0 THEN kids[i].height * Unit ELSE Full(i)
KidBaseline(i) == Baseline(kids[i].kind, Height(i), 0)

\* stack_baseline_target
Standing == IF stack.baseline THEN DOMAIN kids \ Spacers ELSE {}
Lowest == Max({Above(i) + KidBaseline(i) : i \in Standing})

\* stack_child_rect, the cross axis of it.
Across(i) ==
  IF i \in Standing
  THEN [height |-> Height(i),
        offset |-> Clamp(Lowest - KidBaseline(i), Above(i),
                         Above(i) + AtLeastZero(stack.height * Unit - Height(i) - Above(i) - Below(i)))]
  ELSE [height |-> Full(i), offset |-> Above(i)]

\* decide_axis, which takes a definite size but for the child's own limits.
Long(i) == Clamp(mains[i], kids[i].min * Unit, kids[i].max * Unit)
High(i) == Clamp(Across(i).height, kids[i].low * Unit, kids[i].high * Unit)

\* stack_layout_children: the next child comes after the space this one was given,
\* however long its box becomes when it is laid out.
PlaceKids ==
  LET edge[i \in DOMAIN kids] ==
        IF i = 1
        THEN kids[1].margin * Unit
        ELSE edge[i - 1] + mains[i - 1] + (kids[i - 1].margin + kids[i].margin) * Unit + KidGap
  IN /\ phase = "place"
     /\ edges' = edge
     /\ across' = [i \in DOMAIN kids |-> Across(i)]
     /\ boxes' = [i \in DOMAIN kids |-> [long |-> Long(i), high |-> High(i)]]
     /\ phase' = "placed"
     /\ UNCHANGED <<kids, stack, mains, order, rank, deficit>>

StackNext ==
  \/ ExpandSpacers
  \/ ExpandPriorities
  \/ KeepSizes
  \/ ShrinkToNothing
  \/ BeginShrink
  \/ ShrinkGroup
  \/ EndShrink
  \/ PlaceKids

StackSpec == StackInit /\ [][StackNext]_stackVars

-----------------------------------------------------------------------------
Cut(i) == mains[i] < Preferred(i)

(***************************************************************************)
(* Taking space from the children of a stack: a child is cut only when     *)
(* nothing is left of those of lower priorities, and of those of its own   *)
(* priority that have no main size if it has one; children of one kind and *)
(* priority are cut in proportion.  This is about main_sizes, what is      *)
(* handed out; a child's own limits come into it later, at its box.        *)
(***************************************************************************)
ShrinksByPriority ==
  phase \in {"place", "placed"} =>
    \A i, j \in DOMAIN kids :
      /\ /\ Cut(i)
         /\ \/ Priority(j) < Priority(i)
            \/ Priority(j) = Priority(i) /\ kids[i].fixed /\ ~kids[j].fixed
         => mains[j] = 0
      /\ Remainder < 0 /\ Priority(i) = Priority(j) /\ kids[i].fixed = kids[j].fixed =>
           mains[i] * kids[j].preferred = mains[j] * kids[i].preferred

\* The child's limits leave it the space it was given.
Suits(i) == boxes[i].long = mains[i]

(***************************************************************************)
(* The boxes of a stack: the last one ends where the stack ends, unless    *)
(* nobody takes the free space, margins and gaps alone are too long, or    *)
(* its own limits make it shorter or longer than what it was given; and    *)
(* each is followed by the next one after the margins and the gap, unless  *)
(* it was given less than its minimum, when it reaches into the next.      *)
(* Across the stack, a box that is not higher than the stack is within     *)
(* it, and the baselines meet if no child leaves the stack that way and    *)
(* none is made higher or lower by its limits: a stack does not grow, and  *)
(* does not place a child anew, for either.                                *)
(***************************************************************************)
StackIsFilled ==
  phase = "placed" /\ kids # <<>> =>
    LET n == Len(kids)
        End(i) == edges[i] + boxes[i].long + kids[i].margin * Unit
    IN /\ \A i \in DOMAIN kids : boxes[i].long >= 0 /\ boxes[i].high >= 0
       /\ Between <= stack.main * Unit /\ (Remainder <= 0 \/ Spacers # {} \/ Eager # {}) /\ Suits(n) =>
            End(n) = stack.main * Unit
       /\ \A i \in 1 .. n - 1 :
            LET begin == edges[i + 1] - kids[i + 1].margin * Unit
            IN /\ Suits(i) => begin = End(i) + KidGap
               /\ mains[i] >= kids[i].min * Unit => begin >= End(i) + KidGap
       /\ \A i \in DOMAIN kids :
            LET top == across[i].offset - Above(i)
                bottom == across[i].offset + boxes[i].high + Below(i)
            IN bottom - top <= stack.height * Unit => top >= 0 /\ bottom <= stack.height * Unit
       /\ LET Line(i) == across[i].offset + Baseline(kids[i].kind, boxes[i].high, 0)
              Under(i) == kids[i].below * Unit + boxes[i].high - Baseline(kids[i].kind, boxes[i].high, 0)
          IN (\A i, j \in Standing :
                /\ boxes[i].high = across[i].height
                /\ Above(i) + KidBaseline(i) + Under(j) <= stack.height * Unit) =>
               \A i, j \in Standing : Line(i) = Line(j)
=============================================================================
