----------------------------- MODULE MCAlgorithms -----------------------------
(***************************************************************************)
(* The algorithms of a layout pass side by side, for TLC: a behaviour is   *)
(* one computation of one of them, on every input within the bounds, or    *)
(* one life of a chain of boxes.  They share nothing but the pixel.        *)
(***************************************************************************)
EXTENDS FlexLines, FlexCross, StackShares, MonoText, GridTracks, LayoutBoxes

\* Limits of 9 are never reached.
FlexItem(base, min, max, grow, shrink, margin) ==
  [base |-> base, min |-> min, max |-> max, grow |-> grow, shrink |-> shrink, margin |-> margin]

MCItems ==
  {FlexItem(0, 0, 9, 0, 1, 0),   \* empty, and still shrinks like a pixel
   FlexItem(1, 0, 9, 2, 1, 0),
   FlexItem(2, 0, 9, 1, 1, 1),   \* takes half of what is free
   FlexItem(1, 0, 1, 2, 0, 0),   \* cannot grow, though it wants to
   FlexItem(1, 0, 2, 2, 1, 0),
   FlexItem(1, 4, 9, 2, 1, 0),   \* below its minimum
   FlexItem(2, 0, 1, 1, 1, 0)}   \* above its maximum

CrossItem(cross, min, max, lead, trail, align, kind) ==
  [cross |-> cross, min |-> min, max |-> max, lead |-> lead, trail |-> trail,
   align |-> align, auto |-> TRUE, kind |-> kind, inner |-> 1]

MCCrossItems ==
  {CrossItem(2, 0, 9, 1, 0, "end", "box"),
   CrossItem(1, 0, 2, 0, 1, "center", "box"),
   CrossItem(1, 0, 2, 0, 0, "stretch", "box"),
   CrossItem(1, 0, 9, 0, 1, "baseline", "text"),
   CrossItem(3, 0, 2, 1, 0, "baseline", "box"),
   CrossItem(4, 0, 9, 0, 1, "baseline", "nest")}

\* Limits of 0 and 9 are never reached.
Kid(preferred, margin, priority, fixed, height, kind) ==
  [preferred |-> preferred, min |-> 0, max |-> 9, margin |-> margin, priority |-> priority,
   fixed |-> fixed, spacer |-> FALSE, height |-> height, low |-> 0, high |-> 9,
   above |-> margin, below |-> priority % 2, kind |-> kind]

MCKids ==
  {Kid(1, 0, 0, FALSE, 2, "text"),
   [Kid(2, 0, 0, TRUE, 1, "box") EXCEPT !.min = 1, !.high = 2],
   Kid(1, 1, 1, FALSE, 2, "text"),
   [Kid(2, 0, 1, TRUE, 3, "text") EXCEPT !.min = 2, !.low = 2],
   [Kid(1, 0, 1, TRUE, 0, "box") EXCEPT !.high = 2],
   [Kid(2, 0, 2, FALSE, 2, "box") EXCEPT !.max = 3],
   Kid(0, 0, 1, FALSE, 9, "box"),
   [Kid(0, 0, 0, FALSE, 0, "box") EXCEPT !.spacer = TRUE, !.max = 4]}

Track(mode, value) == [mode |-> mode, value |-> value]

MCTracks ==
  {Track("auto", 0), Track("pixel", 2), Track("pixel", -1),
   Track("star", 1), Track("star", 2), Track("star", 0)}

Resident(index, span, need, lead, trail) ==
  [index |-> index, span |-> span, need |-> need, lead |-> lead, trail |-> trail]

MCResidents ==
  {Resident(0, 1, 2, 0, 1),
   Resident(1, 2, 3, 1, 0),
   Resident(0, 3, 7, 1, 1),           \* shares what it needs among tracks
   Resident(9, 1, 1, 0, 0),           \* past the last track
   Resident(2 ^ 16, 2 ^ 16, 3, 0, 0), \* both become 0
   Resident(0, 2 ^ 16 + 2, 1, 3, 3)}  \* more margin than a track has room for

MCGridGaps == {-1, 1}

Style(unit, value) == [unit |-> unit, value |-> value]

MCStyles ==
  {Style("fixed", 60), Style("percent", 50), Style("auto", 0), Style("fit", 0), Style("text", 3)}

-----------------------------------------------------------------------------
\* The ones that are not computed have no input and are done.
FlexParked ==
  /\ items = <<>> /\ at = "done" /\ FlexReady
  /\ frame = [main |-> 0, hug |-> FALSE, gap |-> 0, wrap |-> FALSE, rtl |-> FALSE, justify |-> "start"]
CrossParked ==
  /\ rows = <<>> /\ outer = <<>> /\ top = <<>> /\ placed = <<>> /\ inside = <<>> /\ pass = 1
  /\ stage = "aligned" /\ current = 1 /\ spread = [start |-> 0, gap |-> 0]
  /\ box = [space |-> 0, gap |-> 0, row |-> FALSE, wrap |-> TRUE, content |-> "start"]
StackParked ==
  /\ kids = <<>> /\ mains = <<>> /\ order = <<>> /\ edges = <<>> /\ across = <<>> /\ boxes = <<>>
  /\ phase = "placed" /\ rank = 1 /\ deficit = 0 /\ stack = [main |-> 0, gap |-> 0, height |-> 0, baseline |-> FALSE]
TextParked ==
  /\ breaks = <<>> /\ plan = <<>> /\ doing = "done" /\ lineStart = 1
  /\ request = [policy |-> "nowrap", mode |-> "undefined", width |-> Infinite]

GridParked ==
  /\ def = [tracks |-> <<>>, gap |-> 0, space |-> 0] /\ residents = <<>>
  /\ lanes = <<>> /\ sizes = <<>> /\ starts = <<>> /\ cells = <<>>
  /\ gridStep = "tracks" /\ turn = 1
BoxesParked ==
  /\ protocol = [i \in Chain |-> "absolute"]
  /\ style = [i \in Chain |-> [unit |-> "auto", value |-> 0]]
  /\ width = FullPass /\ dirty = {}

\* The last node of a chain has no child; a layout root is an absolute container,
\* as most are, or a row.
ChainEnds == protocol[Depth] = "absolute" /\ protocol[1] \in {"absolute", "row"}

VARIABLE algorithm  \* the one a behaviour is about

AlgInit ==
  \/ algorithm = "lines" /\ FlexInit /\ CrossParked /\ StackParked /\ TextParked /\ GridParked /\ BoxesParked
  \/ algorithm = "cross" /\ FlexParked /\ CrossInit /\ StackParked /\ TextParked /\ GridParked /\ BoxesParked
  \/ algorithm = "stack" /\ FlexParked /\ CrossParked /\ StackInit /\ TextParked /\ GridParked /\ BoxesParked
  \/ algorithm = "text" /\ FlexParked /\ CrossParked /\ StackParked /\ TextInit /\ GridParked /\ BoxesParked
  \/ algorithm = "grid" /\ FlexParked /\ CrossParked /\ StackParked /\ TextParked /\ GridInit /\ BoxesParked
  \/ algorithm = "boxes" /\ FlexParked /\ CrossParked /\ StackParked /\ TextParked /\ GridParked /\ BoxesInit /\ ChainEnds

AlgNext ==
  /\ UNCHANGED algorithm
  /\ \/ algorithm = "lines" /\ FlexNext /\ UNCHANGED <<crossVars, stackVars, textVars, gridVars, boxVars>>
     \/ algorithm = "cross" /\ CrossNext /\ UNCHANGED <<flexVars, stackVars, textVars, gridVars, boxVars>>
     \/ algorithm = "stack" /\ StackNext /\ UNCHANGED <<flexVars, crossVars, textVars, gridVars, boxVars>>
     \/ algorithm = "text" /\ TextNext /\ UNCHANGED <<flexVars, crossVars, stackVars, gridVars, boxVars>>
     \/ algorithm = "grid" /\ GridNext /\ UNCHANGED <<flexVars, crossVars, stackVars, textVars, boxVars>>
     \/ algorithm = "boxes" /\ BoxesNext /\ UNCHANGED <<flexVars, crossVars, stackVars, textVars, gridVars>>

AlgSpec == AlgInit /\ [][AlgNext]_<<flexVars, crossVars, stackVars, textVars, gridVars, boxVars, algorithm>>
=============================================================================
