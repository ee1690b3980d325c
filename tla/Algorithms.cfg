CONSTANTS
  Unit = 5040
  Items <- MCItems
  MaxItems = 3
  Spaces = {3, 5}
  Gaps = {1}
  CrossItems <- MCCrossItems
  MaxLines = 2
  MaxPerLine = 2
  CrossSpaces = {2, 9}
  CrossGaps = {1}
  MaxPasses = 2
  Kids <- MCKids
  MaxKids = 4
  Lengthwise = {1, 4, 10}
  KidGaps = {1}
  Heights = {3}
  MaxGlyphs = 6
  Widths = {0, 1, 2, 3, 5, 6, 8}
  Infinite = 99
  Tracks <- MCTracks
  MaxTracks = 3
  Residents <- MCResidents
  MaxResidents = 2
  GridSpaces = {6}
  GridGaps <- MCGridGaps
  Depth = 4
  Window = 100
  Padding = 10
  Protocols = {"row", "column", "stack"}
  Styles <- MCStyles
  Piece = 20
  MinWidth = 15
  MaxWidth = 90
  OnlySteady = TRUE
  MaxDirty = 1
SPECIFICATION AlgSpec
INVARIANTS
  LinesAreGreedy
  SpaceIsHandedOut
  ChildrenApart
  BaselinesAlign
  LinesHoldChildren
  ShrinksByPriority
  StackIsFilled
  WordsStayWhole
  TracksFillGrid
  GridHoldsChildren
  BoxesAgree
CHECK_DEADLOCK FALSE
