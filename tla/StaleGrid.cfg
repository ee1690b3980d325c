CONSTANTS
  MaxSlots = 2
  MaxGen = 2
  FreeChunk = 1
  Faults = FALSE
  Styles = {plain, fancy}
  Unstyled = plain
  Fonts = {small, large}
  Default = small
  Texts = {blank, words}
  Blank = blank
  Grids = {two_columns}
  Initial = {0, 1, 2}
  FirstCap = 1
  BadCalls = FALSE
SPECIFICATION ColumnsSpec
INVARIANT GridIsOwn
CHECK_DEADLOCK FALSE
