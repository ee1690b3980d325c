CONSTANTS
  MaxSlots = 2
  MaxGen = 2
  FreeChunk = 1
  Faults = TRUE
  Styles = {plain, fancy}
  Unstyled = plain
  Fonts = {small, large}
  Default = small
  Texts = {blank, words}
  Blank = blank
  Grids = {two_columns}
  Initial = {0, 1, 2}
  FirstCap = 1
  BadCalls = TRUE
SPECIFICATION ColumnsSpec
INVARIANTS ColumnsAreOwn NothingLeaks
PROPERTY ChangesAreMarked
CHECK_DEADLOCK FALSE
