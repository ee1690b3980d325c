CONSTANTS
  Depth = 2
  Window = 100
  Padding = 0
  Protocols = {}
  Styles <- Absolute
  Piece = 1
  MinWidth = 3
  MaxWidth = 2
  OnlySteady = TRUE
  MaxDirty = 1
SPECIFICATION BoxesSpec
INVARIANT MinimumWins
