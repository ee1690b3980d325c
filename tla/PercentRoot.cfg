CONSTANTS
  Depth = 4
  Window = 100
  Padding = 30
  Protocols = {}
  Styles <- Relative
  Piece = 20
  MinWidth = 10
  MaxWidth = 90
  OnlySteady = FALSE
  MaxDirty = 1
SPECIFICATION BoxesSpec
INVARIANT BoxesAgree
