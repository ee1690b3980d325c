CONSTANTS
  ChunkSize = 4
  Sizes = {1, 6}
  Alignments = {1, 4}
  Bases = {0, 3}
  MaxBytes = 8
  MaxChunks = 3
  MaxAsked = 3
  Texts = {1, 2}
  Fonts = {1, 2}
  Settings = {0, 1}
  Hash <- MCHash
  FirstCap = 2
  MaxCap = 4
  Faults = TRUE
  Bytes = {"a", "b"}
  Strings <- MCStrings
  FirstCmds = 1
  FirstBytes = 1
  CmdBound = 4
  PoolBound = 7
SPECIFICATION BufferSpec
INVARIANTS BlocksSound TableSound AnswersAreTrue TextsReadBack ListIsBalanced
PROPERTIES SteadyFrames KeepsNewest
