SPECIFICATION MCSpec
CONSTANTS
  Sessions = {1}
  Conns = {c1}
  BufCap = 1
  NetCap = 2
  MaxTotal = 2
  MaxChunks <- MCMaxChunks
INVARIANTS EndsHonest
PROPERTIES ImplementsStreams EndsTogether
CHECK_DEADLOCK FALSE
