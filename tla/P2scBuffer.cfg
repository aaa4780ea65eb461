CONSTANTS
  Byte = {a, b}
  Junk = Junk
  Outside = Outside
  None = None
  SIZBUF = 2
  Chunk <- Chunks
  Given <- Memories
  Limit = 7
  Ordered = TRUE
SPECIFICATION Spec
INVARIANT InBounds
INVARIANT Filled
INVARIANT ReadsContent
PROPERTY ImplementsLog
