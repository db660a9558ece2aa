\* resize( 0 ) of a deque that does not begin at the start of a chunk.
CONSTANTS
  Values = {v}
  ValuesPerChunk = 2
  MinChunks = 4
  MaxSize = 4
  ResizedToNothing = TRUE
SPECIFICATION Spec
CHECK_DEADLOCK FALSE
INVARIANT DequeIsASequence
