SPECIFICATION Spec
CONSTANTS
  Readers = {r1, r2}
  None = None
  LogChunk = 2
  MaxHeight = 3
  MaxBlocks = 4
  MaxReturns = 1
SYMMETRY Symmetry
INVARIANTS
  IndexExact
  AnswerExact
