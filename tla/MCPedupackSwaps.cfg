\* LU decomposition only; no messages are exchanged beside it.
CONSTANTS
  P = 2
  TagSizes = {0}
  PayloadSizes = {0}
  Primitives = {"send"}
  ResizesWhileSending = FALSE
  MaxSupersteps = 0
  MaxMessages = 0
  Inputs <- LUInputs
SPECIFICATION MCSpec
INVARIANT FactorsMatrix
