\* A superstep that sends and also sets the tag size.  CHECK_DEADLOCK is off
\* because Deliver gives no meaning to a stack it cannot read.
CONSTANTS
  P = 2
  TagSizes = {0, 2}
  PayloadSizes = {1}
  Primitives = {"send"}
  ResizesWhileSending = TRUE
  MaxSupersteps = 1
  MaxMessages = 2
SPECIFICATION Spec
INVARIANT EveryMessageArrivesIntact
CHECK_DEADLOCK FALSE
