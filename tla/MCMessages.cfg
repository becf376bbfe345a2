\* Three messages in two supersteps with tag sizes that differ; or one of
\* the programs.
CONSTANTS
  P = 2
  TagSizes = {0, 2}
  PayloadSizes = {0, 1}
  Primitives = {"send", "hpsend"}
  ResizesWhileSending = FALSE
  MaxSupersteps = 2
  MaxMessages = 3
  Inputs <- OtherInputs
SPECIFICATION MCSpec
INVARIANTS
  MessagesInv
  RequestsAreSafe
  ResultsAreRight
PROPERTIES
  TagSizeRestsWhileUsed
  DisagreementIsFatal
