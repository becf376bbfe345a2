\* Two processes, two variables each, any two requests or writes
\* spread over two supersteps.
CONSTANTS
  P = 2
  Cells <- MCCells
  Values <- MCValues
  Start <- MCStart
  Written <- MCWritten
  Primitives <- MCAll
  MaxSupersteps = 2
  MaxActions = 2
SPECIFICATION FairSpec
INVARIANT DrmaInv
PROPERTIES MemoryRestsDuringGets ImplementsBspMemory EverySyncReturns
