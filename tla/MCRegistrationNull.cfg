\* Without care: a variable that is NULL at one process is registered
\* after another variable of the same superstep.  CHECK_DEADLOCK is off
\* because Remember and Deregister stop where the code's assertions would.
CONSTANTS
  P = 2
  Variables <- MCTwoVariables
  NullAt <- MCOneNull
  Null = Null
  Sizes <- MCOneSize
  None = None
  Careful = FALSE
  MaxSupersteps = 2
  MaxActions = 2
SPECIFICATION Spec
CHECK_DEADLOCK FALSE
INVARIANT RegistrationsResolve
