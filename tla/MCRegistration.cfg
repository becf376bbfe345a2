\* Any four registrations and deregistrations of four variables with two
\* sizes, in up to three supersteps.
CONSTANTS
  P = 2
  Variables <- MCVariables
  NullAt <- MCNullAt
  Null = Null
  Sizes <- MCSizes
  None = None
  Careful = TRUE
  MaxSupersteps = 3
  MaxActions = 4
SPECIFICATION Spec
INVARIANTS RegInv RegistrationsResolve
PROPERTY TableRestsWhileUsed
