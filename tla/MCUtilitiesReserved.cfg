CONSTANTS
  Keys <- MCKeys
  Numbers <- MCNumbers
  None = None
  Capacities <- MCCapacities
  Globals = {1, 2}
  Procs = {0, 1}
  Entries = {30, 40}
  Messages <- MCMessages
  InitialCap = 1
  EntrySize = 1
  MaxHeight = 3
  Files <- MCFiles
  Calls <- MCCalls
  MaxCalls = 1
  HardwareThreads = 6
  Word = 256
  MaxP = 3
  Strays = {3, 99}
SPECIFICATION MCSpec
INVARIANT ReservedCoresStayFree
