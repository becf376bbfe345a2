\* Four processes.  Spinning: bytes of three values (the smallest width that
\* works), four barriers, so that the bytes wrap around.  With the mutex: six
\* barriers, which are two calls of bsp_sync, one with a checkpoint due before
\* or after mcbsp_checkpoint, or three of mcbsp_checkpoint.
CONSTANTS
  P = 4
  W = 3
  MaxRounds = 4
  MaxBarriers = 6
SPECIFICATION FairSpec
INVARIANTS NobodyLeavesEarly ByteTestIsExact SpinInv CounterInv
PROPERTIES ImplementsBarrier EveryWaitEnds AbortReachesAll NobodyWakesSleepers
