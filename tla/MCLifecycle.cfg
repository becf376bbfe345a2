SPECIFICATION FairSpec
CONSTANTS
  MaxP = 3
  MaxRuns = 2
  MaxSyncs <- MCMaxSyncs
  ManualAt <- MCManualAt
  MachineFiles <- MCMachineFiles
  Frequencies = {0, 2}
  Bounds <- MCBounds
INVARIANTS LifecycleInv MismatchIsReported CheckpointsInv
PROPERTY EveryProgramEnds
