\* Three processes, with and without a limit of work per superstep, and
\* lists that are split down to two edges.
CONSTANTS
  Graphs <- MCGraphs
  ProcCounts = {3}
  MaxOps = {0, 1}
  SplitMin = 1
SPECIFICATION FairSpec
INVARIANTS MatchingInv MatchingIsDominant
PROPERTIES SuitorsOnlyImprove Terminates
