\* Limits up to 100: 13 is the first that admits two processes, 31 three,
\* 57 four and 91 five.
CONSTANTS
  Limits <- MCLimits
  ProcCounts <- MCProcCounts
SPECIFICATION Spec
INVARIANTS SieveInv PutsAreSafe SuperstepsMatch DeliversAllPrimes
PROPERTY Terminates
