---- MODULE MCPrimes ----
(* The prime sieves for TLC: every limit of an interval, every number of   *)
(* processes the machine may offer, one of the programs in each behaviour. *)
EXTENDS PrimeSieve

VARIABLES program, small, i, prime_index, odd

vars == <<program, n, P, pc, waiting, sieve, num_primes_result, primes, puts,
          small, i, prime_index, odd>>

MCLimits == 2 .. 100
MCProcCounts == 1 .. 5

Parallel == INSTANCE ParallelPrimes
Iterative == INSTANCE IterativePrimes
Sequential == INSTANCE SequentialPrimes

Init ==
  \/ program = "parallel" /\ Parallel!Init /\ prime_index = <<>> /\ odd = TRUE
  \/ program = "iterative" /\ Iterative!Init /\ small = <<>> /\ i = <<>> /\ odd = TRUE
  \/ program = "sequential" /\ Sequential!Init /\ small = <<>> /\ prime_index = <<>>

Next ==
  /\ UNCHANGED program
  /\ \/ program = "parallel" /\ Parallel!Next /\ UNCHANGED <<prime_index, odd>>
     \/ program = "iterative" /\ Iterative!Next /\ UNCHANGED <<small, i, odd>>
     \/ program = "sequential" /\ Sequential!Next /\ UNCHANGED <<small, prime_index>>

LastParts ==
  [parallel |-> {"final"}, iterative |-> {"returned", "killed"}, sequential |-> {"end", "marks"}]

Ended == \A s \in Procs : pc[s] \in LastParts[program]

(* No process stops in the middle of its program.                          *)
Spec == Init /\ [][Next]_vars /\ WF_vars(Next)
----
(* What the sieving loop of each program maintains.                        *)
SieveInv ==
  /\ program = "parallel" => Parallel!SieveInv
  /\ program = "iterative" => Iterative!SieveInv /\ Iterative!SearchStaysInBlock
  /\ program = "sequential" => Sequential!SieveInv

(* The processes of the iterative sieve agree on the supersteps.           *)
SuperstepsMatch == program = "iterative" => Iterative!SuperstepsMatch

(* Every program ends, which for the iterative sieve depends on a number   *)
(* the processes learn from each other.                                    *)
Terminates == <>Ended
====
