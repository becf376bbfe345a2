---- MODULE SequentialPrimes ----
(***************************************************************************)
(* The sieves of sequential_primes.c: sieve, over all numbers below n, and *)
(* sieve_non_even, over the odd ones, where index i stands for 2i+1.  Then *)
(* the list test_validity makes of the result of the second: 2, and what is*)
(* still marked, in order.  One step is one round of the outer loop.       *)
(*                                                                         *)
(* The variables are those of the parallel sieves, for one process: sieve  *)
(* is the set of the indices still marked, i the outer loop's variable.    *)
(***************************************************************************)
EXTENDS PrimeSieve

VARIABLES
  i,                \* i[0]: the loop variable
  odd               \* sieve_non_even, not sieve

vars == <<n, P, pc, waiting, sieve, num_primes_result, primes, puts, i, odd>>

(* How many entries isPrime has, ceil(N / 2.0) or N, and what they mean.   *)
Size == IF odd THEN (n + 1) \div 2 ELSE n

Number(k) == IF odd THEN 2 * k + 1 ELSE k

Init ==
  /\ n \in Limits
  /\ odd \in BOOLEAN
  /\ P = 1
  /\ pc = [s \in Procs |-> "sift"]
  /\ waiting = {}
  /\ sieve = [s \in Procs |-> IF odd THEN 1 .. Size - 1 ELSE 2 .. Size - 1]
  /\ num_primes_result = [s \in Procs |-> [t \in Procs |-> 0]]
  /\ primes = [s \in Procs |-> <<>>]
  /\ puts = {}
  /\ i = [s \in Procs |-> IF odd THEN 1 ELSE 2]

(* Faulty variant: the inner loop steps over the index, not the number.    *)
MultiplesOfIndex(k) == {j \in 2 * k .. Size - 1 : j % k = 0}

(* What the inner loop writes false to: from 3i+1 in steps of 2i+1, or from*)
(* i*i in steps of i.                                                      *)
Multiples(k) ==
  IF odd THEN {j \in 3 * k + 1 .. Size - 1 : (j - k) % (2 * k + 1) = 0}
  ELSE {j \in k * k .. Size - 1 : j % k = 0}

Sift ==
  /\ pc[0] = "sift"
  /\ i[0] < CeilSqrt(Size)
  /\ sieve' = [sieve EXCEPT ![0] = IF i[0] \in @ THEN @ \ Multiples(i[0]) ELSE @]
  /\ i' = [i EXCEPT ![0] = @ + 1]
  /\ UNCHANGED <<n, P, pc, waiting, num_primes_result, primes, puts, odd>>

(* found_primes: 2, then the odd numbers still marked.                     *)
Extract ==
  /\ pc[0] = "sift"
  /\ i[0] >= CeilSqrt(Size)
  /\ odd
  /\ primes' = [primes EXCEPT ![0] =
       [k \in 0 .. Cardinality(sieve[0]) |->
          IF k = 0 THEN 2
          ELSE Number(CHOOSE j \in sieve[0] : Cardinality({m \in sieve[0] : m <= j}) = k)]]
  /\ pc' = [pc EXCEPT ![0] = "end"]
  /\ UNCHANGED <<n, P, waiting, sieve, num_primes_result, puts, i, odd>>

(* sieve returns the marks themselves; it has no list.                     *)
ReturnMarks ==
  /\ pc[0] = "sift"
  /\ i[0] >= CeilSqrt(Size)
  /\ ~ odd
  /\ pc' = [pc EXCEPT ![0] = "marks"]
  /\ UNCHANGED <<n, P, waiting, sieve, num_primes_result, primes, puts, i, odd>>

Finished ==
  /\ pc[0] \in {"end", "marks"}
  /\ UNCHANGED vars

Next == Sift \/ Extract \/ ReturnMarks \/ Finished

Spec == Init /\ [][Next]_vars
----
(* Between rounds no proper multiple of a prime below the current number   *)
(* is marked and no prime has lost its mark: so stopping at the square root*)
(* of the number of entries, which for odd numbers lies above the square   *)
(* root of the limit, is late enough.                                      *)
SieveInv ==
  /\ i[0] \in 1 .. n + 1
  /\ pc[0] = "sift" =>
       sieve[0] = {k \in 1 .. Size - 1 :
         /\ Number(k) > 1
         /\ \A q \in 2 .. Number(i[0]) - 1 :
              IsPrime(q) /\ (odd => q # 2) => Number(k) = q \/ Number(k) % q # 0}
  /\ pc[0] # "sift" => {Number(k) : k \in sieve[0]} = PrimesUpTo(Number(Size - 1)) \ (IF odd THEN {2} ELSE {})
====
