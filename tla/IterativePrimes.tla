---- MODULE IterativePrimes ----
(***************************************************************************)
(* bsp_sieve_iterative of parallel_primes_iterative.c: one superstep per   *)
(* sieving prime.  All processes cross off the multiples of the current    *)
(* prime, process 0 finds the next one in its own block and puts it to the *)
(* others.  Index i of prime_index stands for the number 2i+3.             *)
(***************************************************************************)
EXTENDS PrimeSieve

VARIABLE
  prime_index       \* prime_index[s]: the index process s sieves with next

vars == <<n, P, pc, waiting, sieve, num_primes_result, primes, puts, prime_index>>

(* "returned": the SPMD function was left; "killed": main returned first.  *)
Parts == {"register", "loop", "allocate", "collect", "return", "returned", "killed"}

TypeOK ==
  /\ SieveTypeOK
  /\ pc \in [Procs -> Parts]
  /\ prime_index \in [Procs -> 0 .. SmallSize(n)]

Init ==
  /\ InitSieve
  /\ prime_index = [s \in Procs |-> 0]

(* The condition of the while loop, prime_index < sqrt_n / 2.0.            *)
Loops(s) == 2 * prime_index[s] < CeilSqrt(n)
----
(* Faulty variants.                                                        *)

(* The next entry is taken without looking whether it is prime.            *)
NextPrimeIndexBlind(now, marked) == now + 2

(* Process 0 forgets to tell the others.                                   *)
SieveAndAdvanceSilently(s) ==
  /\ Computes(s, "loop")
  /\ s = 0
  /\ Loops(s)
  /\ sieve' = [sieve EXCEPT ![s] = @ \ CrossedOff(s, NumberAt(prime_index[s]))]
  /\ prime_index' = [prime_index EXCEPT ![0] =
       CHOOSE j \in @ + 1 .. n : /\ j \in sieve'[0] \/ j >= SmallSize(n) - 1
                                 /\ \A k \in @ + 1 .. j - 1 : k < SmallSize(n) - 1 /\ k \notin sieve'[0]]
  /\ Enters(s, "loop")
  /\ UNCHANGED <<n, P, resultVars, puts>>

(* The index is only taken over from process 0, never advanced.            *)
NextPrimeIndexStays(now, marked) == now
----
Register(s) ==
  /\ Computes(s, "register")
  /\ Enters(s, "loop")
  /\ UNCHANGED <<sieveVars, resultVars, puts, prime_index>>

(* The do-while loop: the first index after now that is still marked, or   *)
(* else, where the numbers exceed sqrt(n), the first that is large enough. *)
NextPrimeIndex(now, marked) ==
  LET last == SmallSize(n) - 1
      stops == {j \in now + 1 .. last : j \in marked \/ j = last}
  IN IF stops = {} THEN now + 1 ELSE Min(stops)

(* One round of the while loop in process 0 ...                            *)
SieveAndAdvance(s) ==
  /\ Computes(s, "loop")
  /\ s = 0
  /\ Loops(s)
  /\ sieve' = [sieve EXCEPT ![s] = @ \ CrossedOff(s, NumberAt(prime_index[s]))]
  /\ prime_index' = [prime_index EXCEPT ![0] = NextPrimeIndex(@, sieve'[0])]
  /\ puts' = puts \cup {Put(t, "prime_index", 0, prime_index'[0]) : t \in 1 .. P-1}
  /\ Enters(s, "loop")
  /\ UNCHANGED <<n, P, resultVars>>

(* ... and in the others, which learn the next index from bsp_sync.        *)
Sieve(s) ==
  /\ Computes(s, "loop")
  /\ s # 0
  /\ Loops(s)
  /\ sieve' = [sieve EXCEPT ![s] = @ \ CrossedOff(s, NumberAt(prime_index[s]))]
  /\ Enters(s, "loop")
  /\ UNCHANGED <<n, P, resultVars, puts, prime_index>>

Count(s) ==
  /\ Computes(s, "loop")
  /\ ~ Loops(s)
  /\ PublishCount(s)
  /\ Enters(s, "allocate")
  /\ UNCHANGED <<sieveVars, resultVars, prime_index>>

Allocate(s) ==
  /\ Computes(s, "allocate")
  /\ AllocatePrimes(s)
  /\ Enters(s, "collect")
  /\ UNCHANGED <<sieveVars, num_primes_result, puts, prime_index>>

Collect(s) ==
  /\ Computes(s, "collect")
  /\ PutPrimes(s)
  /\ Enters(s, "return")
  /\ UNCHANGED <<sieveVars, resultVars, prime_index>>

(* The function ends without bsp_end.  Process 0 returns to main, which    *)
(* ends the program and whatever threads are still running.                *)
Return(s) ==
  /\ Computes(s, "return")
  /\ pc' = [t \in Procs |-> IF t = s THEN "returned"
                            ELSE IF s = 0 /\ pc[t] # "returned" THEN "killed"
                            ELSE pc[t]]
  /\ UNCHANGED <<sieveVars, resultVars, waiting, puts, prime_index>>

Sync ==
  /\ SyncResults
  /\ prime_index' = [t \in Procs |->
       Delivered(t, "prime_index", [k \in {0} |-> prime_index[t]])[0]]

Finished ==
  /\ \A s \in Procs : pc[s] \in {"returned", "killed"}
  /\ UNCHANGED vars

Step(s) ==
  \/ Register(s) \/ SieveAndAdvance(s) \/ Sieve(s) \/ Count(s)
  \/ Allocate(s) \/ Collect(s) \/ Return(s)

Next == Sync \/ (\E s \in Procs : Step(s)) \/ Finished

Spec == Init /\ [][Next]_vars
----
(* bsp_sync must be called equally often everywhere.  How often is up to a *)
(* loop whose condition every process evaluates for itself: whenever two   *)
(* processes are inside bsp_sync they have come from the same part of the  *)
(* program and, between supersteps, they sieve with the same prime.        *)
SuperstepsMatch ==
  /\ \A s, t \in waiting : pc[s] = pc[t]
  /\ waiting = {} => \A s, t \in Procs : pc[s] = "loop" /\ pc[t] = "loop"
                                           => prime_index[s] = prime_index[t]

(* Before each round a block lacks exactly the proper multiples of the     *)
(* primes below the current number: process 0 has skipped no prime, though *)
(* it looks for the next one in a sieve it has not finished.               *)
BlockIsSievedSoFar ==
  \A s \in Procs :
    pc[s] = "loop" /\ s \notin waiting =>
      sieve[s] = {k \in Block(s) :
        \A q \in 3 .. NumberAt(prime_index[s]) - 1 :
          IsPrime(q) => NumberAt(k) = q \/ NumberAt(k) % q # 0}

(* What the sieving loop maintains.                                        *)
SieveInv == TypeOK /\ BlockIsSievedSoFar

(* The search for the next prime reads local_sieve_array only inside the   *)
(* block of process 0: the number of processes is small enough for it.     *)
SearchStaysInBlock ==
  pc[0] = "loop" /\ 0 \notin waiting /\ Loops(0) =>
    \A j \in prime_index[0] + 1 .. SmallSize(n) - 2 : j \in Block(0)
====
