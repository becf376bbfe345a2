---- MODULE ParallelPrimes ----
(***************************************************************************)
(* bsp_sieve of parallel_primes.c: process 0 finds the primes up to        *)
(* sqrt(n) and puts them to everybody, every process crosses their         *)
(* multiples off its own block, and the primes left are collected on       *)
(* process 0.  Index i of is_prime_small stands for the number 2i+1.       *)
(***************************************************************************)
EXTENDS PrimeSieve

VARIABLES
  small,            \* small[s][i]: is_prime_small of process s
  i                 \* i[s]: the loop variable of the sieving loop s is in

vars == <<n, P, pc, waiting, sieve, num_primes_result, primes, puts, small, i>>

(* "final" is reached when a process has returned from bsp_end.            *)
Parts == {"register", "sift", "sieve", "allocate", "collect", "end", "final"}

TypeOK ==
  /\ SieveTypeOK
  /\ pc \in [Procs -> Parts]
  /\ small \in [Procs -> [0 .. SmallSize(n) - 1 -> BOOLEAN]]
  /\ i \in [Procs -> 0 .. SmallSize(n)]

Init ==
  /\ InitSieve
  /\ small = [s \in Procs |-> [k \in 0 .. SmallSize(n) - 1 |-> TRUE]]
  /\ i = [s \in Procs |-> 0]

(* ceil(sqrt(sqrt(n)) / 2.0): the least k with 2k >= the fourth root.      *)
FourthPower(m) == (m * m) * (m * m)

SmallEnd ==
  CHOOSE k \in 0 .. n : FourthPower(2*k) >= n /\ (k = 0 \/ FourthPower(2*(k-1)) < n)
----
(* Allocate the arrays, register is_prime_small and num_primes_result.     *)
Register(s) ==
  /\ Computes(s, "register")
  /\ Enters(s, "sift")
  /\ UNCHANGED <<sieveVars, resultVars, puts, small, i>>

(* Process 0 sieves the numbers up to sqrt(n): 1 is no prime ...           *)
SiftBegin(s) ==
  /\ Computes(s, "sift")
  /\ s = 0
  /\ i[s] = 0
  /\ small' = [small EXCEPT ![0][0] = FALSE]
  /\ i' = [i EXCEPT ![0] = 1]
  /\ UNCHANGED <<sieveVars, resultVars, pc, waiting, puts>>

(* ... and neither are the proper multiples of what is.                    *)
Sift(s) ==
  /\ Computes(s, "sift")
  /\ s = 0
  /\ i[s] \in 1 .. SmallEnd - 1
  /\ small' = [small EXCEPT ![0] = [k \in DOMAIN @ |->
       @[k] /\ ~ (@[i[0]] /\ k >= 3 * i[0] + 1 /\ (k - i[0]) % (2 * i[0] + 1) = 0)]]
  /\ i' = [i EXCEPT ![0] = @ + 1]
  /\ UNCHANGED <<sieveVars, resultVars, pc, waiting, puts>>

(* Process 0 puts the small sieve to the others, element by element.       *)
PublishSmall(s) ==
  /\ Computes(s, "sift")
  /\ s = 0
  /\ i[s] >= 1 /\ i[s] >= SmallEnd
  /\ puts' = puts \cup
       {Put(t, "is_prime_small", k, small[0][k]) : t \in 1 .. P-1, k \in DOMAIN small[0]}
  /\ i' = [i EXCEPT ![0] = 0]
  /\ Enters(s, "sieve")
  /\ UNCHANGED <<sieveVars, resultVars, small>>

(* The others have nothing to do in this superstep.                        *)
AwaitSmall(s) ==
  /\ Computes(s, "sift")
  /\ s # 0
  /\ Enters(s, "sieve")
  /\ UNCHANGED <<sieveVars, resultVars, puts, small, i>>

(* Cross the multiples of one small number off the block, if it is prime.  *)
Sieve(s) ==
  /\ Computes(s, "sieve")
  /\ i[s] < SmallSize(n)
  /\ sieve' = [sieve EXCEPT ![s] = IF small[s][i[s]] THEN @ \ CrossedOff(s, 2 * i[s] + 1) ELSE @]
  /\ i' = [i EXCEPT ![s] = @ + 1]
  /\ UNCHANGED <<n, P, resultVars, pc, waiting, puts, small>>

Count(s) ==
  /\ Computes(s, "sieve")
  /\ i[s] = SmallSize(n)
  /\ PublishCount(s)
  /\ Enters(s, "allocate")
  /\ UNCHANGED <<sieveVars, resultVars, small, i>>

Allocate(s) ==
  /\ Computes(s, "allocate")
  /\ AllocatePrimes(s)
  /\ Enters(s, "collect")
  /\ UNCHANGED <<sieveVars, num_primes_result, puts, small, i>>

Collect(s) ==
  /\ Computes(s, "collect")
  /\ PutPrimes(s)
  /\ Enters(s, "end")
  /\ UNCHANGED <<sieveVars, resultVars, small, i>>

(* bsp_end: nothing of the program is left to do.                          *)
End(s) ==
  /\ Computes(s, "end")
  /\ pc' = [pc EXCEPT ![s] = "final"]
  /\ UNCHANGED <<sieveVars, resultVars, waiting, puts, small, i>>

Sync ==
  /\ SyncResults
  /\ small' = [t \in Procs |-> Delivered(t, "is_prime_small", small[t])]
  /\ UNCHANGED i

Finished ==
  /\ \A s \in Procs : pc[s] = "final"
  /\ UNCHANGED vars

Step(s) ==
  \/ Register(s) \/ SiftBegin(s) \/ Sift(s) \/ PublishSmall(s) \/ AwaitSmall(s)
  \/ Sieve(s) \/ Count(s) \/ Allocate(s) \/ Collect(s) \/ End(s)

Next == Sync \/ (\E s \in Procs : Step(s)) \/ Finished

Spec == Init /\ [][Next]_vars

----
(* Once process 0 has published it, the small sieve of every process holds *)
(* exactly the odd primes up to sqrt(n), rounded up: sifting with the      *)
(* numbers up to the fourth root was enough.                               *)
SmallSieveIsExact ==
  \A s \in Procs :
    pc[s] = "sieve" /\ s \notin waiting =>
      \A k \in DOMAIN small[s] : small[s][k] <=> IsPrime(2 * k + 1)

(* While a process sieves, its block lacks exactly the proper multiples of *)
(* the small primes it is done with: no multiple is missed because of      *)
(* where the block begins or ends, and no prime is crossed off.            *)
BlockIsSievedSoFar ==
  \A s \in Procs :
    pc[s] = "sieve" /\ s \notin waiting =>
      sieve[s] = {k \in Block(s) :
        \A q \in 2 .. 2 * i[s] - 1 :
          IsPrime(q) /\ q % 2 = 1 => NumberAt(k) = q \/ NumberAt(k) % q # 0}

(* What the sieving loops maintain.                                        *)
SieveInv == TypeOK /\ SmallSieveIsExact /\ BlockIsSievedSoFar
====
