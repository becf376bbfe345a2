---- MODULE PrimeSieve ----
(***************************************************************************)
(* What parallel_primes.c and parallel_primes_iterative.c have in common:  *)
(* the distribution of the odd numbers 3, 5, .., n over P processes, the   *)
(* crossing-off of multiples in one block, and the supersteps that count   *)
(* the primes found and collect them in an array of process 0.             *)
(*                                                                         *)
(* Index i of the distributed sieve stands for the number 2i+3.  The sieve *)
(* of a process is the set of indices it still marks as prime.  bsp_put    *)
(* copies its argument into a queue; bsp_sync, here one joint step, empties*)
(* the queues of all processes.                                            *)
(***************************************************************************)
EXTENDS Integers, FiniteSets, FiniteSetsExt

CONSTANTS
  Limits,           \* the limits n to sieve up to
  ProcCounts        \* the numbers of processes asked for

ASSUME LimitsAssumption == Limits \subseteq Nat \ {0, 1}
ASSUME ProcCountsAssumption == ProcCounts \subseteq Nat \ {0}

VARIABLES
  n,                \* the limit (global variable n)
  P,                \* the number of processes used (global variable P)
  pc,               \* pc[s]: the part of the program process s is to run next
  waiting,          \* the processes that are inside bsp_sync
  sieve,            \* sieve[s]: what is left in local_sieve_array, as indices
  num_primes_result,\* num_primes_result[s][t]: as s knows it
  primes,           \* primes[s][k]: the result array of s, 0 if not written
  puts              \* the puts queued in this superstep

sieveVars == <<n, P, sieve>>
resultVars == <<num_primes_result, primes>>

Procs == 0 .. P-1
----
(* Faulty variants.                                                        *)

(* The even limit is counted as if it were odd.                            *)
OddsUpToAll(m) == m \div 2

(* The first multiple behind the beginning of the block may be even.       *)
GetStartAnyParity(left, right, prime) ==
  LET first == 2 * left + 3
      start == first - (first % prime) + prime
  IN IF first % prime = 0 /\ first # prime THEN left
     ELSE IF start > 2 * right + 1 THEN -1
     ELSE (start - 1) \div 2 - 1

(* As many processes as were asked for.                                    *)
UsableProcsAll(m, p) == p
----
(* ceil(sqrt(m)) and floor(sqrt(m)).                                       *)
CeilSqrt(m) == CHOOSE r \in 0 .. m : r * r >= m /\ (r = 0 \/ (r-1) * (r-1) < m)

FloorSqrt(m) == CHOOSE r \in 0 .. m : r * r <= m /\ m < (r+1) * (r+1)

(* The number of odd numbers 3, 5, .. that are at most m; the number index *)
(* i stands for; how many numbers 1, 3, 5, .. reach ceil(sqrt(m)).         *)
OddsUpTo(m) == (m - 1) \div 2

NumberAt(i) == 2 * i + 3

SmallSize(m) == (CeilSqrt(m) + 1) \div 2

(* The number of processes is cut down until the block of process 0 is at  *)
(* least as long as floor(sqrt(m)).                                        *)
UsableProcs(m, p) ==
  IF p * FloorSqrt(m) > OddsUpTo(m)
    THEN LET q == OddsUpTo(m) \div FloorSqrt(m) IN IF q = 0 THEN 1 ELSE q
    ELSE p

(* left_part and right_part.                                               *)
Left(s) == (s * OddsUpTo(n)) \div P

Right(s) == ((s + 1) * OddsUpTo(n)) \div P

Block(s) == Left(s) .. Right(s) - 1

(* The index at which the crossing-off of the multiples of prime starts in *)
(* the block, -1 if there is none.  It may lie beyond the block.           *)
GetStart(left, right, prime) ==
  LET first == 2 * left + 3
      start == first - (first % prime) + prime
  IN IF first % prime = 0 /\ first # prime THEN left
     ELSE IF start > 2 * right + 1 THEN -1
     ELSE IF start % 2 = 0 THEN (start + prime - 1) \div 2 - 1
     ELSE (start - 1) \div 2 - 1

(* The indices sieve() writes false to in the block of s.                  *)
CrossedOff(s, prime) ==
  LET start == GetStart(Left(s), Right(s), prime)
  IN {i \in Block(s) :
        /\ start # -1
        /\ i >= start
        /\ (i - start) % prime = 0
        /\ NumberAt(i) # prime}
----
Put(t, array, at, value) == [to |-> t, array |-> array, at |-> at, value |-> value]

(* What the array called name of process t holds once the puts are done.   *)
Delivered(t, name, old) ==
  [k \in DOMAIN old |->
     LET here == {p \in puts : p.to = t /\ p.array = name /\ p.at = k}
     IN IF here = {} THEN old[k] ELSE (CHOOSE p \in here : TRUE).value]

(* Process s has done the part "now" and enters bsp_sync.                  *)
Computes(s, now) == pc[s] = now /\ s \notin waiting

Enters(s, then) ==
  /\ pc' = [pc EXCEPT ![s] = then]
  /\ waiting' = waiting \cup {s}

(* Everyone is inside bsp_sync: the puts are carried out, everyone returns.*)
SyncResults ==
  /\ waiting = Procs
  /\ waiting' = {}
  /\ num_primes_result' = [t \in Procs |-> Delivered(t, "num_primes_result", num_primes_result[t])]
  /\ primes' = [t \in Procs |-> Delivered(t, "primes", primes[t])]
  /\ puts' = {}
  /\ UNCHANGED <<n, P, pc, sieve>>

InitSieve ==
  /\ n \in Limits
  /\ \E p \in ProcCounts : P = UsableProcs(n, p)
  /\ pc = [s \in Procs |-> "register"]
  /\ waiting = {}
  /\ sieve = [s \in Procs |-> Block(s)]
  /\ num_primes_result = [s \in Procs |-> [t \in Procs |-> 0]]
  /\ primes = [s \in Procs |-> <<>>]
  /\ puts = {}
----
(* Faulty variants.                                                        *)

(* The sum includes the process itself.                                    *)
OffsetPastOwn(s) == MapThenSumSet(LAMBDA t : num_primes_result[s][t], 0 .. s)

(* prime_to_add is passed by reference: every put delivers its last value. *)
PutPrimesByReference(s) ==
  puts' = puts \cup
    {Put(0, "primes",
         MapThenSumSet(LAMBDA t : num_primes_result[s][t], 0 .. s-1)
           + Cardinality({j \in sieve[s] : j <= k}),
         NumberAt(Max(sieve[s]))) : k \in sieve[s]}
----
(* Count the primes left in the block and put the number everywhere.       *)
PublishCount(s) ==
  puts' = puts \cup
    {Put(t, "num_primes_result", s, Cardinality(sieve[s])) : t \in Procs}

TotalPrimes(s) == 1 + MapThenSumSet(LAMBDA t : num_primes_result[s][t], Procs)

(* Declare the array for all primes, as long as the total count, and set   *)
(* its first element to 2.                                                 *)
AllocatePrimes(s) ==
  primes' = [primes EXCEPT ![s] = [k \in 0 .. TotalPrimes(s) - 1 |-> IF k = 0 THEN 2 ELSE 0]]

(* The number of primes in the blocks before that of s.                    *)
Offset(s) == MapThenSumSet(LAMBDA t : num_primes_result[s][t], 0 .. s-1)

(* Put the primes of the block, in order, behind those of earlier blocks.  *)
PutPrimes(s) ==
  puts' = puts \cup
    {Put(0, "primes", Offset(s) + Cardinality({j \in sieve[s] : j <= k}), NumberAt(k)) :
       k \in sieve[s]}
----
IsPrime(m) == m > 1 /\ \A d \in 2 .. m-1 : m % d # 0

PrimesUpTo(m) == {q \in 2 .. m : IsPrime(q)}

SieveTypeOK ==
  /\ n \in Limits
  /\ P \in Nat \ {0}
  /\ waiting \subseteq Procs
  /\ sieve \in [Procs -> SUBSET (0 .. OddsUpTo(n) - 1)]
  /\ \A s \in Procs : \A k \in DOMAIN primes[s] : primes[s][k] \in 0 .. n

(* The order in which bsp_sync carries out the puts of a superstep is not  *)
(* specified: no two of them may write the same element, and none may write*)
(* outside the array as the receiver declared it.                          *)
PutsAreSafe ==
  /\ \A p, q \in puts : p.to = q.to /\ p.array = q.array /\ p.at = q.at => p = q
  /\ \A p \in puts : p.array = "primes" => p.at \in DOMAIN primes[p.to]

(* At the end process 0 holds the primes up to n, in ascending order.      *)
DeliversAllPrimes ==
  pc[0] \in {"end", "return"} /\ waiting = {} =>
    /\ {primes[0][k] : k \in DOMAIN primes[0]} = PrimesUpTo(n)
    /\ \A j, k \in DOMAIN primes[0] : j < k => primes[0][j] < primes[0][k]
====
