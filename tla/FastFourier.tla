---- MODULE FastFourier ----
(***************************************************************************)
(* bspfft of BSPedupack2.0/bspfft.c, as bspfft_test.c calls it: a forward  *)
(* and perhaps a backward transform of a vector of n = 2^m numbers that is *)
(* distributed cyclically, with n >= 2P.  The butterfly stages are done    *)
(* locally, in as few supersteps as the block length np allows; between    *)
(* them the vector goes from a group-cyclic distribution to one of a larger*)
(* cycle.  Complex numbers are the integers modulo 17: 3 generates their   *)
(* sixteen roots of unity, and the conjugate of a root is its inverse.     *)
(***************************************************************************)
EXTENDS Supersteps

np == n \div NProcs

(* exp(-2 pi i j / order).                                                 *)
Root(order, j) == Mod(3 ^ (((16 \div order) * j) % 16))

Log2(m) == CHOOSE e \in 0 .. m : 2 ^ e = m

(* 2, 4, .., m.                                                            *)
Doubling(m) == [e \in 1 .. Log2(m) |-> 2 ^ e]
----
(* Faulty variants.                                                        *)

(* The processes are not taken to be numbered in bit-reversed order.       *)
OriginNotReversed(s, c0, rev, rho) == [j0 |-> s % c0, j2 |-> s \div c0]

(* The weights do not depend on the process.                               *)
WeightsSame(s, c, k) == [j \in 1 .. k \div (2*c) |-> Root(k, (j-1) * c)]
----
(* bitrev_init.                                                            *)
BitReversal(m) ==
  FoldLeft(LAMBDA rho, k : Array(k, LAMBDA j : IF 2*j < k THEN 2 * rho[j]
                                               ELSE 2 * rho[j - (k \div 2)] + 1),
           Zeros(1), Doubling(m))

(* permute, for a permutation of disjoint swaps.                           *)
Permute(x, sigma) == [j \in DOMAIN x |-> x[sigma[j]]]

(* butterfly_stage k with the weights from w[start].                       *)
ButterflyStage(x, k, forward, w, start) ==
  LET half == k \div 2
      Weight(j) == IF forward THEN w[start + j] ELSE Quotient(1, w[start + j])
      Tau(i) == Weight(i % k) * x[i + half]
  IN [i \in DOMAIN x |-> IF i % k < half THEN Mod(x[i] + Tau(i))
                         ELSE Mod(x[i - half] - Tau(i - half))]

(* The stages k \in ks in their order.  The weights of stage k follow those*)
(* of the stage before it.                                                 *)
Stages(x, ks, c, forward, w, start) ==
  FoldLeft(LAMBDA y, k : [x |-> ButterflyStage(y.x, k \div c, forward, w, y.start),
                          start |-> y.start + (k \div (2*c))],
           [x |-> x, start |-> start], ks)

(* The cycle after c, and all of them.                                     *)
NextCycle(c) == IF np * c <= NProcs THEN np * c ELSE NProcs

Cycles == FoldLeft(LAMBDA cs, e : IF Last(cs) < NProcs THEN Append(cs, NextCycle(Last(cs))) ELSE cs,
                   <<1>>, [e \in 1 .. NProcs |-> e])

(* The stages from k on that are local in cycle c.                         *)
StagesFrom(k0, c) == SelectSeq(Doubling(n), LAMBDA k : k0 <= k /\ k <= np * c)
----
(* bspfft_init: the weights of all stages that process s takes part in.    *)
StageWeights(s, c, k) == [j \in 1 .. k \div (2*c) |-> Root(k, (s % c) + (j-1) * c)]

WeightTable(s) ==
  LET OfCycle(i) ==
        LET ks == StagesFrom(IF i = 1 THEN 2 ELSE 2 * np * Cycles[i-1], Cycles[i])
        IN FlattenSeq([e \in DOMAIN ks |-> StageWeights(s, Cycles[i], ks[e])])
      weights == FlattenSeq([i \in DOMAIN Cycles |-> OfCycle(i)])
  IN Array(Len(weights), LAMBDA j : weights[j+1])

FftMemory(s) ==
  [x |-> Array(np, LAMBDA j : input.x[j * NProcs + s]), w |-> WeightTable(s),
   c |-> 1, k |-> 2, start |-> 0, rev |-> TRUE, forward |-> TRUE]
----
(* "Error in input: n < 2p".                                               *)
FftTooShort(s) == n < 2 * NProcs /\ Abort(s, "transform")

(* The ordered transform of the local part (permute and ufft).             *)
LocalTransform(s) ==
  LET done == Stages(Permute(mem[s].x, BitReversal(np)), Doubling(np), 1,
                     mem[s].forward, mem[s].w, 0)
  IN /\ n >= 2 * NProcs
     /\ Local(s, "transform", IF NProcs > 1 THEN "redistribute" ELSE "normalize",
              [x |-> done.x, start |-> done.start, k |-> 2 * np, c |-> 1, rev |-> TRUE])

(* Where the elements of s are in the vector: element j at j2*c0*np+j*c0+j0*)
Origin(s, c0, rev, rho) ==
  LET t == IF rev THEN rho[s] ELSE s IN [j0 |-> t % c0, j2 |-> t \div c0]

(* bspredistr from cycle c0 to c, in packets of elements that stay together*)
Redistribute(s) ==
  LET c0 == mem[s].c
      c == NextCycle(c0)
      from == Origin(s, c0, mem[s].rev, BitReversal(NProcs))
      ratio == c \div c0
      size == IF np >= ratio THEN np \div ratio ELSE 1
      Glob(j) == from.j2 * c0 * np + j * c0 + from.j0
      Packet(j) ==
        {Put((Glob(j) \div (c * np)) * c + (Glob(j) % c), "x",
             ((Glob(j) % (c * np)) \div c) + e, mem[s].x[j + e * ratio]) : e \in 0 .. size - 1}
  IN Part(s, "redistribute", "stages", [c |-> c, rev |-> FALSE],
          PutsOnly(UNION {Packet(j) : j \in 0 .. (np \div size) - 1}))

(* The stages that are local in cycle c.                                   *)
LocalStages(s) ==
  LET c == mem[s].c
      done == Stages(mem[s].x, StagesFrom(mem[s].k, c), c, mem[s].forward,
                     mem[s].w, mem[s].start)
  IN Local(s, "stages", IF c < NProcs THEN "redistribute" ELSE "normalize",
           [x |-> done.x, start |-> done.start, k |-> 2 * np * c])

(* The end of a transform.  After a forward transform the test may go on   *)
(* with a backward one, which ends with a division by n.                   *)
AgainBackward(s) ==
  /\ mem[s].forward /\ input.backward
  /\ Local(s, "normalize", "transform", [forward |-> FALSE])

Normalize(s) ==
  /\ mem[s].forward => ~ input.backward
  /\ Part(s, "normalize", "end",
          [x |-> IF mem[s].forward THEN mem[s].x
                 ELSE [j \in DOMAIN mem[s].x |-> Mod(mem[s].x[j] * Quotient(1, n))]], Nothing)

FftStep(s) ==
  FftTooShort(s) \/ LocalTransform(s) \/ Redistribute(s) \/ LocalStages(s)
  \/ AgainBackward(s) \/ Normalize(s)
----
(* bspfft's own claim: the forward transform gives, in the cyclic          *)
(* distribution, y[k] = sum of exp(-2 pi i k j / n) x[j], and the backward *)
(* one is its inverse; and the weights of a process fit in the (t+1)*np    *)
(* numbers that the test gives them, t the number of redistributions.      *)
TransformsVector ==
  input.program = "fft" /\ AllAt("end") =>
    /\ \A k \in 0 .. n-1 :
         mem[k % NProcs].x[k \div NProcs] =
           IF input.backward THEN Mod(input.x[k])
           ELSE Mod(MapThenSumSet(LAMBDA j : Root(n, k * j) * input.x[j], 0 .. n-1))
    /\ \A s \in Procs : Cardinality(DOMAIN mem[s].w) <= Len(Cycles) * np
====
