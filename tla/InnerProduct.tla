---- MODULE InnerProduct ----
(***************************************************************************)
(* bspinprod.c of BSPedupack2.0: process 0 reads n, the others get it, each*)
(* fills its part of the cyclically distributed vector (1, .., n), and     *)
(* bspip sums the partial inner products, at every process.                *)
(* And the h-relations of bspbench.c: h puts of every process in turn to   *)
(* the others, each into a place that belongs to its sender.               *)
(***************************************************************************)
EXTENDS Supersteps
----
(* Faulty variants.                                                        *)

(* The part of process s has the length of that of process 0.              *)
PartialProductLongest(s) ==
  MapThenSumSet(LAMBDA i : (i * NProcs + s + 1) ^ 2, 0 .. nloc(NProcs, 0, mem[s].n[0]) - 1)

(* The places of a sender are not numbered by rounds of puts.              *)
DestIndexTight(s, i) == s + (i \div NProcs)
----
InprodMemory(s) ==
  [n |-> IF s = 0 THEN Array(1, LAMBDA k : n) ELSE Zeros(1), Inprod |-> Zeros(NProcs)]

(* "Error in input: n is negative".                                        *)
NegativeLength(s) == s = 0 /\ n < 0 /\ Abort(s, "ask n")

GetLength(s) ==
  /\ s = 0 => n >= 0
  /\ Part(s, "ask n", "product", <<>>,
          [Nothing EXCEPT !.gets = {Get(s, "n", 0, 0, "n", 0)}])

(* x[i] is the global index of i plus one.                                 *)
PartialProduct(s) ==
  MapThenSumSet(LAMBDA i : (i * NProcs + s + 1) ^ 2, 0 .. nloc(NProcs, s, mem[s].n[0]) - 1)

PutProduct(s) ==
  Part(s, "product", "sum", <<>>,
       PutsOnly({Put(t, "Inprod", s, PartialProduct(s)) : t \in Procs}))

SumProducts(s) ==
  Part(s, "sum", "end", [alpha |-> MapThenSumSet(LAMBDA t : mem[s].Inprod[t], Procs)], Nothing)

InprodStep(s) == NegativeLength(s) \/ GetLength(s) \/ PutProduct(s) \/ SumProducts(s)

(* "The output should equal n*(n+1)*(2n+1)/6", at every process.           *)
SumsSquares ==
  input.program = "inprod" /\ AllAt("end") =>
    \A s \in Procs : mem[s].alpha = (n * (n + 1) * (2*n + 1)) \div 6
----
MAXH == input.n

BenchMemory(s) == [dest |-> Zeros(2 * MAXH + NProcs), h |-> 0]

(* "destination proc is one of the p-1 others", "destination index is in   *)
(* my own part of dest".                                                   *)
DestProc(s, i) == IF NProcs = 1 THEN 0 ELSE (s + 1 + (i % (NProcs-1))) % NProcs
DestIndex(s, i) == IF NProcs = 1 THEN i ELSE s + (i \div (NProcs-1)) * NProcs

(* One of the NITERS h-relations, for h = 0 .. MAXH.                       *)
Relation(s) ==
  LET h == mem[s].h
  IN Part(s, "relation", IF h < MAXH THEN "relation" ELSE "end", [h |-> h + 1],
       PutsOnly({Put(DestProc(s, i), "dest", DestIndex(s, i), i) : i \in 0 .. h-1}))
====
