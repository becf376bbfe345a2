---- MODULE MCMatching ----
(* The matching for TLC: the graphs of four vertices with at least five    *)
(* edges and weights 1 and 2, and complete graphs of five vertices.        *)
EXTENDS Matching

Pairs(m) == {e \in SUBSET (0 .. m-1) : Cardinality(e) = 2}

Complete5 ==
  {[e \in Pairs(5) |-> 1 + (MapThenSumSet(LAMBDA v : (v + a1) * (v + 2), e) % m)] :
     a1 \in {0, 1}, m \in {2, 7}}

MCGraphs ==
  {[V |-> 0 .. 3, weight |-> w] :
     w \in UNION {[E -> {1, 2}] : E \in {F \in SUBSET Pairs(4) : Cardinality(F) >= 5}}}
  \cup {[V |-> 0 .. 4, weight |-> w] : w \in Complete5}
====
