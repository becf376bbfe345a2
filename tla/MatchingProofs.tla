---- MODULE MatchingProofs ----
(***************************************************************************)
(* Matching by local domination (bspmatch.c), for every finite graph,      *)
(* every weighing, every distribution of the vertices over every number of *)
(* processes (up to the names of the processes) and every limit of work    *)
(* per superstep: no vertex is queued twice, the adjacency lists stay      *)
(* split where they were split, a suitor is only ever replaced by a better *)
(* one, and when the program stops the edges registered are the matching   *)
(* of the greedy algorithm.                                                *)
(*                                                                         *)
(* The order of the argument: folds over sequences, which the model is     *)
(* written with; the graph; adjacency lists, what splitting one preserves  *)
(* and that findSplitter finds the heaviest living edge; the protocol of   *)
(* proposals as a relation between two pictures of the exchange, without   *)
(* lists and queues; then, action by action, that the program keeps its    *)
(* lists and queues and takes a step of that protocol.                     *)
(***************************************************************************)
EXTENDS Matching, WellFoundedInduction, FiniteSetTheorems, TLAPS
----
(* Numbers and folds. *)

(* A set of numbers has a least element, which takes the place of
   induction. *)
LEMMA LeastNumber ==
  ASSUME NEW T, T \subseteq Nat, T # {}
  PROVE  \E m \in T : \A k \in T : m <= k
<1>1. PICK m \in T : \A k \in T : <<k, m>> \notin OpToRel(<, Nat)
  BY WFMin, NatLessThanWellFounded, Zenon
<1>2. \A k \in T : ~ (k < m)
  BY <1>1, Zenon DEF OpToRel
<1> QED BY <1>2

LEMMA MinIs ==
  ASSUME NEW S \in SUBSET Nat, S # {}
  PROVE  Min(S) \in S /\ \A x \in S : Min(S) <= x
<1>1. \E m \in S : \A x \in S : m <= x
  BY LeastNumber
<1> QED BY <1>1 DEF Min

LEMMA MaxIs ==
  ASSUME NEW S \in SUBSET Int, S # {}, NEW n \in Int, \A x \in S : x <= n
  PROVE  Max(S) \in S /\ \A x \in S : x <= Max(S)
<1> DEFINE T == {k \in Nat : n - k \in S}
<1>1. PICK x \in S : TRUE
  OBVIOUS
<1>2. n - x \in T /\ n - (n - x) = x
  BY <1>1
<1>3. PICK k \in T : \A l \in T : k <= l
  <2>1. T # {} /\ T \subseteq Nat
    BY <1>2
  <2> HIDE DEF T
  <2> QED BY <2>1, LeastNumber
<1>4. \A y \in S : n - y \in T /\ n - (n - y) = y
  OBVIOUS
<1>5. n - k \in S /\ \A y \in S : n - k >= y
  BY <1>3, <1>4
<1>6. \E m \in S : \A y \in S : m >= y
  BY <1>5
<1> QED BY <1>6 DEF Max

(* Among finitely many numbers in a row one is the greatest. *)
LEMMA Greatest ==
  ASSUME NEW a \in Int, NEW b \in Int, a <= b, NEW h, \A i \in a .. b : h[i] \in Int
  PROVE  \E i \in a .. b : \A j \in a .. b : h[j] <= h[i]
<1> DEFINE Has(n) == \E i \in a .. n : \A j \in a .. n : h[j] <= h[i]
           T == {k \in Nat : a + k <= b /\ ~ Has(a + k)}
<1>1. ASSUME T # {}
      PROVE  FALSE
  <2>1. PICK k \in T : \A l \in T : k <= l
    <3>1. T \subseteq Nat
      OBVIOUS
    <3> HIDE DEF T
    <3> QED BY <3>1, <1>1, LeastNumber
  <2>2. k # 0
    <3>1. Has(a)
      <4>1. \A j \in a .. a : j = a
        OBVIOUS
      <4> QED BY <4>1
    <3> QED BY <3>1, <2>1
  <2>3. k - 1 \in Nat /\ ~ (k <= k - 1) /\ a + (k - 1) <= b
    BY <2>1, <2>2
  <2>4. Has(a + (k - 1))
    BY <2>1, <2>3
  <2>5. PICK i \in a .. a + (k - 1) : \A j \in a .. a + (k - 1) : h[j] <= h[i]
    BY <2>4
  <2>6. \A j \in a .. a + k : j \in a .. a + (k - 1) \/ j = a + k
    BY <2>1
  <2>7. i \in a .. a + k /\ a + k \in a .. a + k /\ i \in a .. b /\ a + k \in a .. b
        /\ \A j \in a .. a + k : j \in a .. b
    BY <2>1, <2>3
  <2>8. CASE h[i] >= h[a + k]
    <3>1. Has(a + k)
      BY <2>5, <2>6, <2>7, <2>8
    <3> QED BY <3>1, <2>1
  <2>9. CASE h[i] < h[a + k]
    <3>1. \A j \in a .. a + k : h[j] <= h[a + k]
      <4> TAKE j \in a .. a + k
      <4>1. h[j] \in Int /\ h[i] \in Int /\ h[a + k] \in Int
        BY <2>7
      <4>2. CASE j = a + k
        BY <4>1, <4>2
      <4>3. CASE j \in a .. a + (k - 1)
        <5>1. h[j] <= h[i]
          BY <2>5, <4>3
        <5> QED BY <4>1, <5>1, <2>9
      <4> QED BY <2>6, <4>2, <4>3
    <3>2. Has(a + k)
      BY <2>7, <3>1
    <3> QED BY <3>2, <2>1
  <2>10. h[i] \in Int /\ h[a + k] \in Int
    BY <2>7
  <2> QED BY <2>8, <2>9, <2>10
<1>2. b - a \in Nat /\ a + (b - a) = b
  OBVIOUS
<1>3. b - a \notin T
  BY <1>1
<1>4. Has(a + (b - a))
  BY <1>2, <1>3
<1> QED BY <1>2, <1>4

(* A fold over a finite set is defined: z is the order in which it takes
   the elements, g what it does with one. *)
IsFold(S, Y, z, base, g, f) ==
  /\ f \in [SUBSET S -> Y]
  /\ \A s \in SUBSET S : f[s] = IF s = {} THEN base ELSE g[<<z[s], f[s \ {z[s]}]>>]

LEMMA FoldsExist ==
  ASSUME NEW S, IsFiniteSet(S), NEW Y, NEW z, \A s \in SUBSET S : s # {} => z[s] \in s,
         NEW base \in Y, NEW g, \A x \in S, y \in Y : g[<<x, y>>] \in Y
  PROVE  \E f : IsFold(S, Y, z, base, g, f)
<1> DEFINE Few(m) == {s \in SUBSET S : Cardinality(s) <= m}
           Def(f, s) == IF s = {} THEN base ELSE g[<<z[s], f[s \ {z[s]}]>>]
           Has(m) == \E f \in [Few(m) -> Y] : \A s \in Few(m) : f[s] = Def(f, s)
           T == {m \in Nat : ~ Has(m)}
<1>t. \A s \in SUBSET S : IsFiniteSet(s) /\ Cardinality(s) \in Nat /\ Cardinality(s) <= Cardinality(S)
  BY FS_Subset, FS_CardinalityType
<1>1. Has(0)
  <2> DEFINE f == [s \in Few(0) |-> base]
  <2>1. \A s \in Few(0) : s = {}
    BY <1>t, FS_EmptySet
  <2>2. f \in [Few(0) -> Y] /\ \A s \in Few(0) : f[s] = Def(f, s)
    BY <2>1
  <2> HIDE DEF f
  <2> QED BY <2>2
<1>2. ASSUME NEW m \in Nat, Has(m)
      PROVE  Has(m + 1)
  <2>1. PICK f \in [Few(m) -> Y] : \A s \in Few(m) : f[s] = Def(f, s)
    BY <1>2
  <2> DEFINE f2 == [s \in Few(m + 1) |-> Def(f, s)]
  <2>2. ASSUME NEW s \in Few(m + 1), s # {}
        PROVE  s \ {z[s]} \in Few(m) /\ s \ {z[s]} \in Few(m + 1)
    <3>1. IsFiniteSet(s) /\ Cardinality(s) <= m + 1 /\ s \in SUBSET S /\ z[s] \in s
      BY <1>t, <2>2
    <3>2. Cardinality(s \ {z[s]}) = Cardinality(s) - 1 /\ Cardinality(s) \in Nat
      BY <3>1, FS_RemoveElement, FS_CardinalityType
    <3> QED BY <3>1, <3>2
  <2>3. \A s \in Few(m) : f2[s] = f[s]
    <3> TAKE s \in Few(m)
    <3>1. s \in Few(m + 1)
      BY <1>t
    <3>2. f[s] = Def(f, s)
      BY <2>1
    <3>3. f2[s] = Def(f, s)
      BY <3>1
    <3> QED BY <3>2, <3>3
  <2>4. \A s \in Few(m + 1) : f2[s] = Def(f2, s)
    <3> TAKE s \in Few(m + 1)
    <3>0. f2[s] = Def(f, s)
      OBVIOUS
    <3>1. CASE s = {}
      BY <3>0, <3>1
    <3>2. CASE s # {}
      <4>1. f2[s \ {z[s]}] = f[s \ {z[s]}]
        <5> HIDE DEF f2, Few
        <5> QED BY <2>2, <2>3, <3>2
      <4> HIDE DEF f2
      <4> QED BY <3>0, <4>1
    <3> QED BY <3>1, <3>2
  <2>5. f2 \in [Few(m + 1) -> Y]
    <3> SUFFICES ASSUME NEW s \in Few(m + 1)
                 PROVE  Def(f, s) \in Y
      OBVIOUS
    <3>1. CASE s # {}
      <4>1. f[s \ {z[s]}] \in Y
        <5> HIDE DEF Few
        <5> QED BY <2>2, <3>1
      <4>2. z[s] \in S
        BY <3>1
      <4> QED BY <3>1, <4>1, <4>2
    <3> QED BY <3>1
  <2> HIDE DEF f2
  <2> QED BY <2>4, <2>5
<1>3. ASSUME T # {}
      PROVE  FALSE
  <2>1. PICK m \in T : \A k \in T : m <= k
    <3>1. T \subseteq Nat
      OBVIOUS
    <3> HIDE DEF T
    <3> QED BY <3>1, <1>3, LeastNumber
  <2> HIDE DEF Has
  <2>2. m \in Nat /\ m # 0 /\ ~ Has(m)
    BY <2>1, <1>1
  <2>3. m - 1 \in Nat /\ (m - 1) + 1 = m /\ Has(m - 1)
    BY <2>1, <2>2
  <2> QED BY <2>2, <2>3, <1>2
<1>4. Cardinality(S) \in Nat /\ Few(Cardinality(S)) = SUBSET S
  BY <1>t, FS_CardinalityType
<1>5. Has(Cardinality(S))
  <2> HIDE DEF Has, Few
  <2> QED BY <1>3, <1>4
<1>6. PICK f \in [SUBSET S -> Y] : \A s \in SUBSET S : f[s] = Def(f, s)
  BY <1>4, <1>5
<1> QED BY <1>6 DEF IsFold
----
(* The graph, and edges by weight. *)

InputIsGiven ==
  /\ graph \in Graphs /\ p \in ProcCounts /\ maxops \in MaxOps
  /\ owner \in [V -> Procs]

LEMMA GraphIs ==
  ASSUME ProperInputs, InputIsGiven
  PROVE  /\ p \in Nat \ {0} /\ maxops \in Nat
         /\ \E n \in Nat : V = 0 .. n-1 /\ Cardinality(V) = n /\ IsFiniteSet(V)
         /\ \A v \in V : owner[v] \in Procs
         /\ \A e \in Edges : /\ graph.weight[e] \in Nat
                             /\ \E u, v \in V : u # v /\ e = {u, v}
<1>1. IsGraph(graph)
  BY DEF ProperInputs, InputIsGiven
<1>2. PICK n \in Nat : V = 0 .. n-1
  BY <1>1, FS_CardinalityType DEF IsGraph, V
<1>3. IsFiniteSet(0 .. n-1) /\ Cardinality(0 .. n-1) = n
  BY FS_Interval
<1>4. \A e \in Edges : /\ graph.weight[e] \in Nat
                       /\ \E u, v \in V : u # v /\ e = {u, v}
  BY <1>1 DEF IsGraph, V, Edges
<1> QED BY <1>2, <1>3, <1>4 DEF ProperInputs, InputIsGiven

LEMMA EndsAre ==
  ASSUME ProperInputs, InputIsGiven, NEW e \in Edges, NEW v \in e
  PROVE  /\ v \in V /\ Other(v, e) \in V /\ Other(v, e) \in e
         /\ Other(v, e) # v /\ e = {v, Other(v, e)} /\ Other(Other(v, e), e) = v
<1>1. PICK a, b \in V : a # b /\ e = {a, b}
  BY GraphIs
<1>2. \E u \in e : u # v
  BY <1>1
<1>3. Other(v, e) \in e /\ Other(v, e) # v
  BY <1>2 DEF Other
<1>4. e = {v, Other(v, e)}
  BY <1>1, <1>3
<1>5. \E u \in e : u # Other(v, e)
  BY <1>3
<1>6. Other(Other(v, e), e) \in e /\ Other(Other(v, e), e) # Other(v, e)
  BY <1>5 DEF Other
<1> QED BY <1>1, <1>3, <1>4, <1>6

LEMMA EdgesAreNoDummy ==
  ASSUME ProperInputs, InputIsGiven
  PROVE  \A e \in Edges : e # DUMMY /\ \E v \in V : v \in e
BY GraphIs DEF DUMMY

(* An edge is the only one between its ends. *)
LEMMA EdgeOf ==
  ASSUME ProperInputs, InputIsGiven, NEW e \in Edges, NEW f \in Edges,
         NEW v \in V, v \in e, v \in f, Other(v, e) \in f
  PROVE  e = f
BY EndsAre

LEMMA SumOfTwo ==
  ASSUME NEW u \in Nat, NEW v \in Nat, u # v
  PROVE  MapThenSumSet(LAMBDA x : x, {u, v}) = u + v
<1> DEFINE S == {u, v}
           Sums(f) == f = [s \in SUBSET S |->
                             IF s = {} THEN 0
                             ELSE (CHOOSE x \in s : TRUE) + f[s \ {CHOOSE x \in s : TRUE}]]
           z == [s \in SUBSET S |-> CHOOSE x \in s : TRUE]
           g == [q \in S \X Nat |-> q[1] + q[2]]
<1>1. MapThenSumSet(LAMBDA x : x, {u, v}) = (CHOOSE f : Sums(f))[S]
  BY DEF MapThenSumSet, MapThenFoldSet
<1>2. \E f : Sums(f)
  <2>1. \E f : IsFold(S, Nat, z, 0, g, f)
    <3>1. \A s \in SUBSET S : s # {} => z[s] \in s
      OBVIOUS
    <3>2. \A x \in S, y \in Nat : g[<<x, y>>] \in Nat
      OBVIOUS
    <3>3. IsFiniteSet(S)
      <4>1. IsFiniteSet({} \cup {u}) /\ {} \cup {u} = {u}
        BY FS_EmptySet, FS_AddElement
      <4>2. IsFiniteSet({u} \cup {v}) /\ {u} \cup {v} = S
        BY <4>1, FS_AddElement
      <4> QED BY <4>2
    <3> HIDE DEF S, z, g
    <3> QED BY <3>1, <3>2, <3>3, FoldsExist
  <2>2. PICK f : IsFold(S, Nat, z, 0, g, f)
    BY <2>1
  <2>3. \A s \in SUBSET S :
          f[s] = IF s = {} THEN 0
                 ELSE (CHOOSE x \in s : TRUE) + f[s \ {CHOOSE x \in s : TRUE}]
    <3> TAKE s \in SUBSET S
    <3>1. f[s] = IF s = {} THEN 0 ELSE g[<<z[s], f[s \ {z[s]}]>>]
      BY <2>2 DEF IsFold
    <3>2. ASSUME s # {}
          PROVE  g[<<z[s], f[s \ {z[s]}]>>] = z[s] + f[s \ {z[s]}]
      <4>1. z[s] \in S /\ f[s \ {z[s]}] \in Nat
        BY <2>2, <3>2 DEF IsFold
      <4> HIDE DEF z
      <4> QED BY <4>1
    <3> QED BY <3>1, <3>2
  <2>4. f = [s \in SUBSET S |-> f[s]]
    BY <2>2 DEF IsFold
  <2>5. Sums(f)
    BY <2>3, <2>4
  <2> QED BY <2>5
<1>3. PICK f : Sums(f) /\ (CHOOSE g2 : Sums(g2)) = f
  <2> HIDE DEF Sums
  <2> QED BY <1>2
<1> DEFINE Z(s) == CHOOSE x \in s : TRUE
<1>4. \A s \in SUBSET S : s # {} => f[s] = Z(s) + f[s \ {Z(s)}]
  BY <1>3
<1>5. f[{}] = 0
  BY <1>3
<1>6. f[{u}] = u /\ f[{v}] = v
  <2>1. Z({u}) = u /\ Z({v}) = v
    OBVIOUS
  <2>2. {u} \ {u} = {} /\ {v} \ {v} = {} /\ {u} # {} /\ {v} # {} /\ {u} \in SUBSET S /\ {v} \in SUBSET S
    OBVIOUS
  <2> HIDE DEF Z, S, Sums
  <2>3. f[{u}] = u + 0 /\ f[{v}] = v + 0
    BY <1>4, <1>5, <2>1, <2>2
  <2> QED BY <2>3
<1>7. f[S] = u + v
  <2>1. Z(S) \in S /\ S # {}
    OBVIOUS
  <2>2. S \ {u} = {v} /\ S \ {v} = {u} /\ S \in SUBSET S /\ \A x \in S : x = u \/ x = v
    OBVIOUS
  <2> HIDE DEF Z, S, Sums
  <2>3. CASE Z(S) = u
    BY <1>4, <1>6, <2>1, <2>2, <2>3
  <2>4. CASE Z(S) = v
    <3>1. f[S] = v + u
      BY <1>4, <1>6, <2>1, <2>2, <2>4
    <3> QED BY <3>1
  <2> QED BY <2>1, <2>2, <2>3, <2>4
<1> QED BY <1>1, <1>3, <1>7

(* The place of an edge among all by weight and secondary weight, as one
   number. *)
Sum(e) == LET v == CHOOSE v \in e : TRUE IN v + Other(v, e)

Rank ==
  [e \in Edges \cup {DUMMY} |->
     IF e = DUMMY THEN -1
     ELSE graph.weight[e] * (4 * Cardinality(V))
            + (Sum(e) + IF Internal(e) THEN 2 * Cardinality(V) ELSE 0)]

LEMMA SecondaryWeight ==
  ASSUME ProperInputs, InputIsGiven, NEW e \in Edges, NEW v \in e
  PROVE  /\ weight1(e) = v + Other(v, e) + IF Internal(e) THEN 2 * Cardinality(V) ELSE 0
         /\ v + Other(v, e) \in 0 .. 2 * Cardinality(V) - 1
         /\ weight1(e) \in 0 .. 4 * Cardinality(V) - 1
         /\ Internal(e) <=> owner[v] = owner[Other(v, e)]
<1> DEFINE u == Other(v, e)
<1>1. u \in V /\ v \in V /\ u # v /\ e = {v, u}
  BY EndsAre
<1>2. PICK n \in Nat : V = 0 .. n-1 /\ Cardinality(V) = n
  BY GraphIs
<1>3. u \in Nat /\ v \in Nat /\ u < n /\ v < n
  BY <1>1, <1>2
<1>4. MapThenSumSet(LAMBDA x : x, {v, u}) = v + u
  BY <1>1, <1>3, SumOfTwo
<1>5. MapThenSumSet(LAMBDA x : x, e) = v + u
  BY <1>1, <1>4
<1>6. weight1(e) = v + u + IF Internal(e) THEN 2 * n ELSE 0
  BY <1>2, <1>5 DEF weight1
<1>7. Internal(e) <=> owner[v] = owner[u]
  BY <1>1 DEF Internal
<1> HIDE DEF u
<1>8. v + u \in 0 .. 2 * n - 1
  BY <1>3
<1>9. weight1(e) \in 0 .. 4 * n - 1
  BY <1>2, <1>6, <1>8
<1> QED BY <1>2, <1>6, <1>7, <1>8, <1>9 DEF u

(* A number with two digits is compared digit by digit. *)
LEMMA TwoDigits ==
  ASSUME NEW k \in Nat, NEW a \in Nat, NEW b \in Nat, NEW c \in 0 .. k-1, NEW d \in 0 .. k-1
  PROVE  /\ a * k + c \in Nat
         /\ a * k + c > b * k + d <=> a > b \/ (a = b /\ c > d)
<1>0. k > 0
  OBVIOUS
<1>1. ASSUME NEW x \in Nat, NEW y \in Nat, x > y
      PROVE  x * k >= y * k + k
  <2>1. PICK j \in Nat : x = y + 1 + j
    <3>1. x - y - 1 \in Nat /\ x = y + 1 + (x - y - 1)
      BY <1>1
    <3> QED BY <3>1
  <2>2. x * k = y * k + k + j * k /\ j * k >= 0
    BY <2>1
  <2>3. y * k \in Int /\ j * k \in Int
    OBVIOUS
  <2> QED BY <2>2, <2>3
<1>2. a * k \in Nat /\ b * k \in Nat
  OBVIOUS
<1>3. CASE a > b
  BY <1>0, <1>1, <1>2, <1>3
<1>4. CASE b > a
  BY <1>0, <1>1, <1>2, <1>4
<1>5. CASE a = b
  BY <1>2, <1>5
<1> QED BY <1>3, <1>4, <1>5

LEMMA RankIs ==
  ASSUME ProperInputs, InputIsGiven
  PROVE  /\ Rank[DUMMY] = -1
         /\ \A e \in Edges : Rank[e] \in Nat
         /\ \A e \in Edges \cup {DUMMY} : Rank[e] \in Int
         /\ \A e, f \in Edges \cup {DUMMY} : Heavier(e, f) <=> Rank[e] > Rank[f]
<1>1. PICK n \in Nat : Cardinality(V) = n
  BY GraphIs
<1>2. \A e \in Edges : weight1(e) \in 0 .. 4 * n - 1 /\ graph.weight[e] \in Nat /\ e # DUMMY
  BY <1>1, SecondaryWeight, EdgesAreNoDummy, GraphIs
<1>3. \A e \in Edges : Rank[e] = graph.weight[e] * (4 * n) + weight1(e)
  <2> TAKE e \in Edges
  <2>1. (CHOOSE v \in e : TRUE) \in e
    BY EdgesAreNoDummy
  <2>2. weight1(e) = Sum(e) + IF Internal(e) THEN 2 * Cardinality(V) ELSE 0
    BY <2>1, SecondaryWeight DEF Sum
  <2> QED BY <1>1, <1>2, <2>2 DEF Rank
<1>4. Rank[DUMMY] = -1
  BY DEF Rank
<1>5. \A e \in Edges : Rank[e] \in Nat
  BY <1>2, <1>3, TwoDigits
<1>6. ASSUME NEW e \in Edges, NEW f \in Edges
      PROVE  Heavier(e, f) <=> Rank[e] > Rank[f]
  <2>1. Rank[e] > Rank[f] <=> \/ graph.weight[e] > graph.weight[f]
                              \/ graph.weight[e] = graph.weight[f] /\ weight1(e) > weight1(f)
    BY <1>2, <1>3, TwoDigits
  <2> QED BY <1>2, <2>1 DEF Heavier
<1>7. ASSUME NEW e \in Edges
      PROVE  /\ Heavier(e, DUMMY) /\ ~ Heavier(DUMMY, e) /\ ~ Heavier(DUMMY, DUMMY)
             /\ Rank[e] > Rank[DUMMY]
  BY <1>2, <1>4, <1>5 DEF Heavier
<1> QED BY <1>4, <1>5, <1>6, <1>7 DEF Heavier

(* Of two edges of a vertex one is the heavier. *)
LEMMA RanksDiffer ==
  ASSUME ProperInputs, InputIsGiven, NEW e \in Edges, NEW f \in Edges,
         NEW v, v \in e, v \in f, Rank[e] = Rank[f]
  PROVE  e = f
<1> DEFINE a == Other(v, e)  b == Other(v, f)
<1>1. ~ Heavier(e, f) /\ ~ Heavier(f, e)
  BY RankIs
<1>2. graph.weight[e] \in Nat /\ graph.weight[f] \in Nat /\ e # DUMMY /\ f # DUMMY
  BY GraphIs, EdgesAreNoDummy
<1>3. weight1(e) \in Int /\ weight1(f) \in Int
  BY SecondaryWeight
<1>4. weight1(e) = weight1(f)
  BY <1>1, <1>2, <1>3 DEF Heavier
<1>5. PICK n \in Nat : V = 0 .. n-1 /\ Cardinality(V) = n
  BY GraphIs
<1>6. v \in V /\ a \in V /\ b \in V /\ e = {v, a} /\ f = {v, b}
  BY EndsAre
<1>7. v \in Nat /\ a \in Nat /\ b \in Nat
  BY <1>5, <1>6
<1>8. /\ weight1(e) = v + a + IF Internal(e) THEN 2 * n ELSE 0
      /\ weight1(f) = v + b + IF Internal(f) THEN 2 * n ELSE 0
      /\ v + a \in 0 .. 2 * n - 1 /\ v + b \in 0 .. 2 * n - 1
  BY <1>5, SecondaryWeight
<1> HIDE DEF a, b
<1>9. n \in Int /\ 2 * n \in Int
  BY <1>5
<1>10. v + a \in Int /\ v + b \in Int /\ v + a < 2 * n /\ v + b < 2 * n /\ 0 <= v + a /\ 0 <= v + b
  BY <1>7, <1>8, <1>9
<1>11. v + a = v + b
  <2>1. CASE Internal(e)
    <3>1. weight1(e) = v + a + 2 * n
      BY <1>8, <2>1
    <3>2. CASE Internal(f)
      <4>1. weight1(f) = v + b + 2 * n
        BY <1>8, <3>2
      <4>2. v + a + 2 * n = v + b + 2 * n
        BY <1>4, <3>1, <4>1
      <4> QED BY <1>9, <1>10, <4>2
    <3>3. CASE ~ Internal(f)
      <4>1. weight1(f) = v + b
        BY <1>7, <1>8, <3>3
      <4>2. v + a + 2 * n = v + b
        BY <1>4, <3>1, <4>1
      <4> QED BY <1>9, <1>10, <4>2
    <3> QED BY <3>2, <3>3
  <2>2. CASE ~ Internal(e)
    <3>1. weight1(e) = v + a
      BY <1>7, <1>8, <2>2
    <3>2. CASE Internal(f)
      <4>1. weight1(f) = v + b + 2 * n
        BY <1>8, <3>2
      <4>2. v + a = v + b + 2 * n
        BY <1>4, <3>1, <4>1
      <4> QED BY <1>9, <1>10, <4>2
    <3>3. CASE ~ Internal(f)
      <4>1. weight1(f) = v + b
        BY <1>7, <1>8, <3>3
      <4> QED BY <1>4, <3>1, <4>1
    <3> QED BY <3>2, <3>3
  <2> QED BY <2>1, <2>2
<1>12. a = b
  BY <1>7, <1>11
<1> QED BY <1>6, <1>12
----
(* The lists of edges. *)

(* Part of a list, and that nothing is in it twice. *)
Part(a, i, j) == {a[k] : k \in i .. j}

Distinct(a, i, j) == \A k, l \in i .. j : a[k] = a[l] => k = l

(* A list with the elements of S, each of them once. *)
Lists(a, S) == /\ a \in Seq(S)
               /\ Distinct(a, 1, Len(a))
               /\ Part(a, 1, Len(a)) = S

LEMMA SamePart ==
  ASSUME NEW n, NEW a, NEW b, NEW at,
         \A i \in 1 .. n : at[i] \in 1 .. n /\ b[i] = a[at[i]],
         \A j \in 1 .. n : \E i \in 1 .. n : at[i] = j
  PROVE  Part(b, 1, n) = Part(a, 1, n)
<1>1. \A i \in 1 .. n : \E j \in 1 .. n : b[i] = a[j]
  OBVIOUS
<1>2. \A j \in 1 .. n : \E i \in 1 .. n : b[i] = a[j]
  OBVIOUS
<1>3. \A x \in Part(b, 1, n) : x \in Part(a, 1, n)
  BY <1>1 DEF Part
<1>4. \A x \in Part(a, 1, n) : x \in Part(b, 1, n)
  BY <1>2 DEF Part
<1> QED BY <1>3, <1>4

LEMMA FirstToEndLists ==
  ASSUME NEW S, NEW a, Lists(a, S)
  PROVE  Lists(FirstToEnd(a), S) /\ Len(FirstToEnd(a)) = Len(a)
<1>1. CASE a = <<>>
  BY <1>1 DEF FirstToEnd
<1>2. CASE a # <<>>
  <2> DEFINE b == FirstToEnd(a)  n == Len(a)
  <2>1. b = Tail(a) \o <<Head(a)>> /\ a \in Seq(S) /\ n \in Nat /\ n > 0
    BY <1>2 DEF FirstToEnd, Lists
  <2>2. b \in Seq(S) /\ Len(b) = n /\ b[n] = a[1] /\ \A i \in 1 .. n-1 : b[i] = a[i + 1]
    BY <2>1
  <2> HIDE DEF b
  <2>3. \A k, l \in 1 .. n : a[k] = a[l] => k = l
    BY DEF Lists, Distinct
  <2>l. Len(b) = n /\ Len(a) = n /\ Lists(a, S)
    BY <2>2
  <2>n. n \in Nat /\ n > 0
    BY <2>1
  <2> DEFINE at == [i \in 1 .. n |-> IF i = n THEN 1 ELSE i + 1]
  <2> HIDE DEF n
  <2>4. \A i \in 1 .. n : at[i] \in 1 .. n /\ b[i] = a[at[i]]
    BY <2>2, <2>n
  <2>5. \A i, j \in 1 .. n : at[i] = at[j] => i = j
    BY <2>n
  <2>6. \A j \in 1 .. n : \E i \in 1 .. n : at[i] = j
    <3> TAKE j \in 1 .. n
    <3>1. CASE j = 1
      BY <2>n, <3>1
    <3>2. CASE j # 1
      <4>1. j - 1 \in 1 .. n /\ at[j - 1] = j
        BY <2>n, <3>2
      <4> QED BY <4>1
    <3> QED BY <3>1, <3>2
  <2> HIDE DEF at
  <2>7. Distinct(b, 1, n)
    BY <2>3, <2>4, <2>5 DEF Distinct
  <2>8. Part(b, 1, n) = Part(a, 1, n)
    BY <2>4, <2>6, SamePart
  <2> QED BY <2>2, <2>l, <2>7, <2>8 DEF Lists, b
<1> QED BY <1>1, <1>2

LEMMA LastToFrontLists ==
  ASSUME NEW S, NEW a, Lists(a, S)
  PROVE  Lists(LastToFront(a), S) /\ Len(LastToFront(a)) = Len(a)
<1>1. CASE a = <<>>
  BY <1>1 DEF LastToFront
<1>2. CASE a # <<>>
  <2> DEFINE b == LastToFront(a)  n == Len(a)
  <2>1. b = <<a[n]>> \o SubSeq(a, 1, n-1) /\ a \in Seq(S) /\ n \in Nat /\ n > 0
    BY <1>2 DEF LastToFront, Lists, Last, Front
  <2>2. b \in Seq(S) /\ Len(b) = n /\ b[1] = a[n] /\ \A i \in 2 .. n : b[i] = a[i - 1]
    BY <2>1
  <2> HIDE DEF b
  <2>3. \A k, l \in 1 .. n : a[k] = a[l] => k = l
    BY DEF Lists, Distinct
  <2>l. Len(b) = n /\ Len(a) = n /\ Lists(a, S)
    BY <2>2
  <2>n. n \in Nat /\ n > 0
    BY <2>1
  <2> DEFINE at == [i \in 1 .. n |-> IF i = 1 THEN n ELSE i - 1]
  <2> HIDE DEF n
  <2>4. \A i \in 1 .. n : at[i] \in 1 .. n /\ b[i] = a[at[i]]
    BY <2>2, <2>n
  <2>5. \A i, j \in 1 .. n : at[i] = at[j] => i = j
    BY <2>n
  <2>6. \A j \in 1 .. n : \E i \in 1 .. n : at[i] = j
    <3> TAKE j \in 1 .. n
    <3>1. CASE j = n
      BY <2>n, <3>1
    <3>2. CASE j # n
      <4>1. j + 1 \in 1 .. n /\ at[j + 1] = j
        BY <2>n, <3>2
      <4> QED BY <4>1
    <3> QED BY <3>1, <3>2
  <2> HIDE DEF at
  <2>7. Distinct(b, 1, n)
    BY <2>3, <2>4, <2>5 DEF Distinct
  <2>8. Part(b, 1, n) = Part(a, 1, n)
    BY <2>4, <2>6, SamePart
  <2> QED BY <2>2, <2>l, <2>7, <2>8 DEF Lists, b
<1> QED BY <1>1, <1>2

LEMMA EmptyLists == Lists(<<>>, {})
<1>1. <<>> \in Seq({}) /\ Len(<<>>) = 0
  OBVIOUS
<1>2. \A i : i \notin 1 .. 0
  OBVIOUS
<1> QED BY <1>1, <1>2 DEF Lists, Distinct, Part

LEMMA AppendLists ==
  ASSUME NEW S, NEW a, Lists(a, S), NEW x, x \notin S
  PROVE  /\ Lists(Append(a, x), S \cup {x}) /\ Len(Append(a, x)) = Len(a) + 1
<1> DEFINE b == Append(a, x)  n == Len(a)
<1>1. a \in Seq(S) /\ a \in Seq(S \cup {x}) /\ n \in Nat
  BY DEF Lists
<1>2. b \in Seq(S \cup {x}) /\ Len(b) = n + 1 /\ b[n + 1] = x /\ \A i \in 1 .. n : b[i] = a[i]
  BY <1>1
<1> HIDE DEF b
<1>3. (\A k, l \in 1 .. n : a[k] = a[l] => k = l) /\ \A k \in 1 .. n : a[k] \in S
  BY <1>1 DEF Lists, Distinct
<1>4. \A i \in 1 .. n+1 : i \in 1 .. n \/ i = n + 1
  BY <1>1
<1>5. n + 1 \in 1 .. n + 1 /\ \A i \in 1 .. n : i \in 1 .. n + 1
  BY <1>1
<1>6. Distinct(b, 1, n + 1)
  BY <1>2, <1>3, <1>4 DEF Distinct
<1>7. Part(b, 1, n + 1) = Part(a, 1, n) \cup {x}
  BY <1>2, <1>4, <1>5 DEF Part
<1> QED BY <1>2, <1>6, <1>7 DEF Lists, b

LEMMA PrependLists ==
  ASSUME NEW S, NEW a, Lists(a, S), NEW x, x \notin S
  PROVE  /\ Lists(<<x>> \o a, S \cup {x}) /\ Len(<<x>> \o a) = Len(a) + 1
<1> DEFINE b == <<x>> \o a  n == Len(a)
<1>1. a \in Seq(S) /\ a \in Seq(S \cup {x}) /\ n \in Nat
  BY DEF Lists
<1>2. b \in Seq(S \cup {x}) /\ Len(b) = n + 1 /\ b[1] = x /\ \A i \in 1 .. n : b[i + 1] = a[i]
  BY <1>1
<1> HIDE DEF b
<1>3. (\A k, l \in 1 .. n : a[k] = a[l] => k = l) /\ \A k \in 1 .. n : a[k] \in S
  BY <1>1 DEF Lists, Distinct
<1>4. \A i \in 1 .. n+1 : i = 1 \/ (i - 1 \in 1 .. n /\ i = (i - 1) + 1)
  BY <1>1
<1>5. 1 \in 1 .. n + 1 /\ \A i \in 1 .. n : i + 1 \in 1 .. n + 1
  BY <1>1
<1>6. \A i \in 1 .. n+1 : i = 1 \/ b[i] = a[i - 1]
  BY <1>2, <1>4
<1>7. Distinct(b, 1, n + 1)
  <2> SUFFICES ASSUME NEW k \in 1 .. n+1, NEW l \in 1 .. n+1, b[k] = b[l]
               PROVE  k = l
    BY DEF Distinct
  <2> QED BY <1>2, <1>3, <1>4, <1>6
<1>8. Part(b, 1, n + 1) = Part(a, 1, n) \cup {x}
  <2>1. \A i \in 1 .. n+1 : b[i] = x \/ \E k \in 1 .. n : b[i] = a[k]
    BY <1>2, <1>4, <1>6
  <2> QED
    <3>1. \A y \in Part(b, 1, n + 1) : y \in Part(a, 1, n) \cup {x}
      BY <2>1 DEF Part
    <3>2. \A y \in Part(a, 1, n) : y \in Part(b, 1, n + 1)
      <4> SUFFICES ASSUME NEW i \in 1 .. n
                   PROVE  a[i] \in Part(b, 1, n + 1)
        BY DEF Part
      <4>1. b[i + 1] = a[i] /\ i + 1 \in 1 .. n + 1
        BY <1>2, <1>5
      <4> QED BY <4>1 DEF Part
    <3>3. x \in Part(b, 1, n + 1)
      BY <1>2, <1>5 DEF Part
    <3> QED BY <3>1, <3>2, <3>3
<1> QED BY <1>2, <1>7, <1>8 DEF Lists, b

(* find_splitter's loop: what is left of the top of the list has the living
   edges, each once. *)
Kept(s, v, q) ==
  (CHOOSE f : f = [x \in SUBSET DOMAIN q |->
                     IF x = {} THEN <<>>
                     ELSE IF Living(s, v, q[Min(x)]) THEN <<q[Min(x)]>> \o f[x \ {Min(x)}]
                     ELSE LastToFront(f[x \ {Min(x)}])])[DOMAIN q]

LEMMA KeptIs ==
  ASSUME NEW X, NEW q, Lists(q, X), NEW s, NEW v
  PROVE  /\ Lists(Kept(s, v, q), {e \in X : Living(s, v, e)})
         /\ Len(Kept(s, v, q)) <= Len(q)
<1> DEFINE n == Len(q)
           D == 1 .. n
           Z(x) == Min(x)
           Next1(e, y) == IF Living(s, v, e) THEN <<e>> \o y ELSE LastToFront(y)
           Keeps(f) == f = [x \in SUBSET D |-> IF x = {} THEN <<>>
                                               ELSE Next1(q[Z(x)], f[x \ {Z(x)}])]
           z == [x \in SUBSET D |-> Z(x)]
           Y == Seq(X)
           g == [t \in D \X Y |-> Next1(q[t[1]], t[2])]
<1>n. n \in Nat /\ q \in Seq(X) /\ DOMAIN q = D /\ \A i \in D : q[i] \in X
  BY DEF Lists
<1>0. Kept(s, v, q) = (CHOOSE f : Keeps(f))[D]
  BY <1>n DEF Kept
<1>z. \A x \in SUBSET D : x # {} => Z(x) \in x /\ \A y \in x : Z(x) <= y
  <2> TAKE x \in SUBSET D
  <2>1. x \in SUBSET Nat
    BY <1>n
  <2> QED BY <2>1, MinIs
<1>y. \A e \in X, y \in Y : Next1(e, y) \in Y
  <2> TAKE e \in X, y \in Y
  <2>1. <<e>> \o y \in Y
    OBVIOUS
  <2>2. LastToFront(y) \in Y
    <3>1. CASE y = <<>>
      BY <3>1 DEF LastToFront
    <3>2. CASE y # <<>>
      <4>1. Len(y) \in Nat /\ Len(y) > 0 /\ y[Len(y)] \in X
        BY <3>2
      <4>2. SubSeq(y, 1, Len(y) - 1) \in Seq(X) /\ <<y[Len(y)]>> \in Seq(X)
        BY <4>1
      <4>3. <<y[Len(y)]>> \o SubSeq(y, 1, Len(y) - 1) \in Seq(X)
        BY <4>2
      <4> QED BY <3>2, <4>3 DEF LastToFront, Last, Front
    <3> QED BY <3>1, <3>2
  <2> QED BY <2>1, <2>2
<1>l. Len(q) = n /\ n \in Nat
  BY <1>n
<1> HIDE DEF Z, Next1, n
<1>1. PICK f : f \in [SUBSET D -> Y] /\ Keeps(f)
  <2>1. \E f : IsFold(D, Y, z, <<>>, g, f)
    <3>1. \A x \in SUBSET D : x # {} => z[x] \in x
      BY <1>z
    <3>2. \A x \in D, y \in Y : g[<<x, y>>] \in Y
      BY <1>y, <1>n
    <3>3. IsFiniteSet(D)
      BY <1>n, FS_Interval
    <3>4. <<>> \in Y
      OBVIOUS
    <3> HIDE DEF D, Y, z, g
    <3> QED BY <3>1, <3>2, <3>3, <3>4, FoldsExist
  <2>2. PICK f : IsFold(D, Y, z, <<>>, g, f)
    BY <2>1
  <2>3. \A x \in SUBSET D : f[x] = IF x = {} THEN <<>> ELSE Next1(q[Z(x)], f[x \ {Z(x)}])
    <3> TAKE x \in SUBSET D
    <3>1. f[x] = IF x = {} THEN <<>> ELSE g[<<z[x], f[x \ {z[x]}]>>]
      BY <2>2 DEF IsFold
    <3>2. ASSUME x # {}
          PROVE  g[<<z[x], f[x \ {z[x]}]>>] = Next1(q[Z(x)], f[x \ {Z(x)}])
      <4>1. Z(x) \in D /\ f[x \ {Z(x)}] \in Y /\ z[x] = Z(x)
        BY <2>2, <3>2, <1>z DEF IsFold
      <4> HIDE DEF z, D, Y
      <4> QED BY <4>1
    <3> QED BY <3>1, <3>2
  <2>4. f = [x \in SUBSET D |-> f[x]] /\ f \in [SUBSET D -> Y]
    BY <2>2 DEF IsFold
  <2>5. Keeps(f)
    <3> HIDE DEF D
    <3> QED BY <2>3, <2>4
  <2> QED BY <2>4, <2>5
<1>2. PICK h : Keeps(h) /\ (CHOOSE f2 : Keeps(f2)) = h
  <2> HIDE DEF Keeps
  <2> QED BY <1>1
<1> DEFINE Rest(m) == (n + 1 - m) .. n
           Good(m) == /\ Lists(h[Rest(m)], {e \in Part(q, n + 1 - m, n) : Living(s, v, e)})
                      /\ Len(h[Rest(m)]) <= m
           T == {m \in 0 .. n : ~ Good(m)}
<1>3. \A x \in SUBSET D : h[x] = IF x = {} THEN <<>> ELSE Next1(q[Z(x)], h[x \ {Z(x)}])
  <2>1. h = [x \in SUBSET D |-> IF x = {} THEN <<>> ELSE Next1(q[Z(x)], h[x \ {Z(x)}])]
    BY <1>2
  <2> HIDE DEF D, Keeps
  <2> QED BY <2>1
<1> HIDE DEF Keeps
<1>4. Good(0)
  <2>1. Rest(0) = {} /\ {} \in SUBSET D
    BY <1>n
  <2>2. h[Rest(0)] = <<>>
    BY <2>1, <1>3
  <2> DEFINE S == {e \in Part(q, n + 1 - 0, n) : Living(s, v, e)}
  <2>3. S = {}
    <3>1. Part(q, n + 1 - 0, n) = {}
      BY <1>l DEF Part
    <3> QED BY <3>1
  <2>4. Len(<<>>) = 0
    OBVIOUS
  <2>5. Lists(h[Rest(0)], S) /\ Len(h[Rest(0)]) <= 0
    <3> HIDE DEF Rest, S
    <3> QED BY <2>2, <2>3, <2>4, EmptyLists
  <2> QED BY <2>5
<1>5. ASSUME NEW m \in 0 .. n-1, Good(m)
      PROVE  Good(m + 1)
  <2> DEFINE k == n - m
             S == {e \in Part(q, k + 1, n) : Living(s, v, e)}
             S2 == {e \in Part(q, k, n) : Living(s, v, e)}
             y == h[(k + 1) .. n]
  <2>0. n + 1 - (m + 1) = k /\ n + 1 - m = k + 1 /\ k \in D
    BY <1>l
  <2>1. /\ k \in D /\ n + 1 - (m + 1) = k /\ n + 1 - m = k + 1
        /\ Rest(m + 1) = k .. n /\ Rest(m) = (k + 1) .. n
    BY <2>0
  <2>2. Lists(y, S) /\ Len(y) <= m
    BY <1>5, <2>1
  <2>3. h[k .. n] = Next1(q[k], y)
    <3>1. k .. n \in SUBSET D /\ k \in k .. n /\ \A i \in k .. n : k <= i
      BY <1>n, <2>1
    <3>2. Z(k .. n) = k
      <4>1. Z(k .. n) \in k .. n /\ Z(k .. n) <= k
        BY <1>z, <3>1
      <4> QED BY <4>1, <2>1
    <3>3. (k .. n) \ {k} = (k + 1) .. n
      BY <2>1, <1>n
    <3>4. k .. n # {}
      BY <3>1
    <3> HIDE DEF k, D
    <3> QED BY <1>3, <3>1, <3>2, <3>3, <3>4
  <2>4. \A i \in k .. n : i = k \/ i \in (k + 1) .. n
    BY <2>1, <1>n
  <2>5. Part(q, k, n) = Part(q, k + 1, n) \cup {q[k]}
    <3>1. k \in k .. n /\ \A i \in (k + 1) .. n : i \in k .. n
      BY <2>1, <1>n
    <3> HIDE DEF k
    <3> QED BY <2>4, <3>1 DEF Part
  <2>6. q[k] \notin Part(q, k + 1, n)
    <3>1. \A i \in (k + 1) .. n : i \in D /\ i # k
      BY <2>1, <1>n
    <3>2. \A i, j \in D : q[i] = q[j] => i = j
      BY <1>l DEF Lists, Distinct
    <3> HIDE DEF k, D
    <3> QED BY <2>1, <3>1, <3>2 DEF Part
  <2>7. Len(y) \in Nat
    BY <2>2 DEF Lists
  <2>8. CASE Living(s, v, q[k])
    <3>1. S2 = S \cup {q[k]} /\ q[k] \notin S
      BY <2>5, <2>6, <2>8
    <3>2. h[k .. n] = <<q[k]>> \o y
      BY <2>3, <2>8 DEF Next1
    <3>3. Lists(h[k .. n], S2) /\ Len(h[k .. n]) = Len(y) + 1
      <4> HIDE DEF y, S, S2, k
      <4> QED BY <2>2, <3>1, <3>2, PrependLists
    <3>4. Len(h[k .. n]) <= m + 1
      <4> HIDE DEF y, k
      <4> QED BY <2>2, <2>7, <3>3
    <3>5. /\ Lists(h[Rest(m + 1)], {e \in Part(q, n + 1 - (m + 1), n) : Living(s, v, e)})
          /\ Len(h[Rest(m + 1)]) <= m + 1
      BY <2>1, <3>3, <3>4
    <3> QED BY <3>5
  <2>9. CASE ~ Living(s, v, q[k])
    <3>1. S2 = S
      BY <2>5, <2>9
    <3>2. h[k .. n] = LastToFront(y)
      BY <2>3, <2>9 DEF Next1
    <3>3. Lists(h[k .. n], S2) /\ Len(h[k .. n]) = Len(y)
      <4> HIDE DEF y, S, S2, k
      <4> QED BY <2>2, <3>1, <3>2, LastToFrontLists
    <3>4. Len(h[k .. n]) <= m + 1
      <4> HIDE DEF y, k
      <4> QED BY <2>2, <2>7, <3>3
    <3>5. /\ Lists(h[Rest(m + 1)], {e \in Part(q, n + 1 - (m + 1), n) : Living(s, v, e)})
          /\ Len(h[Rest(m + 1)]) <= m + 1
      BY <2>1, <3>3, <3>4
    <3> QED BY <3>5
  <2> QED BY <2>8, <2>9
<1>6. ASSUME T # {}
      PROVE  FALSE
  <2>1. PICK m \in T : \A k \in T : m <= k
    <3>1. T \subseteq Nat
      BY <1>n
    <3> HIDE DEF T
    <3> QED BY <3>1, <1>6, LeastNumber
  <2> HIDE DEF Good
  <2>2. m \in 0 .. n /\ m # 0 /\ ~ Good(m)
    BY <2>1, <1>4
  <2>3. m - 1 \in 0 .. n-1 /\ m - 1 \in 0 .. n /\ (m - 1) + 1 = m /\ ~ (m <= m - 1)
    BY <2>2, <1>n
  <2>4. Good(m - 1)
    BY <2>1, <2>3
  <2> QED BY <2>2, <2>3, <2>4, <1>5
<1>7. n \in 0 .. n
  BY <1>l
<1>8. Good(n)
  <2> HIDE DEF Good
  <2> QED BY <1>6, <1>7
<1>9. Rest(n) = D /\ n + 1 - n = 1
  BY <1>n
<1>10. Part(q, 1, n) = X
  BY <1>l DEF Lists
<1>11. Lists(h[D], {e \in X : Living(s, v, e)}) /\ Len(h[D]) <= n
  BY <1>8, <1>9, <1>10
<1> QED BY <1>0, <1>2, <1>l, <1>11

(* split_adj's loop: the edges lighter than the pivot, and the others. *)
Visited(pivot, parts, e) ==
  IF Heavier(pivot, e)
  THEN [lighter |-> Append(parts.lighter, e), heavier |-> FirstToEnd(parts.heavier)]
  ELSE [lighter |-> parts.lighter, heavier |-> Append(parts.heavier, e)]

NoParts == [lighter |-> <<>>, heavier |-> <<>>]

Parted(pivot, q) ==
  (CHOOSE f : f = [x \in SUBSET DOMAIN q |->
                     IF x = {} THEN NoParts
                     ELSE Visited(pivot, f[x \ {Max(x)}], q[Max(x)])])[DOMAIN q]

LEMMA PartedIs ==
  ASSUME NEW X, NEW q, Lists(q, X), NEW pivot
  PROVE  /\ Lists(Parted(pivot, q).lighter, {e \in X : Heavier(pivot, e)})
         /\ Lists(Parted(pivot, q).heavier, {e \in X : ~ Heavier(pivot, e)})
         /\ Len(Parted(pivot, q).lighter) + Len(Parted(pivot, q).heavier) = Len(q)
<1> DEFINE n == Len(q)
           D == 1 .. n
           Z(x) == Max(x)
           Next1(e, y) == Visited(pivot, y, e)
           Keeps(f) == f = [x \in SUBSET D |-> IF x = {} THEN NoParts
                                               ELSE Next1(q[Z(x)], f[x \ {Z(x)}])]
           z == [x \in SUBSET D |-> Z(x)]
           Y == [lighter : Seq(X), heavier : Seq(X)]
           g == [t \in D \X Y |-> Next1(q[t[1]], t[2])]
<1>n. n \in Nat /\ q \in Seq(X) /\ DOMAIN q = D /\ \A i \in D : q[i] \in X
  BY DEF Lists
<1>0. Parted(pivot, q) = (CHOOSE f : Keeps(f))[D]
  BY <1>n DEF Parted
<1>z. \A x \in SUBSET D : x # {} => Z(x) \in x /\ \A y \in x : y <= Z(x)
  <2> TAKE x \in SUBSET D
  <2>1. x \in SUBSET Int /\ n \in Int /\ \A y \in x : y <= n
    BY <1>n
  <2> QED BY <2>1, MaxIs
<1>y. \A e \in X, y \in Y : Next1(e, y) \in Y
  <2> TAKE e \in X, y \in Y
  <2>1. Append(y.lighter, e) \in Seq(X) /\ Append(y.heavier, e) \in Seq(X)
    OBVIOUS
  <2>2. FirstToEnd(y.heavier) \in Seq(X)
    <3> DEFINE a == y.heavier
    <3>1. a \in Seq(X)
      OBVIOUS
    <3> HIDE DEF a
    <3>2. ASSUME a = <<>>
          PROVE  FirstToEnd(a) \in Seq(X)
      BY <3>1, <3>2 DEF FirstToEnd
    <3>3. ASSUME a # <<>>
          PROVE  FirstToEnd(a) \in Seq(X)
      <4>1. Tail(a) \in Seq(X) /\ <<Head(a)>> \in Seq(X)
        BY <3>1, <3>3
      <4>2. Tail(a) \o <<Head(a)>> \in Seq(X)
        BY <4>1
      <4> QED BY <3>3, <4>2 DEF FirstToEnd
    <3>4. FirstToEnd(a) \in Seq(X)
      BY <3>2, <3>3
    <3> QED BY <3>4 DEF a
  <2> QED BY <2>1, <2>2 DEF Visited
<1>l. Len(q) = n /\ n \in Nat
  BY <1>n
<1> HIDE DEF Z, Next1, n
<1>1. PICK f : f \in [SUBSET D -> Y] /\ Keeps(f)
  <2>1. \E f : IsFold(D, Y, z, NoParts, g, f)
    <3>1. \A x \in SUBSET D : x # {} => z[x] \in x
      BY <1>z
    <3>2. \A x \in D, y \in Y : g[<<x, y>>] \in Y
      BY <1>y, <1>n
    <3>3. IsFiniteSet(D)
      BY <1>n, FS_Interval
    <3>4. NoParts \in Y
      BY DEF NoParts
    <3> HIDE DEF D, Y, z, g
    <3> QED BY <3>1, <3>2, <3>3, <3>4, FoldsExist
  <2>2. PICK f : IsFold(D, Y, z, NoParts, g, f)
    BY <2>1
  <2>3. \A x \in SUBSET D : f[x] = IF x = {} THEN NoParts ELSE Next1(q[Z(x)], f[x \ {Z(x)}])
    <3> TAKE x \in SUBSET D
    <3>1. f[x] = IF x = {} THEN NoParts ELSE g[<<z[x], f[x \ {z[x]}]>>]
      BY <2>2 DEF IsFold
    <3>2. ASSUME x # {}
          PROVE  g[<<z[x], f[x \ {z[x]}]>>] = Next1(q[Z(x)], f[x \ {Z(x)}])
      <4>1. Z(x) \in D /\ f[x \ {Z(x)}] \in Y /\ z[x] = Z(x)
        BY <2>2, <3>2, <1>z DEF IsFold
      <4> HIDE DEF z, D, Y
      <4> QED BY <4>1
    <3> QED BY <3>1, <3>2
  <2>4. f = [x \in SUBSET D |-> f[x]] /\ f \in [SUBSET D -> Y]
    BY <2>2 DEF IsFold
  <2>5. Keeps(f)
    <3> HIDE DEF D
    <3> QED BY <2>3, <2>4
  <2> QED BY <2>4, <2>5
<1>2. PICK h : Keeps(h) /\ (CHOOSE f2 : Keeps(f2)) = h
  <2> HIDE DEF Keeps
  <2> QED BY <1>1
<1> DEFINE Lighter(m) == {e \in Part(q, 1, m) : Heavier(pivot, e)}
           Others(m) == {e \in Part(q, 1, m) : ~ Heavier(pivot, e)}
           Good(m) == /\ Lists(h[1 .. m].lighter, Lighter(m))
                      /\ Lists(h[1 .. m].heavier, Others(m))
                      /\ Len(h[1 .. m].lighter) + Len(h[1 .. m].heavier) = m
           T == {m \in 0 .. n : ~ Good(m)}
<1>3. \A x \in SUBSET D : h[x] = IF x = {} THEN NoParts ELSE Next1(q[Z(x)], h[x \ {Z(x)}])
  <2>1. h = [x \in SUBSET D |-> IF x = {} THEN NoParts ELSE Next1(q[Z(x)], h[x \ {Z(x)}])]
    BY <1>2
  <2> HIDE DEF D, Keeps
  <2> QED BY <2>1
<1> HIDE DEF Keeps
<1>4. Good(0)
  <2>1. 1 .. 0 = {} /\ {} \in SUBSET D
    BY <1>n
  <2>2. h[1 .. 0] = NoParts
    BY <2>1, <1>3
  <2>3. Lighter(0) = {} /\ Others(0) = {}
    <3>1. Part(q, 1, 0) = {}
      BY <2>1 DEF Part
    <3> QED BY <3>1
  <2>4. Len(<<>>) + Len(<<>>) = 0
    OBVIOUS
  <2>5. NoParts.lighter = <<>> /\ NoParts.heavier = <<>>
    BY DEF NoParts
  <2>6. /\ Lists(h[1 .. 0].lighter, Lighter(0)) /\ Lists(h[1 .. 0].heavier, Others(0))
        /\ Len(h[1 .. 0].lighter) + Len(h[1 .. 0].heavier) = 0
    <3>1. h[1 .. 0].lighter = <<>> /\ h[1 .. 0].heavier = <<>>
      BY <2>2, <2>5
    <3> HIDE DEF Lighter, Others
    <3>2. Lists(h[1 .. 0].lighter, Lighter(0)) /\ Lists(h[1 .. 0].heavier, Others(0))
      BY <2>3, <3>1, EmptyLists
    <3>3. Len(h[1 .. 0].lighter) + Len(h[1 .. 0].heavier) = 0
      BY <2>4, <3>1
    <3> QED BY <3>2, <3>3
  <2> QED BY <2>6
<1>5. ASSUME NEW m \in 0 .. n-1, Good(m)
      PROVE  Good(m + 1)
  <2> DEFINE k == m + 1
             y == h[1 .. m]
             e == q[k]
  <2>1. k \in D /\ k - 1 = m /\ m \in Nat
    BY <1>l
  <2>2. /\ Lists(y.lighter, Lighter(m)) /\ Lists(y.heavier, Others(m))
        /\ Len(y.lighter) + Len(y.heavier) = m
    BY <1>5
  <2>3. h[1 .. k] = Visited(pivot, y, e)
    <3>1. 1 .. k \in SUBSET D /\ k \in 1 .. k /\ \A i \in 1 .. k : i <= k
      BY <1>l, <2>1
    <3>2. Z(1 .. k) = k
      <4>1. Z(1 .. k) \in 1 .. k /\ k <= Z(1 .. k)
        BY <1>z, <3>1
      <4> QED BY <4>1, <2>1
    <3>3. (1 .. k) \ {k} = 1 .. m
      BY <2>1
    <3>4. 1 .. k # {}
      BY <3>1
    <3> HIDE DEF k, D
    <3> QED BY <1>3, <3>1, <3>2, <3>3, <3>4 DEF Next1
  <2>4. \A i \in 1 .. k : i = k \/ i \in 1 .. m
    BY <2>1
  <2>5. Part(q, 1, k) = Part(q, 1, m) \cup {e}
    <3>1. k \in 1 .. k /\ \A i \in 1 .. m : i \in 1 .. k
      BY <2>1
    <3> HIDE DEF k
    <3> QED BY <2>4, <3>1 DEF Part
  <2>6. e \notin Part(q, 1, m)
    <3>1. \A i \in 1 .. m : i \in D /\ i # k
      BY <2>1, <1>l
    <3>2. \A i, j \in D : q[i] = q[j] => i = j
      BY <1>l DEF Lists, Distinct
    <3> HIDE DEF k, D
    <3> QED BY <2>1, <3>1, <3>2 DEF Part
  <2>7. Len(y.lighter) \in Nat /\ Len(y.heavier) \in Nat
    BY <2>2 DEF Lists
  <2>8. CASE Heavier(pivot, e)
    <3>1. Lighter(k) = Lighter(m) \cup {e} /\ e \notin Lighter(m) /\ Others(k) = Others(m)
      BY <2>5, <2>6, <2>8
    <3>2. /\ h[1 .. k].lighter = Append(y.lighter, e)
          /\ h[1 .. k].heavier = FirstToEnd(y.heavier)
      BY <2>3, <2>8 DEF Visited
    <3>3. /\ Lists(h[1 .. k].lighter, Lighter(k)) /\ Lists(h[1 .. k].heavier, Others(k))
          /\ Len(h[1 .. k].lighter) = Len(y.lighter) + 1
          /\ Len(h[1 .. k].heavier) = Len(y.heavier)
      <4> HIDE DEF y, Lighter, Others, k, e
      <4> QED BY <2>2, <3>1, <3>2, AppendLists, FirstToEndLists
    <3>4. ASSUME NEW a \in Nat, NEW b \in Nat, a + b = m
          PROVE  (a + 1) + b = k
      BY <3>4
    <3>5. Len(h[1 .. k].lighter) + Len(h[1 .. k].heavier) = k
      <4> HIDE DEF y, k, Lighter, Others
      <4> QED BY <2>2, <2>7, <3>3, <3>4
    <3> QED BY <3>3, <3>5
  <2>9. CASE ~ Heavier(pivot, e)
    <3>1. Others(k) = Others(m) \cup {e} /\ e \notin Others(m) /\ Lighter(k) = Lighter(m)
      BY <2>5, <2>6, <2>9
    <3>2. /\ h[1 .. k].lighter = y.lighter
          /\ h[1 .. k].heavier = Append(y.heavier, e)
      BY <2>3, <2>9 DEF Visited
    <3>3. /\ Lists(h[1 .. k].lighter, Lighter(k)) /\ Lists(h[1 .. k].heavier, Others(k))
          /\ Len(h[1 .. k].lighter) = Len(y.lighter)
          /\ Len(h[1 .. k].heavier) = Len(y.heavier) + 1
      <4> HIDE DEF y, Lighter, Others, k, e
      <4> QED BY <2>2, <3>1, <3>2, AppendLists
    <3>4. ASSUME NEW a \in Nat, NEW b \in Nat, a + b = m
          PROVE  a + (b + 1) = k
      BY <3>4
    <3>5. Len(h[1 .. k].lighter) + Len(h[1 .. k].heavier) = k
      <4> HIDE DEF y, k, Lighter, Others
      <4> QED BY <2>2, <2>7, <3>3, <3>4
    <3> QED BY <3>3, <3>5
  <2> QED BY <2>8, <2>9
<1>6. ASSUME T # {}
      PROVE  FALSE
  <2> HIDE DEF Good
  <2>1. PICK m \in T : \A k \in T : m <= k
    <3>1. T \subseteq Nat
      BY <1>l
    <3> HIDE DEF T
    <3> QED BY <3>1, <1>6, LeastNumber
  <2>2. m \in 0 .. n /\ m # 0 /\ ~ Good(m)
    BY <2>1, <1>4
  <2>3. m - 1 \in 0 .. n-1 /\ m - 1 \in 0 .. n /\ (m - 1) + 1 = m /\ ~ (m <= m - 1)
    BY <2>2, <1>n
  <2>4. Good(m - 1)
    BY <2>1, <2>3
  <2> QED BY <2>2, <2>3, <2>4, <1>5
<1>7. n \in 0 .. n
  BY <1>l
<1>8. Good(n)
  <2> HIDE DEF Good
  <2> QED BY <1>6, <1>7
<1>9. Part(q, 1, n) = X
  BY <1>l DEF Lists
<1>10. Parted(pivot, q) = h[1 .. n]
  BY <1>0, <1>2
<1>11. /\ Lists(h[1 .. n].lighter, {e \in X : Heavier(pivot, e)})
       /\ Lists(h[1 .. n].heavier, {e \in X : ~ Heavier(pivot, e)})
  BY <1>8, <1>9
<1> QED BY <1>8, <1>10, <1>11, <1>l

(* Unfolding the operators. *)
LEMMA FindSplitterIs ==
  ASSUME NEW s, NEW v, NEW top
  PROVE  FindSplitter(s, v, top) =
           LET splitters == {i \in Splitter[v] : i <= top}
               r == IF splitters = {} THEN 1 ELSE Max(splitters)
               kept == Kept(s, v, SubSeq(Adj[v], r, top))
               d == r - 1 + Len(kept)
           IN [adj |-> SubSeq(Adj[v], 1, r - 1) \o kept \o SubSeq(Adj[v], d + 1, Len(Adj[v])),
               r |-> r, d |-> d]
BY DEF FindSplitter, FoldRight, MapThenFoldSet, Kept

LEMMA SplitAdjIs ==
  ASSUME NEW adj, NEW r, NEW hi
  PROVE  SplitAdj(adj, r, hi) =
           LET swapped == IF hi - r >= 2 THEN Swap(adj, (r + hi) \div 2, hi) ELSE adj
               parts == Parted(swapped[hi], SubSeq(swapped, r, hi - 1))
           IN [adj |-> SubSeq(adj, 1, r - 1) \o parts.lighter \o <<swapped[hi]>>
                         \o FirstToEnd(parts.heavier) \o SubSeq(adj, hi + 1, Len(adj)),
               r |-> IF hi - r = 1 THEN hi ELSE r + Len(parts.lighter)]
BY DEF SplitAdj, FoldLeft, MapThenFoldSet, Parted, Visited, NoParts

(* What is left of the list of a vertex, n edges, and its splitters. *)
ListIs(v, a, n, splitters) ==
  /\ a \in Seq(Edges) /\ n \in 0 .. Len(a)
  /\ \A i \in 1 .. n : v \in a[i]
  /\ Distinct(a, 1, n)
  /\ splitters \subseteq Nat \ {0}
  /\ \A r \in splitters : \A i \in 1 .. r-1, j \in r .. n : Rank[a[j]] > Rank[a[i]]

LEMMA ShorterList ==
  ASSUME NEW v, NEW a, NEW n, NEW splitters, ListIs(v, a, n, splitters), NEW m \in 0 .. n
  PROVE  ListIs(v, a, m, splitters)
<1>1. \A i \in 1 .. m : i \in 1 .. n
  BY DEF ListIs
<1>2. \A r \in splitters : \A j \in r .. m : j \in r .. n
  BY DEF ListIs
<1>3. m \in 0 .. Len(a)
  BY DEF ListIs
<1> QED BY <1>1, <1>2, <1>3 DEF ListIs, Distinct

(* The top of the list may be replaced by some of its edges. *)
IsTopReplaced(v, a, n, splitters, b, r, hi) ==
  /\ ListIs(v, a, n, splitters)
  /\ b \in Seq(Edges) /\ Len(b) = Len(a)
  /\ r \in Nat \ {0} /\ hi \in 0 .. n
  /\ \A i \in 1 .. r-1 : i <= hi => b[i] = a[i]
  /\ \A j \in r .. hi : \E k \in r .. n : b[j] = a[k]
  /\ Distinct(b, r, hi)
  /\ \A q \in splitters : q <= r \/ q > hi

LEMMA TopReplaced ==
  ASSUME NEW v, NEW a, NEW n, NEW splitters, NEW b, NEW r, NEW hi,
         IsTopReplaced(v, a, n, splitters, b, r, hi)
  PROVE  ListIs(v, b, hi, splitters)
<1> USE DEF IsTopReplaced
<1>1. n \in Nat /\ hi \in 0 .. Len(b)
  BY DEF ListIs
<1>2. ASSUME NEW j \in 1 .. hi
      PROVE  \E k \in 1 .. n : /\ b[j] = a[k]
                               /\ j < r => k = j
                               /\ j >= r => k >= r
  <2>1. CASE j < r
    <3>1. j \in 1 .. r-1 /\ j \in 1 .. n
      BY <2>1, <1>1
    <3> QED BY <3>1, <2>1
  <2>2. CASE j >= r
    <3>1. PICK k \in r .. n : b[j] = a[k]
      <4>1. j \in r .. hi
        BY <2>2
      <4> QED BY <4>1
    <3>2. k \in 1 .. n
      BY <1>1
    <3> QED BY <3>1, <3>2, <2>2
  <2> QED BY <2>1, <2>2
<1>3. \A i \in 1 .. hi : v \in b[i]
  BY <1>2 DEF ListIs
<1>4. Distinct(b, 1, hi)
  <2> SUFFICES ASSUME NEW i \in 1 .. hi, NEW j \in 1 .. hi, b[i] = b[j]
               PROVE  i = j
    BY DEF Distinct
  <2>1. PICK k \in 1 .. n : b[i] = a[k] /\ (i < r => k = i) /\ (i >= r => k >= r)
    BY <1>2
  <2>2. PICK l \in 1 .. n : b[j] = a[l] /\ (j < r => l = j) /\ (j >= r => l >= r)
    BY <1>2
  <2>3. k = l
    BY <2>1, <2>2 DEF ListIs, Distinct
  <2>4. CASE i >= r /\ j >= r
    <3>1. i \in r .. hi /\ j \in r .. hi
      BY <2>4
    <3> QED BY <3>1 DEF Distinct
  <2> QED BY <2>1, <2>2, <2>3, <2>4
<1>5. ASSUME NEW q \in splitters, NEW i \in 1 .. q-1, NEW j \in q .. hi
      PROVE  Rank[b[j]] > Rank[b[i]]
  <2>0. q \in Nat \ {0}
    BY DEF ListIs
  <2>1. q <= r /\ i \in 1 .. hi /\ j \in 1 .. hi /\ i < r /\ i < q
    BY <2>0
  <2>2. b[i] = a[i] /\ i \in 1 .. q-1
    BY <2>0, <2>1
  <2>3. PICK k \in 1 .. n : b[j] = a[k] /\ (j < r => k = j) /\ (j >= r => k >= r)
    BY <1>2, <2>1
  <2>4. k \in q .. n
    BY <2>0, <2>1, <2>3, <1>1
  <2> QED BY <2>2, <2>3, <2>4 DEF ListIs
<1> QED BY <1>1, <1>3, <1>4, <1>5 DEF ListIs

LEMMA Concatenation ==
  ASSUME NEW X, NEW a \in Seq(X), NEW b \in Seq(X)
  PROVE  /\ a \o b \in Seq(X) /\ Len(a \o b) = Len(a) + Len(b)
         /\ \A i \in 1 .. Len(a) : (a \o b)[i] = a[i]
         /\ \A i \in 1 .. Len(b) : (a \o b)[Len(a) + i] = b[i]
OBVIOUS

IsConcatenation(a, b, c) ==
  /\ Len(c) = Len(a) + Len(b)
  /\ \A i \in 1 .. Len(a) : c[i] = a[i]
  /\ \A i \in 1 .. Len(b) : c[Len(a) + i] = b[i]

LEMMA ConcatenationIs ==
  ASSUME NEW X, NEW a \in Seq(X), NEW b \in Seq(X)
  PROVE  IsConcatenation(a, b, a \o b)
BY Concatenation DEF IsConcatenation

(* A list with a part of it replaced. *)
Replaced(X, a, r, hi, S, c, b) ==
  /\ b \in Seq(X) /\ Len(b) = Len(a)
  /\ \A i \in 1 .. r-1 : b[i] = a[i]
  /\ \A i \in 1 .. Len(c) : b[r - 1 + i] = c[i]
  /\ Part(b, r, hi) = S /\ Distinct(b, r, hi)

LEMMA PartReplaced ==
  ASSUME NEW X, NEW a \in Seq(X), NEW r \in 1 .. Len(a), NEW hi \in r .. Len(a),
         NEW S \in SUBSET X, NEW c, Lists(c, S), Len(c) = hi - r + 1,
         NEW b, b = SubSeq(a, 1, r - 1) \o c \o SubSeq(a, hi + 1, Len(a))
  PROVE  Replaced(X, a, r, hi, S, c, b)
<1>1. c \in Seq(X) /\ Len(c) \in Nat /\ Len(a) \in Nat /\ r \in Nat /\ hi \in Nat
  BY DEF Lists
<1> DEFINE u == SubSeq(a, 1, r - 1)  w == SubSeq(a, hi + 1, Len(a))
<1>2. u \in Seq(X) /\ Len(u) = r - 1 /\ \A i \in 1 .. r-1 : u[i] = a[i]
  BY <1>1
<1>3. w \in Seq(X) /\ Len(w) = Len(a) - hi
  BY <1>1
<1> HIDE DEF u, w
<1>4. b = (u \o c) \o w
  BY DEF u, w
<1>5. /\ u \o c \in Seq(X) /\ Len(u \o c) = hi
      /\ \A i \in 1 .. r-1 : (u \o c)[i] = u[i]
      /\ \A i \in 1 .. Len(c) : (u \o c)[r - 1 + i] = c[i]
  <2>1. Len(u) + Len(c) = hi
    BY <1>1, <1>2
  <2>2. /\ u \o c \in Seq(X) /\ Len(u \o c) = Len(u) + Len(c)
        /\ \A i \in 1 .. Len(u) : (u \o c)[i] = u[i]
        /\ \A i \in 1 .. Len(c) : (u \o c)[Len(u) + i] = c[i]
    <3>1. u \in Seq(X) /\ c \in Seq(X)
      BY <1>1, <1>2
    <3>2. /\ u \o c \in Seq(X) /\ Len(u \o c) = Len(u) + Len(c)
          /\ \A i \in 1 .. Len(u) : (u \o c)[i] = u[i]
      BY <3>1, Concatenation, Zenon
    <3>3. \A i \in 1 .. Len(c) : (u \o c)[Len(u) + i] = c[i]
      BY <3>1
    <3> QED BY <3>2, <3>3
  <2> QED BY <1>2, <2>1, <2>2
<1>6. /\ b \in Seq(X) /\ Len(b) = Len(a)
      /\ \A i \in 1 .. hi : b[i] = (u \o c)[i]
  <2>1. hi + Len(w) = Len(a)
    BY <1>1, <1>3
  <2> DEFINE x == u \o c
  <2>2. x \in Seq(X) /\ Len(x) = hi /\ b = x \o w
    BY <1>4, <1>5
  <2> HIDE DEF x
  <2>3. /\ x \o w \in Seq(X) /\ Len(x \o w) = Len(x) + Len(w)
        /\ \A i \in 1 .. Len(x) : (x \o w)[i] = x[i]
    <3>1. x \in Seq(X) /\ w \in Seq(X)
      BY <1>3, <2>2
    <3> QED BY <3>1, Concatenation, Zenon
  <2>4. b \in Seq(X) /\ Len(b) = Len(a) /\ \A i \in 1 .. hi : b[i] = x[i]
    BY <2>1, <2>2, <2>3
  <2> QED BY <2>4 DEF x
<1>7. \A i \in 1 .. r-1 : b[i] = a[i]
  <2> TAKE i \in 1 .. r-1
  <2>1. i \in 1 .. hi
    BY <1>1
  <2> QED BY <1>2, <1>5, <1>6, <2>1
<1>8. \A i \in 1 .. Len(c) : b[r - 1 + i] = c[i]
  <2> TAKE i \in 1 .. Len(c)
  <2>1. r - 1 + i \in 1 .. hi
    BY <1>1
  <2> QED BY <1>5, <1>6, <2>1
<1>9. \A j \in r .. hi : j - r + 1 \in 1 .. Len(c) /\ b[j] = c[j - r + 1]
  <2> TAKE j \in r .. hi
  <2>1. j - r + 1 \in 1 .. Len(c) /\ r - 1 + (j - r + 1) = j
    BY <1>1
  <2> QED BY <1>8, <2>1
<1>10. \A i \in 1 .. Len(c) : r - 1 + i \in r .. hi
  BY <1>1
<1>11. Part(b, r, hi) = Part(c, 1, Len(c))
  <2>1. \A x \in Part(b, r, hi) : x \in Part(c, 1, Len(c))
    BY <1>9 DEF Part
  <2>2. \A x \in Part(c, 1, Len(c)) : x \in Part(b, r, hi)
    <3> SUFFICES ASSUME NEW i \in 1 .. Len(c)
                 PROVE  c[i] \in Part(b, r, hi)
      BY DEF Part
    <3> QED BY <1>8, <1>10 DEF Part
  <2> QED BY <2>1, <2>2
<1>12. Distinct(b, r, hi)
  <2> SUFFICES ASSUME NEW i \in r .. hi, NEW j \in r .. hi, b[i] = b[j]
               PROVE  i = j
    BY DEF Distinct
  <2>1. i - r + 1 = j - r + 1
    BY <1>9, ZenonT(60) DEF Lists, Distinct
  <2> QED BY <2>1, <1>1
<1> QED BY <1>6, <1>7, <1>8, <1>11, <1>12 DEF Lists, Replaced

LEMMA SwapIs ==
  ASSUME NEW X, NEW a \in Seq(X), NEW i \in 1 .. Len(a), NEW j \in 1 .. Len(a)
  PROVE  /\ Swap(a, i, j) \in Seq(X) /\ Len(Swap(a, i, j)) = Len(a)
         /\ Swap(a, i, j)[i] = a[j] /\ Swap(a, i, j)[j] = a[i]
         /\ \A k \in 1 .. Len(a) : k # i /\ k # j => Swap(a, i, j)[k] = a[k]
BY DEF Swap

(* Swapping within a part leaves that what it is. *)
LEMMA SwapPart ==
  ASSUME NEW X, NEW a \in Seq(X), NEW r \in 1 .. Len(a), NEW hi \in r .. Len(a),
         NEW i \in r .. hi, Distinct(a, r, hi)
  PROVE  /\ Part(Swap(a, i, hi), r, hi) = Part(a, r, hi)
         /\ Distinct(Swap(a, i, hi), r, hi)
<1> DEFINE b == Swap(a, i, hi)
<1>1. i \in 1 .. Len(a) /\ hi \in 1 .. Len(a) /\ \A k \in r .. hi : k \in 1 .. Len(a)
  OBVIOUS
<1>2. b[i] = a[hi] /\ b[hi] = a[i] /\ \A k \in r .. hi : k # i /\ k # hi => b[k] = a[k]
  BY <1>1, SwapIs, ZenonT(60)
<1> HIDE DEF b
<1>3. i \in r .. hi /\ hi \in r .. hi
  OBVIOUS
<1>4. Distinct(b, r, hi)
  <2> SUFFICES ASSUME NEW k \in r .. hi, NEW l \in r .. hi, b[k] = b[l]
               PROVE  k = l
    BY DEF Distinct
  <2>1. \A x, y \in r .. hi : a[x] = a[y] => x = y
    BY DEF Distinct
  <2> QED BY <1>2, <1>3, <2>1
<1>5. Part(b, r, hi) = Part(a, r, hi)
  <2>1. \A k \in r .. hi : \E l \in r .. hi : b[k] = a[l]
    BY <1>2, <1>3
  <2>2. \A k \in r .. hi : \E l \in r .. hi : b[l] = a[k]
    BY <1>2, <1>3
  <2>3. \A x \in Part(b, r, hi) : x \in Part(a, r, hi)
    BY <2>1 DEF Part
  <2>4. \A x \in Part(a, r, hi) : x \in Part(b, r, hi)
    <3> SUFFICES ASSUME NEW k \in r .. hi
                 PROVE  a[k] \in Part(b, r, hi)
      BY DEF Part
    <3> QED BY <2>2 DEF Part
  <2> QED BY <2>3, <2>4
<1> QED BY <1>4, <1>5 DEF b

LEMMA SubSeqLists ==
  ASSUME NEW X, NEW a \in Seq(X), NEW r \in Nat \ {0}, NEW hi \in r-1 .. Len(a),
         Distinct(a, r, hi)
  PROVE  /\ Lists(SubSeq(a, r, hi), Part(a, r, hi)) /\ Len(SubSeq(a, r, hi)) = hi - r + 1
<1> DEFINE b == SubSeq(a, r, hi)
           S == Part(a, r, hi)
<1>1. hi \in Nat /\ hi - r + 1 \in Nat /\ Len(a) \in Nat
  OBVIOUS
<1>2. Len(b) = hi - r + 1 /\ \A i \in 1 .. hi - r + 1 : b[i] = a[r - 1 + i]
  BY <1>1
<1>3. \A i \in 1 .. hi - r + 1 : r - 1 + i \in r .. hi
  BY <1>1
<1>4. \A i \in r .. hi : i - r + 1 \in 1 .. hi - r + 1 /\ r - 1 + (i - r + 1) = i
  BY <1>1
<1>5. \A i \in 1 .. hi - r + 1 : b[i] \in S
  BY <1>2, <1>3 DEF Part
<1>6. b \in Seq(S)
  <2>1. DOMAIN b = 1 .. hi - r + 1 /\ b = [i \in 1 .. hi - r + 1 |-> b[i]]
    BY <1>1
  <2>2. b \in [1 .. hi - r + 1 -> S]
    <3> HIDE DEF b, S
    <3> QED BY <1>5, <2>1
  <2> HIDE DEF b, S
  <2> QED BY <1>1, <2>2
<1> HIDE DEF b
<1>7. Distinct(b, 1, hi - r + 1)
  <2> SUFFICES ASSUME NEW i \in 1 .. hi - r + 1, NEW j \in 1 .. hi - r + 1, b[i] = b[j]
               PROVE  i = j
    BY DEF Distinct
  <2>1. r - 1 + i = r - 1 + j
    BY <1>2, <1>3 DEF Distinct
  <2> QED BY <2>1, <1>1
<1>8. \A x \in S : x \in Part(b, 1, hi - r + 1)
  <2> SUFFICES ASSUME NEW i \in r .. hi
               PROVE  a[i] \in Part(b, 1, hi - r + 1)
    BY DEF Part
  <2>1. b[i - r + 1] = a[i] /\ i - r + 1 \in 1 .. hi - r + 1
    BY <1>2, <1>4
  <2> QED BY <2>1 DEF Part
<1>9. \A x \in Part(b, 1, hi - r + 1) : x \in S
  BY <1>5 DEF Part
<1>10. Part(b, 1, Len(b)) = S
  BY <1>2, <1>8, <1>9
<1> QED BY <1>2, <1>6, <1>7, <1>10 DEF Lists, b

LEMMA FindAliveIs ==
  ASSUME NEW s, NEW v, ListIs(v, Adj[v], degree[v], Splitter[v])
  PROVE  /\ FindAlive(s, v) \in 0 .. degree[v]
         /\ FindAlive(s, v) > 0 => Living(s, v, Adj[v][FindAlive(s, v)])
         /\ \A i \in 1 .. degree[v] : Living(s, v, Adj[v][i]) => i <= FindAlive(s, v)
<1> DEFINE living == {i \in 1 .. degree[v] : Living(s, v, Adj[v][i])}
<1>1. degree[v] \in Nat
  BY DEF ListIs
<1>2. CASE living = {}
  BY <1>1, <1>2 DEF FindAlive
<1>3. CASE living # {}
  <2>1. living \in SUBSET Int /\ \A i \in living : i <= degree[v]
    BY <1>1
  <2>2. Max(living) \in living /\ \A i \in living : i <= Max(living)
    <3>1. degree[v] \in Int
      BY <1>1
    <3> HIDE DEF living
    <3> QED BY <2>1, <3>1, <1>3, MaxIs
  <2>3. FindAlive(s, v) = Max(living)
    BY <1>3 DEF FindAlive
  <2> QED BY <1>1, <2>2, <2>3
<1> QED BY <1>2, <1>3

(* What find_splitter does. *)
HasFound(s, v, top, found) ==
  /\ found.r \in 1 .. top /\ found.d \in found.r .. top
  /\ found.r = 1 \/ found.r \in Splitter[v]
  /\ \A q \in Splitter[v] : q <= found.r \/ q > top
  /\ found.adj \in Seq(Edges) /\ Len(found.adj) = Len(Adj[v])
  /\ \A i \in 1 .. found.r - 1 : found.adj[i] = Adj[v][i]
  /\ Part(found.adj, found.r, found.d)
       = {e \in Part(Adj[v], found.r, top) : Living(s, v, e)}
  /\ ListIs(v, found.adj, found.d, Splitter[v])

LEMMA FoundIs ==
  ASSUME NEW s, NEW v, ListIs(v, Adj[v], degree[v], Splitter[v]),
         NEW top \in 1 .. degree[v], Living(s, v, Adj[v][top]),
         NEW found, found = FindSplitter(s, v, top)
  PROVE  HasFound(s, v, top, found)
<1> DEFINE L == Adj[v]
           n == degree[v]
           Sp == Splitter[v]
           splitters == {i \in Sp : i <= top}
           r == IF splitters = {} THEN 1 ELSE Max(splitters)
           q == SubSeq(L, r, top)
           kept == Kept(s, v, q)
           d == r - 1 + Len(kept)
<1>n. n \in Nat /\ L \in Seq(Edges) /\ n \in 0 .. Len(L) /\ top \in Nat /\ Len(L) \in Nat
      /\ Sp \subseteq Nat \ {0}
  BY DEF ListIs
<1>f. /\ found.r = r /\ found.d = d
      /\ found.adj = SubSeq(L, 1, r - 1) \o kept \o SubSeq(L, d + 1, Len(L))
  BY FindSplitterIs
<1>r. r \in 1 .. top /\ (r = 1 \/ r \in Sp) /\ \A x \in Sp : x <= r \/ x > top
  <2>1. CASE splitters = {}
    <3>1. r = 1
      BY <2>1
    <3>2. \A x \in Sp : x > top
      BY <2>1, <1>n
    <3> QED BY <3>1, <3>2, <1>n
  <2>2. CASE splitters # {}
    <3>1. splitters \in SUBSET Int /\ \A x \in splitters : x <= top
      BY <1>n
    <3>2. Max(splitters) \in splitters /\ \A x \in splitters : x <= Max(splitters)
      <4>1. top \in Int
        BY <1>n
      <4> HIDE DEF splitters
      <4> QED BY <3>1, <4>1, <2>2, MaxIs
    <3>3. r \in splitters /\ \A x \in splitters : x <= r
      BY <2>2, <3>2
    <3> HIDE DEF r
    <3> QED BY <3>3, <1>n
  <2> QED BY <2>1, <2>2
<1> HIDE DEF r
<1>1. Distinct(L, r, top)
  <2>1. \A i \in r .. top : i \in 1 .. n
    BY <1>n, <1>r
  <2> QED BY <2>1 DEF ListIs, Distinct
<1>2. Lists(q, Part(L, r, top)) /\ Len(q) = top - r + 1
  <2>1. r \in Nat \ {0} /\ top \in r-1 .. Len(L)
    BY <1>n, <1>r
  <2> QED BY <2>1, <1>n, <1>1, SubSeqLists
<1> HIDE DEF q
<1> DEFINE S == {e \in Part(L, r, top) : Living(s, v, e)}
<1>3. Lists(kept, S) /\ Len(kept) <= top - r + 1
  BY <1>2, KeptIs
<1> HIDE DEF kept
<1>4. Len(kept) \in Nat /\ Len(kept) > 0
  <2>1. L[top] \in S
    <3>1. top \in r .. top
      BY <1>n, <1>r
    <3> QED BY <3>1 DEF Part
  <2>2. Part(kept, 1, Len(kept)) = S /\ Len(kept) \in Nat
    BY <1>3 DEF Lists
  <2>3. PICK i \in 1 .. Len(kept) : TRUE
    BY <2>1, <2>2 DEF Part
  <2> QED BY <2>2, <2>3
<1>5. d \in r .. top /\ Len(kept) = d - r + 1
  BY <1>n, <1>r, <1>3, <1>4
<1> HIDE DEF d
<1>6. S \in SUBSET Edges
  <2>1. \A i \in r .. top : L[i] \in Edges
    BY <1>n, <1>r
  <2> QED BY <2>1 DEF Part
<1>7. /\ found.adj \in Seq(Edges) /\ Len(found.adj) = Len(L)
      /\ \A i \in 1 .. r-1 : found.adj[i] = L[i]
      /\ Part(found.adj, r, d) = S /\ Distinct(found.adj, r, d)
  <2> DEFINE b == found.adj
  <2>1. r \in 1 .. Len(L) /\ d \in r .. Len(L) /\ L \in Seq(Edges)
    BY <1>n, <1>r, <1>5
  <2>2. b = SubSeq(L, 1, r - 1) \o kept \o SubSeq(L, d + 1, Len(L))
    BY <1>f
  <2> HIDE DEF S, L, b
  <2>3. Replaced(Edges, L, r, d, S, kept, b)
    BY <1>3, <1>5, <1>6, <2>1, <2>2, PartReplaced, Zenon
  <2> QED BY <2>3 DEF b, Replaced
<1>8. ListIs(v, found.adj, d, Sp)
  <2>1. \A j \in r .. d : \E k \in r .. n : found.adj[j] = L[k]
    <3> TAKE j \in r .. d
    <3>1. found.adj[j] \in S
      BY <1>7 DEF Part
    <3>2. PICK k \in r .. top : found.adj[j] = L[k]
      BY <3>1 DEF Part
    <3>3. k \in r .. n
      BY <1>n, <1>r
    <3> QED BY <3>2, <3>3
  <2>2. r \in Nat \ {0} /\ d \in 0 .. n /\ \A x \in Sp : x <= r \/ x > d
    BY <1>n, <1>r, <1>5
  <2> DEFINE b == found.adj
  <2>3. b \in Seq(Edges) /\ Len(b) = Len(L) /\ Distinct(b, r, d)
    BY <1>7
  <2>4. \A i \in 1 .. r-1 : i <= d => b[i] = L[i]
    BY <1>7
  <2>5. \A j \in r .. d : \E k \in r .. n : b[j] = L[k]
    BY <2>1
  <2>6. ListIs(v, L, n, Sp)
    OBVIOUS
  <2> HIDE DEF L, n, Sp, S, b
  <2>7. IsTopReplaced(v, L, n, Sp, b, r, d)
    BY <2>2, <2>3, <2>4, <2>5, <2>6 DEF IsTopReplaced
  <2>8. ListIs(v, b, d, Sp)
    BY <2>7, TopReplaced, Zenon
  <2> QED BY <2>8 DEF b
<1> QED BY <1>f, <1>r, <1>5, <1>7, <1>8 DEF HasFound

(* find_pref. *)
HasChosen(a, r, d, chosen) ==
  /\ chosen \in Seq(Edges) /\ Len(chosen) = Len(a)
  /\ \A i \in 1 .. r-1 : chosen[i] = a[i]
  /\ Part(chosen, r, d) = Part(a, r, d) /\ Distinct(chosen, r, d)
  /\ \A j \in r .. d-1 : Rank[chosen[j]] < Rank[chosen[d]]

LEMMA ChosenIs ==
  ASSUME ProperInputs, InputIsGiven,
         NEW v, NEW a, NEW d, NEW splitters, ListIs(v, a, d, splitters), NEW r \in 1 .. d,
         NEW chosen, chosen = FindPref(a, r, d)
  PROVE  HasChosen(a, r, d, chosen)
<1>n. d \in Nat /\ a \in Seq(Edges) /\ d <= Len(a) /\ Len(a) \in Nat /\ r \in Nat
  BY DEF ListIs
<1>1. \A i \in r .. d : i \in 1 .. d /\ i \in 1 .. Len(a) /\ a[i] \in Edges /\ v \in a[i]
  BY <1>n DEF ListIs
<1>2. \A i \in r .. d : Rank[a[i]] \in Int
  BY <1>1, RankIs
<1> DEFINE h == [i \in r .. d |-> Rank[a[i]]]
           Best(i) == \A j \in r .. d : ~ Heavier(a[j], a[i])
           imax == CHOOSE i \in r .. d : Best(i)
<1>3. \E i \in r .. d : \A j \in r .. d : h[j] <= h[i]
  <2>1. \A i \in r .. d : h[i] \in Int
    BY <1>2
  <2>2. r \in Int /\ d \in Int /\ r <= d
    BY <1>n
  <2> HIDE DEF h
  <2> QED BY <2>1, <2>2, Greatest, Zenon
<1>4. \A i, j \in r .. d : Heavier(a[j], a[i]) <=> Rank[a[j]] > Rank[a[i]]
  BY <1>1, RankIs
<1>5. \E i \in r .. d : Best(i)
  BY <1>2, <1>3, <1>4
<1>6. imax \in r .. d /\ Best(imax)
  <2> HIDE DEF Best
  <2> QED BY <1>5
<1>7. \A j \in r .. d : Rank[a[j]] <= Rank[a[imax]]
  <2> HIDE DEF imax
  <2> QED BY <1>2, <1>4, <1>6
<1>8. chosen = Swap(a, imax, d)
  BY DEF FindPref
<1> HIDE DEF imax, Best, h
<1>9. r \in 1 .. Len(a) /\ d \in r .. Len(a) /\ imax \in 1 .. Len(a) /\ d \in 1 .. Len(a)
  BY <1>n, <1>6
<1>10. Distinct(a, r, d)
  BY <1>1 DEF ListIs, Distinct
<1>11. /\ chosen \in Seq(Edges) /\ Len(chosen) = Len(a) /\ chosen[d] = a[imax]
       /\ \A k \in 1 .. Len(a) : k # imax /\ k # d => chosen[k] = a[k]
  <2> DEFINE b == Swap(a, imax, d)
  <2>1. /\ b \in Seq(Edges) /\ Len(b) = Len(a)
        /\ b[imax] = a[d] /\ b[d] = a[imax]
        /\ \A k \in 1 .. Len(a) : k # imax /\ k # d => b[k] = a[k]
    BY <1>n, <1>9, SwapIs, Zenon
  <2> HIDE DEF b
  <2> QED BY <1>8, <2>1 DEF b
<1>12. Part(chosen, r, d) = Part(a, r, d) /\ Distinct(chosen, r, d)
  BY <1>n, <1>6, <1>8, <1>9, <1>10, SwapPart
<1>13. \A i \in 1 .. r-1 : chosen[i] = a[i]
  <2> TAKE i \in 1 .. r-1
  <2>1. i \in 1 .. Len(a) /\ i # imax /\ i # d
    BY <1>n, <1>6
  <2> QED BY <1>11, <2>1
<1>14. ASSUME NEW j \in r .. d-1
       PROVE  Rank[chosen[j]] < Rank[chosen[d]]
  <2>1. j \in r .. d /\ d \in r .. d /\ j # d
    BY <1>n
  <2>2. chosen[j] # chosen[d]
    BY <1>12, <2>1 DEF Distinct
  <2>3. PICK k \in r .. d : chosen[j] = a[k]
    <3>1. chosen[j] \in Part(a, r, d)
      BY <1>12, <2>1 DEF Part
    <3> QED BY <3>1 DEF Part
  <2>4. Rank[a[k]] # Rank[a[imax]]
    BY <1>1, <1>6, <1>11, <2>2, <2>3, RanksDiffer
  <2> QED BY <1>2, <1>6, <1>7, <1>11, <2>3, <2>4
<1> QED BY <1>11, <1>12, <1>13, <1>14 DEF HasChosen

Associates(a, b, c) == (a \o b) \o c = a \o (b \o c)

LEMMA Associative ==
  ASSUME NEW X, NEW a \in Seq(X), NEW b \in Seq(X), NEW c \in Seq(X)
  PROVE  Associates(a, b, c)
<1>1. Len((a \o b) \o c) = Len(a \o (b \o c))
  OBVIOUS
<1>2. \A i \in 1 .. Len(a) + Len(b) + Len(c) : ((a \o b) \o c)[i] = (a \o (b \o c))[i]
  OBVIOUS
<1> QED BY <1>1, <1>2 DEF Associates

(* Two lists with nothing in common, one after the other. *)
LEMMA ConcatLists ==
  ASSUME NEW S, NEW T, S \cap T = {}, NEW a, NEW b, Lists(a, S), Lists(b, T)
  PROVE  Lists(a \o b, S \cup T)
<1> DEFINE c == a \o b  n == Len(a)  m == Len(b)  X == S \cup T
<1>1. a \in Seq(X) /\ b \in Seq(X) /\ n \in Nat /\ m \in Nat
  BY DEF Lists
<1>2. /\ c \in Seq(X) /\ Len(c) = n + m
      /\ \A i \in 1 .. n : c[i] = a[i]
      /\ \A i \in 1 .. m : c[n + i] = b[i]
  BY <1>1
<1>3. /\ \A i \in 1 .. n : a[i] \in S
      /\ \A i \in 1 .. m : b[i] \in T
      /\ \A x \in S : \E i \in 1 .. n : a[i] = x
      /\ \A x \in T : \E i \in 1 .. m : b[i] = x
      /\ \A i, j \in 1 .. n : a[i] = a[j] => i = j
      /\ \A i, j \in 1 .. m : b[i] = b[j] => i = j
  BY DEF Lists, Distinct, Part
<1> HIDE DEF c, n, m
<1>4. \A i \in 1 .. n+m : i \in 1 .. n \/ (i - n \in 1 .. m /\ i = n + (i - n))
  BY <1>1
<1>5. \A i \in 1 .. n+m : \/ i \in 1 .. n /\ c[i] = a[i] /\ c[i] \in S
                          \/ i - n \in 1 .. m /\ c[i] = b[i - n] /\ c[i] \in T
  BY <1>2, <1>3, <1>4
<1>6. ASSUME NEW i \in 1 .. n+m, NEW j \in 1 .. n+m, c[i] = c[j]
      PROVE  i = j
  <2>1. CASE i \in 1 .. n /\ j \in 1 .. n
    BY <1>2, <1>3, <1>6, <2>1
  <2>2. CASE i - n \in 1 .. m /\ j - n \in 1 .. m
    <3>1. c[i] = b[i - n] /\ c[j] = b[j - n]
      <4>1. n + (i - n) = i /\ n + (j - n) = j
        BY <1>1
      <4> QED BY <1>2, <2>2, <4>1
    <3>2. i - n = j - n
      BY <1>3, <1>6, <2>2, <3>1
    <3> QED BY <1>1, <3>2
  <2> QED BY <1>5, <1>6, <2>1, <2>2
<1>7. \A x \in X : x \in Part(c, 1, n + m)
  <2>1. \A i \in 1 .. n : i \in 1 .. n+m
    BY <1>1
  <2>2. \A i \in 1 .. m : n + i \in 1 .. n+m
    BY <1>1
  <2> QED BY <1>2, <1>3, <2>1, <2>2 DEF Part
<1>8. \A x \in Part(c, 1, n + m) : x \in X
  BY <1>5 DEF Part
<1> QED BY <1>2, <1>6, <1>7, <1>8 DEF Lists, Distinct, c

(* What split_adj does with a part of the list. *)
SplitWhere(a, r, hi, b, rr) ==
  /\ b \in Seq(Edges) /\ Len(b) = Len(a)
  /\ \A i \in 1 .. r-1 : b[i] = a[i]
  /\ Part(b, r, hi) = Part(a, r, hi) /\ Distinct(b, r, hi)
  /\ rr \in r .. hi
  /\ \A i \in r .. rr-1, j \in rr .. hi : Rank[b[j]] > Rank[b[i]]

LEMMA SplitPart ==
  ASSUME ProperInputs, InputIsGiven,
         NEW a \in Seq(Edges), NEW r \in 1 .. Len(a), NEW hi \in r+1 .. Len(a),
         NEW v, \A i \in r .. hi : v \in a[i], Distinct(a, r, hi)
  PROVE  SplitWhere(a, r, hi, SplitAdj(a, r, hi).adj, SplitAdj(a, r, hi).r)
<1> DEFINE mid == (r + hi) \div 2
           sw == IF hi - r >= 2 THEN Swap(a, mid, hi) ELSE a
           pivot == sw[hi]
           q == SubSeq(sw, r, hi - 1)
           lt == Parted(pivot, q).lighter
           hv == Parted(pivot, q).heavier
           b == SplitAdj(a, r, hi).adj
           rr == SplitAdj(a, r, hi).r
           last == FirstToEnd(hv)
<1>n. r \in Nat /\ r > 0 /\ hi \in Nat /\ r < hi /\ hi <= Len(a) /\ Len(a) \in Nat
      /\ r + hi \in Int
  OBVIOUS
<1>1. /\ b = SubSeq(a, 1, r - 1) \o lt \o <<pivot>> \o last \o SubSeq(a, hi + 1, Len(a))
      /\ rr = IF hi - r = 1 THEN hi ELSE r + Len(lt)
  BY SplitAdjIs
<1>m. mid \in r .. hi
  BY <1>n
<1> HIDE DEF mid
<1>2. /\ sw \in Seq(Edges) /\ Len(sw) = Len(a) /\ \A i \in 1 .. r-1 : sw[i] = a[i]
      /\ Part(sw, r, hi) = Part(a, r, hi) /\ Distinct(sw, r, hi)
  <2>1. CASE hi - r >= 2
    <3> DEFINE c == Swap(a, mid, hi)
    <3>0. hi \in r .. Len(a) /\ hi \in 1 .. Len(a) /\ mid \in 1 .. Len(a) /\ mid \in r .. hi
      BY <1>n, <1>m
    <3>1. /\ c \in Seq(Edges) /\ Len(c) = Len(a) /\ c[mid] = a[hi] /\ c[hi] = a[mid]
          /\ \A k \in 1 .. Len(a) : k # mid /\ k # hi => c[k] = a[k]
      BY <3>0, SwapIs, ZenonT(60)
    <3>2. Part(c, r, hi) = Part(a, r, hi) /\ Distinct(c, r, hi)
      BY <3>0, SwapPart
    <3>3. \A i \in 1 .. r-1 : i \in 1 .. Len(a) /\ i # mid /\ i # hi
      BY <1>n, <1>m
    <3>4. sw = c
      BY <2>1
    <3> HIDE DEF c, sw
    <3> QED BY <3>1, <3>2, <3>3, <3>4
  <2>2. CASE ~ (hi - r >= 2)
    BY <2>2
  <2> QED BY <2>1, <2>2
<1> HIDE DEF sw
<1> DEFINE X == Part(sw, r, hi - 1)
<1>3. Lists(q, X) /\ Len(q) = hi - r
  <2>1. r \in Nat \ {0} /\ hi - 1 \in r-1 .. Len(sw) /\ hi - 1 - r + 1 = hi - r
    BY <1>n, <1>2
  <2>2. Distinct(sw, r, hi - 1)
    <3>1. \A i \in r .. hi-1 : i \in r .. hi
      BY <1>n
    <3> QED BY <1>2, <3>1 DEF Distinct
  <2>3. Lists(q, X) /\ Len(q) = hi - 1 - r + 1
    BY <1>2, <2>1, <2>2, SubSeqLists
  <2> QED BY <2>1, <2>3
<1>4. pivot \notin X /\ Part(sw, r, hi) = X \cup {pivot}
  <2>1. \A i \in r .. hi : i \in r .. hi-1 \/ i = hi
    BY <1>n
  <2>2. hi \in r .. hi /\ \A i \in r .. hi-1 : i \in r .. hi /\ i # hi
    BY <1>n
  <2>3. pivot \notin X
    BY <1>2, <2>2 DEF Part, Distinct
  <2> QED BY <2>1, <2>2, <2>3 DEF Part
<1>5. \A x \in Part(sw, r, hi) : x \in Edges /\ v \in x
  <2>1. \A x \in Part(a, r, hi) : x \in Edges /\ v \in x
    BY <1>n DEF Part
  <2> QED BY <1>2, <2>1
<1> HIDE DEF q
<1> DEFINE LX == {e \in X : Heavier(pivot, e)}
           HX == {e \in X : ~ Heavier(pivot, e)}
<1>6. Lists(lt, LX) /\ Lists(hv, HX) /\ Len(lt) + Len(hv) = hi - r
  BY <1>3, PartedIs
<1>7. Lists(last, HX) /\ Len(last) = Len(hv)
  BY <1>6, FirstToEndLists
<1>8. Len(lt) \in Nat /\ Len(hv) \in Nat /\ X \subseteq Edges /\ pivot \in Edges
  BY <1>4, <1>5, <1>6 DEF Lists
<1> HIDE DEF last, lt, hv, b, rr, pivot, X
<1> DEFINE upto == Append(lt, pivot)
           c == upto \o last
<1>9. Lists(upto, LX \cup {pivot}) /\ Len(upto) = Len(lt) + 1
  <2>1. pivot \notin LX
    BY <1>4
  <2> HIDE DEF LX
  <2> QED BY <1>6, <2>1, AppendLists
<1>10. Lists(c, Part(a, r, hi)) /\ Len(c) = hi - r + 1
  <2>1. (LX \cup {pivot}) \cap HX = {} /\ (LX \cup {pivot}) \cup HX = X \cup {pivot}
    BY <1>4
  <2>2. Lists(c, (LX \cup {pivot}) \cup HX)
    <3> HIDE DEF LX, HX, upto
    <3> QED BY <1>7, <1>9, <2>1, ConcatLists
  <2>3. Len(c) = Len(upto) + Len(last)
    BY <1>7, <1>9 DEF Lists
  <2>4. Len(c) = hi - r + 1
    <3> HIDE DEF c, upto
    <3> QED BY <1>6, <1>7, <1>8, <1>9, <2>3, <1>n
  <2> HIDE DEF LX, HX, c
  <2> QED BY <1>2, <1>4, <2>1, <2>2, <2>4
<1>11. b = SubSeq(a, 1, r - 1) \o c \o SubSeq(a, hi + 1, Len(a))
  <2> DEFINE w == SubSeq(a, 1, r - 1)
  <2>1. w \in Seq(Edges)
    BY <1>n
  <2>2. lt \in Seq(Edges) /\ last \in Seq(Edges) /\ <<pivot>> \in Seq(Edges)
    BY <1>6, <1>7, <1>8 DEF Lists
  <2>3. upto = lt \o <<pivot>> /\ upto \in Seq(Edges)
    BY <2>2
  <2> DEFINE only == <<pivot>>
  <2> HIDE DEF w, upto, only
  <2>4. Associates(w, lt, only)
    BY <2>1, <2>2, Associative, Zenon DEF only
  <2>5. Associates(w, upto, last)
    BY <2>1, <2>2, <2>3, Associative, Zenon
  <2>6. (w \o lt) \o only = w \o upto
    BY <2>3, <2>4, Zenon DEF Associates, only
  <2>7. (w \o upto) \o last = w \o c
    BY <2>5, Zenon DEF Associates
  <2> QED BY <1>1, <2>6, <2>7, Zenon DEF w, only
<1>12. Replaced(Edges, a, r, hi, Part(a, r, hi), c, b)
  <2>1. hi \in r .. Len(a) /\ Part(a, r, hi) \in SUBSET Edges
    BY <1>n, <1>2, <1>5
  <2> HIDE DEF c
  <2> QED BY <1>10, <1>11, <2>1, PartReplaced, Zenon
<1>13. \A j \in r .. hi : j - r + 1 \in 1 .. Len(c) /\ b[j] = c[j - r + 1]
  <2> HIDE DEF c
  <2> TAKE j \in r .. hi
  <2>1. j - r + 1 \in 1 .. Len(c) /\ r - 1 + (j - r + 1) = j
    BY <1>n, <1>10
  <2> QED BY <1>12, <2>1 DEF Replaced
<1>14. /\ \A i \in 1 .. Len(lt) : c[i] \in LX
       /\ c[Len(lt) + 1] = pivot
       /\ \A i \in Len(lt) + 2 .. Len(c) : c[i] \in HX
  <2>1. /\ lt \in Seq(Edges) /\ last \in Seq(Edges) /\ \A i \in 1 .. Len(lt) : lt[i] \in LX
        /\ \A i \in 1 .. Len(last) : last[i] \in HX
    BY <1>6, <1>7, <1>8 DEF Lists
  <2>2. /\ upto \in Seq(Edges) /\ Len(upto) = Len(lt) + 1 /\ upto[Len(lt) + 1] = pivot
        /\ \A i \in 1 .. Len(lt) : upto[i] = lt[i]
    BY <1>8, <2>1
  <2> HIDE DEF upto
  <2>3. /\ \A i \in 1 .. Len(lt) + 1 : c[i] = upto[i]
        /\ Len(c) = Len(lt) + 1 + Len(last)
        /\ \A i \in 1 .. Len(last) : c[Len(lt) + 1 + i] = last[i]
    <3>1. upto \in Seq(Edges) /\ last \in Seq(Edges)
      BY <2>1, <2>2
    <3>2. IsConcatenation(upto, last, upto \o last)
      BY <3>1, ConcatenationIs, Zenon
    <3>3. c = upto \o last
      OBVIOUS
    <3>4. Len(upto) = Len(lt) + 1
      BY <2>2
    <3> HIDE DEF c
    <3> QED BY <3>2, <3>3, <3>4, Zenon DEF IsConcatenation
  <2> HIDE DEF c, LX, HX
  <2>4. \A i \in Len(lt) + 2 .. Len(c) :
          i - (Len(lt) + 1) \in 1 .. Len(last) /\ i = Len(lt) + 1 + (i - (Len(lt) + 1))
    BY <1>7, <1>8, <2>3
  <2>5. \A i \in Len(lt) + 2 .. Len(c) : c[i] = last[i - (Len(lt) + 1)]
    <3> TAKE i \in Len(lt) + 2 .. Len(c)
    <3> DEFINE k == i - (Len(lt) + 1)
    <3>1. k \in 1 .. Len(last) /\ i = Len(lt) + 1 + k
      BY <2>4
    <3> HIDE DEF k
    <3>2. c[i] = last[k]
      BY <2>3, <3>1
    <3> QED BY <3>2 DEF k
  <2>6. \A i \in 1 .. Len(lt) : i \in 1 .. Len(lt) + 1
    BY <1>8
  <2>7. Len(lt) + 1 \in 1 .. Len(lt) + 1
    BY <1>8
  <2> QED BY <2>1, <2>2, <2>3, <2>4, <2>5, <2>6, <2>7
<1>15. /\ \A x \in LX : x \in Edges /\ Rank[x] \in Int /\ Rank[x] < Rank[pivot]
       /\ \A x \in HX : x \in Edges /\ Rank[x] \in Int /\ Rank[x] > Rank[pivot]
       /\ Rank[pivot] \in Int
  <2>1. \A x \in X : x \in Edges /\ v \in x /\ x # pivot
    BY <1>4, <1>5
  <2>2. pivot \in Edges /\ v \in pivot
    BY <1>4, <1>5
  <2>3. \A x \in X : Rank[x] \in Int /\ Rank[x] # Rank[pivot]
    BY <2>1, <2>2, RanksDiffer, RankIs
  <2>4. \A x \in X : Heavier(pivot, x) <=> Rank[pivot] > Rank[x]
    BY <2>1, <2>2, RankIs
  <2>5. Rank[pivot] \in Int
    BY <2>2, RankIs
  <2> HIDE DEF X
  <2> QED BY <2>1, <2>3, <2>4, <2>5
<1>16. rr \in r .. hi
  BY <1>1, <1>6, <1>8, <1>n
<1>17. ASSUME NEW i \in r .. rr-1, NEW j \in rr .. hi
       PROVE  Rank[b[j]] > Rank[b[i]]
  <2> HIDE DEF c, LX, HX
  <2> DEFINE k == i - r + 1  l == j - r + 1
  <2>1. k \in Int /\ l \in Int /\ 1 <= k /\ k < l /\ l <= Len(c) /\ Len(c) \in Int
    BY <1>n, <1>10, <1>16
  <2>2. b[i] = c[k] /\ b[j] = c[l]
    BY <1>13, <1>16, <1>n
  <2>3. CASE k <= Len(lt) /\ l > Len(lt)
    <3>1. c[k] \in LX
      BY <1>8, <1>14, <2>1, <2>3
    <3>2. c[l] = pivot \/ c[l] \in HX
      <4> HIDE DEF k, l
      <4>1. l = Len(lt) + 1 \/ l \in Len(lt) + 2 .. Len(c)
        BY <1>8, <2>1, <2>3
      <4> QED BY <1>14, <4>1
    <3> QED BY <1>15, <2>2, <3>1, <3>2
  <2>4. CASE ~ (k <= Len(lt) /\ l > Len(lt))
    <3>1. hi - r = 1 /\ rr = hi
      BY <1>1, <1>8, <1>16, <1>n, <2>1, <2>4
    <3>2. k = 1 /\ l = 2 /\ Len(lt) \in {0, 1} /\ Len(c) = 2
      <4>1. hi = r + 1
        BY <1>n, <3>1
      <4>2. i = r /\ j = hi
        BY <1>n, <3>1, <4>1
      <4>3. Len(lt) + Len(hv) = 1 /\ Len(c) = 2
        BY <1>n, <1>6, <1>10, <3>1
      <4>4. Len(lt) \in {0, 1}
        <5> DEFINE m == Len(lt)  o == Len(hv)
        <5>1. m \in Nat /\ o \in Nat /\ m + o = 1
          BY <1>8, <4>3
        <5> HIDE DEF m, o
        <5>2. m \in {0, 1}
          BY <5>1
        <5> QED BY <5>2 DEF m
      <4>5. k = 1 /\ l = 2
        BY <1>n, <4>1, <4>2
      <4> QED BY <4>3, <4>4, <4>5
    <3> HIDE DEF k, l
    <3>3. Len(lt) = 0
      <4> DEFINE m == Len(lt)
      <4>1. ~ (k <= m /\ l > m) /\ k = 1 /\ l = 2 /\ m \in {0, 1}
        BY <2>4, <3>2
      <4> HIDE DEF m
      <4>2. m = 0
        BY <4>1
      <4> QED BY <4>2 DEF m
    <3>4. c[1] = pivot /\ c[2] \in HX
      BY <1>14, <3>2, <3>3
    <3> QED BY <1>15, <2>2, <3>2, <3>4
  <2> QED BY <2>3, <2>4
<1> HIDE DEF c
<1> QED BY <1>12, <1>16, <1>17 DEF SplitWhere, Replaced, b, rr

(* A splitter is added. *)
IsSplit(v, a, hi, Sp, b, rr) ==
  ListIs(v, b, hi, Sp \cup {rr}) /\ Part(b, 1, hi) = Part(a, 1, hi)

LEMMA SplitIs ==
  ASSUME ProperInputs, InputIsGiven,
         NEW v, NEW a, NEW hi, NEW Sp, ListIs(v, a, hi, Sp), NEW r \in 1 .. hi-1,
         r = 1 \/ r \in Sp, \A q \in Sp : q <= r \/ q > hi,
         NEW b, NEW rr, b = SplitAdj(a, r, hi).adj, rr = SplitAdj(a, r, hi).r
  PROVE  IsSplit(v, a, hi, Sp, b, rr)
<1>n. hi \in Nat /\ a \in Seq(Edges) /\ hi <= Len(a) /\ Len(a) \in Nat /\ r \in Nat /\ r > 0
      /\ r < hi
  BY DEF ListIs
<1>1. SplitWhere(a, r, hi, b, rr)
  <2>1. r \in 1 .. Len(a) /\ hi \in r+1 .. Len(a)
    BY <1>n
  <2>2. (\A i \in r .. hi : v \in a[i]) /\ Distinct(a, r, hi)
    <3>1. \A i \in r .. hi : i \in 1 .. hi
      BY <1>n
    <3> QED BY <3>1 DEF ListIs, Distinct
  <2>3. SplitWhere(a, r, hi, SplitAdj(a, r, hi).adj, SplitAdj(a, r, hi).r)
    BY <1>n, <2>1, <2>2, SplitPart, Zenon
  <2> QED BY <2>3
<1>2. \A j \in r .. hi : \E k \in r .. hi : b[j] = a[k]
  <2> TAKE j \in r .. hi
  <2>1. b[j] \in Part(b, r, hi)
    BY DEF Part
  <2>2. b[j] \in Part(a, r, hi)
    BY <1>1, <2>1 DEF SplitWhere
  <2> QED BY <2>2 DEF Part
<1>3. \A k \in r .. hi : \E j \in r .. hi : b[j] = a[k]
  <2> TAKE k \in r .. hi
  <2>1. a[k] \in Part(a, r, hi)
    BY DEF Part
  <2>2. a[k] \in Part(b, r, hi)
    BY <1>1, <2>1 DEF SplitWhere
  <2> QED BY <2>2 DEF Part
<1>4. ListIs(v, b, hi, Sp)
  <2>1. b \in Seq(Edges) /\ Len(b) = Len(a) /\ Distinct(b, r, hi)
    BY <1>1 DEF SplitWhere
  <2>2. \A i \in 1 .. r-1 : i <= hi => b[i] = a[i]
    BY <1>1 DEF SplitWhere
  <2>3. r \in Nat \ {0} /\ hi \in 0 .. hi
    BY <1>n
  <2> QED
    <3>1. IsTopReplaced(v, a, hi, Sp, b, r, hi)
      BY <1>2, <2>1, <2>2, <2>3 DEF IsTopReplaced
    <3> QED BY <3>1, TopReplaced, Zenon
<1>5. rr \in r .. hi
  BY <1>1 DEF SplitWhere
<1>6. ASSUME NEW i \in 1 .. rr-1, NEW j \in rr .. hi
      PROVE  Rank[b[j]] > Rank[b[i]]
  <2>1. j \in r .. hi
    BY <1>5, <1>n
  <2>2. CASE i >= r
    <3>1. i \in r .. rr-1
      BY <2>2
    <3> QED BY <1>1, <3>1 DEF SplitWhere
  <2>3. CASE i < r
    <3>1. i \in 1 .. r-1 /\ r # 1
      BY <2>3, <1>n
    <3>2. b[i] = a[i]
      BY <1>1, <3>1 DEF SplitWhere
    <3>3. PICK k \in r .. hi : b[j] = a[k]
      BY <1>2, <2>1
    <3>4. Rank[a[k]] > Rank[a[i]]
      BY <3>1 DEF ListIs
    <3> QED BY <3>2, <3>3, <3>4
  <2> QED BY <2>2, <2>3, <1>n
<1>7. ListIs(v, b, hi, Sp \cup {rr})
  <2>1. rr \in Nat \ {0}
    BY <1>5, <1>n
  <2> QED BY <1>4, <1>6, <2>1 DEF ListIs
<1>8. Part(b, 1, hi) = Part(a, 1, hi)
  <2>1. \A i \in 1 .. hi : i \in 1 .. r-1 \/ i \in r .. hi
    BY <1>n
  <2>2. \A i \in r .. hi : i \in 1 .. hi
    BY <1>n
  <2>3. \A i \in 1 .. r-1 : b[i] = a[i]
    BY <1>1 DEF SplitWhere
  <2>4. \A x \in Part(b, 1, hi) : x \in Part(a, 1, hi)
    <3> SUFFICES ASSUME NEW i \in 1 .. hi
                 PROVE  \E k \in 1 .. hi : b[i] = a[k]
      BY DEF Part
    <3> QED BY <1>2, <2>1, <2>2, <2>3
  <2>5. \A x \in Part(a, 1, hi) : x \in Part(b, 1, hi)
    <3> SUFFICES ASSUME NEW i \in 1 .. hi
                 PROVE  \E k \in 1 .. hi : b[k] = a[i]
      BY DEF Part
    <3> QED BY <1>3, <2>1, <2>2, <2>3
  <2> QED BY <2>4, <2>5
<1> QED BY <1>7, <1>8 DEF IsSplit

(* What v finds: the heaviest edge of what is living, and what it keeps. *)
ListOf(v) == Part(Adj[v], 1, degree[v])

Finds(s, v, found, chosen, e) ==
  /\ found.r \in Nat /\ found.d \in Nat \ {0} /\ found.d <= degree[v]
  /\ e \in ListOf(v) /\ Living(s, v, e)
  /\ ListIs(v, chosen, found.d - 1, Splitter[v])
  /\ \A g \in Part(chosen, 1, found.d - 1) :
        g \in ListOf(v) /\ Rank[g] < Rank[e] /\ g \notin Dead(s, v, found.r)
  /\ \A g \in ListOf(v) : \/ g = e \/ g \in Part(chosen, 1, found.d - 1)
                          \/ g \in Dead(s, v, found.r)
  /\ \A g \in Dead(s, v, found.r) : g \in ListOf(v) /\ ~ Living(s, v, g)
  /\ \A b, rr : /\ found.d - 1 - found.r >= SplitMin
                /\ b = SplitAdj(chosen, found.r, found.d - 1).adj
                /\ rr = SplitAdj(chosen, found.r, found.d - 1).r
                => /\ ListIs(v, b, found.d - 1, Splitter[v] \cup {rr})
                   /\ Part(b, 1, found.d - 1) = Part(chosen, 1, found.d - 1)

LEMMA Finding ==
  ASSUME ProperInputs, InputIsGiven,
         NEW s, NEW v, ListIs(v, Adj[v], degree[v], Splitter[v]),
         NEW top, top = FindAlive(s, v), top > 0,
         NEW found, found = FindSplitter(s, v, top),
         NEW chosen, chosen = FindPref(found.adj, found.r, found.d)
  PROVE  Finds(s, v, found, chosen, chosen[found.d])
<1> DEFINE L == Adj[v]
           n == degree[v]
           Sp == Splitter[v]
           r == found.r
           d == found.d
           a == found.adj
           e == chosen[d]
<1>0. ListIs(v, L, n, Sp)
  OBVIOUS
<1>n. n \in Nat /\ L \in Seq(Edges) /\ Sp \subseteq Nat \ {0}
  BY DEF ListIs
<1>t. top \in 1 .. n /\ Living(s, v, L[top]) /\ \A i \in 1 .. n : Living(s, v, L[i]) => i <= top
  <2>1. top \in 0 .. n /\ Living(s, v, L[top]) /\ \A i \in 1 .. n : Living(s, v, L[i]) => i <= top
    BY FindAliveIs
  <2> QED BY <2>1, <1>n
<1>1. /\ r \in 1 .. top /\ d \in r .. top
      /\ r = 1 \/ r \in Sp
      /\ \A q \in Sp : q <= r \/ q > top
      /\ a \in Seq(Edges) /\ Len(a) = Len(L)
      /\ \A i \in 1 .. r-1 : a[i] = L[i]
      /\ Part(a, r, d) = {x \in Part(L, r, top) : Living(s, v, x)}
      /\ ListIs(v, a, d, Sp)
  <2>1. HasFound(s, v, top, found)
    BY <1>t, FoundIs, Zenon
  <2> QED BY <2>1 DEF HasFound
<1>m. /\ r \in Nat /\ d \in Nat /\ 0 < r /\ r <= d /\ d <= top /\ top <= n /\ d - 1 \in 0 .. d
      /\ top \in Nat
  BY <1>t, <1>1, <1>n
<1>2. /\ chosen \in Seq(Edges) /\ Len(chosen) = Len(a)
      /\ \A i \in 1 .. r-1 : chosen[i] = a[i]
      /\ Part(chosen, r, d) = Part(a, r, d) /\ Distinct(chosen, r, d)
      /\ \A j \in r .. d-1 : Rank[chosen[j]] < Rank[e]
  <2>1. r \in 1 .. d
    BY <1>m
  <2> QED
    <3>1. HasChosen(a, r, d, chosen)
      BY <1>1, <2>1, ChosenIs, Zenon
    <3> QED BY <3>1 DEF HasChosen
<1> HIDE DEF L, n, Sp
<1>3. ListIs(v, chosen, d, Sp)
  <2>1. \A j \in r .. d : \E k \in r .. d : chosen[j] = a[k]
    <3> TAKE j \in r .. d
    <3>1. chosen[j] \in Part(a, r, d)
      BY <1>2 DEF Part
    <3> QED BY <3>1 DEF Part
  <2>2. r \in Nat \ {0} /\ d \in 0 .. d /\ \A q \in Sp : q <= r \/ q > d
    BY <1>m, <1>1, <1>n
  <2>3. \A i \in 1 .. r-1 : i <= d => chosen[i] = a[i]
    BY <1>2
  <2>4. ListIs(v, a, d, Sp) /\ Len(chosen) = Len(a) /\ Distinct(chosen, r, d) /\ chosen \in Seq(Edges)
    BY <1>1, <1>2
  <2> HIDE DEF a, d, r
  <2> QED
    <3>1. IsTopReplaced(v, a, d, Sp, chosen, r, d)
      BY <2>1, <2>2, <2>3, <2>4 DEF IsTopReplaced
    <3> QED BY <3>1, TopReplaced, Zenon
<1>4. ListIs(v, chosen, d - 1, Sp)
  <2> HIDE DEF d
  <2> QED BY <1>3, <1>m, ShorterList, Zenon
<1> DEFINE R == Part(chosen, 1, d - 1)
           dead == {x \in {L[j] : j \in r .. n} : ~ Living(s, v, x)}
<1>d. Dead(s, v, r) = dead /\ ListOf(v) = Part(L, 1, n)
  BY DEF Dead, ListOf, L, n
<1>x. \A i, j \in 1 .. n : L[i] = L[j] => i = j
  BY <1>0 DEF ListIs, Distinct
<1>h. \A j \in r .. d : \E k \in r .. top : chosen[j] = L[k] /\ Living(s, v, L[k])
  <2> TAKE j \in r .. d
  <2>1. chosen[j] \in Part(a, r, d)
    BY <1>2 DEF Part
  <2>2. chosen[j] \in Part(L, r, top) /\ Living(s, v, chosen[j])
    BY <1>1, <2>1
  <2> QED BY <2>2 DEF Part
<1>l. \A i \in 1 .. r-1 : chosen[i] = L[i] /\ i \in 1 .. n
  BY <1>1, <1>2, <1>m, <1>n
<1>w. \A i \in 1 .. r-1 : Rank[chosen[i]] < Rank[e]
  <2> TAKE i \in 1 .. r-1
  <2>1. r \in Sp /\ d \in r .. d
    BY <1>1, <1>m
  <2>2. Rank[chosen[d]] > Rank[chosen[i]]
    BY <1>3, <2>1 DEF ListIs
  <2>3. i \in 1 .. d /\ d \in 1 .. d
    BY <1>m
  <2>4. chosen[i] \in Edges /\ chosen[d] \in Edges
    BY <1>2, <2>3, <1>3 DEF ListIs
  <2>5. Rank[chosen[d]] \in Int /\ Rank[chosen[i]] \in Int
    BY <2>4, RankIs
  <2> QED BY <2>2, <2>5
<1>k. \A k \in r .. top : k \in 1 .. n /\ k \in r .. n
  BY <1>m, <1>n
<1>5. e \in Part(L, 1, n) /\ Living(s, v, e)
  <2>1. d \in r .. d
    BY <1>m
  <2>2. PICK k \in r .. top : e = L[k] /\ Living(s, v, L[k])
    BY <1>h, <2>1
  <2> QED BY <2>2, <1>k DEF Part
<1>6. ASSUME NEW g \in R
      PROVE  g \in Part(L, 1, n) /\ Rank[g] < Rank[e] /\ g \notin dead
  <2>1. PICK i \in 1 .. d-1 : g = chosen[i]
    BY DEF Part
  <2>2. CASE i < r
    <3>1. i \in 1 .. r-1
      BY <2>2, <1>m
    <3>2. g = L[i] /\ i \in 1 .. n /\ Rank[g] < Rank[e]
      BY <1>l, <1>w, <2>1, <3>1
    <3>3. \A j \in r .. n : j \in 1 .. n /\ j # i
      BY <1>m, <1>n, <2>2
    <3>4. g \notin dead
      BY <3>2, <3>3, <1>x
    <3> QED BY <3>2, <3>4 DEF Part
  <2>3. CASE i >= r
    <3>1. i \in r .. d-1 /\ i \in r .. d
      BY <2>3, <1>m
    <3>2. Rank[g] < Rank[e]
      BY <1>2, <2>1, <3>1
    <3>3. PICK k \in r .. top : g = L[k] /\ Living(s, v, L[k])
      BY <1>h, <2>1, <3>1
    <3> QED BY <3>2, <3>3, <1>k DEF Part
  <2> QED BY <2>2, <2>3, <1>m
<1>7. ASSUME NEW g \in Part(L, 1, n)
      PROVE  g = e \/ g \in R \/ g \in dead
  <2>1. PICK i \in 1 .. n : g = L[i]
    BY DEF Part
  <2>2. CASE i < r
    <3>1. i \in 1 .. r-1 /\ i \in 1 .. d-1
      BY <2>2, <1>m, <1>n
    <3>2. g = chosen[i]
      BY <1>l, <2>1, <3>1
    <3> QED BY <3>1, <3>2 DEF Part
  <2>3. CASE i >= r
    <3>0. i \in r .. n
      BY <2>3, <1>m, <1>n
    <3>1. CASE ~ Living(s, v, g)
      BY <2>1, <3>0, <3>1
    <3>2. CASE Living(s, v, g)
      <4>1. i \in r .. top
        BY <1>t, <1>m, <1>n, <2>1, <2>3, <3>2 DEF L, n
      <4>2. g \in Part(chosen, r, d)
        BY <1>1, <1>2, <2>1, <3>2, <4>1 DEF Part
      <4>3. PICK j \in r .. d : g = chosen[j]
        BY <4>2 DEF Part
      <4>4. j = d \/ j \in 1 .. d-1
        BY <1>m
      <4> QED BY <4>3, <4>4 DEF Part
    <3> QED BY <3>1, <3>2
  <2> QED BY <2>2, <2>3, <1>m
<1>8. ASSUME NEW g \in dead
      PROVE  g \in Part(L, 1, n) /\ ~ Living(s, v, g)
  <2>1. \A j \in r .. n : j \in 1 .. n
    BY <1>m, <1>n
  <2> QED BY <2>1 DEF Part
<1>9. ASSUME NEW b, NEW rr, d - 1 - r >= SplitMin,
             b = SplitAdj(chosen, r, d - 1).adj, rr = SplitAdj(chosen, r, d - 1).r
      PROVE  ListIs(v, b, d - 1, Sp \cup {rr}) /\ Part(b, 1, d - 1) = R
  <2>1. SplitMin \in Nat \ {0}
    BY DEF ProperInputs
  <2>2. r \in 1 .. d - 1 - 1 /\ \A q \in Sp : q <= r \/ q > d - 1
    BY <1>m, <1>1, <1>9, <2>1, <1>n
  <2> HIDE DEF d, r
  <2>3. ListIs(v, b, d - 1, Sp \cup {rr}) /\ Part(b, 1, d - 1) = Part(chosen, 1, d - 1)
    <3>1. IsSplit(v, chosen, d - 1, Sp, b, rr)
      BY <1>1, <1>4, <1>9, <2>2, SplitIs, Zenon
    <3> QED BY <3>1 DEF IsSplit
  <2> QED BY <2>3
<1>10. found.r \in Nat /\ found.d \in Nat \ {0} /\ found.d <= degree[v]
  BY <1>m, <1>n DEF n
<1> HIDE DEF R, dead
<1> QED BY <1>4, <1>5, <1>6, <1>7, <1>8, <1>9, <1>10, <1>d DEF Finds, Sp, R

(***************************************************************************)
(* The protocol, apart from how lists, queues and messages are stored.  A  *)
(* state x of it has, per vertex, the preference and the suitor; the edges *)
(* in its list and those of them that are alive; the edges of which a      *)
(* proposal, an acceptance or a rejection is on its way to the vertex; and *)
(* the vertices queued.  The graph g has its edges by rank.                *)
(***************************************************************************)
IsRanked(g) ==
  /\ DUMMY \notin g.edges /\ g.internal \subseteq g.edges
  /\ \A e \in g.edges :
       /\ g.rank[e] \in Nat
       /\ \E v \in e : TRUE
       /\ \A v \in e : /\ v \in g.V /\ Other(v, e) \in e /\ Other(v, e) # v
                       /\ Other(Other(v, e), e) = v
                       /\ \A w \in e : w = v \/ w = Other(v, e)
       /\ \A f \in g.edges : \A v \in e \cap f :
            (g.rank[e] = g.rank[f] \/ Other(v, e) \in f) => e = f
  /\ g.rank[DUMMY] = -1

Typed(g, x) ==
  \A v \in g.V :
    /\ x.pref[v] = DUMMY \/ (x.pref[v] \in g.edges /\ v \in x.pref[v])
    /\ x.suitor[v] = DUMMY \/ (x.suitor[v] \in g.edges /\ v \in x.suitor[v])
    /\ \A e \in x.list[v] : e \in g.edges /\ v \in e
    /\ \A e \in x.avail[v] : e \in x.list[v]
    /\ \A e \in x.prop[v] \cup x.acc[v] \cup x.rej[v] :
         e \in g.edges /\ e \notin g.internal /\ v \in e

(* An edge is dead if one of its ends has a better suitor. *)
IsDead(g, x, e) == \E w \in e : g.rank[x.suitor[w]] > g.rank[e]

(* Nobody loses an edge before it is dead. *)
NoneForgotten(g, x) ==
  \A e \in g.edges : \A v \in e : e \in x.avail[v] \/ x.pref[v] = e \/ IsDead(g, x, e)

PrefersHeaviest(g, x) ==
  \A v \in g.V : x.pref[v] # DUMMY =>
    \A e \in x.list[v] : g.rank[e] < g.rank[x.pref[v]]

SuitorsPropose(g, x) ==
  \A v \in g.V : x.suitor[v] # DUMMY =>
    /\ x.pref[Other(v, x.suitor[v])] = x.suitor[v]
    /\ x.pref[v] = x.suitor[v] \/ x.suitor[v] \in x.avail[v]

SuitorsAreLighter(g, x) ==
  \A v \in g.V : x.pref[v] # DUMMY => g.rank[x.suitor[v]] <= g.rank[x.pref[v]]

ProposalsHold(g, x) ==
  \A v \in g.V : \A e \in x.prop[v] :
    /\ x.pref[Other(v, e)] = e /\ x.suitor[v] # e
    /\ e \notin x.acc[v] /\ e \notin x.rej[v] /\ e \notin x.rej[Other(v, e)]

AcceptancesHold(g, x) ==
  \A v \in g.V : \A e \in x.acc[v] :
    /\ x.pref[Other(v, e)] = e /\ x.pref[v] = e
    /\ x.suitor[Other(v, e)] = e /\ x.suitor[v] # e
    /\ e \notin x.rej[v]

RejectionsHold(g, x) ==
  \A v \in g.V : \A e \in x.rej[v] :
    x.pref[v] = e /\ g.rank[x.suitor[Other(v, e)]] > g.rank[e]

(* A preference is known to the other end, or will be. *)
PreferencesArrive(g, x) ==
  \A v \in g.V : x.pref[v] # DUMMY =>
    LET e == x.pref[v]
        u == Other(v, e)
    IN \/ x.suitor[u] = e
       \/ e \notin g.internal /\ (e \in x.prop[u] \/ e \in x.acc[u] \/ e \in x.rej[v])

QueuedAreFree(g, x) ==
  \A v \in g.V : IF v \in x.queued THEN x.pref[v] = DUMMY
                 ELSE x.pref[v] # DUMMY \/ x.list[v] = {}

Protocol(g, x) ==
  /\ Typed(g, x) /\ NoneForgotten(g, x) /\ PrefersHeaviest(g, x) /\ SuitorsPropose(g, x)
  /\ SuitorsAreLighter(g, x) /\ ProposalsHold(g, x) /\ AcceptancesHold(g, x)
  /\ RejectionsHold(g, x) /\ PreferencesArrive(g, x) /\ QueuedAreFree(g, x)

(* A suitor is not lighter than the suitor at the other end. *)
LEMMA SuitorsLive ==
  ASSUME NEW g, IsRanked(g), NEW x, Protocol(g, x), NEW w \in g.V, x.suitor[w] # DUMMY,
         NEW z \in x.suitor[w]
  PROVE  g.rank[x.suitor[z]] <= g.rank[x.suitor[w]]
<1> DEFINE e == x.suitor[w]
<1>1. e \in g.edges /\ w \in e /\ g.rank[e] \in Nat /\ (z = w \/ z = Other(w, e)) /\ z \in g.V
  BY DEF Protocol, Typed, IsRanked
<1>2. CASE z = w
  BY <1>1, <1>2
<1>3. CASE z = Other(w, e)
  <2>1. x.pref[z] = e /\ e # DUMMY
    BY <1>3 DEF Protocol, SuitorsPropose
  <2> QED BY <1>1, <2>1 DEF Protocol, SuitorsAreLighter
<1> QED BY <1>1, <1>2, <1>3

(* If all suitors stay or improve, what is dead remains so. *)
Improves(g, x, y) ==
  \A v \in g.V : /\ y.suitor[v] = DUMMY \/ (y.suitor[v] \in g.edges /\ v \in y.suitor[v])
                 /\ \/ y.suitor[v] = x.suitor[v]
                    \/ g.rank[y.suitor[v]] > g.rank[x.suitor[v]]

LEMMA DeadForGood ==
  ASSUME NEW g, IsRanked(g), NEW x, NEW y, Typed(g, x), Improves(g, x, y),
         NEW e \in g.edges, IsDead(g, x, e)
  PROVE  IsDead(g, y, e)
<1>1. PICK w \in e : g.rank[x.suitor[w]] > g.rank[e]
  BY DEF IsDead
<1>2. w \in g.V
  BY DEF IsRanked
<1>3. g.rank[x.suitor[w]] \in Int /\ g.rank[y.suitor[w]] \in Int /\ g.rank[e] \in Int
  BY <1>2 DEF Typed, Improves, IsRanked
<1>4. g.rank[y.suitor[w]] > g.rank[e]
  BY <1>1, <1>2, <1>3 DEF Improves
<1> QED BY <1>4 DEF IsDead

(* v has suitor and preference in the same edge. *)
Mutual(x, v, e) == e # DUMMY /\ x.pref[v] = e /\ x.suitor[v] = e

SameMatches(g, x, y) == \A v \in g.V : \A e : Mutual(y, v, e) <=> Mutual(x, v, e)
----
(* A rejection of e arrives at v. *)
Rejection(g, x, y, v, e) ==
  /\ v \in g.V /\ e \in x.rej[v]
  /\ y.suitor = x.suitor /\ y.list = x.list /\ y.prop = x.prop /\ y.acc = x.acc
  /\ y.queued = x.queued \cup {v}
  /\ \A w \in g.V :
       /\ y.pref[w] = IF w = v THEN DUMMY ELSE x.pref[w]
       /\ y.avail[w] = IF w = v THEN x.avail[w] \ {e} ELSE x.avail[w]
       /\ y.rej[w] = IF w = v THEN x.rej[w] \ {e} ELSE x.rej[w]

LEMMA RejectionStep ==
  ASSUME NEW g, IsRanked(g), NEW x, Protocol(g, x), NEW y, NEW v, NEW e, Rejection(g, x, y, v, e)
  PROVE  Protocol(g, y) /\ SameMatches(g, x, y)
<1> DEFINE u == Other(v, e)
<1>1. /\ v \in g.V /\ e \in g.edges /\ e \notin g.internal /\ v \in e /\ e # DUMMY
      /\ u \in g.V /\ u \in e /\ u # v /\ Other(u, e) = v /\ g.rank[e] \in Nat
  BY DEF Rejection, Protocol, Typed, IsRanked
<1>2. x.pref[v] = e /\ g.rank[x.suitor[u]] > g.rank[e]
  BY <1>1 DEF Rejection, Protocol, RejectionsHold
<1>3. x.suitor[u] # e /\ g.rank[x.suitor[u]] \in Int
  BY <1>1, <1>2 DEF Protocol, Typed, IsRanked
<1>4. x.suitor[v] # e
  <2>1. ASSUME x.suitor[v] = e
        PROVE  g.rank[x.suitor[u]] <= g.rank[e]
    BY <1>1, <2>1, SuitorsLive
  <2> QED BY <1>1, <1>2, <1>3, <2>1
<1>5. Improves(g, x, y)
  BY DEF Rejection, Improves, Protocol, Typed
<1>6. \A f \in g.edges : IsDead(g, x, f) => IsDead(g, y, f)
  BY <1>5, DeadForGood DEF Protocol
<1>7. IsDead(g, y, e)
  BY <1>1, <1>2 DEF IsDead, Rejection
<1> HIDE DEF u
<1>11. Typed(g, y)
  <2> SUFFICES ASSUME NEW w \in g.V
               PROVE  /\ y.pref[w] = DUMMY \/ (y.pref[w] \in g.edges /\ w \in y.pref[w])
                      /\ \A f \in y.avail[w] : f \in y.list[w]
                      /\ \A f \in y.rej[w] : f \in x.rej[w]
    BY DEF Rejection, Protocol, Typed
  <2>1. y.pref[w] = x.pref[w] \/ y.pref[w] = DUMMY
    BY DEF Rejection
  <2>2. y.avail[w] \subseteq x.avail[w] /\ y.list[w] = x.list[w] /\ y.rej[w] \subseteq x.rej[w]
    BY DEF Rejection
  <2>3. /\ x.pref[w] = DUMMY \/ (x.pref[w] \in g.edges /\ w \in x.pref[w])
        /\ \A f \in x.avail[w] : f \in x.list[w]
    BY DEF Protocol, Typed
  <2> QED BY <2>1, <2>2, <2>3
<1>12. NoneForgotten(g, y)
  <2> SUFFICES ASSUME NEW f \in g.edges, NEW w \in f, f # e
               PROVE  f \in y.avail[w] \/ y.pref[w] = f \/ IsDead(g, y, f)
    BY <1>7 DEF NoneForgotten
  <2>1. f \in x.avail[w] \/ x.pref[w] = f \/ IsDead(g, x, f)
    BY DEF Protocol, NoneForgotten
  <2>2. w \in g.V
    BY DEF IsRanked
  <2> QED BY <1>2, <1>6, <2>1, <2>2 DEF Rejection
<1>13. PrefersHeaviest(g, y)
  BY DEF Rejection, Protocol, PrefersHeaviest
<1>14. SuitorsPropose(g, y)
  <2> SUFFICES ASSUME NEW w \in g.V, y.suitor[w] # DUMMY
               PROVE  /\ y.pref[Other(w, y.suitor[w])] = y.suitor[w]
                      /\ y.pref[w] = y.suitor[w] \/ y.suitor[w] \in y.avail[w]
    BY DEF SuitorsPropose
  <2> DEFINE f == x.suitor[w]  z == Other(w, f)
  <2>1. y.suitor[w] = f /\ f \in g.edges /\ w \in f /\ z \in g.V /\ z # w
    BY DEF Rejection, Protocol, Typed, IsRanked
  <2>2. x.pref[z] = f /\ (x.pref[w] = f \/ f \in x.avail[w])
    BY <2>1 DEF Protocol, SuitorsPropose
  <2>3. z # v
    BY <1>1, <1>2, <1>3, <2>1, <2>2 DEF IsRanked, u
  <2>4. w = v => f # e /\ x.pref[w] # f
    BY <1>2, <1>4
  <2> HIDE DEF f, z
  <2> QED BY <2>1, <2>2, <2>3, <2>4 DEF Rejection, z
<1>15. SuitorsAreLighter(g, y)
  BY DEF Rejection, Protocol, SuitorsAreLighter
<1>16. ProposalsHold(g, y)
  <2> SUFFICES ASSUME NEW w \in g.V, NEW f \in x.prop[w]
               PROVE  /\ y.pref[Other(w, f)] = f /\ y.suitor[w] # f
                      /\ f \notin y.acc[w] /\ f \notin y.rej[w] /\ f \notin y.rej[Other(w, f)]
    BY DEF ProposalsHold, Rejection
  <2>1. f \in g.edges /\ w \in f /\ Other(w, f) \in g.V
    BY DEF Protocol, Typed, IsRanked
  <2>2. /\ x.pref[Other(w, f)] = f /\ x.suitor[w] # f
        /\ f \notin x.acc[w] /\ f \notin x.rej[w] /\ f \notin x.rej[Other(w, f)]
    BY <2>1 DEF Protocol, ProposalsHold
  <2>3. Other(w, f) # v
    BY <1>2, <2>2 DEF Rejection
  <2> QED BY <2>1, <2>2, <2>3 DEF Rejection
<1>17. AcceptancesHold(g, y)
  <2> SUFFICES ASSUME NEW w \in g.V, NEW f \in x.acc[w]
               PROVE  /\ y.pref[Other(w, f)] = f /\ y.pref[w] = f
                      /\ y.suitor[Other(w, f)] = f /\ y.suitor[w] # f
                      /\ f \notin y.rej[w]
    BY DEF AcceptancesHold, Rejection
  <2>1. f \in g.edges /\ w \in f /\ Other(w, f) \in g.V
    BY DEF Protocol, Typed, IsRanked
  <2>2. /\ x.pref[Other(w, f)] = f /\ x.pref[w] = f
        /\ x.suitor[Other(w, f)] = f /\ x.suitor[w] # f
        /\ f \notin x.rej[w]
    BY <2>1 DEF Protocol, AcceptancesHold
  <2>3. Other(w, f) # v
    BY <1>2, <1>4, <2>2
  <2>4. w # v
    BY <1>2, <2>2 DEF Rejection
  <2> QED BY <2>1, <2>2, <2>3, <2>4 DEF Rejection
<1>18. RejectionsHold(g, y)
  <2> SUFFICES ASSUME NEW w \in g.V, NEW f \in y.rej[w]
               PROVE  y.pref[w] = f /\ g.rank[y.suitor[Other(w, f)]] > g.rank[f]
    BY DEF RejectionsHold
  <2>1. f \in x.rej[w] /\ (w = v => f # e)
    BY DEF Rejection
  <2>2. x.pref[w] = f /\ g.rank[x.suitor[Other(w, f)]] > g.rank[f]
    BY <2>1 DEF Protocol, RejectionsHold
  <2>3. w # v
    BY <1>2, <2>1, <2>2
  <2> QED BY <2>2, <2>3 DEF Rejection
<1>19. PreferencesArrive(g, y)
  <2> SUFFICES ASSUME NEW w \in g.V, y.pref[w] # DUMMY, NEW f, f = y.pref[w], NEW z, z = Other(w, f)
               PROVE  \/ y.suitor[z] = f
                      \/ f \notin g.internal /\ (f \in y.prop[z] \/ f \in y.acc[z] \/ f \in y.rej[w])
    BY DEF PreferencesArrive
  <2>1. w # v /\ x.pref[w] = f /\ f # DUMMY
    BY DEF Rejection
  <2>2. \/ x.suitor[z] = f
        \/ f \notin g.internal /\ (f \in x.prop[z] \/ f \in x.acc[z] \/ f \in x.rej[w])
    BY <2>1 DEF Protocol, PreferencesArrive
  <2> QED BY <2>1, <2>2 DEF Rejection
<1>20. QueuedAreFree(g, y)
  BY DEF Rejection, Protocol, QueuedAreFree
<1>21. SameMatches(g, x, y)
  BY <1>2, <1>4 DEF Rejection, SameMatches, Mutual
<1> QED
  BY <1>11, <1>12, <1>13, <1>14, <1>15, <1>16, <1>17, <1>18, <1>19, <1>20, <1>21 DEF Protocol
----
(* An internal edge that is lost to v is dead, and nobody's suitor. *)
LostTo(g, x, v, e) ==
  LET u == Other(v, e)
  IN /\ e \in g.internal
     /\ \/ x.list[u] = {} /\ x.suitor[v] # e
        \/ g.rank[x.suitor[u]] > g.rank[e]

LEMMA LostIs ==
  ASSUME NEW g, IsRanked(g), NEW x, Protocol(g, x), NEW v \in g.V,
         NEW e \in x.list[v], LostTo(g, x, v, e), NEW w \in e, e \in x.avail[w]
  PROVE  IsDead(g, x, e) /\ x.suitor[w] # e
<1> DEFINE u == Other(v, e)
<1>1. /\ e \in g.edges /\ v \in e /\ e # DUMMY /\ u \in g.V /\ u \in e /\ u # v /\ w \in g.V
      /\ Other(u, e) = v /\ (w = v \/ w = u) /\ e \in g.internal /\ g.rank[e] \in Nat
  BY DEF Protocol, Typed, IsRanked, LostTo
<1>2. CASE g.rank[x.suitor[u]] > g.rank[e]
  <2>1. IsDead(g, x, e)
    BY <1>1, <1>2 DEF IsDead
  <2>2. ASSUME x.suitor[w] = e
        PROVE  g.rank[x.suitor[u]] <= g.rank[e]
    BY <1>1, <2>2, SuitorsLive
  <2>3. g.rank[x.suitor[u]] \in Int
    BY <1>1 DEF Protocol, Typed, IsRanked
  <2> QED BY <1>1, <1>2, <2>1, <2>2, <2>3
<1>3. CASE x.list[u] = {} /\ x.suitor[v] # e
  <2>1. e \notin x.avail[u]
    BY <1>1, <1>3 DEF Protocol, Typed
  <2>2. x.pref[u] # e
    BY <1>1, <1>3 DEF Protocol, PreferencesArrive
  <2>3. IsDead(g, x, e)
    BY <1>1, <2>1, <2>2 DEF Protocol, NoneForgotten
  <2> QED BY <1>1, <1>3, <2>1, <2>3
<1> QED BY <1>2, <1>3 DEF LostTo
----
(* v is taken from the queue, and has no living edge. *)
Resignation(g, x, y, v) ==
  /\ v \in g.V /\ v \in x.queued
  /\ \A e \in x.avail[v] : LostTo(g, x, v, e)
  /\ y.pref = x.pref /\ y.suitor = x.suitor
  /\ y.prop = x.prop /\ y.acc = x.acc /\ y.rej = x.rej
  /\ y.queued = x.queued \ {v}
  /\ \A w \in g.V :
       /\ y.list[w] = IF w = v THEN {} ELSE x.list[w]
       /\ y.avail[w] \subseteq x.avail[w] /\ y.avail[w] \subseteq y.list[w]
       /\ \A e \in x.avail[w] \ y.avail[w] : e \in x.list[v] /\ LostTo(g, x, v, e)

LEMMA ResignationStep ==
  ASSUME NEW g, IsRanked(g), NEW x, Protocol(g, x), NEW y, NEW v, Resignation(g, x, y, v)
  PROVE  Protocol(g, y) /\ SameMatches(g, x, y)
<1>1. v \in g.V /\ x.pref[v] = DUMMY
  BY DEF Resignation, Protocol, QueuedAreFree
<1>2. \A e \in g.edges : IsDead(g, x, e) <=> IsDead(g, y, e)
  BY DEF IsDead, Resignation
<1>3. ASSUME NEW w \in g.V, NEW e \in x.avail[w], e \notin y.avail[w]
      PROVE  e \in g.edges /\ IsDead(g, y, e) /\ x.suitor[w] # e
  <2>1. e \in x.list[v] /\ LostTo(g, x, v, e)
    BY <1>3 DEF Resignation
  <2>2. w \in e /\ e \in g.edges
    BY DEF Protocol, Typed
  <2>3. IsDead(g, x, e) /\ x.suitor[w] # e
    BY <1>1, <2>1, <2>2, LostIs
  <2> QED BY <1>2, <2>2, <2>3
<1>11. Typed(g, y)
  <2> SUFFICES ASSUME NEW w \in g.V
               PROVE  /\ \A f \in y.avail[w] : f \in y.list[w]
                      /\ \A f \in y.list[w] : f \in x.list[w]
    BY DEF Resignation, Protocol, Typed
  <2> QED BY DEF Resignation, Protocol, Typed
<1>12. NoneForgotten(g, y)
  <2> SUFFICES ASSUME NEW f \in g.edges, NEW w \in f
               PROVE  f \in y.avail[w] \/ y.pref[w] = f \/ IsDead(g, y, f)
    BY DEF NoneForgotten
  <2>1. f \in x.avail[w] \/ x.pref[w] = f \/ IsDead(g, x, f)
    BY DEF Protocol, NoneForgotten
  <2>2. w \in g.V
    BY DEF IsRanked
  <2> QED BY <1>2, <1>3, <2>1, <2>2 DEF Resignation
<1>13. PrefersHeaviest(g, y)
  BY DEF Resignation, Protocol, PrefersHeaviest
<1>14. SuitorsPropose(g, y)
  <2> SUFFICES ASSUME NEW w \in g.V, y.suitor[w] # DUMMY
               PROVE  /\ y.pref[Other(w, y.suitor[w])] = y.suitor[w]
                      /\ y.pref[w] = y.suitor[w] \/ y.suitor[w] \in y.avail[w]
    BY DEF SuitorsPropose
  <2> QED BY <1>3 DEF Resignation, Protocol, SuitorsPropose
<1>15. SuitorsAreLighter(g, y)
  BY DEF Resignation, Protocol, SuitorsAreLighter
<1>16. ProposalsHold(g, y)
  BY DEF Resignation, Protocol, ProposalsHold
<1>17. AcceptancesHold(g, y)
  BY DEF Resignation, Protocol, AcceptancesHold
<1>18. RejectionsHold(g, y)
  BY DEF Resignation, Protocol, RejectionsHold
<1>19. PreferencesArrive(g, y)
  BY DEF Resignation, Protocol, PreferencesArrive
<1>20. QueuedAreFree(g, y)
  BY DEF Resignation, Protocol, QueuedAreFree
<1>21. SameMatches(g, x, y)
  BY DEF Resignation, SameMatches, Mutual
<1> QED
  BY <1>11, <1>12, <1>13, <1>14, <1>15, <1>16, <1>17, <1>18, <1>19, <1>20, <1>21 DEF Protocol
----
(* A proposal of e arrives at v, which has a heavier suitor. *)
Refusal(g, x, y, v, e) ==
  /\ v \in g.V /\ e \in x.prop[v] /\ ~ (g.rank[e] > g.rank[x.suitor[v]])
  /\ y.pref = x.pref /\ y.suitor = x.suitor /\ y.list = x.list
  /\ y.acc = x.acc /\ y.queued = x.queued
  /\ \A w \in g.V :
       /\ y.avail[w] = IF w = v THEN x.avail[w] \ {e} ELSE x.avail[w]
       /\ y.prop[w] = IF w = v THEN x.prop[w] \ {e} ELSE x.prop[w]
       /\ y.rej[w] = IF w = Other(v, e) THEN x.rej[w] \cup {e} ELSE x.rej[w]

LEMMA RefusalStep ==
  ASSUME NEW g, IsRanked(g), NEW x, Protocol(g, x), NEW y, NEW v, NEW e, Refusal(g, x, y, v, e)
  PROVE  /\ Protocol(g, y) /\ SameMatches(g, x, y) /\ x.pref[v] # e
<1> DEFINE u == Other(v, e)
<1>1. /\ v \in g.V /\ e \in g.edges /\ e \notin g.internal /\ v \in e /\ e # DUMMY
      /\ u \in g.V /\ u \in e /\ u # v /\ Other(u, e) = v /\ g.rank[e] \in Nat
  BY DEF Refusal, Protocol, Typed, IsRanked
<1>2. /\ x.pref[u] = e /\ x.suitor[v] # e
      /\ e \notin x.acc[v] /\ e \notin x.rej[v] /\ e \notin x.rej[u]
  BY <1>1 DEF Refusal, Protocol, ProposalsHold
<1>3. g.rank[x.suitor[v]] \in Int /\ g.rank[x.suitor[v]] > g.rank[e]
  <2>1. x.suitor[v] = DUMMY \/ (x.suitor[v] \in g.edges /\ v \in x.suitor[v])
    BY <1>1 DEF Protocol, Typed
  <2>2. g.rank[x.suitor[v]] \in Int /\ g.rank[x.suitor[v]] # g.rank[e]
    BY <1>1, <1>2, <2>1 DEF IsRanked
  <2> QED BY <1>1, <2>2 DEF Refusal
<1>4. x.pref[v] # e
  BY <1>1, <1>3 DEF Protocol, SuitorsAreLighter
<1>5. e \notin x.acc[u]
  BY <1>1, <1>4 DEF Protocol, AcceptancesHold
<1>6. \A f \in g.edges : IsDead(g, x, f) <=> IsDead(g, y, f)
  BY DEF IsDead, Refusal
<1>7. IsDead(g, y, e)
  BY <1>1, <1>3 DEF IsDead, Refusal
<1>8. e \notin x.prop[u]
  BY <1>1, <1>4 DEF Protocol, ProposalsHold
<1> HIDE DEF u
<1>9. \A w \in g.V : y.rej[w] = IF w = u THEN x.rej[w] \cup {e} ELSE x.rej[w]
  BY DEF Refusal, u
<1>11. Typed(g, y)
  <2> SUFFICES ASSUME NEW w \in g.V
               PROVE  /\ \A f \in y.avail[w] : f \in x.avail[w]
                      /\ \A f \in y.prop[w] : f \in x.prop[w]
                      /\ \A f \in y.rej[w] : f \in x.rej[w] \/ (f = e /\ w = u)
    BY <1>1 DEF Refusal, Protocol, Typed
  <2> QED BY <1>9 DEF Refusal
<1>12. NoneForgotten(g, y)
  <2> SUFFICES ASSUME NEW f \in g.edges, NEW w \in f, f # e
               PROVE  f \in y.avail[w] \/ y.pref[w] = f \/ IsDead(g, y, f)
    BY <1>7 DEF NoneForgotten
  <2>1. f \in x.avail[w] \/ x.pref[w] = f \/ IsDead(g, x, f)
    BY DEF Protocol, NoneForgotten
  <2>2. w \in g.V
    BY DEF IsRanked
  <2> QED BY <1>6, <2>1, <2>2 DEF Refusal
<1>13. PrefersHeaviest(g, y)
  BY DEF Refusal, Protocol, PrefersHeaviest
<1>14. SuitorsPropose(g, y)
  <2> SUFFICES ASSUME NEW w \in g.V, y.suitor[w] # DUMMY
               PROVE  /\ y.pref[Other(w, y.suitor[w])] = y.suitor[w]
                      /\ y.pref[w] = y.suitor[w] \/ y.suitor[w] \in y.avail[w]
    BY DEF SuitorsPropose
  <2>1. /\ x.pref[Other(w, x.suitor[w])] = x.suitor[w]
        /\ x.pref[w] = x.suitor[w] \/ x.suitor[w] \in x.avail[w]
    BY DEF Refusal, Protocol, SuitorsPropose
  <2> QED BY <1>2, <2>1 DEF Refusal
<1>15. SuitorsAreLighter(g, y)
  BY DEF Refusal, Protocol, SuitorsAreLighter
<1>16. ProposalsHold(g, y)
  <2> SUFFICES ASSUME NEW w \in g.V, NEW f \in y.prop[w]
               PROVE  /\ x.pref[Other(w, f)] = f /\ x.suitor[w] # f
                      /\ f \notin x.acc[w] /\ f \notin y.rej[w] /\ f \notin y.rej[Other(w, f)]
    BY DEF ProposalsHold, Refusal
  <2>0. f \in x.prop[w] /\ (w = v => f # e)
    BY DEF Refusal
  <2>1. f \in g.edges /\ w \in f /\ Other(w, f) \in g.V
    BY <2>0 DEF Protocol, Typed, IsRanked
  <2>2. /\ x.pref[Other(w, f)] = f /\ x.suitor[w] # f
        /\ f \notin x.acc[w] /\ f \notin x.rej[w] /\ f \notin x.rej[Other(w, f)]
    BY <2>0, <2>1 DEF Protocol, ProposalsHold
  <2>3. f # e
    BY <1>1, <1>8, <2>0, <2>1 DEF IsRanked, u
  <2> QED BY <2>1, <2>2, <2>3, <1>9
<1>17. AcceptancesHold(g, y)
  <2> SUFFICES ASSUME NEW w \in g.V, NEW f \in x.acc[w]
               PROVE  /\ x.pref[Other(w, f)] = f /\ x.pref[w] = f
                      /\ x.suitor[Other(w, f)] = f /\ x.suitor[w] # f
                      /\ f \notin y.rej[w]
    BY DEF AcceptancesHold, Refusal
  <2>2. /\ x.pref[Other(w, f)] = f /\ x.pref[w] = f
        /\ x.suitor[Other(w, f)] = f /\ x.suitor[w] # f
        /\ f \notin x.rej[w]
    BY DEF Protocol, AcceptancesHold
  <2> QED BY <2>2, <1>5, <1>9
<1>18. RejectionsHold(g, y)
  <2> SUFFICES ASSUME NEW w \in g.V, NEW f \in y.rej[w]
               PROVE  x.pref[w] = f /\ g.rank[x.suitor[Other(w, f)]] > g.rank[f]
    BY DEF RejectionsHold, Refusal
  <2>1. f \in x.rej[w] \/ (f = e /\ w = u)
    BY <1>9
  <2>2. CASE f \in x.rej[w]
    BY <2>2 DEF Protocol, RejectionsHold
  <2>3. CASE f = e /\ w = u
    BY <1>1, <1>2, <1>3, <2>3 DEF u
  <2> QED BY <2>1, <2>2, <2>3
<1>19. PreferencesArrive(g, y)
  <2> SUFFICES ASSUME NEW w \in g.V, x.pref[w] # DUMMY, NEW f, f = x.pref[w], NEW z, z = Other(w, f)
               PROVE  \/ x.suitor[z] = f
                      \/ f \notin g.internal /\ (f \in y.prop[z] \/ f \in x.acc[z] \/ f \in y.rej[w])
    BY DEF PreferencesArrive, Refusal
  <2>1. \/ x.suitor[z] = f
        \/ f \notin g.internal /\ (f \in x.prop[z] \/ f \in x.acc[z] \/ f \in x.rej[w])
    BY DEF Protocol, PreferencesArrive
  <2>2. z \in g.V /\ f \in g.edges /\ w \in f /\ Other(z, f) = w
    BY DEF Protocol, Typed, IsRanked
  <2>3. ASSUME f = e, z = v
        PROVE  w = u
    BY <2>2, <2>3 DEF u
  <2> QED BY <1>1, <1>9, <2>1, <2>2, <2>3 DEF Refusal
<1>20. QueuedAreFree(g, y)
  BY DEF Refusal, Protocol, QueuedAreFree
<1>21. SameMatches(g, x, y)
  BY DEF Refusal, SameMatches, Mutual
<1> QED
  BY <1>4, <1>11, <1>12, <1>13, <1>14, <1>15, <1>16, <1>17, <1>18, <1>19, <1>20, <1>21 DEF Protocol
----
AddsMatches(g, x, y, e, W) ==
  \A v \in g.V : \A f : Mutual(y, v, f) <=> Mutual(x, v, f) \/ (f = e /\ v \in W)

(* old was the suitor of v; if it is internal, o is queued again, else it
   is told. *)
Requeued(g, old) == old # DUMMY /\ old \in g.internal

Told(g, old) == old # DUMMY /\ old \notin g.internal

(* An edge proposed or accepted is available to v, unless v prefers it. *)
LEMMA ProposedIs ==
  ASSUME NEW g, IsRanked(g), NEW x, Protocol(g, x), NEW v \in g.V, NEW e \in g.edges, v \in e,
         g.rank[x.suitor[Other(v, e)]] <= g.rank[e], g.rank[e] > g.rank[x.suitor[v]]
  PROVE  /\ e \in x.avail[v] \/ x.pref[v] = e
         /\ x.pref[v] # DUMMY => g.rank[e] <= g.rank[x.pref[v]]
         /\ x.suitor[v] # DUMMY => x.pref[v] # x.suitor[v]
<1> DEFINE u == Other(v, e)
<1>1. /\ e # DUMMY /\ u \in g.V /\ u \in e /\ u # v /\ Other(u, e) = v /\ g.rank[e] \in Nat
      /\ \A w \in e : w = v \/ w = u
  BY DEF IsRanked
<1>2. g.rank[x.suitor[u]] <= g.rank[e]
  OBVIOUS
<1>3. g.rank[x.suitor[u]] \in Int /\ g.rank[x.suitor[v]] \in Int
  BY <1>1 DEF Protocol, Typed, IsRanked
<1>4. ~ IsDead(g, x, e)
  BY <1>1, <1>2, <1>3 DEF IsDead
<1>5. e \in x.avail[v] \/ x.pref[v] = e
  BY <1>4 DEF Protocol, NoneForgotten
<1>6. ASSUME x.pref[v] # DUMMY
      PROVE  g.rank[e] <= g.rank[x.pref[v]]
  <2>1. CASE e \in x.avail[v]
    <3>1. e \in x.list[v]
      BY <2>1 DEF Protocol, Typed
    <3>2. g.rank[e] < g.rank[x.pref[v]]
      BY <1>6, <3>1 DEF Protocol, PrefersHeaviest
    <3>3. g.rank[x.pref[v]] \in Int
      BY <1>6 DEF Protocol, Typed, IsRanked
    <3> QED BY <1>1, <3>2, <3>3
  <2>2. CASE x.pref[v] = e
    BY <1>1, <2>2
  <2> QED BY <1>5, <2>1, <2>2
<1>7. x.suitor[v] # DUMMY => x.pref[v] # x.suitor[v]
  BY <1>1, <1>3, <1>6
<1> QED BY <1>5, <1>6, <1>7

(* e arrives at v, proposed or accepted, and displaces the suitor. *)
Winning(g, x, y, v, e) ==
  LET old == x.suitor[v]
      o == Other(v, old)
  IN /\ v \in g.V /\ (e \in x.prop[v] \/ e \in x.acc[v]) /\ g.rank[e] > g.rank[old]
     /\ y.queued = IF Requeued(g, old) THEN x.queued \cup {o} ELSE x.queued
     /\ \A w \in g.V :
          /\ y.suitor[w] = IF w = v THEN e ELSE x.suitor[w]
          /\ y.pref[w] = IF Requeued(g, old) /\ w = o THEN DUMMY ELSE x.pref[w]
          /\ y.list[w] = IF w = v /\ x.pref[v] = e THEN {} ELSE x.list[w]
          /\ y.avail[w] = IF w = v \/ Requeued(g, old) THEN (x.avail[w] \cap y.list[w]) \ {old}
                          ELSE x.avail[w]
          /\ y.prop[w] = IF w = v THEN x.prop[w] \ {e} ELSE x.prop[w]
          /\ y.acc[w] = IF w = v THEN x.acc[w] \ {e} ELSE x.acc[w]
          /\ y.rej[w] = IF Told(g, old) /\ w = o THEN x.rej[w] \cup {old} ELSE x.rej[w]

LEMMA WinningStep ==
  ASSUME NEW g, IsRanked(g), NEW x, Protocol(g, x), NEW y, NEW v, NEW e, Winning(g, x, y, v, e)
  PROVE  /\ Protocol(g, y) /\ AddsMatches(g, x, y, e, {w \in {v} : x.pref[w] = e})
         /\ Improves(g, x, y) /\ x.suitor[v] # e
<1> DEFINE u == Other(v, e)
           old == x.suitor[v]
           o == Other(v, old)
<1>1. /\ v \in g.V /\ e \in g.edges /\ e \notin g.internal /\ v \in e /\ e # DUMMY
      /\ u \in g.V /\ u \in e /\ u # v /\ Other(u, e) = v /\ g.rank[e] \in Nat
  BY DEF Winning, Protocol, Typed, IsRanked
<1>2. x.pref[u] = e
  BY <1>1 DEF Winning, Protocol, ProposalsHold, AcceptancesHold
<1>3. g.rank[e] > g.rank[old] /\ g.rank[old] \in Int /\ e # old
  BY <1>1 DEF Winning, Protocol, Typed, IsRanked
<1>4. /\ e \in x.avail[v] \/ x.pref[v] = e
      /\ x.pref[v] # DUMMY => g.rank[e] <= g.rank[x.pref[v]]
      /\ old # DUMMY => x.pref[v] # old
  <2>1. g.rank[x.suitor[u]] <= g.rank[e]
    BY <1>1, <1>2 DEF Protocol, SuitorsAreLighter
  <2> QED BY <1>1, <1>3, <2>1, ProposedIs
<1>5. ASSUME old # DUMMY
      PROVE  /\ old \in g.edges /\ v \in old /\ o \in g.V /\ o \in old /\ o # v /\ o # u
             /\ Other(o, old) = v /\ x.pref[o] = old /\ x.suitor[o] # old
             /\ \A w \in old : w = v \/ w = o
             /\ g.rank[old] \in Nat
  <2>1. /\ old \in g.edges /\ v \in old /\ o \in g.V /\ o \in old /\ o # v /\ Other(o, old) = v
        /\ \A w \in old : w = v \/ w = o
        /\ g.rank[old] \in Nat
    BY <1>1, <1>5 DEF Protocol, Typed, IsRanked
  <2>2. x.pref[o] = old
    BY <1>1, <1>5 DEF Protocol, SuitorsPropose
  <2>3. x.suitor[o] = old => x.pref[v] = old
    BY <1>5, <2>1 DEF Protocol, SuitorsPropose
  <2> QED BY <1>2, <1>3, <1>4, <1>5, <2>1, <2>2, <2>3
<1> HIDE DEF u, old, o
<1>6. /\ y.queued = IF Requeued(g, old) THEN x.queued \cup {o} ELSE x.queued
      /\ \A w \in g.V :
           /\ y.suitor[w] = IF w = v THEN e ELSE x.suitor[w]
           /\ y.pref[w] = IF Requeued(g, old) /\ w = o THEN DUMMY ELSE x.pref[w]
           /\ y.list[w] = IF w = v /\ x.pref[v] = e THEN {} ELSE x.list[w]
           /\ y.avail[w] = IF w = v \/ Requeued(g, old) THEN (x.avail[w] \cap y.list[w]) \ {old}
                           ELSE x.avail[w]
           /\ y.prop[w] = IF w = v THEN x.prop[w] \ {e} ELSE x.prop[w]
           /\ y.acc[w] = IF w = v THEN x.acc[w] \ {e} ELSE x.acc[w]
           /\ y.rej[w] = IF Told(g, old) /\ w = o THEN x.rej[w] \cup {old} ELSE x.rej[w]
  BY DEF Winning, old, o
<1>7. x.suitor[v] = old /\ u = Other(v, e) /\ o = Other(v, old)
  BY DEF old, u, o
<1>8. Improves(g, x, y)
  <2> SUFFICES ASSUME NEW w \in g.V
               PROVE  /\ y.suitor[w] = DUMMY \/ (y.suitor[w] \in g.edges /\ w \in y.suitor[w])
                      /\ \/ y.suitor[w] = x.suitor[w]
                         \/ g.rank[y.suitor[w]] > g.rank[x.suitor[w]]
    BY DEF Improves
  <2>1. CASE w = v
    BY <1>1, <1>3, <1>6, <1>7, <2>1
  <2>2. CASE w # v
    BY <1>6, <2>2 DEF Protocol, Typed
  <2> QED BY <2>1, <2>2
<1>9. \A f \in g.edges : IsDead(g, x, f) => IsDead(g, y, f)
  BY <1>8, DeadForGood DEF Protocol
<1>10. \A f \in g.edges : v \in f /\ g.rank[f] < g.rank[e] => IsDead(g, y, f)
  <2> TAKE f \in g.edges
  <2>1. y.suitor[v] = e
    BY <1>1, <1>6
  <2>2. g.rank[f] \in Int
    BY DEF IsRanked
  <2> QED BY <1>1, <2>1, <2>2 DEF IsDead
<1>11. Typed(g, y)
  <2>0. \A w \in g.V : y.suitor[w] = DUMMY \/ (y.suitor[w] \in g.edges /\ w \in y.suitor[w])
    BY <1>8 DEF Improves
  <2> SUFFICES ASSUME NEW w \in g.V
               PROVE  /\ y.pref[w] = DUMMY \/ y.pref[w] = x.pref[w]
                      /\ \A f \in y.list[w] : f \in x.list[w]
                      /\ \A f \in y.avail[w] : f \in y.list[w]
                      /\ \A f \in y.prop[w] : f \in x.prop[w]
                      /\ \A f \in y.acc[w] : f \in x.acc[w]
                      /\ \A f \in y.rej[w] : f \in x.rej[w] \/ (Told(g, old) /\ f = old /\ w = o)
    BY <1>5, <2>0 DEF Protocol, Typed, Told
  <2>1. \A f \in x.avail[w] : f \in x.list[w]
    BY DEF Protocol, Typed
  <2> QED BY <1>6, <2>1
<1>12. NoneForgotten(g, y)
  <2> SUFFICES ASSUME NEW f \in g.edges, NEW w \in f
               PROVE  f \in y.avail[w] \/ y.pref[w] = f \/ IsDead(g, y, f)
    BY DEF NoneForgotten
  <2>1. f \in x.avail[w] \/ x.pref[w] = f \/ IsDead(g, x, f)
    BY DEF Protocol, NoneForgotten
  <2>2. w \in g.V /\ f # DUMMY
    BY DEF IsRanked
  <2>3. CASE f = old
    BY <1>3, <1>5, <1>10, <2>2, <2>3
  <2>4. CASE f # old /\ f \in x.avail[w]
    <3>0. f \in x.list[w]
      BY <2>2, <2>4 DEF Protocol, Typed
    <3>1. CASE w = v /\ x.pref[v] = e
      <4>1. g.rank[f] < g.rank[e]
        BY <1>1, <3>0, <3>1 DEF Protocol, PrefersHeaviest
      <4> QED BY <1>10, <3>1, <4>1
    <3>2. CASE ~ (w = v /\ x.pref[v] = e)
      BY <1>6, <2>2, <2>4, <3>0, <3>2
    <3> QED BY <3>1, <3>2
  <2>5. CASE f # old /\ x.pref[w] = f
    BY <1>5, <1>6, <2>2, <2>5 DEF Requeued
  <2> QED BY <1>9, <2>1, <2>3, <2>4, <2>5
<1>13. PrefersHeaviest(g, y)
  <2> SUFFICES ASSUME NEW w \in g.V, y.pref[w] # DUMMY, NEW f \in y.list[w]
               PROVE  g.rank[f] < g.rank[y.pref[w]]
    BY DEF PrefersHeaviest
  <2>1. y.pref[w] = x.pref[w] /\ f \in x.list[w]
    BY <1>6
  <2> QED BY <2>1 DEF Protocol, PrefersHeaviest
<1>14. SuitorsPropose(g, y)
  <2> SUFFICES ASSUME NEW w \in g.V, y.suitor[w] # DUMMY, NEW f, f = y.suitor[w], NEW z, z = Other(w, f)
               PROVE  y.pref[z] = f /\ (y.pref[w] = f \/ f \in y.avail[w])
    BY DEF SuitorsPropose
  <2>1. CASE w = v
    <3>1. f = e /\ z = u
      BY <1>6, <1>7, <2>1
    <3>2. Requeued(g, old) => o # u /\ o # v
      BY <1>5 DEF Requeued
    <3>3. y.pref[u] = e
      BY <1>1, <1>2, <1>6, <3>2
    <3>4. x.pref[v] = e => y.pref[v] = e
      BY <1>1, <1>6, <3>2
    <3>5. x.pref[v] # e => e \in y.avail[v]
      <4> SUFFICES ASSUME x.pref[v] # e
                   PROVE  e \in y.avail[v]
        OBVIOUS
      <4>1. e \in x.avail[v] /\ e \in x.list[v]
        BY <1>1, <1>4 DEF Protocol, Typed
      <4> QED BY <1>1, <1>3, <1>6, <4>1
    <3> QED BY <2>1, <3>1, <3>3, <3>4, <3>5
  <2>2. CASE w # v
    <3>0. f = x.suitor[w]
      BY <1>6, <2>2
    <3>1. f = x.suitor[w] /\ f \in g.edges /\ w \in f /\ z \in g.V /\ z \in f /\ Other(z, f) = w
      BY <3>0 DEF Protocol, Typed, IsRanked
    <3>2. x.pref[z] = f /\ (x.pref[w] = f \/ f \in x.avail[w])
      BY <3>1 DEF Protocol, SuitorsPropose
    <3>3. Requeued(g, old) => f # old
      BY <1>5, <2>2, <3>1 DEF Requeued
    <3>4. Requeued(g, old) => x.pref[o] = old
      BY <1>5 DEF Requeued
    <3>5. y.pref[z] = f
      BY <1>6, <3>1, <3>2, <3>3, <3>4
    <3>6. x.pref[w] = f => y.pref[w] = f
      BY <1>6, <3>3, <3>4
    <3>7. f \in x.avail[w] => f \in y.avail[w]
      <4>1. f \in x.avail[w] => f \in x.list[w]
        BY DEF Protocol, Typed
      <4> QED BY <1>6, <2>2, <3>3, <4>1
    <3> QED BY <3>2, <3>5, <3>6, <3>7
  <2> QED BY <2>1, <2>2
<1>15. SuitorsAreLighter(g, y)
  <2> SUFFICES ASSUME NEW w \in g.V, y.pref[w] # DUMMY
               PROVE  g.rank[y.suitor[w]] <= g.rank[y.pref[w]]
    BY DEF SuitorsAreLighter
  <2>1. y.pref[w] = x.pref[w]
    BY <1>6
  <2>2. CASE w = v
    BY <1>4, <1>6, <2>1, <2>2
  <2>3. CASE w # v
    BY <1>6, <2>1, <2>3 DEF Protocol, SuitorsAreLighter
  <2> QED BY <2>2, <2>3
<1>16. ProposalsHold(g, y)
  <2> SUFFICES ASSUME NEW w \in g.V, NEW f \in y.prop[w], NEW z, z = Other(w, f)
               PROVE  /\ y.pref[z] = f /\ y.suitor[w] # f
                      /\ f \notin y.acc[w] /\ f \notin y.rej[w] /\ f \notin y.rej[z]
    BY DEF ProposalsHold
  <2>0. f \in x.prop[w] /\ (w = v => f # e)
    BY <1>6
  <2>1. f \in g.edges /\ f \notin g.internal /\ w \in f /\ z \in g.V /\ z \in f /\ Other(z, f) = w
    BY <2>0 DEF Protocol, Typed, IsRanked
  <2>2. /\ x.pref[z] = f /\ x.suitor[w] # f
        /\ f \notin x.acc[w] /\ f \notin x.rej[w] /\ f \notin x.rej[z]
    BY <2>0, <2>1 DEF Protocol, ProposalsHold
  <2>3. y.pref[z] = f
    <3>1. Requeued(g, old) => z # o
      BY <1>5, <2>1, <2>2 DEF Requeued
    <3> QED BY <1>6, <2>1, <2>2, <3>1
  <2>4. y.suitor[w] # f
    BY <1>6, <2>0, <2>2
  <2>5. Told(g, old) => ~ (f = old /\ w = o) /\ ~ (f = old /\ z = o)
    <3> SUFFICES ASSUME Told(g, old), f = old, w = o \/ z = o
                 PROVE  FALSE
      OBVIOUS
    <3>1. CASE w = o
      <4>1. z = v
        BY <1>5, <3>1 DEF Told
      <4> QED BY <1>4, <2>2, <4>1 DEF Told
    <3>2. CASE z = o
      <4>1. w = v
        BY <1>5, <2>1, <3>2 DEF Told
      <4> QED BY <1>7, <2>2, <4>1
    <3> QED BY <3>1, <3>2
  <2>6. f \notin y.acc[w]
    BY <1>6, <2>2
  <2>7. f \notin y.rej[w]
    BY <1>6, <2>2, <2>5, ZenonT(60)
  <2>8. f \notin y.rej[z]
    BY <1>6, <2>1, <2>2, <2>5, ZenonT(60)
  <2> QED BY <2>3, <2>4, <2>6, <2>7, <2>8
<1>17. AcceptancesHold(g, y)
  <2> SUFFICES ASSUME NEW w \in g.V, NEW f \in y.acc[w], NEW z, z = Other(w, f)
               PROVE  /\ y.pref[z] = f /\ y.pref[w] = f
                      /\ y.suitor[z] = f /\ y.suitor[w] # f
                      /\ f \notin y.rej[w]
    BY DEF AcceptancesHold
  <2>0. f \in x.acc[w] /\ (w = v => f # e)
    BY <1>6
  <2>1. f \in g.edges /\ f \notin g.internal /\ w \in f /\ z \in g.V /\ z \in f /\ Other(z, f) = w
        /\ f # DUMMY
    BY <2>0 DEF Protocol, Typed, IsRanked
  <2>2. /\ x.pref[z] = f /\ x.pref[w] = f
        /\ x.suitor[z] = f /\ x.suitor[w] # f
        /\ f \notin x.rej[w]
    BY <2>0, <2>1 DEF Protocol, AcceptancesHold
  <2>3. y.pref[z] = f /\ y.pref[w] = f
    BY <1>5, <1>6, <2>1, <2>2, ZenonT(60) DEF Requeued
  <2>4. y.suitor[w] # f
    BY <1>6, <2>0, <2>2
  <2>5. z # v
    BY <1>4, <1>7, <2>1, <2>2
  <2>6. y.suitor[z] = f
    BY <1>6, <2>1, <2>2, <2>5
  <2>7. Told(g, old) => ~ (f = old /\ w = o)
    BY <1>5, <2>5 DEF Told
  <2> QED BY <1>6, <2>2, <2>3, <2>4, <2>6, <2>7, ZenonT(60)
<1>18. RejectionsHold(g, y)
  <2> SUFFICES ASSUME NEW w \in g.V, NEW f \in y.rej[w], NEW z, z = Other(w, f)
               PROVE  y.pref[w] = f /\ g.rank[y.suitor[z]] > g.rank[f]
    BY DEF RejectionsHold
  <2>1. CASE f \in x.rej[w]
    <3>1. f \in g.edges /\ f \notin g.internal /\ w \in f /\ z \in g.V /\ g.rank[f] \in Nat
      BY <2>1 DEF Protocol, Typed, IsRanked
    <3>2. x.pref[w] = f /\ g.rank[x.suitor[z]] > g.rank[f]
      BY <2>1 DEF Protocol, RejectionsHold
    <3>3. y.pref[w] = f
      BY <1>5, <1>6, <3>1, <3>2 DEF Requeued
    <3>4. g.rank[x.suitor[z]] \in Int
      BY <3>1 DEF Protocol, Typed, IsRanked
    <3>5. g.rank[y.suitor[z]] > g.rank[f]
      <4>1. CASE z = v
        <5>1. y.suitor[z] = e /\ x.suitor[z] = old
          BY <1>1, <1>6, <1>7, <4>1
        <5> QED BY <1>1, <1>3, <3>1, <3>2, <5>1
      <4>2. CASE z # v
        BY <1>6, <3>1, <3>2, <4>2
      <4> QED BY <4>1, <4>2
    <3> QED BY <3>3, <3>5
  <2>2. CASE f \notin x.rej[w]
    <3>1. Told(g, old) /\ w = o /\ f = old
      BY <1>6, <2>2
    <3>2. z = v /\ x.pref[w] = f
      BY <1>5, <3>1 DEF Told
    <3> QED BY <1>1, <1>3, <1>6, <3>1, <3>2 DEF Told, Requeued
  <2> QED BY <2>1, <2>2
<1>19. PreferencesArrive(g, y)
  <2> SUFFICES ASSUME NEW w \in g.V, y.pref[w] # DUMMY, NEW f, f = y.pref[w], NEW z, z = Other(w, f)
               PROVE  \/ y.suitor[z] = f
                      \/ f \notin g.internal /\ (f \in y.prop[z] \/ f \in y.acc[z] \/ f \in y.rej[w])
    BY DEF PreferencesArrive
  <2>0. x.pref[w] = f /\ f # DUMMY
    BY <1>6
  <2>1. \/ x.suitor[z] = f
        \/ f \notin g.internal /\ (f \in x.prop[z] \/ f \in x.acc[z] \/ f \in x.rej[w])
    BY <2>0 DEF Protocol, PreferencesArrive
  <2>2. z \in g.V /\ f \in g.edges /\ w \in f /\ Other(z, f) = w
    BY <2>0 DEF Protocol, Typed, IsRanked
  <2>3. CASE x.suitor[z] = f /\ z = v
    <3>1. f = old /\ w = o /\ f # DUMMY
      BY <1>7, <2>0, <2>2, <2>3
    <3>2. f \notin g.internal
      BY <1>6, <3>1 DEF Requeued
    <3> QED BY <1>6, <3>1, <3>2 DEF Told
  <2>4. CASE x.suitor[z] = f /\ z # v
    BY <1>6, <2>2, <2>4
  <2>5. CASE f \notin g.internal /\ (f \in x.prop[z] \/ f \in x.acc[z] \/ f \in x.rej[w])
    <3>1. CASE z = v /\ f = e
      BY <1>1, <1>6, <3>1
    <3>2. CASE ~ (z = v /\ f = e)
      <4>1. f \in x.prop[z] => f \in y.prop[z]
        BY <1>6, <2>2, <3>2
      <4>2. f \in x.acc[z] => f \in y.acc[z]
        BY <1>6, <2>2, <3>2
      <4>3. f \in x.rej[w] => f \in y.rej[w]
        BY <1>6
      <4> QED BY <2>5, <4>1, <4>2, <4>3
    <3> QED BY <3>1, <3>2
  <2> QED BY <2>1, <2>3, <2>4, <2>5
<1>20. QueuedAreFree(g, y)
  <2> SUFFICES ASSUME NEW w \in g.V
               PROVE  IF w \in y.queued THEN y.pref[w] = DUMMY
                      ELSE y.pref[w] # DUMMY \/ y.list[w] = {}
    BY DEF QueuedAreFree
  <2>1. IF w \in x.queued THEN x.pref[w] = DUMMY ELSE x.pref[w] # DUMMY \/ x.list[w] = {}
    BY DEF Protocol, QueuedAreFree
  <2> QED BY <1>6, <2>1
<1>21. AddsMatches(g, x, y, e, {w \in {v} : x.pref[w] = e})
  <2> SUFFICES ASSUME NEW w \in g.V, NEW f
               PROVE  Mutual(y, w, f) <=> Mutual(x, w, f) \/ (f = e /\ w = v /\ x.pref[v] = e)
    BY DEF AddsMatches
  <2>1. Requeued(g, old) => o # v /\ x.pref[o] = old /\ x.suitor[o] # old
    BY <1>5 DEF Requeued
  <2>2. CASE w = v
    <3>1. y.suitor[w] = e /\ y.pref[w] = x.pref[v]
      BY <1>1, <1>6, <2>1, <2>2
    <3> QED BY <1>1, <1>4, <1>7, <2>2, <3>1 DEF Mutual
  <2>3. CASE w # v
    <3>1. y.suitor[w] = x.suitor[w]
      BY <1>6, <2>3
    <3> QED BY <1>6, <2>1, <2>3, <3>1 DEF Mutual
  <2> QED BY <2>2, <2>3
<1> QED
  BY <1>3, <1>7, <1>8, <1>11, <1>12, <1>13, <1>14, <1>15, <1>16, <1>17, <1>18, <1>19, <1>20, <1>21
  DEF Protocol
----
(* v is taken from the queue and prefers e; R is what its list keeps. *)
Preferring(g, x, v, e, R) ==
  /\ v \in g.V /\ v \in x.queued /\ e \in x.avail[v] /\ ~ LostTo(g, x, v, e)
  /\ \A f \in R : f \in x.list[v] /\ g.rank[f] < g.rank[e]
  /\ \A f \in x.avail[v] : f = e \/ f \in R \/ LostTo(g, x, v, f)

LEMMA PreferringIs ==
  ASSUME NEW g, IsRanked(g), NEW x, Protocol(g, x), NEW v, NEW e, NEW R, Preferring(g, x, v, e, R)
  PROVE  /\ x.pref[v] = DUMMY
         /\ e \in g.edges /\ v \in e /\ e # DUMMY /\ g.rank[e] \in Nat
         /\ g.rank[x.suitor[v]] \in Int /\ g.rank[x.suitor[v]] <= g.rank[e]
<1>1. v \in g.V /\ x.pref[v] = DUMMY
  BY DEF Preferring, Protocol, QueuedAreFree
<1>2. e \in g.edges /\ v \in e /\ e # DUMMY /\ g.rank[e] \in Nat
  BY <1>1 DEF Preferring, Protocol, Typed, IsRanked
<1>3. g.rank[x.suitor[v]] \in Int
  BY <1>1 DEF Protocol, Typed, IsRanked
<1>4. ASSUME x.suitor[v] = DUMMY
      PROVE  g.rank[x.suitor[v]] <= g.rank[e]
  <2>1. g.rank[DUMMY] = -1
    BY DEF IsRanked
  <2> QED BY <1>2, <1>4, <2>1
<1>5. ASSUME x.suitor[v] # DUMMY
      PROVE  g.rank[x.suitor[v]] <= g.rank[e]
  <2> DEFINE f == x.suitor[v]
  <2>1. f \in x.avail[v] /\ v \in f
    BY <1>1, <1>5 DEF Protocol, SuitorsPropose, Typed
  <2>2. ~ LostTo(g, x, v, f)
    <3>1. f \in x.list[v]
      BY <1>1, <2>1 DEF Protocol, Typed
    <3>2. LostTo(g, x, v, f) => x.suitor[v] # f
      BY <1>1, <2>1, <3>1, LostIs
    <3> QED BY <3>2
  <2>3. f = e \/ f \in R
    BY <2>1, <2>2 DEF Preferring
  <2>4. CASE f = e
    BY <1>2, <2>4
  <2>5. CASE f \in R
    <3>1. g.rank[f] < g.rank[e]
      BY <2>5 DEF Preferring
    <3> QED BY <1>2, <1>3, <3>1
  <2> QED BY <2>3, <2>4, <2>5
<1> QED BY <1>1, <1>2, <1>3, <1>4, <1>5

(* The edge is a halo edge: the other end is told. *)
HaloChoice(g, x, y, v, e, R) ==
  LET u == Other(v, e)
      mutual == x.suitor[v] = e
  IN /\ Preferring(g, x, v, e, R) /\ e \notin g.internal
     /\ y.suitor = x.suitor /\ y.rej = x.rej
     /\ y.queued = x.queued \ {v}
     /\ \A w \in g.V :
          /\ y.pref[w] = IF w = v THEN e ELSE x.pref[w]
          /\ y.list[w] = IF w # v THEN x.list[w] ELSE IF mutual THEN {} ELSE R
          /\ y.avail[w] \subseteq x.avail[w] /\ y.avail[w] \subseteq y.list[w]
          /\ \A f \in x.avail[w] \ y.avail[w] :
               \/ f \in x.list[v] /\ LostTo(g, x, v, f)
               \/ w = v /\ (f = e \/ mutual)
          /\ y.prop[w] = IF w = u /\ ~ mutual THEN x.prop[w] \cup {e} ELSE x.prop[w]
          /\ y.acc[w] = IF w = u /\ mutual THEN x.acc[w] \cup {e} ELSE x.acc[w]

LEMMA HaloChoiceStep ==
  ASSUME NEW g, IsRanked(g), NEW x, Protocol(g, x), NEW y, NEW v, NEW e, NEW R,
         HaloChoice(g, x, y, v, e, R)
  PROVE  /\ Protocol(g, y) /\ AddsMatches(g, x, y, e, {w \in {v} : x.suitor[w] = e})
         /\ x.pref[v] # e /\ e \notin x.rej[Other(v, e)] /\ e \notin x.prop[Other(v, e)]
         /\ e \notin x.acc[Other(v, e)]
<1> DEFINE u == Other(v, e)
           mutual == x.suitor[v] = e
<1>1. /\ v \in g.V /\ e \in g.edges /\ e \notin g.internal /\ v \in e /\ e # DUMMY
      /\ g.rank[e] \in Nat /\ x.pref[v] = DUMMY
      /\ g.rank[x.suitor[v]] \in Int /\ g.rank[x.suitor[v]] <= g.rank[e]
  <2>1. Preferring(g, x, v, e, R) /\ v \in g.V /\ e \notin g.internal
    BY DEF HaloChoice, Preferring
  <2> QED BY <2>1, PreferringIs
<1>2. u \in g.V /\ u \in e /\ u # v /\ Other(u, e) = v
  BY <1>1 DEF IsRanked
<1>3. x.suitor[u] # e
  <2>1. x.suitor[u] = e => x.pref[v] = e
    BY <1>1, <1>2 DEF Protocol, SuitorsPropose
  <2> QED BY <1>1, <2>1
<1>4. e \notin x.acc[u]
  BY <1>1, <1>2 DEF Protocol, AcceptancesHold
<1>5. e \notin x.rej[u]
  BY <1>1, <1>2 DEF Protocol, RejectionsHold
<1>6. e \notin x.rej[v]
  BY <1>1, <1>2 DEF Protocol, RejectionsHold
<1>7. e \notin x.prop[u]
  BY <1>1, <1>2 DEF Protocol, ProposalsHold
<1>8. mutual => x.pref[u] = e
  BY <1>1, <1>2 DEF Protocol, SuitorsPropose
<1> HIDE DEF u, mutual
<1>9. /\ y.queued = x.queued \ {v}
      /\ \A w \in g.V : y.pref[w] = IF w = v THEN e ELSE x.pref[w]
      /\ \A w \in g.V : w # v => y.list[w] = x.list[w]
      /\ y.list[v] = IF mutual THEN {} ELSE R
  BY <1>1 DEF HaloChoice, mutual
<1>a. \A w \in g.V :
        /\ \A f \in y.avail[w] : f \in x.avail[w] /\ f \in y.list[w]
        /\ \A f \in x.avail[w] : f \notin y.avail[w] =>
             \/ f \in x.list[v] /\ LostTo(g, x, v, f)
             \/ w = v /\ (f = e \/ mutual)
  BY DEF HaloChoice, mutual
<1>p. /\ \A w \in g.V : \A f : f \in y.prop[w] <=> f \in x.prop[w] \/ (w = u /\ ~ mutual /\ f = e)
      /\ \A w \in g.V : \A f : f \in y.acc[w] <=> f \in x.acc[w] \/ (w = u /\ mutual /\ f = e)
  <2>1. \A w \in g.V :
          /\ y.prop[w] = IF w = u /\ ~ mutual THEN x.prop[w] \cup {e} ELSE x.prop[w]
          /\ y.acc[w] = IF w = u /\ mutual THEN x.acc[w] \cup {e} ELSE x.acc[w]
    BY DEF HaloChoice, mutual, u
  <2> HIDE DEF mutual
  <2> QED BY <2>1
<1>10. y.suitor = x.suitor /\ y.rej = x.rej
  BY DEF HaloChoice
<1>f. \A f \in R : f \in x.list[v] /\ g.rank[f] < g.rank[e]
  BY DEF HaloChoice, Preferring
<1>g. \A f \in x.avail[v] : f = e \/ f \in R \/ LostTo(g, x, v, f)
  BY DEF HaloChoice, Preferring
<1>d. \A f \in g.edges : IsDead(g, x, f) <=> IsDead(g, y, f)
  BY <1>10 DEF IsDead
<1>l. \A f \in x.list[v] : LostTo(g, x, v, f) =>
        \A w \in g.V : f \in x.avail[w] => IsDead(g, y, f) /\ x.suitor[w] # f
  <2> TAKE f \in x.list[v]
  <2> SUFFICES ASSUME LostTo(g, x, v, f), NEW w \in g.V, f \in x.avail[w]
               PROVE  IsDead(g, y, f) /\ x.suitor[w] # f
    OBVIOUS
  <2>1. w \in f /\ f \in g.edges
    BY DEF Protocol, Typed
  <2>2. IsDead(g, x, f) /\ x.suitor[w] # f
    BY <1>1, <2>1, LostIs
  <2> QED BY <1>d, <2>1, <2>2
<1>t. \A w \in g.V : \A f \in x.avail[w] : f \in x.list[w]
  BY DEF Protocol, Typed
<1>11. Typed(g, y)
  <2> SUFFICES ASSUME NEW w \in g.V
               PROVE  /\ y.pref[w] = x.pref[w] \/ (y.pref[w] = e /\ w = v)
                      /\ \A f \in y.list[w] : f \in x.list[w]
                      /\ \A f \in y.avail[w] : f \in y.list[w]
                      /\ \A f \in y.prop[w] : f \in x.prop[w] \/ (f = e /\ w = u)
                      /\ \A f \in y.acc[w] : f \in x.acc[w] \/ (f = e /\ w = u)
    BY <1>1, <1>2, <1>10 DEF Protocol, Typed
  <2>1. \A f \in y.list[w] : f \in x.list[w]
    BY <1>9, <1>f
  <2>2. y.pref[w] = x.pref[w] \/ (y.pref[w] = e /\ w = v)
    BY <1>9
  <2>3. /\ \A f \in y.avail[w] : f \in y.list[w]
        /\ \A f \in y.prop[w] : f \in x.prop[w] \/ (f = e /\ w = u)
        /\ \A f \in y.acc[w] : f \in x.acc[w] \/ (f = e /\ w = u)
    BY <1>a, <1>p
  <2> QED BY <2>1, <2>2, <2>3
<1>12. NoneForgotten(g, y)
  <2> SUFFICES ASSUME NEW f \in g.edges, NEW w \in f
               PROVE  f \in y.avail[w] \/ y.pref[w] = f \/ IsDead(g, y, f)
    BY DEF NoneForgotten
  <2>1. f \in x.avail[w] \/ x.pref[w] = f \/ IsDead(g, x, f)
    BY DEF Protocol, NoneForgotten
  <2>2. w \in g.V /\ f # DUMMY
    BY DEF IsRanked
  <2>3. CASE x.pref[w] = f
    BY <1>1, <1>9, <1>a, <1>p, <2>2, <2>3
  <2>4. CASE f \in x.avail[w] /\ f \notin y.avail[w]
    <3>1. CASE f \in x.list[v] /\ LostTo(g, x, v, f)
      BY <1>l, <2>2, <2>4, <3>1
    <3>2. CASE w = v /\ f = e
      BY <1>1, <1>9, <1>a, <1>p, <3>2
    <3>3. CASE w = v /\ mutual /\ f # e
      <4>1. CASE LostTo(g, x, v, f)
        BY <1>l, <1>t, <2>2, <2>4, <3>3, <4>1
      <4>2. CASE f \in R
        <5>1. y.suitor[v] = e /\ g.rank[f] < g.rank[e]
          BY <1>10, <1>f, <3>3, <4>2 DEF mutual
        <5>2. g.rank[f] \in Int
          BY DEF IsRanked
        <5> QED BY <1>1, <3>3, <5>1, <5>2 DEF IsDead
      <4> QED BY <1>g, <2>4, <3>3, <4>1, <4>2
    <3> QED BY <1>9, <1>a, <1>p, <2>2, <2>4, <3>1, <3>2, <3>3
  <2> QED BY <1>d, <2>1, <2>3, <2>4
<1>13. PrefersHeaviest(g, y)
  <2> SUFFICES ASSUME NEW w \in g.V, y.pref[w] # DUMMY, NEW f \in y.list[w]
               PROVE  g.rank[f] < g.rank[y.pref[w]]
    BY DEF PrefersHeaviest
  <2>1. CASE w = v
    BY <1>9, <1>a, <1>p, <1>f, <2>1
  <2>2. CASE w # v
    <3>1. y.pref[w] = x.pref[w] /\ f \in x.list[w]
      BY <1>9, <1>a, <1>p, <2>2
    <3> QED BY <3>1 DEF Protocol, PrefersHeaviest
  <2> QED BY <2>1, <2>2
<1>14. SuitorsPropose(g, y)
  <2> SUFFICES ASSUME NEW w \in g.V, y.suitor[w] # DUMMY, NEW f, f = y.suitor[w], NEW z, z = Other(w, f)
               PROVE  y.pref[z] = f /\ (y.pref[w] = f \/ f \in y.avail[w])
    BY DEF SuitorsPropose
  <2>0. f = x.suitor[w] /\ f # DUMMY
    BY <1>10
  <2>1. f \in g.edges /\ w \in f /\ z \in g.V
    BY <2>0 DEF Protocol, Typed, IsRanked
  <2>2. x.pref[z] = f /\ (x.pref[w] = f \/ f \in x.avail[w])
    BY <2>0 DEF Protocol, SuitorsPropose
  <2>3. y.pref[z] = f
    BY <1>1, <1>9, <1>a, <1>p, <2>0, <2>1, <2>2
  <2>4. x.pref[w] = f => y.pref[w] = f
    BY <1>1, <1>9, <1>a, <1>p, <2>0
  <2>5. ASSUME f \in x.avail[w], f \notin y.avail[w]
        PROVE  y.pref[w] = f
    <3>1. ~ (f \in x.list[v] /\ LostTo(g, x, v, f))
      BY <1>l, <2>0, <2>5
    <3>2. w = v /\ (f = e \/ mutual)
      BY <1>9, <1>a, <1>p, <2>5, <3>1
    <3> QED BY <1>9, <1>a, <1>p, <2>0, <3>2 DEF mutual
  <2> QED BY <2>2, <2>3, <2>4, <2>5
<1>15. SuitorsAreLighter(g, y)
  <2> SUFFICES ASSUME NEW w \in g.V, y.pref[w] # DUMMY
               PROVE  g.rank[y.suitor[w]] <= g.rank[y.pref[w]]
    BY DEF SuitorsAreLighter
  <2>1. CASE w = v
    BY <1>1, <1>9, <1>a, <1>p, <1>10, <2>1
  <2>2. CASE w # v
    BY <1>9, <1>a, <1>p, <1>10, <2>2 DEF Protocol, SuitorsAreLighter
  <2> QED BY <2>1, <2>2
<1>16. ProposalsHold(g, y)
  <2> SUFFICES ASSUME NEW w \in g.V, NEW f \in y.prop[w], NEW z, z = Other(w, f)
               PROVE  /\ y.pref[z] = f /\ x.suitor[w] # f
                      /\ f \notin y.acc[w] /\ f \notin x.rej[w] /\ f \notin x.rej[z]
    BY <1>10 DEF ProposalsHold
  <2>1. CASE f \in x.prop[w]
    <3>1. f \in g.edges /\ w \in f /\ z \in g.V /\ f # DUMMY
      BY <2>1 DEF Protocol, Typed, IsRanked
    <3>2. /\ x.pref[z] = f /\ x.suitor[w] # f
          /\ f \notin x.acc[w] /\ f \notin x.rej[w] /\ f \notin x.rej[z]
      BY <2>1 DEF Protocol, ProposalsHold
    <3>3. y.pref[z] = f
      BY <1>1, <1>9, <1>a, <1>p, <3>1, <3>2
    <3>4. f \notin y.acc[w]
      BY <1>7, <1>9, <1>a, <1>p, <2>1, <3>2
    <3> QED BY <3>2, <3>3, <3>4
  <2>2. CASE f \notin x.prop[w]
    <3>1. w = u /\ ~ mutual /\ f = e
      BY <1>9, <1>a, <1>p, <2>2
    <3>2. z = v
      BY <1>2, <3>1
    <3>3. y.pref[z] = f
      BY <1>1, <1>9, <1>a, <1>p, <3>1, <3>2
    <3>4. f \notin y.acc[w]
      BY <1>2, <1>4, <1>9, <1>a, <1>p, <3>1
    <3> QED BY <1>3, <1>5, <1>6, <3>1, <3>2, <3>3, <3>4
  <2> QED BY <2>1, <2>2
<1>17. AcceptancesHold(g, y)
  <2> SUFFICES ASSUME NEW w \in g.V, NEW f \in y.acc[w], NEW z, z = Other(w, f)
               PROVE  /\ y.pref[z] = f /\ y.pref[w] = f
                      /\ x.suitor[z] = f /\ x.suitor[w] # f
                      /\ f \notin x.rej[w]
    BY <1>10 DEF AcceptancesHold
  <2>1. CASE f \in x.acc[w]
    <3>1. f \in g.edges /\ w \in f /\ z \in g.V /\ f # DUMMY
      BY <2>1 DEF Protocol, Typed, IsRanked
    <3>2. /\ x.pref[z] = f /\ x.pref[w] = f
          /\ x.suitor[z] = f /\ x.suitor[w] # f
          /\ f \notin x.rej[w]
      BY <2>1 DEF Protocol, AcceptancesHold
    <3>3. y.pref[z] = f /\ y.pref[w] = f
      BY <1>1, <1>9, <1>a, <1>p, <3>1, <3>2
    <3> QED BY <3>2, <3>3
  <2>2. CASE f \notin x.acc[w]
    <3>1. w = u /\ mutual /\ f = e
      BY <1>9, <1>a, <1>p, <2>2
    <3>2. z = v
      BY <1>2, <3>1
    <3>3. y.pref[z] = f /\ y.pref[w] = f
      BY <1>1, <1>2, <1>8, <1>9, <1>a, <1>p, <3>1, <3>2
    <3> QED BY <1>3, <1>5, <3>1, <3>2, <3>3 DEF mutual
  <2> QED BY <2>1, <2>2
<1>18. RejectionsHold(g, y)
  <2> SUFFICES ASSUME NEW w \in g.V, NEW f \in x.rej[w]
               PROVE  y.pref[w] = f /\ g.rank[x.suitor[Other(w, f)]] > g.rank[f]
    BY <1>10 DEF RejectionsHold
  <2>1. f # DUMMY
    BY DEF Protocol, Typed, IsRanked
  <2>2. x.pref[w] = f /\ g.rank[x.suitor[Other(w, f)]] > g.rank[f]
    BY DEF Protocol, RejectionsHold
  <2> QED BY <1>1, <1>9, <1>a, <1>p, <2>1, <2>2
<1>19. PreferencesArrive(g, y)
  <2> SUFFICES ASSUME NEW w \in g.V, y.pref[w] # DUMMY, NEW f, f = y.pref[w], NEW z, z = Other(w, f)
               PROVE  \/ x.suitor[z] = f
                      \/ f \notin g.internal /\ (f \in y.prop[z] \/ f \in y.acc[z] \/ f \in x.rej[w])
    BY <1>10 DEF PreferencesArrive
  <2>1. CASE w = v
    <3>1. f = e /\ z = u
      BY <1>9, <1>a, <1>p, <2>1 DEF u
    <3> QED BY <1>1, <1>2, <1>9, <1>a, <1>p, <3>1
  <2>2. CASE w # v
    <3>0. x.pref[w] = f /\ f # DUMMY
      BY <1>9, <1>a, <1>p, <2>2
    <3>1. z \in g.V
      BY <3>0 DEF Protocol, Typed, IsRanked
    <3>2. \/ x.suitor[z] = f
          \/ f \notin g.internal /\ (f \in x.prop[z] \/ f \in x.acc[z] \/ f \in x.rej[w])
      BY <3>0 DEF Protocol, PreferencesArrive
    <3>3. (f \in x.prop[z] => f \in y.prop[z]) /\ (f \in x.acc[z] => f \in y.acc[z])
      BY <1>9, <1>a, <1>p, <3>1
    <3> QED BY <3>2, <3>3
  <2> QED BY <2>1, <2>2
<1>20. QueuedAreFree(g, y)
  <2> SUFFICES ASSUME NEW w \in g.V
               PROVE  IF w \in y.queued THEN y.pref[w] = DUMMY
                      ELSE y.pref[w] # DUMMY \/ y.list[w] = {}
    BY DEF QueuedAreFree
  <2>1. IF w \in x.queued THEN x.pref[w] = DUMMY ELSE x.pref[w] # DUMMY \/ x.list[w] = {}
    BY DEF Protocol, QueuedAreFree
  <2> QED BY <1>1, <1>9, <1>a, <1>p, <2>1
<1>21. AddsMatches(g, x, y, e, {w \in {v} : x.suitor[w] = e})
  <2> SUFFICES ASSUME NEW w \in g.V, NEW f
               PROVE  Mutual(y, w, f) <=> Mutual(x, w, f) \/ (f = e /\ w = v /\ x.suitor[v] = e)
    BY DEF AddsMatches
  <2>1. CASE w = v
    <3>1. y.pref[w] = e
      BY <1>9, <1>a, <1>p, <2>1
    <3> QED BY <1>1, <1>10, <2>1, <3>1 DEF Mutual
  <2>2. CASE w # v
    <3>1. y.pref[w] = x.pref[w]
      BY <1>9, <1>a, <1>p, <2>2
    <3> QED BY <1>10, <2>2, <3>1 DEF Mutual
  <2> QED BY <2>1, <2>2
<1> QED
  BY <1>1, <1>4, <1>5, <1>7, <1>11, <1>12, <1>13, <1>14, <1>15, <1>16, <1>17, <1>18, <1>19, <1>20, <1>21
  DEF Protocol, u

(* The edge is internal: v becomes the suitor of the other end at once,
   which displaces the suitor that end has. *)
InternalChoice(g, x, y, v, e, R) ==
  LET u == Other(v, e)
      mutual == x.suitor[v] = e
      old == x.suitor[u]
      o == Other(u, old)
  IN /\ Preferring(g, x, v, e, R) /\ e \in g.internal
     /\ y.prop = x.prop /\ y.acc = x.acc
     /\ y.queued = (x.queued \ {v}) \cup {w \in {o} : Requeued(g, old)}
     /\ \A w \in g.V :
          /\ y.suitor[w] = IF w = u THEN e ELSE x.suitor[w]
          /\ y.pref[w] = IF Requeued(g, old) /\ w = o THEN DUMMY
                         ELSE IF w = v THEN e ELSE x.pref[w]
          /\ y.list[w] = IF mutual /\ w \in e THEN {} ELSE IF w = v THEN R ELSE x.list[w]
          /\ \A f \in y.avail[w] : f \in x.avail[w] /\ f \in y.list[w]
          /\ \A f \in x.avail[w] : f \notin y.avail[w] =>
               \/ f \in x.list[v] /\ LostTo(g, x, v, f)
               \/ w = v /\ f = e
               \/ mutual /\ w \in e
               \/ f = old
          /\ y.rej[w] = IF Told(g, old) /\ w = o THEN x.rej[w] \cup {old} ELSE x.rej[w]

LEMMA InternalChoiceStep ==
  ASSUME NEW g, IsRanked(g), NEW x, Protocol(g, x), NEW y, NEW v, NEW e, NEW R,
         InternalChoice(g, x, y, v, e, R)
  PROVE  /\ Protocol(g, y) /\ AddsMatches(g, x, y, e, {w \in e : x.suitor[v] = e})
         /\ Improves(g, x, y) /\ \A w \in e : ~ Mutual(x, w, e)
<1> DEFINE u == Other(v, e)
           mutual == x.suitor[v] = e
           old == x.suitor[u]
           o == Other(u, old)
<1>1. /\ v \in g.V /\ e \in g.edges /\ e \in g.internal /\ v \in e /\ e # DUMMY
      /\ g.rank[e] \in Nat /\ x.pref[v] = DUMMY
      /\ g.rank[x.suitor[v]] \in Int /\ g.rank[x.suitor[v]] <= g.rank[e]
  <2>1. Preferring(g, x, v, e, R) /\ v \in g.V /\ e \in g.internal
    BY DEF InternalChoice, Preferring
  <2> QED BY <2>1, PreferringIs
<1>2. u \in g.V /\ u \in e /\ u # v /\ Other(u, e) = v /\ \A w \in e : w = v \/ w = u
  BY <1>1 DEF IsRanked
<1>3. old # e
  <2>1. x.suitor[u] = e => x.pref[v] = e
    BY <1>1, <1>2 DEF Protocol, SuitorsPropose
  <2> QED BY <1>1, <2>1
<1>4. g.rank[old] \in Int /\ g.rank[e] > g.rank[old]
  <2>1. ~ (g.rank[old] > g.rank[e])
    BY <1>1, <1>2 DEF InternalChoice, Preferring, LostTo
  <2>2. old = DUMMY \/ (old \in g.edges /\ u \in old)
    BY <1>2 DEF Protocol, Typed
  <2>3. g.rank[old] \in Int /\ g.rank[old] # g.rank[e]
    BY <1>1, <1>2, <1>3, <2>2 DEF IsRanked
  <2> QED BY <1>1, <2>1, <2>3
<1>5. /\ e \in x.avail[u] \/ x.pref[u] = e
      /\ x.pref[u] # DUMMY => g.rank[e] <= g.rank[x.pref[u]]
      /\ old # DUMMY => x.pref[u] # old
  BY <1>1, <1>2, <1>4, ProposedIs
<1>6. ASSUME old # DUMMY
      PROVE  /\ old \in g.edges /\ u \in old /\ o \in g.V /\ o \in old /\ o # v /\ o # u
             /\ Other(o, old) = u /\ x.pref[o] = old /\ x.suitor[o] # old
             /\ \A w \in old : w = u \/ w = o
             /\ g.rank[old] \in Nat
  <2>1. /\ old \in g.edges /\ u \in old /\ o \in g.V /\ o \in old /\ o # u /\ Other(o, old) = u
        /\ \A w \in old : w = u \/ w = o
        /\ g.rank[old] \in Nat
    BY <1>2, <1>6 DEF Protocol, Typed, IsRanked
  <2>2. x.pref[o] = old
    BY <1>2, <1>6 DEF Protocol, SuitorsPropose
  <2>3. x.suitor[o] = old => x.pref[u] = old
    BY <1>6, <2>1 DEF Protocol, SuitorsPropose
  <2> QED BY <1>1, <1>5, <1>6, <2>1, <2>2, <2>3
<1>7. mutual <=> x.pref[u] = e
  <2>1. mutual => x.pref[u] = e
    BY <1>1, <1>2 DEF Protocol, SuitorsPropose
  <2>2. x.pref[u] = e => mutual
    BY <1>1, <1>2 DEF Protocol, PreferencesArrive
  <2> QED BY <2>1, <2>2
<1> HIDE DEF u, mutual, old, o
<1>8. x.suitor[u] = old /\ u = Other(v, e) /\ o = Other(u, old) /\ (mutual <=> x.suitor[v] = e)
  BY DEF old, u, o, mutual
<1>q. y.prop = x.prop /\ y.acc = x.acc
      /\ y.queued = (x.queued \ {v}) \cup {w \in {o} : Requeued(g, old)}
  BY DEF InternalChoice, old, o, u
<1>9. \A w \in g.V :
        /\ y.suitor[w] = IF w = u THEN e ELSE x.suitor[w]
        /\ y.pref[w] = IF Requeued(g, old) /\ w = o THEN DUMMY
                       ELSE IF w = v THEN e ELSE x.pref[w]
  BY DEF InternalChoice, u, old, o
<1>i. \A w \in g.V :
        y.list[w] = IF mutual /\ w \in e THEN {} ELSE IF w = v THEN R ELSE x.list[w]
  BY DEF InternalChoice, mutual
<1>a. \A w \in g.V :
        /\ \A f \in y.avail[w] : f \in x.avail[w] /\ f \in y.list[w]
        /\ \A f \in x.avail[w] : f \notin y.avail[w] =>
             \/ f \in x.list[v] /\ LostTo(g, x, v, f)
             \/ w = v /\ f = e
             \/ mutual /\ w \in e
             \/ f = old
  BY DEF InternalChoice, mutual, u, old
<1>r. \A w \in g.V : \A f : f \in y.rej[w] <=> f \in x.rej[w] \/ (Told(g, old) /\ w = o /\ f = old)
  <2>1. \A w \in g.V :
          y.rej[w] = IF Told(g, old) /\ w = o THEN x.rej[w] \cup {old} ELSE x.rej[w]
    BY DEF InternalChoice, old, o, u
  <2> QED BY <2>1
<1>f. \A f \in R : f \in x.list[v] /\ g.rank[f] < g.rank[e]
  BY DEF InternalChoice, Preferring
<1>g. (\A f \in x.avail[v] : f = e \/ f \in R \/ LostTo(g, x, v, f)) /\ ~ LostTo(g, x, v, e)
  BY DEF InternalChoice, Preferring
<1>10. Improves(g, x, y)
  <2> SUFFICES ASSUME NEW w \in g.V
               PROVE  /\ y.suitor[w] = DUMMY \/ (y.suitor[w] \in g.edges /\ w \in y.suitor[w])
                      /\ \/ y.suitor[w] = x.suitor[w]
                         \/ g.rank[y.suitor[w]] > g.rank[x.suitor[w]]
    BY DEF Improves
  <2>1. CASE w = u
    <3>1. y.suitor[w] = e /\ x.suitor[w] = old
      BY <1>8, <1>9, <2>1
    <3> QED BY <1>1, <1>2, <1>4, <2>1, <3>1
  <2>2. CASE w # u
    BY <1>9, <2>2 DEF Protocol, Typed
  <2> QED BY <2>1, <2>2
<1>d. \A f \in g.edges : IsDead(g, x, f) => IsDead(g, y, f)
  BY <1>10, DeadForGood DEF Protocol
<1>e. \A f \in g.edges : u \in f /\ g.rank[f] < g.rank[e] => IsDead(g, y, f)
  <2> TAKE f \in g.edges
  <2>1. y.suitor[u] = e
    BY <1>2, <1>9
  <2>2. g.rank[f] \in Int
    BY DEF IsRanked
  <2> QED BY <1>1, <1>2, <2>1, <2>2 DEF IsDead
<1>l. \A f \in x.list[v] : LostTo(g, x, v, f) =>
        \A w \in g.V : f \in x.avail[w] => IsDead(g, y, f) /\ x.suitor[w] # f
  <2> TAKE f \in x.list[v]
  <2> SUFFICES ASSUME LostTo(g, x, v, f), NEW w \in g.V, f \in x.avail[w]
               PROVE  IsDead(g, y, f) /\ x.suitor[w] # f
    OBVIOUS
  <2>1. w \in f /\ f \in g.edges
    BY DEF Protocol, Typed
  <2>2. IsDead(g, x, f) /\ x.suitor[w] # f
    BY <1>1, <2>1, LostIs
  <2> QED BY <1>d, <2>1, <2>2
<1>t. \A w \in g.V : \A f \in x.avail[w] : f \in x.list[w]
  BY DEF Protocol, Typed
<1>v. Requeued(g, old) => o # v /\ o # u /\ x.pref[o] = old
  BY <1>6 DEF Requeued
<1>w. y.pref[v] = e /\ y.pref[u] = x.pref[u] /\ y.suitor[u] = e /\ y.suitor[v] = x.suitor[v]
  BY <1>1, <1>2, <1>9, <1>v
<1>11. Typed(g, y)
  <2>0. \A w \in g.V : y.suitor[w] = DUMMY \/ (y.suitor[w] \in g.edges /\ w \in y.suitor[w])
    BY <1>10 DEF Improves
  <2> SUFFICES ASSUME NEW w \in g.V
               PROVE  /\ y.pref[w] = x.pref[w] \/ y.pref[w] = DUMMY \/ (y.pref[w] = e /\ w = v)
                      /\ \A f \in y.list[w] : f \in x.list[w]
                      /\ \A f \in y.avail[w] : f \in y.list[w]
                      /\ \A f \in y.rej[w] : f \in x.rej[w] \/ (Told(g, old) /\ w = o /\ f = old)
    BY <1>1, <1>6, <1>q, <2>0 DEF Protocol, Typed, Told
  <2>1. \A f \in y.list[w] : f \in x.list[w]
    BY <1>f, <1>i
  <2>2. y.pref[w] = x.pref[w] \/ y.pref[w] = DUMMY \/ (y.pref[w] = e /\ w = v)
    BY <1>9
  <2> QED BY <1>a, <1>r, <2>1, <2>2
<1>12. NoneForgotten(g, y)
  <2> SUFFICES ASSUME NEW f \in g.edges, NEW w \in f
               PROVE  f \in y.avail[w] \/ y.pref[w] = f \/ IsDead(g, y, f)
    BY DEF NoneForgotten
  <2>1. f \in x.avail[w] \/ x.pref[w] = f \/ IsDead(g, x, f)
    BY DEF Protocol, NoneForgotten
  <2>2. w \in g.V /\ f # DUMMY
    BY DEF IsRanked
  <2>3. CASE f = old
    BY <1>4, <1>6, <1>e, <2>2, <2>3
  <2>4. CASE f # old /\ x.pref[w] = f
    BY <1>1, <1>9, <1>v, <2>2, <2>4
  <2>5. CASE f # old /\ f \in x.avail[w] /\ f \notin y.avail[w]
    <3>1. CASE f \in x.list[v] /\ LostTo(g, x, v, f)
      BY <1>l, <2>2, <2>5, <3>1
    <3>2. CASE w = v /\ f = e
      BY <1>w, <3>2
    <3>3. CASE mutual /\ w = v /\ f # e
      <4>1. CASE LostTo(g, x, v, f)
        BY <1>l, <1>t, <2>2, <2>5, <3>3, <4>1
      <4>2. CASE f \in R
        <5>1. y.suitor[v] = e /\ g.rank[f] < g.rank[e]
          BY <1>8, <1>f, <1>w, <3>3, <4>2
        <5>2. g.rank[f] \in Int
          BY DEF IsRanked
        <5> QED BY <1>1, <3>3, <5>1, <5>2 DEF IsDead
      <4> QED BY <1>g, <2>5, <3>3, <4>1, <4>2
    <3>4. CASE mutual /\ w = u
      <4>1. x.pref[u] = e /\ y.pref[u] = e
        BY <1>7, <1>w, <3>4
      <4>2. CASE f = e
        BY <3>4, <4>1, <4>2
      <4>3. CASE f # e
        <5>1. f \in x.list[u]
          BY <1>2, <1>t, <2>5, <3>4
        <5>2. g.rank[f] < g.rank[e]
          BY <1>1, <1>2, <4>1, <5>1 DEF Protocol, PrefersHeaviest
        <5> QED BY <1>e, <3>4, <5>2
      <4> QED BY <4>2, <4>3
    <3> QED BY <1>2, <1>a, <2>2, <2>5, <3>1, <3>2, <3>3, <3>4
  <2> QED BY <1>d, <2>1, <2>3, <2>4, <2>5
<1>13. PrefersHeaviest(g, y)
  <2> SUFFICES ASSUME NEW w \in g.V, y.pref[w] # DUMMY, NEW f \in y.list[w]
               PROVE  g.rank[f] < g.rank[y.pref[w]]
    BY DEF PrefersHeaviest
  <2>1. CASE w = v
    BY <1>f, <1>i, <1>w, <2>1
  <2>2. CASE w # v
    <3>1. y.pref[w] = x.pref[w] /\ f \in x.list[w]
      BY <1>9, <1>i, <2>2
    <3> QED BY <3>1 DEF Protocol, PrefersHeaviest
  <2> QED BY <2>1, <2>2
<1>14. SuitorsPropose(g, y)
  <2> SUFFICES ASSUME NEW w \in g.V, y.suitor[w] # DUMMY, NEW f, f = y.suitor[w], NEW z, z = Other(w, f)
               PROVE  y.pref[z] = f /\ (y.pref[w] = f \/ f \in y.avail[w])
    BY DEF SuitorsPropose
  <2>1. CASE w = u
    <3>1. f = e /\ z = v
      BY <1>2, <1>w, <2>1
    <3>2. ASSUME e \in x.avail[u], e \notin y.avail[u]
          PROVE  x.pref[u] = e
      BY <1>2, <1>3, <1>7, <1>a, <1>g, <3>2
    <3> QED BY <1>5, <1>w, <2>1, <3>1, <3>2
  <2>2. CASE w # u
    <3>0. f = x.suitor[w]
      BY <1>9, <2>2
    <3>1. f # DUMMY /\ f \in g.edges /\ w \in f /\ z \in g.V /\ z \in f /\ Other(z, f) = w
      BY <3>0 DEF Protocol, Typed, IsRanked
    <3>2. x.pref[z] = f /\ (x.pref[w] = f \/ f \in x.avail[w])
      BY <3>0, <3>1 DEF Protocol, SuitorsPropose
    <3>3. f # old
      BY <2>2, <3>0, <3>1, <1>6
    <3>5. y.pref[z] = f
      BY <1>1, <1>9, <1>v, <3>1, <3>2, <3>3
    <3>6. x.pref[w] = f => y.pref[w] = f
      BY <1>1, <1>9, <1>v, <3>1, <3>3
    <3>7. ASSUME f \in x.avail[w], f \notin y.avail[w]
          PROVE  y.pref[w] = f
      <4>1. ~ (f \in x.list[v] /\ LostTo(g, x, v, f))
        BY <1>l, <3>0, <3>7
      <4>2. w = v /\ (f = e \/ mutual)
        BY <1>2, <1>a, <2>2, <3>3, <3>7, <4>1
      <4> QED BY <1>8, <1>w, <3>0, <4>2
    <3> QED BY <3>2, <3>5, <3>6, <3>7
  <2> QED BY <2>1, <2>2
<1>15. SuitorsAreLighter(g, y)
  <2> SUFFICES ASSUME NEW w \in g.V, y.pref[w] # DUMMY
               PROVE  g.rank[y.suitor[w]] <= g.rank[y.pref[w]]
    BY DEF SuitorsAreLighter
  <2>1. CASE w = v
    BY <1>1, <1>w, <2>1
  <2>2. CASE w = u
    BY <1>5, <1>w, <2>2
  <2>3. CASE w # v /\ w # u
    <3>1. y.pref[w] = x.pref[w] /\ y.suitor[w] = x.suitor[w]
      BY <1>9, <2>3
    <3> QED BY <3>1 DEF Protocol, SuitorsAreLighter
  <2> QED BY <2>1, <2>2, <2>3
<1>16. ProposalsHold(g, y)
  <2> SUFFICES ASSUME NEW w \in g.V, NEW f \in x.prop[w], NEW z, z = Other(w, f)
               PROVE  /\ y.pref[z] = f /\ y.suitor[w] # f
                      /\ f \notin x.acc[w] /\ f \notin y.rej[w] /\ f \notin y.rej[z]
    BY <1>q DEF ProposalsHold
  <2>1. f \in g.edges /\ f \notin g.internal /\ w \in f /\ z \in g.V /\ z \in f /\ Other(z, f) = w
        /\ f # DUMMY
    BY DEF Protocol, Typed, IsRanked
  <2>2. /\ x.pref[z] = f /\ x.suitor[w] # f
        /\ f \notin x.acc[w] /\ f \notin x.rej[w] /\ f \notin x.rej[z]
    BY DEF Protocol, ProposalsHold
  <2>3. y.pref[z] = f
    <3>1. Requeued(g, old) => z # o
      BY <1>v, <2>1, <2>2 DEF Requeued
    <3> QED BY <1>1, <1>9, <2>1, <2>2, <3>1
  <2>4. y.suitor[w] # f
    BY <1>1, <1>9, <2>1, <2>2
  <2>5. Told(g, old) => ~ (f = old /\ w = o) /\ ~ (f = old /\ z = o)
    <3> SUFFICES ASSUME Told(g, old), f = old, w = o \/ z = o
                 PROVE  FALSE
      OBVIOUS
    <3>1. CASE w = o
      <4>1. z = u
        BY <1>6, <3>1 DEF Told
      <4> QED BY <1>5, <2>2, <4>1 DEF Told
    <3>2. CASE z = o
      <4>1. w = u
        BY <1>6, <2>1, <3>2 DEF Told
      <4> QED BY <1>8, <2>2, <4>1
    <3> QED BY <3>1, <3>2
  <2> QED BY <1>r, <2>1, <2>2, <2>3, <2>4, <2>5
<1>17. AcceptancesHold(g, y)
  <2> SUFFICES ASSUME NEW w \in g.V, NEW f \in x.acc[w], NEW z, z = Other(w, f)
               PROVE  /\ y.pref[z] = f /\ y.pref[w] = f
                      /\ y.suitor[z] = f /\ y.suitor[w] # f
                      /\ f \notin y.rej[w]
    BY <1>q DEF AcceptancesHold
  <2>1. f \in g.edges /\ f \notin g.internal /\ w \in f /\ z \in g.V /\ z \in f /\ Other(z, f) = w
        /\ f # DUMMY
    BY DEF Protocol, Typed, IsRanked
  <2>2. /\ x.pref[z] = f /\ x.pref[w] = f
        /\ x.suitor[z] = f /\ x.suitor[w] # f
        /\ f \notin x.rej[w]
    BY DEF Protocol, AcceptancesHold
  <2>3. y.pref[z] = f /\ y.pref[w] = f
    <3>1. Requeued(g, old) => z # o /\ w # o
      BY <1>v, <2>1, <2>2 DEF Requeued
    <3> QED BY <1>1, <1>9, <2>1, <2>2, <3>1
  <2>4. y.suitor[w] # f
    BY <1>1, <1>9, <2>1, <2>2
  <2>5. z # u
    BY <1>5, <1>8, <2>1, <2>2
  <2>6. y.suitor[z] = f
    BY <1>9, <2>1, <2>2, <2>5
  <2>7. Told(g, old) => ~ (f = old /\ w = o)
    BY <1>6, <2>5 DEF Told
  <2> QED BY <1>r, <2>2, <2>3, <2>4, <2>6, <2>7
<1>18. RejectionsHold(g, y)
  <2> SUFFICES ASSUME NEW w \in g.V, NEW f \in y.rej[w], NEW z, z = Other(w, f)
               PROVE  y.pref[w] = f /\ g.rank[y.suitor[z]] > g.rank[f]
    BY DEF RejectionsHold
  <2>1. CASE f \in x.rej[w]
    <3>1. f \in g.edges /\ f \notin g.internal /\ w \in f /\ z \in g.V /\ g.rank[f] \in Nat /\ f # DUMMY
      BY <2>1 DEF Protocol, Typed, IsRanked
    <3>2. x.pref[w] = f /\ g.rank[x.suitor[z]] > g.rank[f]
      BY <2>1 DEF Protocol, RejectionsHold
    <3>3. y.pref[w] = f
      <4>1. Requeued(g, old) => w # o
        BY <1>v, <3>1, <3>2 DEF Requeued
      <4> QED BY <1>1, <1>9, <3>1, <3>2, <4>1
    <3>4. g.rank[y.suitor[z]] > g.rank[f]
      <4>1. CASE z = u
        <5>1. y.suitor[z] = e /\ x.suitor[z] = old
          BY <1>8, <1>w, <4>1
        <5> QED BY <1>1, <1>4, <3>1, <3>2, <5>1
      <4>2. CASE z # u
        BY <1>9, <3>1, <3>2, <4>2
      <4> QED BY <4>1, <4>2
    <3> QED BY <3>3, <3>4
  <2>2. CASE f \notin x.rej[w]
    <3>1. Told(g, old) /\ w = o /\ f = old
      BY <1>r, <2>2
    <3>2. z = u /\ x.pref[w] = f /\ w # v
      BY <1>6, <3>1 DEF Told
    <3>3. y.pref[w] = f
      BY <1>9, <3>1, <3>2 DEF Told, Requeued
    <3> QED BY <1>4, <1>w, <3>1, <3>2, <3>3
  <2> QED BY <2>1, <2>2
<1>19. PreferencesArrive(g, y)
  <2> SUFFICES ASSUME NEW w \in g.V, y.pref[w] # DUMMY, NEW f, f = y.pref[w], NEW z, z = Other(w, f)
               PROVE  \/ y.suitor[z] = f
                      \/ f \notin g.internal /\ (f \in x.prop[z] \/ f \in x.acc[z] \/ f \in y.rej[w])
    BY <1>q DEF PreferencesArrive
  <2>1. CASE w = v
    BY <1>8, <1>w, <2>1
  <2>2. CASE w # v
    <3>0. x.pref[w] = f /\ f # DUMMY
      BY <1>9, <2>2
    <3>1. \/ x.suitor[z] = f
          \/ f \notin g.internal /\ (f \in x.prop[z] \/ f \in x.acc[z] \/ f \in x.rej[w])
      BY <3>0 DEF Protocol, PreferencesArrive
    <3>2. z \in g.V /\ f \in g.edges /\ w \in f /\ Other(z, f) = w
      BY <3>0 DEF Protocol, Typed, IsRanked
    <3>3. CASE x.suitor[z] = f /\ z = u
      <4>1. f = old /\ w = o
        BY <1>8, <3>2, <3>3
      <4>2. f \notin g.internal
        BY <1>9, <3>0, <4>1 DEF Requeued
      <4> QED BY <1>r, <3>0, <4>1, <4>2 DEF Told
    <3>4. CASE x.suitor[z] = f /\ z # u
      BY <1>9, <3>2, <3>4
    <3> QED BY <1>r, <3>1, <3>3, <3>4
  <2> QED BY <2>1, <2>2
<1>20. QueuedAreFree(g, y)
  <2> SUFFICES ASSUME NEW w \in g.V
               PROVE  IF w \in y.queued THEN y.pref[w] = DUMMY
                      ELSE y.pref[w] # DUMMY \/ y.list[w] = {}
    BY DEF QueuedAreFree
  <2>1. IF w \in x.queued THEN x.pref[w] = DUMMY ELSE x.pref[w] # DUMMY \/ x.list[w] = {}
    BY DEF Protocol, QueuedAreFree
  <2>2. CASE Requeued(g, old) /\ w = o
    BY <1>9, <1>q, <2>2
  <2>3. CASE ~ (Requeued(g, old) /\ w = o)
    <3>1. w \in y.queued <=> w \in x.queued /\ w # v
      BY <1>q, <2>3
    <3>2. y.pref[w] = IF w = v THEN e ELSE x.pref[w]
      BY <1>9, <2>3
    <3>3. w # v => y.list[w] = {} \/ y.list[w] = x.list[w]
      BY <1>i
    <3> QED BY <1>1, <2>1, <3>1, <3>2, <3>3
  <2> QED BY <2>2, <2>3
<1>21. AddsMatches(g, x, y, e, {w \in e : x.suitor[v] = e})
  <2> SUFFICES ASSUME NEW w \in g.V, NEW f
               PROVE  Mutual(y, w, f) <=> Mutual(x, w, f) \/ (f = e /\ w \in e /\ mutual)
    BY <1>8 DEF AddsMatches
  <2>1. CASE w = v
    BY <1>1, <1>8, <1>w, <2>1 DEF Mutual
  <2>2. CASE w = u
    BY <1>1, <1>2, <1>5, <1>7, <1>8, <1>w, <2>2 DEF Mutual
  <2>3. CASE w # v /\ w # u
    <3>1. y.suitor[w] = x.suitor[w] /\ w \notin e
      BY <1>2, <1>9, <2>3
    <3>2. Requeued(g, old) => x.suitor[o] # old /\ x.pref[o] = old
      BY <1>6 DEF Requeued
    <3> QED BY <1>9, <2>3, <3>1, <3>2 DEF Mutual
  <2> QED BY <2>1, <2>2, <2>3
<1>22. \A w \in e : ~ Mutual(x, w, e)
  BY <1>1, <1>2, <1>3, <1>8 DEF Mutual
<1> QED
  BY <1>10, <1>11, <1>12, <1>13, <1>14, <1>15, <1>16, <1>17, <1>18, <1>19, <1>20, <1>21, <1>22
  DEF Protocol
----
(* Lists as the inputs and the messages make them. *)

(* The keys of a set are numbers, each the key of one element. *)
IsKey(S, key) ==
  /\ IsFiniteSet(S)
  /\ \A x \in S : key[x] \in Int
  /\ \A x, y \in S : key[x] = key[y] => x = y

IsAscending(S, key, list) ==
  /\ list \in [1 .. Cardinality(S) -> S]
  /\ \A i, j \in DOMAIN list : i < j => key[list[i]] < key[list[j]]

LEMMA GreatestOf ==
  ASSUME NEW S, NEW key, IsKey(S, key), S # {}
  PROVE  \E x \in S : \A y \in S : y # x => key[y] < key[x]
<1> DEFINE n == Cardinality(S)
<1>1. n \in Nat /\ n # 0 /\ ExistsBijection(1 .. n, S)
  BY FS_CardinalityType, FS_EmptySet DEF IsKey
<1> HIDE DEF n
<1>2. PICK f : f \in [1 .. n -> S] /\ \A x \in S : \E i \in 1 .. n : f[i] = x
  BY <1>1 DEF ExistsBijection, Bijection, Surjection
<1> DEFINE h == [i \in 1 .. n |-> key[f[i]]]
<1>3. \A i \in 1 .. n : h[i] \in Int
  BY <1>2 DEF IsKey
<1> HIDE DEF h
<1>4. PICK i \in 1 .. n : \A j \in 1 .. n : h[j] <= h[i]
  <2>1. 1 \in Int /\ n \in Int /\ 1 <= n
    BY <1>1
  <2> QED BY <1>3, <2>1, Greatest
<1>5. \A y \in S : key[y] <= key[f[i]]
  BY <1>2, <1>4 DEF h
<1>6. f[i] \in S /\ key[f[i]] \in Int
  BY <1>2 DEF IsKey
<1>7. \A y \in S : key[y] \in Int /\ (key[y] = key[f[i]] => y = f[i])
  BY <1>6 DEF IsKey
<1>8. \A y \in S : y # f[i] => key[y] < key[f[i]]
  BY <1>5, <1>6, <1>7
<1> QED BY <1>6, <1>8

LEMMA AscendingExists ==
  ASSUME NEW S, NEW key, IsKey(S, key)
  PROVE  \E list : IsAscending(S, key, list)
<1> DEFINE None(T) == IsKey(T, key) /\ \A list : ~ IsAscending(T, key, list)
           N == {n \in Nat : \E T \in SUBSET S : None(T) /\ Cardinality(T) = n}
<1> SUFFICES ASSUME \A list : ~ IsAscending(S, key, list)  PROVE FALSE
  OBVIOUS
<1>1. None(S) /\ Cardinality(S) \in Nat
  BY FS_CardinalityType DEF IsKey
<1>2. N # {} /\ N \subseteq Nat
  BY <1>1
<1>3. PICK n \in N : \A k \in N : n <= k
  <2> HIDE DEF N
  <2> QED BY <1>2, LeastNumber
<1>4. PICK T \in SUBSET S : None(T) /\ Cardinality(T) = n
  BY <1>3
<1>n. n \in Nat
  BY <1>2, <1>3
<1>5. CASE T = {}
  <2>1. n = 0
    BY <1>4, <1>5, FS_EmptySet
  <2> DEFINE l == [i \in 1 .. 0 |-> i]
  <2>2. l \in [1 .. 0 -> T] /\ DOMAIN l = {}
    OBVIOUS
  <2>3. IsAscending(T, key, l)
    BY <1>4, <2>1, <2>2 DEF IsAscending
  <2> QED BY <1>4, <2>3
<1>6. CASE T # {}
  <2>1. PICK x \in T : \A y \in T : y # x => key[y] < key[x]
    BY <1>4, <1>6, GreatestOf
  <2> DEFINE U == T \ {x}
  <2>2. IsFiniteSet(T) /\ IsFiniteSet(U) /\ Cardinality(U) = n - 1 /\ n - 1 \in Nat
    <3>1. IsFiniteSet(T) /\ x \in T /\ Cardinality(T) = n
      BY <1>4 DEF IsKey
    <3>2. IsFiniteSet(T \ {x}) /\ Cardinality(T \ {x}) = n - 1
      BY <3>1, FS_RemoveElement
    <3>3. Cardinality(T \ {x}) \in Nat
      BY <3>2, FS_CardinalityType
    <3> QED BY <3>1, <3>2, <3>3
  <2>3. IsKey(U, key) /\ U \in SUBSET S
    BY <1>4, <2>2 DEF IsKey
  <2>4. ~ None(U)
    <3>1. ASSUME None(U)  PROVE FALSE
      <4>1. n - 1 \in N
        BY <2>2, <2>3, <3>1
      <4> QED BY <1>3, <1>n, <4>1
    <3> QED BY <3>1
  <2>5. PICK l : IsAscending(U, key, l)
    BY <2>3, <2>4
  <2> DEFINE m == [i \in 1 .. n |-> IF i = n THEN x ELSE l[i]]
  <2>6. l \in [1 .. n-1 -> U] /\ \A i, j \in 1 .. n-1 : i < j => key[l[i]] < key[l[j]]
    BY <2>2, <2>5 DEF IsAscending
  <2>7. m \in [1 .. n -> T]
    BY <1>n, <2>6
  <2>8. \A i, j \in 1 .. n : i < j => key[m[i]] < key[m[j]]
    <3> TAKE i, j \in 1 .. n
    <3>1. ASSUME i < j, j = n  PROVE key[m[i]] < key[m[j]]
      <4>1. i \in 1 .. n-1 /\ m[i] = l[i] /\ m[j] = x
        BY <1>n, <3>1
      <4>2. l[i] \in U
        BY <2>6, <4>1
      <4> QED BY <2>1, <4>1, <4>2
    <3>2. ASSUME i < j, j # n  PROVE key[m[i]] < key[m[j]]
      <4>1. i \in 1 .. n-1 /\ j \in 1 .. n-1 /\ m[i] = l[i] /\ m[j] = l[j]
        BY <1>n, <3>2
      <4> QED BY <2>6, <3>2, <4>1
    <3> QED BY <3>1, <3>2
  <2>9. IsAscending(T, key, m)
    BY <1>4, <2>7, <2>8 DEF IsAscending
  <2> QED BY <1>4, <2>9
<1> QED BY <1>5, <1>6

LEMMA AscendingLists ==
  ASSUME NEW S, NEW key, IsKey(S, key)
  PROVE  Lists(Ascending(S, key), S)
<1> DEFINE l == Ascending(S, key)  n == Cardinality(S)
<1>1. IsAscending(S, key, l)
  <2>1. \E list \in [1 .. Cardinality(S) -> S] :
          \A i, j \in DOMAIN list : i < j => key[list[i]] < key[list[j]]
    BY AscendingExists DEF IsAscending
  <2> QED BY <2>1 DEF Ascending, IsAscending
<1>2. n \in Nat /\ IsFiniteSet(S)
  BY FS_CardinalityType DEF IsKey
<1> HIDE DEF l
<1>3. l \in [1 .. n -> S] /\ \A i, j \in 1 .. n : i < j => key[l[i]] < key[l[j]]
  BY <1>1 DEF IsAscending
<1>4. Cardinality(1 .. n) = n /\ IsFiniteSet(1 .. n)
  <2> HIDE DEF n
  <2> QED BY <1>2, FS_Interval
<1>5. \A i, j \in 1 .. n : l[i] = l[j] => i = j
  <2> SUFFICES ASSUME NEW i \in 1 .. n, NEW j \in 1 .. n, l[i] = l[j], i # j  PROVE FALSE
    OBVIOUS
  <2>1. i < j \/ j < i
    BY <1>2
  <2>2. key[l[i]] < key[l[j]] \/ key[l[j]] < key[l[i]]
    BY <1>3, <2>1
  <2>3. l[i] \in S /\ key[l[i]] \in Int
    BY <1>3 DEF IsKey
  <2> QED BY <2>2, <2>3
<1>6. l \in Injection(1 .. n, S)
  BY <1>3, <1>5 DEF Injection, IsInjective
<1>7. l \in Surjection(1 .. n, S)
  BY <1>2, <1>4, <1>6, FS_Injection
<1>8. \A x \in S : \E i \in 1 .. n : l[i] = x
  BY <1>3, <1>7 DEF Surjection
<1> HIDE DEF n
<1>9. l \in Seq(S) /\ Len(l) = n
  BY <1>2, <1>3
<1>10. Part(l, 1, n) = S
  <2>1. \A x \in S : x \in Part(l, 1, n)
    BY <1>8 DEF Part
  <2>2. \A x \in Part(l, 1, n) : x \in S
    BY <1>3 DEF Part
  <2> QED BY <2>1, <2>2
<1>11. Distinct(l, 1, n)
  BY <1>5 DEF Distinct
<1> QED BY <1>9, <1>10, <1>11 DEF Lists, l

LEMMA RemoveAtLists ==
  ASSUME NEW S, NEW a, Lists(a, S), NEW i \in 1 .. Len(a)
  PROVE  Lists(RemoveAt(a, i), S \ {a[i]})
<1> DEFINE n == Len(a)  b == SubSeq(a, 1, i-1)  c == SubSeq(a, i+1, n)
           B == Part(a, 1, i-1)  C == Part(a, i+1, n)
<1>1. a \in Seq(S) /\ n \in Nat /\ i \in 1 .. n /\ Distinct(a, 1, n) /\ Part(a, 1, n) = S
  BY DEF Lists
<1> HIDE DEF n
<1>2. Distinct(a, 1, i-1) /\ Distinct(a, i+1, n)
  BY <1>1 DEF Distinct
<1>3. Lists(b, B)
  <2>1. 1 \in Nat \ {0} /\ i-1 \in 1-1 .. Len(a)
    BY <1>1 DEF n
  <2> QED BY <1>1, <1>2, <2>1, SubSeqLists
<1>4. Lists(c, C)
  <2>1. i+1 \in Nat \ {0} /\ n \in i+1-1 .. Len(a)
    BY <1>1 DEF n
  <2> QED BY <1>1, <1>2, <2>1, SubSeqLists
<1>5. B \cap C = {}
  BY <1>1 DEF Distinct, Part
<1>6. B \cup C = S \ {a[i]}
  <2>1. \A x \in B \cup C : x \in S /\ x # a[i]
    <3>1. \A k \in 1 .. n : k # i => a[k] # a[i]
      BY <1>1 DEF Distinct
    <3>2. \A k \in 1 .. i-1 : k \in 1 .. n /\ k # i
      BY <1>1
    <3>3. \A k \in i+1 .. n : k \in 1 .. n /\ k # i
      BY <1>1
    <3> QED BY <1>1, <3>1, <3>2, <3>3 DEF Part
  <2>2. \A x \in S : x # a[i] => x \in B \cup C
    <3>1. \A k \in 1 .. n : k = i \/ k \in 1 .. i-1 \/ k \in i+1 .. n
      BY <1>1
    <3> QED BY <1>1, <3>1 DEF Part
  <2> QED BY <2>1, <2>2
<1> HIDE DEF b, c, B, C
<1>7. Lists(b \o c, B \cup C)
  BY <1>3, <1>4, <1>5, ConcatLists
<1>8. RemoveAt(a, i) = b \o c
  BY DEF RemoveAt, b, c, n
<1> QED BY <1>6, <1>7, <1>8
----
(* The graph as the protocol sees it, and the messages. *)
G == [V |-> V, edges |-> Edges, internal |-> {e \in Edges : Internal(e)}, rank |-> Rank]

LEMMA GIsRanked ==
  ASSUME ProperInputs, InputIsGiven
  PROVE  IsRanked(G)
<1>1. G.V = V /\ G.edges = Edges /\ G.rank = Rank /\ G.internal = {e \in Edges : Internal(e)}
  BY DEF G
<1>2. DUMMY \notin Edges /\ \A e \in Edges : \E v \in e : TRUE
  BY EdgesAreNoDummy
<1>3. Rank[DUMMY] = -1 /\ \A e \in Edges : Rank[e] \in Nat
  BY RankIs
<1>4. \A e \in Edges : \A v \in e :
        /\ v \in V /\ Other(v, e) \in e /\ Other(v, e) # v /\ Other(Other(v, e), e) = v
        /\ \A w \in e : w = v \/ w = Other(v, e)
  <2> TAKE e \in Edges
  <2> TAKE v \in e
  <2>1. e = {v, Other(v, e)}
    BY EndsAre
  <2> QED BY <2>1, EndsAre
<1>5. \A e, f \in Edges : \A v \in e \cap f : Rank[e] = Rank[f] => e = f
  BY RanksDiffer
<1>6. \A e, f \in Edges : \A v \in e \cap f : Other(v, e) \in f => e = f
  BY <1>4, EdgeOf
<1> HIDE DEF G
<1> QED BY <1>1, <1>2, <1>3, <1>4, <1>5, <1>6 DEF IsRanked

LEMMA InputStays ==
  ASSUME UNCHANGED input
  PROVE  /\ V' = V /\ Edges' = Edges /\ Procs' = Procs /\ G' = G
         /\ graph' = graph /\ owner' = owner /\ p' = p /\ maxops' = maxops
         /\ InputIsGiven => InputIsGiven'
<1>1. graph' = graph /\ owner' = owner /\ p' = p /\ maxops' = maxops
  BY DEF input
<1>2. V' = V /\ Edges' = Edges /\ Procs' = Procs
  BY <1>1 DEF V, Edges, Procs
<1>3. G' = G
  BY <1>1 DEF G, V, Edges, Rank, Sum, Other, Internal
<1> QED BY <1>1, <1>2, <1>3 DEF InputIsGiven

LEMMA HaloIs ==
  ASSUME ProperInputs, InputIsGiven, NEW e \in Edges, ~ Internal(e), NEW v \in e
  PROVE  /\ owner[Other(v, e)] # owner[v] /\ LocalEnd(owner[v], e) = v
         /\ DestProc(owner[v], e) = owner[Other(v, e)]
         /\ \A w \in e : owner[w] = owner[v] => w = v
<1>1. e = {v, Other(v, e)} /\ Other(v, e) # v
  BY EndsAre
<1>2. owner[Other(v, e)] # owner[v]
  BY <1>1 DEF Internal
<1>3. \A w \in e : owner[w] = owner[v] => w = v
  BY <1>1, <1>2
<1>4. LocalEnd(owner[v], e) = v
  BY <1>3 DEF LocalEnd
<1> QED BY <1>2, <1>3, <1>4 DEF DestProc

LEMMA InternalIs ==
  ASSUME ProperInputs, InputIsGiven, NEW e \in Edges, Internal(e), NEW v \in e
  PROVE  owner[Other(v, e)] = owner[v]
BY EndsAre DEF Internal

Letter(t, tag, e) == [to |-> t, tag |-> tag, edge |-> e]

LEMMA LettersDiffer ==
  ASSUME NEW t, NEW tag, NEW e, NEW t2, NEW tag2, NEW e2,
         Letter(t, tag, e) = Letter(t2, tag2, e2)
  PROVE  t = t2 /\ tag = tag2 /\ e = e2
<1>1. Letter(t, tag, e).to = t /\ Letter(t, tag, e).tag = tag /\ Letter(t, tag, e).edge = e
  BY DEF Letter
<1>2. /\ Letter(t2, tag2, e2).to = t2 /\ Letter(t2, tag2, e2).tag = tag2
      /\ Letter(t2, tag2, e2).edge = e2
  BY DEF Letter
<1> QED BY <1>1, <1>2

Tags == {"PROPOSE", "ACCEPT", "REJECT"}

(* The messages process s may receive. *)
IsLetter(s, m) ==
  \E tag \in Tags : \E e \in Edges : \E v \in e :
    owner[v] = s /\ ~ Internal(e) /\ m = Letter(s, tag, e)

LEMMA LetterIs ==
  ASSUME ProperInputs, InputIsGiven, NEW s, NEW m, IsLetter(s, m)
  PROVE  LET v == LocalEnd(s, m.edge)
         IN /\ m = Letter(s, m.tag, m.edge) /\ m.to = s /\ m.tag \in Tags
            /\ m.edge \in Edges /\ ~ Internal(m.edge) /\ v \in m.edge /\ v \in V /\ owner[v] = s
<1>1. PICK tag \in Tags, e \in Edges : \E v \in e :
        owner[v] = s /\ ~ Internal(e) /\ m = Letter(s, tag, e)
  BY DEF IsLetter
<1>2. PICK v \in e : owner[v] = s /\ ~ Internal(e) /\ m = Letter(s, tag, e)
  BY <1>1
<1>3. m.to = s /\ m.tag = tag /\ m.edge = e
  BY <1>2 DEF Letter
<1>4. LocalEnd(s, e) = v /\ v \in V
  BY <1>2, HaloIs, EndsAre
<1> QED BY <1>2, <1>3, <1>4

(* At most one message. *)
Mails(message, S) ==
  \/ message = <<>> /\ S = {}
  \/ \E m : message = <<m>> /\ S = {m}

LEMMA ForLists ==
  ASSUME NEW message, NEW S, Mails(message, S), NEW t
  PROVE  Lists(For(t, message), {m \in S : m.to = t})
<1>1. ASSUME message = <<>>, S = {}
      PROVE  Lists(For(t, message), {m \in S : m.to = t})
  <2>1. For(t, message) = <<>> /\ {m \in S : m.to = t} = {}
    BY <1>1 DEF For
  <2> QED BY <2>1, EmptyLists
<1>2. ASSUME NEW m, message = <<m>>, S = {m}
      PROVE  Lists(For(t, message), {n \in S : n.to = t})
  <2>1. Lists(<<m>>, {m})
    BY DEF Lists, Part, Distinct
  <2>2. CASE m.to = t
    <3>1. For(t, message) = <<m>> /\ {n \in S : n.to = t} = {m}
      BY <1>2, <2>2 DEF For
    <3> QED BY <2>1, <3>1
  <2>3. CASE m.to # t
    <3>1. For(t, message) = <<>> /\ {n \in S : n.to = t} = {}
      BY <1>2, <2>3 DEF For
    <3> QED BY <3>1, EmptyLists
  <2> QED BY <2>2, <2>3
<1> QED BY <1>1, <1>2 DEF Mails

LEMMA SentLists ==
  ASSUME NEW a, NEW S, Lists(a, S), NEW first, NEW second, NEW M1, NEW M2,
         Mails(first, M1), Mails(second, M2), M1 \cap M2 = {}, (M1 \cup M2) \cap S = {}, NEW t
  PROVE  Lists(a \o For(t, first) \o For(t, second), S \cup {m \in M1 \cup M2 : m.to = t})
<1> DEFINE A == {m \in M1 : m.to = t}  B == {m \in M2 : m.to = t}
           f == For(t, first)  h == For(t, second)
<1>1. Lists(f, A) /\ Lists(h, B)
  BY ForLists
<1>2. S \cap A = {} /\ (S \cup A) \cap B = {}
  OBVIOUS
<1>3. S \cup {m \in M1 \cup M2 : m.to = t} = (S \cup A) \cup B
  OBVIOUS
<1> HIDE DEF A, B, f, h
<1>4. Lists(a \o f, S \cup A)
  BY <1>1, <1>2, ConcatLists
<1>5. Lists((a \o f) \o h, (S \cup A) \cup B)
  BY <1>1, <1>2, <1>4, ConcatLists
<1>6. Lists((a \o f) \o h, S \cup {m \in M1 \cup M2 : m.to = t})
  BY <1>3, <1>5
<1> QED BY <1>6 DEF f, h

In(s) == Part(inbox[s], 1, Len(inbox[s]))

Out(s) == Part(sent[s], 1, Len(sent[s]))

Mail == [s \in Procs |-> In(s) \cup Out(s)]

MailIs ==
  \A s \in Procs : /\ Lists(inbox[s], In(s)) /\ Lists(sent[s], Out(s))
                   /\ In(s) \cap Out(s) = {}
                   /\ \A m \in Mail[s] : IsLetter(s, m)

(* Of the messages S those with this tag that are for vertex w. *)
To(S, tag, w) == {e \in Edges : w \in e /\ Letter(owner[w], tag, e) \in S}

Flown(M, tag) == [w \in V |-> To(M[owner[w]], tag, w)]

Moved(M, gone, new) == [t \in Procs |-> (M[t] \ gone) \cup {m \in new : m.to = t}]

MailMoves(gone, new) ==
  /\ \A m \in new : m.to \in Procs /\ IsLetter(m.to, m) /\ m \notin Mail[m.to]
  /\ \A t \in Procs : /\ Lists(inbox'[t], In(t) \ gone) /\ gone \cap Out(t) = {}
                      /\ Lists(sent'[t], Out(t) \cup {m \in new : m.to = t})

LEMMA MailStep ==
  ASSUME UNCHANGED input, MailIs, NEW gone, NEW new, MailMoves(gone, new)
  PROVE  MailIs' /\ Mail' = Moved(Mail, gone, new)
<1>1. Procs' = Procs /\ Edges' = Edges /\ owner' = owner
  BY InputStays
<1>2. \A s, m : IsLetter(s, m)' <=> IsLetter(s, m)
  BY <1>1 DEF IsLetter, Internal
<1>3. \A t \in Procs : In(t)' = In(t) \ gone /\ Out(t)' = Out(t) \cup {m \in new : m.to = t}
  BY DEF MailMoves, Lists, In, Out
<1>4. \A t \in Procs : Mail[t] = In(t) \cup Out(t)
  BY DEF Mail
<1>5. \A t \in Procs : In(t)' \cup Out(t)' = (Mail[t] \ gone) \cup {m \in new : m.to = t}
  BY <1>3, <1>4 DEF MailMoves
<1>6. Mail' = Moved(Mail, gone, new)
  BY <1>1, <1>5 DEF Moved, Mail
<1>7. ASSUME NEW t \in Procs
      PROVE  /\ Lists(inbox'[t], In(t)') /\ Lists(sent'[t], Out(t)')
             /\ In(t)' \cap Out(t)' = {}
             /\ \A m \in Mail'[t] : IsLetter(t, m)
  <2>1. Lists(inbox'[t], In(t)') /\ Lists(sent'[t], Out(t)')
    BY <1>3 DEF MailMoves
  <2>2. In(t)' \cap Out(t)' = {}
    <3>1. In(t) \cap Out(t) = {}
      BY DEF MailIs
    <3>2. \A m \in new : m.to = t => m \notin In(t)
      BY <1>4 DEF MailMoves
    <3> QED BY <1>3, <3>1, <3>2
  <2>3. \A m \in Mail'[t] : IsLetter(t, m)
    <3>1. Mail'[t] = (Mail[t] \ gone) \cup {m \in new : m.to = t}
      BY <1>6 DEF Moved
    <3>2. \A m \in Mail[t] : IsLetter(t, m)
      BY DEF MailIs
    <3>3. \A m \in new : m.to = t => IsLetter(t, m)
      BY DEF MailMoves
    <3> QED BY <3>1, <3>2, <3>3
  <2> QED BY <2>1, <2>2, <2>3
<1>8. MailIs'
  <2> SUFFICES ASSUME NEW t \in Procs
               PROVE  /\ Lists(inbox'[t], In(t)') /\ Lists(sent'[t], Out(t)')
                      /\ In(t)' \cap Out(t)' = {}
                      /\ \A m \in Mail'[t] : IsLetter(t, m)'
    BY <1>1 DEF MailIs
  <2> QED BY <1>2, <1>7
<1> QED BY <1>6, <1>8

LEMMA FlownIs ==
  ASSUME ProperInputs, InputIsGiven, NEW M, NEW gone, NEW new, NEW tag, NEW w \in V
  PROVE  Flown(Moved(M, gone, new), tag)[w]
           = (Flown(M, tag)[w] \ To(gone, tag, w)) \cup To(new, tag, w)
<1>1. owner[w] \in Procs
  BY GraphIs
<1>2. \A e : Letter(owner[w], tag, e).to = owner[w]
  BY DEF Letter
<1>3. Flown(Moved(M, gone, new), tag)[w] = To(Moved(M, gone, new)[owner[w]], tag, w)
  BY DEF Flown
<1>4. Flown(M, tag)[w] = To(M[owner[w]], tag, w)
  BY DEF Flown
<1>5. Moved(M, gone, new)[owner[w]] = (M[owner[w]] \ gone) \cup {m \in new : m.to = owner[w]}
  BY <1>1 DEF Moved
<1> QED BY <1>2, <1>3, <1>4, <1>5 DEF To

LEMMA ToOne ==
  ASSUME ProperInputs, InputIsGiven, NEW e \in Edges, ~ Internal(e), NEW v \in e,
         NEW tag, NEW tag2, NEW w \in V
  PROVE  To({Letter(owner[v], tag, e)}, tag2, w) = IF tag2 = tag /\ w = v THEN {e} ELSE {}
<1>1. \A u \in e : owner[u] = owner[v] => u = v
  BY HaloIs
<1>2. \A f : Letter(owner[w], tag2, f) = Letter(owner[v], tag, e)
               <=> owner[w] = owner[v] /\ tag2 = tag /\ f = e
  BY LettersDiffer
<1> QED BY <1>1, <1>2 DEF To

LEMMA ToTwo ==
  ASSUME NEW S, NEW T, NEW tag, NEW w
  PROVE  To(S \cup T, tag, w) = To(S, tag, w) \cup To(T, tag, w)
BY DEF To

LEMMA ToNone ==
  ASSUME NEW tag, NEW w  PROVE To({}, tag, w) = {}
BY DEF To
----
(* The invariant. *)
X == [pref |-> Pref, suitor |-> Suitor, list |-> [v \in V |-> ListOf(v)],
      avail |-> [v \in V |-> ListOf(v) \cap Alive[owner[v]]],
      prop |-> Flown(Mail, "PROPOSE"), acc |-> Flown(Mail, "ACCEPT"),
      rej |-> Flown(Mail, "REJECT"),
      queued |-> {v \in V : v \in Part(queue[owner[v]], 1, Len(queue[owner[v]]))}]

Shaped ==
  /\ pc \in [Procs -> {"start", "work", "sync", "stopped"}]
  /\ ops \in [Procs -> Nat] /\ Alive \in [Procs -> SUBSET Edges]
  /\ inbox = [s \in Procs |-> inbox[s]] /\ queue = [s \in Procs |-> queue[s]]
  /\ sent = [s \in Procs |-> sent[s]] /\ match = [s \in Procs |-> match[s]]
  /\ Adj = [v \in V |-> Adj[v]] /\ degree = [v \in V |-> degree[v]]
  /\ Splitter = [v \in V |-> Splitter[v]]
  /\ Suitor = [v \in V |-> Suitor[v]] /\ Pref = [v \in V |-> Pref[v]]

ListsAre == \A v \in V : ListIs(v, Adj[v], degree[v], Splitter[v])

Queued(s, q) == {v \in q : owner[v] = s}

QueuesAre == \A s \in Procs : Lists(queue[s], Queued(s, X.queued))

(* The edges s has to register in state x. *)
Registers(s, x) == {e \in Edges : \E v \in e : owner[v] = s /\ Mutual(x, v, e)}

MatchesAre == \A s \in Procs : Lists(match[s], Registers(s, X))

(* When everybody is done, nothing is on its way. *)
Scheduled ==
  /\ Done \subseteq Procs
  /\ \A s \in Procs : pc[s] \in {"sync", "stopped"} => inbox[s] = <<>>
  /\ \A s \in Done : pc[s] = "sync" /\ queue[s] = <<>>
  /\ (\E t \in Procs : sent[t] # <<>>) => \E s \in Procs : s \notin Done /\ pc[s] \in {"work", "sync"}
  /\ \A s \in Procs : pc[s] = "stopped" =>
       \A t \in Procs : pc[t] = "stopped" /\ queue[t] = <<>> /\ sent[t] = <<>>

IInv == /\ InputIsGiven /\ Shaped /\ ListsAre /\ MailIs /\ QueuesAre /\ MatchesAre
        /\ Scheduled /\ Protocol(G, X)
----
(* The initial states. *)
EdgesOf(v) == {e \in Edges : v \in e}

LEMMA EdgesAreFinite ==
  ASSUME ProperInputs, InputIsGiven
  PROVE  IsFiniteSet(Edges) /\ IsFiniteSet(V) /\ V \subseteq Nat
<1>1. IsFiniteSet(V) /\ V \subseteq Nat
  BY GraphIs
<1>2. IsFiniteSet(SUBSET V)
  BY <1>1, FS_SUBSET
<1>3. Edges \in SUBSET (SUBSET V)
  BY GraphIs
<1> QED BY <1>1, <1>2, <1>3, FS_Subset

LEMMA InitialLists ==
  ASSUME ProperInputs, InputIsGiven, NEW v \in V
  PROVE  Lists(InitialAdj(v), EdgesOf(v))
<1> DEFINE mine == {e \in Edges : v \in e}
           early == {e \in mine : Internal(e) /\ Other(v, e) < v}
           late == mine \ early
           key(S) == [e \in S |-> Other(v, e)]
<1>1. InitialAdj(v) = Ascending(early, key(early)) \o Ascending(late, key(late))
  BY DEF InitialAdj
<1>2. ASSUME NEW S \in SUBSET mine  PROVE Lists(Ascending(S, key(S)), S)
  <2>1. IsFiniteSet(S)
    <3>1. S \in SUBSET Edges
      OBVIOUS
    <3> QED BY <3>1, EdgesAreFinite, FS_Subset
  <2>2. \A e \in S : key(S)[e] = Other(v, e) /\ Other(v, e) \in Int
    BY EndsAre, EdgesAreFinite
  <2>3. \A e, f \in S : Other(v, e) = Other(v, f) => e = f
    BY EndsAre, EdgeOf
  <2>4. IsKey(S, key(S))
    BY <2>1, <2>2, <2>3 DEF IsKey
  <2> HIDE DEF key
  <2> QED BY <2>4, AscendingLists
<1>3. early \in SUBSET mine /\ late \in SUBSET mine /\ early \cap late = {} /\ early \cup late = mine
  OBVIOUS
<1>4. mine = EdgesOf(v)
  BY DEF EdgesOf
<1> HIDE DEF mine, early, late, key
<1>5. Lists(Ascending(early, key(early)), early) /\ Lists(Ascending(late, key(late)), late)
  BY <1>2, <1>3
<1>6. Lists(Ascending(early, key(early)) \o Ascending(late, key(late)), early \cup late)
  BY <1>3, <1>5, ConcatLists
<1> QED BY <1>1, <1>3, <1>4, <1>6

LEMMA ListsNone ==
  ASSUME NEW S, NEW a, Lists(a, S)
  PROVE  /\ a = <<>> <=> S = {}
         /\ a \in Seq(S) /\ Len(a) \in Nat /\ Part(a, 1, Len(a)) = S /\ Distinct(a, 1, Len(a))
<1>1. a \in Seq(S) /\ Len(a) \in Nat /\ Part(a, 1, Len(a)) = S /\ Distinct(a, 1, Len(a))
  BY DEF Lists
<1>2. ASSUME a = <<>>  PROVE S = {}
  BY <1>1, <1>2 DEF Part
<1>3. ASSUME a # <<>>  PROVE S # {}
  <2>1. 1 \in 1 .. Len(a)
    BY <1>1, <1>3
  <2> QED BY <1>1, <2>1 DEF Part
<1> QED BY <1>1, <1>2, <1>3

LEMMA InitialQueues ==
  ASSUME ProperInputs, InputIsGiven, NEW S \in SUBSET V
  PROVE  Lists(Ascending(S, [v \in V |-> v]), S)
<1>1. IsFiniteSet(S)
  BY EdgesAreFinite, FS_Subset
<1>2. IsKey(S, [v \in V |-> v])
  BY <1>1, EdgesAreFinite DEF IsKey
<1> QED BY <1>2, AscendingLists

LEMMA InitInv ==
  ASSUME ProperInputs, Init
  PROVE  IInv
<1>1. InputIsGiven
  BY DEF Init, InputIsGiven, Distributions
<1> DEFINE Q == {v \in V : InitialAdj(v) # <<>>}
<1>2. \A v \in V : Adj[v] = InitialAdj(v) /\ degree[v] = Len(Adj[v]) /\ Splitter[v] = {}
  BY DEF Init
<1>3. \A v \in V : ListOf(v) = EdgesOf(v) /\ ListIs(v, Adj[v], degree[v], Splitter[v])
  <2> TAKE v \in V
  <2>1. Lists(Adj[v], EdgesOf(v))
    BY <1>1, <1>2, InitialLists
  <2>2. ListOf(v) = EdgesOf(v)
    BY <1>2, <2>1 DEF ListOf, Lists
  <2>3. Adj[v] \in Seq(EdgesOf(v)) /\ EdgesOf(v) \subseteq Edges
    BY <2>1 DEF Lists, EdgesOf
  <2>4. Adj[v] \in Seq(Edges) /\ degree[v] \in 0 .. Len(Adj[v])
    BY <1>2, <2>3
  <2>5. \A i \in 1 .. degree[v] : v \in Adj[v][i]
    <3>1. \A i \in 1 .. degree[v] : Adj[v][i] \in EdgesOf(v)
      BY <2>2 DEF ListOf, Part
    <3> QED BY <3>1 DEF EdgesOf
  <2>6. Distinct(Adj[v], 1, degree[v])
    BY <1>2, <2>1 DEF Lists
  <2>7. Splitter[v] = {}
    BY <1>2
  <2>8. ListIs(v, Adj[v], degree[v], Splitter[v])
    BY <2>4, <2>5, <2>6, <2>7 DEF ListIs
  <2> QED BY <2>2, <2>8
<1>4. \A s \in Procs : In(s) = {} /\ Out(s) = {} /\ inbox[s] = <<>> /\ sent[s] = <<>> /\ Mail[s] = {}
  BY DEF Init, In, Out, Part, Mail
<1>5. X.queued = Q /\ \A s \in Procs : Lists(queue[s], Queued(s, Q))
  <2>1. ASSUME NEW s \in Procs  PROVE Lists(queue[s], Queued(s, Q))
    <3>1. queue[s] = Ascending({v \in V : owner[v] = s /\ InitialAdj(v) # <<>>}, [v \in V |-> v])
      BY DEF Init
    <3>2. {v \in V : owner[v] = s /\ InitialAdj(v) # <<>>} = Queued(s, Q)
      BY DEF Queued
    <3>3. Queued(s, Q) \in SUBSET V
      BY DEF Queued
    <3> QED BY <1>1, <3>1, <3>2, <3>3, InitialQueues
  <2>2. \A s \in Procs : Part(queue[s], 1, Len(queue[s])) = Queued(s, Q)
    BY <2>1 DEF Lists
  <2>3. \A v \in V : owner[v] \in Procs
    BY <1>1, GraphIs
  <2>4. \A v \in V : v \in Part(queue[owner[v]], 1, Len(queue[owner[v]])) <=> v \in Q
    BY <2>2, <2>3 DEF Queued
  <2> HIDE DEF Q
  <2>5. X.queued = {v \in V : v \in Part(queue[owner[v]], 1, Len(queue[owner[v]]))}
    BY DEF X
  <2>6. Q \subseteq V
    BY DEF Q
  <2>7. X.queued = Q
    BY <2>4, <2>5, <2>6
  <2> QED BY <2>1, <2>7
<1>6. \A v \in V : /\ X.pref[v] = DUMMY /\ X.suitor[v] = DUMMY /\ X.list[v] = EdgesOf(v)
                   /\ X.avail[v] = EdgesOf(v) /\ X.prop[v] = {} /\ X.acc[v] = {} /\ X.rej[v] = {}
  <2> TAKE v \in V
  <2>1. X.pref[v] = DUMMY /\ X.suitor[v] = DUMMY
    BY DEF X, Init
  <2>2. owner[v] \in Procs
    BY <1>1, GraphIs
  <2>3. X.list[v] = EdgesOf(v) /\ X.avail[v] = EdgesOf(v) \cap Alive[owner[v]]
    BY <1>3 DEF X
  <2>4. EdgesOf(v) \subseteq Alive[owner[v]]
    BY <2>2 DEF Init, EdgesOf
  <2>5. \A tag : Flown(Mail, tag)[v] = {}
    BY <1>4, <2>2 DEF Flown, To
  <2>6. X.prop[v] = {} /\ X.acc[v] = {} /\ X.rej[v] = {}
    BY <2>5 DEF X
  <2> QED BY <2>1, <2>3, <2>4, <2>6
<1>7. Protocol(G, X)
  <2>1. G.V = V /\ G.edges = Edges
    BY DEF G
  <2>2. \A e \in Edges : \A v \in e : v \in V /\ e \in EdgesOf(v)
    BY <1>1, EndsAre DEF EdgesOf
  <2>3. \A v \in V : \A e \in EdgesOf(v) : e \in Edges /\ v \in e
    BY DEF EdgesOf
  <2>4. \A v \in V : v \notin X.queued => EdgesOf(v) = {}
    <3> TAKE v \in V
    <3>1. Lists(InitialAdj(v), EdgesOf(v))
      BY <1>1, InitialLists
    <3>2. EdgesOf(v) = {} <=> InitialAdj(v) = <<>>
      BY <3>1, ListsNone
    <3> QED BY <1>5, <3>2
  <2> HIDE DEF Q
  <2>5. Typed(G, X)
    BY <1>6, <2>1, <2>3 DEF Typed
  <2>6. NoneForgotten(G, X)
    BY <1>6, <2>1, <2>2 DEF NoneForgotten
  <2>7. PrefersHeaviest(G, X) /\ SuitorsPropose(G, X) /\ SuitorsAreLighter(G, X)
    BY <1>6, <2>1 DEF PrefersHeaviest, SuitorsPropose, SuitorsAreLighter
  <2>8. ProposalsHold(G, X) /\ AcceptancesHold(G, X) /\ RejectionsHold(G, X)
    BY <1>6, <2>1 DEF ProposalsHold, AcceptancesHold, RejectionsHold
  <2>9. PreferencesArrive(G, X)
    BY <1>6, <2>1 DEF PreferencesArrive
  <2>10. QueuedAreFree(G, X)
    BY <1>6, <2>1, <2>4 DEF QueuedAreFree
  <2> QED BY <2>5, <2>6, <2>7, <2>8, <2>9, <2>10 DEF Protocol
<1>8. Shaped
  <2>1. /\ pc \in [Procs -> {"start", "work", "sync", "stopped"}] /\ ops \in [Procs -> Nat]
        /\ inbox = [s \in Procs |-> inbox[s]] /\ sent = [s \in Procs |-> sent[s]] /\ match = [s \in Procs |-> match[s]]
        /\ Suitor = [v \in V |-> Suitor[v]] /\ Pref = [v \in V |-> Pref[v]]
        /\ Splitter = [v \in V |-> Splitter[v]]
    BY DEF Init
  <2>2. Alive \in [Procs -> SUBSET Edges]
    BY DEF Init
  <2>3. queue = [s \in Procs |-> queue[s]]
    <3> DEFINE F(s) == Ascending({v \in V : owner[v] = s /\ InitialAdj(v) # <<>>}, [v \in V |-> v])
    <3>1. queue = [s \in Procs |-> F(s)]
      BY DEF Init
    <3> HIDE DEF F
    <3> QED BY <3>1
  <2>4. Adj = [v \in V |-> Adj[v]]
    <3>1. Adj = [v \in V |-> InitialAdj(v)]
      BY DEF Init
    <3> QED BY <3>1
  <2>5. degree = [v \in V |-> degree[v]]
    <3>1. degree = [v \in V |-> Len(Adj[v])]
      BY DEF Init
    <3> QED BY <3>1
  <2> QED BY <2>1, <2>2, <2>3, <2>4, <2>5 DEF Shaped
<1>9. MailIs
  BY <1>4, EmptyLists DEF MailIs
<1>10. MatchesAre
  <2> SUFFICES ASSUME NEW s \in Procs  PROVE Lists(match[s], Registers(s, X))
    BY DEF MatchesAre
  <2>1. match[s] = <<>>
    BY DEF Init
  <2>2. \A e \in Edges : \A v \in e : v \in V
    BY <1>1, EndsAre
  <2>3. \A v \in V : \A e : ~ Mutual(X, v, e)
    BY <1>6 DEF Mutual
  <2>4. Registers(s, X) = {}
    BY <2>2, <2>3 DEF Registers
  <2> QED BY <2>1, <2>4, EmptyLists
<1>11. Scheduled
  BY <1>4 DEF Scheduled, Init
<1>12. ListsAre
  BY <1>3 DEF ListsAre
<1>13. QueuesAre
  BY <1>5 DEF QueuesAre
<1> HIDE DEF Q
<1> QED BY <1>1, <1>7, <1>8, <1>9, <1>10, <1>11, <1>12, <1>13 DEF IInv
----
(* What a state is to the protocol, and the state after a step. *)
LEMMA XIs ==
  /\ X.pref = Pref /\ X.suitor = Suitor
  /\ \A v \in V : X.list[v] = ListOf(v) /\ X.avail[v] = ListOf(v) \cap Alive[owner[v]]
  /\ X.prop = Flown(Mail, "PROPOSE") /\ X.acc = Flown(Mail, "ACCEPT")
  /\ X.rej = Flown(Mail, "REJECT")
  /\ \A v \in V : v \in X.queued <=> v \in Part(queue[owner[v]], 1, Len(queue[owner[v]]))
  /\ X.queued \subseteq V
BY DEF X

LEMMA GIs ==
  /\ G.V = V /\ G.edges = Edges /\ G.rank = Rank
  /\ \A e \in Edges : e \in G.internal <=> Internal(e)
  /\ \A e \in G.internal : e \in Edges
BY DEF G

LEMMA NextX ==
  ASSUME UNCHANGED input
  PROVE  /\ X'.pref = Pref' /\ X'.suitor = Suitor'
         /\ \A v \in V : /\ X'.list[v] = Part(Adj'[v], 1, degree'[v])
                         /\ X'.avail[v] = X'.list[v] \cap Alive'[owner[v]]
         /\ X'.prop = Flown(Mail', "PROPOSE") /\ X'.acc = Flown(Mail', "ACCEPT")
         /\ X'.rej = Flown(Mail', "REJECT")
         /\ X'.queued = {v \in V : v \in Part(queue'[owner[v]], 1, Len(queue'[owner[v]]))}
<1>1. V' = V /\ owner' = owner /\ Edges' = Edges
  BY InputStays
<1>2. \A M, tag : Flown(M, tag)' = Flown(M', tag)
  BY <1>1 DEF Flown, To
<1>3. /\ X'.prop = Flown(Mail, "PROPOSE")' /\ X'.acc = Flown(Mail, "ACCEPT")'
      /\ X'.rej = Flown(Mail, "REJECT")'
  BY DEF X
<1>4. /\ Flown(Mail, "PROPOSE")' = Flown(Mail', "PROPOSE")
      /\ Flown(Mail, "ACCEPT")' = Flown(Mail', "ACCEPT")
      /\ Flown(Mail, "REJECT")' = Flown(Mail', "REJECT")
  BY <1>1 DEF Flown, To
<1>5. X'.pref = Pref' /\ X'.suitor = Suitor'
  BY DEF X
<1>6. \A v \in V : /\ X'.list[v] = Part(Adj'[v], 1, degree'[v])
                   /\ X'.avail[v] = X'.list[v] \cap Alive'[owner[v]]
  BY <1>1 DEF X, ListOf
<1>7. X'.queued = {v \in V : v \in Part(queue'[owner[v]], 1, Len(queue'[owner[v]]))}
  BY <1>1 DEF X
<1> QED BY <1>3, <1>4, <1>5, <1>6, <1>7

LEMMA EmptyListOf ==
  ASSUME ListsAre, NEW v \in V
  PROVE  ListOf(v) = {} <=> degree[v] = 0
<1>1. degree[v] \in Nat
  BY DEF ListsAre, ListIs
<1>2. ASSUME degree[v] = 0  PROVE ListOf(v) = {}
  BY <1>2 DEF ListOf, Part
<1>3. ASSUME degree[v] # 0  PROVE ListOf(v) # {}
  <2>1. 1 \in 1 .. degree[v]
    BY <1>1, <1>3
  <2> QED BY <2>1 DEF ListOf, Part
<1> QED BY <1>2, <1>3

LEMMA ListOfEdges ==
  ASSUME ListsAre, NEW v \in V, NEW e \in ListOf(v)
  PROVE  e \in Edges /\ v \in e
<1>1. PICK i \in 1 .. degree[v] : e = Adj[v][i]
  BY DEF ListOf, Part
<1>2. Adj[v] \in Seq(Edges) /\ degree[v] \in 0 .. Len(Adj[v]) /\ v \in Adj[v][i]
  BY DEF ListsAre, ListIs
<1>3. i \in 1 .. Len(Adj[v])
  BY <1>2
<1> QED BY <1>1, <1>2, <1>3

(* Suitors and preferences are edges of their vertices, or none. *)
LEMMA SuitorIs ==
  ASSUME Protocol(G, X), NEW v \in V
  PROVE  /\ Suitor[v] = DUMMY \/ (Suitor[v] \in Edges /\ v \in Suitor[v])
         /\ Pref[v] = DUMMY \/ (Pref[v] \in Edges /\ v \in Pref[v])
         /\ Suitor[v] \in Edges \cup {DUMMY} /\ Pref[v] \in Edges \cup {DUMMY}
BY GIs, XIs DEF Protocol, Typed

LEMMA LostIsLost ==
  ASSUME ProperInputs, InputIsGiven, ListsAre, Protocol(G, X),
         NEW v \in V, NEW e \in Edges, v \in e
  PROVE  Lost(v, e) <=> LostTo(G, X, v, e)
<1> DEFINE u == Other(v, e)
<1>1. u \in V
  BY EndsAre
<1>2. X.list[u] = {} <=> degree[u] = 0
  BY <1>1, XIs, EmptyListOf
<1>3. Heavier(Suitor[u], e) <=> Rank[Suitor[u]] > Rank[e]
  BY <1>1, SuitorIs, RankIs
<1>4. X.suitor = Suitor /\ G.rank = Rank /\ (e \in G.internal <=> Internal(e))
  BY XIs, GIs
<1> QED BY <1>2, <1>3, <1>4 DEF Lost, LostTo
----
(* The parts of a step. *)
LEMMA QueueStep ==
  ASSUME ProperInputs, InputIsGiven, UNCHANGED input, NEW q, q \subseteq V,
         \A t \in Procs : Lists(queue'[t], Queued(t, q))
  PROVE  X'.queued = q /\ QueuesAre'
<1>1. V' = V /\ owner' = owner /\ Procs' = Procs
  BY InputStays
<1>2. \A t \in Procs : Part(queue'[t], 1, Len(queue'[t])) = Queued(t, q)
  BY DEF Lists
<1>3. \A v \in V : owner[v] \in Procs
  BY GraphIs
<1>4. \A v \in V : v \in Part(queue'[owner[v]], 1, Len(queue'[owner[v]])) <=> v \in q
  BY <1>2, <1>3 DEF Queued
<1>5. X'.queued = {v \in V : v \in Part(queue'[owner[v]], 1, Len(queue'[owner[v]]))}
  BY NextX
<1>6. X'.queued = q
  BY <1>4, <1>5
<1>7. \A t : Queued(t, q)' = Queued(t, q')
  BY <1>1 DEF Queued
<1>8. QueuesAre'
  <2> SUFFICES ASSUME NEW t \in Procs  PROVE Lists(queue'[t], Queued(t, X.queued)')
    BY <1>1 DEF QueuesAre
  <2>1. Queued(t, X.queued)' = {v \in X'.queued : owner[v] = t}
    BY <1>1 DEF Queued
  <2>2. Queued(t, q) = {v \in q : owner[v] = t}
    BY DEF Queued
  <2>3. Queued(t, X.queued)' = Queued(t, q)
    BY <1>6, <2>1, <2>2
  <2> QED BY <2>3
<1> QED BY <1>6, <1>8

LEMMA TailLists ==
  ASSUME NEW S, NEW a, Lists(a, S), a # <<>>
  PROVE  Head(a) \in S /\ Lists(Tail(a), S \ {Head(a)})
<1> DEFINE n == Len(a)
<1>1. a \in Seq(S) /\ n \in Nat /\ n > 0 /\ Head(a) = a[1] /\ Head(a) \in S
  BY DEF Lists
<1>2. Tail(a) = SubSeq(a, 2, n)
  BY <1>1
<1>3. 2 \in Nat \ {0} /\ n \in 2-1 .. Len(a)
  BY <1>1
<1>4. Distinct(a, 1, n) /\ Part(a, 1, n) = S
  BY DEF Lists
<1>5. Distinct(a, 2, n)
  BY <1>4 DEF Distinct
<1>6. Lists(SubSeq(a, 2, n), Part(a, 2, n))
  BY <1>1, <1>3, <1>5, SubSeqLists
<1>7. Part(a, 2, n) = S \ {a[1]}
  <2> HIDE DEF n
  <2>1. \A k \in 2 .. n : k \in 1 .. n /\ a[k] # a[1]
    BY <1>1, <1>4 DEF Distinct
  <2>2. \A k \in 1 .. n : k = 1 \/ k \in 2 .. n
    BY <1>1
  <2>3. \A x \in Part(a, 2, n) : x \in S \ {a[1]}
    BY <1>4, <2>1 DEF Part
  <2>4. \A x \in S \ {a[1]} : x \in Part(a, 2, n)
    BY <1>4, <2>2 DEF Part
  <2> QED BY <2>3, <2>4
<1> QED BY <1>1, <1>2, <1>6, <1>7

(* What a vertex, or none, does to the queue. *)
LEMMA PushLists ==
  ASSUME NEW S, NEW a, Lists(a, S), NEW W, NEW vertices, W \cap S = {},
         (W = {} /\ vertices = <<>>) \/ (\E o : W = {o} /\ vertices = <<o>>)
  PROVE  Lists(a \o vertices, S \cup W) /\ ToSet(vertices) = W
<1>1. Lists(vertices, W) /\ ToSet(vertices) = W
  <2>1. ASSUME W = {}, vertices = <<>>  PROVE Lists(vertices, W) /\ ToSet(vertices) = W
    <3>1. ToSet(<<>>) = {}
      BY DEF ToSet
    <3> QED BY <2>1, <3>1, EmptyLists
  <2>2. ASSUME NEW o, W = {o}, vertices = <<o>>  PROVE Lists(vertices, W) /\ ToSet(vertices) = W
    <3>1. Lists(<<o>>, {o})
      BY DEF Lists, Part, Distinct
    <3>2. ToSet(<<o>>) = {o}
      BY DEF ToSet
    <3> QED BY <2>2, <3>1, <3>2
  <2> QED BY <2>1, <2>2
<1>2. S \cap W = {}
  OBVIOUS
<1>3. Lists(a \o vertices, S \cup W)
  BY <1>1, <1>2, ConcatLists
<1> QED BY <1>1, <1>3

LEMMA SameRegisters ==
  ASSUME ProperInputs, InputIsGiven, UNCHANGED input, MatchesAre, match' = match,
         SameMatches(G, X, X')
  PROVE  MatchesAre'
<1>1. Edges' = Edges /\ owner' = owner /\ Procs' = Procs
  BY InputStays
<1>2. \A e \in Edges : \A v \in e : Mutual(X', v, e) <=> Mutual(X, v, e)
  BY EndsAre, GIs DEF SameMatches
<1>3. \A s : Registers(s, X)' = {e \in Edges : \E v \in e : owner[v] = s /\ Mutual(X', v, e)}
  BY <1>1 DEF Registers, Mutual
<1>4. \A s : Registers(s, X)' = Registers(s, X)
  BY <1>2, <1>3 DEF Registers
<1> QED BY <1>1, <1>4 DEF MatchesAre

LEMMA MoreRegisters ==
  ASSUME ProperInputs, InputIsGiven, UNCHANGED input, MatchesAre,
         NEW s \in Procs, NEW e \in Edges, NEW W \in SUBSET e, \A w \in W : owner[w] = s,
         AddsMatches(G, X, X', e, W),
         W # {} => \A w \in e : owner[w] = s => ~ Mutual(X, w, e),
         \A t \in Procs : match'[t] = IF t = s /\ W # {} THEN Append(match[t], e) ELSE match[t]
  PROVE  MatchesAre'
<1>1. Edges' = Edges /\ owner' = owner /\ Procs' = Procs
  BY InputStays
<1>2. \A f \in Edges : \A v \in f : Mutual(X', v, f) <=> Mutual(X, v, f) \/ (f = e /\ v \in W)
  BY EndsAre, GIs DEF AddsMatches
<1>3. \A t : Registers(t, X)' = {f \in Edges : \E v \in f : owner[v] = t /\ Mutual(X', v, f)}
  BY <1>1 DEF Registers, Mutual
<1>4. \A t : Registers(t, X)' = IF t = s /\ W # {} THEN Registers(t, X) \cup {e} ELSE Registers(t, X)
  <2> TAKE t
  <2>1. \A f \in Edges : f \in Registers(t, X)' <=> f \in Registers(t, X) \/ (f = e /\ t = s /\ W # {})
    <3>1. \A f \in Edges : f \in Registers(t, X)'
                             <=> \E v \in f : owner[v] = t /\ (Mutual(X, v, f) \/ (f = e /\ v \in W))
      BY <1>2, <1>3
    <3>2. \A f \in Edges : f \in Registers(t, X) <=> \E v \in f : owner[v] = t /\ Mutual(X, v, f)
      BY DEF Registers
    <3> QED BY <3>1, <3>2
  <2>2. \A f \in Registers(t, X)' : f \in Edges
    BY <1>3
  <2>3. \A f \in Registers(t, X) : f \in Edges
    BY DEF Registers
  <2> QED BY <2>1, <2>2, <2>3
<1>5. W # {} => e \notin Registers(s, X)
  BY DEF Registers
<1> SUFFICES ASSUME NEW t \in Procs  PROVE Lists(match'[t], Registers(t, X)')
  BY <1>1 DEF MatchesAre
<1>6. Lists(match[t], Registers(t, X))
  BY DEF MatchesAre
<1>7. ASSUME t = s, W # {}  PROVE Lists(match'[t], Registers(t, X)')
  <2>1. Lists(Append(match[t], e), Registers(t, X) \cup {e})
    BY <1>5, <1>6, <1>7, AppendLists
  <2> QED BY <1>4, <1>7, <2>1
<1>8. ASSUME ~ (t = s /\ W # {})  PROVE Lists(match'[t], Registers(t, X)')
  BY <1>4, <1>6, <1>8
<1> QED BY <1>7, <1>8

LEMMA WorkSchedule ==
  ASSUME Scheduled, Shaped, UNCHANGED input, NEW s \in Procs, pc[s] = "work",
         pc' = pc, Done' = Done,
         \A t \in Procs \ {s} : inbox'[t] = inbox[t] /\ queue'[t] = queue[t]
  PROVE  Scheduled'
<1>1. Procs' = Procs
  BY InputStays
<1>2. s \notin Done
  BY DEF Scheduled
<1>3. \A t \in Procs : pc[t] # "stopped"
  BY DEF Scheduled
<1> QED BY <1>1, <1>2, <1>3 DEF Scheduled
----
LEMMA ProtocolNext ==
  ASSUME UNCHANGED input, Protocol(G, X')
  PROVE  Protocol(G, X)'
<1>1. Protocol(G, X)' <=> Protocol(G', X')
  BY DEF Protocol, Typed, NoneForgotten, IsDead, PrefersHeaviest, SuitorsPropose,
         SuitorsAreLighter, ProposalsHold, AcceptancesHold, RejectionsHold,
         PreferencesArrive, QueuedAreFree
<1>2. G' = G
  BY InputStays
<1> QED BY <1>1, <1>2

LEMMA ListsNext ==
  ASSUME UNCHANGED input, \A v \in V : ListIs(v, Adj'[v], degree'[v], Splitter'[v])
  PROVE  ListsAre'
<1>1. V' = V /\ Edges' = Edges /\ Rank' = Rank
  BY InputStays DEF G
<1> QED BY <1>1 DEF ListsAre, ListIs

(* The steps that change neither lists nor vertices. *)

LEMMA KeptInv ==
  ASSUME ProperInputs, IInv, UNCHANGED input,
         UNCHANGED <<queue, match, Alive, lists, Suitor, Pref>>, MailIs', Mail' = Mail,
         Shaped', Scheduled'
  PROVE  IInv'
<1>1. /\ queue' = queue /\ match' = match /\ Alive' = Alive /\ Adj' = Adj /\ degree' = degree
      /\ Splitter' = Splitter /\ Suitor' = Suitor /\ Pref' = Pref
  BY DEF lists
<1>2. V' = V /\ Edges' = Edges /\ Procs' = Procs /\ G' = G /\ owner' = owner /\ graph' = graph
  BY InputStays
<1>3. X' = X
  <2>1. /\ Flown(Mail, "PROPOSE")' = Flown(Mail, "PROPOSE")
        /\ Flown(Mail, "ACCEPT")' = Flown(Mail, "ACCEPT")
        /\ Flown(Mail, "REJECT")' = Flown(Mail, "REJECT")
    BY <1>2 DEF Flown, To
  <2> QED BY <1>1, <1>2, <2>1 DEF X, ListOf
<1>4. Protocol(G, X)'
  <2>1. Protocol(G, X')
    BY <1>3 DEF IInv
  <2> QED BY <2>1, ProtocolNext
<1>5. ListsAre'
  <2>1. \A v \in V : ListIs(v, Adj'[v], degree'[v], Splitter'[v])
    BY <1>1 DEF IInv, ListsAre
  <2> QED BY <2>1, ListsNext
<1>6. QueuesAre'
  BY <1>1, <1>2, <1>3 DEF IInv, QueuesAre, Queued
<1>7. MatchesAre'
  BY <1>1, <1>2, <1>3 DEF IInv, MatchesAre, Registers, Mutual
<1>8. InputIsGiven'
  BY InputStays DEF IInv
<1> QED BY <1>4, <1>5, <1>6, <1>7, <1>8 DEF IInv

LEMMA SameMail ==
  ASSUME MailIs, UNCHANGED input, UNCHANGED <<inbox, sent>>
  PROVE  MailIs' /\ Mail' = Mail
<1>1. Procs' = Procs /\ Edges' = Edges /\ owner' = owner
  BY InputStays
<1>2. \A s, m : IsLetter(s, m)' <=> IsLetter(s, m)
  BY <1>1 DEF IsLetter, Internal
<1>3. Mail' = Mail /\ \A s : In(s)' = In(s) /\ Out(s)' = Out(s)
  BY <1>1 DEF Mail, In, Out
<1> QED BY <1>1, <1>2, <1>3 DEF MailIs

LEMMA SameShape ==
  ASSUME Shaped, UNCHANGED input, UNCHANGED <<inbox, sent, ops, queue, match, Alive, lists, Suitor, Pref>>,
         pc' \in [Procs -> {"start", "work", "sync", "stopped"}]
  PROVE  Shaped'
<1>1. Procs' = Procs /\ Edges' = Edges /\ V' = V
  BY InputStays
<1>2. /\ inbox' = inbox /\ sent' = sent /\ ops' = ops /\ queue' = queue /\ match' = match /\ Alive' = Alive
      /\ Adj' = Adj /\ degree' = degree /\ Splitter' = Splitter
      /\ Suitor' = Suitor /\ Pref' = Pref
  BY DEF lists
<1> QED BY <1>1, <1>2 DEF Shaped

LEMMA ReportDoneStep ==
  ASSUME ProperInputs, IInv, NEW s \in Procs, ReportDone(s)
  PROVE  IInv'
<1>1. /\ UNCHANGED input /\ UNCHANGED <<queue, match, Alive, lists, Suitor, Pref>>
      /\ UNCHANGED <<inbox, sent>>
      /\ UNCHANGED <<inbox, sent, ops, queue, match, Alive, lists, Suitor, Pref>>
      /\ pc[s] = "start" /\ inbox[s] = <<>> /\ queue[s] = <<>>
      /\ Done' = Done \cup {s} /\ pc' = [pc EXCEPT ![s] = "sync"]
  BY DEF ReportDone
<1>2. pc' \in [Procs -> {"start", "work", "sync", "stopped"}]
      /\ \A t \in Procs : pc'[t] = IF t = s THEN "sync" ELSE pc[t]
  BY <1>1 DEF IInv, Shaped
<1>3. MailIs' /\ Mail' = Mail
  BY <1>1, SameMail DEF IInv
<1>4. Shaped'
  BY <1>1, <1>2, SameShape DEF IInv
<1>5. Scheduled'
  <2>1. Scheduled /\ Procs' = Procs /\ inbox' = inbox /\ sent' = sent /\ queue' = queue
    BY <1>1, InputStays DEF IInv
  <2> QED BY <1>1, <1>2, <2>1 DEF Scheduled
<1> QED BY <1>1, <1>3, <1>4, <1>5, KeptInv

LEMMA BeginStep ==
  ASSUME ProperInputs, IInv, NEW s \in Procs, Begin(s)
  PROVE  IInv'
<1>1. /\ UNCHANGED input /\ UNCHANGED <<queue, match, Alive, lists, Suitor, Pref>>
      /\ UNCHANGED <<inbox, sent>>
      /\ UNCHANGED <<inbox, sent, ops, queue, match, Alive, lists, Suitor, Pref>>
      /\ pc[s] = "start" /\ Done' = Done /\ pc' = [pc EXCEPT ![s] = "work"]
  BY DEF Begin
<1>2. pc' \in [Procs -> {"start", "work", "sync", "stopped"}]
      /\ \A t \in Procs : pc'[t] = IF t = s THEN "work" ELSE pc[t]
  BY <1>1 DEF IInv, Shaped
<1>3. MailIs' /\ Mail' = Mail
  BY <1>1, SameMail DEF IInv
<1>4. Shaped'
  BY <1>1, <1>2, SameShape DEF IInv
<1>5. Scheduled'
  <2>1. Scheduled /\ Procs' = Procs /\ inbox' = inbox /\ sent' = sent /\ queue' = queue
    BY <1>1, InputStays DEF IInv
  <2> QED BY <1>1, <1>2, <2>1 DEF Scheduled
<1> QED BY <1>1, <1>3, <1>4, <1>5, KeptInv

LEMMA EndStepStep ==
  ASSUME ProperInputs, IInv, NEW s \in Procs, EndStep(s)
  PROVE  IInv'
<1>1. /\ UNCHANGED input /\ UNCHANGED <<queue, match, Alive, lists, Suitor, Pref>>
      /\ UNCHANGED <<inbox, sent>>
      /\ UNCHANGED <<inbox, sent, ops, queue, match, Alive, lists, Suitor, Pref>>
      /\ pc[s] = "work" /\ inbox[s] = <<>> /\ Done' = Done /\ pc' = [pc EXCEPT ![s] = "sync"]
  BY DEF EndStep
<1>2. pc' \in [Procs -> {"start", "work", "sync", "stopped"}]
      /\ \A t \in Procs : pc'[t] = IF t = s THEN "sync" ELSE pc[t]
  BY <1>1 DEF IInv, Shaped
<1>3. MailIs' /\ Mail' = Mail
  BY <1>1, SameMail DEF IInv
<1>4. Shaped'
  BY <1>1, <1>2, SameShape DEF IInv
<1>5. Scheduled'
  <2>1. Scheduled /\ Procs' = Procs /\ inbox' = inbox /\ sent' = sent /\ queue' = queue
    BY <1>1, InputStays DEF IInv
  <2> QED BY <1>1, <1>2, <2>1 DEF Scheduled
<1> QED BY <1>1, <1>3, <1>4, <1>5, KeptInv

LEMMA SyncStep ==
  ASSUME ProperInputs, IInv, Sync
  PROVE  IInv'
<1>1. /\ UNCHANGED input /\ UNCHANGED <<queue, match, Alive, lists, Suitor, Pref>>
      /\ \A s \in Procs : pc[s] = "sync"
      /\ pc' = [s \in Procs |-> IF Done = Procs THEN "stopped" ELSE "start"]
      /\ inbox' = sent /\ sent' = [s \in Procs |-> <<>>] /\ Done' = {}
      /\ ops' = [s \in Procs |-> 0]
  BY DEF Sync
<1>2. /\ Procs' = Procs /\ Edges' = Edges /\ owner' = owner /\ V' = V
      /\ \A s \in Procs : inbox[s] = <<>>
  BY <1>1, InputStays DEF IInv, Scheduled
<1>3. MailIs' /\ Mail' = Mail
  <2>1. \A s, m : IsLetter(s, m)' <=> IsLetter(s, m)
    BY <1>2 DEF IsLetter, Internal
  <2>2. \A s \in Procs : In(s) = {} /\ In(s)' = Out(s) /\ Out(s)' = {}
    BY <1>1, <1>2 DEF In, Out, Part
  <2>3. Mail' = Mail
    BY <1>2, <2>2 DEF Mail
  <2>4. \A s \in Procs : sent'[s] = <<>> /\ inbox'[s] = sent[s]
    BY <1>1
  <2>5. MailIs
    BY DEF IInv
  <2> QED BY <1>2, <2>1, <2>2, <2>3, <2>4, <2>5, EmptyLists DEF MailIs
<1>4. Shaped'
  <2>1. Shaped
    BY DEF IInv
  <2>2. /\ queue' = queue /\ match' = match /\ Alive' = Alive
        /\ Adj' = Adj /\ degree' = degree /\ Splitter' = Splitter
        /\ Suitor' = Suitor /\ Pref' = Pref
    BY <1>1 DEF lists
  <2>3. inbox' = [s \in Procs |-> inbox'[s]]
    <3>1. sent = [s \in Procs |-> sent[s]]
      BY <2>1 DEF Shaped
    <3> QED BY <1>1, <3>1
  <2>4. /\ pc' \in [Procs -> {"start", "work", "sync", "stopped"}] /\ ops' \in [Procs -> Nat]
        /\ sent' = [s \in Procs |-> sent'[s]]
    BY <1>1
  <2> QED BY <1>2, <2>1, <2>2, <2>3, <2>4 DEF Shaped
<1>5. Scheduled'
  <2>1. Scheduled /\ queue' = queue
    BY <1>1 DEF IInv
  <2>2. \A s \in Procs : sent'[s] = <<>> /\ inbox'[s] = sent[s]
    BY <1>1
  <2>3. ASSUME Done = Procs  PROVE \A t \in Procs : queue[t] = <<>> /\ sent[t] = <<>>
    BY <2>1, <2>3 DEF Scheduled
  <2>4. \A s \in Procs : pc'[s] = IF Done = Procs THEN "stopped" ELSE "start"
    BY <1>1
  <2> QED BY <1>1, <1>2, <2>1, <2>2, <2>3, <2>4 DEF Scheduled
<1> QED BY <1>1, <1>3, <1>4, <1>5, KeptInv

LEMMA StutterStep ==
  ASSUME ProperInputs, IInv, UNCHANGED vars
  PROVE  IInv'
<1>1. /\ UNCHANGED input /\ UNCHANGED <<queue, match, Alive, lists, Suitor, Pref>>
      /\ UNCHANGED <<inbox, sent>>
      /\ UNCHANGED <<inbox, sent, ops, queue, match, Alive, lists, Suitor, Pref>>
      /\ pc' = pc /\ Done' = Done
  BY DEF vars
<1>2. MailIs' /\ Mail' = Mail
  BY <1>1, SameMail DEF IInv
<1>3. Shaped'
  BY <1>1, SameShape DEF IInv, Shaped
<1>4. Scheduled'
  <2>1. Scheduled /\ Procs' = Procs /\ inbox' = inbox /\ sent' = sent /\ queue' = queue
    BY <1>1, InputStays DEF IInv
  <2> QED BY <1>1, <2>1 DEF Scheduled
<1> QED BY <1>1, <1>2, <1>3, <1>4, KeptInv
----
(* A message is received: it is about edge e, for vertex v. *)
Received(s, tag, e, v) ==
  /\ e \in Edges /\ ~ Internal(e) /\ v \in e /\ v \in V /\ owner[v] = s
  /\ e \in Flown(Mail, tag)[v]
  /\ \A t \in Procs : /\ Lists(inbox'[t], In(t) \ {Letter(s, tag, e)})
                      /\ {Letter(s, tag, e)} \cap Out(t) = {}
  /\ \A t \in Procs \ {s} : inbox'[t] = inbox[t]
  /\ inbox' = [t \in Procs |-> inbox'[t]]

Working(s) ==
  /\ UNCHANGED input /\ pc[s] = "work" /\ pc' = pc /\ Done' = Done

LEMMA ReceivedIs ==
  ASSUME ProperInputs, IInv, NEW s \in Procs, NEW i \in DOMAIN inbox[s], NEW tag,
         Moves(s, i, tag), NEW e, e = inbox[s][i].edge, NEW v, v = LocalEnd(s, e)
  PROVE  Received(s, tag, e, v)
<1> DEFINE m == inbox[s][i]
<1>1. InputIsGiven /\ MailIs /\ Shaped
  BY DEF IInv
<1>2. m.tag = tag /\ inbox' = [inbox EXCEPT ![s] = RemoveAt(@, i)]
  BY DEF Moves
<1>3. Lists(inbox[s], In(s)) /\ In(s) \cap Out(s) = {} /\ Mail[s] = In(s) \cup Out(s)
  BY <1>1 DEF MailIs, Mail
<1>4. inbox[s] \in Seq(In(s))
  BY <1>3 DEF Lists
<1>5. i \in 1 .. Len(inbox[s])
  BY <1>4
<1>6. m \in In(s)
  BY <1>4, <1>5
<1>7. IsLetter(s, m)
  BY <1>1, <1>3, <1>6 DEF MailIs
<1>8. m = Letter(s, tag, e) /\ e \in Edges /\ ~ Internal(e) /\ v \in e /\ v \in V /\ owner[v] = s
  BY <1>1, <1>2, <1>7, LetterIs
<1>9. e \in Flown(Mail, tag)[v]
  BY <1>3, <1>6, <1>8 DEF Flown, To
<1>10. inbox = [t \in Procs |-> inbox[t]]
  BY <1>1 DEF Shaped
<1>11. inbox' = [t \in Procs |-> inbox'[t]] /\ inbox'[s] = RemoveAt(inbox[s], i)
       /\ \A t \in Procs \ {s} : inbox'[t] = inbox[t]
  BY <1>2, <1>10
<1>12. ASSUME NEW t \in Procs
       PROVE  /\ Lists(inbox'[t], In(t) \ {Letter(s, tag, e)})
              /\ {Letter(s, tag, e)} \cap Out(t) = {}
  <2>1. CASE t = s
    <3>1. Lists(RemoveAt(inbox[s], i), In(s) \ {inbox[s][i]})
      BY <1>3, <1>5, RemoveAtLists
    <3>2. Letter(s, tag, e) \notin Out(s)
      BY <1>3, <1>6, <1>8
    <3> QED BY <1>8, <1>11, <2>1, <3>1, <3>2
  <2>2. CASE t # s
    <3>1. Letter(s, tag, e).to = s
      BY DEF Letter
    <3>2. \A n \in In(t) \cup Out(t) : n.to = t
      <4>1. \A n \in Mail[t] : IsLetter(t, n)
        BY <1>1 DEF MailIs
      <4>2. Mail[t] = In(t) \cup Out(t)
        BY DEF Mail
      <4> QED BY <1>1, <4>1, <4>2, LetterIs
    <3>3. Letter(s, tag, e) \notin In(t) /\ Letter(s, tag, e) \notin Out(t)
      BY <2>2, <3>1, <3>2
    <3>4. In(t) \ {Letter(s, tag, e)} = In(t)
      BY <3>3
    <3>5. Lists(inbox[t], In(t)) /\ inbox'[t] = inbox[t]
      BY <1>1, <1>11, <2>2 DEF MailIs
    <3> QED BY <3>3, <3>4, <3>5
  <2> QED BY <2>1, <2>2
<1> QED BY <1>8, <1>9, <1>11, <1>12 DEF Received

(* A halo edge taken from what is alive at s. *)
TakenFrom(A, s, e) == \A t \in Procs : A[t] = IF t = s THEN Alive[t] \ {e} ELSE Alive[t]

TakenOnlyFrom(A, v, e) ==
  \A w \in V : ListOf(w) \cap A[owner[w]] = IF w = v THEN X.avail[w] \ {e} ELSE X.avail[w]

LEMMA AvailStep ==
  ASSUME ProperInputs, InputIsGiven, ListsAre, NEW e \in Edges, ~ Internal(e), NEW v \in e,
         NEW A, TakenFrom(A, owner[v], e)
  PROVE  TakenOnlyFrom(A, v, e)
<1> SUFFICES ASSUME NEW w \in V
             PROVE  ListOf(w) \cap A[owner[w]]
                      = IF w = v THEN X.avail[w] \ {e} ELSE X.avail[w]
  BY DEF TakenOnlyFrom
<1>1. owner[w] \in Procs /\ owner[v] \in Procs /\ v \in V
  BY GraphIs, EndsAre
<1>2. A[owner[w]] = IF owner[w] = owner[v] THEN Alive[owner[w]] \ {e} ELSE Alive[owner[w]]
  BY <1>1 DEF TakenFrom
<1>3. X.avail[w] = ListOf(w) \cap Alive[owner[w]]
  BY XIs
<1>4. CASE w = v
  BY <1>2, <1>3, <1>4
<1>5. CASE w # v
  <2>1. owner[w] = owner[v] => w \notin e
    BY <1>5, HaloIs
  <2>2. owner[w] = owner[v] => e \notin ListOf(w)
    BY <2>1, ListOfEdges
  <2> QED BY <1>2, <1>3, <1>5, <2>2
<1> QED BY <1>4, <1>5

NoneOf(S, tag) == \A w \in V : To(S, tag, w) = {}

LEMMA FlownSame ==
  ASSUME ProperInputs, InputIsGiven, NEW M, NEW gone, NEW new, NEW tag,
         NoneOf(gone, tag), NoneOf(new, tag)
  PROVE  Flown(Moved(M, gone, new), tag) = Flown(M, tag)
<1>1. \A w \in V : Flown(Moved(M, gone, new), tag)[w] = Flown(M, tag)[w]
  BY FlownIs DEF NoneOf
<1>2. /\ Flown(M, tag) = [w \in V |-> Flown(M, tag)[w]]
      /\ Flown(Moved(M, gone, new), tag) = [w \in V |-> Flown(Moved(M, gone, new), tag)[w]]
  BY DEF Flown
<1> QED BY <1>1, <1>2

LEMMA RejectionArrives ==
  ASSUME ProperInputs, IInv, NEW s \in Procs, NEW i \in DOMAIN inbox[s],
         ReceiveRejection(s, i)
  PROVE  IInv' /\ Suitor' = Suitor
<1> DEFINE e == inbox[s][i].edge
           v == LocalEnd(s, e)
           m == Letter(s, "REJECT", e)
<1>1. /\ Moves(s, i, "REJECT") /\ queue' = [queue EXCEPT ![s] = queue[s] \o <<v>>]
      /\ Pref' = [Pref EXCEPT ![v] = DUMMY]
      /\ Alive' = [Alive EXCEPT ![s] = @ \ {e}]
      /\ sent' = sent /\ match' = match /\ degree' = degree /\ Suitor' = Suitor
      /\ Adj' = Adj /\ Splitter' = Splitter /\ ops' = ops
  BY DEF ReceiveRejection, Moves, Push
<1>2. Received(s, "REJECT", e, v)
  BY <1>1, ReceivedIs
<1> HIDE DEF e, v
<1>3. Working(s)
  BY <1>1 DEF Moves, Working
<1>4. /\ InputIsGiven /\ MailIs /\ Shaped /\ ListsAre /\ QueuesAre /\ MatchesAre /\ Scheduled
      /\ Protocol(G, X) /\ UNCHANGED input
  BY <1>3 DEF IInv, Working
<1>5. e \in Edges /\ ~ Internal(e) /\ v \in e /\ v \in V /\ owner[v] = s
  BY <1>2 DEF Received
<1>m. MailIs' /\ Mail' = Moved(Mail, {m}, {})
  <2>1. MailMoves({m}, {})
    <3>1. \A t \in Procs : Lists(sent[t], Out(t))
      BY <1>4 DEF MailIs
    <3>2. \A t \in Procs : Out(t) \cup {n \in {} : n.to = t} = Out(t)
      OBVIOUS
    <3> QED BY <1>1, <1>2, <3>1, <3>2 DEF MailMoves, Received
  <2> QED BY <1>4, <2>1, MailStep
<1>q. v \notin X.queued
  <2>1. e \in X.rej[v]
    BY <1>2, XIs DEF Received
  <2>2. Pref[v] = e /\ e # DUMMY
    <3>1. X.pref[v] = e
      BY <1>4, <1>5, <2>1, GIs DEF Protocol, RejectionsHold
    <3> QED BY <1>4, <1>5, <3>1, XIs, EdgesAreNoDummy
  <2> QED BY <1>4, <1>5, <2>2, GIs, XIs DEF Protocol, QueuedAreFree
<1>6. X'.queued = X.queued \cup {v} /\ QueuesAre'
  <2>1. X.queued \cup {v} \subseteq V
    BY <1>5, XIs
  <2>2. ASSUME NEW t \in Procs  PROVE Lists(queue'[t], Queued(t, X.queued \cup {v}))
    <3>1. Lists(queue[t], Queued(t, X.queued))
      BY <1>4 DEF QueuesAre
    <3>2. queue'[t] = IF t = s THEN queue[s] \o <<v>> ELSE queue[t]
      BY <1>1, <1>4 DEF Shaped
    <3>3. CASE t = s
      <4>1. Queued(s, X.queued \cup {v}) = Queued(s, X.queued) \cup {v}
        BY <1>5 DEF Queued
      <4>2. {v} \cap Queued(s, X.queued) = {}
        BY <1>q DEF Queued
      <4>3. Lists(queue[s] \o <<v>>, Queued(s, X.queued) \cup {v})
        BY <3>1, <3>3, <4>2, PushLists
      <4> QED BY <3>2, <3>3, <4>1, <4>3
    <3>4. CASE t # s
      <4>1. Queued(t, X.queued \cup {v}) = Queued(t, X.queued)
        BY <1>5, <3>4 DEF Queued
      <4> QED BY <3>1, <3>2, <3>4, <4>1
    <3> QED BY <3>3, <3>4
  <2> QED BY <1>4, <2>1, <2>2, QueueStep
<1>7. Rejection(G, X, X', v, e)
  <2>1. v \in G.V /\ e \in X.rej[v]
    BY <1>2, <1>5, GIs, XIs DEF Received
  <2>2. X'.suitor = X.suitor /\ X'.list = X.list
    <3>1. V' = V
      BY <1>4, InputStays
    <3> QED BY <1>1, <3>1 DEF X, ListOf
  <2>3. X'.prop = X.prop /\ X'.acc = X.acc
    <3>1. /\ NoneOf({m}, "PROPOSE") /\ NoneOf({m}, "ACCEPT")
          /\ NoneOf({}, "PROPOSE") /\ NoneOf({}, "ACCEPT")
      BY <1>4, <1>5, ToOne, ToNone DEF NoneOf
    <3>2. /\ Flown(Mail', "PROPOSE") = Flown(Mail, "PROPOSE")
          /\ Flown(Mail', "ACCEPT") = Flown(Mail, "ACCEPT")
      BY <1>4, <1>m, <3>1, FlownSame
    <3> QED BY <1>4, <3>2, NextX, XIs
  <2>4. ASSUME NEW w \in V
        PROVE  X'.rej[w] = IF w = v THEN X.rej[w] \ {e} ELSE X.rej[w]
    <3>1. X'.rej[w] = (X.rej[w] \ To({m}, "REJECT", w)) \cup To({}, "REJECT", w)
      <4>1. X'.rej = Flown(Mail', "REJECT") /\ X.rej = Flown(Mail, "REJECT")
        BY <1>4, NextX, XIs
      <4> QED BY <1>4, <1>m, <4>1, FlownIs
    <3>2. To({m}, "REJECT", w) = (IF w = v THEN {e} ELSE {}) /\ To({}, "REJECT", w) = {}
      BY <1>4, <1>5, ToOne, ToNone
    <3> QED BY <3>1, <3>2
  <2>5. ASSUME NEW w \in V
        PROVE  X'.avail[w] = IF w = v THEN X.avail[w] \ {e} ELSE X.avail[w]
    <3>1. X'.avail[w] = ListOf(w) \cap Alive'[owner[w]]
      BY <1>1, <1>4, NextX DEF ListOf
    <3>2. Alive \in [Procs -> SUBSET Edges]
      BY <1>4 DEF Shaped
    <3>3. TakenFrom(Alive', owner[v], e)
      BY <1>1, <1>5, <3>2 DEF TakenFrom
    <3>4. TakenOnlyFrom(Alive', v, e)
      BY <1>4, <1>5, <3>3, AvailStep
    <3> QED BY <3>1, <3>4 DEF TakenOnlyFrom
  <2>6. ASSUME NEW w \in V
        PROVE  X'.pref[w] = IF w = v THEN DUMMY ELSE X.pref[w]
    BY <1>1, <1>4, NextX, XIs DEF Shaped
  <2>7. G.V = V
    BY GIs
  <2> QED BY <1>6, <2>1, <2>2, <2>3, <2>4, <2>5, <2>6, <2>7 DEF Rejection
<1>8. Protocol(G, X') /\ SameMatches(G, X, X')
  <2>1. IsRanked(G)
    BY <1>4, GIsRanked
  <2> QED BY <1>4, <1>7, <2>1, RejectionStep
<1>9. MatchesAre' /\ Protocol(G, X)'
  BY <1>1, <1>4, <1>8, SameRegisters, ProtocolNext
<1>10. ListsAre'
  <2>1. \A w \in V : ListIs(w, Adj'[w], degree'[w], Splitter'[w])
    BY <1>1, <1>4 DEF ListsAre
  <2> QED BY <1>4, <2>1, ListsNext
<1>11. Scheduled'
  <2>1. \A t \in Procs \ {s} : inbox'[t] = inbox[t] /\ queue'[t] = queue[t]
    BY <1>1, <1>2, <1>4 DEF Received, Shaped
  <2> QED BY <1>3, <1>4, <2>1, WorkSchedule DEF Working
<1>12. Shaped'
  <2>1. Procs' = Procs /\ Edges' = Edges /\ V' = V
    BY <1>4, InputStays
  <2>2. pc' = pc /\ ops' = ops /\ inbox' = [t \in Procs |-> inbox'[t]]
    BY <1>1, <1>2, <1>3 DEF Received, Working
  <2>3. Alive' \in [Procs -> SUBSET Edges]
    BY <1>1, <1>4 DEF Shaped
  <2>4. queue' = [t \in Procs |-> queue'[t]] /\ Pref' = [w \in V |-> Pref'[w]]
    BY <1>1, <1>4 DEF Shaped
  <2> QED BY <1>1, <1>4, <2>1, <2>2, <2>3, <2>4 DEF Shaped
<1>13. InputIsGiven'
  BY <1>4, InputStays
<1> QED BY <1>1, <1>m, <1>6, <1>9, <1>10, <1>11, <1>12, <1>13 DEF IInv
----
(* A message that may be sent. *)
MayBeSent(m) == m.to \in Procs /\ IsLetter(m.to, m) /\ m \notin Mail[m.to]

LEMMA NewLetter ==
  ASSUME ProperInputs, InputIsGiven, NEW e \in Edges, ~ Internal(e), NEW u \in e,
         NEW tag \in Tags, e \notin Flown(Mail, tag)[u]
  PROVE  MayBeSent(Letter(owner[u], tag, e))
<1>1. u \in V /\ owner[u] \in Procs
  BY EndsAre, GraphIs
<1>2. Letter(owner[u], tag, e).to = owner[u]
  BY DEF Letter
<1>3. IsLetter(owner[u], Letter(owner[u], tag, e))
  BY DEF IsLetter
<1>4. Letter(owner[u], tag, e) \notin Mail[owner[u]]
  BY <1>1 DEF Flown, To
<1> QED BY <1>1, <1>2, <1>3, <1>4 DEF MayBeSent

LEMMA MessageIs ==
  ASSUME ProperInputs, InputIsGiven, NEW e \in Edges, ~ Internal(e), NEW v \in e, NEW tag
  PROVE  Message(owner[v], tag, e) = Letter(owner[Other(v, e)], tag, e)
BY HaloIs DEF Message, Letter

SendsAll(S) == \A t \in Procs : Lists(sent'[t], Out(t) \cup {m \in S : m.to = t})

LEMMA SendIs ==
  ASSUME MailIs, NEW first, NEW second, Send(first, second), NEW M1, NEW M2,
         Mails(first, M1), Mails(second, M2), M1 \cap M2 = {},
         NEW S, S = M1 \cup M2, \A m \in S : MayBeSent(m)
  PROVE  SendsAll(S)
<1> SUFFICES ASSUME NEW t \in Procs
             PROVE  Lists(sent'[t], Out(t) \cup {m \in S : m.to = t})
  BY DEF SendsAll
<1>1. sent'[t] = sent[t] \o For(t, first) \o For(t, second)
  BY DEF Send
<1>2. Lists(sent[t], Out(t)) /\ Mail[t] = In(t) \cup Out(t)
  BY DEF MailIs, Mail
<1> DEFINE A == {m \in M1 : m.to = t}  B == {m \in M2 : m.to = t}
           f == For(t, first)  h == For(t, second)
<1>3. Lists(f, A) /\ Lists(h, B)
  BY ForLists
<1>4. \A m \in A \cup B : m \notin Out(t)
  BY <1>2 DEF MayBeSent
<1>5. Out(t) \cap A = {} /\ (Out(t) \cup A) \cap B = {}
  BY <1>4
<1>6. Out(t) \cup {m \in S : m.to = t} = (Out(t) \cup A) \cup B
  OBVIOUS
<1> HIDE DEF A, B, f, h
<1>7. Lists(sent[t] \o f, Out(t) \cup A)
  BY <1>2, <1>3, <1>5, ConcatLists
<1>8. Lists((sent[t] \o f) \o h, (Out(t) \cup A) \cup B)
  BY <1>3, <1>5, <1>7, ConcatLists
<1>9. (sent[t] \o f) \o h = sent'[t]
  BY <1>1 DEF f, h
<1> QED BY <1>6, <1>8, <1>9

LEMMA ReceiveMail ==
  ASSUME ProperInputs, InputIsGiven, MailIs, UNCHANGED input,
         NEW s, NEW tag, NEW e, NEW v, Received(s, tag, e, v),
         NEW second, NEW new, Mails(second, new), Send(<<>>, second),
         \A m \in new : MayBeSent(m)
  PROVE  MailIs' /\ Mail' = Moved(Mail, {Letter(s, tag, e)}, new)
<1>1. Mails(<<>>, {})
  BY DEF Mails
<1>2. SendsAll(new)
  <2>1. {} \cap new = {} /\ new = {} \cup new
    OBVIOUS
  <2> QED BY <1>1, <2>1, SendIs
<1>3. MailMoves({Letter(s, tag, e)}, new)
  BY <1>2 DEF MailMoves, Received, MayBeSent, SendsAll
<1> QED BY <1>3, MailStep

LEMMA SentIsFunction ==
  ASSUME NEW first, NEW second, Send(first, second)
  PROVE  sent' = [t \in Procs |-> sent'[t]]
<1> DEFINE F(t) == sent[t] \o For(t, first) \o For(t, second)
<1>1. sent' = [t \in Procs |-> F(t)]
  BY DEF Send
<1> HIDE DEF F
<1> QED BY <1>1

LEMMA ProposalRefused ==
  ASSUME ProperInputs, IInv, NEW s \in Procs, NEW i \in DOMAIN inbox[s],
         NEW e, e = inbox[s][i].edge, NEW v, v = LocalEnd(s, e),
         Moves(s, i, "PROPOSE"), RegisterMutual(s, v, e), ~ Heavier(e, Suitor[v]),
         Send(<<>>, <<Message(s, "REJECT", e)>>),
         Alive' = [Alive EXCEPT ![s] = @ \ {e}],
         UNCHANGED <<queue, Suitor, Pref>>
  PROVE  IInv'
<1> DEFINE u == Other(v, e)
           m == Letter(s, "PROPOSE", e)
           r == Letter(owner[u], "REJECT", e)
<1>1. Adj' = Adj /\ Splitter' = Splitter /\ ops' = ops /\ queue' = queue
      /\ Suitor' = Suitor /\ Pref' = Pref
  BY DEF Moves
<1>2. Received(s, "PROPOSE", e, v)
  BY <1>1, ReceivedIs
<1>3. Working(s)
  BY DEF Moves, Working
<1>4. /\ InputIsGiven /\ MailIs /\ Shaped /\ ListsAre /\ QueuesAre /\ MatchesAre /\ Scheduled
      /\ Protocol(G, X) /\ UNCHANGED input
  BY <1>3 DEF IInv, Working
<1>5. e \in Edges /\ ~ Internal(e) /\ v \in e /\ v \in V /\ owner[v] = s
  BY <1>2 DEF Received
<1>u. u \in V /\ u \in e /\ u # v /\ Other(u, e) = v
  BY <1>4, <1>5, EndsAre
<1>p. e \in X.prop[v]
  BY <1>2, XIs DEF Received
<1>r. ~ (Rank[e] > Rank[X.suitor[v]])
  <2>1. Suitor[v] \in Edges \cup {DUMMY}
    BY <1>4, <1>5, SuitorIs
  <2> QED BY <1>4, <1>5, <2>1, RankIs, XIs
<1>n. Pref[v] # e /\ e \notin X.rej[u]
  <2>1. Suitor[v] # e /\ e \notin X.rej[u]
    BY <1>4, <1>5, <1>p, GIs, XIs DEF Protocol, ProposalsHold
  <2>2. ASSUME Pref[v] = e  PROVE FALSE
    <3>1. Suitor[v] = DUMMY \/ (Suitor[v] \in Edges /\ v \in Suitor[v])
      BY <1>4, <1>5, SuitorIs
    <3>2. Rank[Suitor[v]] <= Rank[e]
      <4>1. e # DUMMY
        BY <1>4, <1>5, EdgesAreNoDummy
      <4> QED BY <1>4, <1>5, <2>2, <4>1, GIs, XIs DEF Protocol, SuitorsAreLighter
    <3>3. Rank[Suitor[v]] \in Int /\ Rank[e] \in Nat /\ Rank[DUMMY] = -1
      BY <1>4, <1>5, <3>1, RankIs
    <3>4. Rank[Suitor[v]] = Rank[e]
      BY <1>r, <3>2, <3>3, XIs
    <3>5. Suitor[v] \in Edges /\ v \in Suitor[v]
      BY <3>1, <3>3, <3>4
    <3>6. Suitor[v] = e
      BY <1>4, <1>5, <3>4, <3>5, RanksDiffer
    <3> QED BY <2>1, <3>6
  <2> QED BY <2>1, <2>2
<1>d. degree' = degree /\ match' = match
  BY <1>n, <1>4 DEF RegisterMutual, Shaped
<1>m. MailIs' /\ Mail' = Moved(Mail, {m}, {r})
  <2>1. Message(s, "REJECT", e) = r
    BY <1>4, <1>5, MessageIs
  <2>2. MayBeSent(r)
    <3>1. e \notin Flown(Mail, "REJECT")[u] /\ "REJECT" \in Tags
      BY <1>n, XIs DEF Tags
    <3> QED BY <1>4, <1>5, <1>u, <3>1, NewLetter
  <2>3. Mails(<<r>>, {r}) /\ Send(<<>>, <<r>>)
    BY <2>1 DEF Mails
  <2> HIDE DEF r, m
  <2>4. Received(s, "PROPOSE", e, v) /\ \A x \in {r} : MayBeSent(x)
    BY <1>2, <2>2
  <2>5. InputIsGiven /\ MailIs /\ UNCHANGED input
    BY <1>4
  <2>6. MailIs' /\ Mail' = Moved(Mail, {Letter(s, "PROPOSE", e)}, {r})
    BY <2>3, <2>4, <2>5, ReceiveMail
  <2> QED BY <2>6 DEF m
<1>q. X'.queued = X.queued /\ QueuesAre'
  <2>1. X.queued \subseteq V /\ \A t \in Procs : Lists(queue'[t], Queued(t, X.queued))
    BY <1>1, <1>4, XIs DEF QueuesAre
  <2> QED BY <1>4, <2>1, QueueStep
<1>7. Refusal(G, X, X', v, e)
  <2>1. v \in G.V /\ ~ (G.rank[e] > G.rank[X.suitor[v]])
    BY <1>5, <1>r, GIs
  <2>2. X'.suitor = X.suitor /\ X'.pref = X.pref /\ X'.list = X.list
    <3>1. V' = V
      BY <1>4, InputStays
    <3> QED BY <1>1, <1>d, <3>1 DEF X, ListOf
  <2>t. \A w \in V : /\ To({m}, "ACCEPT", w) = {} /\ To({r}, "ACCEPT", w) = {}
                     /\ To({m}, "REJECT", w) = {} /\ To({r}, "PROPOSE", w) = {}
                     /\ To({m}, "PROPOSE", w) = (IF w = v THEN {e} ELSE {})
                     /\ To({r}, "REJECT", w) = (IF w = u THEN {e} ELSE {})
    <3>1. m = Letter(owner[v], "PROPOSE", e)
      BY <1>5
    <3>2. \A w \in V : \A tag : To({Letter(owner[v], "PROPOSE", e)}, tag, w)
                                  = IF tag = "PROPOSE" /\ w = v THEN {e} ELSE {}
      BY <1>4, <1>5, ToOne
    <3>3. \A w \in V : \A tag : To({Letter(owner[u], "REJECT", e)}, tag, w)
                                  = IF tag = "REJECT" /\ w = u THEN {e} ELSE {}
      BY <1>4, <1>5, <1>u, ToOne
    <3> QED BY <3>1, <3>2, <3>3
  <2>3. X'.acc = X.acc
    <3>1. Flown(Mail', "ACCEPT") = Flown(Mail, "ACCEPT")
      <4>1. NoneOf({m}, "ACCEPT") /\ NoneOf({r}, "ACCEPT")
        BY <2>t DEF NoneOf
      <4> HIDE DEF m, r
      <4>2. Flown(Moved(Mail, {m}, {r}), "ACCEPT") = Flown(Mail, "ACCEPT")
        BY <1>4, <4>1, FlownSame
      <4> QED BY <1>m, <4>2
    <3> QED BY <1>4, <3>1, NextX, XIs
  <2>4. ASSUME NEW w \in V
        PROVE  /\ X'.prop[w] = IF w = v THEN X.prop[w] \ {e} ELSE X.prop[w]
               /\ X'.rej[w] = IF w = u THEN X.rej[w] \cup {e} ELSE X.rej[w]
    <3>1. /\ X'.prop[w] = (X.prop[w] \ To({m}, "PROPOSE", w)) \cup To({r}, "PROPOSE", w)
          /\ X'.rej[w] = (X.rej[w] \ To({m}, "REJECT", w)) \cup To({r}, "REJECT", w)
      <4>1. /\ X'.rej = Flown(Mail', "REJECT") /\ X.rej = Flown(Mail, "REJECT")
            /\ X'.prop = Flown(Mail', "PROPOSE") /\ X.prop = Flown(Mail, "PROPOSE")
        BY <1>4, NextX, XIs
      <4> HIDE DEF m, r
      <4> QED BY <1>4, <1>m, <4>1, FlownIs
    <3> QED BY <2>t, <3>1, ZenonT(60)
  <2>5. ASSUME NEW w \in V
        PROVE  X'.avail[w] = IF w = v THEN X.avail[w] \ {e} ELSE X.avail[w]
    <3>1. X'.avail[w] = ListOf(w) \cap Alive'[owner[w]]
      BY <1>1, <1>d, <1>4, NextX DEF ListOf
    <3>3. TakenFrom(Alive', owner[v], e)
      BY <1>1, <1>4, <1>5 DEF TakenFrom, Shaped
    <3>4. TakenOnlyFrom(Alive', v, e)
      BY <1>4, <1>5, <3>3, AvailStep
    <3> QED BY <3>1, <3>4 DEF TakenOnlyFrom
  <2>7. G.V = V
    BY GIs
  <2> QED BY <1>p, <1>q, <2>1, <2>2, <2>3, <2>4, <2>5, <2>7 DEF Refusal
<1> HIDE DEF m, r, u
<1>8. Protocol(G, X') /\ SameMatches(G, X, X')
  <2>1. IsRanked(G)
    BY <1>4, GIsRanked
  <2> QED BY <1>4, <1>7, <2>1, RefusalStep
<1>9. MatchesAre' /\ Protocol(G, X)'
  BY <1>d, <1>4, <1>8, SameRegisters, ProtocolNext
<1>10. ListsAre'
  <2>1. \A w \in V : ListIs(w, Adj'[w], degree'[w], Splitter'[w])
    BY <1>1, <1>d, <1>4 DEF ListsAre
  <2> QED BY <1>4, <2>1, ListsNext
<1>11. Scheduled'
  <2>1. \A t \in Procs \ {s} : inbox'[t] = inbox[t] /\ queue'[t] = queue[t]
    BY <1>1, <1>2 DEF Received
  <2> QED BY <1>3, <1>4, <2>1, WorkSchedule DEF Working
<1>12. Shaped'
  <2>1. Procs' = Procs /\ Edges' = Edges /\ V' = V
    BY <1>4, InputStays
  <2>2. pc' = pc /\ ops' = ops /\ inbox' = [t \in Procs |-> inbox'[t]]
    BY <1>1, <1>2, <1>3 DEF Received, Working
  <2>3. Alive' \in [Procs -> SUBSET Edges]
    BY <1>1, <1>4 DEF Shaped
  <2>4. sent' = [t \in Procs |-> sent'[t]]
    BY SentIsFunction
  <2> QED BY <1>1, <1>d, <1>4, <2>1, <2>2, <2>3, <2>4 DEF Shaped
<1>13. InputIsGiven'
  BY <1>4, InputStays
<1> QED BY <1>1, <1>m, <1>q, <1>9, <1>10, <1>11, <1>12, <1>13 DEF IInv
----
(* The proposer behind f, the suitor of v so far, is rejected: queued again
   if it is of the same process, told if not. *)
Requeues(v, f) == {w \in {Other(v, f)} : Requeued(G, f)}

Tells(v, f) == {m \in {Letter(owner[Other(v, f)], "REJECT", f)} : Told(G, f)}

Pushes(vertices, W) ==
  (W = {} /\ vertices = <<>>) \/ (\E o : W = {o} /\ vertices = <<o>>)

LEMMA RejectingIs ==
  ASSUME ProperInputs, InputIsGiven, NEW v \in V, NEW f,
         f = DUMMY \/ (f \in Edges /\ v \in f), NEW s, s = owner[v]
  PROVE  /\ Pushes(Rejecting(s, v, f).push, Requeues(v, f))
         /\ Mails(Rejecting(s, v, f).send, Tells(v, f))
         /\ Rejecting(s, v, f).dead = {f} \ {DUMMY}
<1> DEFINE r == Rejecting(s, v, f)  o == Other(v, f)
<1>1. /\ r.push = IF f # DUMMY /\ Internal(f) THEN <<o>> ELSE <<>>
      /\ r.send = IF f = DUMMY \/ Internal(f) THEN <<>> ELSE <<Message(s, "REJECT", f)>>
      /\ r.dead = {f} \ {DUMMY}
  BY DEF Rejecting, Message
<1>2. Requeued(G, f) <=> f # DUMMY /\ Internal(f)
  BY GIs DEF Requeued
<1>3. Told(G, f) <=> f # DUMMY /\ ~ Internal(f)
  BY GIs DEF Told
<1>4. Pushes(r.push, Requeues(v, f))
  BY <1>1, <1>2 DEF Pushes, Requeues
<1>5. Mails(r.send, Tells(v, f))
  <2>1. CASE f = DUMMY \/ Internal(f)
    <3>1. r.send = <<>> /\ Tells(v, f) = {}
      BY <1>1, <1>3, <2>1 DEF Tells
    <3> QED BY <3>1 DEF Mails
  <2>2. CASE ~ (f = DUMMY \/ Internal(f))
    <3>1. Message(s, "REJECT", f) = Letter(owner[o], "REJECT", f)
      BY <2>2, MessageIs
    <3>2. Tells(v, f) = {Letter(owner[o], "REJECT", f)}
      BY <1>3, <2>2 DEF Tells
    <3>3. r.send = <<Letter(owner[o], "REJECT", f)>>
      BY <1>1, <2>2, <3>1
    <3> QED BY <3>2, <3>3 DEF Mails
  <2> QED BY <2>1, <2>2
<1> QED BY <1>1, <1>4, <1>5

(* The suitor of v so far may be rejected. *)
MayReject(v, f) ==
  /\ \A w \in Requeues(v, f) : w \in V /\ owner[w] = owner[v] /\ X.pref[w] = f /\ w \notin X.queued
  /\ \A m \in Tells(v, f) : MayBeSent(m)
  /\ \A tag : \A w \in V : To(Tells(v, f), tag, w)
       = IF Told(G, f) /\ tag = "REJECT" /\ w = Other(v, f) THEN {f} ELSE {}

LEMMA MayRejectIs ==
  ASSUME ProperInputs, InputIsGiven, Protocol(G, X), NEW v \in V, NEW f,
         f = DUMMY \/ f = Suitor[v]
  PROVE  MayReject(v, f)
<1> DEFINE o == Other(v, f)
<1>1. CASE f = DUMMY
  <2>1. Requeues(v, f) = {} /\ Tells(v, f) = {} /\ ~ Told(G, f)
    BY <1>1 DEF Requeues, Tells, Requeued, Told
  <2> QED BY <2>1, ToNone DEF MayReject
<1>2. CASE f # DUMMY
  <2>1. f = Suitor[v] /\ f \in Edges /\ v \in f
    BY <1>2, SuitorIs
  <2>2. o \in V /\ o \in f /\ Other(o, f) = v
    BY <2>1, EndsAre
  <2>3. X.pref[o] = f
    BY <1>2, <2>1, GIs, XIs DEF Protocol, SuitorsPropose
  <2>4. o \notin X.queued
    BY <1>2, <2>2, <2>3, GIs DEF Protocol, QueuedAreFree
  <2>5. f \notin X.rej[o]
    <3>1. ASSUME f \in X.rej[o]  PROVE FALSE
      <4>1. Rank[X.suitor[v]] > Rank[f]
        BY <2>2, <3>1, GIs DEF Protocol, RejectionsHold
      <4>2. Rank[f] \in Nat
        BY <2>1, RankIs
      <4> QED BY <2>1, <4>1, <4>2, XIs
    <3> QED BY <3>1
  <2>6. \A w \in Requeues(v, f) :
          w \in V /\ owner[w] = owner[v] /\ X.pref[w] = f /\ w \notin X.queued
    <3>1. Requeued(G, f) => Internal(f)
      BY <2>1, GIs DEF Requeued
    <3>2. Requeued(G, f) => owner[o] = owner[v]
      BY <2>1, <3>1, InternalIs
    <3> QED BY <2>2, <2>3, <2>4, <3>2 DEF Requeues
  <2>7. CASE ~ Told(G, f)
    <3>1. Tells(v, f) = {}
      BY <2>7 DEF Tells
    <3> QED BY <2>6, <2>7, <3>1, ToNone DEF MayReject
  <2>8. CASE Told(G, f)
    <3>1. ~ Internal(f)
      BY <2>1, <2>8, GIs DEF Told
    <3>2. Tells(v, f) = {Letter(owner[o], "REJECT", f)}
      BY <2>8 DEF Tells
    <3>3. f \notin Flown(Mail, "REJECT")[o] /\ "REJECT" \in Tags
      BY <2>5, XIs DEF Tags
    <3>4. MayBeSent(Letter(owner[o], "REJECT", f))
      BY <2>1, <2>2, <3>1, <3>3, NewLetter
    <3>5. \A tag : \A w \in V : To({Letter(owner[o], "REJECT", f)}, tag, w)
            = IF tag = "REJECT" /\ w = o THEN {f} ELSE {}
      BY <2>1, <2>2, <3>1, ToOne
    <3> QED BY <2>6, <2>8, <3>2, <3>4, <3>5 DEF MayReject
  <2> QED BY <2>7, <2>8
<1> QED BY <1>1, <1>2

(* At the end of a queue the vertices W are put. *)
LEMMA PushStep ==
  ASSUME ProperInputs, InputIsGiven, UNCHANGED input, NEW s \in Procs, NEW q, q \subseteq V,
         NEW rest, Lists(rest, Queued(s, q)),
         \A t \in Procs : t # s => Lists(queue[t], Queued(t, q)),
         NEW vertices, NEW W, Pushes(vertices, W),
         \A w \in W : w \in V /\ owner[w] = s /\ w \notin q,
         Push(s, rest, vertices), queue = [t \in Procs |-> queue[t]]
  PROVE  /\ X'.queued = q \cup W /\ QueuesAre' /\ queue' = [t \in Procs |-> queue'[t]]
         /\ \A t \in Procs \ {s} : queue'[t] = queue[t]
<1>1. /\ queue' = [t \in Procs |-> queue'[t]] /\ queue'[s] = rest \o vertices
      /\ \A t \in Procs \ {s} : queue'[t] = queue[t]
  BY DEF Push
<1>2. ASSUME NEW t \in Procs  PROVE Lists(queue'[t], Queued(t, q \cup W))
  <2>1. CASE t = s
    <3>1. Queued(s, q \cup W) = Queued(s, q) \cup W
      BY DEF Queued
    <3>2. W \cap Queued(s, q) = {}
      BY DEF Queued
    <3>3. Lists(rest \o vertices, Queued(s, q) \cup W)
      BY <3>2, PushLists DEF Pushes
    <3> QED BY <1>1, <2>1, <3>1, <3>3
  <2>2. CASE t # s
    <3>1. Queued(t, q \cup W) = Queued(t, q)
      BY <2>2 DEF Queued
    <3> QED BY <1>1, <2>2, <3>1
  <2> QED BY <2>1, <2>2
<1>3. q \cup W \subseteq V
  OBVIOUS
<1>4. X'.queued = q \cup W /\ QueuesAre'
  BY <1>2, <1>3, QueueStep
<1> QED BY <1>1, <1>4

LEMMA PushesSet ==
  ASSUME NEW vertices, NEW W, Pushes(vertices, W)
  PROVE  ToSet(vertices) = W
<1>1. Lists(<<>>, {}) /\ W \cap {} = {}
  BY EmptyLists
<1> QED BY <1>1, PushLists DEF Pushes
----
(* A proposal or an acceptance of e, which displaces the suitor of v. *)
Arrives(s, i, tag, e, v) ==
  /\ tag \in {"PROPOSE", "ACCEPT"}
  /\ e = inbox[s][i].edge /\ v = LocalEnd(s, e)
  /\ Moves(s, i, tag) /\ Displace(s, v, e)
  /\ match' = [match EXCEPT ![s] = IF e = Pref[v] THEN Append(@, e) ELSE @]
  /\ degree' = [degree EXCEPT ![v] = IF e = Pref[v] THEN 0 ELSE @]
  /\ Rank[e] > Rank[Suitor[v]]

LEMMA ArrivalInv ==
  ASSUME ProperInputs, IInv, NEW s \in Procs, NEW i \in DOMAIN inbox[s],
         NEW tag, NEW e, NEW v, Arrives(s, i, tag, e, v)
  PROVE  IInv' /\ Improves(G, X, X')
<1> DEFINE f == Suitor[v]
           o == Other(v, f)
           r == Rejecting(s, v, f)
           m == Letter(s, tag, e)
<1>1. /\ Moves(s, i, tag) /\ Suitor' = [Suitor EXCEPT ![v] = e]
      /\ Push(s, queue[s], r.push) /\ Pref' = Unprefer(Pref, r.push)
      /\ Send(<<>>, r.send) /\ Alive' = [Alive EXCEPT ![s] = @ \ r.dead]
      /\ Adj' = Adj /\ Splitter' = Splitter /\ ops' = ops
      /\ tag \in {"PROPOSE", "ACCEPT"} /\ Rank[e] > Rank[f]
      /\ e = inbox[s][i].edge /\ v = LocalEnd(s, e)
  BY DEF Arrives, Displace, Moves
<1>2. Received(s, tag, e, v)
  BY <1>1, ReceivedIs
<1>3. Working(s)
  BY <1>1 DEF Moves, Working
<1>4. /\ InputIsGiven /\ MailIs /\ Shaped /\ ListsAre /\ QueuesAre /\ MatchesAre /\ Scheduled
      /\ Protocol(G, X) /\ UNCHANGED input
  BY <1>3 DEF IInv, Working
<1>5. e \in Edges /\ ~ Internal(e) /\ v \in e /\ v \in V /\ owner[v] = s
  BY <1>2, SMTT(60) DEF Received
<1>p. e \in X.prop[v] \/ e \in X.acc[v]
  BY <1>1, <1>2, XIs DEF Received
<1>f. f = DUMMY \/ (f \in Edges /\ v \in f)
  BY <1>4, <1>5, SuitorIs
<1>r. Pushes(r.push, Requeues(v, f)) /\ Mails(r.send, Tells(v, f)) /\ r.dead = {f} \ {DUMMY}
  <2> HIDE DEF f
  <2> QED BY <1>4, <1>5, <1>f, RejectingIs
<1>j. MayReject(v, f)
  BY <1>4, <1>5, MayRejectIs
<1>m. MailIs' /\ Mail' = Moved(Mail, {m}, Tells(v, f)) /\ sent' = [t \in Procs |-> sent'[t]]
  <2>1. \A n \in Tells(v, f) : MayBeSent(n)
    BY <1>j DEF MayReject
  <2> HIDE DEF f, r
  <2>2. MailIs' /\ Mail' = Moved(Mail, {Letter(s, tag, e)}, Tells(v, f))
    BY <1>1, <1>2, <1>4, <1>r, <2>1, ReceiveMail
  <2> QED BY <1>1, <2>2, SentIsFunction DEF m
<1>q. /\ X'.queued = X.queued \cup Requeues(v, f) /\ QueuesAre'
      /\ queue' = [t \in Procs |-> queue'[t]]
      /\ \A t \in Procs \ {s} : queue'[t] = queue[t]
  <2>1. X.queued \subseteq V
    BY XIs
  <2>2. Lists(queue[s], Queued(s, X.queued)) /\ \A t \in Procs : Lists(queue[t], Queued(t, X.queued))
    BY <1>4 DEF QueuesAre
  <2>3. \A w \in Requeues(v, f) : w \in V /\ owner[w] = s /\ w \notin X.queued
    BY <1>j, <1>5 DEF MayReject
  <2>4. queue = [t \in Procs |-> queue[t]]
    BY <1>4 DEF Shaped
  <2> HIDE DEF f, r
  <2> QED BY <1>1, <1>4, <1>r, <2>1, <2>2, <2>3, <2>4, PushStep
<1>pref. \A w \in V : Pref'[w] = IF Requeued(G, f) /\ w = o THEN DUMMY ELSE Pref[w]
  <2>1. ToSet(r.push) = Requeues(v, f)
    BY <1>r, PushesSet
  <2> HIDE DEF r
  <2> QED BY <1>1, <2>1 DEF Unprefer, Requeues
<1>deg. \A w \in V : degree'[w] = IF w = v /\ Pref[v] = e THEN 0 ELSE degree[w]
  BY <1>4, <1>5, SMTT(60) DEF Arrives, Shaped
<1>7. Winning(G, X, X', v, e)
  <2>g. G.V = V /\ G.rank = Rank
    BY GIs
  <2>x. X.suitor = Suitor /\ X.pref = Pref /\ X'.suitor = Suitor' /\ X'.pref = Pref'
    BY <1>4, XIs, NextX
  <2>2. X'.queued = IF Requeued(G, f) THEN X.queued \cup {o} ELSE X.queued
    BY <1>q DEF Requeues
  <2>3. ASSUME NEW w \in V
        PROVE  /\ X'.suitor[w] = IF w = v THEN e ELSE X.suitor[w]
               /\ X'.pref[w] = IF Requeued(G, f) /\ w = o THEN DUMMY ELSE X.pref[w]
    BY <1>1, <1>4, <1>pref, <2>x, ZenonT(60) DEF Shaped
  <2>4. ASSUME NEW w \in V
        PROVE  X'.list[w] = IF w = v /\ X.pref[v] = e THEN {} ELSE X.list[w]
    <3>1. X'.list[w] = Part(Adj[w], 1, degree'[w]) /\ X.list[w] = Part(Adj[w], 1, degree[w])
      BY <1>1, <1>4, NextX, XIs, Zenon DEF ListOf
    <3>2. Part(Adj[w], 1, 0) = {}
      BY DEF Part
    <3> QED BY <1>deg, <2>x, <3>1, <3>2
  <2>5. ASSUME NEW w \in V
        PROVE  X'.avail[w] = IF w = v \/ Requeued(G, f)
                             THEN (X.avail[w] \cap X'.list[w]) \ {f} ELSE X.avail[w]
    <3>1. X'.avail[w] = X'.list[w] \cap Alive'[owner[w]]
      BY <1>4, NextX
    <3>2. owner[w] \in Procs /\ Alive'[owner[w]] = IF owner[w] = s THEN Alive[s] \ ({f} \ {DUMMY})
                                                   ELSE Alive[owner[w]]
      BY <1>1, <1>4, <1>r, GraphIs, Zenon DEF Shaped
    <3>3. X.avail[w] = X.list[w] \cap Alive[owner[w]]
      BY XIs
    <3>4. \A g \in X.list[w] : g \in Edges /\ w \in g /\ g # DUMMY
      BY <1>4, XIs, ListOfEdges, EdgesAreNoDummy
    <3>5. X'.list[w] \subseteq X.list[w] /\ (w # v => X'.list[w] = X.list[w])
      BY <2>4
    <3>6. CASE w = v
      BY <1>5, <3>1, <3>2, <3>3, <3>4, <3>5, <3>6
    <3>7. CASE w # v /\ Requeued(G, f)
      <4>1. f \in Edges /\ Internal(f) /\ v \in f
        BY <1>f, <3>7, GIs DEF Requeued
      <4>2. \A z \in f : owner[z] = s
        BY <1>5, <4>1 DEF Internal
      <4>3. owner[w] # s => f \notin X.list[w]
        BY <3>4, <4>2
      <4>4. f # DUMMY
        BY <3>7 DEF Requeued
      <4> HIDE DEF f
      <4> QED BY <3>1, <3>2, <3>3, <3>5, <3>7, <4>3, <4>4
    <3>8. CASE w # v /\ ~ Requeued(G, f)
      <4>1. ASSUME f # DUMMY, owner[w] = s  PROVE f \notin X.list[w]
        <5>1. f \in Edges /\ ~ Internal(f) /\ v \in f
          BY <1>f, <3>8, <4>1, GIs DEF Requeued
        <5>2. \A z \in f : owner[z] = s => z = v
          BY <1>4, <1>5, <5>1, HaloIs
        <5> QED BY <3>4, <3>8, <4>1, <5>2
      <4> HIDE DEF f
      <4> QED BY <3>1, <3>2, <3>3, <3>5, <3>8, <4>1
    <3> QED BY <3>6, <3>7, <3>8
  <2>t. ASSUME NEW w \in V, NEW tag2
        PROVE  Flown(Mail', tag2)[w]
                 = (Flown(Mail, tag2)[w] \ (IF tag2 = tag /\ w = v THEN {e} ELSE {}))
                     \cup (IF Told(G, f) /\ tag2 = "REJECT" /\ w = o THEN {f} ELSE {})
    <3>1. To({m}, tag2, w) = IF tag2 = tag /\ w = v THEN {e} ELSE {}
      BY <1>4, <1>5, ToOne
    <3>2. To(Tells(v, f), tag2, w)
            = IF Told(G, f) /\ tag2 = "REJECT" /\ w = o THEN {f} ELSE {}
      BY <1>j DEF MayReject
    <3> HIDE DEF f, m
    <3>3. Flown(Moved(Mail, {m}, Tells(v, f)), tag2)[w]
            = (Flown(Mail, tag2)[w] \ To({m}, tag2, w)) \cup To(Tells(v, f), tag2, w)
      BY <1>4, FlownIs
    <3> QED BY <1>m, <3>1, <3>2, <3>3
  <2>6. /\ X'.prop = Flown(Mail', "PROPOSE") /\ X.prop = Flown(Mail, "PROPOSE")
        /\ X'.acc = Flown(Mail', "ACCEPT") /\ X.acc = Flown(Mail, "ACCEPT")
        /\ X'.rej = Flown(Mail', "REJECT") /\ X.rej = Flown(Mail, "REJECT")
    BY <1>4, NextX, XIs
  <2>7. e \in X.prop[v] => e \notin X.acc[v]
    BY <1>4, <1>5, GIs DEF Protocol, ProposalsHold
  <2>8. ASSUME NEW w \in V
        PROVE  X'.rej[w] = IF Told(G, f) /\ w = o THEN X.rej[w] \cup {f} ELSE X.rej[w]
    <3>1. X'.rej[w] = (X.rej[w] \ (IF "REJECT" = tag /\ w = v THEN {e} ELSE {}))
                         \cup (IF Told(G, f) /\ w = o THEN {f} ELSE {})
      BY <2>t, <2>6
    <3>2. "REJECT" # tag
      BY <1>1
    <3> HIDE DEF f, o
    <3> QED BY <3>1, <3>2
  <2>9. tag = "PROPOSE" => e \in X.prop[v] /\ e \notin X.acc[v]
    BY <1>2, <2>6, <2>7 DEF Received
  <2>10. tag = "ACCEPT" => e \in X.acc[v] /\ e \notin X.prop[v]
    BY <1>2, <2>6, <2>7, SMTT(60) DEF Received
  <2>11. ASSUME NEW w \in V
         PROVE  X'.prop[w] = IF w = v THEN X.prop[w] \ {e} ELSE X.prop[w]
    <3>1. X'.prop[w] = X.prop[w] \ (IF "PROPOSE" = tag /\ w = v THEN {e} ELSE {})
      BY <2>t, <2>6, SMTT(60)
    <3> QED BY <1>1, <2>10, <3>1
  <2>12. ASSUME NEW w \in V
         PROVE  X'.acc[w] = IF w = v THEN X.acc[w] \ {e} ELSE X.acc[w]
    <3>1. X'.acc[w] = X.acc[w] \ (IF "ACCEPT" = tag /\ w = v THEN {e} ELSE {})
      BY <2>t, <2>6
    <3> QED BY <1>1, <2>9, <3>1
  <2> QED
    BY <1>1, <1>5, <1>p, <2>g, <2>x, <2>2, <2>3, <2>4, <2>5, <2>8, <2>11, <2>12, ZenonT(60) DEF Winning
<1> HIDE DEF f, m, r, o
<1>8. /\ Protocol(G, X') /\ AddsMatches(G, X, X', e, {w \in {v} : X.pref[w] = e})
      /\ Improves(G, X, X') /\ X.suitor[v] # e
  <2>1. IsRanked(G)
    BY <1>4, GIsRanked
  <2> QED BY <1>4, <1>7, <2>1, WinningStep
<1>9. MatchesAre'
  <2> DEFINE W == {w \in {v} : X.pref[w] = e}
  <2>1. W \in SUBSET e /\ (\A w \in W : owner[w] = s) /\ AddsMatches(G, X, X', e, W)
    BY <1>5, <1>8
  <2>2. \A w \in e : owner[w] = s => ~ Mutual(X, w, e)
    <3>1. \A w \in e : owner[w] = s => w = v
      BY <1>4, <1>5, HaloIs
    <3> QED BY <1>8, <3>1 DEF Mutual
  <2>3. \A t \in Procs : match'[t] = IF t = s /\ W # {} THEN Append(match[t], e) ELSE match[t]
    <3>1. W # {} <=> e = Pref[v]
      BY XIs
    <3> HIDE DEF W
    <3> QED BY <1>4, <3>1 DEF Arrives, Shaped
  <2> HIDE DEF W
  <2> QED BY <1>4, <1>5, <2>1, <2>2, <2>3, MoreRegisters
<1>p2. Protocol(G, X)'
  BY <1>4, <1>8, ProtocolNext
<1>10. ListsAre'
  <2>1. ASSUME NEW w \in V  PROVE ListIs(w, Adj'[w], degree'[w], Splitter'[w])
    <3>1. ListIs(w, Adj[w], degree[w], Splitter[w]) /\ degree'[w] \in {0, degree[w]}
      BY <1>deg, <1>4 DEF ListsAre
    <3>2. degree'[w] \in 0 .. degree[w]
      BY <3>1 DEF ListIs
    <3> QED BY <1>1, <3>1, <3>2, ShorterList
  <2> QED BY <1>4, <2>1, ListsNext
<1>11. Scheduled'
  <2>1. \A t \in Procs \ {s} : inbox'[t] = inbox[t] /\ queue'[t] = queue[t]
    BY <1>q, <1>2 DEF Received
  <2> QED BY <1>3, <1>4, <2>1, WorkSchedule DEF Working
<1>12. Shaped'
  <2>1. Procs' = Procs /\ Edges' = Edges /\ V' = V
    BY <1>4, InputStays
  <2>2. pc' = pc /\ ops' = ops /\ inbox' = [t \in Procs |-> inbox'[t]]
    BY <1>1, <1>2, <1>3 DEF Received, Working
  <2>3. Alive' \in [Procs -> SUBSET Edges]
    BY <1>1, <1>4 DEF Shaped
  <2>4. match' = [t \in Procs |-> match'[t]] /\ degree' = [w \in V |-> degree'[w]]
    BY <1>4 DEF Shaped, Arrives
  <2>5. Suitor' = [w \in V |-> Suitor'[w]]
    BY <1>1, <1>4 DEF Shaped
  <2>6. Pref' = [w \in V |-> Pref'[w]]
    BY <1>1 DEF Unprefer
  <2> QED BY <1>1, <1>m, <1>q, <1>4, <2>1, <2>2, <2>3, <2>4, <2>5, <2>6 DEF Shaped
<1>13. InputIsGiven'
  BY <1>4, InputStays
<1> QED BY <1>m, <1>q, <1>8, <1>9, <1>p2, <1>10, <1>11, <1>12, <1>13 DEF IInv

LEMMA LighterSuitor ==
  ASSUME ProperInputs, InputIsGiven, Protocol(G, X), NEW v \in V, NEW e \in Edges, v \in e,
         Pref[v] = e, Suitor[v] # e
  PROVE  Rank[e] > Rank[Suitor[v]]
<1>1. Suitor[v] = DUMMY \/ (Suitor[v] \in Edges /\ v \in Suitor[v])
  BY SuitorIs
<1>2. Rank[Suitor[v]] <= Rank[e]
  <2>1. e # DUMMY
    BY EdgesAreNoDummy
  <2> QED BY <2>1, GIs, XIs DEF Protocol, SuitorsAreLighter
<1>3. Rank[Suitor[v]] \in Int /\ Rank[e] \in Nat /\ Rank[DUMMY] = -1
  BY <1>1, RankIs
<1>4. Rank[Suitor[v]] # Rank[e]
  <2>1. ASSUME Rank[Suitor[v]] = Rank[e]  PROVE FALSE
    <3>1. Suitor[v] \in Edges /\ v \in Suitor[v]
      BY <1>1, <1>3, <2>1
    <3> QED BY <2>1, <3>1, RanksDiffer
  <2> QED BY <2>1
<1> QED BY <1>2, <1>3, <1>4

LEMMA ProposalInv ==
  ASSUME ProperInputs, IInv, NEW s \in Procs, NEW i \in DOMAIN inbox[s],
         ReceiveProposal(s, i)
  PROVE  IInv' /\ (Improves(G, X, X') \/ Suitor' = Suitor)
<1> DEFINE e == inbox[s][i].edge
           v == LocalEnd(s, e)
<1>1. /\ Moves(s, i, "PROPOSE") /\ RegisterMutual(s, v, e)
      /\ \/ Heavier(e, Suitor[v]) /\ Displace(s, v, e)
         \/ /\ ~ Heavier(e, Suitor[v])
            /\ Send(<<>>, <<Message(s, "REJECT", e)>>)
            /\ Alive' = [Alive EXCEPT ![s] = @ \ {e}]
            /\ UNCHANGED <<queue, Suitor, Pref>>
  BY DEF ReceiveProposal
<1>2. e = inbox[s][i].edge /\ v = LocalEnd(s, e)
  OBVIOUS
<1> HIDE DEF e, v
<1>3. Received(s, "PROPOSE", e, v)
  BY <1>1, <1>2, ReceivedIs
<1>4. e \in Edges /\ v \in V /\ InputIsGiven /\ Protocol(G, X)
  BY <1>3 DEF Received, IInv
<1>5. ASSUME Heavier(e, Suitor[v]), Displace(s, v, e)
      PROVE  IInv' /\ Improves(G, X, X')
  <2>1. Rank[e] > Rank[Suitor[v]]
    BY <1>4, <1>5, SuitorIs, RankIs
  <2>2. Arrives(s, i, "PROPOSE", e, v)
    BY <1>1, <1>2, <1>5, <2>1 DEF Arrives, RegisterMutual
  <2> QED BY <2>2, ArrivalInv
<1>6. ASSUME ~ Heavier(e, Suitor[v]), Send(<<>>, <<Message(s, "REJECT", e)>>),
             Alive' = [Alive EXCEPT ![s] = @ \ {e}], UNCHANGED <<queue, Suitor, Pref>>
      PROVE  IInv' /\ Suitor' = Suitor
  BY <1>1, <1>2, <1>6, ProposalRefused
<1> QED BY <1>1, <1>5, <1>6

LEMMA AcceptanceInv ==
  ASSUME ProperInputs, IInv, NEW s \in Procs, NEW i \in DOMAIN inbox[s],
         ReceiveAcceptance(s, i)
  PROVE  IInv' /\ Improves(G, X, X')
<1> DEFINE e == inbox[s][i].edge
           v == LocalEnd(s, e)
<1>1. /\ Moves(s, i, "ACCEPT") /\ match' = [match EXCEPT ![s] = Append(@, e)]
      /\ degree' = [degree EXCEPT ![v] = 0] /\ Displace(s, v, e)
  BY DEF ReceiveAcceptance
<1>2. e = inbox[s][i].edge /\ v = LocalEnd(s, e)
  OBVIOUS
<1> HIDE DEF e, v
<1>3. Received(s, "ACCEPT", e, v)
  BY <1>1, <1>2, ReceivedIs
<1>4. e \in Edges /\ v \in V /\ v \in e /\ InputIsGiven /\ Protocol(G, X) /\ e \in X.acc[v]
  BY <1>3, XIs DEF Received, IInv
<1>5. Pref[v] = e /\ Suitor[v] # e
  BY <1>4, GIs, XIs DEF Protocol, AcceptancesHold
<1>6. Rank[e] > Rank[Suitor[v]]
  BY <1>4, <1>5, LighterSuitor
<1>7. Arrives(s, i, "ACCEPT", e, v)
  BY <1>1, <1>2, <1>5, <1>6 DEF Arrives
<1> QED BY <1>7, ArrivalInv
----
(* The vertex at the head of the queue. *)
Popped(s, v) ==
  /\ queue[s] # <<>> /\ v = Head(queue[s]) /\ v \in V /\ owner[v] = s /\ v \in X.queued
  /\ Lists(Tail(queue[s]), Queued(s, X.queued \ {v}))
  /\ \A t \in Procs : t # s => Lists(queue[t], Queued(t, X.queued \ {v}))
  /\ X.queued \ {v} \subseteq V

LEMMA PoppedIs ==
  ASSUME ProperInputs, IInv, NEW s \in Procs, NEW v, v = Head(queue[s]), queue[s] # <<>>
  PROVE  Popped(s, v)
<1>1. QueuesAre /\ X.queued \subseteq V
  BY XIs DEF IInv
<1>2. \A t \in Procs : Lists(queue[t], Queued(t, X.queued))
  BY <1>1 DEF QueuesAre
<1>3. v \in Queued(s, X.queued) /\ Lists(Tail(queue[s]), Queued(s, X.queued) \ {v})
  BY <1>2, TailLists
<1>4. v \in X.queued /\ owner[v] = s
  BY <1>3 DEF Queued
<1>5. Queued(s, X.queued \ {v}) = Queued(s, X.queued) \ {v}
  BY DEF Queued
<1>6. \A t \in Procs : t # s => Queued(t, X.queued \ {v}) = Queued(t, X.queued)
  BY <1>4 DEF Queued
<1> QED BY <1>1, <1>2, <1>3, <1>4, <1>5, <1>6 DEF Popped

LEMMA DeadIs ==
  ASSUME NEW s, NEW v, NEW i \in Nat \ {0}, degree[v] \in Nat, NEW g \in Dead(s, v, i)
  PROVE  g \in ListOf(v) /\ ~ Living(s, v, g)
BY DEF Dead, ListOf, Part

LEMMA GiveUpInv ==
  ASSUME ProperInputs, IInv, NEW s \in Procs, GiveUp(s)
  PROVE  IInv' /\ Suitor' = Suitor
<1> DEFINE v == Head(queue[s])  D == Dead(s, v, 1)
<1>1. /\ Pops(s) /\ FindAlive(s, v) = 0 /\ Push(s, Tail(queue[s]), <<>>)
      /\ Alive' = [Alive EXCEPT ![s] = @ \ D]
      /\ degree' = [degree EXCEPT ![v] = 0]
      /\ ops' = [ops EXCEPT ![s] = @ + IF degree[v] > 0 THEN degree[v] + 1 ELSE 0]
      /\ UNCHANGED input /\ pc' = pc /\ inbox' = inbox /\ sent' = sent /\ Done' = Done
      /\ match' = match /\ Adj' = Adj /\ Splitter' = Splitter /\ Suitor' = Suitor /\ Pref' = Pref
  BY DEF GiveUp
<1>2. Working(s) /\ queue[s] # <<>>
  BY <1>1 DEF Working, Pops
<1>3. Popped(s, v)
  BY <1>2, PoppedIs
<1>d. \A g \in D : g \in ListOf(v) /\ ~ Living(s, v, g)
  <2>1. degree[v] \in Nat
    BY <1>3 DEF IInv, ListsAre, ListIs, Popped
  <2> QED BY <2>1, DeadIs
<1>e. \A g \in ListOf(v) : ~ Living(s, v, g)
  <2>1. ListIs(v, Adj[v], degree[v], Splitter[v])
    BY <1>3 DEF IInv, ListsAre, Popped
  <2>2. \A j \in 1 .. degree[v] : Living(s, v, Adj[v][j]) => j <= 0
    BY <1>1, <2>1, FindAliveIs
  <2>3. \A j \in 1 .. degree[v] : ~ Living(s, v, Adj[v][j])
    BY <2>2
  <2> QED BY <2>3 DEF ListOf, Part
<1> HIDE DEF v, D
<1>4. /\ InputIsGiven /\ MailIs /\ Shaped /\ ListsAre /\ QueuesAre /\ MatchesAre /\ Scheduled
      /\ Protocol(G, X) /\ UNCHANGED input
  BY <1>2 DEF IInv, Working
<1>5. v \in V /\ owner[v] = s /\ v \in X.queued
  BY <1>3 DEF Popped
<1>m. MailIs' /\ Mail' = Mail
  BY <1>1, <1>4, SameMail
<1>q. /\ X'.queued = X.queued \ {v} /\ QueuesAre' /\ queue' = [t \in Procs |-> queue'[t]]
      /\ \A t \in Procs \ {s} : queue'[t] = queue[t]
  <2> DEFINE q == X.queued \ {v}
             W == {}
  <2>1. Pushes(<<>>, W) /\ \A w \in W : w \in V /\ owner[w] = s /\ w \notin q
    BY DEF Pushes
  <2>2. queue = [t \in Procs |-> queue[t]]
    BY <1>4 DEF Shaped
  <2>q. /\ q \subseteq V /\ Lists(Tail(queue[s]), Queued(s, q))
        /\ \A t \in Procs : t # s => Lists(queue[t], Queued(t, q))
    BY <1>3 DEF Popped
  <2> HIDE DEF q, W
  <2>4. /\ X'.queued = q \cup W /\ QueuesAre'
        /\ queue' = [t \in Procs |-> queue'[t]]
        /\ \A t \in Procs \ {s} : queue'[t] = queue[t]
    BY <1>1, <1>4, <2>1, <2>2, <2>q, PushStep
  <2>3. q \cup W = X.queued \ {v}
    BY DEF q, W
  <2> QED BY <2>3, <2>4
<1>l. \A g \in X.list[v] : g \in X.avail[v] \/ g \in D => (g \in Alive[s] => LostTo(G, X, v, g))
  <2> SUFFICES ASSUME NEW g \in X.list[v], g \in Alive[s]  PROVE LostTo(G, X, v, g)
    OBVIOUS
  <2>1. g \in ListOf(v) /\ g \in Edges /\ v \in g
    BY <1>4, <1>5, XIs, ListOfEdges
  <2>2. Lost(v, g)
    BY <1>e, <2>1 DEF Living
  <2> QED BY <1>4, <1>5, <2>1, <2>2, LostIsLost
<1>7. Resignation(G, X, X', v)
  <2>g. G.V = V
    BY GIs
  <2>1. \A e \in X.avail[v] : LostTo(G, X, v, e)
    BY <1>5, <1>l, XIs
  <2>2. /\ X'.pref = X.pref /\ X'.suitor = X.suitor
        /\ X'.prop = X.prop /\ X'.acc = X.acc /\ X'.rej = X.rej
    BY <1>1, <1>4, <1>m, XIs, NextX
  <2>3. ASSUME NEW w \in V
        PROVE  X'.list[w] = IF w = v THEN {} ELSE X.list[w]
    <3>1. X'.list[w] = Part(Adj[w], 1, degree'[w]) /\ X.list[w] = Part(Adj[w], 1, degree[w])
      BY <1>1, <1>4, NextX, XIs DEF ListOf
    <3>2. Part(Adj[w], 1, 0) = {}
      BY DEF Part
    <3>3. degree'[w] = IF w = v THEN 0 ELSE degree[w]
      BY <1>1, <1>4 DEF Shaped
    <3> QED BY <3>1, <3>2, <3>3
  <2>4. ASSUME NEW w \in V
        PROVE  /\ X'.avail[w] \subseteq X.avail[w] /\ X'.avail[w] \subseteq X'.list[w]
               /\ \A e \in X.avail[w] \ X'.avail[w] : e \in X.list[v] /\ LostTo(G, X, v, e)
    <3>1. X'.avail[w] = X'.list[w] \cap Alive'[owner[w]]
      BY <1>4, NextX
    <3>2. X.avail[w] = X.list[w] \cap Alive[owner[w]]
      BY XIs
    <3>3. Alive'[owner[w]] = IF owner[w] = s THEN Alive[s] \ D ELSE Alive[owner[w]]
      BY <1>1, <1>4, GraphIs DEF Shaped
    <3>4. D \subseteq X.list[v]
      BY <1>d, <1>5, XIs
    <3>5. CASE w = v
      BY <1>5, <1>l, <2>1, <2>3, <3>1, <3>2, <3>5
    <3>6. CASE w # v
      BY <1>l, <2>3, <3>1, <3>2, <3>3, <3>4, <3>6
    <3> QED BY <3>5, <3>6
  <2> QED BY <1>5, <1>q, <2>g, <2>1, <2>2, <2>3, <2>4 DEF Resignation
<1>8. Protocol(G, X') /\ SameMatches(G, X, X')
  <2>1. IsRanked(G)
    BY <1>4, GIsRanked
  <2> QED BY <1>4, <1>7, <2>1, ResignationStep
<1>9. MatchesAre' /\ Protocol(G, X)'
  BY <1>1, <1>4, <1>8, SameRegisters, ProtocolNext
<1>10. ListsAre'
  <2>1. ASSUME NEW w \in V  PROVE ListIs(w, Adj'[w], degree'[w], Splitter'[w])
    <3>1. ListIs(w, Adj[w], degree[w], Splitter[w]) /\ degree'[w] \in {0, degree[w]}
      BY <1>1, <1>4 DEF ListsAre, Shaped
    <3>2. degree'[w] \in 0 .. degree[w]
      BY <3>1 DEF ListIs
    <3> QED BY <1>1, <3>1, <3>2, ShorterList
  <2> QED BY <1>4, <2>1, ListsNext
<1>11. Scheduled'
  <2>1. \A t \in Procs \ {s} : inbox'[t] = inbox[t] /\ queue'[t] = queue[t]
    BY <1>q, <1>1
  <2> QED BY <1>2, <1>4, <2>1, WorkSchedule DEF Working
<1>12. Shaped'
  <2>1. Procs' = Procs /\ Edges' = Edges /\ V' = V
    BY <1>4, InputStays
  <2>2. Alive' \in [Procs -> SUBSET Edges]
    BY <1>1, <1>4 DEF Shaped
  <2>3. degree' = [w \in V |-> degree'[w]]
    BY <1>1, <1>4, ZenonT(60) DEF Shaped
  <2>4. ops' \in [Procs -> Nat]
    <3>1. degree[v] \in Nat /\ ops \in [Procs -> Nat]
      BY <1>4, <1>5 DEF ListsAre, ListIs, Shaped
    <3> QED BY <1>1, <3>1
  <2> QED BY <1>1, <1>q, <1>4, <2>1, <2>2, <2>3, <2>4 DEF Shaped
<1>13. InputIsGiven'
  BY <1>4, InputStays
<1> QED BY <1>1, <1>m, <1>q, <1>9, <1>10, <1>11, <1>12, <1>13 DEF IInv
----
(* The vertex popped prefers edge e. *)
UsedUp(v, e) == IF e # Suitor[v] THEN {} ELSE IF Internal(e) THEN e ELSE {v}

(* The suitor that makes place at the other end, if it is not told. *)
Rival(v, e) == IF Internal(e) THEN Suitor[Other(v, e)] ELSE DUMMY

Proposal(s, v, e) ==
  IF Internal(e) THEN <<>>
  ELSE <<Message(s, IF e = Suitor[v] THEN "ACCEPT" ELSE "PROPOSE", e)>>

Prefers(s, v, e) ==
  LET old == Rejecting(s, Other(v, e), Rival(v, e))
  IN /\ match' = [match EXCEPT ![s] = IF e = Suitor[v] THEN Append(@, e) ELSE @]
     /\ Suitor' = IF Internal(e) THEN [Suitor EXCEPT ![Other(v, e)] = e] ELSE Suitor
     /\ Push(s, Tail(queue[s]), old.push)
     /\ Pref' = Unprefer([Pref EXCEPT ![v] = e], old.push)
     /\ Send(Proposal(s, v, e), old.send)
     /\ UNCHANGED <<input, pc, inbox, Done>>

(* The list of v is what v keeps; edges that are lost are not alive. *)
KeepsList(v, e, R) ==
  /\ ListsAre'
  /\ \A w \in V : X'.list[w] = IF w \in UsedUp(v, e) THEN {} ELSE IF w = v THEN R ELSE X.list[w]
  /\ \A w \in V : \A g \in X'.avail[w] : g \in X.avail[w] /\ g \in X'.list[w]
  /\ \A w \in V : \A g \in X.avail[w] : g \notin X'.avail[w] =>
       \/ g \in X.list[v] /\ LostTo(G, X, v, g)
       \/ w = v /\ g = e
       \/ w \in UsedUp(v, e)
       \/ g = Rival(v, e)

(* What v has found, v being the head of the queue. *)
Choosing(s, v, top, found, chosen, e) ==
  /\ Pops(s) /\ v = Head(queue[s]) /\ top = FindAlive(s, v) /\ top > 0
  /\ found = FindSplitter(s, v, top) /\ chosen = FindPref(found.adj, found.r, found.d)
  /\ e = chosen[found.d]
  /\ Prefer(s, v, top, found, chosen, e) /\ UNCHANGED <<input, pc, inbox, Done>>

LEMMA PrefersIs ==
  ASSUME NEW s, NEW v, NEW top, NEW found, NEW chosen, NEW e,
         Choosing(s, v, top, found, chosen, e)
  PROVE  /\ Prefers(s, v, e)
         /\ degree' = [w \in V |-> IF w \in UsedUp(v, e) THEN 0
                                   ELSE IF w = v THEN found.d - 1 ELSE degree[w]]
         /\ Alive' = [Alive EXCEPT ![s] = (@ \ Dead(s, v, found.r))
                                            \ Rejecting(s, Other(v, e), Rival(v, e)).dead]
BY Zenon DEF Choosing, Prefer, Prefers, UsedUp, Rival, Proposal

LEMMA SplitsIs ==
  ASSUME NEW s, NEW v, NEW top, NEW found, NEW chosen, NEW e,
         Choosing(s, v, top, found, chosen, e)
  PROVE  LET hi == IF e = Suitor[v] THEN 0 ELSE found.d - 1
             splits == hi - found.r >= SplitMin
             split == SplitAdj(chosen, found.r, hi)
         IN /\ Adj' = [Adj EXCEPT ![v] = IF splits THEN split.adj ELSE chosen]
            /\ Splitter' = [Splitter EXCEPT ![v] = IF splits THEN @ \cup {split.r} ELSE @]
            /\ ops' = [ops EXCEPT ![s] = @ + (degree[v] - top + 1) + (top - found.r + 1)
                         + (found.d - found.r + 1) + IF splits THEN hi - found.r + 1 ELSE 0]
BY Zenon DEF Choosing, Prefer

LEMMA ChoosingFinds ==
  ASSUME ProperInputs, IInv, NEW s \in Procs, NEW v, NEW top, NEW found, NEW chosen, NEW e,
         Choosing(s, v, top, found, chosen, e)
  PROVE  /\ Popped(s, v) /\ Finds(s, v, found, chosen, e)
         /\ found.r \in 1 .. top /\ found.d \in found.r .. top /\ top \in 1 .. degree[v]
<1>1. queue[s] # <<>> /\ v = Head(queue[s])
  BY DEF Choosing, Pops
<1>2. Popped(s, v)
  BY <1>1, PoppedIs
<1>3. ListIs(v, Adj[v], degree[v], Splitter[v]) /\ InputIsGiven
  BY <1>2 DEF IInv, ListsAre, Popped
<1>4. /\ top = FindAlive(s, v) /\ top > 0
      /\ found = FindSplitter(s, v, top) /\ chosen = FindPref(found.adj, found.r, found.d)
      /\ e = chosen[found.d]
  BY DEF Choosing
<1>5. Finds(s, v, found, chosen, chosen[found.d])
  BY <1>3, <1>4, Finding
<1>6. top \in 1 .. degree[v] /\ Living(s, v, Adj[v][top])
  <2>1. /\ FindAlive(s, v) \in 0 .. degree[v]
        /\ FindAlive(s, v) > 0 => Living(s, v, Adj[v][FindAlive(s, v)])
    BY <1>3, FindAliveIs
  <2>2. degree[v] \in Int
    BY <1>3 DEF ListIs
  <2> QED BY <1>4, <2>1, <2>2
<1>7. HasFound(s, v, top, found)
  BY <1>3, <1>4, <1>6, FoundIs
<1> QED BY <1>2, <1>4, <1>5, <1>6, <1>7 DEF HasFound

LEMMA ChoosingPrefers ==
  ASSUME ProperInputs, IInv, NEW s \in Procs, NEW v, NEW top, NEW found, NEW chosen, NEW e,
         Choosing(s, v, top, found, chosen, e)
  PROVE  Preferring(G, X, v, e, Part(chosen, 1, found.d - 1))
<1> DEFINE R == Part(chosen, 1, found.d - 1)
<1>1. Popped(s, v) /\ Finds(s, v, found, chosen, e)
  BY ChoosingFinds
<1>2. InputIsGiven /\ ListsAre /\ Protocol(G, X) /\ v \in V /\ owner[v] = s /\ v \in X.queued
  BY <1>1 DEF IInv, Popped
<1>3. /\ e \in ListOf(v) /\ Living(s, v, e)
      /\ \A g \in R : g \in ListOf(v) /\ Rank[g] < Rank[e]
      /\ \A g \in ListOf(v) : g = e \/ g \in R \/ g \in Dead(s, v, found.r)
      /\ \A g \in Dead(s, v, found.r) : g \in ListOf(v) /\ ~ Living(s, v, g)
  BY <1>1 DEF Finds
<1> HIDE DEF R
<1>4. \A g \in ListOf(v) : g \in Edges /\ v \in g /\ (Lost(v, g) <=> LostTo(G, X, v, g))
  BY <1>2, ListOfEdges, LostIsLost
<1>5. X.list[v] = ListOf(v) /\ X.avail[v] = ListOf(v) \cap Alive[s] /\ G.V = V /\ G.rank = Rank
  BY <1>2, XIs, GIs
<1>6. \A g \in X.avail[v] : g = e \/ g \in R \/ LostTo(G, X, v, g)
  BY <1>3, <1>4, <1>5 DEF Living
<1>7. e \in X.avail[v] /\ ~ LostTo(G, X, v, e)
  BY <1>3, <1>4, <1>5 DEF Living
<1>8. Preferring(G, X, v, e, R)
  BY <1>2, <1>3, <1>5, <1>6, <1>7 DEF Preferring
<1> QED BY <1>8 DEF R

(* The list of v after the step. *)
LEMMA ListKept ==
  ASSUME ProperInputs, IInv, NEW s \in Procs, NEW v, NEW top, NEW found, NEW chosen, NEW e,
         Choosing(s, v, top, found, chosen, e)
  PROVE  /\ ListIs(v, Adj'[v], found.d - 1, Splitter'[v])
         /\ Part(Adj'[v], 1, found.d - 1) = Part(chosen, 1, found.d - 1)
         /\ \A w \in V : w # v => Adj'[w] = Adj[w] /\ Splitter'[w] = Splitter[w]
         /\ Adj' = [w \in V |-> Adj'[w]] /\ Splitter' = [w \in V |-> Splitter'[w]]
         /\ ops' \in [Procs -> Nat]
<1> DEFINE hi == IF e = Suitor[v] THEN 0 ELSE found.d - 1
           splits == hi - found.r >= SplitMin
           split == SplitAdj(chosen, found.r, hi)
<1>1. Popped(s, v) /\ Finds(s, v, found, chosen, e)
      /\ found.r \in 1 .. top /\ found.d \in found.r .. top /\ top \in 1 .. degree[v]
  BY ChoosingFinds
<1>2. v \in V /\ Shaped /\ ListIs(v, Adj[v], degree[v], Splitter[v])
  BY <1>1 DEF IInv, ListsAre, Popped
<1>3. /\ Adj' = [Adj EXCEPT ![v] = IF splits THEN split.adj ELSE chosen]
      /\ Splitter' = [Splitter EXCEPT ![v] = IF splits THEN @ \cup {split.r} ELSE @]
      /\ ops' = [ops EXCEPT ![s] = @ + (degree[v] - top + 1) + (top - found.r + 1)
                   + (found.d - found.r + 1) + IF splits THEN hi - found.r + 1 ELSE 0]
  BY SplitsIs
<1>4. SplitMin \in Nat \ {0} /\ degree[v] \in Nat
  BY <1>2 DEF ProperInputs, ListIs
<1>5. splits => e # Suitor[v] /\ hi = found.d - 1
  <2>1. found.r \in Nat \ {0}
    BY <1>1
  <2> QED BY <1>4, <2>1
<1>6. hi \in Int /\ (splits => hi - found.r + 1 \in Nat)
  BY <1>1, <1>4
<1>7. /\ Adj = [w \in V |-> Adj[w]] /\ Splitter = [w \in V |-> Splitter[w]]
      /\ ops \in [Procs -> Nat]
  BY <1>2 DEF Shaped
<1>8. /\ ListIs(v, chosen, found.d - 1, Splitter[v])
      /\ \A b, rr : /\ found.d - 1 - found.r >= SplitMin
                    /\ b = SplitAdj(chosen, found.r, found.d - 1).adj
                    /\ rr = SplitAdj(chosen, found.r, found.d - 1).r
                    => /\ ListIs(v, b, found.d - 1, Splitter[v] \cup {rr})
                       /\ Part(b, 1, found.d - 1) = Part(chosen, 1, found.d - 1)
  BY <1>1 DEF Finds
<1>9. splits => /\ ListIs(v, split.adj, found.d - 1, Splitter[v] \cup {split.r})
                /\ Part(split.adj, 1, found.d - 1) = Part(chosen, 1, found.d - 1)
  <2> SUFFICES ASSUME splits
               PROVE  /\ ListIs(v, split.adj, found.d - 1, Splitter[v] \cup {split.r})
                      /\ Part(split.adj, 1, found.d - 1) = Part(chosen, 1, found.d - 1)
    OBVIOUS
  <2>1. hi = found.d - 1 /\ found.d - 1 - found.r >= SplitMin
    BY <1>5
  <2>2. split = SplitAdj(chosen, found.r, found.d - 1)
    BY <2>1
  <2> HIDE DEF split
  <2> QED BY <1>8, <2>1, <2>2
<1> HIDE DEF split, hi, splits
<1>10. Adj'[v] = (IF splits THEN split.adj ELSE chosen)
       /\ Splitter'[v] = (IF splits THEN Splitter[v] \cup {split.r} ELSE Splitter[v])
  BY <1>2, <1>3, <1>7
<1>11. /\ \A w \in V : w # v => Adj'[w] = Adj[w] /\ Splitter'[w] = Splitter[w]
       /\ Adj' = [w \in V |-> Adj'[w]] /\ Splitter' = [w \in V |-> Splitter'[w]]
  BY <1>2, <1>3, <1>7
<1>12. ops' \in [Procs -> Nat]
  <2>1. /\ degree[v] - top + 1 \in Nat /\ top - found.r + 1 \in Nat
        /\ found.d - found.r + 1 \in Nat
    BY <1>1, <1>4
  <2>2. (IF splits THEN hi - found.r + 1 ELSE 0) \in Nat
    BY <1>6
  <2>3. \A k \in Nat : k + (degree[v] - top + 1) + (top - found.r + 1)
                     + (found.d - found.r + 1) + (IF splits THEN hi - found.r + 1 ELSE 0) \in Nat
    BY <2>1, <2>2
  <2> QED BY <1>3, <1>7, <2>3
<1> QED BY <1>8, <1>9, <1>10, <1>11, <1>12

LEMMA ChoosingKeeps ==
  ASSUME ProperInputs, IInv, NEW s \in Procs, NEW v, NEW top, NEW found, NEW chosen, NEW e,
         Choosing(s, v, top, found, chosen, e)
  PROVE  KeepsList(v, e, Part(chosen, 1, found.d - 1)) /\ Shaped' /\ Scheduled' /\ InputIsGiven'
<1> DEFINE R == Part(chosen, 1, found.d - 1)  n == found.d - 1
           D == Dead(s, v, found.r)  f == Rival(v, e)  U == UsedUp(v, e)
           old == Rejecting(s, Other(v, e), Rival(v, e))
<1>1. Popped(s, v) /\ Finds(s, v, found, chosen, e) /\ found.d \in Nat \ {0}
  BY ChoosingFinds DEF Finds
<1>2. Preferring(G, X, v, e, R)
  BY ChoosingPrefers
<1>3. /\ Prefers(s, v, e) /\ degree' = [w \in V |-> IF w \in U THEN 0 ELSE IF w = v THEN n ELSE degree[w]]
      /\ Alive' = [Alive EXCEPT ![s] = (@ \ D) \ old.dead]
  BY PrefersIs
<1>4. /\ ListIs(v, Adj'[v], n, Splitter'[v]) /\ Part(Adj'[v], 1, n) = R
      /\ \A w \in V : w # v => Adj'[w] = Adj[w] /\ Splitter'[w] = Splitter[w]
      /\ Adj' = [w \in V |-> Adj'[w]] /\ Splitter' = [w \in V |-> Splitter'[w]]
      /\ ops' \in [Procs -> Nat]
  BY ListKept, SMTT(60)
<1>5. /\ UNCHANGED input /\ pc' = pc /\ Done' = Done /\ inbox' = inbox
      /\ pc[s] = "work"
  BY <1>3, Zenon DEF Prefers, Choosing, Pops
<1>6. /\ InputIsGiven /\ Shaped /\ ListsAre /\ Scheduled /\ Protocol(G, X)
      /\ v \in V /\ owner[v] = s
  BY <1>1 DEF IInv, Popped
<1>7. n \in Nat
  BY <1>1
<1>8. old.dead = {f} \ {DUMMY}
  BY DEF Rejecting
<1>9. \A g \in D : g \in ListOf(v) /\ ~ Living(s, v, g)
  BY <1>1 DEF Finds
<1> HIDE DEF R, n, D, f, U, old
<1>10. \A w \in V : degree'[w] = IF w \in U THEN 0 ELSE IF w = v THEN n ELSE degree[w]
  BY <1>3
<1>11. ListsAre'
  <2>1. ASSUME NEW w \in V  PROVE ListIs(w, Adj'[w], degree'[w], Splitter'[w])
    <3>1. CASE w = v
      <4>1. degree'[v] \in 0 .. n
        BY <1>6, <1>7, <1>10
      <4> QED BY <1>4, <3>1, <4>1, ShorterList
    <3>2. CASE w # v
      <4>1. ListIs(w, Adj[w], degree[w], Splitter[w]) /\ degree'[w] \in {0, degree[w]}
        BY <1>6, <1>10, <3>2 DEF ListsAre
      <4>2. degree'[w] \in 0 .. degree[w]
        BY <4>1 DEF ListIs
      <4> QED BY <1>4, <3>2, <4>1, <4>2, ShorterList
    <3> QED BY <3>1, <3>2
  <2> QED BY <1>5, <2>1, ListsNext
<1>12. ASSUME NEW w \in V
       PROVE  X'.list[w] = IF w \in U THEN {} ELSE IF w = v THEN R ELSE X.list[w]
  <2>1. X'.list[w] = Part(Adj'[w], 1, degree'[w]) /\ X.list[w] = Part(Adj[w], 1, degree[w])
    BY <1>5, NextX, XIs DEF ListOf
  <2>2. Part(Adj'[w], 1, 0) = {}
    BY DEF Part
  <2> QED BY <1>4, <1>10, <2>1, <2>2
<1>13. /\ \A g \in R : g \in X.list[v]
       /\ \A g \in X.avail[v] : g = e \/ g \in R \/ LostTo(G, X, v, g)
  BY <1>2 DEF Preferring
<1>14. \A w \in V : X'.list[w] \subseteq X.list[w]
  BY <1>12, <1>13
<1>15. ASSUME NEW w \in V
       PROVE  /\ X'.avail[w] = X'.list[w] \cap Alive'[owner[w]]
              /\ X.avail[w] = X.list[w] \cap Alive[owner[w]]
              /\ Alive'[owner[w]] = IF owner[w] = s THEN (Alive[s] \ D) \ ({f} \ {DUMMY})
                                    ELSE Alive[owner[w]]
  BY <1>3, <1>5, <1>6, <1>8, NextX, XIs, GraphIs DEF Shaped
<1>16. \A w \in V : \A g \in X'.avail[w] : g \in X.avail[w] /\ g \in X'.list[w]
  BY <1>14, <1>15
<1>17. \A g \in D : g \in Alive[s] => g \in X.list[v] /\ LostTo(G, X, v, g)
  <2> SUFFICES ASSUME NEW g \in D, g \in Alive[s]  PROVE g \in X.list[v] /\ LostTo(G, X, v, g)
    OBVIOUS
  <2>1. g \in ListOf(v) /\ ~ Living(s, v, g) /\ g \in Edges /\ v \in g
    BY <1>6, <1>9, ListOfEdges
  <2>2. Lost(v, g)
    BY <2>1 DEF Living
  <2> QED BY <1>6, <2>1, <2>2, XIs, LostIsLost
<1>18. ASSUME NEW w \in V, NEW g \in X.avail[w], g \notin X'.avail[w]
       PROVE  \/ g \in X.list[v] /\ LostTo(G, X, v, g)
              \/ w = v /\ g = e
              \/ w \in U
              \/ g = f
  <2>1. CASE g \in X'.list[w]
    BY <1>15, <1>17, <1>18, <2>1
  <2>2. CASE g \notin X'.list[w]
    <3>1. w \in U \/ w = v
      BY <1>12, <1>15, <1>18, <2>2
    <3>2. ASSUME w = v, w \notin U  PROVE g = e \/ (g \in X.list[v] /\ LostTo(G, X, v, g))
      BY <1>12, <1>13, <1>15, <1>18, <2>2, <3>2
    <3> QED BY <3>1, <3>2
  <2> QED BY <2>1, <2>2
<1>19. KeepsList(v, e, R)
  BY <1>11, <1>12, <1>16, <1>18 DEF KeepsList, U, f
<1>20. /\ queue' = [t \in Procs |-> queue'[t]] /\ \A t \in Procs \ {s} : queue'[t] = queue[t]
  <2>1. Push(s, Tail(queue[s]), old.push)
    BY <1>3 DEF Prefers, old
  <2> QED BY <1>6, <2>1 DEF Push, Shaped
<1>21. Scheduled'
  <2>1. \A t \in Procs \ {s} : inbox'[t] = inbox[t] /\ queue'[t] = queue[t]
    BY <1>5, <1>20
  <2> QED BY <1>5, <1>6, <2>1, WorkSchedule
<1>22. Shaped'
  <2>1. Procs' = Procs /\ Edges' = Edges /\ V' = V
    BY <1>5, InputStays
  <2>2. Alive' \in [Procs -> SUBSET Edges]
    BY <1>3, <1>6 DEF Shaped
  <2>3. degree' = [w \in V |-> degree'[w]]
    BY <1>3
  <2>4. match' = [t \in Procs |-> match'[t]]
    BY <1>3, <1>6 DEF Shaped, Prefers
  <2>5. Suitor' = [w \in V |-> Suitor'[w]]
    BY <1>3, <1>6 DEF Shaped, Prefers
  <2>6. Pref' = [w \in V |-> Pref'[w]]
    <3>1. Pref' = Unprefer([Pref EXCEPT ![v] = e], old.push)
      BY <1>3 DEF Prefers, old
    <3> QED BY <3>1 DEF Unprefer
  <2>7. sent' = [t \in Procs |-> sent'[t]]
    <3>1. Send(Proposal(s, v, e), old.send)
      BY <1>3 DEF Prefers, old
    <3> QED BY <3>1, SentIsFunction
  <2> QED BY <1>4, <1>5, <1>6, <1>20, <2>1, <2>2, <2>3, <2>4, <2>5, <2>6, <2>7 DEF Shaped
<1>23. InputIsGiven'
  BY <1>5, <1>6, InputStays
<1> QED BY <1>19, <1>21, <1>22, <1>23 DEF R, n

LEMMA ChoiceQueue ==
  ASSUME ProperInputs, IInv, NEW s \in Procs, NEW v, Popped(s, v), NEW e, Prefers(s, v, e),
         NEW W, Pushes(Rejecting(s, Other(v, e), Rival(v, e)).push, W),
         \A w \in W : w \in V /\ owner[w] = s /\ w \notin X.queued
  PROVE  /\ X'.queued = (X.queued \ {v}) \cup W /\ QueuesAre'
         /\ \A w \in V : Pref'[w] = IF w \in W THEN DUMMY ELSE IF w = v THEN e ELSE Pref[w]
<1> DEFINE q == X.queued \ {v}
           vertices == Rejecting(s, Other(v, e), Rival(v, e)).push
<1>1. /\ UNCHANGED input /\ Push(s, Tail(queue[s]), vertices)
      /\ Pref' = Unprefer([Pref EXCEPT ![v] = e], vertices)
  BY DEF Prefers
<1>2. InputIsGiven /\ queue = [t \in Procs |-> queue[t]] /\ Pref = [w \in V |-> Pref[w]]
  BY DEF IInv, Shaped
<1>3. /\ q \subseteq V /\ Lists(Tail(queue[s]), Queued(s, q))
      /\ \A t \in Procs : t # s => Lists(queue[t], Queued(t, q))
  BY DEF Popped
<1>4. \A w \in W : w \in V /\ owner[w] = s /\ w \notin q
  OBVIOUS
<1>5. ToSet(vertices) = W
  BY PushesSet
<1> HIDE DEF q, vertices
<1>6. Pushes(vertices, W)
  BY DEF vertices
<1>7. X'.queued = q \cup W /\ QueuesAre'
  BY <1>1, <1>2, <1>3, <1>4, <1>6, PushStep
<1>8. \A w \in V : Pref'[w] = IF w \in W THEN DUMMY ELSE IF w = v THEN e ELSE Pref[w]
  BY <1>1, <1>2, <1>5 DEF Unprefer
<1> QED BY <1>7, <1>8 DEF q

LEMMA ChoiceMail ==
  ASSUME ProperInputs, InputIsGiven, MailIs, Shaped, UNCHANGED input, inbox' = inbox,
         NEW first, NEW second, NEW M1, NEW M2, Mails(first, M1), Mails(second, M2),
         M1 = {} \/ M2 = {}, Send(first, second), \A m \in M1 \cup M2 : MayBeSent(m)
  PROVE  MailIs' /\ Mail' = Moved(Mail, {}, M1 \cup M2)
<1> DEFINE S == M1 \cup M2
<1>1. M1 \cap M2 = {} /\ S = M1 \cup M2 /\ \A m \in S : MayBeSent(m)
  OBVIOUS
<1> HIDE DEF S
<1>2. SendsAll(S)
  BY <1>1, SendIs
<1>3. \A t \in Procs : Lists(inbox[t], In(t)) /\ In(t) \ {} = In(t)
  BY DEF MailIs
<1>4. MailMoves({}, S)
  BY <1>1, <1>2, <1>3 DEF MailMoves, MayBeSent, SendsAll
<1>5. MailIs' /\ Mail' = Moved(Mail, {}, S)
  BY <1>4, MailStep
<1> QED BY <1>5 DEF S

LEMMA HaloChosen ==
  ASSUME ProperInputs, IInv, NEW s \in Procs, NEW v, NEW top, NEW found, NEW chosen, NEW e,
         Choosing(s, v, top, found, chosen, e), ~ Internal(e)
  PROVE  IInv' /\ Suitor' = Suitor
<1> DEFINE R == Part(chosen, 1, found.d - 1)  u == Other(v, e)
           mutual == e = Suitor[v]
           tag == IF mutual THEN "ACCEPT" ELSE "PROPOSE"
           m == Letter(owner[u], tag, e)
<1>1. Popped(s, v) /\ Prefers(s, v, e) /\ Preferring(G, X, v, e, R)
  BY ChoosingFinds, PrefersIs, ChoosingPrefers
<1>2. KeepsList(v, e, R) /\ Shaped' /\ Scheduled' /\ InputIsGiven'
  BY ChoosingKeeps
<1> HIDE DEF R
<1>3. /\ InputIsGiven /\ MailIs /\ Shaped /\ ListsAre /\ QueuesAre /\ MatchesAre
      /\ Protocol(G, X) /\ UNCHANGED input /\ inbox' = inbox
      /\ v \in V /\ owner[v] = s /\ v \in X.queued
  BY <1>1 DEF IInv, Prefers, Popped
<1>4. e \in Edges /\ v \in e /\ e # DUMMY /\ X.pref[v] = DUMMY
  <2>1. IsRanked(G)
    BY <1>3, GIsRanked
  <2> QED BY <1>1, <1>3, <2>1, PreferringIs, GIs
<1>u. u \in V /\ u \in e /\ u # v /\ Other(u, e) = v
  BY <1>3, <1>4, EndsAre
<1>5. Rival(v, e) = DUMMY /\ UsedUp(v, e) = (IF mutual THEN {v} ELSE {})
  BY DEF Rival, UsedUp
<1>6. /\ Rejecting(s, u, DUMMY).push = <<>> /\ Rejecting(s, u, DUMMY).send = <<>>
  BY DEF Rejecting
<1>7. e \notin X.prop[u] /\ e \notin X.acc[u]
  BY <1>3, <1>4, <1>u, GIs DEF Protocol, ProposalsHold, AcceptancesHold
<1>m. MailIs' /\ Mail' = Moved(Mail, {}, {m})
  <2>1. Proposal(s, v, e) = <<m>>
    <3>1. Message(owner[v], tag, e) = Letter(owner[Other(v, e)], tag, e)
      BY <1>3, <1>4, MessageIs
    <3> QED BY <1>3, <3>1 DEF Proposal
  <2>2. MayBeSent(m)
    <3>1. tag \in Tags /\ e \notin Flown(Mail, tag)[u]
      BY <1>7, XIs DEF Tags
    <3> HIDE DEF tag
    <3> QED BY <1>3, <1>4, <1>u, <3>1, NewLetter
  <2> HIDE DEF m
  <2>3. Send(<<m>>, <<>>)
    BY <1>1, <1>5, <1>6, <2>1 DEF Prefers
  <2>4. Mails(<<m>>, {m}) /\ Mails(<<>>, {})
    BY DEF Mails
  <2> DEFINE M1 == {m}  M2 == {}
  <2>5. (M1 = {} \/ M2 = {}) /\ (\A n \in M1 \cup M2 : MayBeSent(n))
    BY <2>2
  <2>6. M1 \cup M2 = {m}
    OBVIOUS
  <2>7. Mails(<<m>>, M1) /\ Mails(<<>>, M2)
    BY <2>4
  <2> HIDE DEF M1, M2
  <2>8. MailIs' /\ Mail' = Moved(Mail, {}, M1 \cup M2)
    BY <1>3, <2>3, <2>5, <2>7, ChoiceMail
  <2> QED BY <2>6, <2>8
<1>q. /\ X'.queued = X.queued \ {v} /\ QueuesAre'
      /\ \A w \in V : Pref'[w] = IF w = v THEN e ELSE Pref[w]
  <2> DEFINE W == {}
  <2>1. Pushes(Rejecting(s, Other(v, e), Rival(v, e)).push, W)
        /\ \A w \in W : w \in V /\ owner[w] = s /\ w \notin X.queued
    BY <1>5, <1>6 DEF Pushes
  <2>2. (X.queued \ {v}) \cup W = X.queued \ {v} /\ \A w : w \notin W
    OBVIOUS
  <2> HIDE DEF W
  <2>3. /\ X'.queued = (X.queued \ {v}) \cup W /\ QueuesAre'
        /\ \A w \in V : Pref'[w] = IF w \in W THEN DUMMY ELSE IF w = v THEN e ELSE Pref[w]
    BY <1>1, <2>1, ChoiceQueue
  <2> QED BY <2>2, <2>3
<1>s. Suitor' = Suitor
  BY <1>1 DEF Prefers
<1>8. HaloChoice(G, X, X', v, e, R)
  <2>g. G.V = V /\ e \notin G.internal
    BY <1>4, GIs
  <2>x. /\ X.suitor = Suitor /\ X.pref = Pref /\ X'.suitor = Suitor' /\ X'.pref = Pref'
        /\ X'.prop = Flown(Mail', "PROPOSE") /\ X.prop = Flown(Mail, "PROPOSE")
        /\ X'.acc = Flown(Mail', "ACCEPT") /\ X.acc = Flown(Mail, "ACCEPT")
        /\ X'.rej = Flown(Mail', "REJECT") /\ X.rej = Flown(Mail, "REJECT")
    BY <1>3, XIs, NextX
  <2>t. \A w \in V : \A tag2 : To({m}, tag2, w) = IF tag2 = tag /\ w = u THEN {e} ELSE {}
    <3> HIDE DEF tag
    <3> QED BY <1>3, <1>4, <1>u, ToOne
  <2>1. X'.rej = X.rej
    <3>1. NoneOf({m}, "REJECT") /\ NoneOf({}, "REJECT")
      BY <2>t, ToNone DEF NoneOf
    <3> HIDE DEF m
    <3>2. Flown(Moved(Mail, {}, {m}), "REJECT") = Flown(Mail, "REJECT")
      BY <1>3, <3>1, FlownSame
    <3> QED BY <1>m, <2>x, <3>2
  <2>2. ASSUME NEW w \in V, NEW tag2
        PROVE  Flown(Mail', tag2)[w]
                 = Flown(Mail, tag2)[w] \cup (IF tag2 = tag /\ w = u THEN {e} ELSE {})
    <3>1. Flown(Moved(Mail, {}, {m}), tag2)[w]
            = (Flown(Mail, tag2)[w] \ To({}, tag2, w)) \cup To({m}, tag2, w)
      <4> HIDE DEF m
      <4> QED BY <1>3, FlownIs
    <3>2. To({}, tag2, w) = {} /\ To({m}, tag2, w) = IF tag2 = tag /\ w = u THEN {e} ELSE {}
      BY <2>t, ToNone
    <3> HIDE DEF m, tag
    <3> QED BY <1>m, <3>1, <3>2
  <2>3. ASSUME NEW w \in V
        PROVE  X'.prop[w] = IF w = u /\ ~ mutual THEN X.prop[w] \cup {e} ELSE X.prop[w]
    <3>1. X'.prop[w] = X.prop[w] \cup (IF "PROPOSE" = tag /\ w = u THEN {e} ELSE {})
      BY <2>2, <2>x
    <3>2. "PROPOSE" = tag <=> ~ mutual
      OBVIOUS
    <3> HIDE DEF tag, mutual
    <3> QED BY <3>1, <3>2
  <2>4. ASSUME NEW w \in V
        PROVE  X'.acc[w] = IF w = u /\ mutual THEN X.acc[w] \cup {e} ELSE X.acc[w]
    <3>1. X'.acc[w] = X.acc[w] \cup (IF "ACCEPT" = tag /\ w = u THEN {e} ELSE {})
      BY <2>2, <2>x
    <3>2. "ACCEPT" = tag <=> mutual
      OBVIOUS
    <3> HIDE DEF tag, mutual
    <3> QED BY <3>1, <3>2
  <2>5. ASSUME NEW w \in V
        PROVE  X'.list[w] = IF w # v THEN X.list[w] ELSE IF mutual THEN {} ELSE R
    BY <1>2, <1>5 DEF KeepsList
  <2>6. ASSUME NEW w \in V
        PROVE  X'.avail[w] \subseteq X.avail[w] /\ X'.avail[w] \subseteq X'.list[w]
    BY <1>2 DEF KeepsList
  <2>7. ASSUME NEW w \in V, NEW g \in X.avail[w] \ X'.avail[w]
        PROVE  \/ g \in X.list[v] /\ LostTo(G, X, v, g)
               \/ w = v /\ (g = e \/ mutual)
    <3>1. \/ g \in X.list[v] /\ LostTo(G, X, v, g)
          \/ w = v /\ g = e
          \/ w \in UsedUp(v, e)
          \/ g = Rival(v, e)
      BY <1>2, <2>7 DEF KeepsList
    <3>2. g # DUMMY
      <4>1. g \in ListOf(w)
        BY <2>7, XIs
      <4> QED BY <1>3, <4>1, ListOfEdges, EdgesAreNoDummy
    <3> QED BY <1>5, <3>1, <3>2
  <2>8. ASSUME NEW w \in V
        PROVE  X'.pref[w] = IF w = v THEN e ELSE X.pref[w]
    BY <1>q, <2>x
  <2>9. (X.suitor[v] = e) <=> mutual
    BY <2>x
  <2> HIDE DEF mutual
  <2> QED BY <1>1, <1>q, <1>s, <2>g, <2>x, <2>1, <2>3, <2>4, <2>5, <2>6, <2>7, <2>8, <2>9
    DEF HaloChoice
<1> HIDE DEF m, tag, u
<1>9. /\ Protocol(G, X') /\ AddsMatches(G, X, X', e, {w \in {v} : X.suitor[w] = e})
      /\ X.pref[v] # e
  <2>1. IsRanked(G)
    BY <1>3, GIsRanked
  <2> QED BY <1>3, <1>8, <2>1, HaloChoiceStep
<1>10. MatchesAre'
  <2> DEFINE W == {w \in {v} : X.suitor[w] = e}
  <2>1. W \in SUBSET e /\ (\A w \in W : owner[w] = s) /\ AddsMatches(G, X, X', e, W)
    BY <1>3, <1>4, <1>9
  <2>2. \A w \in e : owner[w] = s => ~ Mutual(X, w, e)
    <3>1. \A w \in e : owner[w] = s => w = v
      BY <1>3, <1>4, HaloIs
    <3> QED BY <1>9, <3>1 DEF Mutual
  <2>3. \A t \in Procs : match'[t] = IF t = s /\ W # {} THEN Append(match[t], e) ELSE match[t]
    <3>1. W # {} <=> e = Suitor[v]
      BY XIs
    <3> HIDE DEF W
    <3> QED BY <1>1, <1>3, <3>1 DEF Prefers, Shaped
  <2> HIDE DEF W
  <2> QED BY <1>3, <1>4, <2>1, <2>2, <2>3, MoreRegisters
<1>11. Protocol(G, X)'
  BY <1>3, <1>9, ProtocolNext
<1>12. ListsAre'
  BY <1>2 DEF KeepsList
<1> QED BY <1>2, <1>m, <1>q, <1>s, <1>10, <1>11, <1>12 DEF IInv

LEMMA InternalChosen ==
  ASSUME ProperInputs, IInv, NEW s \in Procs, NEW v, NEW top, NEW found, NEW chosen, NEW e,
         Choosing(s, v, top, found, chosen, e), Internal(e)
  PROVE  IInv' /\ Improves(G, X, X')
<1> DEFINE R == Part(chosen, 1, found.d - 1)  u == Other(v, e)
           f == Suitor[u]  o == Other(u, f)
           mutual == e = Suitor[v]
           r == Rejecting(s, u, f)
<1>1. Popped(s, v) /\ Prefers(s, v, e) /\ Preferring(G, X, v, e, R)
  BY ChoosingFinds, PrefersIs, ChoosingPrefers
<1>2. KeepsList(v, e, R) /\ Shaped' /\ Scheduled' /\ InputIsGiven'
  BY ChoosingKeeps
<1> HIDE DEF R
<1>3. /\ InputIsGiven /\ MailIs /\ Shaped /\ ListsAre /\ QueuesAre /\ MatchesAre
      /\ Protocol(G, X) /\ UNCHANGED input /\ inbox' = inbox
      /\ v \in V /\ owner[v] = s /\ v \in X.queued
  BY <1>1 DEF IInv, Prefers, Popped
<1>4. e \in Edges /\ v \in e /\ e # DUMMY /\ X.pref[v] = DUMMY
  <2>1. IsRanked(G)
    BY <1>3, GIsRanked
  <2> QED BY <1>1, <1>3, <2>1, PreferringIs, GIs
<1>u. u \in V /\ u \in e /\ u # v /\ Other(u, e) = v /\ owner[u] = s /\ \A w \in e : owner[w] = s
  <2>1. u \in V /\ u \in e /\ u # v /\ Other(u, e) = v
    BY <1>3, <1>4, EndsAre
  <2> QED BY <1>3, <1>4, <2>1 DEF Internal
<1>f. f = DUMMY \/ (f \in Edges /\ u \in f)
  BY <1>3, <1>u, SuitorIs
<1>5. Rival(v, e) = f /\ UsedUp(v, e) = (IF mutual THEN e ELSE {}) /\ Proposal(s, v, e) = <<>>
  BY DEF Rival, UsedUp, Proposal
<1>r. Pushes(r.push, Requeues(u, f)) /\ Mails(r.send, Tells(u, f))
  <2> HIDE DEF f, u
  <2> QED BY <1>3, <1>u, <1>f, RejectingIs
<1>j. MayReject(u, f)
  BY <1>3, <1>u, MayRejectIs
<1>p. /\ match' = [match EXCEPT ![s] = IF mutual THEN Append(@, e) ELSE @]
      /\ Suitor' = [Suitor EXCEPT ![u] = e]
      /\ Send(<<>>, r.send)
  BY <1>1, <1>5 DEF Prefers
<1>m. MailIs' /\ Mail' = Moved(Mail, {}, Tells(u, f))
  <2> DEFINE M1 == {}  M2 == Tells(u, f)
  <2>1. Mails(<<>>, M1) /\ Mails(r.send, M2)
    BY <1>r DEF Mails
  <2>2. (M1 = {} \/ M2 = {}) /\ \A n \in M1 \cup M2 : MayBeSent(n)
    BY <1>j DEF MayReject
  <2>3. M1 \cup M2 = Tells(u, f)
    OBVIOUS
  <2> HIDE DEF M1, M2, f, u, r
  <2>4. MailIs' /\ Mail' = Moved(Mail, {}, M1 \cup M2)
    BY <1>3, <1>p, <2>1, <2>2, ChoiceMail
  <2> QED BY <2>3, <2>4
<1>q. /\ X'.queued = (X.queued \ {v}) \cup Requeues(u, f) /\ QueuesAre'
      /\ \A w \in V : Pref'[w] = IF w \in Requeues(u, f) THEN DUMMY
                                 ELSE IF w = v THEN e ELSE Pref[w]
  <2> DEFINE W == Requeues(u, f)
  <2>1. Pushes(Rejecting(s, Other(v, e), Rival(v, e)).push, W)
    BY <1>5, <1>r
  <2>2. \A w \in W : w \in V /\ owner[w] = s /\ w \notin X.queued
    BY <1>j, <1>u DEF MayReject
  <2> HIDE DEF W
  <2>3. /\ X'.queued = (X.queued \ {v}) \cup W /\ QueuesAre'
        /\ \A w \in V : Pref'[w] = IF w \in W THEN DUMMY ELSE IF w = v THEN e ELSE Pref[w]
    BY <1>1, <2>1, <2>2, ChoiceQueue
  <2> QED BY <2>3 DEF W
<1>8. InternalChoice(G, X, X', v, e, R)
  <2>g. G.V = V /\ e \in G.internal
    BY <1>4, GIs
  <2>x. /\ X.suitor = Suitor /\ X.pref = Pref /\ X'.suitor = Suitor' /\ X'.pref = Pref'
        /\ X'.prop = Flown(Mail', "PROPOSE") /\ X.prop = Flown(Mail, "PROPOSE")
        /\ X'.acc = Flown(Mail', "ACCEPT") /\ X.acc = Flown(Mail, "ACCEPT")
        /\ X'.rej = Flown(Mail', "REJECT") /\ X.rej = Flown(Mail, "REJECT")
    BY <1>3, XIs, NextX
  <2>t. \A tag2 : \A w \in V : To(Tells(u, f), tag2, w)
          = IF Told(G, f) /\ tag2 = "REJECT" /\ w = o THEN {f} ELSE {}
    BY <1>j DEF MayReject
  <2>1. X'.prop = X.prop /\ X'.acc = X.acc
    <3>1. /\ NoneOf(Tells(u, f), "PROPOSE") /\ NoneOf({}, "PROPOSE")
          /\ NoneOf(Tells(u, f), "ACCEPT") /\ NoneOf({}, "ACCEPT")
      <4>1. "PROPOSE" # "REJECT" /\ "ACCEPT" # "REJECT"
        OBVIOUS
      <4> HIDE DEF f, o, u
      <4> QED BY <2>t, <4>1, ToNone DEF NoneOf
    <3> HIDE DEF f, u
    <3>2. /\ Flown(Moved(Mail, {}, Tells(u, f)), "PROPOSE") = Flown(Mail, "PROPOSE")
          /\ Flown(Moved(Mail, {}, Tells(u, f)), "ACCEPT") = Flown(Mail, "ACCEPT")
      BY <1>3, <3>1, FlownSame
    <3> QED BY <1>m, <2>x, <3>2
  <2>2. ASSUME NEW w \in V
        PROVE  X'.rej[w] = IF Told(G, f) /\ w = o THEN X.rej[w] \cup {f} ELSE X.rej[w]
    <3>1. Flown(Moved(Mail, {}, Tells(u, f)), "REJECT")[w]
            = (Flown(Mail, "REJECT")[w] \ To({}, "REJECT", w)) \cup To(Tells(u, f), "REJECT", w)
      <4> HIDE DEF f, u
      <4> QED BY <1>3, FlownIs
    <3>2. To({}, "REJECT", w) = {}
          /\ To(Tells(u, f), "REJECT", w) = IF Told(G, f) /\ w = o THEN {f} ELSE {}
      BY <2>t, ToNone
    <3> HIDE DEF f, o, u
    <3> QED BY <1>m, <2>x, <3>1, <3>2
  <2>3. X'.queued = (X.queued \ {v}) \cup {w \in {o} : Requeued(G, f)}
    BY <1>q DEF Requeues
  <2>4. ASSUME NEW w \in V
        PROVE  /\ X'.suitor[w] = IF w = u THEN e ELSE X.suitor[w]
               /\ X'.pref[w] = IF Requeued(G, f) /\ w = o THEN DUMMY
                               ELSE IF w = v THEN e ELSE X.pref[w]
    <3>1. X'.suitor[w] = IF w = u THEN e ELSE X.suitor[w]
      <4> HIDE DEF u
      <4> QED BY <1>3, <1>p, <2>x DEF Shaped
    <3>2. w \in Requeues(u, f) <=> Requeued(G, f) /\ w = o
      BY DEF Requeues
    <3> HIDE DEF f, o, u
    <3> QED BY <1>q, <2>x, <3>1, <3>2
  <2>5. ASSUME NEW w \in V
        PROVE  X'.list[w] = IF mutual /\ w \in e THEN {} ELSE IF w = v THEN R ELSE X.list[w]
    <3>1. X'.list[w] = IF w \in UsedUp(v, e) THEN {} ELSE IF w = v THEN R ELSE X.list[w]
      BY <1>2 DEF KeepsList
    <3>2. w \in UsedUp(v, e) <=> mutual /\ w \in e
      BY <1>5
    <3> HIDE DEF mutual
    <3> QED BY <3>1, <3>2
  <2>6. ASSUME NEW w \in V, NEW g \in X'.avail[w]
        PROVE  g \in X.avail[w] /\ g \in X'.list[w]
    BY <1>2, <2>6 DEF KeepsList
  <2>7. ASSUME NEW w \in V, NEW g \in X.avail[w], g \notin X'.avail[w]
        PROVE  \/ g \in X.list[v] /\ LostTo(G, X, v, g)
               \/ w = v /\ g = e
               \/ mutual /\ w \in e
               \/ g = f
    <3>1. \/ g \in X.list[v] /\ LostTo(G, X, v, g)
          \/ w = v /\ g = e
          \/ w \in UsedUp(v, e)
          \/ g = Rival(v, e)
      BY <1>2, <2>7 DEF KeepsList
    <3>2. w \in UsedUp(v, e) <=> mutual /\ w \in e
      BY <1>5
    <3> HIDE DEF mutual, f
    <3> QED BY <1>5, <3>1, <3>2
  <2>9. X.suitor[v] = e <=> mutual
    BY <2>x
  <2>10. X.suitor[u] = f
    BY <2>x
  <2> HIDE DEF mutual, f, o
  <2>11. o = Other(u, f)
    BY DEF o
  <2> HIDE DEF u
  <2>12. u = Other(v, e)
    BY DEF u
  <2> QED BY <1>1, <2>g, <2>1, <2>2, <2>3, <2>4, <2>5, <2>6, <2>7, <2>9, <2>10, <2>11, <2>12
    DEF InternalChoice
<1>9. /\ Protocol(G, X') /\ AddsMatches(G, X, X', e, {w \in e : X.suitor[v] = e})
      /\ Improves(G, X, X') /\ \A w \in e : ~ Mutual(X, w, e)
  <2>1. IsRanked(G)
    BY <1>3, GIsRanked
  <2> QED BY <1>3, <1>8, <2>1, InternalChoiceStep
<1> HIDE DEF r, u, f, o
<1>10. MatchesAre'
  <2> DEFINE W == {w \in e : X.suitor[v] = e}
  <2>1. W \in SUBSET e /\ (\A w \in W : owner[w] = s) /\ AddsMatches(G, X, X', e, W)
    BY <1>u, <1>9
  <2>2. \A w \in e : owner[w] = s => ~ Mutual(X, w, e)
    BY <1>9
  <2>3. \A t \in Procs : match'[t] = IF t = s /\ W # {} THEN Append(match[t], e) ELSE match[t]
    <3>1. W # {} <=> mutual
      BY <1>4, XIs
    <3> HIDE DEF W
    <3> QED BY <1>3, <1>p, <3>1 DEF Shaped
  <2> HIDE DEF W
  <2> QED BY <1>3, <1>4, <2>1, <2>2, <2>3, MoreRegisters
<1>11. Protocol(G, X)'
  BY <1>3, <1>9, ProtocolNext
<1>12. ListsAre'
  BY <1>2 DEF KeepsList
<1> QED BY <1>2, <1>m, <1>q, <1>9, <1>10, <1>11, <1>12 DEF IInv

LEMMA ChooseInv ==
  ASSUME ProperInputs, IInv, NEW s \in Procs, Choose(s)
  PROVE  IInv' /\ (Improves(G, X, X') \/ Suitor' = Suitor)
<1> DEFINE v == Head(queue[s])  top == FindAlive(s, v)
           found == FindSplitter(s, v, top)
           chosen == FindPref(found.adj, found.r, found.d)
           e == chosen[found.d]
<1>1. Choosing(s, v, top, found, chosen, e)
  <2>1. /\ Pops(s) /\ top > 0 /\ UNCHANGED <<input, pc, inbox, Done>>
        /\ Prefer(s, v, top, found, chosen, e)
    BY Zenon DEF Choose
  <2> HIDE DEF found, chosen, e, top, v
  <2>2. /\ v = Head(queue[s]) /\ top = FindAlive(s, v) /\ found = FindSplitter(s, v, top)
        /\ chosen = FindPref(found.adj, found.r, found.d) /\ e = chosen[found.d]
    BY DEF v, top, found, chosen, e
  <2> QED BY <2>1, <2>2 DEF Choosing
<1> HIDE DEF v, top, found, chosen, e
<1> QED BY <1>1, HaloChosen, InternalChosen
----
(* The invariant and the rule for suitors, step by step. *)
Suits == Improves(G, X, X') \/ Suitor' = Suitor

LEMMA StepInv ==
  ASSUME ProperInputs, IInv, [Next]_vars
  PROVE  IInv' /\ Suits
<1>1. ASSUME NEW s \in Procs, Step(s)  PROVE IInv' /\ Suits
  <2>1. CASE ReportDone(s)
    BY <2>1, ReportDoneStep DEF ReportDone, Suits
  <2>2. CASE Begin(s)
    BY <2>2, BeginStep DEF Begin, Suits
  <2>3. ASSUME NEW i \in DOMAIN inbox[s], ReceiveProposal(s, i)  PROVE IInv' /\ Suits
    BY <2>3, ProposalInv DEF Suits
  <2>4. ASSUME NEW i \in DOMAIN inbox[s], ReceiveAcceptance(s, i)  PROVE IInv' /\ Suits
    BY <2>4, AcceptanceInv DEF Suits
  <2>5. ASSUME NEW i \in DOMAIN inbox[s], ReceiveRejection(s, i)  PROVE IInv' /\ Suits
    BY <2>5, RejectionArrives DEF Suits
  <2>6. CASE GiveUp(s)
    BY <2>6, GiveUpInv DEF Suits
  <2>7. CASE Choose(s)
    BY <2>7, ChooseInv DEF Suits
  <2>8. CASE EndStep(s)
    BY <2>8, EndStepStep DEF EndStep, Suits
  <2> QED BY <1>1, <2>1, <2>2, <2>3, <2>4, <2>5, <2>6, <2>7, <2>8 DEF Step
<1>2. CASE Sync
  BY <1>2, SyncStep DEF Sync, Suits
<1>3. CASE UNCHANGED vars
  BY <1>3, StutterStep DEF vars, Suits
<1> QED BY <1>1, <1>2, <1>3 DEF Next, Stopped

(* For every graph, every distribution of its vertices and every limit of
   work, what the proofs need holds in every state. *)
THEOREM InductiveInvariant == Spec => []IInv
<1> USE InputsAssumption
<1>1. Init => IInv
  BY InitInv
<1>2. IInv /\ [Next]_vars => IInv'
  BY StepInv
<1> QED BY <1>1, <1>2, PTL DEF Spec
----
LEMMA ListsOnce ==
  ASSUME NEW S, NEW a, Lists(a, S)
  PROVE  IsInjective(a) /\ ToSet(a) = S
<1>1. DOMAIN a = 1 .. Len(a)
  BY DEF Lists
<1> QED BY <1>1 DEF Lists, Distinct, Part, IsInjective, ToSet

LEMMA MatchingInvIs ==
  ASSUME ProperInputs, IInv
  PROVE  MatchingInv
<1>0. /\ InputIsGiven /\ Shaped /\ ListsAre /\ QueuesAre /\ MatchesAre /\ Protocol(G, X)
  BY DEF IInv
<1>1. TypeOK
  <2>1. owner \in [V -> Procs]
    BY <1>0 DEF InputIsGiven
  <2>2. ASSUME NEW s \in Procs
        PROVE  /\ pc[s] \in {"start", "work", "sync", "stopped"} /\ Alive[s] \subseteq Edges
               /\ ToSet(match[s]) \subseteq Edges /\ ops[s] \in Nat
    <3>1. ToSet(match[s]) = Registers(s, X)
      BY <1>0, ListsOnce DEF MatchesAre
    <3>2. Registers(s, X) \subseteq Edges
      BY DEF Registers
    <3> QED BY <1>0, <3>1, <3>2 DEF Shaped
  <2>3. ASSUME NEW v \in V
        PROVE  /\ Suitor[v] \in Edges \cup {DUMMY} /\ Pref[v] \in Edges \cup {DUMMY}
               /\ degree[v] \in 0 .. Len(Adj[v])
    BY <1>0, SuitorIs DEF ListsAre, ListIs
  <2> QED BY <2>1, <2>2, <2>3 DEF TypeOK
<1>2. QueueHoldsEachVertexOnce
  <2> SUFFICES ASSUME NEW s \in Procs
               PROVE  /\ IsInjective(queue[s])
                      /\ \A v \in ToSet(queue[s]) : owner[v] = s /\ Pref[v] = DUMMY
    BY DEF QueueHoldsEachVertexOnce
  <2>1. IsInjective(queue[s]) /\ ToSet(queue[s]) = Queued(s, X.queued)
    BY <1>0, ListsOnce DEF QueuesAre
  <2>2. \A v \in X.queued : Pref[v] = DUMMY
    BY <1>0, XIs, GIs DEF Protocol, QueuedAreFree
  <2> QED BY <2>1, <2>2 DEF Queued
<1>3. SplittersSplit
  <2> SUFFICES ASSUME NEW v \in V, NEW r \in Splitter[v],
                      NEW i \in 1 .. r - 1, NEW j \in r .. degree[v]
               PROVE  Heavier(Adj[v][j], Adj[v][i])
    BY DEF SplittersSplit
  <2>1. ListIs(v, Adj[v], degree[v], Splitter[v])
    BY <1>0 DEF ListsAre
  <2>2. Rank[Adj[v][j]] > Rank[Adj[v][i]] /\ Adj[v] \in Seq(Edges) /\ r \in Nat \ {0}
        /\ degree[v] \in 0 .. Len(Adj[v])
    BY <2>1 DEF ListIs
  <2>3. i \in 1 .. Len(Adj[v]) /\ j \in 1 .. Len(Adj[v])
    BY <2>2
  <2>4. Adj[v][i] \in Edges /\ Adj[v][j] \in Edges
    BY <2>2, <2>3
  <2> QED BY <1>0, <2>2, <2>4, RankIs
<1> QED BY <1>1, <1>2, <1>3 DEF MatchingInv

(* Q holds every vertex at most once, none of them with a preference
   pending, and the splitters of every adjacency list split it by weight. *)
THEOREM MatchingInvHolds == Spec => []MatchingInv
<1> USE InputsAssumption
<1>1. IInv => MatchingInv
  BY MatchingInvIs
<1> QED BY <1>1, InductiveInvariant, PTL

LEMMA SuitorsSuit ==
  ASSUME ProperInputs, IInv, [Next]_vars
  PROVE  NoSuitorWorsens
<1>1. Suits /\ InputIsGiven /\ Protocol(G, X)
  BY StepInv DEF IInv
<1> SUFFICES ASSUME NEW v \in V
             PROVE  Suitor'[v] = Suitor[v] \/ Heavier(Suitor'[v], Suitor[v])
  BY DEF NoSuitorWorsens
<1>2. CASE Suitor' = Suitor
  BY <1>2
<1>3. CASE Improves(G, X, X')
  <2>1. X'.suitor = Suitor' /\ X.suitor = Suitor
    BY DEF X
  <2>2. /\ Suitor'[v] \in Edges \cup {DUMMY}
        /\ Suitor'[v] = Suitor[v] \/ Rank[Suitor'[v]] > Rank[Suitor[v]]
    BY <1>3, <2>1, GIs DEF Improves
  <2>3. Suitor[v] \in Edges \cup {DUMMY}
    BY <1>1, SuitorIs
  <2> QED BY <1>1, <2>2, <2>3, RankIs
<1> QED BY <1>1, <1>2, <1>3 DEF Suits

(* Whoever is given up as a suitor has been replaced by a heavier one, also
   where the code replaces a suitor without comparing. *)
THEOREM SuitorsNeverWorsen == Spec => SuitorsOnlyImprove
<1> USE InputsAssumption
<1>1. IInv /\ [Next]_vars => [NoSuitorWorsens]_vars
  BY SuitorsSuit
<1> QED BY <1>1, InductiveInvariant, PTL DEF Spec, SuitorsOnlyImprove
----
(* When nothing is queued and nothing is on its way. *)
AtRest(g, x) ==
  /\ x.queued = {}
  /\ \A v \in g.V : x.prop[v] = {} /\ x.acc[v] = {} /\ x.rej[v] = {}

LEMMA AllMutual ==
  ASSUME NEW g, IsRanked(g), NEW x, Protocol(g, x), AtRest(g, x),
         NEW n \in Nat, g.V = 0 .. n-1
  PROVE  \A v \in g.V : x.pref[v] # DUMMY => Mutual(x, v, x.pref[v])
<1> DEFINE Open == {v \in g.V : x.pref[v] # DUMMY /\ x.suitor[v] # x.pref[v]}
           h == [v \in g.V |-> IF v \in Open THEN g.rank[x.pref[v]] ELSE -1]
<1>1. \A v \in g.V : x.pref[v] # DUMMY =>
        x.pref[v] \in g.edges /\ v \in x.pref[v] /\ g.rank[x.pref[v]] \in Nat
  BY DEF Protocol, Typed, IsRanked
<1>2. \A v \in g.V : x.pref[v] # DUMMY => x.suitor[Other(v, x.pref[v])] = x.pref[v]
  <2> TAKE v \in g.V
  <2> SUFFICES ASSUME x.pref[v] # DUMMY  PROVE x.suitor[Other(v, x.pref[v])] = x.pref[v]
    OBVIOUS
  <2>1. Other(v, x.pref[v]) \in g.V
    BY <1>1 DEF IsRanked
  <2> QED BY <2>1 DEF Protocol, PreferencesArrive, AtRest
<1>3. ASSUME NEW v \in Open
      PROVE  \E u \in Open : g.rank[x.pref[u]] > g.rank[x.pref[v]]
  <2> DEFINE e == x.pref[v]  u == Other(v, e)
  <2>1. v \in g.V /\ e # DUMMY /\ e \in g.edges /\ v \in e /\ g.rank[e] \in Nat
    BY <1>1
  <2>2. u \in g.V /\ u \in e /\ Other(u, e) = v
    BY <2>1 DEF IsRanked
  <2>3. x.suitor[u] = e
    BY <1>2, <2>1
  <2> HIDE DEF u
  <2>4. x.pref[u] # e
    BY <1>2, <2>1, <2>2
  <2>5. e \in x.avail[u]
    BY <2>1, <2>2, <2>3, <2>4 DEF Protocol, SuitorsPropose
  <2>6. e \in x.list[u]
    BY <2>2, <2>5 DEF Protocol, Typed
  <2>7. x.pref[u] # DUMMY
    BY <2>2, <2>6 DEF Protocol, QueuedAreFree, AtRest
  <2>8. g.rank[e] < g.rank[x.pref[u]]
    BY <2>2, <2>6, <2>7 DEF Protocol, PrefersHeaviest
  <2>9. u \in Open
    BY <2>2, <2>3, <2>4, <2>7
  <2>10. g.rank[x.pref[u]] \in Nat
    BY <1>1, <2>2, <2>7
  <2> QED BY <2>1, <2>8, <2>9, <2>10
<1>4. Open = {}
  <2> SUFFICES ASSUME NEW w \in Open  PROVE FALSE
    OBVIOUS
  <2>1. w \in 0 .. n-1 /\ \A v \in 0 .. n-1 : h[v] \in Int
    BY <1>1
  <2>2. PICK v \in 0 .. n-1 : \A u \in 0 .. n-1 : h[u] <= h[v]
    <3> HIDE DEF h, Open
    <3>1. 0 \in Int /\ n-1 \in Int /\ 0 <= n-1
      BY <2>1
    <3> QED BY <2>1, <3>1, Greatest
  <2>3. \A u \in Open : u \in 0 .. n-1 /\ h[u] = g.rank[x.pref[u]] /\ h[u] \in Nat
    BY <1>1
  <2>4. v \notin Open => h[v] = -1
    OBVIOUS
  <2> HIDE DEF h, Open
  <2>5. v \in Open
    BY <2>2, <2>3, <2>4
  <2>6. PICK u \in Open : g.rank[x.pref[u]] > g.rank[x.pref[v]]
    BY <1>3, <2>5
  <2> QED BY <2>2, <2>3, <2>5, <2>6
<1> QED BY <1>4 DEF Mutual

(* The matching is mutual, and no edge is better at both of its ends. *)
LEMMA RestIsDominant ==
  ASSUME NEW g, IsRanked(g), NEW x, Protocol(g, x), AtRest(g, x),
         NEW n \in Nat, g.V = 0 .. n-1
  PROVE  /\ \A v \in g.V : \A e : Mutual(x, v, e) => \A w \in e : Mutual(x, w, e)
         /\ \A e \in g.edges : \E f \in g.edges :
              /\ \A w \in f : Mutual(x, w, f)
              /\ e \cap f # {} /\ g.rank[f] >= g.rank[e]
<1>1. \A v \in g.V : x.pref[v] # DUMMY => Mutual(x, v, x.pref[v])
  BY AllMutual
<1>2. ASSUME NEW v \in g.V, NEW e, Mutual(x, v, e)
      PROVE  e \in g.edges /\ v \in e /\ \A w \in e : Mutual(x, w, e)
  <2>1. e \in g.edges /\ v \in e /\ e # DUMMY /\ x.suitor[v] = e /\ x.pref[v] = e
    BY <1>2 DEF Mutual, Protocol, Typed
  <2>2. x.pref[Other(v, e)] = e
    BY <2>1 DEF Protocol, SuitorsPropose
  <2>3. Other(v, e) \in g.V /\ \A w \in e : w = v \/ w = Other(v, e)
    BY <2>1 DEF IsRanked
  <2>4. Mutual(x, Other(v, e), e)
    BY <1>1, <2>1, <2>2, <2>3
  <2> QED BY <1>2, <2>1, <2>3, <2>4
<1>3. ASSUME NEW e \in g.edges
      PROVE  \E f \in g.edges : /\ \A w \in f : Mutual(x, w, f)
                                /\ e \cap f # {} /\ g.rank[f] >= g.rank[e]
  <2>1. g.rank[e] \in Nat /\ g.rank[DUMMY] = -1 /\ \A v \in e : v \in g.V
    BY DEF IsRanked
  <2>2. PICK v \in e : TRUE
    BY DEF IsRanked
  <2>3. v \in g.V
    BY <2>1
  <2>4. e \in x.avail[v] \/ x.pref[v] = e \/ IsDead(g, x, e)
    BY DEF Protocol, NoneForgotten
  <2>5. CASE IsDead(g, x, e)
    <3>1. PICK w \in e : g.rank[x.suitor[w]] > g.rank[e]
      BY <2>5 DEF IsDead
    <3> DEFINE f == x.suitor[w]
    <3>2. w \in g.V /\ f # DUMMY
      BY <2>1, <3>1
    <3>3. f \in g.edges /\ w \in f
      BY <3>2 DEF Protocol, Typed
    <3>4. x.pref[Other(w, f)] = f /\ Other(w, f) \in g.V /\ g.rank[f] \in Nat
      BY <3>2, <3>3 DEF Protocol, SuitorsPropose, IsRanked
    <3>5. Mutual(x, Other(w, f), f)
      BY <1>1, <3>2, <3>4
    <3>6. \A z \in f : Mutual(x, z, f)
      BY <1>2, <3>4, <3>5
    <3>7. g.rank[f] >= g.rank[e]
      BY <2>1, <3>1, <3>4
    <3> QED BY <3>3, <3>6, <3>7
  <2>6. CASE x.pref[v] = e
    <3>1. e # DUMMY
      BY DEF IsRanked
    <3>2. Mutual(x, v, e)
      BY <1>1, <2>3, <2>6, <3>1
    <3>3. \A w \in e : Mutual(x, w, e)
      BY <1>2, <2>3, <3>2
    <3> QED BY <2>1, <2>2, <3>3
  <2>7. CASE e \in x.avail[v]
    <3> DEFINE f == x.pref[v]
    <3>1. e \in x.list[v]
      BY <2>3, <2>7 DEF Protocol, Typed
    <3>2. f # DUMMY
      BY <2>3, <3>1 DEF Protocol, QueuedAreFree, AtRest
    <3>3. g.rank[e] < g.rank[f]
      BY <2>3, <3>1, <3>2 DEF Protocol, PrefersHeaviest
    <3>4. Mutual(x, v, f)
      BY <1>1, <2>3, <3>2
    <3>5. f \in g.edges /\ v \in f /\ \A w \in f : Mutual(x, w, f)
      BY <1>2, <2>3, <3>4
    <3>6. g.rank[f] >= g.rank[e]
      <4>1. g.rank[f] \in Nat
        BY <3>5 DEF IsRanked
      <4> QED BY <2>1, <3>3, <4>1
    <3> QED BY <3>5, <3>6
  <2> QED BY <2>4, <2>5, <2>6, <2>7
<1> QED BY <1>2, <1>3

LEMMA StoppedIsAtRest ==
  ASSUME ProperInputs, IInv, AllStopped
  PROVE  AtRest(G, X)
<1>1. InputIsGiven /\ MailIs /\ Scheduled
  BY DEF IInv
<1>2. \A t \in Procs : inbox[t] = <<>> /\ queue[t] = <<>> /\ sent[t] = <<>>
  BY <1>1 DEF AllStopped, Scheduled
<1>3. \A t \in Procs : Mail[t] = {}
  BY <1>2 DEF Mail, In, Out, Part
<1>4. \A v \in V : owner[v] \in Procs
  BY <1>1, GraphIs
<1>5. \A v \in V : \A tag : Flown(Mail, tag)[v] = {}
  BY <1>3, <1>4 DEF Flown, To
<1>6. X.queued = {}
  <2>1. \A v \in V : Part(queue[owner[v]], 1, Len(queue[owner[v]])) = {}
    BY <1>2, <1>4 DEF Part
  <2> QED BY <2>1, XIs
<1> QED BY <1>5, <1>6, XIs, GIs DEF AtRest

LEMMA DominantIs ==
  ASSUME ProperInputs, IInv
  PROVE  MatchingIsDominant
<1> SUFFICES ASSUME AllStopped
             PROVE  /\ \A s \in Procs : IsInjective(match[s])
                    /\ \A e \in Matched : \A v \in e : e \in ToSet(match[owner[v]])
                    /\ \A e, f \in Matched : e = f \/ e \cap f = {}
                    /\ \A e \in Edges : \E f \in Matched : e \cap f # {} /\ ~ Heavier(e, f)
  BY DEF MatchingIsDominant
<1>0. InputIsGiven /\ MatchesAre /\ Protocol(G, X)
  BY DEF IInv
<1>1. IsRanked(G) /\ AtRest(G, X)
  BY <1>0, GIsRanked, StoppedIsAtRest
<1>2. PICK n \in Nat : V = 0 .. n-1
  BY <1>0, GraphIs
<1>3. /\ \A v \in V : \A e : Mutual(X, v, e) => \A w \in e : Mutual(X, w, e)
      /\ \A e \in Edges : \E f \in Edges :
           /\ \A w \in f : Mutual(X, w, f)
           /\ e \cap f # {} /\ Rank[f] >= Rank[e]
  <2>1. G.V = V /\ G.edges = Edges /\ G.rank = Rank
    BY GIs
  <2>2. /\ \A v \in G.V : \A e : Mutual(X, v, e) => \A w \in e : Mutual(X, w, e)
        /\ \A e \in G.edges : \E f \in G.edges :
             /\ \A w \in f : Mutual(X, w, f)
             /\ e \cap f # {} /\ G.rank[f] >= G.rank[e]
    <3> HIDE DEF G, X
    <3>1. G.V = 0 .. n-1
      BY <1>2, <2>1
    <3> QED BY <1>0, <1>1, <3>1, RestIsDominant
  <2> QED BY <2>1, <2>2
<1>4. \A s \in Procs : IsInjective(match[s]) /\ ToSet(match[s]) = Registers(s, X)
  BY <1>0, ListsOnce DEF MatchesAre
<1>5. \A e \in Edges : \A v \in e : v \in V /\ owner[v] \in Procs
  BY <1>0, EndsAre, GraphIs
<1>6. ASSUME NEW e \in Matched
      PROVE  e \in Edges /\ \A v \in e : Mutual(X, v, e)
  <2>1. PICK s \in Procs : e \in Registers(s, X)
    BY <1>4 DEF Matched
  <2>2. e \in Edges /\ \E v \in e : Mutual(X, v, e)
    BY <2>1 DEF Registers
  <2> QED BY <1>3, <1>5, <2>2
<1>7. ASSUME NEW e \in Edges, NEW v \in e, Mutual(X, v, e)
      PROVE  e \in ToSet(match[owner[v]]) /\ e \in Matched
  <2>1. e \in Registers(owner[v], X)
    BY <1>7 DEF Registers
  <2>2. e \in ToSet(match[owner[v]])
    BY <1>4, <1>5, <2>1
  <2> QED BY <1>5, <2>2 DEF Matched
<1>8. \A e \in Matched : \A v \in e : e \in ToSet(match[owner[v]])
  BY <1>6, <1>7
<1>9. \A e, f \in Matched : e = f \/ e \cap f = {}
  BY <1>6 DEF Mutual
<1>10. ASSUME NEW e \in Edges
       PROVE  \E f \in Matched : e \cap f # {} /\ ~ Heavier(e, f)
  <2>1. PICK f \in Edges : /\ \A w \in f : Mutual(X, w, f)
                           /\ e \cap f # {} /\ Rank[f] >= Rank[e]
    BY <1>3
  <2>2. f \in Matched
    BY <1>7, <2>1
  <2>3. ~ Heavier(e, f)
    <3>1. Rank[e] \in Int /\ Rank[f] \in Int /\ (Heavier(e, f) <=> Rank[e] > Rank[f])
      BY <1>0, RankIs
    <3> QED BY <2>1, <3>1
  <2> QED BY <2>1, <2>2, <2>3
<1> QED BY <1>4, <1>8, <1>9, <1>10

(* When all processes have stopped, what they have registered is a matching
   both of whose ends agree, and every edge has an end matched by an edge
   that is not lighter. *)
THEOREM MatchingDominates == Spec => []MatchingIsDominant
<1> USE InputsAssumption
<1>1. IInv => MatchingIsDominant
  BY DominantIs
<1> QED BY <1>1, InductiveInvariant, PTL
====
