---- MODULE LUDecomposition ----
(***************************************************************************)
(* bsplu of BSPedupack2.0/bsplu.c: LU decomposition with row pivoting of an*)
(* n by n matrix that is distributed cyclically over M by N processes.     *)
(* Process pid is P(s,t) with pid = s + t*M.  In stage k the column of k   *)
(* chooses the pivot row r, rows k and r are swapped, column k and row k   *)
(* are broadcast in two phases, and the rest of the block of columns k0 .. *)
(* k0+b-1 is updated.  The swaps and updates of the other columns are      *)
(* postponed to the end of the block.                                      *)
(* Numbers are integers modulo a prime q: any field will do for A = LU.    *)
(***************************************************************************)
EXTENDS Supersteps

M == input.M
N == input.N
BLOCK == input.block

row(pid) == pid % M
col(pid) == pid \div M

Lesser(x, y) == IF x < y THEN x ELSE y

(* Local rows and columns before global index g; those of the process.     *)
rows(pid, g) == nloc(M, row(pid), g)
cols(pid, g) == nloc(N, col(pid), g)
nr(pid) == rows(pid, n)
nc(pid) == cols(pid, n)

k(pid) == mem[pid].k
k0(pid) == mem[pid].k0
b(pid) == Lesser(BLOCK, n - k0(pid))
kb(pid) == k0(pid) + b(pid)
r(pid) == mem[pid].r[0]
a(pid, i, j) == mem[pid].a[i * nc(pid) + j]

HasColumn(pid, g) == g % N = col(pid)
HasRow(pid, g) == g % M = row(pid)
----
(* Faulty variants.                                                        *)

(* Every row outside the block moves to where its first swap takes it.     *)
FinalRowFirstSwap(from, first, swaps) ==
  FoldLeft(LAMBDA dest, i : IF dest # from THEN dest
                            ELSE IF dest = first + i THEN swaps[i]
                            ELSE IF dest = swaps[i] THEN first + i ELSE dest,
           from, [i \in 1 .. Cardinality(DOMAIN swaps) |-> i - 1])

(* The blocks of a broadcast are rounded down to equal lengths, plus one.  *)
BroadcastOverlapping(pid, name, x, length, src, s0, stride, p0, phase) ==
  LET width == (length \div p0) + 2
  IN {Put(s0 + t * stride, name, i, x[i]) :
        t \in {u \in 0 .. p0-1 : s0 + u * stride # src},
        i \in {j \in 0 .. length-1 : phase = 1 /\ j \div width <= (pid - s0) \div stride}}
----
(* bsp_permute_rows: local row src moves to row dest, columns jc .. jc1-1. *)
PermuteRows(pid, moves, jc, jc1) ==
  {Put((m[2] % M) + col(pid) * M, "a", (m[2] \div M) * nc(pid) + j, a(pid, m[1] \div M, j)) :
     m \in moves, j \in jc .. jc1 - 1}

(* bsp_broadcast of x[0 .. length-1] to processes s0, s0+stride, ..: first *)
(* the source deals out blocks, then everybody passes on its own.          *)
Broadcast(pid, name, x, length, src, s0, stride, p0, phase) ==
  LET width == CeilDiv(length, p0)
      Block(t) == {i \in 0 .. length-1 : i \div width = t}
      dests == {t \in 0 .. p0-1 : s0 + t * stride # src}
      To(t, block) == {Put(s0 + t * stride, name, i, x[i]) : i \in block}
  IN IF phase = 0
       THEN IF pid = src THEN UNION {To(t, Block(t)) : t \in dests} ELSE {}
       ELSE UNION {To(t, Block((pid - s0) \div stride)) : t \in dests}

(* Where row "from" ends up after the swaps of first+i and swaps[i].       *)
FinalRow(from, first, swaps) ==
  FoldLeft(LAMBDA dest, i : IF dest = first + i THEN swaps[i]
                            ELSE IF dest = swaps[i] THEN first + i ELSE dest,
           from, [i \in 1 .. Cardinality(DOMAIN swaps) |-> i - 1])

(* swaps2perm: the local rows that move, and where they go.                *)
SwapsToPerm(pid, first, swaps) ==
  LET outside == {swaps[i] : i \in DOMAIN swaps} \ (first .. first + Cardinality(DOMAIN swaps) - 1)
      inside == {first + i : i \in {j \in DOMAIN swaps : swaps[j] # first + j}}
  IN {<<g, FinalRow(g, first, swaps)>> : g \in {h \in outside \cup inside : HasRow(pid, h)}}
----
LUMemory(pid) ==
  [a |-> Array(nr(pid) * nc(pid), LAMBDA e :
           input.a[<<(e \div nc(pid)) * M + row(pid), (e % nc(pid)) * N + col(pid)>>]),
   pi |-> Array(nr(pid), LAMBDA i : i * M + row(pid)),
   r |-> Zeros(1), Max |-> Zeros(M), Imax |-> Zeros(M), Uk |-> Zeros(nc(pid)),
   Lk |-> Zeros(nr(pid)), L |-> Zeros(nr(pid) * BLOCK), UT |-> Zeros(nc(pid) * BLOCK),
   R |-> <<>>, k |-> 0, k0 |-> 0, stage |-> 0, forgotten |-> FALSE]

(* Superstep (0)/(1): the largest element of its part of column k.         *)
SearchPivot(pid) ==
  LET kc == cols(pid, k(pid))
      mine == rows(pid, k(pid)) .. nr(pid) - 1
      max == IF mine = {} THEN 0 ELSE Max({a(pid, i, kc) : i \in mine})
      imax == IF max = 0 THEN -1 ELSE Min({i \in mine : a(pid, i, kc) = max})
  IN Part(pid, "pivot", "scale", <<>>, PutsOnly(
       IF ~ HasColumn(pid, k(pid)) THEN {}
       ELSE UNION {{Put(s + col(pid) * M, "Max", row(pid), max),
                    Put(s + col(pid) * M, "Imax", row(pid), imax)} : s \in 0 .. M-1}))

(* Superstep (2)/(3): the column divides by the pivot; all get its row.    *)
Pivot(pid) == Max({mem[pid].Max[s] : s \in 0 .. M-1})

Scale(pid) ==
  LET kc == cols(pid, k(pid))
      smax == Min({s \in 0 .. M-1 : mem[pid].Max[s] = Pivot(pid)})
      imax == mem[pid].Imax[smax]
      Scaled(e) ==
        IF e % nc(pid) # kc \/ e \div nc(pid) < rows(pid, k(pid)) THEN mem[pid].a[e]
        ELSE IF row(pid) = smax /\ e \div nc(pid) = imax THEN Pivot(pid)
        ELSE Quotient(mem[pid].a[e], Pivot(pid))
      mine == [a |-> Array(nr(pid) * nc(pid), Scaled), r |-> [zero \in {0} |-> imax * M + smax]]
  IN /\ HasColumn(pid, k(pid)) => Pivot(pid) # 0
     /\ Part(pid, "scale", "swap", IF HasColumn(pid, k(pid)) THEN mine ELSE <<>>,
             [Nothing EXCEPT !.gets =
                {Get(pid, "r", 0, row(pid) + (k(pid) % N) * M, "r", 0)}])

(* "bsplu at stage k: matrix is singular".                                 *)
Singular(pid) ==
  HasColumn(pid, k(pid)) /\ pc[pid] = "scale" /\ Pivot(pid) = 0 /\ Abort(pid, "scale")

(* Superstep (4)/(5): swap rows k and r inside the block, and in pi.       *)
SwapRows(pid) ==
  LET here == k(pid)
      moves == IF r(pid) = here THEN {}
               ELSE {m \in {<<here, r(pid)>>, <<r(pid), here>>} : HasRow(pid, m[1])}
  IN Part(pid, "swap", "phase0",
          [R |-> [i \in 0 .. here - k0(pid) |-> IF i = here - k0(pid) THEN r(pid) ELSE mem[pid].R[i]]],
          PutsOnly({Put((m[2] % M) + col(pid) * M, "pi", m[2] \div M, mem[pid].pi[m[1] \div M]) :
                      m \in moves}
                   \cup PermuteRows(pid, moves, cols(pid, k0(pid)), cols(pid, kb(pid)))))

(* Supersteps (6) and (7): broadcast column k of L along the process rows, *)
(* and row k of U, inside the block, along the process columns.            *)
BroadcastBoth(pid, Lk, Uk, phase) ==
  LET here == k(pid)
      kr1 == rows(pid, here + 1)
      kc1 == cols(pid, here + 1)
  IN PutsOnly(
       Broadcast(pid, "Lk", Lk, nr(pid) - kr1, row(pid) + (here % N) * M, row(pid), M, N, phase)
       \cup Broadcast(pid, "Uk", Uk, cols(pid, kb(pid)) - kc1,
                      (here % M) + col(pid) * M, col(pid) * M, 1, M, phase))

Phase0(pid) ==
  LET here == k(pid)
      kr1 == rows(pid, here + 1)
      kc1 == cols(pid, here + 1)
      Lk == IF ~ HasColumn(pid, here) THEN mem[pid].Lk
            ELSE [i \in DOMAIN mem[pid].Lk |->
                    IF i + kr1 < nr(pid) THEN a(pid, i + kr1, cols(pid, here)) ELSE mem[pid].Lk[i]]
      Uk == IF ~ HasRow(pid, here) THEN mem[pid].Uk
            ELSE [j \in DOMAIN mem[pid].Uk |->
                    IF j + kc1 < cols(pid, kb(pid)) THEN a(pid, rows(pid, here), j + kc1)
                    ELSE mem[pid].Uk[j]]
  IN Part(pid, "phase0", "phase1", [Lk |-> Lk, Uk |-> Uk], BroadcastBoth(pid, Lk, Uk, 0))

Phase1(pid) ==
  Part(pid, "phase1", "update", <<>>, BroadcastBoth(pid, mem[pid].Lk, mem[pid].Uk, 1))

(* Superstep (0'): update the rest of the block, keep the part of column k *)
(* below the block, and go on to the next column or the end of the block.  *)
Updated(pid, fromRow, toRow, fromCol, toCol, Lk, Uk) ==
  [e \in DOMAIN mem[pid].a |->
     LET i == e \div nc(pid)
         j == e % nc(pid)
     IN IF i \in fromRow .. toRow - 1 /\ j \in fromCol .. toCol - 1
          THEN Mod(mem[pid].a[e] - Lk[i - fromRow] * Uk[j - fromCol])
          ELSE mem[pid].a[e]]

Update(pid) ==
  LET here == k(pid)
      kr1 == rows(pid, here + 1)
      below == rows(pid, kb(pid))
      last == here = kb(pid) - 1
  IN Local(pid, "update", IF last THEN "postponed" ELSE "pivot",
       [a |-> Updated(pid, kr1, nr(pid), cols(pid, here + 1), cols(pid, kb(pid)),
                      mem[pid].Lk, mem[pid].Uk),
        L |-> [e \in DOMAIN mem[pid].L |->
                 IF e % BLOCK = here - k0(pid) /\ e \div BLOCK < nr(pid) - below
                   THEN mem[pid].Lk[(e \div BLOCK) + below - kr1] ELSE mem[pid].L[e]],
        k |-> IF last THEN here ELSE here + 1])
----
(* A row of the block that an earlier stage of the block swapped, but not  *)
(* its own stage, is not among the rows that swaps2perm returns.           *)
ForgetsRow(pid) ==
  LET R == mem[pid].R
  IN \E i, j \in DOMAIN R : i < j /\ R[i] = k0(pid) + j /\ R[j] = k0(pid) + j

(* Superstep (8): carry out the swaps of the block in the other columns,   *)
(* and get the rows of L that were swapped once more.  (The history        *)
(* variable forgotten is the model's own.)                                 *)
Postponed(pid) ==
  LET moves == SwapsToPerm(pid, k0(pid), mem[pid].R)
      below == {m[1] \div M : m \in {x \in moves : x[1] >= kb(pid)}}
  IN Part(pid, "postponed", IF k(pid) < n - 1 THEN "row0" ELSE "end",
       [stage |-> 0, forgotten |-> mem[pid].forgotten \/ ForgetsRow(pid)],
       [puts |-> PermuteRows(pid, moves, 0, cols(pid, k0(pid)))
                   \cup PermuteRows(pid, moves, cols(pid, kb(pid)), nc(pid)),
        gets |-> {Get(pid, "L", (i - rows(pid, kb(pid))) * BLOCK + (j - k0(pid)),
                      row(pid) + (j % N) * M, "a", i * nloc(N, j % N, n) + (j \div N)) :
                    i \in below, j \in k0(pid) .. kb(pid) - 1},
        sends |-> {}])

(* Supersteps (9) and (10): broadcast row k0+stage of U beyond the block;  *)
(* get column k0+stage of L inside the block.                              *)
line(pid) == k0(pid) + mem[pid].stage

BroadcastLine(pid, Uk, phase) ==
  Broadcast(pid, "Uk", Uk, nc(pid) - cols(pid, kb(pid)), (line(pid) % M) + col(pid) * M,
            col(pid) * M, 1, M, phase)

Row0(pid) ==
  LET beyond == cols(pid, kb(pid))
      Uk == IF ~ HasRow(pid, line(pid)) THEN mem[pid].Uk
            ELSE [j \in DOMAIN mem[pid].Uk |->
                    IF j + beyond < nc(pid) THEN a(pid, line(pid) \div M, j + beyond)
                    ELSE mem[pid].Uk[j]]
  IN Part(pid, "row0", "row1", [Uk |-> Uk], PutsOnly(BroadcastLine(pid, Uk, 0)))

Row1(pid) ==
  LET first == rows(pid, line(pid) + 1)
      t == line(pid) % N
  IN Part(pid, "row1", "rank1", <<>>,
       [puts |-> BroadcastLine(pid, mem[pid].Uk, 1),
        gets |-> {Get(pid, "Lk", i - first, row(pid) + t * M, "a",
                      i * nloc(N, t, n) + (line(pid) \div N)) :
                    i \in first .. rows(pid, kb(pid)) - 1},
        sends |-> {}])

(* Superstep (9'): update the rows of the block beyond it ...              *)
Rank1(pid) ==
  LET beyond == cols(pid, kb(pid))
      next == mem[pid].stage + 1
  IN Local(pid, "rank1", IF next < b(pid) THEN "row0" ELSE "rankb",
       [UT |-> [e \in DOMAIN mem[pid].UT |->
                  IF e % BLOCK = mem[pid].stage /\ e \div BLOCK < nc(pid) - beyond
                    THEN mem[pid].Uk[e \div BLOCK] ELSE mem[pid].UT[e]],
        a |-> Updated(pid, rows(pid, line(pid) + 1), rows(pid, kb(pid)), beyond, nc(pid),
                      mem[pid].Lk, mem[pid].Uk),
        stage |-> next])

(* ... and, by matmat_tall_skinny, everything below and beyond the block.  *)
RankB(pid) ==
  LET below == rows(pid, kb(pid))
      beyond == cols(pid, kb(pid))
      Product(i, j) ==
        MapThenSumSet(LAMBDA x : mem[pid].L[(i - below) * BLOCK + x]
                                   * mem[pid].UT[(j - beyond) * BLOCK + x], 0 .. b(pid) - 1)
  IN Local(pid, "rankb", "pivot",
       [a |-> [e \in DOMAIN mem[pid].a |->
                 IF e \div nc(pid) >= below /\ e % nc(pid) >= beyond
                   THEN Mod(mem[pid].a[e] - Product(e \div nc(pid), e % nc(pid)))
                   ELSE mem[pid].a[e]],
        k0 |-> kb(pid), k |-> k(pid) + 1])

LUStep(pid) ==
  \/ SearchPivot(pid) \/ Scale(pid) \/ Singular(pid) \/ SwapRows(pid)
  \/ Phase0(pid) \/ Phase1(pid) \/ Update(pid)
  \/ Postponed(pid) \/ Row0(pid) \/ Row1(pid) \/ Rank1(pid) \/ RankB(pid)
----
(* The element of the result at global position (i, j), and pi(i).         *)
Result(i, j) == a((i % M) + (j % N) * M, i \div M, j \div N)

Permuted(i, t) == mem[(i % M) + t * M].pi[i \div M]

Lower(i, j) == IF i > j THEN Result(i, j) ELSE IF i = j THEN 1 ELSE 0
Upper(i, j) == IF i <= j THEN Result(i, j) ELSE 0

(* "The decomposition is A(pi(i),j)=(LU)(i,j)" (bsplu_test.c): although the*)
(* columns outside a block see its swaps and updates later, in another     *)
(* order.  Every process column has the same permutation pi.               *)
FactorsMatrix ==
  input.program = "lu" /\ AllAt("end") =>
    /\ \A i \in 0 .. n-1 : \A t \in 0 .. N-1 : Permuted(i, t) = Permuted(i, 0)
    /\ {Permuted(i, 0) : i \in 0 .. n-1} = 0 .. n-1
    /\ \A i, j \in 0 .. n-1 :
         Mod(MapThenSumSet(LAMBDA x : Lower(i, x) * Upper(x, j), 0 .. n-1)) =
           input.a[<<Permuted(i, 0), j>>]

(* It does so whenever swaps2perm has not forgotten a row, for every grid  *)
(* of processes and every block size.                                      *)
FactorsUnlessForgotten ==
  input.program = "lu" /\ AllAt("end") /\ ~ mem[0].forgotten => FactorsMatrix
====
