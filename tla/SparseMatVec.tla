---- MODULE SparseMatVec ----
(***************************************************************************)
(* Sparse matrix times vector, as bspmv_test.c of BSPedupack2.0 does it.   *)
(* Process 0 reads the matrix and sends the nonzeros out in batches        *)
(* (bspinput2triple); every process turns its own into compressed rows     *)
(* (triple2icrs); process 0 reads who owns which component of v and u      *)
(* (bspinputvec); announcements in a cyclic table tell every process where *)
(* the components are that its columns and rows need (bspmv_init); then    *)
(* comes u = Av by fan-out, local product and fan-in (bspmv).              *)
(* The input has the nonzeros in the order of the file, Pstart, for each   *)
(* vector its owners and for each file the number of processes it is for.  *)
(***************************************************************************)
EXTENDS Supersteps

nzA == Len(input.nonzeros)
MAXSEND == input.maxsend

(* DUMMY-terminated loops over an ascending list: its distinct elements.   *)
StartsRun(list, i) == i = 1 \/ list[i] # list[i-1]
RunsUpTo(list, i) == Cardinality({h \in 1 .. i : StartsRun(list, h)})
RunHead(list, r) == list[CHOOSE i \in DOMAIN list : StartsRun(list, i) /\ RunsUpTo(list, i) = r]
----
(* A faulty variant: a partial sum received replaces the one that is there.*)
FannedInLast(s) ==
  [i \in DOMAIN mem[s].u |->
     IF \E m \in inbox[s] : m.tag = i THEN (CHOOSE m \in inbox[s] : m.tag = i).payload
     ELSE mem[s].u[i]]
----
(* The smallest power of two whose square is at least n.                   *)
radix == Min({2 ^ e : e \in {f \in 0 .. n : 2 ^ f * 2 ^ f >= n}})

SortKey(i, keytype) == IF keytype = "DIV" THEN i \div radix ELSE i % radix

(* sort: into bins by the key of one index; a bin keeps the order.         *)
CountingSort(items, index, keytype) ==
  LET nbins == IF keytype = "DIV" THEN CeilDiv(n, radix) ELSE radix
      Bin(r) == SelectSeq(items, LAMBDA x : SortKey(x[index], keytype) = r)
  IN FlattenSeq([b \in 1 .. nbins |-> Bin(b - 1)])

RadixSort(items, index) == CountingSort(CountingSort(items, index, "MOD"), index, "DIV")

----
MatVecMemory(s) ==
  [nz |-> Zeros(1), step |-> 0, triples |-> <<>>, which |-> "v", nv |-> Zeros(1)]

(* Process 0 reads the header; a file for another number of processes ends *)
(* the program.                                                            *)
ReadHeader(s) ==
  /\ s = 0 => input.procs["A"] = NProcs
  /\ Part(s, "header", "nonzeros", <<>>, PutsOnly(
       IF s # 0 THEN {}
       ELSE {Put(q, "nz", 0, input.Pstart[q+1] - input.Pstart[q]) : q \in Procs}))

WrongMatrixFile(s) == s = 0 /\ input.procs["A"] # NProcs /\ Abort(s, "header")

(* Process 0 sends the next MAXSEND nonzeros.  "Find processor of nonzero  *)
(* k", whose parts before it may be empty.                                 *)
Receiver(k) == Cardinality({q \in 1 .. NProcs : input.Pstart[q] <= k})

SendNonzeros(s) ==
  LET from == mem[s].step * MAXSEND
      batch == {k \in from .. from + MAXSEND - 1 : k < nzA}
      Triple(k) == input.nonzeros[k+1]
  IN /\ mem[s].step < CeilDiv(nzA, MAXSEND)
     /\ Part(s, "nonzeros", "store", <<>>, [Nothing EXCEPT !.sends =
          IF s # 0 THEN {}
          ELSE {Message(Receiver(k), s, <<Triple(k).i, Triple(k).j>>, Triple(k).value) :
                  k \in batch}])

(* What arrived is stored, in any order, behind what is there.             *)
StoreNonzeros(s) ==
  \E ms \in SetToSeqs(inbox[s]) :
    LET batch == [k \in DOMAIN ms |->
                    [i |-> ms[k].tag[1], j |-> ms[k].tag[2], value |-> ms[k].payload]]
    IN Local(s, "store", "nonzeros", [triples |-> mem[s].triples \o batch, step |-> mem[s].step + 1])

(* triple2icrs: sort by columns, give those that occur local numbers ...   *)
SortColumns(s) ==
  /\ mem[s].step >= CeilDiv(nzA, MAXSEND)
  /\ Local(s, "nonzeros", "columns", [triples |-> RadixSort(mem[s].triples, "j")])

NumberColumns(s) ==
  LET js == [k \in DOMAIN mem[s].triples |-> mem[s].triples[k].j]
      ncols == RunsUpTo(js, Len(js))
  IN Local(s, "columns", "rows",
       [ncols |-> ncols, colindex |-> Array(ncols, LAMBDA j : RunHead(js, j + 1)),
        triples |-> [k \in DOMAIN js |-> [mem[s].triples[k] EXCEPT !.j = RunsUpTo(js, k) - 1]]])

SortRows(s) ==
  Local(s, "rows", "compress", [triples |-> RadixSort(mem[s].triples, "i")])

(* ... and store, by rows, the steps from one nonzero's column to the next *)
(* one's, plus ncols for a step to the next row.  The dummy at the end ends*)
(* the last row.                                                           *)
Increments(ja, is, ncols) ==
  LET nz == Len(ja)
      Column(k) == IF k = 0 THEN 0 ELSE ja[k]
      NewRow(k) == k > 1 /\ StartsRun(is, k)
  IN Array(nz + 1, LAMBDA k :
       IF k = nz THEN ncols - Column(nz)
       ELSE Column(k+1) - Column(k) + (IF NewRow(k+1) THEN ncols ELSE 0))

Compress(s) ==
  LET nonzeros == mem[s].triples
      is == [k \in DOMAIN nonzeros |-> nonzeros[k].i]
      nrows == RunsUpTo(is, Len(is))
  IN Part(s, "compress", IF input.program = "matvec" THEN "owners" ELSE "edges",
       [nrows |-> nrows, rowindex |-> Array(nrows, LAMBDA i : RunHead(is, i + 1)),
        a |-> Array(Len(is), LAMBDA k : nonzeros[k+1].value),
        inc |-> Increments([k \in DOMAIN is |-> nonzeros[k].j], is, mem[s].ncols)], Nothing)
----
(* bspinputvec, for v and then for u.  Process 0 reads the owners, a block *)
(* in every superstep, and puts owner and local index in a cyclic table.   *)
OwnerOf(i) == input.owner[mem[0].which][i]
LocalIndex(i) == Cardinality({h \in 0 .. i-1 : OwnerOf(h) = OwnerOf(i)})

VectorHeader(s) ==
  /\ s = 0 => input.procs[mem[s].which] = NProcs
  /\ Part(s, "owners", "read", [step |-> 0, tmpproc |-> Zeros(nloc(NProcs, s, n)),
                                tmpind |-> Zeros(nloc(NProcs, s, n))], Nothing)

WrongVectorFile(s) ==
  s = 0 /\ input.procs[mem[s].which] # NProcs /\ Abort(s, "owners")

ReadOwners(s) ==
  LET q == mem[s].step
      b == CeilDiv(n, NProcs)
      block == {k \in q*b .. (q+1)*b - 1 : k < n}
  IN Part(s, "read", IF q + 1 < NProcs THEN "read" ELSE "count", [step |-> q + 1], PutsOnly(
       IF s # 0 THEN {}
       ELSE UNION {{Put(i % NProcs, "tmpproc", i \div NProcs, OwnerOf(i)),
                    Put(i % NProcs, "tmpind", i \div NProcs, LocalIndex(i))} : i \in block}))

CountComponents(s) ==
  Part(s, "count", "allocate", <<>>, PutsOnly(
    IF s # 0 THEN {}
    ELSE {Put(q, "nv", 0, Cardinality({i \in 0 .. n-1 : OwnerOf(i) = q})) : q \in Procs}))

AllocateIndices(s) ==
  Part(s, "allocate", "place", [vindex |-> Zeros(mem[s].nv[0])], Nothing)

PlaceIndices(s) ==
  Part(s, "place", "placed", <<>>, PutsOnly(
    {Put(mem[s].tmpproc[k], "vindex", mem[s].tmpind[k], k * NProcs + s) :
       k \in DOMAIN mem[s].tmpproc}))

Placed(s) ==
  LET first == mem[s].which = "v"
  IN Part(s, "placed", IF first THEN "owners" ELSE "announce",
          IF first THEN [which |-> "u", jv |-> mem[s].vindex]
          ELSE [ju |-> mem[s].vindex, tmpprocv |-> Zeros(nloc(NProcs, s, n)),
                tmpindv |-> Zeros(nloc(NProcs, s, n)), tmpprocu |-> Zeros(nloc(NProcs, s, n)),
                tmpindu |-> Zeros(nloc(NProcs, s, n))], Nothing)
----
(* bspmv_init: owners announce their components in the cyclic table, and   *)
(* everybody looks up those of its columns and rows.                       *)
AnnounceIn(s, index, proc, ind) ==
  UNION {{Put(index[j] % NProcs, proc, index[j] \div NProcs, s),
          Put(index[j] % NProcs, ind, index[j] \div NProcs, j)} :
           j \in DOMAIN index}

Announce(s) ==
  Part(s, "announce", "look up", <<>>, PutsOnly(
    AnnounceIn(s, mem[s].jv, "tmpprocv", "tmpindv")
      \cup AnnounceIn(s, mem[s].ju, "tmpprocu", "tmpindu")))

LookUpIn(s, index, proc, ind, toProc, toInd) ==
  UNION {{Get(s, toProc, j, index[j] % NProcs, proc, index[j] \div NProcs),
          Get(s, toInd, j, index[j] % NProcs, ind, index[j] \div NProcs)} : j \in DOMAIN index}

LookUp(s) ==
  LET cols == mem[s].colindex
      rows == mem[s].rowindex
  IN Part(s, "look up", "fan out",
       [srcprocv |-> Zeros(mem[s].ncols), srcindv |-> Zeros(mem[s].ncols),
        destprocu |-> Zeros(mem[s].nrows), destindu |-> Zeros(mem[s].nrows),
        v |-> [j \in DOMAIN mem[s].jv |-> input.v[mem[s].jv[j]]],
        u |-> Zeros(mem[s].nv[0])],
       [Nothing EXCEPT !.gets =
          LookUpIn(s, cols, "tmpprocv", "tmpindv", "srcprocv", "srcindv")
            \cup LookUpIn(s, rows, "tmpprocu", "tmpindu", "destprocu", "destindu")])
----
(* bspmv.  Superstep (0): fetch the components of v that are needed.       *)
FanOut(s) ==
  LET Own(j) == mem[s].srcprocv[j] = s
  IN Part(s, "fan out", "multiply",
       [vloc |-> Array(mem[s].ncols, LAMBDA j : IF Own(j) THEN mem[s].v[mem[s].srcindv[j]] ELSE 0)],
       [Nothing EXCEPT !.gets =
          {Get(s, "vloc", j, mem[s].srcprocv[j], "v", mem[s].srcindv[j]) :
             j \in {c \in DOMAIN mem[s].srcprocv : ~ Own(c)}}])

(* Supersteps (1)/(2): a row ends when the pointer into vloc, which inc    *)
(* moves, leaves it; the next begins that far beyond its start.            *)
RECURSIVE SumRow(_, _)
SumRow(s, at) ==
  IF at.pv >= mem[s].ncols THEN [at EXCEPT !.pv = at.pv - mem[s].ncols]
  ELSE SumRow(s, [k |-> at.k + 1, pv |-> at.pv + mem[s].inc[at.k + 1],
                  sum |-> at.sum + mem[s].a[at.k] * mem[s].vloc[at.pv]])

RowSums(s) ==
  FoldLeft(LAMBDA rows, i :
             Append(rows, SumRow(s, IF i = 1 THEN [k |-> 0, pv |-> mem[s].inc[0], sum |-> 0]
                                    ELSE [rows[i-1] EXCEPT !.sum = 0])),
           <<>>, [i \in 1 .. mem[s].nrows |-> i])

Multiply(s) ==
  LET sums == RowSums(s)
      Own(i) == mem[s].destprocu[i] = s
      rows == DOMAIN mem[s].destprocu
      Mine(c) == {i \in rows : Own(i) /\ mem[s].destindu[i] = c}
  IN Part(s, "multiply", "fan in",
       [u |-> [c \in DOMAIN mem[s].u |->
                 IF Mine(c) = {} THEN 0 ELSE sums[1 + (CHOOSE i \in Mine(c) : TRUE)].sum]],
       [Nothing EXCEPT !.sends =
          {Message(mem[s].destprocu[i], s, mem[s].destindu[i], sums[i+1].sum) :
             i \in {r \in rows : ~ Own(r)}}])

(* Superstep (3): add the partial sums received.                           *)
FannedIn(s) ==
  [i \in DOMAIN mem[s].u |->
     mem[s].u[i] + MapThenSumSet(LAMBDA m : m.payload, {m \in inbox[s] : m.tag = i})]

FanIn(s) == Part(s, "fan in", "end", [u |-> FannedIn(s)], Nothing)

MatVecStep(s) ==
  \/ ReadHeader(s) \/ WrongMatrixFile(s) \/ SendNonzeros(s) \/ StoreNonzeros(s)
  \/ SortColumns(s) \/ NumberColumns(s) \/ SortRows(s) \/ Compress(s)
  \/ VectorHeader(s) \/ WrongVectorFile(s) \/ ReadOwners(s) \/ CountComponents(s)
  \/ AllocateIndices(s) \/ PlaceIndices(s) \/ Placed(s) \/ Announce(s) \/ LookUp(s)
  \/ FanOut(s) \/ Multiply(s) \/ FanIn(s)
----
(* "u[i]= (sum: 0 <= j < n: a[i][j]*v[j])" (bspmv_test.c), every component *)
(* at one process, whoever has the nonzeros and the components of v and u; *)
(* and no process is sent more nonzeros than it has allocated room for.    *)
MultipliesMatrix ==
  input.program = "matvec" =>
    /\ \A s \in Procs : Len(mem[s].triples) <= mem[s].nz[0]
    /\ AllAt("end") =>
         \A i \in 0 .. n-1 :
           LET have == {s \in Procs : \E c \in DOMAIN mem[s].ju : mem[s].ju[c] = i}
               Nonzeros == {k \in 1 .. nzA : input.nonzeros[k].i = i}
           IN /\ have = {input.owner["u"][i]}
              /\ \A s \in have : \A c \in DOMAIN mem[s].ju :
                   mem[s].ju[c] = i =>
                     mem[s].u[c] = MapThenSumSet(LAMBDA k : input.nonzeros[k].value
                                                    * input.v[input.nonzeros[k].j], Nonzeros)
====
