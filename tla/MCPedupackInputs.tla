---- MODULE MCPedupackInputs ----
(* Small inputs of every program of BSPedupack.  Each input is one run of  *)
(* its program, so the instances are many and their behaviours short.      *)
EXTENDS Integers, Sequences, FiniteSets

LOCAL INSTANCE SequencesExt
LOCAL INSTANCE FiniteSetsExt

(* All vectors over few values; more processes than the sort can use.      *)
SortInputs ==
  UNION {{[program |-> "sort", P |-> c[2], n |-> c[1], x |-> x] :
            x \in [0 .. c[1]-1 -> 1 .. c[3]]} :
         c \in {<<3, 1, 2>>, <<5, 2, 2>>, <<9, 3, 1>>, <<3, 2, 1>>}}
  \cup {[program |-> "sort", P |-> 3, n |-> 11, x |-> [i \in 0 .. 10 |-> (i * u + w) % 5]] :
          u \in 1 .. 4, w \in {0, 3}}

(* Matrices modulo 7, a singular one among them, on grids of processes.    *)
MatrixOf(size, u, w, z) ==
  [e \in (0 .. size-1) \X (0 .. size-1) |->
     (u * e[1] * e[1] + w * e[1] * e[2] + e[2] * e[2] + e[1] + z * e[2] + 1) % 7]

LUInputs ==
  {[program |-> "lu", P |-> g[1] * g[2], M |-> g[1], N |-> g[2], n |-> d[1], block |-> d[2],
    q |-> 7, a |-> MatrixOf(d[1], u, w, z)] :
     g \in {<<1, 1>>, <<2, 2>>, <<3, 1>>, <<1, 2>>}, d \in {<<3, 2>>, <<4, 3>>, <<5, 2>>},
     u \in {0, 2}, w \in {2, 4}, z \in {0, 1}}

(* The unit vectors, which decide a linear map, and a full vector; lengths *)
(* that need one, two and three redistributions, and one too short.        *)
FftVectors(size) ==
  {[j \in 0 .. size-1 |-> IF j = i THEN 1 ELSE 0] : i \in 0 .. size-1}
    \cup {[j \in 0 .. size-1 |-> (j * j + 1) % 17]}

FftInputs ==
  UNION {{[program |-> "fft", P |-> c[2], n |-> c[1], q |-> 17, backward |-> back, x |-> x] :
            x \in FftVectors(c[1])} :
         c \in {<<2, 1>>, <<4, 2>>, <<8, 2>>, <<8, 4>>, <<16, 8>>, <<4, 4>>}, back \in BOOLEAN}

(* Every way to cut the list of nonzeros into parts and many ways to own   *)
(* the components; and files for another number of processes.              *)
Nonzeros ==
  {<<[i |-> 1, j |-> 0, value |-> 2], [i |-> 0, j |-> 2, value |-> 3],
     [i |-> 1, j |-> 2, value |-> 5], [i |-> 2, j |-> 1, value |-> 7]>>,
   <<[i |-> 2, j |-> 2, value |-> 2], [i |-> 0, j |-> 2, value |-> 3],
     [i |-> 2, j |-> 0, value |-> 5], [i |-> 0, j |-> 0, value |-> 7],
     [i |-> 2, j |-> 1, value |-> 11]>>, <<>>}

Cuts(procs, length) ==
  {f \in [0 .. procs -> 0 .. length] :
     f[0] = 0 /\ f[procs] = length /\ \A t \in 1 .. procs : f[t-1] <= f[t]}

Files(procs) == [file \in {"A", "v", "u"} |-> procs]

MatVecInputs ==
  UNION {{[program |-> "matvec", P |-> 2, n |-> 3, maxsend |-> 3, nonzeros |-> nzs,
           Pstart |-> cut, v |-> [j \in 0 .. 2 |-> 2*j + 1],
           owner |-> [v |-> ov, u |-> ou], procs |-> Files(2)] :
            cut \in Cuts(2, Len(nzs)),
            ov \in {o \in [0 .. 2 -> 0 .. 1] : o[1] = 0},
            ou \in {o \in [0 .. 2 -> 0 .. 1] : o[0] = 1}} : nzs \in Nonzeros}
  \cup {[program |-> "matvec", P |-> 3, n |-> 3, maxsend |-> 2, nonzeros |-> nzs,
         Pstart |-> cut, v |-> [j \in 0 .. 2 |-> 2*j + 1],
         owner |-> [v |-> [j \in 0 .. 2 |-> j], u |-> [j \in 0 .. 2 |-> 2 - j]],
         procs |-> [Files(3) EXCEPT ![wrong] = IF wrong = "u" THEN 3 ELSE 4]] :
          nzs \in {x \in Nonzeros : Len(x) = 4}, cut \in Cuts(3, 4), wrong \in {"A", "v", "u"}}

(* Graphs of four vertices, dealt out to two and three processes; and two  *)
(* that are no symmetric matrices.                                         *)
Graphs4 ==
  {{<<0, 1>>, <<1, 2>>, <<2, 3>>, <<3, 0>>}, {<<0, 1>>, <<0, 2>>, <<0, 3>>},
   {<<0, 1>>, <<0, 2>>, <<1, 2>>, <<2, 3>>}}

(* The nonzeros by processes, within a process by falling columns.         *)
FileOf(entries, owner) ==
  LET Earlier(x, y) == \/ owner[x.i] < owner[y.i]
                       \/ owner[x.i] = owner[y.i] /\ x.j > y.j
                       \/ owner[x.i] = owner[y.i] /\ x.j = y.j /\ x.i < y.i
  IN FoldSet(LAMBDA e, list :
               SortSeq(Append(list, [i |-> e[1], j |-> e[2], value |-> 1]), Earlier),
             <<>>, entries)

HaloInput(procs, entries, owner) ==
  [program |-> "halo", P |-> procs, n |-> 4, maxsend |-> 4, nonzeros |-> FileOf(entries, owner),
   Pstart |-> [t \in 0 .. procs |-> Cardinality({e \in entries : owner[e[1]] < t})],
   procs |-> Files(procs)]

HaloInputs ==
  {HaloInput(2, g \cup {<<e[2], e[1]>> : e \in g}, owner) :
     g \in Graphs4, owner \in {o \in [0 .. 3 -> 0 .. 1] : o[0] = 1}}
  \cup {HaloInput(3, g \cup {<<e[2], e[1]>> : e \in g}, owner) :
          g \in Graphs4, owner \in {[i \in 0 .. 3 |-> (i + z) % 3] : z \in 0 .. 2}}
  \cup {HaloInput(2, g, [i \in 0 .. 3 |-> i % 2]) : g \in {{<<1, 0>>}, {<<0, 0>>, <<1, 0>>}}}

InprodInputs == {[program |-> "inprod", P |-> procs, n |-> size] :
                   procs \in 1 .. 3, size \in -1 .. 5}

BenchInputs == {[program |-> "bench", P |-> procs, n |-> 6] : procs \in 1 .. 4}

OtherInputs ==
  SortInputs \cup LUInputs \cup FftInputs \cup MatVecInputs \cup HaloInputs
    \cup InprodInputs \cup BenchInputs
====
