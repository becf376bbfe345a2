---- MODULE HaloEdges ----
(***************************************************************************)
(* How bspmatch_test.c of BSPedupack2.0 makes the input of bspmatch from   *)
(* the sparse matrix that bspinput2triple has dealt out by rows: every     *)
(* process numbers its vertices (rows) and edges, those inside first, then *)
(* the halo edges, whose other end is elsewhere; finds the owners of the   *)
(* other ends through a cyclic table; sends each owner the number of the   *)
(* edge; and couples the edges it is told with its own by their order.     *)
(***************************************************************************)
EXTENDS SparseMatVec

DUMMY == -1
----
(* A faulty variant: the received edges are coupled as they are sorted by  *)
(* their own row first.                                                    *)
SortedReceivedByRow(s) == RadixSort(RadixSort(mem[s].msgs, "j"), "i")
----
(* The number of the process's nonzero k in the list of its triples, its   *)
(* row (vertex) and the vertex of its column, if that is local.            *)
Vertex(s, k) == RunsUpTo([h \in DOMAIN mem[s].triples |-> mem[s].triples[h].i], k) - 1

ColumnVertex(s, k) ==
  LET jglob == mem[s].colindex[mem[s].triples[k].j]
      same == {r \in DOMAIN mem[s].rowindex : mem[s].rowindex[r] = jglob}
  IN IF same = {} THEN DUMMY ELSE CHOOSE r \in same : TRUE

IsHalo(s, k) == ColumnVertex(s, k) = DUMMY
IsInside(s, k) == ~ IsHalo(s, k) /\ Vertex(s, k) < ColumnVertex(s, k)

nhalo(s) == Cardinality({k \in DOMAIN mem[s].triples : IsHalo(s, k)})
TwiceInside(s) == Len(mem[s].triples) - nhalo(s)

(* The nonzeros that stand for edges, in the order of the new numbers.     *)
Renumbered(s) ==
  SelectSeq([k \in DOMAIN mem[s].triples |-> k], LAMBDA k : IsInside(s, k))
    \o SelectSeq([k \in DOMAIN mem[s].triples |-> k], LAMBDA k : IsHalo(s, k))

(* The adjacency list of vertex i, filled in the order of the nonzeros.    *)
AdjacencyOf(s, edges, i) ==
  LET at == SelectSeq([k \in DOMAIN mem[s].triples |-> k], LAMBDA k :
              IF IsHalo(s, k) THEN Vertex(s, k) = i
              ELSE IsInside(s, k) /\ i \in {Vertex(s, k), ColumnVertex(s, k)})
  IN [h \in DOMAIN at |-> (CHOOSE e \in DOMAIN edges : edges[e] = at[h]) - 1]

(* "Error on input: nz-nhalo is odd".                                      *)
OddEdges(s) == pc[s] = "edges" /\ TwiceInside(s) % 2 = 1 /\ Abort(s, "edges")

NumberEdges(s) ==
  LET edges == Renumbered(s)
      Edge(e) == edges[e+1]
  IN /\ pc[s] = "edges" /\ TwiceInside(s) % 2 = 0
     /\ Part(s, "edges", "tell vertices",
          [nedges |-> TwiceInside(s) \div 2, nhalo |-> nhalo(s),
           v0 |-> Array(Len(edges), LAMBDA e : Vertex(s, Edge(e))),
           ja |-> Array(Len(edges), LAMBDA e : mem[s].triples[Edge(e)].j),
           v1 |-> Array(Len(edges), LAMBDA e :
                    IF IsHalo(s, Edge(e)) THEN mem[s].triples[Edge(e)].j
                    ELSE ColumnVertex(s, Edge(e))),
           Adj |-> Array(mem[s].nrows, LAMBDA i : AdjacencyOf(s, edges, i)),
           tmpproc |-> Zeros(nloc(NProcs, s, n))], Nothing)

(* "Announce my vertices": a vertex without edges is taken to be of 0.     *)
TellVertices(s) ==
  Part(s, "tell vertices", "find owners", <<>>, PutsOnly(
    {Put(mem[s].rowindex[i] % NProcs, "tmpproc", mem[s].rowindex[i] \div NProcs, s) :
       i \in DOMAIN mem[s].rowindex}))

FindOwners(s) ==
  LET columns == DOMAIN mem[s].colindex
      cols == mem[s].colindex
      foreign == {j \in columns : cols[j] \notin Range(mem[s].rowindex)}
  IN Part(s, "find owners", "send halo", [proc |-> [j \in columns |-> s]],
       [Nothing EXCEPT !.gets =
          {Get(s, "proc", j, cols[j] % NProcs, "tmpproc", cols[j] \div NProcs) : j \in foreign}])

(* Every halo edge (i,j) is made known to the owner of j.                  *)
HaloOf(s) == {e \in DOMAIN mem[s].v0 : e >= mem[s].nedges}

SendHalo(s) ==
  LET dest(e) == mem[s].proc[mem[s].v1[e]]
  IN Part(s, "send halo", "receive halo",
       [destproc |-> Array(mem[s].nhalo, LAMBDA e : dest(e + mem[s].nedges))],
       [Nothing EXCEPT !.sends =
          {Message(dest(e), s, <<mem[s].rowindex[mem[s].v0[e]], mem[s].colindex[mem[s].v1[e]]>>, e) :
             e \in HaloOf(s)}])

(* "Error: number of messages <> nhalo".                                   *)
WrongHalo(s) ==
  pc[s] = "receive halo" /\ Cardinality(inbox[s]) # mem[s].nhalo /\ Abort(s, "receive halo")

ReceiveHalo(s) ==
  /\ pc[s] = "receive halo" /\ Cardinality(inbox[s]) = mem[s].nhalo
  /\ \E ms \in SetToSeqs(inbox[s]) :
       Local(s, "receive halo", "couple",
             [msgs |-> [k \in DOMAIN ms |-> [i |-> ms[k].tag[1], j |-> ms[k].tag[2],
                                            e |-> ms[k].payload]]])

(* Sorted by their column, ties by their row, they are in the order of the *)
(* local halo edges.                                                       *)
SortedReceived(s) == RadixSort(RadixSort(mem[s].msgs, "i"), "j")

Couple(s) ==
  LET msgs == SortedReceived(s)
  IN Part(s, "couple", "end",
       [v1 |-> [e \in DOMAIN mem[s].v1 |->
                  IF e \in HaloOf(s) THEN msgs[e - mem[s].nedges + 1].e ELSE mem[s].v1[e]]],
       Nothing)

HaloStep(s) ==
  \/ OddEdges(s) \/ NumberEdges(s) \/ TellVertices(s) \/ FindOwners(s)
  \/ SendHalo(s) \/ WrongHalo(s) \/ ReceiveHalo(s) \/ Couple(s)
----
(* The two halves of an edge between two processes know each other: the    *)
(* one names the other's owner and number, and they have the same two ends.*)
(* Every vertex lists the edges it is an end of, each once.                *)
EndsOf(s, e) == {mem[s].rowindex[mem[s].v0[e]], mem[s].colindex[mem[s].ja[e]]}

HalvesAreCoupled ==
  input.program = "halo" /\ AllAt("end") =>
    \A s \in Procs :
      /\ \A e \in HaloOf(s) :
           LET t == mem[s].destproc[e - mem[s].nedges]
               f == mem[s].v1[e]
           IN /\ t # s /\ f \in HaloOf(t)
              /\ mem[t].destproc[f - mem[t].nedges] = s
              /\ mem[t].v1[f] = e
              /\ EndsOf(t, f) = EndsOf(s, e)
      /\ \A i \in DOMAIN mem[s].rowindex :
           /\ Range(mem[s].Adj[i]) =
                {e \in DOMAIN mem[s].v0 : mem[s].rowindex[i] \in EndsOf(s, e)}
           /\ IsInjective(mem[s].Adj[i])
====
