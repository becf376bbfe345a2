---- MODULE Pedupack ----
(***************************************************************************)
(* The programs of BSPedupack2.0 that run in supersteps: sorting, LU       *)
(* decomposition, Fourier transform, sparse matrix times vector, the halo  *)
(* edges of the graph matching, inner product and the benchmark's          *)
(* h-relations.  An input names its program.                               *)
(***************************************************************************)
EXTENDS SampleSort, LUDecomposition, FastFourier, HaloEdges, InnerProduct

CONSTANT Inputs   \* the inputs to run

FirstPart ==
  [sort |-> "sort", lu |-> "pivot", fft |-> "transform", matvec |-> "header",
   halo |-> "header", inprod |-> "ask n", bench |-> "relation"]

Memory(s) ==
  CASE input.program = "sort" -> SortMemory(s)
    [] input.program = "lu" -> LUMemory(s)
    [] input.program = "fft" -> FftMemory(s)
    [] input.program \in {"matvec", "halo"} -> MatVecMemory(s)
    [] input.program = "inprod" -> InprodMemory(s)
    [] input.program = "bench" -> BenchMemory(s)

Init ==
  /\ input \in Inputs
  /\ pc = [s \in Procs |-> FirstPart[input.program]]
  /\ InitSupersteps([s \in Procs |-> Memory(s)])

Step(s) ==
  \/ input.program = "sort" /\ SortStep(s)
  \/ input.program = "lu" /\ LUStep(s)
  \/ input.program = "fft" /\ FftStep(s)
  \/ input.program \in {"matvec", "halo"} /\ MatVecStep(s)
  \/ input.program = "halo" /\ HaloStep(s)
  \/ input.program = "inprod" /\ InprodStep(s)
  \/ input.program = "bench" /\ Relation(s)

Next == Sync \/ Finished \/ \E s \in Procs : Step(s)

Spec == Init /\ [][Next]_vars
====
