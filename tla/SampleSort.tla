---- MODULE SampleSort ----
(***************************************************************************)
(* bspsort of BSPedupack2.0/bspsort.c, with the merging of bspsort_test.c: *)
(* every process sorts its block and puts P samples everywhere, all choose *)
(* the same splitters from the samples, send every element to the process  *)
(* between whose splitters it lies, and merge what they receive.           *)
(* Equal elements are told apart by their global index.                    *)
(***************************************************************************)
EXTENDS Supersteps
----
(* Faulty variants.                                                        *)

(* Equal elements are not told apart.                                      *)
BeforeNoIndex(a, b) == a.weight < b.weight

(* The samples of every process go to the beginning of the array.          *)
SampleSlotSame(s, i) == i
----
(* The part of process t begins at this global index.                      *)
BlockTotal(t) ==
  IF t <= n % NProcs THEN t * (n \div NProcs + 1) ELSE t * (n \div NProcs) + (n % NProcs)

(* The samples are nearly equally spaced in a block of nl elements.        *)
SampleIndex(nl, i) ==
  IF i <= nl % NProcs THEN i * (nl \div NProcs + 1) ELSE i * (nl \div NProcs) + (nl % NProcs)

SampleSlot(s, i) == s * NProcs + i

(* compare_items.  compare_doubles is the same for equal indices.          *)
Before(a, b) == a.weight < b.weight \/ (a.weight = b.weight /\ a.index < b.index)
----
(* merge: on equality the element of the right part goes first.            *)
RECURSIVE MergeTwo(_, _)
MergeTwo(a, b) ==
  IF a = <<>> THEN b
  ELSE IF b = <<>> THEN a
  ELSE IF Before(Head(a), Head(b)) THEN <<Head(a)>> \o MergeTwo(Tail(a), b)
  ELSE <<Head(b)>> \o MergeTwo(a, Tail(b))

(* A round of mergeparts merges pairs of parts and keeps an odd one.       *)
MergeRound(parts) ==
  LET pairs == [i \in 1 .. Len(parts) \div 2 |-> MergeTwo(parts[2*i-1], parts[2*i])]
  IN IF Len(parts) % 2 = 1 THEN Append(pairs, Last(parts)) ELSE pairs

RECURSIVE MergeParts(_)
MergeParts(parts) ==
  IF parts = <<>> THEN <<>>
  ELSE IF Len(parts) = 1 THEN parts[1]
  ELSE MergeParts(MergeRound(parts))

AsItems(x) == [i \in DOMAIN x |-> [weight |-> x[i], index |-> 0]]

Weights(items) == [i \in DOMAIN items |-> items[i].weight]

Ascending(x) == SortSeq(x, <)
----
(* The block of process s, and room for as much as it may receive.         *)
SortMemory(s) ==
  [x |-> [i \in 1 .. nloc(NProcs, s, n) |-> input.x[BlockTotal(s) + i - 1]],
   Sample |-> Zeros(NProcs * NProcs)]

(* Superstep (0)/(1): sort the block, put samples of it to everybody.      *)
SortBlock(s) ==
  LET x == Ascending(mem[s].x)
  IN /\ NProcs * NProcs <= n
     /\ Part(s, "sort", "split", [x |-> x],
             PutsOnly({Put(t, "Sample", SampleSlot(s, i), x[1 + SampleIndex(Len(x), i)]) :
                         t \in Procs, i \in 0 .. NProcs-1}))

(* "bspsort only works if p*p <= n".                                       *)
SortTooFew(s) == NProcs * NProcs > n /\ Abort(s, "sort")

(* Superstep (2)/(3): choose splitters, send every element to its process. *)
Samples(s) ==
  [t \in 1 .. NProcs |-> [i \in 1 .. NProcs |->
     [weight |-> mem[s].Sample[(t-1) * NProcs + i-1],
      index |-> BlockTotal(t-1) + SampleIndex(nloc(NProcs, t-1, n), i-1)]]]

SplitterOf(s, t) == MergeParts(Samples(s))[1 + t * NProcs]

(* How many of its elements s has sent once it has sent those for 0 .. t.  *)
SentUpTo(s, t) ==
  LET x == mem[s].x
      Item(i) == [weight |-> x[i], index |-> BlockTotal(s) + i - 1]
  IN IF t < 0 THEN 0
     ELSE IF t = NProcs-1 THEN Len(x)
     ELSE Cardinality({i \in DOMAIN x : Before(Item(i), SplitterOf(s, t + 1))})

SendElements(s) ==
  LET Piece(t) == SubSeq(mem[s].x, SentUpTo(s, t-1) + 1, SentUpTo(s, t))
  IN Part(s, "split", "merge", <<>>,
          [Nothing EXCEPT !.sends =
             {Message(t, s, Len(Piece(t)), Piece(t)) : t \in {u \in Procs : Piece(u) # <<>>}}])

(* Superstep (4): merge what was received, in any order.                   *)
MergeReceived(s) ==
  /\ \E parts \in SetToSeqs({<<m.from, m.payload>> : m \in inbox[s]}) :
       Part(s, "merge", "end",
            [x |-> Weights(MergeParts([j \in DOMAIN parts |-> AsItems(parts[j][2])]))],
            Nothing)

SortStep(s) == SortBlock(s) \/ SortTooFew(s) \/ SendElements(s) \/ MergeReceived(s)
----
(* The output is the input in ascending order, spread over the processes   *)
(* in the order of their numbers, and each holds at least one element and  *)
(* at most 2n/p + p, even if all elements are equal: x has room for them.  *)
SortsGlobally ==
  input.program = "sort" /\ AllAt("end") =>
    /\ FlattenSeq([t \in 1 .. NProcs |-> mem[t-1].x]) =
         Ascending([i \in 1 .. n |-> input.x[i-1]])
    /\ \A s \in Procs : /\ Len(mem[s].x) >= 1
                        /\ NProcs * Len(mem[s].x) <= 2 * n + NProcs * NProcs
                        /\ Len(mem[s].x) <= 2 * nloc(NProcs, 0, n) + NProcs
====
