---- MODULE Matching ----
(***************************************************************************)
(* bspmatch of BSPedupack2.0/bspmatch.c: matching the vertices of a        *)
(* weighted graph by local domination.  Every vertex proposes to the       *)
(* neighbour behind its heaviest living edge; a vertex keeps its heaviest  *)
(* proposer, its suitor, and rejects the others.  Between vertices of      *)
(* different processes proposals, acceptances and rejections are bsp_send  *)
(* messages, which arrive after the next bsp_sync in no particular order.  *)
(*                                                                         *)
(* An edge is the set of its two vertices.  The code knows an edge by a    *)
(* local number, and a halo edge also by its number at the other process;  *)
(* bspmatch_test.c has had these numbers exchanged beforehand.  Processes  *)
(* share nothing between two bsp_syncs, so that within a superstep it is   *)
(* enough to let them run one after the other.                             *)
(***************************************************************************)
EXTENDS Integers, FiniteSets, SequencesExt

CONSTANTS
  Graphs,           \* records [V, weight]: vertices 0 .. n-1, weighted edges
  ProcCounts,       \* the numbers of processes, at least one
  MaxOps,           \* the limits of work per superstep, 0 for none
  SplitMin          \* SPLITMIN, the range worth splitting (5 in the code)

VARIABLES
  graph, p, owner,  \* the input: a graph, and the process that has a vertex
  maxops,
  pc,               \* "start", "work", "sync" or "stopped", per process
  inbox,            \* messages received and not yet moved
  sent,             \* sent[t]: messages on their way to process t
  Done,             \* the processes that put "done" in this superstep
  queue,            \* Q from q_lo on, nq entries long
  ops,              \* nops_step
  match,            \* the matches registered, in order
  Alive,            \* the edges alive at a process
  Adj, degree,      \* adjacency list of a vertex, and how much of it is left
  Splitter,         \* the indices of the list that are splitters
  Suitor, Pref      \* the edge of the suitor, and of the vertex preferred

input == <<graph, p, owner, maxops>>
lists == <<Adj, degree, Splitter>>
vars == <<input, pc, inbox, sent, Done, queue, ops, match, Alive, lists, Suitor, Pref>>

(* What is assumed of the inputs: a finite graph, its vertices numbered    *)
(* from 0, without loops.  Of the weights only the order matters.          *)
IsGraph(g) ==
  /\ IsFiniteSet(g.V) /\ g.V = 0 .. Cardinality(g.V) - 1
  /\ \A e \in DOMAIN g.weight :
       g.weight[e] \in Nat /\ \E u, v \in g.V : u # v /\ e = {u, v}

ProperInputs ==
  /\ \A g \in Graphs : IsGraph(g)
  /\ ProcCounts \subseteq Nat \ {0} /\ MaxOps \subseteq Nat /\ SplitMin \in Nat \ {0}

ASSUME InputsAssumption == ProperInputs

Procs == 0 .. p-1
V == graph.V
Edges == DOMAIN graph.weight
DUMMY == {}

Other(v, e) == CHOOSE u \in e : u # v

LocalEnd(s, e) == CHOOSE v \in e : owner[v] = s

(* An edge is internal to a process, or a halo edge between two.           *)
Internal(e) == \A u, v \in e : owner[u] = owner[v]

DestProc(s, e) == owner[Other(LocalEnd(s, e), e)]
----
(* Faulty variants.                                                        *)

(* Only edges whose other end is used up are lost, not those whose other   *)
(* end has a better suitor.                                                *)
LostOnlyIfUsedUp(v, e) ==
  Internal(e) /\ degree[Other(v, e)] = 0 /\ Suitor[v] # e

(* A range of two edges is not put in order before it is split.            *)
SplitAdjAsIs(adj, r, hi) == [adj |-> adj, r |-> (r + hi + 1) \div 2]

(* A proposer of the own process is not put back onto the queue.           *)
RejectingForgets(s, v, e) ==
  [push |-> <<>>, dead |-> {e} \ {DUMMY},
   send |-> IF e = DUMMY \/ Internal(e) THEN <<>>
            ELSE <<[to |-> DestProc(s, e), tag |-> "REJECT", edge |-> e]>>]

(* push leaves the preference of the vertex as it was.                     *)
UnpreferNot(pref, vertices) == pref

(* The work done is not counted anew in every superstep.                   *)
SyncKeepsWork ==
  /\ \A s \in Procs : pc[s] = "sync"
  /\ pc' = [s \in Procs |-> IF Done = Procs THEN "stopped" ELSE "start"]
  /\ inbox' = sent
  /\ sent' = [s \in Procs |-> <<>>]
  /\ Done' = {}
  /\ UNCHANGED <<input, queue, ops, match, Alive, lists, Suitor, Pref>>
----
(* The secondary weight, by which bspmatch_test.c breaks ties.             *)
weight1(e) ==
  MapThenSumSet(LAMBDA v : v, e) + IF Internal(e) THEN 2 * Cardinality(V) ELSE 0

Heavier(e0, e1) ==
  /\ e0 # DUMMY
  /\ e1 # DUMMY => \/ graph.weight[e0] > graph.weight[e1]
                  \/ /\ graph.weight[e0] = graph.weight[e1]
                     /\ weight1(e0) > weight1(e1)

(* An internal edge that cannot be matched any more: its other end is used *)
(* up or has a better suitor.                                              *)
Lost(v, e) ==
  LET u == Other(v, e)
  IN /\ Internal(e)
     /\ \/ degree[u] = 0 /\ Suitor[v] # e
        \/ Heavier(Suitor[u], e)

Living(s, v, e) == e \in Alive[s] /\ ~ Lost(v, e)

(* find_alive: the highest index of a living edge, 0 if there is none.     *)
FindAlive(s, v) ==
  LET living == {i \in 1 .. degree[v] : Living(s, v, Adj[v][i])}
  IN IF living = {} THEN 0 ELSE Max(living)

FirstToEnd(list) == IF list = <<>> THEN list ELSE Tail(list) \o <<Head(list)>>

LastToFront(list) == IF list = <<>> THEN list ELSE <<Last(list)>> \o Front(list)

(* find_splitter: from the top down to the highest splitter r, every dead  *)
(* edge is overwritten by the top edge and the list shrinks to d edges.    *)
FindSplitter(s, v, top) ==
  LET splitters == {i \in Splitter[v] : i <= top}
      r == IF splitters = {} THEN 1 ELSE Max(splitters)
      Visit(e, above) == IF Living(s, v, e) THEN <<e>> \o above ELSE LastToFront(above)
      kept == FoldRight(Visit, SubSeq(Adj[v], r, top), <<>>)
      d == r - 1 + Len(kept)
  IN [adj |-> SubSeq(Adj[v], 1, r - 1) \o kept \o SubSeq(Adj[v], d + 1, Len(Adj[v])),
      r |-> r, d |-> d]

Swap(adj, i, j) == [adj EXCEPT ![i] = adj[j], ![j] = adj[i]]

(* find_pref: swap the heaviest edge of adj[r .. hi] to the top.           *)
FindPref(adj, r, hi) ==
  LET imax == CHOOSE i \in r .. hi : \A j \in r .. hi : ~ Heavier(adj[j], adj[i])
  IN Swap(adj, imax, hi)

(* split_adj: partition adj[r .. hi] around its middle element, in place;  *)
(* the index where the heavier part begins is the new splitter.  Putting a *)
(* lighter edge in its place moves the first of the heavier ones to their  *)
(* end.                                                                    *)
SplitAdj(adj, r, hi) ==
  LET swapped == IF hi - r >= 2 THEN Swap(adj, (r + hi) \div 2, hi) ELSE adj
      pivot == swapped[hi]
      Visit(parts, e) ==
        IF Heavier(pivot, e)
        THEN [lighter |-> Append(parts.lighter, e), heavier |-> FirstToEnd(parts.heavier)]
        ELSE [lighter |-> parts.lighter, heavier |-> Append(parts.heavier, e)]
      parts == FoldLeft(Visit, [lighter |-> <<>>, heavier |-> <<>>],
                        SubSeq(swapped, r, hi - 1))
  IN [adj |-> SubSeq(adj, 1, r - 1) \o parts.lighter \o <<pivot>>
                \o FirstToEnd(parts.heavier) \o SubSeq(adj, hi + 1, Len(adj)),
      r |-> IF hi - r = 1 THEN hi ELSE r + Len(parts.lighter)]

(* reject_suitor: the proposer behind e, a vertex of this process or of    *)
(* another, has to look for somebody else.                                 *)
Rejecting(s, v, e) ==
  [push |-> IF e # DUMMY /\ Internal(e) THEN <<Other(v, e)>> ELSE <<>>,
   send |-> IF e = DUMMY \/ Internal(e) THEN <<>>
            ELSE <<[to |-> DestProc(s, e), tag |-> "REJECT", edge |-> e]>>,
   dead |-> {e} \ {DUMMY}]

(* What is dead of the top of the list of v, from index i on.              *)
Dead(s, v, i) == {e \in {Adj[v][j] : j \in i .. degree[v]} : ~ Living(s, v, e)}

Message(s, tag, e) == [to |-> DestProc(s, e), tag |-> tag, edge |-> e]

(* Of a message or none: it, if it is for t.                               *)
For(t, message) == IF message # <<>> /\ Head(message).to = t THEN message ELSE <<>>

Send(first, second) ==
  sent' = [t \in Procs |-> sent[t] \o For(t, first) \o For(t, second)]

(* push sets the preference of the vertices put onto the queue to DUMMY.   *)
Push(s, rest, vertices) == queue' = [queue EXCEPT ![s] = rest \o vertices]

Unprefer(pref, vertices) == [v \in V |-> IF v \in ToSet(vertices) THEN DUMMY ELSE pref[v]]

Turn(s) == \A t \in Procs : t < s => pc[t] \in {"sync", "stopped"}
----
(* The elements of S in the order of their keys, which are distinct.       *)
Ascending(S, key) ==
  CHOOSE list \in [1 .. Cardinality(S) -> S] :
    \A i, j \in DOMAIN list : i < j => key[list[i]] < key[list[j]]

(* The order in which bspmatch_test.c fills the list of v: the internal    *)
(* edges found in the rows of smaller vertices, then those of its own row. *)
InitialAdj(v) ==
  LET mine == {e \in Edges : v \in e}
      early == {e \in mine : Internal(e) /\ Other(v, e) < v}
      Row(S) == Ascending(S, [e \in S |-> Other(v, e)])
  IN Row(early) \o Row(mine \ early)

(* Every distribution of the vertices, up to the names of the processes.   *)
Distributions(S, T) ==
  {f \in [S -> T] : \A v \in S : f[v] <= Cardinality({f[u] : u \in {w \in S : w < v}})}

Init ==
  /\ graph \in Graphs
  /\ p \in ProcCounts
  /\ owner \in Distributions(V, Procs)
  /\ maxops \in MaxOps
  /\ pc = [s \in Procs |-> "start"]
  /\ inbox = [s \in Procs |-> <<>>]
  /\ sent = [s \in Procs |-> <<>>]
  /\ Done = {}
  /\ queue = [s \in Procs |->
       Ascending({v \in V : owner[v] = s /\ InitialAdj(v) # <<>>}, [v \in V |-> v])]
  /\ ops = [s \in Procs |-> 0]
  /\ match = [s \in Procs |-> <<>>]
  /\ Alive = [s \in Procs |-> {e \in Edges : \E v \in e : owner[v] = s}]
  /\ Adj = [v \in V |-> InitialAdj(v)]
  /\ degree = [v \in V |-> Len(Adj[v])]
  /\ Splitter = [v \in V |-> {}]
  /\ Suitor = [v \in V |-> DUMMY]
  /\ Pref = [v \in V |-> DUMMY]
----
(* Nothing received and nothing queued: tell everybody.                    *)
ReportDone(s) ==
  /\ pc[s] = "start" /\ Turn(s)
  /\ inbox[s] = <<>> /\ queue[s] = <<>>
  /\ Done' = Done \cup {s}
  /\ pc' = [pc EXCEPT ![s] = "sync"]
  /\ UNCHANGED <<input, inbox, sent, queue, ops, match, Alive, lists, Suitor, Pref>>

Begin(s) ==
  /\ pc[s] = "start" /\ Turn(s)
  /\ inbox[s] # <<>> \/ queue[s] # <<>>
  /\ pc' = [pc EXCEPT ![s] = "work"]
  /\ UNCHANGED <<input, inbox, sent, Done, queue, ops, match, Alive, lists, Suitor, Pref>>

(* bsp_process_recvd_msgs, one message at a time: message i with this tag. *)
Moves(s, i, tag) ==
  /\ pc[s] = "work"
  /\ inbox[s][i].tag = tag
  /\ inbox' = [inbox EXCEPT ![s] = RemoveAt(@, i)]
  /\ UNCHANGED <<input, pc, Done, ops, Adj, Splitter>>

(* The preference is mutual: a match, found by both ends at once.          *)
RegisterMutual(s, v, e) ==
  /\ match' = [match EXCEPT ![s] = IF e = Pref[v] THEN Append(@, e) ELSE @]
  /\ degree' = [degree EXCEPT ![v] = IF e = Pref[v] THEN 0 ELSE @]

Displace(s, v, e) ==
  LET old == Rejecting(s, v, Suitor[v])
  IN /\ Suitor' = [Suitor EXCEPT ![v] = e]
     /\ Push(s, queue[s], old.push)
     /\ Pref' = Unprefer(Pref, old.push)
     /\ Send(<<>>, old.send)
     /\ Alive' = [Alive EXCEPT ![s] = @ \ old.dead]

ReceiveProposal(s, i) ==
  LET e == inbox[s][i].edge
      v == LocalEnd(s, e)
  IN /\ Moves(s, i, "PROPOSE")
     /\ RegisterMutual(s, v, e)
     /\ \/ Heavier(e, Suitor[v]) /\ Displace(s, v, e)
        \/ /\ ~ Heavier(e, Suitor[v])
           /\ Send(<<>>, <<Message(s, "REJECT", e)>>)
           /\ Alive' = [Alive EXCEPT ![s] = @ \ {e}]
           /\ UNCHANGED <<queue, Suitor, Pref>>

ReceiveAcceptance(s, i) ==
  LET e == inbox[s][i].edge
      v == LocalEnd(s, e)
  IN /\ Moves(s, i, "ACCEPT")
     /\ match' = [match EXCEPT ![s] = Append(@, e)]
     /\ degree' = [degree EXCEPT ![v] = 0]
     /\ Displace(s, v, e)

ReceiveRejection(s, i) ==
  LET e == inbox[s][i].edge
      v == LocalEnd(s, e)
  IN /\ Moves(s, i, "REJECT")
     /\ Push(s, queue[s], <<v>>)
     /\ Pref' = [Pref EXCEPT ![v] = DUMMY]
     /\ Alive' = [Alive EXCEPT ![s] = @ \ {e}]
     /\ UNCHANGED <<sent, match, degree, Suitor>>
----
(* The loop over the queue, while the limit of work is not reached.        *)
Pops(s) ==
  /\ pc[s] = "work" /\ inbox[s] = <<>>
  /\ queue[s] # <<>>
  /\ maxops = 0 \/ ops[s] < maxops

(* The vertex popped has no living edge left.                              *)
GiveUp(s) ==
  LET v == Head(queue[s])
  IN /\ Pops(s)
     /\ FindAlive(s, v) = 0
     /\ Push(s, Tail(queue[s]), <<>>)
     /\ Alive' = [Alive EXCEPT ![s] = @ \ Dead(s, v, 1)]
     /\ degree' = [degree EXCEPT ![v] = 0]
     /\ ops' = [ops EXCEPT ![s] = @ + IF degree[v] > 0 THEN degree[v] + 1 ELSE 0]
     /\ UNCHANGED <<input, pc, inbox, sent, Done, match, Adj, Splitter, Suitor, Pref>>

(* v prefers edge e: match it if the other end has proposed it already, or *)
(* else propose, to a vertex of this process by becoming its suitor.       *)
Prefer(s, v, top, found, chosen, e) ==
  LET u == Other(v, e)
      mutual == e = Suitor[v]
      usedUp == IF ~ mutual THEN {} ELSE IF Internal(e) THEN e ELSE {v}
      old == Rejecting(s, u, IF Internal(e) THEN Suitor[u] ELSE DUMMY)
      hi == IF mutual THEN 0 ELSE found.d - 1
      splits == hi - found.r >= SplitMin
      split == SplitAdj(chosen, found.r, hi)
      proposal == IF Internal(e) THEN <<>>
                  ELSE <<Message(s, IF mutual THEN "ACCEPT" ELSE "PROPOSE", e)>>
  IN /\ match' = [match EXCEPT ![s] = IF mutual THEN Append(@, e) ELSE @]
     /\ degree' = [w \in V |-> IF w \in usedUp THEN 0
                              ELSE IF w = v THEN found.d - 1 ELSE degree[w]]
     /\ Adj' = [Adj EXCEPT ![v] = IF splits THEN split.adj ELSE chosen]
     /\ Splitter' = [Splitter EXCEPT ![v] = IF splits THEN @ \cup {split.r} ELSE @]
     /\ Suitor' = IF Internal(e) THEN [Suitor EXCEPT ![u] = e] ELSE Suitor
     /\ Push(s, Tail(queue[s]), old.push)
     /\ Pref' = Unprefer([Pref EXCEPT ![v] = e], old.push)
     /\ Send(proposal, old.send)
     /\ Alive' = [Alive EXCEPT ![s] = (@ \ Dead(s, v, found.r)) \ old.dead]
     /\ ops' = [ops EXCEPT ![s] = @ + (degree[v] - top + 1) + (top - found.r + 1)
                    + (found.d - found.r + 1) + IF splits THEN hi - found.r + 1 ELSE 0]

(* The vertex popped has a living edge.                                    *)
Choose(s) ==
  LET v == Head(queue[s])
      top == FindAlive(s, v)
  IN /\ Pops(s)
     /\ top > 0
     /\ \E found \in {FindSplitter(s, v, top)} :
        \E chosen \in {FindPref(found.adj, found.r, found.d)} :
          Prefer(s, v, top, found, chosen, chosen[found.d])
     /\ UNCHANGED <<input, pc, inbox, Done>>

(* The queue is empty, or there was enough work for one superstep.         *)
EndStep(s) ==
  /\ pc[s] = "work" /\ inbox[s] = <<>>
  /\ queue[s] = <<>> \/ (maxops # 0 /\ ops[s] >= maxops)
  /\ pc' = [pc EXCEPT ![s] = "sync"]
  /\ UNCHANGED <<input, inbox, sent, Done, queue, ops, match, Alive, lists, Suitor, Pref>>

(* bsp_sync, after which everybody knows who is done.                      *)
Sync ==
  /\ \A s \in Procs : pc[s] = "sync"
  /\ pc' = [s \in Procs |-> IF Done = Procs THEN "stopped" ELSE "start"]
  /\ inbox' = sent
  /\ sent' = [s \in Procs |-> <<>>]
  /\ Done' = {}
  /\ ops' = [s \in Procs |-> 0]
  /\ UNCHANGED <<input, queue, match, Alive, lists, Suitor, Pref>>

Stopped == (\A s \in Procs : pc[s] = "stopped") /\ UNCHANGED vars

Step(s) ==
  \/ ReportDone(s) \/ Begin(s)
  \/ \E i \in DOMAIN inbox[s] :
       ReceiveProposal(s, i) \/ ReceiveAcceptance(s, i) \/ ReceiveRejection(s, i)
  \/ GiveUp(s) \/ Choose(s) \/ EndStep(s)

Next == Sync \/ (\E s \in Procs : Step(s)) \/ Stopped

Spec == Init /\ [][Next]_vars

(* No process stops in the middle of its program.                          *)
FairSpec == Spec /\ WF_vars(Sync) /\ WF_vars(\E s \in Procs : Step(s))
----
Matched == UNION {ToSet(match[s]) : s \in Procs}

AllStopped == \A s \in Procs : pc[s] = "stopped"

TypeOK ==
  /\ owner \in [V -> Procs]
  /\ \A s \in Procs : /\ pc[s] \in {"start", "work", "sync", "stopped"}
                      /\ Alive[s] \subseteq Edges
                      /\ ToSet(match[s]) \subseteq Edges
                      /\ ops[s] \in Nat
  /\ \A v \in V : /\ Suitor[v] \in Edges \cup {DUMMY}
                  /\ Pref[v] \in Edges \cup {DUMMY}
                  /\ degree[v] \in 0 .. Len(Adj[v])

(* Q is circular and as long as there are vertices: push would overwrite a *)
(* vertex if one could be queued twice, by two rejections or by a message  *)
(* while it is still waiting.  A queued vertex has no preference pending.  *)
QueueHoldsEachVertexOnce ==
  \A s \in Procs : /\ IsInjective(queue[s])
                  /\ \A v \in ToSet(queue[s]) : owner[v] = s /\ Pref[v] = DUMMY

(* split_adj: "weight[Adj[i]] < weight[Adj[j]], for all i < r <= j".  The  *)
(* edges at and above a splitter stay heavier than those below, although   *)
(* find_splitter fills gaps with the top edge and find_pref swaps edges.   *)
SplittersSplit ==
  \A v \in V : \A r \in Splitter[v] :
    \A i \in 1 .. r - 1, j \in r .. degree[v] : Heavier(Adj[v][j], Adj[v][i])

(* All of them: no vertex is queued twice, every splitter splits.          *)
MatchingInv == TypeOK /\ QueueHoldsEachVertexOnce /\ SplittersSplit

(* A suitor is replaced only by a heavier one, although an acceptance and  *)
(* the choice of an internal edge replace it without comparing: so nobody  *)
(* is rejected in favour of something that could still be turned down.     *)
NoSuitorWorsens == \A v \in V : Suitor'[v] = Suitor[v] \/ Heavier(Suitor'[v], Suitor[v])

SuitorsOnlyImprove == [][NoSuitorWorsens]_vars

(* At the end the edges registered are a matching, both processes of a     *)
(* matched halo edge have registered it, once, and no edge is better at    *)
(* both ends than what these are matched with.  It is the matching the     *)
(* sequential greedy algorithm finds.                                      *)
MatchingIsDominant ==
  AllStopped =>
    /\ \A s \in Procs : IsInjective(match[s])
    /\ \A e \in Matched : \A v \in e : e \in ToSet(match[owner[v]])
    /\ \A e, f \in Matched : e = f \/ e \cap f = {}
    /\ \A e \in Edges : \E f \in Matched : e \cap f # {} /\ ~ Heavier(e, f)

(* The exchange of proposals comes to an end, nobody waits for an answer   *)
(* for ever, in spite of the limit of work per superstep.                  *)
Terminates == <>AllStopped
====
