---- MODULE Pinning ----
(***************************************************************************)
(* Where bsp_begin pins the processes of a run (mcbsp_util_pinning and what*)
(* it calls, mcutil.c).  The machine is a range of hardware threads in the *)
(* consecutive numbering; a run divides the range, or the part of the      *)
(* process that begins a nested run, into one part per process, and pins   *)
(* each process to the first thread of its part, after making room for the *)
(* reserved cores and translating to the machine's own numbering.          *)
(*                                                                         *)
(* The scattered starts are floored exactly; the code's doubles can be one *)
(* lower from 30 hardware threads on.                                      *)
(***************************************************************************)
EXTENDS MachineInfo, FiniteSets, SequencesExt

CONSTANTS
  MaxP,             \* bound: the processes of a run
  Strays            \* what the word behind an array may hold

VARIABLES
  debug,            \* the build without NDEBUG
  stray,            \* what the word behind the arrays does hold
  run,              \* the outer run: its affinity, parts and pinning
  nested            \* nested[s]: the run process s has begun

vars == <<infoVars, stage, debug, stray, run, nested>>

NoRun == [P |-> 0]

Init ==
  /\ InitInfo
  /\ debug \in BOOLEAN
  /\ stray \in Strays
  /\ run = NoRun
  /\ nested = <<>>
----
Log2(x) == CHOOSE k \in 0 .. x : 2^k <= (IF x = 0 THEN 1 ELSE x) /\ x < 2^(k + 1)

(* check_machine_info sorts the list.  Counting, it drops duplicates and   *)
(* cannot count what is no core.                                           *)
Counts(m) ==
  debug \/ Len(m.reserved_cores) * Log2(Len(m.reserved_cores)) > m.cores

(* The elements of a list in ascending order.                              *)
Ascending(list) ==
  LET places == 1 .. Len(list)
      order == CHOOSE p \in [places -> places] :
                 /\ IsInjective(p)
                 /\ \A i, j \in places : i < j => list[p[i]] <= list[p[j]]
  IN [i \in places |-> list[order[i]]]

CheckedReserved(m) ==
  Ascending(IF Counts(m) THEN SetToSeq(ToSet(m.reserved_cores)) ELSE m.reserved_cores)

CheckFails(m) ==
  \/ Counts(m) /\ \E c \in ToSet(m.reserved_cores) : c >= m.cores
  \/ m.cores <= Len(CheckedReserved(m))

(* mcbsp_util_array_sizet_lbound, which also looks behind the list: the    *)
(* index of the last element not above key, -1 for none (SIZE_MAX).        *)
LowerBound(list, key) ==
  LET At(k) == IF k < Len(list) THEN list[k + 1] ELSE stray
      halve[b \in (0 .. Len(list)) \X (0 .. Len(list))] ==
        LET mid == b[1] + ((b[2] - b[1]) \div 2)
            c == IF At(mid) > key THEN <<b[1], mid>> ELSE <<mid, b[2]>>
        IN IF At(mid) = key THEN mid
           ELSE IF c[2] - c[1] <= 1 THEN c[1]
           ELSE halve[c]
  IN IF At(0) > key THEN -1
     ELSE IF At(0) = key THEN 0
     ELSE IF At(Len(list)) = key THEN Len(list)
     ELSE halve[<<0, Len(list)>>]

(* Faulty variant: only who would be on a reserved core goes on.           *)
FilteredOnHit(m, thread) ==
  IF (thread \div m.threads_per_core) \in ToSet(m.reserved_cores)
    THEN thread + m.threads_per_core ELSE thread

(* filter_standard_pinning: go on by as many cores as are reserved up to   *)
(* the core of the thread.                                                 *)
Filtered(m, thread) ==
  IF m.reserved_cores = <<>> THEN thread
  ELSE thread + (LowerBound(m.reserved_cores, thread \div m.threads_per_core) + 1)
                  * m.threads_per_core

(* Faulty variant: the wrapped numbering taken for the consecutive one.    *)
TranslatedNot(m, thread) == thread

(* translate_standard_pinning                                              *)
Translated(m, thread) ==
  IF m.thread_numbering = "consecutive" THEN thread
  ELSE (thread \div m.threads_per_core) + (thread % m.threads_per_core) * m.cores

(* Faulty variants: all parts of the length of the longest; a compact part *)
(* whose threads are not P apart.                                          *)
ScatterPartLong(part, P, s) ==
  LET maxP == (part.end - part.start) \div part.stride
      length == (part.stride * maxP + P - 1) \div P
  IN [start |-> part.start + s * length, stride |-> part.stride,
      end |-> part.start + (s + 1) * length]

CompactPartSameStride(part, P, s) ==
  [start |-> part.start + s * part.stride, stride |-> part.stride, end |-> part.end]

(* Part s of P parts, scattered or compact (mcbsp_util_partition).         *)
ScatterPart(part, P, s) ==
  LET maxP == (part.end - part.start) \div part.stride
      start == part.start + ((s * part.stride * maxP) \div P)
  IN [start |-> start, stride |-> part.stride, end |-> start + ((part.stride * maxP) \div P)]

CompactPart(part, P, s) ==
  LET start == part.start + s * part.stride
      stride == part.stride * P
  IN [start |-> start, stride |-> stride,
      end |-> start + ((part.end - part.start) \div stride) * stride]

Partition(part, P, affinity) ==
  [s \in 0 .. P-1 |->
     IF affinity = "scatter" THEN ScatterPart(part, P, s) ELSE CompactPart(part, P, s)]

WholeMachine(m) == [start |-> 0, stride |-> 1, end |-> m.cores * m.threads_per_core]

(* A manual pinning is copied; its processes have parts without room.      *)
ManualRun(m, P) ==
  LET pinning == [s \in 0 .. P-1 |-> IF s < Len(m.pinning) THEN m.pinning[s + 1] ELSE stray]
  IN [P |-> P, affinity |-> "manual", within |-> WholeMachine(m), pinning |-> pinning,
      parts |-> [s \in 0 .. P-1 |->
                   [start |-> pinning[s], stride |-> 1, end |-> pinning[s]]]]

SystematicRun(m, part, P) ==
  LET parts == Partition(part, P, m.affinity)
  IN [P |-> P, affinity |-> m.affinity, within |-> part, parts |-> parts,
      pinning |-> [s \in 0 .. P-1 |-> Translated(m, Filtered(m, parts[s].start))]]

(* mcbsp_util_pinning for the information m, checked.                      *)
Pinned(m, part, P) == IF m.affinity = "manual" THEN ManualRun(m, P) ELSE SystematicRun(m, part, P)

Fails(m) == CheckFails(m) \/ (m.affinity = "manual" /\ m.pinning = <<>>)

Checked(m) == [m EXCEPT !.reserved_cores = CheckedReserved(m)]
----
(* bsp_begin(P) in the main thread.                                        *)
Begin(P) ==
  /\ stage = "ready"
  /\ ~ Fails(machine)
  /\ machine' = Checked(machine)
  /\ run' = Pinned(machine', WholeMachine(machine), P)
  /\ nested' = [s \in 0 .. P-1 |-> NoRun]
  /\ stage' = "running"
  /\ UNCHANGED <<file, known, fresh, calls, debug, stray>>

(* mcbsp_util_fatal: the program ends.                                     *)
BeginFails ==
  /\ stage = "ready"
  /\ Fails(machine)
  /\ stage' = "fatal"
  /\ UNCHANGED <<infoVars, debug, stray, run, nested>>

(* bsp_begin(P) in process s: process 0 has the main thread's information. *)
InfoOf(s) == IF s = 0 THEN machine ELSE fresh

BeginNested(s, P) ==
  /\ stage = "running"
  /\ nested[s] = NoRun
  /\ ~ Fails(InfoOf(s))
  /\ nested' = [nested EXCEPT ![s] = Pinned(Checked(InfoOf(s)), run.parts[s], P)]
  /\ UNCHANGED <<infoVars, stage, debug, stray, run>>

NestedFails(s) ==
  /\ stage = "running"
  /\ nested[s] = NoRun
  /\ Fails(InfoOf(s))
  /\ stage' = "fatal"
  /\ UNCHANGED <<infoVars, debug, stray, run, nested>>

Over ==
  /\ \/ stage = "fatal"
     \/ stage = "running" /\ \A s \in DOMAIN nested : nested[s] # NoRun
  /\ UNCHANGED vars

Next ==
  \/ ReadLine /\ UNCHANGED <<debug, stray, run, nested>>
  \/ EndOfFile /\ UNCHANGED <<debug, stray, run, nested>>
  \/ Set /\ UNCHANGED <<debug, stray, run, nested>>
  \/ \E P \in 1 .. MaxP : Begin(P)
  \/ BeginFails
  \/ \E s \in DOMAIN nested : \E P \in 1 .. MaxP : BeginNested(s, P)
  \/ \E s \in DOMAIN nested : NestedFails(s)
  \/ Over

Spec == Init /\ [][Next]_vars
----
ThreadsOf(r) == {r.pinning[s] : s \in 0 .. r.P - 1}

(* The core of a hardware thread, in the machine's numbering.              *)
CoreOf(m, thread) ==
  IF m.thread_numbering = "consecutive" THEN thread \div m.threads_per_core ELSE thread % m.cores

(* There is room for the run in the part of the machine it was given.      *)
HasRoom(r) ==
  r.P > 0 /\ r.P * r.within.stride <= r.within.end - r.within.start

(* Making room for reserved cores can move a process beyond the last core, *)
(* from where the wrapped numbering comes back to threads of other cores.  *)
StaysApart(m, r) ==
  \/ m.thread_numbering = "consecutive"
  \/ m.threads_per_core = 1
  \/ \A s \in 0 .. r.P - 1 :
       Filtered(m, r.parts[s].start) < m.cores * m.threads_per_core

(* Every process has a hardware thread for itself, also where the numbers  *)
(* are shifted for reserved cores, unless what lies behind the list of     *)
(* those looks like a core or a process of a machine with wrapped numbers  *)
(* is shifted out of it.  Without reserved cores the thread exists.        *)
ThreadsAreTheirOwn ==
  stage = "running" /\ run.affinity # "manual" /\ HasRoom(run) =>
    /\ stray >= machine.cores /\ StaysApart(machine, run) =>
         Cardinality(ThreadsOf(run)) = run.P
    /\ machine.reserved_cores = <<>> =>
         ThreadsOf(run) \subseteq 0 .. (machine.cores * machine.threads_per_core) - 1

(* "Scatter will spread threads as much as possible over all available     *)
(* cores" (mcbsp-affinity.h): no core has two processes while one has none.*)
ScatterSpreads ==
  stage = "running" /\ run.affinity = "scatter" /\ run.P <= machine.cores
    /\ machine.reserved_cores = <<>>
    => Cardinality({CoreOf(machine, t) : t \in ThreadsOf(run)}) = run.P

(* Nested runs share no hardware thread with those of the siblings, as     *)
(* long as they divide their parts the way the machine was divided: the    *)
(* threads of a compact run are interleaved.                               *)
NestedRunsAreApart ==
  stage = "running" =>
    \A s, t \in DOMAIN nested :
      /\ s # t /\ HasRoom(nested[s]) /\ HasRoom(nested[t]) /\ HasRoom(run)
      /\ nested[s].affinity = run.affinity /\ nested[t].affinity = run.affinity
      /\ run.affinity # "manual"
      /\ machine = Checked(fresh) /\ stray >= machine.cores
      /\ StaysApart(machine, nested[s]) /\ StaysApart(machine, nested[t])
      => ThreadsOf(nested[s]) \cap ThreadsOf(nested[t]) = {}

(* One reserved core of a machine without hyperthreading is left alone, and*)
(* as many processes as the other cores can take are on existing cores.    *)
OneReservedCoreStaysFree ==
  stage = "running" /\ run.affinity # "manual" /\ Len(machine.reserved_cores) = 1
    /\ machine.threads_per_core = 1 /\ run.P < machine.cores /\ stray >= machine.cores
    => ThreadsOf(run) \subseteq (0 .. machine.cores - 1) \ ToSet(machine.reserved_cores)

PinningInv ==
  /\ ThreadsAreTheirOwn
  /\ ScatterSpreads
  /\ OneReservedCoreStaysFree
  /\ NestedRunsAreApart

(* "These cores will not be used by BSP threads" (mcbsp-affinity.h:154).   *)
ReservedCoresStayFree ==
  stage = "running" /\ run.affinity # "manual" /\ run.P <= Nprocs =>
    \A t \in ThreadsOf(run) :
      CoreOf(machine, t) \notin ToSet(machine.reserved_cores)
====
