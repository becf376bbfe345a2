---- MODULE Barrier ----
(***************************************************************************)
(* What a barrier of the BSP runtime promises, whatever it is built from:  *)
(* a process crosses its k-th barrier only once every process has arrived  *)
(* at its own k-th barrier.  SpinBarrier and MutexBarrier implement it.    *)
(***************************************************************************)
EXTENDS Integers

CONSTANT P          \* number of BSP processes (init->P)

Procs == 0 .. P-1

VARIABLES
  entered,          \* how many barriers each process has arrived at
  crossed           \* how many barriers each process has left

vars == <<entered, crossed>>

TypeOK ==
  /\ entered \in [Procs -> Nat]
  /\ crossed \in [Procs -> Nat]

Init ==
  /\ entered = [s \in Procs |-> 0]
  /\ crossed = [s \in Procs |-> 0]

(* Process s, outside the barrier, arrives at the next one.                *)
Arrive(s) ==
  /\ crossed[s] = entered[s]
  /\ entered' = [entered EXCEPT ![s] = @ + 1]
  /\ UNCHANGED crossed

(* Process s leaves the barrier it waits at: everyone has arrived at it.   *)
Cross(s) ==
  /\ crossed[s] # entered[s]
  /\ \A t \in Procs : entered[t] >= entered[s]
  /\ crossed' = [crossed EXCEPT ![s] = @ + 1]
  /\ UNCHANGED entered

Next == \E s \in Procs : Arrive(s) \/ Cross(s)

Spec == Init /\ [][Next]_vars
====
