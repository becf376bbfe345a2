---- MODULE SpinBarrier ----
(***************************************************************************)
(* The busy-waiting barrier of the performance build of MulticoreBSP for C *)
(* (mcbsp_internal_spinlock, mcbsp.c:539-581) on one of the byte arrays    *)
(* sl_condition, sl_mid_condition or sl_end_condition, together with the   *)
(* two ways a process leaves a BSP program: bsp_abort and the abort check  *)
(* every BSP primitive starts with.                                        *)
(*                                                                         *)
(* A process announces its arrival by incrementing its own unsigned byte   *)
(* and then scans the bytes of all processes, one read per step, restarting*)
(* at process 0 whenever it reads a byte that is neither its own number    *)
(* nor the next one.  Nothing resets the bytes, so they wrap around.       *)
(***************************************************************************)
EXTENDS Integers

CONSTANTS
  P,                \* number of BSP processes (init->P)
  W,                \* number of values of an unsigned char; 256 in C
  MaxRounds         \* bound: how many barriers a process arrives at

(* Two numbers are accepted (one's own and the next), and the byte of a    *)
(* process that has not arrived must be neither: three values suffice.     *)
ConstantsAssumption ==
  P \in Nat \ {0} /\ W \in Nat /\ W >= 3 /\ MaxRounds \in Nat

Procs == 0 .. P-1

VARIABLES
  condition,        \* condition[s]: the byte of process s in the shared array
  abort,            \* init->abort
  pc,               \* where a process is: user code, the spin loop, gone
  next,             \* the loop variable s of the scan (local)
  entered,          \* history: how many barriers each process arrived at
  crossed           \* history: how many barriers each process has left

vars == <<condition, abort, pc, next, entered, crossed>>

TypeOK ==
  /\ condition \in [Procs -> 0 .. W-1]
  /\ abort \in BOOLEAN
  /\ pc \in [Procs -> {"run", "spin", "exited"}]
  /\ next \in [Procs -> 0 .. P]
  /\ entered \in [Procs -> 0 .. MaxRounds]
  /\ crossed \in [Procs -> 0 .. MaxRounds]

Init ==
  /\ condition = [s \in Procs |-> 0]
  /\ abort = FALSE
  /\ pc = [s \in Procs |-> "run"]
  /\ next = [s \in Procs |-> 0]
  /\ entered = [s \in Procs |-> 0]
  /\ crossed = [s \in Procs |-> 0]
----
(* Faulty variants of the definitions that follow: the bugs this code      *)
(* could have had, which the properties must be able to tell.              *)

(* A flag instead of a number: two barriers apart looks like none apart.   *)
IncToggle(c) == 1 - c

(* The successor is not accepted: a slow process misses its release.       *)
OpenSameOnly(s, t) == abort \/ condition[t] = condition[s]

(* Compared by order, as if the byte never wrapped.                        *)
OpenIfGreater(s, t) == abort \/ condition[t] >= condition[s]

(* The abort flag is only looked at on exit.                               *)
OpenDeafToAbort(s, t) ==
  condition[t] \in {condition[s], IF condition[s] = W-1 THEN 0 ELSE condition[s] + 1}

(* The scan of the previous barrier is taken for this one's.               *)
EnterStaleScan(s) ==
  /\ pc[s] = "run"
  /\ entered[s] < MaxRounds
  /\ condition' = [condition EXCEPT ![s] = IF @ = W-1 THEN 0 ELSE @ + 1]
  /\ pc' = [pc EXCEPT ![s] = "spin"]
  /\ entered' = [entered EXCEPT ![s] = @ + 1]
  /\ UNCHANGED <<abort, next, crossed>>
----
(* ++ on an unsigned char.                                                 *)
Inc(c) == IF c = W - 1 THEN 0 ELSE c + 1

(* One iteration of the scan by s does not object to the byte of t.  The   *)
(* code reads abort and then the byte; a byte once acceptable stays so     *)
(* while s waits, so reading both at once loses only a further retry.      *)
(* sync_number is condition[s] itself: s alone writes it, before the loop. *)
Open(s, t) == abort \/ condition[t] \in {condition[s], Inc(condition[s])}

(* The call: announce the arrival, start scanning at process 0.            *)
Enter(s) ==
  /\ pc[s] = "run"
  /\ entered[s] < MaxRounds
  /\ condition' = [condition EXCEPT ![s] = Inc(@)]
  /\ pc' = [pc EXCEPT ![s] = "spin"]
  /\ next' = [next EXCEPT ![s] = 0]
  /\ entered' = [entered EXCEPT ![s] = @ + 1]
  /\ UNCHANGED <<abort, crossed>>

(* The byte of process next[s] is acceptable: look at the following one.   *)
LookOn(s) ==
  /\ pc[s] = "spin"
  /\ next[s] < P
  /\ Open(s, next[s])
  /\ next' = [next EXCEPT ![s] = @ + 1]
  /\ UNCHANGED <<condition, abort, pc, entered, crossed>>

(* It is not: go = false, break, and the do-while starts the scan again.   *)
LookAgain(s) ==
  /\ pc[s] = "spin"
  /\ next[s] < P
  /\ ~ Open(s, next[s])
  /\ next' = [next EXCEPT ![s] = 0]
  /\ UNCHANGED <<condition, abort, pc, entered, crossed>>

(* The scan found nothing: check_aborted, then back to the caller.         *)
Leave(s) ==
  /\ pc[s] = "spin"
  /\ next[s] = P
  /\ ~ abort
  /\ pc' = [pc EXCEPT ![s] = "run"]
  /\ crossed' = [crossed EXCEPT ![s] = @ + 1]
  /\ UNCHANGED <<condition, abort, next, entered>>

LeaveAborted(s) ==
  /\ pc[s] = "spin"
  /\ next[s] = P
  /\ abort
  /\ pc' = [pc EXCEPT ![s] = "exited"]
  /\ UNCHANGED <<condition, abort, next, entered, crossed>>

(* bsp_abort: set the flag and exit (spinning processes poll the flag).    *)
Abort(s) ==
  /\ pc[s] = "run"
  /\ abort' = TRUE
  /\ pc' = [pc EXCEPT ![s] = "exited"]
  /\ UNCHANGED <<condition, next, entered, crossed>>

(* Any other BSP primitive: its prefunction exits an aborted process.      *)
ExitAborted(s) ==
  /\ pc[s] = "run"
  /\ abort
  /\ pc' = [pc EXCEPT ![s] = "exited"]
  /\ UNCHANGED <<condition, abort, next, entered, crossed>>

(* The end of a bounded behaviour; anything else that cannot move is a     *)
(* deadlock.                                                               *)
Finished ==
  /\ \A s \in Procs : pc[s] = "exited" \/ (pc[s] = "run" /\ entered[s] = MaxRounds)
  /\ UNCHANGED vars

Step(s) ==
  \/ Enter(s) \/ LookOn(s) \/ LookAgain(s) \/ Leave(s)
  \/ LeaveAborted(s) \/ Abort(s) \/ ExitAborted(s)

Next == (\E s \in Procs : Step(s)) \/ Finished

Spec == Init /\ [][Next]_vars
----
(* A process that has left its k-th barrier knows that every process,      *)
(* however slow, has arrived at its own k-th barrier.                      *)
NobodyLeavesEarly ==
  \A s, t \in Procs : crossed[s] <= entered[t]

(* The byte test is exact in spite of the wrap-around: what a waiting      *)
(* process accepts are the bytes of the processes that have arrived, and   *)
(* what makes it retry are the bytes of those that have not.               *)
ByteTestIsExact ==
  \A s, t \in Procs :
    pc[s] = "spin" /\ ~ abort => (Open(s, t) <=> entered[t] >= entered[s])

(* The inductive invariant behind both.  Byte coherence is what replaces   *)
(* counting: within the window of two barriers that processes can be       *)
(* apart, bytes are equal exactly as the numbers of arrivals are.          *)
CallCounts ==
  \A s \in Procs :
    /\ pc[s] = "run" => crossed[s] = entered[s]
    /\ pc[s] = "spin" => crossed[s] + 1 = entered[s]
    /\ crossed[s] <= entered[s]
    /\ entered[s] <= crossed[s] + 1

BytesFollowArrivals ==
  \A s, t \in Procs :
    /\ entered[t] = entered[s] => condition[t] = condition[s]
    /\ entered[t] = entered[s] + 1 => condition[t] = Inc(condition[s])

ScannedHaveArrived ==
  \A s \in Procs :
    pc[s] = "spin" /\ ~ abort =>
      \A t \in Procs : t < next[s] => entered[t] >= entered[s]

SpinInv ==
  /\ TypeOK
  /\ CallCounts
  /\ NobodyLeavesEarly
  /\ BytesFollowArrivals
  /\ ScannedHaveArrived
====
