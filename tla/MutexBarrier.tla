---- MODULE MutexBarrier ----
(***************************************************************************)
(* The blocking barrier of MulticoreBSP for C, with MCBSP_USE_MUTEXES      *)
(* (mcbsp_internal_sync, mcbsp.c:583-609): one mutex, one arrival counter, *)
(* and three condition variables, which bsp_sync and mcbsp_checkpoint wait *)
(* on in turn.  With it, the wake-up protocol of bsp_abort (bsp_vabort,    *)
(* bsp.c:501-536), which signals only one of the three; user code calls    *)
(* it, and process 0 when a checkpoint fails, between two barriers of      *)
(* bsp_sync or mcbsp_checkpoint.                                           *)
(*                                                                         *)
(* pthread_cond_wait is taken to return only when it was signalled.        *)
(* Everything done while the mutex is held is one step.  The abort flag is *)
(* set before the mutex is taken, so that is a step of its own.            *)
(***************************************************************************)
EXTENDS Integers, FiniteSets

CONSTANTS
  P,                \* number of BSP processes (init->P)
  MaxBarriers       \* bound: how many barriers the program has

ConstantsAssumption == P \in Nat \ {0} /\ MaxBarriers \in Nat

Procs == 0 .. P-1

(* The barriers of bsp_sync (bsp.c:636, 792, 1023, 1039), the third only   *)
(* when a checkpoint is due, and of mcbsp_checkpoint (mcbsp.c:227, 240),   *)
(* with the condition variable each waits on.                              *)
On == [sync |-> "condition", mid |-> "mid_condition", due |-> "condition",
       end |-> "end_condition", checkpoint |-> "condition", resume |-> "end_condition"]

Kinds == DOMAIN On

(* Where a call starts and where it ends.                                  *)
Starts == {"sync", "checkpoint"}
Ends == {"end", "resume"}

(* What may come after each: within a call, and from call to call.         *)
Follows == [sync |-> {"mid"}, mid |-> {"due", "end"}, due |-> {"end"},
            end |-> Starts, checkpoint |-> {"resume"}, resume |-> Starts]

(* What a program's calls come to.  All processes make the same calls, and *)
(* find the same checkpoints due (Checkpointing).                          *)
Programs ==
  {b \in [1 .. MaxBarriers -> Kinds] :
     \A k \in 1 .. MaxBarriers :
       /\ k = 1 => b[k] \in Starts
       /\ k < MaxBarriers => b[k + 1] \in Follows[b[k]]
       /\ k = MaxBarriers => b[k] \in Ends}

VARIABLES
  barriers,         \* the program: which barriers its calls meet
  assertions,       \* was the library compiled without NDEBUG?
  sync_entry_counter, \* init->sync_entry_counter
  abort,            \* init->abort
  pc,               \* running, waiting, released, aborting or gone
  entered,          \* history: how many barriers each process arrived at
  crossed           \* history: how many barriers each process has left

vars == <<barriers, assertions, sync_entry_counter, abort, pc, entered, crossed>>

TypeOK ==
  /\ barriers \in Programs
  /\ assertions \in BOOLEAN
  /\ sync_entry_counter \in 0 .. P-1
  /\ abort \in BOOLEAN
  /\ pc \in [Procs -> {"run", "wait", "released", "aborting", "exited"}]
  /\ entered \in [Procs -> 0 .. MaxBarriers]
  /\ crossed \in [Procs -> 0 .. MaxBarriers]

Init ==
  /\ barriers \in Programs
  /\ assertions \in BOOLEAN
  /\ sync_entry_counter = 0
  /\ abort = FALSE
  /\ pc = [s \in Procs |-> "run"]
  /\ entered = [s \in Procs |-> 0]
  /\ crossed = [s \in Procs |-> 0]

(* The condition variable of the k-th barrier (k >= 1).                    *)
ConditionOf(k) == On[barriers[k]]

Waiting(c) == {s \in Procs : pc[s] = "wait" /\ ConditionOf(entered[s]) = c}

(* pc' when the processes of S may go on.                                  *)
Release(S) == [t \in Procs |-> IF t \in S THEN "released" ELSE pc[t]]

(* The barrier a process left last; the program starts as after a call.    *)
LastLeft(s) == IF crossed[s] = 0 THEN "end" ELSE barriers[crossed[s]]

(* What follows it is user code, not the rest of a call.                   *)
AfterCall(s) == LastLeft(s) \in Ends

(* Process 0 takes a checkpoint: between the last two barriers of its call.*)
AtCheckpoint == LastLeft(0) \in {"due", "checkpoint"}
----
(* Faulty variants of the definitions that follow.                         *)

(* The abort flag is not looked at once the mutex is held.                 *)
WaitDeafToAbort(s) ==
  /\ pc[s] = "run"
  /\ entered[s] < MaxBarriers
  /\ sync_entry_counter # P - 1
  /\ sync_entry_counter' = sync_entry_counter + 1
  /\ entered' = [entered EXCEPT ![s] = @ + 1]
  /\ pc' = [pc EXCEPT ![s] = "wait"]
  /\ UNCHANGED <<barriers, assertions, abort, crossed>>

(* The last process to arrive does not reset the counter.                  *)
LastArrivesNoReset(s) ==
  /\ pc[s] = "run"
  /\ entered[s] < MaxBarriers
  /\ sync_entry_counter = P - 1
  /\ entered' = [entered EXCEPT ![s] = @ + 1]
  /\ pc' = Release({s} \cup Waiting(ConditionOf(entered[s] + 1)))
  /\ UNCHANGED <<barriers, assertions, sync_entry_counter, abort, crossed>>

(* It always broadcasts the first condition variable.                      *)
LastArrivesWrongCondition(s) ==
  /\ pc[s] = "run"
  /\ entered[s] < MaxBarriers
  /\ sync_entry_counter = P - 1
  /\ sync_entry_counter' = 0
  /\ entered' = [entered EXCEPT ![s] = @ + 1]
  /\ pc' = Release({s} \cup Waiting("condition"))
  /\ UNCHANGED <<barriers, assertions, abort, crossed>>

(* The last but one process believes it is the last.                       *)
WaitOffByOne(s) ==
  /\ pc[s] = "run"
  /\ entered[s] < MaxBarriers
  /\ sync_entry_counter # P - 1
  /\ sync_entry_counter' = IF sync_entry_counter = P - 2 THEN 0 ELSE sync_entry_counter + 1
  /\ entered' = [entered EXCEPT ![s] = @ + 1]
  /\ pc' = IF sync_entry_counter = P - 2
             THEN Release({s} \cup Waiting(ConditionOf(entered[s] + 1)))
             ELSE [pc EXCEPT ![s] = "wait"]
  /\ UNCHANGED <<barriers, assertions, abort, crossed>>

(* bsp_abort is called while the communication of bsp_sync is carried out. *)
AbortAnywhere(s) ==
  /\ pc[s] = "run"
  /\ abort' = TRUE
  /\ pc' = [pc EXCEPT ![s] = "aborting"]
  /\ UNCHANGED <<barriers, assertions, sync_entry_counter, entered, crossed>>

(* It wakes everybody, whichever condition variable they wait on.          *)
AbortBroadcastToAll(s) ==
  /\ pc[s] = "aborting"
  /\ ~ assertions
  /\ pc' = [t \in Procs |-> IF t = s THEN "exited"
                           ELSE IF pc[t] = "wait" THEN "released" ELSE pc[t]]
  /\ UNCHANGED <<barriers, assertions, sync_entry_counter, abort, entered, crossed>>
----
(* Not the last to arrive: count oneself and wait, or, when the program    *)
(* was aborted in the meantime, go straight on to the abort check.         *)
Wait(s) ==
  /\ pc[s] = "run"
  /\ entered[s] < MaxBarriers
  /\ sync_entry_counter # P - 1
  /\ sync_entry_counter' = sync_entry_counter + 1
  /\ entered' = [entered EXCEPT ![s] = @ + 1]
  /\ pc' = [pc EXCEPT ![s] = IF abort THEN "released" ELSE "wait"]
  /\ UNCHANGED <<barriers, assertions, abort, crossed>>

(* The last to arrive: reset the counter, wake everybody who waits on this *)
(* condition, and go on.                                                   *)
LastArrives(s) ==
  /\ pc[s] = "run"
  /\ entered[s] < MaxBarriers
  /\ sync_entry_counter = P - 1
  /\ sync_entry_counter' = 0
  /\ entered' = [entered EXCEPT ![s] = @ + 1]
  /\ pc' = Release({s} \cup Waiting(ConditionOf(entered[s] + 1)))
  /\ UNCHANGED <<barriers, assertions, abort, crossed>>

(* A released process holds the mutex no more (one that waited took it and *)
(* gave it back) and checks for an abort.  There is no loop around         *)
(* pthread_cond_wait: to be woken is to be released.                       *)
Leave(s) ==
  /\ pc[s] = "released"
  /\ pc' = [pc EXCEPT ![s] = IF abort THEN "exited" ELSE "run"]
  /\ crossed' = IF abort THEN crossed ELSE [crossed EXCEPT ![s] = @ + 1]
  /\ UNCHANGED <<barriers, assertions, sync_entry_counter, abort, entered>>

(* bsp_abort, from user code, first half: raise the flag.  It was looked   *)
(* at before; another process may have raised it since.                    *)
Abort(s) ==
  /\ pc[s] = "run"
  /\ AfterCall(s)
  /\ abort' = TRUE
  /\ pc' = [pc EXCEPT ![s] = "aborting"]
  /\ UNCHANGED <<barriers, assertions, sync_entry_counter, entered, crossed>>

(* Process 0 finds no DMTCP coordinator, or an unexpected return code of   *)
(* dmtcp_checkpoint, and calls bsp_abort.                                  *)
CheckpointFails ==
  /\ pc[0] = "run"
  /\ AtCheckpoint
  /\ abort' = TRUE
  /\ pc' = [pc EXCEPT ![0] = "aborting"]
  /\ UNCHANGED <<barriers, assertions, sync_entry_counter, entered, crossed>>

(* Without NDEBUG the assertion that follows ends the whole program.       *)
AssertFails(s) ==
  /\ pc[s] = "aborting"
  /\ assertions
  /\ pc' = [t \in Procs |-> "exited"]
  /\ UNCHANGED <<barriers, assertions, sync_entry_counter, abort, entered, crossed>>

(* Second half: with the mutex held, wake those who wait on the first      *)
(* condition variable if anybody waits at all; exit.                       *)
AbortBroadcast(s) ==
  /\ pc[s] = "aborting"
  /\ ~ assertions
  /\ pc' = [t \in Procs |->
              IF t = s THEN "exited"
              ELSE IF sync_entry_counter > 0 /\ t \in Waiting("condition") THEN "released"
              ELSE pc[t]]
  /\ UNCHANGED <<barriers, assertions, sync_entry_counter, abort, entered, crossed>>

(* Any other BSP primitive of an aborted program, bsp_abort included: of   *)
(* user code, and bsp_pid of mcbsp_checkpoint.                             *)
ExitAborted(s) ==
  /\ pc[s] = "run"
  /\ LastLeft(s) \in Ends \cup {"checkpoint"}
  /\ abort
  /\ pc' = [pc EXCEPT ![s] = "exited"]
  /\ UNCHANGED <<barriers, assertions, sync_entry_counter, abort, entered, crossed>>

(* s waits on the last condition variable while the checkpoint of its call *)
(* fails.  Neither bsp_vabort nor a process that arrives later wakes it.   *)
SleepsThrough(s) ==
  /\ ~ assertions /\ abort
  /\ AtCheckpoint /\ entered[0] = crossed[0] /\ pc[0] \in {"aborting", "exited"}
  /\ s \in Waiting("end_condition")

(* The end of a bounded behaviour.                                         *)
Finished ==
  /\ \A s \in Procs : \/ pc[s] = "exited" \/ SleepsThrough(s)
                      \/ pc[s] = "run" /\ entered[s] = MaxBarriers
  /\ UNCHANGED vars

Step(s) ==
  \/ Wait(s) \/ LastArrives(s) \/ Leave(s)
  \/ Abort(s) \/ AssertFails(s) \/ AbortBroadcast(s) \/ ExitAborted(s)

Next == (\E s \in Procs : Step(s)) \/ CheckpointFails \/ Finished

Spec == Init /\ [][Next]_vars
----
(* What a process' place in the code says of its barriers.                 *)
CallCounts ==
  \A s \in Procs :
    /\ pc[s] \in {"run", "aborting"} => entered[s] = crossed[s]
    /\ pc[s] \in {"wait", "released"} => entered[s] = crossed[s] + 1

(* The last barrier a process arrived at that has opened.                  *)
Opened(s) == IF pc[s] = "wait" THEN entered[s] - 1 ELSE entered[s]

(* One counter serves three condition variables: until an abort, it counts *)
(* the waiting processes, and they all wait at the same barrier, the one   *)
(* after the barrier at which all others were last.                        *)
CounterCountsWaiters ==
  ~ abort =>
    /\ sync_entry_counter = Cardinality({s \in Procs : pc[s] = "wait"})
    /\ \A s, t \in Procs : Opened(s) = Opened(t)
    /\ \A s \in Procs : pc[s] \in {"run", "wait", "released"}

MayAbort(s) == pc[s] \in {"run", "aborting"}

(* Whoever aborts, others aborting or not, finds waiters only at the       *)
(* barrier that it would itself have come to next.                         *)
AbortersSeeNextBarrier ==
  \A s, t \in Procs : MayAbort(s) /\ pc[t] = "wait" => entered[t] = entered[s] + 1

(* "Only regular condition are checked" (bsp.c:523): an abort from user    *)
(* code finds nobody on the conditions that are not.                       *)
UserAbortsWakeAll ==
  \A s \in Procs : MayAbort(s) /\ AfterCall(s)
    => Waiting("mid_condition") \cup Waiting("end_condition") = {}

(* "... as aborts cannot occur within bsp_begin or bsp_sync": the abort of *)
(* a failed checkpoint does, and finds waiters only where it signals none. *)
FailedCheckpointsWakeNobody ==
  MayAbort(0) /\ AtCheckpoint => Waiting("condition") \cup Waiting("mid_condition") = {}

(* All of it, and the types: whatever the schedule and whoever aborts.     *)
CounterInv ==
  /\ TypeOK
  /\ CallCounts
  /\ CounterCountsWaiters
  /\ AbortersSeeNextBarrier
  /\ UserAbortsWakeAll
  /\ FailedCheckpointsWakeNobody
====
