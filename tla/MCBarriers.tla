---- MODULE MCBarriers ----
(***************************************************************************)
(* The barrier of MulticoreBSP for C, in both builds: a behaviour is one   *)
(* of the library compiled with MCBSP_USE_SPINLOCK or one of the library   *)
(* compiled without.  What the other build has is not used.  Both builds   *)
(* make the same promise (Barrier).                                        *)
(***************************************************************************)
EXTENDS Integers

CONSTANTS
  P,                \* number of BSP processes (init->P)
  W,                \* number of values of an unsigned char; 256 in C
  MaxRounds,        \* bound: barriers a process arrives at, spinning
  MaxBarriers       \* bound: barriers of a program, with the mutex

VARIABLES
  spinlock,         \* is MCBSP_USE_SPINLOCK defined?
  abort, pc, entered, crossed,
  condition, next,  \* of the spin barrier only
  sync_entry_counter, barriers, assertions \* of the mutex barrier only

common == <<abort, pc, entered, crossed>>
mutexOnly == <<sync_entry_counter, barriers, assertions>>
vars == <<spinlock, common, condition, next, mutexOnly>>

Procs == 0 .. P-1

Spin == INSTANCE SpinBarrier
Mutex == INSTANCE MutexBarrier

ASSUME SpinAssumption == Spin!ConstantsAssumption
ASSUME MutexAssumption == Mutex!ConstantsAssumption

Init ==
  \/ spinlock = TRUE /\ Spin!Init /\ sync_entry_counter = 0
       /\ barriers = <<>> /\ assertions = FALSE
  \/ spinlock = FALSE /\ Mutex!Init /\ condition = <<>> /\ next = <<>>

SpinStep(A) == spinlock /\ A /\ UNCHANGED <<spinlock, mutexOnly>>
MutexStep(A) == ~ spinlock /\ A /\ UNCHANGED <<spinlock, condition, next>>

Next == SpinStep(Spin!Next) \/ MutexStep(Mutex!Next)

(* Every process is a thread of its own that the operating system keeps    *)
(* scheduling, and the mutex is handed to everyone who keeps asking for    *)
(* it.  An SPMD program calls bsp_sync equally often everywhere (bsp.h,    *)
(* bsp_sync); nobody has to call bsp_abort, and no checkpoint has to fail. *)
Fairness ==
  \A s \in Procs :
    /\ WF_vars(SpinStep(Spin!Enter(s)))
    /\ WF_vars(SpinStep(Spin!LookOn(s)))
    /\ WF_vars(SpinStep(Spin!LookAgain(s)))
    /\ WF_vars(SpinStep(Spin!Leave(s)))
    /\ WF_vars(SpinStep(Spin!LeaveAborted(s)))
    /\ WF_vars(SpinStep(Spin!ExitAborted(s)))
    /\ WF_vars(MutexStep(Mutex!Wait(s) \/ Mutex!LastArrives(s)))
    /\ WF_vars(MutexStep(Mutex!Leave(s)))
    /\ WF_vars(MutexStep(Mutex!AssertFails(s)))
    /\ WF_vars(MutexStep(Mutex!AbortBroadcast(s)))
    /\ WF_vars(MutexStep(Mutex!ExitAborted(s)))

Spec == Init /\ [][Next]_vars

FairSpec == Spec /\ Fairness
----
(* A process that has left its k-th barrier knows that every process,      *)
(* however slow, has arrived at its own k-th barrier, also when somebody   *)
(* has called bsp_abort in the meantime.                                   *)
NobodyLeavesEarly == \A s, t \in Procs : crossed[s] <= entered[t]

(* The test on bytes is exact, although they wrap around.                  *)
ByteTestIsExact == spinlock => Spin!ByteTestIsExact

(* Bytes follow arrivals, and what a scan has passed has arrived.          *)
SpinInv == spinlock => Spin!SpinInv

(* The counter counts the waiters of the barrier in progress.  Those who   *)
(* abort from user code find all of them on the first condition variable,  *)
(* the one that is signalled; a failed checkpoint finds them on the last.  *)
CounterInv == ~ spinlock => Mutex!CounterInv

(* Either build implements the abstract barrier.                           *)
AbstractBarrier == INSTANCE Barrier

ImplementsBarrier == AbstractBarrier!Spec

(* The abort of a failed checkpoint passes s by.                           *)
SleepsThrough(s) == ~ spinlock /\ Mutex!SleepsThrough(s)

(* Nobody waits forever, even for a process that has left the barrier and  *)
(* already waits at the next one; no wake-up is lost but that of bsp_abort *)
(* in a failed checkpoint, with the mutex.                                 *)
EveryWaitEnds ==
  \A s \in Procs : pc[s] \in {"spin", "wait"} ~> pc[s] \notin {"spin", "wait"} \/ SleepsThrough(s)

(* After bsp_abort every process exits: spinning ones see the flag, those  *)
(* waiting on a condition are woken, the others find out at their next BSP *)
(* call; again but for those who sleep through a failed checkpoint.        *)
AbortReachesAll == abort ~> \A s \in Procs : pc[s] = "exited" \/ SleepsThrough(s)

(* And these sleep for ever, whatever the others do, although "Other       *)
(* threads stop at the next bsp_sync or bsp_end at latest" (bsp.h:684-685).*)
NobodyWakesSleepers == [][\A s \in Procs : SleepsThrough(s) => SleepsThrough(s)']_vars
====
