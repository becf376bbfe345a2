---- MODULE Drma ----
(***************************************************************************)
(* Direct remote memory access in MulticoreBSP for C (bsp.c): bsp_put and  *)
(* bsp_get, their unbuffered variants, and the part of bsp_sync that       *)
(* carries the requests out between its three barriers.  The barriers are  *)
(* those of module Barrier.  All variables are registered everywhere.      *)
(***************************************************************************)
EXTENDS Integers, Sequences

CONSTANTS
  P,                \* number of BSP processes (init->P)
  Cells,            \* the registered variables
  Values,           \* what they can hold
  Start,            \* their contents at first
  Written,          \* the values user code writes
  Primitives,       \* which primitives the program uses
  MaxSupersteps,    \* bound: how many times a process calls bsp_sync
  MaxActions        \* bound: writes and requests of the whole program

ASSUME PAssumption == P \in Nat \ {0}
ASSUME StartAssumption == Start \in [0 .. P-1 -> [Cells -> Values]]
ASSUME WrittenAssumption == Written \subseteq Values
ASSUME BoundsAssumption == MaxSupersteps \in Nat /\ MaxActions \in Nat

Procs == 0 .. P-1

VARIABLES
  memory,           \* memory[s][c]: the copy of c of process s
  queues,           \* queues[s][t]: puts of s to t; on queues[s][s] also got values
  request_queues,   \* request_queues[s]: gets of s, in its own queue
  hpdrma_queue,     \* hpdrma_queue[s]: high-performance requests of s
  calls,            \* how many times each process called bsp_sync
  k,                \* the loop variable k of the delivery loop (local)
  entered,          \* of the barriers: arrivals of each process
  crossed,          \* of the barriers: departures of each process
  actions,          \* how many writes and requests there were
  issued,           \* history: requests since the last synchronisation
  performed,        \* history: the high-performance ones that are done
  before            \* history: memory as it was when the gets were done

queueVars == <<queues, request_queues, hpdrma_queue>>
history == <<issued, performed, before>>
vars == <<memory, queues, request_queues, hpdrma_queue, calls, k,
          entered, crossed, actions, issued, performed, before>>

(* Pops take the last element: every queue is a stack.                     *)
Top(q) == q[Len(q)]
Pop(q) == SubSeq(q, 1, Len(q) - 1)

Bar == INSTANCE Barrier

(* Where a process is: in user code, in one of the parts of bsp_sync that  *)
(* the barriers separate, or waiting at a barrier.                         *)
Phase(s) ==
  IF crossed[s] # entered[s] THEN "waiting"
  ELSE IF crossed[s] = 3 * calls[s] THEN "compute"
  ELSE CASE crossed[s] % 3 = 0 -> "drain"
         [] crossed[s] % 3 = 1 -> "get"
         [] crossed[s] % 3 = 2 -> "deliver"

Locations == Procs \X Cells

TypeOK ==
  /\ memory \in [Procs -> [Cells -> Values]]
  /\ queues \in [Procs -> [Procs -> Seq([cell : Cells, value : Values])]]
  /\ request_queues \in [Procs -> Seq([from : Procs, source : Cells, cell : Cells])]
  /\ hpdrma_queue \in [Procs -> 
       Seq([source : Locations, destination : Locations, source_is_remote : BOOLEAN])]
  /\ calls \in [Procs -> 0 .. MaxSupersteps]
  /\ k \in [Procs -> 0 .. P]
  /\ Bar!TypeOK
  /\ actions \in 0 .. MaxActions

Init ==
  /\ memory = Start
  /\ queues = [s \in Procs |-> [t \in Procs |-> <<>>]]
  /\ request_queues = [s \in Procs |-> <<>>]
  /\ hpdrma_queue = [s \in Procs |-> <<>>]
  /\ calls = [s \in Procs |-> 0]
  /\ k = [s \in Procs |-> 0]
  /\ Bar!Init
  /\ actions = 0
  /\ issued = [s \in Procs |-> {}]
  /\ performed = [s \in Procs |-> {}]
  /\ before = Start

(* User code of process s uses a primitive once more.                      *)
Uses(s, primitive) ==
  /\ Phase(s) = "compute"
  /\ calls[s] < MaxSupersteps
  /\ primitive \in Primitives
  /\ actions < MaxActions
  /\ actions' = actions + 1

(* The request an entry of the high-performance queue stands for.          *)
HpRecord(r) ==
  IF r.source_is_remote
    THEN [kind |-> "hpget", from |-> r.source[1], source |-> r.source[2], cell |-> r.destination[2]]
    ELSE [kind |-> "hpput", to |-> r.destination[1], source |-> r.source[2], cell |-> r.destination[2]]

Records(s, request) == issued' = [issued EXCEPT ![s] = @ \cup {request}]
----
(* Faulty variants.                                                        *)

(* Only the newest request of the high-performance queue is carried out.   *)
DrainOnlyTop(s) ==
  /\ Phase(s) = "drain"
  /\ hpdrma_queue[s] # <<>>
  /\ LET r == Top(hpdrma_queue[s])
     IN /\ memory' = [memory EXCEPT ![r.destination[1]][r.destination[2]] =
                        memory[r.source[1]][r.source[2]]]
        /\ performed' = [performed EXCEPT ![s] = @ \cup {HpRecord(r)}]
  /\ hpdrma_queue' = [hpdrma_queue EXCEPT ![s] = <<>>]
  /\ UNCHANGED <<queues, request_queues, calls, k, entered, crossed, actions, issued, before>>

(* The value fetched is written to the name it has at its source.          *)
FetchToSource(s) ==
  /\ Phase(s) = "get"
  /\ request_queues[s] # <<>>
  /\ LET r == Top(request_queues[s])
     IN queues' = [queues EXCEPT ![s][s] =
                     Append(@, [cell |-> r.source, value |-> memory[r.from][r.source]])]
  /\ request_queues' = [request_queues EXCEPT ![s] = Pop(@)]
  /\ UNCHANGED <<memory, hpdrma_queue, calls, k, entered, crossed, actions, history>>

(* A process leaves the middle barrier without waiting for the others.     *)
CrossMidFreely(s) ==
  /\ IF crossed[s] % 3 = 1
       THEN /\ crossed[s] # entered[s]
            /\ crossed' = [crossed EXCEPT ![s] = @ + 1]
            /\ UNCHANGED entered
       ELSE Bar!Cross(s)
  /\ k' = [k EXCEPT ![s] = 0]
  /\ UNCHANGED <<memory, queueVars, calls, actions, history>>

(* The loop over the senders ends one too early.                           *)
ArriveEndEarly(s) ==
  /\ Phase(s) = "deliver"
  /\ k[s] = P - 1
  /\ Bar!Arrive(s)
  /\ IF \A t \in Procs \ {s} : entered[t] >= entered'[s]
       THEN /\ issued' = [t \in Procs |-> {}]
            /\ performed' = [t \in Procs |-> {}]
       ELSE UNCHANGED <<issued, performed>>
  /\ UNCHANGED <<memory, queueVars, calls, k, actions, before>>

(* The loop never ends.                                                    *)
NextQueueStays(s) ==
  /\ Phase(s) = "deliver"
  /\ k[s] < P
  /\ queues[(k[s] + s) % P][s] = <<>>
  /\ k' = [k EXCEPT ![s] = (@ + 1) % P]
  /\ UNCHANGED <<memory, queueVars, calls, entered, crossed, actions, history>>
----
(* User code assigns to a variable of its own.                             *)
Write(s, c, v) ==
  /\ Uses(s, "write")
  /\ memory' = [memory EXCEPT ![s][c] = v]
  /\ UNCHANGED <<queueVars, calls, k, entered, crossed, history>>

(* bsp_put: the payload is copied into the queue now.                      *)
Put(s, t, source, c) ==
  /\ Uses(s, "put")
  /\ queues' = [queues EXCEPT ![s][t] = Append(@, [cell |-> c, value |-> memory[s][source]])]
  /\ Records(s, [kind |-> "put", to |-> t, cell |-> c, value |-> memory[s][source]])
  /\ UNCHANGED <<memory, request_queues, hpdrma_queue, calls, k, entered, crossed, performed, before>>

(* bsp_get: only the addresses are kept, in a queue of the caller's own.   *)
Get(s, t, source, c) ==
  /\ Uses(s, "get")
  /\ request_queues' = [request_queues EXCEPT ![s] =
       Append(@, [from |-> t, source |-> source, cell |-> c])]
  /\ Records(s, [kind |-> "get", from |-> t, source |-> source, cell |-> c])
  /\ UNCHANGED <<memory, queues, hpdrma_queue, calls, k, entered, crossed, performed, before>>

(* bsp_hpput and bsp_hpget: a pair of addresses.                           *)
HpPut(s, t, source, c) ==
  /\ Uses(s, "hpput")
  /\ hpdrma_queue' = [hpdrma_queue EXCEPT ![s] =
       Append(@, [source |-> <<s, source>>, destination |-> <<t, c>>,
                 source_is_remote |-> FALSE])]
  /\ Records(s, [kind |-> "hpput", to |-> t, source |-> source, cell |-> c])
  /\ UNCHANGED <<memory, queues, request_queues, calls, k, entered, crossed, performed, before>>

HpGet(s, t, source, c) ==
  /\ Uses(s, "hpget")
  /\ hpdrma_queue' = [hpdrma_queue EXCEPT ![s] =
       Append(@, [source |-> <<t, source>>, destination |-> <<s, c>>,
                 source_is_remote |-> TRUE])]
  /\ Records(s, [kind |-> "hpget", from |-> t, source |-> source, cell |-> c])
  /\ UNCHANGED <<memory, queues, request_queues, calls, k, entered, crossed, performed, before>>

(* bsp_direct_get: the copy is made at once, whatever the others do.       *)
DirectGet(s, t, source, c) ==
  /\ Uses(s, "direct_get")
  /\ memory' = [memory EXCEPT ![s][c] = memory[t][source]]
  /\ UNCHANGED <<queueVars, calls, k, entered, crossed, history>>

(* bsp_sync is called.                                                     *)
Call(s) ==
  /\ Phase(s) = "compute"
  /\ calls[s] < MaxSupersteps
  /\ calls' = [calls EXCEPT ![s] = @ + 1]
  /\ UNCHANGED <<memory, queueVars, k, entered, crossed, actions, history>>

(* Before the first barrier, while others still compute: one's own         *)
(* high-performance requests, newest first.                                *)
Drain(s) ==
  /\ Phase(s) = "drain"
  /\ hpdrma_queue[s] # <<>>
  /\ LET r == Top(hpdrma_queue[s])
     IN /\ memory' = [memory EXCEPT ![r.destination[1]][r.destination[2]] =
                        memory[r.source[1]][r.source[2]]]
        /\ performed' = [performed EXCEPT ![s] = @ \cup {HpRecord(r)}]
  /\ hpdrma_queue' = [hpdrma_queue EXCEPT ![s] = Pop(@)]
  /\ UNCHANGED <<queues, request_queues, calls, k, entered, crossed, actions, issued, before>>

ArriveStart(s) ==
  /\ Phase(s) = "drain"
  /\ hpdrma_queue[s] = <<>>
  /\ Bar!Arrive(s)
  /\ UNCHANGED <<memory, queueVars, calls, k, actions, history>>

(* Between the first two barriers: read, from the memory of whichever      *)
(* process, what one's own gets ask for, and queue it as if put by oneself.*)
(* A get of a variable into itself is dropped.  (The loop over the other   *)
(* processes' request queues finds them empty.)                            *)
Fetch(s) ==
  /\ Phase(s) = "get"
  /\ request_queues[s] # <<>>
  /\ LET r == Top(request_queues[s])
     IN queues' = IF <<r.from, r.source>> = <<s, r.cell>> THEN queues
                  ELSE [queues EXCEPT ![s][s] =
                          Append(@, [cell |-> r.cell, value |-> memory[r.from][r.source]])]
  /\ request_queues' = [request_queues EXCEPT ![s] = Pop(@)]
  /\ UNCHANGED <<memory, hpdrma_queue, calls, k, entered, crossed, actions, history>>

ArriveMid(s) ==
  /\ Phase(s) = "get"
  /\ request_queues[s] = <<>>
  /\ Bar!Arrive(s)
  /\ before' = memory
  /\ UNCHANGED <<memory, queueVars, calls, k, actions, issued, performed>>

(* Between the last two: write what the queues of all processes hold for   *)
(* oneself into one's own memory, one's own queue first, newest first.     *)
Deliver(s) ==
  /\ Phase(s) = "deliver"
  /\ k[s] < P
  /\ LET from == (k[s] + s) % P
     IN /\ queues[from][s] # <<>>
        /\ LET m == Top(queues[from][s])
           IN memory' = [memory EXCEPT ![s][m.cell] = m.value]
        /\ queues' = [queues EXCEPT ![from][s] = Pop(@)]
  /\ UNCHANGED <<request_queues, hpdrma_queue, calls, k, entered, crossed, actions, history>>

NextQueue(s) ==
  /\ Phase(s) = "deliver"
  /\ k[s] < P
  /\ queues[(k[s] + s) % P][s] = <<>>
  /\ k' = [k EXCEPT ![s] = @ + 1]
  /\ UNCHANGED <<memory, queueVars, calls, entered, crossed, actions, history>>

(* (The last to arrive ends the synchronisation: the history forgets the   *)
(* requests.)                                                              *)
ArriveEnd(s) ==
  /\ Phase(s) = "deliver"
  /\ k[s] = P
  /\ Bar!Arrive(s)
  /\ IF \A t \in Procs \ {s} : entered[t] >= entered'[s]
       THEN /\ issued' = [t \in Procs |-> {}]
            /\ performed' = [t \in Procs |-> {}]
       ELSE UNCHANGED <<issued, performed>>
  /\ UNCHANGED <<memory, queueVars, calls, k, actions, before>>

(* Leave the barrier one waits at.                                         *)
Cross(s) ==
  /\ Bar!Cross(s)
  /\ k' = [k EXCEPT ![s] = 0]
  /\ UNCHANGED <<memory, queueVars, calls, actions, history>>

(* The end of a bounded behaviour.                                         *)
Finished ==
  /\ \A s \in Procs : Phase(s) = "compute" /\ calls[s] = MaxSupersteps
  /\ UNCHANGED vars

Requesting(s) ==
  \E t \in Procs, source, c \in Cells :
    \/ Put(s, t, source, c) \/ Get(s, t, source, c)
    \/ HpPut(s, t, source, c) \/ HpGet(s, t, source, c)
    \/ DirectGet(s, t, source, c)

Writing(s) == \E c \in Cells, v \in Written : Write(s, c, v)

InSync(s) ==
  \/ Drain(s) \/ ArriveStart(s) \/ Fetch(s) \/ ArriveMid(s)
  \/ Deliver(s) \/ NextQueue(s) \/ ArriveEnd(s) \/ Cross(s)

Next ==
  \/ \E s \in Procs : Writing(s) \/ Requesting(s) \/ Call(s) \/ InSync(s)
  \/ Finished

Spec == Init /\ [][Next]_vars

(* Threads are scheduled, and all processes call bsp_sync equally often.   *)
FairSpec == Spec /\ \A s \in Procs : WF_vars(Call(s)) /\ WF_vars(InSync(s))
----
(* While anybody fetches, no memory changes: neither a late bsp_hpput nor  *)
(* an early delivery, nor anybody's user code, gets in between.            *)
MemoryRestsDuringGets ==
  [][(\E s \in Procs : Phase(s) = "get") => UNCHANGED memory]_vars

(* How many synchronisations are complete, everywhere.                     *)
Completed == CHOOSE d \in 0 .. MaxSupersteps :
  /\ \A s \in Procs : entered[s] >= 3 * d
  /\ \E s \in Procs : entered[s] < 3 * (d + 1)

(* Somebody has passed the middle barrier of the one that is under way.    *)
Delivering == \E s \in Procs : crossed[s] = 3 * Completed + 2

(* The memory as user code may think of it: the communication of a         *)
(* superstep happens when the last process is through with its part.       *)
SeenMemory == IF Delivering THEN before ELSE memory

AbstractMemory == INSTANCE BspMemory WITH memory <- SeenMemory, done <- Completed

(* The entries of the queues as the requests they come from.               *)
PutRecord(t, m) == [kind |-> "put", to |-> t, cell |-> m.cell, value |-> m.value]
GetRecord(r) == [kind |-> "get", from |-> r.from, source |-> r.source, cell |-> r.cell]

(* No process is two barriers ahead, and none is past one that another has *)
(* not reached.                                                            *)
BarriersInStep ==
  /\ \A s \in Procs :
       /\ crossed[s] <= entered[s] /\ entered[s] <= crossed[s] + 1
       /\ entered[s] <= 3 * calls[s] /\ 3 * calls[s] <= crossed[s] + 3
  /\ \A s, t \in Procs : crossed[s] <= entered[t]

(* Every high-performance request is in its queue until it is performed,   *)
(* which is before the first barrier; every get until it is answered, which*)
(* is before the second.                                                   *)
RequestsAreKept ==
  /\ issued \in [Procs -> SUBSET AbstractMemory!Requests]
  /\ performed \in [Procs -> SUBSET AbstractMemory!Requests]
  /\ \A s \in Procs :
       /\ \A j \in DOMAIN hpdrma_queue[s] :
            LET r == hpdrma_queue[s][j]
            IN /\ HpRecord(r) \in issued[s]
               /\ s = IF r.source_is_remote THEN r.destination[1] ELSE r.source[1]
       /\ \A r \in issued[s] : r.kind \in {"hpput", "hpget"} =>
            r \in performed[s] \/ \E j \in DOMAIN hpdrma_queue[s] : r = HpRecord(hpdrma_queue[s][j])
       /\ entered[s] > 3 * Completed => hpdrma_queue[s] = <<>>
       /\ \A j \in DOMAIN request_queues[s] : GetRecord(request_queues[s][j]) \in issued[s]
       /\ entered[s] > 3 * Completed + 1 => request_queues[s] = <<>>

(* The puts of another process wait in its queue.                          *)
PutsAreKept ==
  \A s, t \in Procs : s # t =>
    \A j \in DOMAIN queues[s][t] : PutRecord(t, queues[s][t][j]) \in issued[s]

(* While t delivers, the queues it is through with are empty.              *)
QueuesAreEmptied ==
  \A t \in Procs : crossed[t] = 3 * Completed + 2 =>
    /\ \A j \in 0 .. P-1 : j < k[t] => queues[(j + t) % P][t] = <<>>
    /\ entered[t] = 3 * Completed + 3 => k[t] = P

(* A put r by s into t is still queued, among the first b if s = t.        *)
StillQueued(s, t, r, b) ==
  \E j \in DOMAIN queues[s][t] :
    (s = t => j <= b) /\ r = PutRecord(t, queues[s][t][j])

(* A get r by t need not be, or will yet be, or has been fetched.          *)
StillWanted(t, r, b) ==
  \/ r.from = t /\ r.source = r.cell
  \/ \E j \in DOMAIN request_queues[t] : r = GetRecord(request_queues[t][j])
  \/ \E j \in DOMAIN queues[t][t] :
       b < j /\ queues[t][t][j] = [cell |-> r.cell, value |-> SeenMemory[r.from][r.source]]

(* How far cell c of process t is on its way to the next superstep: a put  *)
(* has been written, and everything that t fetched is; or all puts are     *)
(* still to come, and what it fetched is either written or still to come.  *)
CellOnItsWay(t, c, b) ==
  \/ /\ crossed[t] = 3 * Completed + 2
     /\ b = Len(queues[t][t])
     /\ memory[t][c] \in AbstractMemory!PutInto(t, c)
  \/ /\ \A s \in Procs : \A r \in issued[s] :
          r.kind = "put" /\ r.to = t /\ r.cell = c => StillQueued(s, t, r, b)
     /\ \/ /\ crossed[t] = 3 * Completed + 2
           /\ memory[t][c] \in AbstractMemory!GotInto(t, c)
        \/ /\ memory[t][c] = SeenMemory[t][c]
           /\ \A r \in issued[t] : r.kind = "get" /\ r.cell = c => StillWanted(t, r, b)

(* In a process' own queue the first b entries are its puts, and those     *)
(* above, which are written first, were fetched.                           *)
OwnQueueInOrder(t, b) ==
  /\ \A j \in DOMAIN queues[t][t] :
       IF j <= b THEN PutRecord(t, queues[t][t][j]) \in issued[t]
       ELSE \E r \in issued[t] :
              r.kind = "get"
              /\ queues[t][t][j] = [cell |-> r.cell, value |-> SeenMemory[r.from][r.source]]
  /\ b < Len(queues[t][t]) => crossed[t] > 3 * Completed

DeliveryOnItsWay ==
  \A t \in Procs : \E b \in 0 .. Len(queues[t][t]) :
    OwnQueueInOrder(t, b) /\ \A c \in Cells : CellOnItsWay(t, c, b)

(* What was kept of the memory is what it is until somebody delivers.      *)
KeptMemory ==
  /\ before \in [Procs -> [Cells -> Values]]
  /\ (\E s \in Procs : entered[s] > 3 * Completed + 1) /\ ~ Delivering => before = memory

(* A process that is back in user code finds everything that was sent to   *)
(* it delivered: what is queued for it was issued in this superstep.       *)
NothingIsLeftOver ==
  \A s, t \in Procs :
    Phase(s) = "compute" =>
      /\ \A j \in DOMAIN queues[t][s] : PutRecord(s, queues[t][s][j]) \in issued[t]
      /\ \A j \in DOMAIN request_queues[s] : GetRecord(request_queues[s][j]) \in issued[s]

DrmaInv ==
  /\ TypeOK /\ NothingIsLeftOver
  /\ BarriersInStep /\ RequestsAreKept /\ PutsAreKept
  /\ QueuesAreEmptied /\ DeliveryOnItsWay /\ KeptMemory

(* The superstep protocol implements what bsp.h promises.                  *)
ImplementsBspMemory == AbstractMemory!Spec

(* Every call of bsp_sync returns.                                         *)
EverySyncReturns == \A s \in Procs : (Phase(s) # "compute") ~> (Phase(s) = "compute")
====
