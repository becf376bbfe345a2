---- MODULE Registration ----
(***************************************************************************)
(* Registration of variables for remote access (bsp.c): bsp_push_reg and   *)
(* bsp_pop_reg, and the parts of bsp_sync in which every process, by       *)
(* itself, works out the global number of every variable.  The numbers     *)
(* must come out the same everywhere.  The barriers are those of module    *)
(* Barrier, the address maps those of FiniteMap, and a variable has the    *)
(* same name on every process: its name stands for its address there.      *)
(***************************************************************************)
EXTENDS Integers, Sequences, FiniteSets

CONSTANTS
  P,                \* number of BSP processes (init->P)
  Variables,        \* the variables the program registers
  NullAt,           \* the pairs <<v, s>>: process s registers v as NULL
  Null,             \* NULL
  Sizes,            \* the sizes a variable is registered with
  None,             \* SIZE_MAX
  Careful,          \* whether the program registers a variable with NULLs
                    \* only once, and before all others of the superstep
  MaxSupersteps,    \* bound: how many times a process calls bsp_sync
  MaxActions        \* bound: registrations and deregistrations

ASSUME PAssumption == P \in Nat \ {0}
ASSUME NullAssumption == Null \notin Variables
ASSUME BoundsAssumption == {MaxSupersteps, MaxActions} \subseteq Nat

Procs == 0 .. P-1
Numbers == 0 .. MaxActions

ASSUME NoneAssumption == None \notin Numbers
ASSUME NullAtAssumption == NullAt \subseteq Variables \X Procs

VARIABLES
  localsToPush,     \* localsToPush[s]: registrations of this superstep
  localsToRemove,   \* localsToRemove[s]: deregistrations of this superstep
  globalsToPush,    \* globalsToPush[s]: new numbers, for after the sync
  removedGlobals,   \* removedGlobals[s]: numbers to be used again
  localC,           \* localC[s]: the next number never used
  local2global,     \* local2global[s]: the map from addresses to numbers
  new_addresses,    \* new_addresses[s]: numbers given in this bsp_sync
  table,            \* global2local.table[g][s]: a stack of registrations
  i,                \* the loop variable i of process s, from 1
  other,            \* the process whose request is looked at (variable s)
  found,            \* whether that request was seen not to be NULL
  calls,            \* how many calls of bsp_sync have returned
  entered,          \* of the barriers: arrivals of each process
  crossed,          \* of the barriers: departures of each process
  actions,          \* how many registrations and deregistrations
  registered,       \* history: the sizes a variable is registered with
  added,            \* history: registrations of this superstep
  dropped           \* history: how many deregistrations of this superstep

stacks == <<localsToPush, localsToRemove, globalsToPush, removedGlobals,
             localC, local2global, new_addresses>>
barrier == <<calls, entered, crossed>>
history == <<actions, registered, added, dropped>>
vars == <<localsToPush, localsToRemove, globalsToPush, removedGlobals, localC,
          local2global, new_addresses, table, i, other, found, calls,
          entered, crossed, actions, registered, added, dropped>>

Address(v, s) == IF <<v, s>> \in NullAt THEN Null ELSE v
HasNulls(v) == \E s \in Procs : <<v, s>> \in NullAt

Bar == INSTANCE Barrier

(* Where a process is: in user code, waiting at a barrier, or in the parts *)
(* of bsp_sync before, between and after its three barriers.               *)
Phase(s) ==
  IF crossed[s] # entered[s] THEN "waiting"
  ELSE CASE crossed[s] = 3 * calls[s] -> "compute"
         [] crossed[s] = 3 * calls[s] + 1 -> "deregister"
         [] crossed[s] = 3 * calls[s] + 2 ->
              IF localsToRemove[s] # <<>> THEN "forget" ELSE "register"
         [] crossed[s] = 3 * calls[s] + 3 -> "remember"

Request == [address : Variables \cup {Null}, size : Sizes]
Map == [Variables \cup {Null} -> Numbers \cup {None}]
Empty == [a \in Variables \cup {Null} |-> None]

TypeOK ==
  /\ localsToPush \in [Procs -> Seq(Request)]
  /\ localsToRemove \in [Procs -> Seq(Variables \cup {Null})]
  /\ globalsToPush \in [Procs -> Seq(Numbers)]
  /\ removedGlobals \in [Procs -> Seq(Numbers)]
  /\ localC \in [Procs -> Nat]
  /\ local2global \in [Procs -> Map]
  /\ new_addresses \in [Procs -> Map]
  /\ table \in [Numbers -> [Procs -> Seq(Request)]]
  /\ i \in [Procs -> Nat]
  /\ other \in [Procs -> 0 .. P]
  /\ found \in [Procs -> BOOLEAN]
  /\ calls \in [Procs -> 0 .. MaxSupersteps]
  /\ Bar!TypeOK
  /\ actions \in 0 .. MaxActions
  /\ registered \in [Variables -> Seq(Sizes)]
  /\ added \in [Variables -> Seq(Sizes)]
  /\ dropped \in [Variables -> Nat]

Init ==
  /\ localsToPush = [s \in Procs |-> <<>>]
  /\ localsToRemove = [s \in Procs |-> <<>>]
  /\ globalsToPush = [s \in Procs |-> <<>>]
  /\ removedGlobals = [s \in Procs |-> <<>>]
  /\ localC = [s \in Procs |-> 0]
  /\ local2global = [s \in Procs |-> Empty]
  /\ new_addresses = [s \in Procs |-> Empty]
  /\ table = [g \in Numbers |-> [s \in Procs |-> <<>>]]
  /\ i = [s \in Procs |-> 1]
  /\ other = [s \in Procs |-> 0]
  /\ found = [s \in Procs |-> FALSE]
  /\ calls = [s \in Procs |-> 0]
  /\ Bar!Init
  /\ actions = 0
  /\ registered = [v \in Variables |-> <<>>]
  /\ added = [v \in Variables |-> <<>>]
  /\ dropped = [v \in Variables |-> 0]

Top(q) == q[Len(q)]
Pop(q) == SubSeq(q, 1, Len(q) - 1)

(* The next round of a process' loop over its requests.                    *)
NextRequest(s) ==
  /\ i' = [i EXCEPT ![s] = @ + 1]
  /\ other' = [other EXCEPT ![s] = 0]
  /\ found' = [found EXCEPT ![s] = FALSE]

Restart(s) ==
  /\ i' = [i EXCEPT ![s] = 1]
  /\ UNCHANGED <<other, found>>
----
(* User code.  A call puts a request on a stack that is the caller's own   *)
(* until everyone has called bsp_sync, and all processes make the same     *)
(* calls in the same order: one step stands for the call of all of them.   *)
Calling ==
  /\ actions < MaxActions
  /\ \A s \in Procs : Phase(s) = "compute" /\ calls[s] < MaxSupersteps
  /\ actions' = actions + 1

PushReg(v, size) ==
  /\ Calling
  /\ Careful /\ HasNulls(v) =>
       registered[v] = <<>> /\ \A w \in Variables : added[w] = <<>>
  /\ localsToPush' = [s \in Procs |->
       Append(localsToPush[s], [address |-> Address(v, s), size |-> size])]
  /\ added' = [added EXCEPT ![v] = Append(@, size)]
  /\ UNCHANGED <<localsToRemove, globalsToPush, removedGlobals, localC,
                 local2global, new_addresses, table, i, other, found,
                 barrier, registered, dropped>>

(* (A variable that is not registered can be deregistered: to no effect.)  *)
PopReg(v) ==
  /\ Calling
  /\ dropped[v] < Len(registered[v]) \/ registered[v] = <<>>
  /\ localsToRemove' = [s \in Procs |-> Append(localsToRemove[s], Address(v, s))]
  /\ dropped' = IF registered[v] = <<>> THEN dropped ELSE [dropped EXCEPT ![v] = @ + 1]
  /\ UNCHANGED <<localsToPush, globalsToPush, removedGlobals, localC,
                 local2global, new_addresses, table, i, other, found,
                 barrier, registered, added>>

(* bsp_sync is called and its first barrier reached.                       *)
ArriveStart(s) ==
  /\ Phase(s) = "compute"
  /\ calls[s] < MaxSupersteps
  /\ Bar!Arrive(s)
  /\ UNCHANGED <<stacks, table, i, other, found, calls, history>>
----
(* After the first barrier: take one's own registration off the table.     *)

Removing(s) == Phase(s) = "deregister" /\ i[s] <= Len(localsToRemove[s])
ToRemove(s) == localsToRemove[s][i[s]]

(* A NULL says nothing: look for a process that has something else there.  *)
SeekRemoval(s) ==
  /\ Removing(s)
  /\ ToRemove(s) = Null
  /\ ~ found[s]
  /\ other[s] < P
  /\ IF localsToRemove[other[s]][i[s]] = Null
       THEN other' = [other EXCEPT ![s] = @ + 1] /\ UNCHANGED found
       ELSE found' = [found EXCEPT ![s] = TRUE] /\ UNCHANGED other
  /\ UNCHANGED <<stacks, table, i, barrier, history>>

(* All have NULL: a warning, and the request is ignored.                   *)
IgnoreRemoval(s) ==
  /\ Removing(s)
  /\ other[s] = P
  /\ NextRequest(s)
  /\ UNCHANGED <<stacks, table, barrier, history>>

(* A number is freed: it is the last one given, or it is kept for later.   *)
FreeNumberIfOwn(s, g) ==
  IF localC[s] = g + 1 /\ ToRemove(s) # Null
    THEN localC' = [localC EXCEPT ![s] = @ - 1] /\ UNCHANGED removedGlobals
    ELSE UNCHANGED localC /\ removedGlobals' = [removedGlobals EXCEPT ![s] = Append(@, g)]

FreeNumber(s, g) ==
  IF localC[s] = g + 1
    THEN localC' = [localC EXCEPT ![s] = @ - 1] /\ UNCHANGED removedGlobals
    ELSE UNCHANGED localC /\ removedGlobals' = [removedGlobals EXCEPT ![s] = Append(@, g)]

(* A request that leaves registrations behind is made NULL, so that the    *)
(* address stays in the map.                                               *)
KeepInMapNot(s) == UNCHANGED localsToRemove
KeepInMap(s) == localsToRemove' = [localsToRemove EXCEPT ![s][i[s]] = Null]

(* The latest registration under the number goes.  (An address without a   *)
(* number only causes a warning; the other process' request is read again.)*)
Deregister(s) ==
  /\ Removing(s)
  /\ ToRemove(s) # Null \/ found[s]
  /\ LET t == IF ToRemove(s) # Null THEN s ELSE other[s]
         g == local2global[t][localsToRemove[t][i[s]]]
     IN IF g = None
          THEN UNCHANGED <<localsToRemove, removedGlobals, localC, table>>
          ELSE /\ table[g][s] # <<>>
               /\ table' = [table EXCEPT ![g][s] = Pop(@)]
               /\ IF table'[g][s] = <<>>
                    THEN FreeNumber(s, g) /\ UNCHANGED localsToRemove
                    ELSE KeepInMap(s) /\ UNCHANGED <<removedGlobals, localC>>
  /\ NextRequest(s)
  /\ UNCHANGED <<localsToPush, globalsToPush, local2global, new_addresses, barrier, history>>

ArriveMid(s) ==
  /\ Phase(s) = "deregister"
  /\ i[s] > Len(localsToRemove[s])
  /\ Bar!Arrive(s)
  /\ Restart(s)
  /\ UNCHANGED <<stacks, table, calls, history>>

(* After the second barrier: nobody looks for deregistered addresses any   *)
(* more, and they are taken out of the map.                                *)
Forget(s) ==
  /\ Phase(s) = "forget"
  /\ localsToRemove' = [localsToRemove EXCEPT ![s] = Pop(@)]
  /\ LET a == Top(localsToRemove[s])
     IN local2global' = IF a = Null THEN local2global
                        ELSE [local2global EXCEPT ![s][a] = None]
  /\ UNCHANGED <<localsToPush, globalsToPush, removedGlobals, localC,
                 new_addresses, table, i, other, found, barrier, history>>
----
(* Still before the third: put one's own registrations on the table.       *)

Registering(s) == Phase(s) = "register" /\ i[s] <= Len(localsToPush[s])
ToPush(s) == localsToPush[s][i[s]]

(* NULL again: look for a process that has something else there.           *)
SeekRegistration(s) ==
  /\ Registering(s)
  /\ ToPush(s).address = Null
  /\ new_addresses[s][Null] = None
  /\ ~ found[s]
  /\ other[s] < P
  /\ IF localsToPush[other[s]][i[s]].address = Null
       THEN other' = [other EXCEPT ![s] = @ + 1] /\ UNCHANGED found
       ELSE found' = [found EXCEPT ![s] = TRUE] /\ UNCHANGED other
  /\ UNCHANGED <<stacks, table, i, barrier, history>>

IgnoreRegistration(s) ==
  /\ Registering(s)
  /\ other[s] = P
  /\ NextRequest(s)
  /\ UNCHANGED <<stacks, table, barrier, history>>

(* The number of an address: given earlier in this bsp_sync, or in the map *)
(* (the other process' map, for its address, if one's own is NULL).        *)
NumberKnown(s) ==
  LET a == ToPush(s).address
  IN IF new_addresses[s][a] # None THEN new_addresses[s][a]
     ELSE IF a # Null THEN local2global[s][a]
     ELSE local2global[other[s]][localsToPush[other[s]][i[s]].address]

(* An address without a number gets one that was freed, or a fresh one.    *)
NewNumber(s) ==
  IF removedGlobals[s] = <<>> THEN localC[s] ELSE Top(removedGlobals[s])

TakeNumber(s, g) ==
  /\ IF removedGlobals[s] = <<>>
       THEN localC' = [localC EXCEPT ![s] = @ + 1] /\ UNCHANGED removedGlobals
       ELSE removedGlobals' = [removedGlobals EXCEPT ![s] = Pop(@)] /\ UNCHANGED localC
  /\ new_addresses' = [new_addresses EXCEPT ![s][ToPush(s).address] = g]
  /\ globalsToPush' = [globalsToPush EXCEPT ![s] = Append(@, g)]
  /\ UNCHANGED localsToPush

Register(s) ==
  /\ Registering(s)
  /\ ToPush(s).address # Null \/ new_addresses[s][Null] # None \/ found[s]
  /\ LET new == NumberKnown(s) = None
         g == IF new THEN NewNumber(s) ELSE NumberKnown(s)
     IN /\ table' = [table EXCEPT ![g][s] = Append(@, ToPush(s))]
        /\ IF new
             THEN TakeNumber(s, g)
             ELSE /\ localsToPush' = [localsToPush EXCEPT ![s][i[s]].address = Null]
                  /\ UNCHANGED <<localC, removedGlobals, new_addresses, globalsToPush>>
  /\ NextRequest(s)
  /\ UNCHANGED <<localsToRemove, local2global, barrier, history>>

(* (The last to arrive ends the synchronisation for the history.)          *)
ArriveEnd(s) ==
  /\ Phase(s) = "register"
  /\ i[s] > Len(localsToPush[s])
  /\ Bar!Arrive(s)
  /\ Restart(s)
  /\ new_addresses' = [new_addresses EXCEPT ![s] = Empty]
  /\ IF \A t \in Procs \ {s} : entered[t] >= entered'[s]
       THEN /\ registered' = [v \in Variables |->
                 SubSeq(registered[v], 1, Len(registered[v]) - dropped[v]) \o added[v]]
            /\ added' = [v \in Variables |-> <<>>]
            /\ dropped' = [v \in Variables |-> 0]
       ELSE UNCHANGED <<registered, added, dropped>>
  /\ UNCHANGED <<localsToPush, localsToRemove, globalsToPush, removedGlobals,
                 localC, local2global, table, calls, actions>>

(* After the third barrier: nobody looks at one's requests any more, and   *)
(* the new numbers enter the map, last first.                              *)
Remember(s) ==
  /\ Phase(s) = "remember"
  /\ localsToPush[s] # <<>>
  /\ localsToPush' = [localsToPush EXCEPT ![s] = Pop(@)]
  /\ LET a == Top(localsToPush[s]).address
     IN IF a = Null
          THEN UNCHANGED <<globalsToPush, local2global>>
          ELSE /\ globalsToPush[s] # <<>>
               /\ globalsToPush' = [globalsToPush EXCEPT ![s] = Pop(@)]
               /\ local2global' = IF local2global[s][a] # None THEN local2global
                    ELSE [local2global EXCEPT ![s][a] = Top(globalsToPush[s])]
  /\ UNCHANGED <<localsToRemove, removedGlobals, localC, new_addresses, table,
                 i, other, found, barrier, history>>

Return(s) ==
  /\ Phase(s) = "remember"
  /\ localsToPush[s] = <<>>
  /\ calls' = [calls EXCEPT ![s] = @ + 1]
  /\ UNCHANGED <<stacks, table, i, other, found, entered, crossed, history>>

(* Leave the barrier one waits at.                                         *)
CrossStartFreely(s) ==
  /\ crossed[s] < entered[s]
  /\ crossed[s] = 3 * calls[s] \/ Bar!Cross(s)
  /\ crossed' = [crossed EXCEPT ![s] = @ + 1]
  /\ UNCHANGED <<entered, stacks, table, i, other, found, calls, history>>

Cross(s) ==
  /\ Bar!Cross(s)
  /\ UNCHANGED <<stacks, table, i, other, found, calls, history>>

(* The end of a bounded behaviour.                                         *)
Finished ==
  /\ \A s \in Procs : Phase(s) = "compute" /\ calls[s] = MaxSupersteps
  /\ UNCHANGED vars

Next ==
  \/ \E v \in Variables : PopReg(v) \/ \E size \in Sizes : PushReg(v, size)
  \/ \E s \in Procs :
       \/ ArriveStart(s) \/ SeekRemoval(s) \/ IgnoreRemoval(s) \/ Deregister(s)
       \/ ArriveMid(s) \/ Forget(s) \/ SeekRegistration(s) \/ IgnoreRegistration(s)
       \/ Register(s) \/ ArriveEnd(s) \/ Remember(s) \/ Return(s) \/ Cross(s)
  \/ Finished

Spec == Init /\ [][Next]_vars
----
(* Processes that have completed equally many calls of bsp_sync will give  *)
(* the next variable the same number, though they never compare notes.     *)
NumbersInStep ==
  \A s, t \in Procs :
    Phase(s) = "compute" /\ Phase(t) = "compute" /\ calls[s] = calls[t] =>
      localC[s] = localC[t] /\ removedGlobals[s] = removedGlobals[t]

(* Every call of bsp_sync goes through three barriers, and no process is   *)
(* ahead of another by more than the barrier it waits at.                  *)
BarriersInStep ==
  \A s, t \in Procs :
    /\ crossed[s] <= entered[s] /\ entered[s] <= crossed[s] + 1
    /\ 3 * calls[s] <= crossed[s] /\ entered[s] <= 3 * calls[s] + 3
    /\ entered[s] > 3 * calls[s] => calls[s] < MaxSupersteps
    /\ crossed[s] <= entered[t]

(* The requests of all processes pair up, until their own bsp_sync drops   *)
(* them; who has returned from it has none left.                           *)
RequestsPairUp ==
  \A s, t \in Procs :
    /\ calls[t] < calls[s] => localsToPush[s] = <<>> /\ localsToRemove[s] = <<>>
    /\ calls[s] = calls[t] =>
         /\ crossed[s] <= 3 * calls[s] + 2 /\ crossed[t] <= 3 * calls[t] + 2 =>
              Len(localsToPush[s]) = Len(localsToPush[t])
         /\ crossed[s] <= 3 * calls[s] + 1 /\ crossed[t] <= 3 * calls[t] + 1 =>
              Len(localsToRemove[s]) = Len(localsToRemove[t])
    /\ entered[s] = 3 * calls[s] + 3 => localsToRemove[s] = <<>>

(* A loop over requests starts at the first one and stays in its bounds;   *)
(* a request that was found is another process'.                           *)
LoopsStayInBounds ==
  \A s \in Procs :
    /\ i[s] > 0
    /\ entered[s] = 3 * calls[s] + 2 => i[s] <= Len(localsToPush[s]) + 1
    /\ found[s] => other[s] < P

(* The registrations that may still take a number.                         *)
Pending(s) ==
  IF entered[s] = 3 * calls[s] + 3 THEN 0
  ELSE IF entered[s] = 3 * calls[s] + 2 THEN Len(localsToPush[s]) - (i[s] - 1)
  ELSE Len(localsToPush[s])

NumbersSuffice == \A s \in Procs : localC[s] + Pending(s) <= actions

RequestsInv ==
  TypeOK /\ BarriersInStep /\ RequestsPairUp /\ LoopsStayInBounds /\ NumbersSuffice

RegInv == RequestsInv /\ NumbersInStep

(* User code that names a variable reaches that variable on every process, *)
(* with the sizes of its registrations, latest on top; and it finds no     *)
(* number for a variable that is not registered.                           *)
RegistrationsResolve ==
  \A s \in Procs, v \in Variables :
    Phase(s) = "compute" /\ <<v, s>> \notin NullAt =>
      LET g == local2global[s][v]
      IN IF registered[v] = <<>> THEN g = None
         ELSE /\ g # None
              /\ \A t \in Procs :
                   table[g][t] = [j \in 1 .. Len(registered[v]) |->
                     [address |-> Address(v, t), size |-> registered[v][j]]]

(* While anybody may look up an address for a put or a get, which is done  *)
(* without a lock, the table does not change.                              *)
TableRestsWhileUsed ==
  [][(\E s \in Procs : Phase(s) = "compute") => UNCHANGED table]_vars
====
