---- MODULE BspMemory ----
(***************************************************************************)
(* What bsp.h promises about registered memory, as if bsp_sync were one    *)
(* step.  bsp_put sends the value its source had at the call.  bsp_get     *)
(* fetches the value at the time of synchronisation, before any other      *)
(* communication changes it.  High-performance requests take effect at any *)
(* time between the call and the end of the next synchronisation.  Which   *)
(* of several puts to one place prevails is not specified.                 *)
(***************************************************************************)
EXTENDS Integers

CONSTANTS
  P,                \* number of BSP processes
  Cells,            \* the registered variables, one copy per process
  Values            \* what they can hold

Procs == 0 .. P-1

VARIABLES
  memory,           \* memory[s][c]: the copy of c of process s
  issued,           \* issued[s]: the requests s has made since the last sync
  performed,        \* performed[s]: those of them that are already done
  calls,            \* how many times each process called bsp_sync
  done              \* how many synchronisations have taken place

vars == <<memory, issued, performed, calls, done>>

Requests ==
       [kind : {"put"}, to : Procs, cell : Cells, value : Values]
  \cup [kind : {"get", "hpget"}, from : Procs, source : Cells, cell : Cells]
  \cup [kind : {"hpput"}, to : Procs, source : Cells, cell : Cells]

Init ==
  /\ memory \in [Procs -> [Cells -> Values]]
  /\ issued = [s \in Procs |-> {}]
  /\ performed = [s \in Procs |-> {}]
  /\ calls = [s \in Procs |-> 0]
  /\ done = 0

Computing(s) == calls[s] = done

(* User code: assign to a local variable (or fill it at once with a copy of*)
(* a remote one), make a request, call bsp_sync.                           *)
Write(s) ==
  /\ Computing(s)
  /\ \E c \in Cells, v \in Values : memory' = [memory EXCEPT ![s][c] = v]
  /\ UNCHANGED <<issued, performed, calls, done>>

Issue(s) ==
  /\ Computing(s)
  /\ \E r \in Requests :
       /\ r.kind = "put" => \E c \in Cells : r.value = memory[s][c]
       /\ issued' = [issued EXCEPT ![s] = @ \cup {r}]
  /\ UNCHANGED <<memory, performed, calls, done>>

Call(s) ==
  /\ Computing(s)
  /\ calls' = [calls EXCEPT ![s] = @ + 1]
  /\ UNCHANGED <<memory, issued, performed, done>>

(* A high-performance request copies whatever its source holds now.        *)
HpCopy(s) ==
  /\ \E r \in issued[s] :
       /\ \/ /\ r.kind = "hpput"
             /\ memory' = [memory EXCEPT ![r.to][r.cell] = memory[s][r.source]]
          \/ /\ r.kind = "hpget"
             /\ memory' = [memory EXCEPT ![s][r.cell] = memory[r.from][r.source]]
       /\ performed' = [performed EXCEPT ![s] = @ \cup {r}]
  /\ UNCHANGED <<issued, calls, done>>

(* What the puts to, and the gets by, process t may leave in cell c.       *)
PutInto(t, c) ==
  {r.value : r \in {q \in UNION {issued[s] : s \in Procs} :
                      q.kind = "put" /\ q.to = t /\ q.cell = c}}

GotInto(t, c) ==
  {memory[r.from][r.source] : r \in {q \in issued[t] : q.kind = "get" /\ q.cell = c}}

(* Everybody has called bsp_sync, and the high-performance requests are    *)
(* done: all other communication happens.                                  *)
Sync ==
  /\ \A s \in Procs : calls[s] > done
  /\ \A s \in Procs : \A r \in issued[s] : r.kind \in {"hpput", "hpget"} => r \in performed[s]
  /\ memory' \in [Procs -> [Cells -> Values]]
  /\ \A t \in Procs : \A c \in Cells :
       memory'[t][c] \in IF PutInto(t, c) # {} THEN PutInto(t, c)
                         ELSE IF GotInto(t, c) # {} THEN GotInto(t, c)
                         ELSE {memory[t][c]}
  /\ issued' = [s \in Procs |-> {}]
  /\ performed' = [s \in Procs |-> {}]
  /\ done' = done + 1
  /\ UNCHANGED calls

Next == Sync \/ \E s \in Procs : Write(s) \/ Issue(s) \/ Call(s) \/ HpCopy(s)

Spec == Init /\ [][Next]_vars
====
