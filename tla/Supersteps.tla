---- MODULE Supersteps ----
(***************************************************************************)
(* What the programs of BSPedupack2.0 have in common: processes that       *)
(* compute on their own arrays, ask for puts, gets and messages, and meet  *)
(* in bsp_sync, which carries them out.  The programs are written against  *)
(* the BSP interface, so bsp_sync is the joint step it promises: gets read *)
(* what was there before, puts write afterwards, messages come in any      *)
(* order.  Drma.tla and Bsmp.tla model how the library does it.            *)
(*                                                                         *)
(* Between two bsp_syncs a process touches nothing but its own memory, so  *)
(* within a superstep it is enough to let them run one after the other.    *)
(* A superstep in which a program only registers arrays is left out.       *)
(* Doubles are integers, or integers modulo a prime where a program divides*)
(* or takes roots of unity: arithmetic is exact.                           *)
(***************************************************************************)
EXTENDS Integers, FiniteSets, SequencesExt, TLC

VARIABLES
  input,            \* the program, its processes P and its data
  pc,               \* pc[s]: the part of the program process s is to run next
  waiting,          \* the processes that are inside bsp_sync
  mem,              \* mem[s]: the arrays and variables of s, by name
  puts, gets,       \* the elements asked to be put and got in this superstep
  sends, inbox      \* the messages sent in this superstep, and received

vars == <<input, pc, waiting, mem, puts, gets, sends, inbox>>

NProcs == input.P
n == input.n
Procs == 0 .. NProcs-1
----
(* nloc: the length of the part of s of a vector of length m.              *)
nloc(p, s, m) == (m + p - s - 1) \div p

CeilDiv(m, p) == IF m % p = 0 THEN m \div p ELSE m \div p + 1

(* Numbers modulo a prime, for the programs that divide.                   *)
Mod(x) == x % input.q
Quotient(x, y) == CHOOSE z \in 0 .. input.q - 1 : Mod(y * z) = Mod(x)

Array(length, value(_)) == [k \in 0 .. length - 1 |-> value(k)]

Zeros(length) == Array(length, LAMBDA k : 0)

Put(to, array, at, value) == [to |-> to, array |-> array, at |-> at, value |-> value]

Get(by, array, at, from, source, index) ==
  [by |-> by, array |-> array, at |-> at, from |-> from, source |-> source, index |-> index]

Message(to, from, tag, payload) ==
  [to |-> to, from |-> from, tag |-> tag, payload |-> payload]

Nothing == [puts |-> {}, gets |-> {}, sends |-> {}]

PutsOnly(requests) == [Nothing EXCEPT !.puts = requests]
----
Turn(s) == s \notin waiting /\ \A t \in Procs : t < s => t \in waiting

(* s has done the part "now": it has set the variables of "local", made the*)
(* requests of "out" and enters bsp_sync.                                  *)
Part(s, now, then, local, out) ==
  /\ pc[s] = now /\ Turn(s)
  /\ mem' = [mem EXCEPT ![s] = local @@ @]
  /\ puts' = puts \cup out.puts
  /\ gets' = gets \cup out.gets
  /\ sends' = sends \cup out.sends
  /\ pc' = [pc EXCEPT ![s] = then]
  /\ waiting' = waiting \cup {s}
  /\ UNCHANGED <<input, inbox>>

(* s computes without entering bsp_sync.                                   *)
Local(s, now, then, local) ==
  /\ pc[s] = now /\ Turn(s)
  /\ mem' = [mem EXCEPT ![s] = local @@ @]
  /\ pc' = [pc EXCEPT ![s] = then]
  /\ UNCHANGED <<input, waiting, puts, gets, sends, inbox>>

(* bsp_abort ends all processes.                                           *)
Abort(s, now) ==
  /\ pc[s] = now /\ Turn(s)
  /\ pc' = [t \in Procs |-> "aborted"]
  /\ UNCHANGED <<input, waiting, mem, puts, gets, sends, inbox>>

(* What array a of process t holds after bsp_sync.                         *)
Delivered(t, a) ==
  LET in == {r \in puts : r.to = t /\ r.array = a}
      got == {r \in gets : r.by = t /\ r.array = a}
      Written(k) == {r.value : r \in {q \in in : q.at = k}}
                      \cup {mem[r.from][r.source][r.index] : r \in {q \in got : q.at = k}}
  IN IF in = {} /\ got = {} THEN mem[t][a]
     ELSE [k \in DOMAIN mem[t][a] |->
             IF Written(k) = {} THEN mem[t][a][k] ELSE CHOOSE v \in Written(k) : TRUE]

Sync ==
  /\ waiting = Procs
  /\ waiting' = {}
  /\ mem' = [t \in Procs |-> [a \in DOMAIN mem[t] |-> Delivered(t, a)]]
  /\ inbox' = [t \in Procs |-> {m \in sends : m.to = t}]
  /\ puts' = {} /\ gets' = {} /\ sends' = {}
  /\ UNCHANGED <<input, pc>>

AllAt(label) == waiting = {} /\ \A s \in Procs : pc[s] = label

Finished ==
  /\ AllAt("end") \/ \A s \in Procs : pc[s] = "aborted"
  /\ UNCHANGED vars

(* The processes start with the memory given.                              *)
InitSupersteps(memory) ==
  /\ waiting = {}
  /\ mem = memory
  /\ puts = {} /\ gets = {} /\ sends = {}
  /\ inbox = [s \in Procs |-> {}]
----
(* The order in which bsp_sync carries out the puts and gets of a superstep*)
(* is not specified: no two of them, of any processes, may write the same  *)
(* element, and none may read or write outside an array as its owner has   *)
(* declared it.                                                            *)
RequestsAreSafe ==
  /\ \A r \in puts : r.at \in DOMAIN mem[r.to][r.array]
  /\ \A r \in gets : /\ r.at \in DOMAIN mem[r.by][r.array]
                     /\ r.index \in DOMAIN mem[r.from][r.source]
  /\ LET written == {<<r.to, r.array, r.at>> : r \in puts}
         fetched == {<<r.by, r.array, r.at>> : r \in gets}
     IN /\ Cardinality(written) = Cardinality(puts)
        /\ Cardinality(fetched) = Cardinality(gets)
        /\ written \cap fetched = {}
====
