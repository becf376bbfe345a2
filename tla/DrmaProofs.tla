---- MODULE DrmaProofs ----
(***************************************************************************)
(* Direct remote memory access, for every number of processes, variables,  *)
(* values, requests and supersteps: memory rests while gets are answered,  *)
(* no request is left over, and the superstep protocol, with its queues    *)
(* and three barriers, implements the memory of BspMemory.                 *)
(***************************************************************************)
EXTENDS Drma, WellFoundedInduction, SequenceTheorems, TLAPS

LEMMA ConstantFacts ==
  /\ P \in Nat /\ P > 0
  /\ MaxSupersteps \in Nat /\ MaxActions \in Nat
  /\ \A s : s \in Procs <=> s \in Nat /\ s < P
  /\ 0 \in Procs
BY PAssumption, BoundsAssumption DEF Procs

LEMMA LeastNumber ==
  ASSUME NEW T, T \subseteq Nat, T # {}
  PROVE  \E n \in T : \A m \in T : ~ (m < n)
<1>1. PICK n \in T : \A m \in T : <<m, n>> \notin OpToRel(<, Nat)
  BY WFMin, NatLessThanWellFounded, Zenon
<1> QED BY <1>1, Zenon DEF OpToRel

(* Completed is well defined: the process that lags most determines it. *)
LEMMA CompletedExists ==
  TypeOK /\ BarriersInStep =>
    /\ Completed \in 0 .. MaxSupersteps
    /\ \A s \in Procs : entered[s] >= 3 * Completed
    /\ \E s \in Procs : entered[s] < 3 * (Completed + 1)
<1> SUFFICES ASSUME TypeOK, BarriersInStep
             PROVE  \E d \in 0 .. MaxSupersteps :
                      /\ \A s \in Procs : entered[s] >= 3 * d
                      /\ \E s \in Procs : entered[s] < 3 * (d + 1)
  BY DEF Completed
<1>1. \A s \in Procs : entered[s] \in Nat /\ calls[s] \in 0 .. MaxSupersteps /\ entered[s] <= 3 * calls[s]
  BY DEF TypeOK, Bar!TypeOK, Bar!Procs, Procs, BarriersInStep
<1> DEFINE T == {entered[s] : s \in Procs}
<1>2. T \subseteq Nat /\ T # {}
  BY <1>1, ConstantFacts
<1>3. PICK n \in T : \A m \in T : ~ (m < n)
  BY <1>2, LeastNumber
<1>4. PICK u \in Procs : n = entered[u]
  OBVIOUS
<1>5. PICK d \in Nat : 3 * d <= n /\ n < 3 * d + 3
  <2>1. n \in Nat
    BY <1>2
  <2>2. n \div 3 \in Nat /\ 3 * (n \div 3) <= n /\ n < 3 * (n \div 3) + 3
    BY <2>1
  <2> QED BY <2>2
<1>6. d <= MaxSupersteps
  BY <1>1, <1>4, <1>5, ConstantFacts
<1>7. \A s \in Procs : entered[s] >= 3 * d
  BY <1>1, <1>3, <1>5
<1> QED BY <1>1, <1>4, <1>5, <1>6, <1>7, ConstantFacts

NoOtherIsCompleted ==
  \A d \in 0 .. MaxSupersteps :
    (\A s \in Procs : entered[s] >= 3 * d) /\ (\E s \in Procs : entered[s] < 3 * (d + 1))
      => Completed = d

LEMMA CompletedUnique == TypeOK /\ BarriersInStep => NoOtherIsCompleted
<1> SUFFICES ASSUME NEW d \in 0 .. MaxSupersteps, TypeOK, BarriersInStep,
                    \A s \in Procs : entered[s] >= 3 * d, \E s \in Procs : entered[s] < 3 * (d + 1)
             PROVE  Completed = d
  BY DEF NoOtherIsCompleted
<1>1. \A s \in Procs : entered[s] \in Nat
  BY DEF TypeOK, Bar!TypeOK, Bar!Procs, Procs
<1>2. /\ Completed \in Nat /\ d \in Nat
      /\ \A s \in Procs : entered[s] >= 3 * Completed
      /\ \E s \in Procs : entered[s] < 3 * (Completed + 1)
  BY CompletedExists, ConstantFacts
<1>3. Completed < d + 1
  BY <1>1, <1>2
<1>4. d < Completed + 1
  BY <1>1, <1>2
<1> QED BY <1>2, <1>3, <1>4

(* Where a process can be when Completed synchronisations are complete. *)
LEMMA Positions ==
  ASSUME TypeOK, BarriersInStep, NEW s \in Procs
  PROVE  /\ Completed \in 0 .. MaxSupersteps
         /\ entered[s] \in Nat /\ crossed[s] \in Nat /\ calls[s] \in 0 .. MaxSupersteps
         /\ 3 * Completed <= entered[s] /\ entered[s] <= 3 * Completed + 3
         /\ 3 * Completed <= crossed[s] + 1 /\ crossed[s] <= 3 * Completed + 2
         /\ crossed[s] = entered[s] \/ entered[s] = crossed[s] + 1
         /\ entered[s] > 3 * Completed => calls[s] = Completed + 1
         /\ crossed[s] < 3 * Completed => calls[s] = Completed
<1>1. /\ entered[s] \in Nat /\ crossed[s] \in Nat /\ calls[s] \in 0 .. MaxSupersteps
      /\ \A t \in Procs : entered[t] \in Nat
  BY DEF TypeOK, Bar!TypeOK, Bar!Procs, Procs
<1>2. /\ Completed \in Nat /\ Completed \in 0 .. MaxSupersteps
      /\ entered[s] >= 3 * Completed
      /\ \E t \in Procs : entered[t] < 3 * (Completed + 1)
  BY CompletedExists, ConstantFacts
<1>3. /\ crossed[s] <= entered[s] /\ entered[s] <= crossed[s] + 1
      /\ entered[s] <= 3 * calls[s] /\ 3 * calls[s] <= crossed[s] + 3
      /\ \A t \in Procs : crossed[s] <= entered[t]
  BY DEF BarriersInStep
<1>4. crossed[s] <= 3 * Completed + 2
  BY <1>1, <1>2, <1>3
<1> QED BY <1>1, <1>2, <1>3, <1>4

LEMMA Phases ==
  ASSUME TypeOK, BarriersInStep, NEW s \in Procs
  PROVE  /\ Phase(s) = "compute" => entered[s] = 3 * Completed /\ crossed[s] = 3 * Completed /\ calls[s] = Completed
         /\ Phase(s) = "drain" =>
              entered[s] = 3 * Completed /\ crossed[s] = 3 * Completed /\ calls[s] = Completed + 1
         /\ Phase(s) = "get" =>
              entered[s] = 3 * Completed + 1 /\ crossed[s] = 3 * Completed + 1 /\ calls[s] = Completed + 1
         /\ Phase(s) = "deliver" =>
              entered[s] = 3 * Completed + 2 /\ crossed[s] = 3 * Completed + 2 /\ calls[s] = Completed + 1
         /\ Phase(s) = "waiting" => entered[s] = crossed[s] + 1
<1> DEFINE c == Completed
<1>1. /\ c \in Nat /\ entered[s] \in Nat /\ crossed[s] \in Nat /\ calls[s] \in Nat
      /\ 3 * c <= entered[s] /\ entered[s] <= 3 * c + 3
      /\ 3 * c <= crossed[s] + 1 /\ crossed[s] <= 3 * c + 2
      /\ crossed[s] = entered[s] \/ entered[s] = crossed[s] + 1
      /\ entered[s] <= 3 * calls[s] /\ 3 * calls[s] <= crossed[s] + 3
  BY Positions, ConstantFacts DEF BarriersInStep
<1> HIDE DEF c
<1>2. CASE crossed[s] = entered[s]
  <2>1. CASE crossed[s] = 3 * c
    <3>1. crossed[s] % 3 = 0
      BY <1>1, <2>1
    <3>2. Phase(s) = IF crossed[s] = 3 * calls[s] THEN "compute" ELSE "drain"
      BY <1>2, <3>1 DEF Phase
    <3>3. calls[s] = c \/ calls[s] = c + 1
      BY <1>1, <1>2, <2>1
    <3> QED BY <1>1, <1>2, <2>1, <3>2, <3>3 DEF c
  <2>2. CASE crossed[s] = 3 * c + 1
    <3>1. crossed[s] % 3 = 1
      BY <1>1, <2>2
    <3>2. crossed[s] # 3 * calls[s] /\ calls[s] = c + 1
      BY <1>1, <1>2, <2>2
    <3>3. Phase(s) = "get"
      BY <1>2, <3>1, <3>2 DEF Phase
    <3> QED BY <1>2, <2>2, <3>2, <3>3 DEF c
  <2>3. CASE crossed[s] = 3 * c + 2
    <3>1. crossed[s] % 3 = 2
      BY <1>1, <2>3
    <3>2. crossed[s] # 3 * calls[s] /\ calls[s] = c + 1
      BY <1>1, <1>2, <2>3
    <3>3. Phase(s) = "deliver"
      BY <1>2, <3>1, <3>2 DEF Phase
    <3> QED BY <1>2, <2>3, <3>2, <3>3 DEF c
  <2> QED BY <1>1, <1>2, <2>1, <2>2, <2>3
<1>3. CASE crossed[s] # entered[s]
  BY <1>1, <1>3 DEF Phase, c
<1> QED BY <1>2, <1>3

----
(* The types of the queues' entries. *)
Messages == [cell : Cells, value : Values]
GetEntries == [from : Procs, source : Cells, cell : Cells]
HpEntries == [source : Locations, destination : Locations, source_is_remote : BOOLEAN]

LEMMA TypesOfState ==
  TypeOK <=>
    /\ memory \in [Procs -> [Cells -> Values]]
    /\ queues \in [Procs -> [Procs -> Seq(Messages)]]
    /\ request_queues \in [Procs -> Seq(GetEntries)]
    /\ hpdrma_queue \in [Procs -> Seq(HpEntries)]
    /\ calls \in [Procs -> 0 .. MaxSupersteps]
    /\ k \in [Procs -> 0 .. P]
    /\ entered \in [Procs -> Nat] /\ crossed \in [Procs -> Nat]
    /\ actions \in 0 .. MaxActions
BY DEF TypeOK, Bar!TypeOK, Bar!Procs, Procs, Messages, GetEntries, HpEntries

LEMMA TypesOfStateNext ==
  TypeOK' <=>
    /\ memory' \in [Procs -> [Cells -> Values]]
    /\ queues' \in [Procs -> [Procs -> Seq(Messages)]]
    /\ request_queues' \in [Procs -> Seq(GetEntries)]
    /\ hpdrma_queue' \in [Procs -> Seq(HpEntries)]
    /\ calls' \in [Procs -> 0 .. MaxSupersteps]
    /\ k' \in [Procs -> 0 .. P]
    /\ entered' \in [Procs -> Nat] /\ crossed' \in [Procs -> Nat]
    /\ actions' \in 0 .. MaxActions
BY DEF TypeOK, Bar!TypeOK, Bar!Procs, Procs, Messages, GetEntries, HpEntries

LEMMA PushOnStack ==
  ASSUME NEW S, NEW q \in Seq(S), NEW e \in S
  PROVE  /\ Append(q, e) \in Seq(S)
         /\ Len(Append(q, e)) = Len(q) + 1
         /\ DOMAIN q = 1 .. Len(q) /\ DOMAIN Append(q, e) = 1 .. Len(q) + 1
         /\ \A j \in 1 .. Len(q) : Append(q, e)[j] = q[j]
         /\ Append(q, e)[Len(q) + 1] = e
BY LenProperties

LEMMA PopFromStack ==
  ASSUME NEW S, NEW q \in Seq(S), q # <<>>
  PROVE  /\ Len(q) \in Nat /\ Len(q) > 0 /\ DOMAIN q = 1 .. Len(q)
         /\ Top(q) = q[Len(q)] /\ Top(q) \in S
         /\ Pop(q) \in Seq(S) /\ Len(Pop(q)) = Len(q) - 1
         /\ DOMAIN Pop(q) = 1 .. Len(q) - 1
         /\ \A j \in 1 .. Len(q) - 1 : Pop(q)[j] = q[j]
<1>1. Len(q) \in Nat /\ Len(q) > 0 /\ DOMAIN q = 1 .. Len(q)
  BY EmptySeq, LenProperties
<1>2. \A j \in 1 .. Len(q) : q[j] \in S
  BY ElementOfSeq
<1>3. /\ Pop(q) \in Seq(S) /\ Len(Pop(q)) = Len(q) - 1
      /\ \A j \in 1 .. Len(q) - 1 : Pop(q)[j] = q[j]
  <2>1. /\ SubSeq(q, 1, Len(q) - 1) \in Seq(S)
        /\ Len(SubSeq(q, 1, Len(q) - 1)) = IF 1 <= Len(q) - 1 THEN Len(q) - 1 - 1 + 1 ELSE 0
        /\ \A i \in 1 .. Len(q) - 1 - 1 + 1 : SubSeq(q, 1, Len(q) - 1)[i] = q[1 + i - 1]
    BY <1>1, <1>2, SubSeqProperties
  <2> QED BY <1>1, <2>1 DEF Pop
<1>4. DOMAIN Pop(q) = 1 .. Len(q) - 1
  BY <1>1, <1>3, LenProperties
<1> QED BY <1>1, <1>2, <1>3, <1>4 DEF Top

LEMMA UpdateOfCell ==
  ASSUME NEW M \in [Procs -> [Cells -> Values]], NEW s \in Procs, NEW c \in Cells, NEW v \in Values
  PROVE  /\ [M EXCEPT ![s][c] = v] \in [Procs -> [Cells -> Values]]
         /\ \A t \in Procs : \A d \in Cells :
              [M EXCEPT ![s][c] = v][t][d] = IF t = s /\ d = c THEN v ELSE M[t][d]
OBVIOUS

LEMMA UpdateOfQueue ==
  ASSUME NEW Q \in [Procs -> [Procs -> Seq(Messages)]], NEW s \in Procs, NEW t \in Procs,
         NEW q \in Seq(Messages)
  PROVE  /\ [Q EXCEPT ![s][t] = q] \in [Procs -> [Procs -> Seq(Messages)]]
         /\ \A u, w \in Procs : [Q EXCEPT ![s][t] = q][u][w] = IF u = s /\ w = t THEN q ELSE Q[u][w]
OBVIOUS

LEMMA RequestsOfUserCode ==
  ASSUME TypeOK, NEW s \in Procs, NEW t \in Procs, NEW source \in Cells, NEW c \in Cells
  PROVE  /\ [cell |-> c, value |-> memory[s][source]] \in Messages
         /\ [from |-> t, source |-> source, cell |-> c] \in GetEntries
         /\ [source |-> <<s, source>>, destination |-> <<t, c>>, source_is_remote |-> FALSE] \in HpEntries
         /\ [source |-> <<t, source>>, destination |-> <<s, c>>, source_is_remote |-> TRUE] \in HpEntries
BY TypesOfState DEF Messages, GetEntries, HpEntries, Locations

(* What the steps of bsp_sync that move data do. *)
LEMMA DrainEffect ==
  ASSUME TypeOK, NEW s \in Procs, Drain(s)
  PROVE  /\ hpdrma_queue[s] \in Seq(HpEntries) /\ hpdrma_queue[s] # <<>>
         /\ hpdrma_queue' = [hpdrma_queue EXCEPT ![s] = Pop(hpdrma_queue[s])]
         /\ \E u, v \in Procs, a, c \in Cells :
              /\ Top(hpdrma_queue[s]).source = <<u, a>>
              /\ Top(hpdrma_queue[s]).destination = <<v, c>>
              /\ memory' = [memory EXCEPT ![v][c] = memory[u][a]]
         /\ performed' = [performed EXCEPT ![s] = @ \cup {HpRecord(Top(hpdrma_queue[s]))}]
<1> DEFINE r == Top(hpdrma_queue[s])
<1>1. hpdrma_queue[s] \in Seq(HpEntries) /\ hpdrma_queue[s] # <<>>
  BY TypesOfState DEF Drain
<1>2. r \in HpEntries
  BY <1>1, PopFromStack
<1>3. /\ memory' = [memory EXCEPT ![r.destination[1]][r.destination[2]] = memory[r.source[1]][r.source[2]]]
      /\ performed' = [performed EXCEPT ![s] = @ \cup {HpRecord(r)}]
      /\ hpdrma_queue' = [hpdrma_queue EXCEPT ![s] = Pop(hpdrma_queue[s])]
  BY DEF Drain
<1>4. r.source \in Procs \X Cells /\ r.destination \in Procs \X Cells
  BY <1>2 DEF HpEntries, Locations
<1> HIDE DEF r
<1>5. PICK u \in Procs, a \in Cells : r.source = <<u, a>>
  BY <1>4
<1>6. PICK v \in Procs, c \in Cells : r.destination = <<v, c>>
  BY <1>4
<1>7. memory' = [memory EXCEPT ![v][c] = memory[u][a]]
  BY <1>3, <1>5, <1>6
<1>8. \E x, y \in Procs, d, e \in Cells :
        /\ r.source = <<x, d>>
        /\ r.destination = <<y, e>>
        /\ memory' = [memory EXCEPT ![y][e] = memory[x][d]]
  BY <1>5, <1>6, <1>7
<1> QED BY <1>1, <1>3, <1>8 DEF r

LEMMA FetchEffect ==
  ASSUME TypeOK, NEW s \in Procs, Fetch(s)
  PROVE  \E r \in GetEntries :
           /\ request_queues[s] \in Seq(GetEntries) /\ request_queues[s] # <<>>
           /\ r = Top(request_queues[s])
           /\ request_queues' = [request_queues EXCEPT ![s] = Pop(request_queues[s])]
           /\ [cell |-> r.cell, value |-> memory[r.from][r.source]] \in Messages
           /\ queues' = IF r.from = s /\ r.source = r.cell THEN queues
                        ELSE [queues EXCEPT ![s][s] =
                                Append(queues[s][s], [cell |-> r.cell, value |-> memory[r.from][r.source]])]
<1> DEFINE r == Top(request_queues[s])
<1>1. request_queues[s] \in Seq(GetEntries) /\ request_queues[s] # <<>>
  BY TypesOfState DEF Fetch
<1>2. r \in GetEntries
  BY <1>1, PopFromStack
<1>3. /\ queues' = IF <<r.from, r.source>> = <<s, r.cell>> THEN queues
                   ELSE [queues EXCEPT ![s][s] =
                           Append(@, [cell |-> r.cell, value |-> memory[r.from][r.source]])]
      /\ request_queues' = [request_queues EXCEPT ![s] = Pop(@)]
  BY DEF Fetch
<1> HIDE DEF r
<1>4. [cell |-> r.cell, value |-> memory[r.from][r.source]] \in Messages
  BY <1>2, TypesOfState DEF GetEntries, Messages
<1>5. <<r.from, r.source>> = <<s, r.cell>> <=> r.from = s /\ r.source = r.cell
  OBVIOUS
<1>6. queues' = IF r.from = s /\ r.source = r.cell THEN queues
                ELSE [queues EXCEPT ![s][s] =
                        Append(queues[s][s], [cell |-> r.cell, value |-> memory[r.from][r.source]])]
  BY <1>3, <1>5
<1>7. request_queues' = [request_queues EXCEPT ![s] = Pop(request_queues[s])]
  BY <1>3
<1>8. r = Top(request_queues[s])
  BY DEF r
<1> QED BY <1>1, <1>2, <1>4, <1>6, <1>7, <1>8

LEMMA DeliverEffect ==
  ASSUME TypeOK, NEW s \in Procs, Deliver(s)
  PROVE  \E from \in Procs : \E m \in Messages :
           /\ from = (k[s] + s) % P
           /\ queues[from][s] \in Seq(Messages) /\ queues[from][s] # <<>>
           /\ m = Top(queues[from][s])
           /\ m.cell \in Cells /\ m.value \in Values
           /\ memory' = [memory EXCEPT ![s][m.cell] = m.value]
           /\ queues' = [queues EXCEPT ![from][s] = Pop(queues[from][s])]
<1> DEFINE from == (k[s] + s) % P
           m == Top(queues[from][s])
<1>1. from \in Procs
  <2>1. k[s] \in Nat /\ s \in Nat /\ P \in Nat /\ P > 0
    BY TypesOfState, ConstantFacts
  <2>2. k[s] + s \in Nat
    BY <2>1
  <2> HIDE DEF from
  <2>3. \A x \in Nat : x % P \in 0 .. P-1
    BY <2>1
  <2> QED BY <2>2, <2>3 DEF Procs, from
<1>2. /\ queues[from][s] # <<>>
      /\ memory' = [memory EXCEPT ![s][m.cell] = m.value]
      /\ queues' = [queues EXCEPT ![from][s] = Pop(@)]
  BY DEF Deliver
<1> HIDE DEF from
<1>3. queues[from][s] \in Seq(Messages)
  BY <1>1, TypesOfState
<1>4. m \in Messages
  BY <1>2, <1>3, PopFromStack
<1>5. m.cell \in Cells /\ m.value \in Values
  BY <1>4 DEF Messages
<1>6. queues' = [queues EXCEPT ![from][s] = Pop(queues[from][s])]
  BY <1>2
<1>7. from = (k[s] + s) % P
  BY DEF from
<1> QED BY <1>1, <1>2, <1>3, <1>4, <1>5, <1>6, <1>7

LEMMA TypeStep == TypeOK /\ [Next]_vars => TypeOK'
<1> SUFFICES ASSUME TypeOK, [Next]_vars
             PROVE  TypeOK'
  OBVIOUS
<1>t. /\ memory \in [Procs -> [Cells -> Values]]
      /\ queues \in [Procs -> [Procs -> Seq(Messages)]]
      /\ request_queues \in [Procs -> Seq(GetEntries)]
      /\ hpdrma_queue \in [Procs -> Seq(HpEntries)]
      /\ calls \in [Procs -> 0 .. MaxSupersteps]
      /\ k \in [Procs -> 0 .. P]
      /\ entered \in [Procs -> Nat] /\ crossed \in [Procs -> Nat]
      /\ actions \in 0 .. MaxActions
  BY TypesOfState
<1>0. ASSUME NEW s \in Procs, NEW primitive, Uses(s, primitive)
      PROVE  actions' \in 0 .. MaxActions
  BY <1>t, <1>0, ConstantFacts DEF Uses
<1>1. ASSUME NEW s \in Procs, NEW c \in Cells, NEW v \in Written, Write(s, c, v)
      PROVE  TypeOK'
  BY <1>t, <1>0, <1>1, WrittenAssumption, TypesOfStateNext DEF Write, queueVars
<1>2. ASSUME NEW s \in Procs, NEW t \in Procs, NEW source \in Cells, NEW c \in Cells, Put(s, t, source, c)
      PROVE  TypeOK'
  <2> DEFINE m == [cell |-> c, value |-> memory[s][source]]
  <2>1. m \in Messages /\ queues[s][t] \in Seq(Messages)
    BY <1>t, RequestsOfUserCode
  <2>2. queues' = [queues EXCEPT ![s][t] = Append(queues[s][t], m)]
    BY <1>2 DEF Put
  <2> HIDE DEF m
  <2>3. queues' \in [Procs -> [Procs -> Seq(Messages)]]
    BY <1>t, <2>1, <2>2, PushOnStack, UpdateOfQueue
  <2> QED BY <1>t, <1>0, <1>2, <2>3, TypesOfStateNext DEF Put
<1>3. ASSUME NEW s \in Procs, NEW t \in Procs, NEW source \in Cells, NEW c \in Cells, Get(s, t, source, c)
      PROVE  TypeOK'
  <2> DEFINE r == [from |-> t, source |-> source, cell |-> c]
  <2>1. r \in GetEntries /\ request_queues[s] \in Seq(GetEntries)
    BY <1>t, RequestsOfUserCode
  <2>2. Append(request_queues[s], r) \in Seq(GetEntries)
    BY <2>1, PushOnStack
  <2> QED BY <1>t, <1>0, <1>3, <2>2, TypesOfStateNext DEF Get
<1>4. ASSUME NEW s \in Procs, NEW t \in Procs, NEW source \in Cells, NEW c \in Cells,
             HpPut(s, t, source, c) \/ HpGet(s, t, source, c)
      PROVE  TypeOK'
  <2>1. \A e \in HpEntries : Append(hpdrma_queue[s], e) \in Seq(HpEntries)
    BY <1>t, PushOnStack
  <2>2. CASE HpPut(s, t, source, c)
    <3>1. Append(hpdrma_queue[s], [source |-> <<s, source>>, destination |-> <<t, c>>,
                 source_is_remote |-> FALSE]) \in Seq(HpEntries)
      BY <2>1, RequestsOfUserCode
    <3> QED BY <1>t, <1>0, <2>2, <3>1, TypesOfStateNext DEF HpPut
  <2>3. CASE HpGet(s, t, source, c)
    <3>1. Append(hpdrma_queue[s], [source |-> <<t, source>>, destination |-> <<s, c>>,
                 source_is_remote |-> TRUE]) \in Seq(HpEntries)
      BY <2>1, RequestsOfUserCode
    <3> QED BY <1>t, <1>0, <2>3, <3>1, TypesOfStateNext DEF HpGet
  <2> QED BY <1>4, <2>2, <2>3
<1>5. ASSUME NEW s \in Procs, NEW t \in Procs, NEW source \in Cells, NEW c \in Cells, DirectGet(s, t, source, c)
      PROVE  TypeOK'
  <2>1. /\ memory' = [memory EXCEPT ![s][c] = memory[t][source]]
        /\ UNCHANGED <<queues, request_queues, hpdrma_queue, calls, k, entered, crossed>>
        /\ Uses(s, "direct_get")
    BY <1>5 DEF DirectGet, queueVars
  <2>2. memory' \in [Procs -> [Cells -> Values]]
    BY <1>t, <2>1
  <2> QED BY <1>t, <1>0, <2>1, <2>2, TypesOfStateNext
<1>6. ASSUME NEW s \in Procs, Call(s)
      PROVE  TypeOK'
  <2>1. calls[s] + 1 \in 0 .. MaxSupersteps
    BY <1>t, <1>6, ConstantFacts DEF Call
  <2> QED BY <1>t, <1>6, <2>1, TypesOfStateNext DEF Call, queueVars
<1>7. ASSUME NEW s \in Procs, Drain(s)
      PROVE  TypeOK'
  <2>1. memory' \in [Procs -> [Cells -> Values]]
    <3>1. PICK u, v \in Procs, a, c \in Cells :
            /\ Top(hpdrma_queue[s]).source = <<u, a>>
            /\ Top(hpdrma_queue[s]).destination = <<v, c>>
            /\ memory' = [memory EXCEPT ![v][c] = memory[u][a]]
      BY <1>7, DrainEffect
    <3>2. memory[u][a] \in Values
      BY <1>t
    <3> QED BY <1>t, <3>1, <3>2
  <2>2. hpdrma_queue' \in [Procs -> Seq(HpEntries)]
    <3>1. Pop(hpdrma_queue[s]) \in Seq(HpEntries)
      BY <1>7, DrainEffect, PopFromStack
    <3>2. hpdrma_queue' = [hpdrma_queue EXCEPT ![s] = Pop(hpdrma_queue[s])]
      BY <1>7, DrainEffect
    <3> QED BY <1>t, <3>1, <3>2
  <2> QED BY <1>t, <1>7, <2>1, <2>2, TypesOfStateNext DEF Drain
<1>8. ASSUME NEW s \in Procs, ArriveStart(s) \/ ArriveMid(s) \/ ArriveEnd(s)
      PROVE  TypeOK'
  <2>1. UNCHANGED <<memory, queues, request_queues, hpdrma_queue, calls, k, actions>> /\ Bar!Arrive(s)
    BY <1>8 DEF ArriveStart, ArriveMid, ArriveEnd, queueVars
  <2>2. entered' \in [Procs -> Nat] /\ crossed' \in [Procs -> Nat]
    BY <1>t, <2>1 DEF Bar!Arrive
  <2> QED BY <1>t, <2>1, <2>2, TypesOfStateNext
<1>9. ASSUME NEW s \in Procs, Fetch(s)
      PROVE  TypeOK'
  <2>1. PICK r \in GetEntries :
           /\ request_queues[s] \in Seq(GetEntries) /\ request_queues[s] # <<>>
           /\ request_queues' = [request_queues EXCEPT ![s] = Pop(request_queues[s])]
           /\ [cell |-> r.cell, value |-> memory[r.from][r.source]] \in Messages
           /\ \/ queues' = queues
              \/ queues' = [queues EXCEPT ![s][s] =
                              Append(queues[s][s], [cell |-> r.cell, value |-> memory[r.from][r.source]])]
    BY <1>9, FetchEffect
  <2> DEFINE m == [cell |-> r.cell, value |-> memory[r.from][r.source]]
  <2>2. m \in Messages /\ (queues' = queues \/ queues' = [queues EXCEPT ![s][s] = Append(queues[s][s], m)])
    BY <2>1
  <2> HIDE DEF m
  <2>3. queues' \in [Procs -> [Procs -> Seq(Messages)]]
    <3>1. queues[s][s] \in Seq(Messages)
      BY <1>t
    <3>2. Append(queues[s][s], m) \in Seq(Messages)
      BY <2>2, <3>1, PushOnStack
    <3>3. [queues EXCEPT ![s][s] = Append(queues[s][s], m)] \in [Procs -> [Procs -> Seq(Messages)]]
      BY <1>t, <3>2
    <3> QED BY <1>t, <2>2, <3>3
  <2>4. request_queues' \in [Procs -> Seq(GetEntries)]
    BY <1>t, <2>1, PopFromStack
  <2> QED BY <1>t, <1>9, <2>3, <2>4, TypesOfStateNext DEF Fetch, history
<1>10. ASSUME NEW s \in Procs, Deliver(s)
       PROVE  TypeOK'
  <2>1. memory' \in [Procs -> [Cells -> Values]] /\ queues' \in [Procs -> [Procs -> Seq(Messages)]]
    <3>1. PICK from \in Procs, m \in Messages :
            /\ queues[from][s] \in Seq(Messages) /\ queues[from][s] # <<>>
            /\ m.cell \in Cells /\ m.value \in Values
            /\ memory' = [memory EXCEPT ![s][m.cell] = m.value]
            /\ queues' = [queues EXCEPT ![from][s] = Pop(queues[from][s])]
      BY <1>10, DeliverEffect
    <3>2. Pop(queues[from][s]) \in Seq(Messages)
      BY <3>1, PopFromStack
    <3> QED BY <1>t, <3>1, <3>2
  <2> QED BY <1>t, <1>10, <2>1, TypesOfStateNext DEF Deliver, history
<1>11. ASSUME NEW s \in Procs, NextQueue(s)
       PROVE  TypeOK'
  <2>1. k[s] + 1 \in 0 .. P
    <3>1. k[s] < P
      BY <1>11 DEF NextQueue
    <3>2. k[s] \in 0 .. P /\ P \in Nat
      BY <1>t, ConstantFacts
    <3> QED BY <3>1, <3>2
  <2> QED BY <1>t, <1>11, <2>1, TypesOfStateNext DEF NextQueue, queueVars
<1>12. ASSUME NEW s \in Procs, Cross(s)
       PROVE  TypeOK'
  <2>1. UNCHANGED <<memory, queues, request_queues, hpdrma_queue, calls, actions>>
    BY <1>12 DEF Cross, queueVars
  <2>2. k' = [k EXCEPT ![s] = 0] /\ entered' = entered /\ crossed' = [crossed EXCEPT ![s] = @ + 1]
    BY <1>12 DEF Cross, Bar!Cross
  <2>3. 0 \in 0 .. P
    BY ConstantFacts
  <2>4. k' \in [Procs -> 0 .. P] /\ entered' \in [Procs -> Nat] /\ crossed' \in [Procs -> Nat]
    BY <1>t, <2>2, <2>3
  <2> QED BY <1>t, <2>1, <2>4, TypesOfStateNext
<1>13. CASE UNCHANGED vars
  BY <1>t, <1>13, TypesOfStateNext DEF vars
<1> QED
  BY <1>1, <1>2, <1>3, <1>4, <1>5, <1>6, <1>7, <1>8, <1>9, <1>10, <1>11, <1>12, <1>13
     DEF Next, Writing, Requesting, InSync, Finished

----
(* The barriers. *)
LEMMA SameCompleted == entered' = entered => Completed' = Completed
BY DEF Completed

(* Which step moves a process through its barriers, and how. *)
Arrives(s) == Bar!Arrive(s) /\ UNCHANGED calls
Crosses(s) == Bar!Cross(s) /\ UNCHANGED calls
Stays == UNCHANGED <<entered, crossed, calls>>

LEMMA BarrierMoves ==
  [Next]_vars =>
    \/ Stays
    \/ \E s \in Procs : \/ Call(s)
                        \/ Phase(s) \in {"drain", "get", "deliver"} /\ Arrives(s)
                        \/ Crosses(s)
<1> SUFFICES ASSUME [Next]_vars
             PROVE  \/ Stays
                    \/ \E s \in Procs : \/ Call(s)
                                        \/ Phase(s) \in {"drain", "get", "deliver"} /\ Arrives(s)
                                        \/ Crosses(s)
  OBVIOUS
<1>1. ASSUME NEW s \in Procs, Writing(s) \/ Requesting(s)
      PROVE  Stays
  BY <1>1 DEF Writing, Requesting, Write, Put, Get, HpPut, HpGet, DirectGet, Stays
<1>2. ASSUME NEW s \in Procs, InSync(s)
      PROVE  \/ Stays
             \/ Phase(s) \in {"drain", "get", "deliver"} /\ Arrives(s)
             \/ Crosses(s)
  BY <1>2 DEF InSync, Drain, ArriveStart, Fetch, ArriveMid, Deliver, NextQueue, ArriveEnd, Cross,
              Stays, Arrives, Crosses
<1>3. Finished \/ UNCHANGED vars => Stays
  BY DEF Finished, vars, Stays
<1> QED BY <1>1, <1>2, <1>3 DEF Next

LEMMA BarrierStep == TypeOK /\ BarriersInStep /\ [Next]_vars => BarriersInStep'
<1> SUFFICES ASSUME TypeOK, BarriersInStep, [Next]_vars
             PROVE  BarriersInStep'
  OBVIOUS
<1>1. /\ entered \in [Procs -> Nat] /\ crossed \in [Procs -> Nat] /\ calls \in [Procs -> Nat]
      /\ \A s \in Procs :
           /\ crossed[s] <= entered[s] /\ entered[s] <= crossed[s] + 1
           /\ entered[s] <= 3 * calls[s] /\ 3 * calls[s] <= crossed[s] + 3
      /\ \A s, t \in Procs : crossed[s] <= entered[t]
  BY TypesOfState, ConstantFacts DEF BarriersInStep
<1>2. CASE Stays
  BY <1>2 DEF Stays, BarriersInStep
<1>3. ASSUME NEW s \in Procs, Call(s)
      PROVE  BarriersInStep'
  <2>1. crossed[s] = 3 * calls[s] /\ entered[s] = crossed[s]
    BY <1>3, Phases DEF Call
  <2>2. UNCHANGED <<entered, crossed>> /\ calls' = [calls EXCEPT ![s] = @ + 1]
    BY <1>3 DEF Call
  <2> QED BY <1>1, <2>1, <2>2 DEF BarriersInStep
<1>4. ASSUME NEW s \in Procs, Phase(s) \in {"drain", "get", "deliver"}, Arrives(s)
      PROVE  BarriersInStep'
  <2>1. entered[s] = crossed[s] /\ entered[s] + 1 <= 3 * calls[s]
    BY <1>1, <1>4, Phases, Positions
  <2>2. UNCHANGED <<crossed, calls>> /\ entered' = [entered EXCEPT ![s] = @ + 1]
    BY <1>4 DEF Arrives, Bar!Arrive
  <2> QED BY <1>1, <2>1, <2>2 DEF BarriersInStep
<1>5. ASSUME NEW s \in Procs, Crosses(s)
      PROVE  BarriersInStep'
  <2>1. UNCHANGED <<entered, calls>> /\ crossed' = [crossed EXCEPT ![s] = @ + 1]
    BY <1>5 DEF Crosses, Bar!Cross
  <2>2. crossed[s] # entered[s] /\ \A t \in Procs : entered[t] >= entered[s]
    BY <1>5 DEF Crosses, Bar!Cross, Bar!Procs, Procs
  <2>3. entered[s] = crossed[s] + 1
    BY <1>1, <2>2
  <2> QED BY <1>1, <2>1, <2>2, <2>3 DEF BarriersInStep
<1> QED BY <1>2, <1>3, <1>4, <1>5, BarrierMoves

LEMMA InitBarriers == Init => TypeOK /\ BarriersInStep
<1> SUFFICES ASSUME Init
             PROVE  TypeOK /\ BarriersInStep
  OBVIOUS
<1>1. /\ entered = [s \in Procs |-> 0] /\ crossed = [s \in Procs |-> 0] /\ calls = [s \in Procs |-> 0]
  BY DEF Init, Bar!Init, Bar!Procs, Procs
<1>2. BarriersInStep
  BY <1>1 DEF BarriersInStep
<1>3. <<>> \in Seq(Messages) /\ <<>> \in Seq(GetEntries) /\ <<>> \in Seq(HpEntries)
  BY EmptySeq
<1>4. 0 \in 0 .. MaxSupersteps /\ 0 \in 0 .. P /\ 0 \in 0 .. MaxActions /\ 0 \in Nat
  BY ConstantFacts
<1>5. TypeOK
  BY <1>1, <1>3, <1>4, StartAssumption, TypesOfState DEF Init, Procs
<1> QED BY <1>2, <1>5

(* While a process is still before the first barrier, none is past it. *)
LEMMA NobodyIsPast ==
  ASSUME TypeOK, BarriersInStep, NEW s \in Procs, Phase(s) \in {"compute", "drain"}
  PROVE  /\ entered[s] = 3 * Completed /\ crossed[s] = 3 * Completed
         /\ \A t \in Procs : /\ crossed[t] <= 3 * Completed /\ entered[t] <= 3 * Completed + 1
                             /\ Phase(t) \notin {"get", "deliver"}
         /\ ~ Delivering /\ SeenMemory = memory
<1>1. entered[s] = 3 * Completed /\ crossed[s] = 3 * Completed
  BY Phases
<1>2. Completed \in Nat
  BY CompletedExists, ConstantFacts
<1>3. ASSUME NEW t \in Procs
      PROVE  /\ crossed[t] <= 3 * Completed /\ entered[t] <= 3 * Completed + 1
             /\ crossed[t] # 3 * Completed + 2
             /\ Phase(t) \notin {"get", "deliver"}
  <2>1. /\ crossed[t] \in Nat /\ entered[t] \in Nat
        /\ crossed[t] = entered[t] \/ entered[t] = crossed[t] + 1
    BY Positions
  <2>2. crossed[t] <= entered[s]
    BY DEF BarriersInStep
  <2> QED BY <1>1, <1>2, <2>1, <2>2, Phases
<1>4. ~ Delivering
  BY <1>3 DEF Delivering
<1> QED BY <1>1, <1>3, <1>4 DEF SeenMemory

(* While a process fetches, none writes: not in user code, not in the part
   of bsp_sync before, not in the part after. *)
LEMMA OthersWaitDuringGets ==
  ASSUME TypeOK, BarriersInStep, NEW s \in Procs, Phase(s) = "get"
  PROVE  /\ \A t \in Procs : crossed[t] <= 3 * Completed + 1 /\ Phase(t) \notin {"compute", "drain", "deliver"}
         /\ ~ Delivering /\ SeenMemory = memory
<1>1. entered[s] = 3 * Completed + 1 /\ crossed[s] = 3 * Completed + 1
  BY Phases
<1>2. Completed \in Nat
  BY CompletedExists, ConstantFacts
<1>3. ASSUME NEW t \in Procs
      PROVE  /\ crossed[t] <= 3 * Completed + 1 /\ crossed[t] # 3 * Completed + 2
             /\ Phase(t) \notin {"compute", "drain", "deliver"}
  <2>1. crossed[t] \in Nat /\ entered[t] \in Nat
    BY Positions
  <2>2. crossed[t] <= entered[s] /\ crossed[s] <= entered[t]
    BY DEF BarriersInStep
  <2>3. crossed[t] <= 3 * Completed + 1 /\ crossed[t] # 3 * Completed + 2 /\ entered[t] # 3 * Completed
    BY <1>1, <1>2, <2>1, <2>2
  <2>4. Phase(t) \notin {"compute", "drain", "deliver"}
    BY <2>3, Phases
  <2> QED BY <2>3, <2>4
<1>4. ~ Delivering
  BY <1>3 DEF Delivering
<1> QED BY <1>3, <1>4 DEF SeenMemory

THEOREM TypeCorrect == Spec => [](TypeOK /\ BarriersInStep)
<1>1. TypeOK /\ BarriersInStep /\ [Next]_vars => TypeOK' /\ BarriersInStep'
  BY TypeStep, BarrierStep
<1> QED BY <1>1, InitBarriers, PTL DEF Spec

(* While anybody fetches, no memory changes. *)
THEOREM MemoryRests == Spec => MemoryRestsDuringGets
<1>1. TypeOK /\ BarriersInStep /\ [Next]_vars => [(\E s \in Procs : Phase(s) = "get") => UNCHANGED memory]_vars
  <2> SUFFICES ASSUME TypeOK, BarriersInStep, Next, NEW s \in Procs, Phase(s) = "get"
               PROVE  UNCHANGED memory
    BY DEF vars
  <2>1. \A t \in Procs : Phase(t) \notin {"compute", "drain", "deliver"}
    BY OthersWaitDuringGets
  <2>2. ASSUME NEW t \in Procs, Writing(t) \/ Requesting(t) \/ Call(t) \/ InSync(t)
        PROVE  UNCHANGED memory
    <3>1. Writing(t) \/ Requesting(t) => Phase(t) = "compute"
      BY DEF Writing, Requesting, Write, Put, Get, HpPut, HpGet, DirectGet, Uses
    <3>2. Drain(t) \/ Deliver(t) => Phase(t) \in {"drain", "deliver"}
      BY DEF Drain, Deliver
    <3>3. Call(t) \/ ArriveStart(t) \/ Fetch(t) \/ ArriveMid(t) \/ NextQueue(t) \/ ArriveEnd(t) \/ Cross(t)
            => UNCHANGED memory
      BY DEF Call, ArriveStart, Fetch, ArriveMid, NextQueue, ArriveEnd, Cross
    <3> QED BY <2>1, <2>2, <3>1, <3>2, <3>3 DEF InSync
  <2>3. Finished => UNCHANGED memory
    BY DEF Finished, vars
  <2> QED BY <2>2, <2>3 DEF Next
<1> QED BY <1>1, TypeCorrect, PTL DEF Spec, MemoryRestsDuringGets

LEMMA CompletedUniqueNext == TypeOK' /\ BarriersInStep' => NoOtherIsCompleted'
BY CompletedUnique, PTL

(* Only the last arrival at the last barrier completes a synchronisation. *)
LEMMA Arrivals ==
  ASSUME TypeOK, BarriersInStep, [Next]_vars,
         NEW s \in Procs, Phase(s) \in {"drain", "get", "deliver"}, Arrives(s)
  PROVE  \/ /\ Completed' = Completed
            /\ Phase(s) = "deliver" => \E t \in Procs \ {s} : ~ (entered[t] >= entered'[s])
         \/ /\ Completed' = Completed + 1
            /\ Phase(s) = "deliver"
            /\ \A t \in Procs \ {s} : entered[t] >= entered'[s]
            /\ \A t \in Procs : /\ crossed[t] = 3 * Completed + 2 /\ calls[t] = Completed + 1
                                /\ entered'[t] = 3 * Completed + 3
                                /\ t # s => entered[t] = 3 * Completed + 3
<1> DEFINE c == Completed
<1>1. TypeOK' /\ BarriersInStep'
  BY TypeStep, BarrierStep
<1>2. /\ c \in Nat /\ c <= MaxSupersteps /\ MaxSupersteps \in Nat
      /\ \A t \in Procs : /\ entered[t] \in Nat /\ crossed[t] \in Nat /\ calls[t] \in Nat
                          /\ 3 * c <= entered[t] /\ entered[t] <= 3 * c + 3 /\ crossed[t] <= 3 * c + 2
                          /\ crossed[t] = entered[t] \/ entered[t] = crossed[t] + 1
                          /\ entered[t] > 3 * c => calls[t] = c + 1
                          /\ calls[t] <= MaxSupersteps
  BY Positions, CompletedExists, ConstantFacts
<1>3. /\ crossed' = crossed /\ calls' = calls
      /\ \A t \in Procs : entered'[t] = IF t = s THEN entered[s] + 1 ELSE entered[t]
  BY TypesOfState DEF Arrives, Bar!Arrive
<1>4. /\ Phase(s) = "drain" => entered[s] = 3 * c
      /\ Phase(s) = "get" => entered[s] = 3 * c + 1
      /\ Phase(s) = "deliver" => entered[s] = 3 * c + 2
  BY Phases
<1>5. PICK u \in Procs : entered[u] < 3 * (c + 1)
  BY CompletedExists
<1> HIDE DEF c
<1>6. CASE \E t \in Procs : entered'[t] < 3 * (c + 1)
  <2>1. c \in 0 .. MaxSupersteps /\ \A t \in Procs : entered'[t] >= 3 * c
    BY <1>2, <1>3
  <2>2. Completed' = c
    BY <1>1, <1>6, <2>1, CompletedUniqueNext DEF NoOtherIsCompleted
  <2>3. Phase(s) = "deliver" => \E t \in Procs \ {s} : ~ (entered[t] >= entered'[s])
    BY <1>2, <1>3, <1>4, <1>6
  <2> QED BY <2>2, <2>3 DEF c
<1>7. CASE \A t \in Procs : ~ (entered'[t] < 3 * (c + 1))
  <2>1. u = s /\ entered[s] = 3 * c + 2
    BY <1>2, <1>3, <1>5, <1>7
  <2>2. Phase(s) = "deliver"
    BY <1>2, <1>4, <2>1
  <2>3. \A t \in Procs : entered'[t] = 3 * c + 3 /\ (t # s => entered[t] = 3 * c + 3)
    BY <1>2, <1>3, <1>7, <2>1
  <2>4. \A t \in Procs : calls[t] = c + 1 /\ crossed[t] = 3 * c + 2
    <3> SUFFICES ASSUME NEW t \in Procs
                 PROVE  calls[t] = c + 1 /\ crossed[t] = 3 * c + 2
      OBVIOUS
    <3>1. CASE t = s
      <4>1. crossed[s] = entered[s]
        BY <2>2 DEF Phase
      <4> QED BY <1>2, <2>1, <3>1, <4>1
    <3>2. CASE t # s
      BY <1>2, <2>3, <3>2
    <3> QED BY <3>1, <3>2
  <2>5. c + 1 \in 0 .. MaxSupersteps
    BY <1>2, <2>4
  <2>6. (\A t \in Procs : entered'[t] >= 3 * (c + 1)) /\ (\E t \in Procs : entered'[t] < 3 * (c + 1 + 1))
    BY <1>2, <2>3
  <2>7. Completed' = c + 1
    BY <1>1, <2>5, <2>6, CompletedUniqueNext DEF NoOtherIsCompleted
  <2>8. \A t \in Procs \ {s} : entered[t] >= entered'[s]
    BY <1>2, <2>3
  <2> QED BY <2>2, <2>3, <2>4, <2>7, <2>8 DEF c
<1> QED BY <1>6, <1>7

----
(* Requests and their effect. *)
LEMMA RequestFields ==
  ASSUME NEW r \in AbstractMemory!Requests
  PROVE  /\ r.cell \in Cells
         /\ r.kind = "put" => r.to \in Procs /\ r.value \in Values
         /\ r.kind \in {"get", "hpget"} => r.from \in Procs /\ r.source \in Cells
         /\ r.kind = "hpput" => r.to \in Procs /\ r.source \in Cells
         /\ r.kind \in {"put", "get", "hpput", "hpget"}
BY DEF AbstractMemory!Requests, AbstractMemory!Procs, Procs

LEMMA RequestsOfKinds ==
  ASSUME NEW t \in Procs, NEW source \in Cells, NEW c \in Cells, NEW v \in Values
  PROVE  /\ [kind |-> "put", to |-> t, cell |-> c, value |-> v] \in AbstractMemory!Requests
         /\ [kind |-> "get", from |-> t, source |-> source, cell |-> c] \in AbstractMemory!Requests
         /\ [kind |-> "hpput", to |-> t, source |-> source, cell |-> c] \in AbstractMemory!Requests
         /\ [kind |-> "hpget", from |-> t, source |-> source, cell |-> c] \in AbstractMemory!Requests
BY DEF AbstractMemory!Requests, AbstractMemory!Procs, Procs

LEMMA PutIntoMembers ==
  ASSUME NEW t, NEW c, NEW v
  PROVE  v \in AbstractMemory!PutInto(t, c) <=>
           \E s \in Procs : \E r \in issued[s] : r.kind = "put" /\ r.to = t /\ r.cell = c /\ v = r.value
BY DEF AbstractMemory!PutInto, AbstractMemory!Procs, Procs

LEMMA GotIntoMembers ==
  ASSUME NEW t, NEW c, NEW v
  PROVE  v \in AbstractMemory!GotInto(t, c) <=>
           \E r \in issued[t] : r.kind = "get" /\ r.cell = c /\ v = SeenMemory[r.from][r.source]
BY DEF AbstractMemory!GotInto

LEMMA SameInto ==
  ASSUME issued' = issued, SeenMemory' = SeenMemory, NEW t, NEW c
  PROVE  /\ AbstractMemory!PutInto(t, c)' = AbstractMemory!PutInto(t, c)
         /\ AbstractMemory!GotInto(t, c)' = AbstractMemory!GotInto(t, c)
BY DEF AbstractMemory!PutInto, AbstractMemory!GotInto

(* What DeliveryOnItsWay says of one process. *)
OnItsWayTo(t) ==
  \E b \in 0 .. Len(queues[t][t]) :
    OwnQueueInOrder(t, b) /\ \A c \in Cells : CellOnItsWay(t, c, b)

LEMMA DeliveryPerProcess == DeliveryOnItsWay <=> \A t \in Procs : OnItsWayTo(t)
BY DEF DeliveryOnItsWay, OnItsWayTo

LEMMA DeliveryPerProcessNext == DeliveryOnItsWay' <=> \A t \in Procs : OnItsWayTo(t)'
BY DEF DeliveryOnItsWay, OnItsWayTo

(* A step that leaves alone what is sent to a cell, and the cell. *)
LEMMA CellLeftAlone ==
  ASSUME NEW t \in Procs, NEW b, NEW c \in Cells, CellOnItsWay(t, c, b),
         Completed' = Completed, issued' = issued, SeenMemory' = SeenMemory,
         crossed[t] = 3 * Completed + 2 => crossed'[t] = 3 * Completed + 2,
         memory'[t][c] = memory[t][c],
         \A s \in Procs : queues'[s][t] = queues[s][t],
         request_queues'[t] = request_queues[t]
  PROVE  CellOnItsWay(t, c, b)'
<1>1. /\ AbstractMemory!PutInto(t, c)' = AbstractMemory!PutInto(t, c)
      /\ AbstractMemory!GotInto(t, c)' = AbstractMemory!GotInto(t, c)
  BY SameInto
<1>2. \A s \in Procs : \A r : StillQueued(s, t, r, b) => StillQueued(s, t, r, b)'
  BY DEF StillQueued, PutRecord
<1>3. \A r : StillWanted(t, r, b) => StillWanted(t, r, b)'
  BY DEF StillWanted, GetRecord
<1> QED BY <1>1, <1>2, <1>3 DEF CellOnItsWay

LEMMA OwnQueueLeftAlone ==
  ASSUME NEW t \in Procs, NEW b, OwnQueueInOrder(t, b),
         Completed' = Completed, issued' = issued, SeenMemory' = SeenMemory,
         crossed[t] > 3 * Completed => crossed'[t] > 3 * Completed,
         queues'[t][t] = queues[t][t]
  PROVE  OwnQueueInOrder(t, b)'
BY DEF OwnQueueInOrder, PutRecord

LEMMA LeftAlone ==
  ASSUME NEW t \in Procs, OnItsWayTo(t),
         Completed' = Completed, issued' = issued, SeenMemory' = SeenMemory,
         crossed[t] > 3 * Completed => crossed'[t] > 3 * Completed,
         crossed[t] = 3 * Completed + 2 => crossed'[t] = 3 * Completed + 2,
         memory'[t] = memory[t],
         \A s \in Procs : queues'[s][t] = queues[s][t],
         request_queues'[t] = request_queues[t]
  PROVE  OnItsWayTo(t)'
<1>1. PICK b \in 0 .. Len(queues[t][t]) :
        OwnQueueInOrder(t, b) /\ \A c \in Cells : CellOnItsWay(t, c, b)
  BY DEF OnItsWayTo
<1>2. OwnQueueInOrder(t, b)'
  BY <1>1, OwnQueueLeftAlone
<1>3. \A c \in Cells : CellOnItsWay(t, c, b)'
  BY <1>1, CellLeftAlone
<1> QED BY <1>1, <1>2, <1>3 DEF OnItsWayTo

(* Before the first barrier nothing is on its way: what was asked for is
   in the queues, and what is in the queues was asked for. *)
NobodyIsPastFirst == \A t \in Procs : crossed[t] <= 3 * Completed

EverythingIsQueued ==
  /\ \A t \in Procs : \A j \in DOMAIN queues[t][t] : PutRecord(t, queues[t][t][j]) \in issued[t]
  /\ \A s, t \in Procs : \A r \in issued[s] :
       r.kind = "put" /\ r.to = t => \E j \in DOMAIN queues[s][t] : r = PutRecord(t, queues[s][t][j])
  /\ \A t \in Procs : \A r \in issued[t] :
       r.kind = "get" => \/ r.from = t /\ r.source = r.cell
                         \/ \E j \in DOMAIN request_queues[t] : r = GetRecord(request_queues[t][j])

LEMMA QueuedBeforeFirst ==
  ASSUME TypeOK, BarriersInStep, RequestsAreKept, DeliveryOnItsWay, NobodyIsPastFirst
  PROVE  EverythingIsQueued
<1>1. Completed \in Nat /\ \A t \in Procs : crossed[t] \in Nat
  BY CompletedExists, Positions, ConstantFacts
<1>2. \A t \in Procs : ~ (crossed[t] > 3 * Completed) /\ crossed[t] # 3 * Completed + 2
  BY <1>1 DEF NobodyIsPastFirst
<1>3. ASSUME NEW t \in Procs
      PROVE  /\ \A j \in DOMAIN queues[t][t] : PutRecord(t, queues[t][t][j]) \in issued[t]
             /\ \A s \in Procs : \A r \in issued[s] :
                  r.kind = "put" /\ r.to = t => \E j \in DOMAIN queues[s][t] : r = PutRecord(t, queues[s][t][j])
             /\ \A r \in issued[t] :
                  r.kind = "get" => \/ r.from = t /\ r.source = r.cell
                                    \/ \E j \in DOMAIN request_queues[t] : r = GetRecord(request_queues[t][j])
  <2>1. PICK b \in 0 .. Len(queues[t][t]) :
          OwnQueueInOrder(t, b) /\ \A c \in Cells : CellOnItsWay(t, c, b)
    BY DEF DeliveryOnItsWay
  <2>2. queues[t][t] \in Seq(Messages)
    BY TypesOfState
  <2>3. Len(queues[t][t]) \in Nat /\ DOMAIN queues[t][t] = 1 .. Len(queues[t][t])
    BY <2>2, LenProperties
  <2>4. b = Len(queues[t][t])
    BY <1>2, <2>1, <2>3 DEF OwnQueueInOrder
  <2>5. \A j \in DOMAIN queues[t][t] : j <= b
    BY <2>3, <2>4
  <2>6. \A j \in DOMAIN queues[t][t] : ~ (b < j)
    BY <2>3, <2>4
  <2>7. \A j \in DOMAIN queues[t][t] : PutRecord(t, queues[t][t][j]) \in issued[t]
    BY <2>1, <2>5 DEF OwnQueueInOrder
  <2>8. \A s \in Procs : \A r \in issued[s] : r.cell \in Cells
    <3>1. \A s \in Procs : issued[s] \subseteq AbstractMemory!Requests
      BY DEF RequestsAreKept
    <3> QED BY <3>1, RequestFields
  <2>9. ASSUME NEW s \in Procs, NEW r \in issued[s], r.kind = "put", r.to = t
        PROVE  \E j \in DOMAIN queues[s][t] : r = PutRecord(t, queues[s][t][j])
    <3>1. StillQueued(s, t, r, b)
      BY <1>2, <2>1, <2>8, <2>9 DEF CellOnItsWay
    <3> QED BY <3>1 DEF StillQueued
  <2>10. ASSUME NEW r \in issued[t], r.kind = "get"
         PROVE  \/ r.from = t /\ r.source = r.cell
                \/ \E j \in DOMAIN request_queues[t] : r = GetRecord(request_queues[t][j])
    <3>1. StillWanted(t, r, b)
      BY <1>2, <2>1, <2>8, <2>10 DEF CellOnItsWay
    <3> QED BY <2>6, <3>1 DEF StillWanted
  <2> QED BY <2>7, <2>9, <2>10
<1> QED BY <1>3 DEF EverythingIsQueued

LEMMA QueuedIsOnItsWay ==
  TypeOK /\ BarriersInStep /\ EverythingIsQueued /\ NobodyIsPastFirst => DeliveryOnItsWay
<1> SUFFICES ASSUME TypeOK, BarriersInStep, EverythingIsQueued, NobodyIsPastFirst, NEW t \in Procs
             PROVE  OnItsWayTo(t)
  BY DeliveryPerProcess
<1> DEFINE b == Len(queues[t][t])
<1>1. Completed \in Nat /\ \A s \in Procs : crossed[s] \in Nat
  BY CompletedExists, Positions, ConstantFacts
<1>2. queues[t][t] \in Seq(Messages)
  BY TypesOfState
<1>3. b \in Nat /\ DOMAIN queues[t][t] = 1 .. b
  BY <1>2, LenProperties
<1>4. OwnQueueInOrder(t, b)
  BY <1>3 DEF OwnQueueInOrder, EverythingIsQueued
<1>5. SeenMemory = memory
  <2>1. \A s \in Procs : crossed[s] # 3 * Completed + 2
    BY <1>1 DEF NobodyIsPastFirst
  <2> QED BY <2>1 DEF SeenMemory, Delivering
<1>6. \A s \in Procs : \A r \in issued[s] : r.kind = "put" /\ r.to = t => StillQueued(s, t, r, b)
  BY <1>3 DEF EverythingIsQueued, StillQueued
<1>7. \A r \in issued[t] : r.kind = "get" => StillWanted(t, r, b)
  BY DEF EverythingIsQueued, StillWanted
<1>8. \A c \in Cells : CellOnItsWay(t, c, b)
  BY <1>5, <1>6, <1>7 DEF CellOnItsWay
<1>9. b \in 0 .. Len(queues[t][t])
  BY <1>3
<1> QED BY <1>4, <1>8, <1>9 DEF OnItsWayTo

LEMMA QueuedIsOnItsWayNext ==
  TypeOK' /\ BarriersInStep' /\ EverythingIsQueued' /\ NobodyIsPastFirst' => DeliveryOnItsWay'
BY QueuedIsOnItsWay, PTL

----
(* What RequestsAreKept says of one process, in two halves. *)
HpKeptOf(s) ==
  /\ \A j \in DOMAIN hpdrma_queue[s] :
       LET r == hpdrma_queue[s][j]
       IN /\ HpRecord(r) \in issued[s]
          /\ s = IF r.source_is_remote THEN r.destination[1] ELSE r.source[1]
  /\ \A r \in issued[s] : r.kind \in {"hpput", "hpget"} =>
       r \in performed[s] \/ \E j \in DOMAIN hpdrma_queue[s] : r = HpRecord(hpdrma_queue[s][j])
  /\ entered[s] > 3 * Completed => hpdrma_queue[s] = <<>>

GetsKeptOf(s) ==
  /\ \A j \in DOMAIN request_queues[s] : GetRecord(request_queues[s][j]) \in issued[s]
  /\ entered[s] > 3 * Completed + 1 => request_queues[s] = <<>>

HistoryTypes ==
  /\ issued \in [Procs -> SUBSET AbstractMemory!Requests]
  /\ performed \in [Procs -> SUBSET AbstractMemory!Requests]

LEMMA RequestsPerProcess ==
  RequestsAreKept <=> HistoryTypes /\ \A s \in Procs : HpKeptOf(s) /\ GetsKeptOf(s)
BY DEF RequestsAreKept, HistoryTypes, HpKeptOf, GetsKeptOf

LEMMA RequestsPerProcessNext ==
  RequestsAreKept' <=> HistoryTypes' /\ \A s \in Procs : HpKeptOf(s)' /\ GetsKeptOf(s)'
BY DEF RequestsAreKept, HistoryTypes, HpKeptOf, GetsKeptOf

LEMMA HpLeftAlone ==
  ASSUME NEW s \in Procs, HpKeptOf(s), Completed' = Completed,
         issued[s] \subseteq issued'[s],
         \A r \in issued'[s] : r.kind \in {"hpput", "hpget"} => r \in issued[s],
         performed'[s] = performed[s], hpdrma_queue'[s] = hpdrma_queue[s],
         entered'[s] > 3 * Completed => entered[s] > 3 * Completed \/ hpdrma_queue[s] = <<>>
  PROVE  HpKeptOf(s)'
BY DEF HpKeptOf, HpRecord

LEMMA GetsLeftAlone ==
  ASSUME NEW s \in Procs, GetsKeptOf(s), Completed' = Completed,
         issued[s] \subseteq issued'[s], request_queues'[s] = request_queues[s],
         entered'[s] > 3 * Completed + 1 => entered[s] > 3 * Completed + 1 \/ request_queues[s] = <<>>
  PROVE  GetsKeptOf(s)'
BY DEF GetsKeptOf, GetRecord

(* Before the first barrier nothing is delivered and no memory is kept. *)
LEMMA BeforeFirst ==
  ASSUME TypeOK, BarriersInStep, NEW s \in Procs, Phase(s) \in {"compute", "drain"}
  PROVE  NobodyIsPastFirst
BY NobodyIsPast DEF NobodyIsPastFirst

LEMMA NothingDelivered ==
  ASSUME TypeOK, BarriersInStep, KeptMemory, NEW s \in Procs, Phase(s) \in {"compute", "drain"},
         Completed' = Completed, crossed' = crossed, before' = before,
         \A t \in Procs : entered'[t] <= 3 * Completed + 1 /\ entered'[t] \in Nat
  PROVE  QueuesAreEmptied' /\ KeptMemory' /\ NobodyIsPastFirst'
<1>1. NobodyIsPastFirst
  BY BeforeFirst
<1>2. Completed \in Nat /\ \A t \in Procs : crossed[t] \in Nat
  BY CompletedExists, Positions, ConstantFacts
<1>3. \A t \in Procs : crossed'[t] # 3 * Completed' + 2
  BY <1>1, <1>2 DEF NobodyIsPastFirst
<1>4. ~ \E t \in Procs : entered'[t] > 3 * Completed' + 1
  BY <1>2
<1>5. QueuesAreEmptied'
  BY <1>3 DEF QueuesAreEmptied
<1>6. KeptMemory'
  BY <1>4 DEF KeptMemory
<1> QED BY <1>1, <1>5, <1>6 DEF NobodyIsPastFirst

(* The conjuncts of DrmaInv from which the others follow. *)
Kept ==
  /\ TypeOK /\ BarriersInStep
  /\ RequestsAreKept /\ PutsAreKept
  /\ QueuesAreEmptied /\ DeliveryOnItsWay /\ KeptMemory

(* A step before the first barrier that respects the queues. *)
LEMMA KeptBeforeFirst ==
  ASSUME Kept, [Next]_vars, NEW s \in Procs, Phase(s) \in {"compute", "drain"},
         Completed' = Completed, crossed' = crossed, before' = before,
         \A t \in Procs : entered'[t] <= 3 * Completed + 1 /\ entered'[t] \in Nat,
         RequestsAreKept', PutsAreKept', EverythingIsQueued'
  PROVE  Kept'
<1>1. TypeOK' /\ BarriersInStep'
  BY TypeStep, BarrierStep DEF Kept
<1>2. QueuesAreEmptied' /\ KeptMemory' /\ NobodyIsPastFirst'
  BY NothingDelivered DEF Kept
<1>3. DeliveryOnItsWay'
  BY <1>1, <1>2, QueuedIsOnItsWayNext
<1> QED BY <1>1, <1>2, <1>3 DEF Kept

(* In user code: all of this holds before any request is made. *)
LEMMA InUserCode ==
  ASSUME Kept, NEW s \in Procs, Phase(s) \in {"compute", "drain"}
  PROVE  /\ EverythingIsQueued /\ NobodyIsPastFirst
         /\ HistoryTypes /\ (\A t \in Procs : HpKeptOf(t) /\ GetsKeptOf(t)) /\ PutsAreKept
         /\ entered[s] = 3 * Completed /\ Completed \in Nat
         /\ \A t \in Procs : entered[t] <= 3 * Completed + 1 /\ entered[t] \in Nat
<1>1. NobodyIsPastFirst
  BY BeforeFirst DEF Kept
<1>2. EverythingIsQueued
  BY <1>1, QueuedBeforeFirst DEF Kept
<1>3. HistoryTypes /\ (\A t \in Procs : HpKeptOf(t) /\ GetsKeptOf(t)) /\ PutsAreKept
  BY RequestsPerProcess DEF Kept
<1>4. entered[s] = 3 * Completed /\ \A t \in Procs : entered[t] <= 3 * Completed + 1 /\ entered[t] \in Nat
  BY NobodyIsPast, Positions DEF Kept
<1>5. Completed \in Nat
  BY CompletedExists, ConstantFacts DEF Kept
<1> QED BY <1>1, <1>2, <1>3, <1>4, <1>5

----
(* Steps that leave memory, queues and requests alone. *)
LEMMA KeptQuietly ==
  ASSUME Kept, [Next]_vars,
         UNCHANGED <<memory, queues, request_queues, hpdrma_queue, issued, performed>>,
         Completed' = Completed, SeenMemory' = SeenMemory,
         \A t \in Procs :
           /\ crossed[t] > 3 * Completed => crossed'[t] > 3 * Completed
           /\ crossed[t] = 3 * Completed + 2 => crossed'[t] = 3 * Completed + 2
           /\ entered'[t] > 3 * Completed => entered[t] > 3 * Completed \/ hpdrma_queue[t] = <<>>
           /\ entered'[t] > 3 * Completed + 1 => entered[t] > 3 * Completed + 1 \/ request_queues[t] = <<>>,
         QueuesAreEmptied', KeptMemory'
  PROVE  Kept'
<1>1. TypeOK' /\ BarriersInStep'
  BY TypeStep, BarrierStep DEF Kept
<1>2. HistoryTypes /\ (\A t \in Procs : HpKeptOf(t) /\ GetsKeptOf(t))
  BY RequestsPerProcess DEF Kept
<1>3. HistoryTypes'
  BY <1>2 DEF HistoryTypes, AbstractMemory!Requests
<1>4. \A t \in Procs : HpKeptOf(t)'
  BY <1>2, HpLeftAlone
<1>5. \A t \in Procs : GetsKeptOf(t)'
  BY <1>2, GetsLeftAlone
<1>6. RequestsAreKept'
  BY <1>3, <1>4, <1>5, RequestsPerProcessNext
<1>7. PutsAreKept'
  BY DEF Kept, PutsAreKept, PutRecord
<1>8. \A t \in Procs : OnItsWayTo(t)
  BY DeliveryPerProcess DEF Kept
<1>9. \A t \in Procs : OnItsWayTo(t)'
  BY <1>8, LeftAlone
<1>10. DeliveryOnItsWay'
  BY <1>9, DeliveryPerProcessNext
<1> QED BY <1>1, <1>6, <1>7, <1>10 DEF Kept

LEMMA SameDelivering == Completed' = Completed /\ crossed' = crossed => Delivering' = Delivering
BY DEF Delivering

LEMMA KeptStutter ==
  ASSUME Kept, [Next]_vars, UNCHANGED <<memory, queues, request_queues, hpdrma_queue, k, entered, crossed, issued, performed, before>>
  PROVE  Kept'
<1>1. Completed' = Completed
  BY SameCompleted
<1>2. SeenMemory' = SeenMemory /\ Delivering' = Delivering
  BY <1>1, SameDelivering DEF SeenMemory
<1>3. QueuesAreEmptied'
  BY <1>1 DEF Kept, QueuesAreEmptied
<1>4. KeptMemory'
  BY <1>1, <1>2 DEF Kept, KeptMemory
<1> QED BY <1>1, <1>2, <1>3, <1>4, KeptQuietly

LEMMA KeptNextQueue ==
  ASSUME Kept, [Next]_vars, NEW s \in Procs, NextQueue(s)
  PROVE  Kept'
<1>1. /\ UNCHANGED <<memory, queues, request_queues, hpdrma_queue, entered, crossed, issued, performed, before>>
      /\ k' = [k EXCEPT ![s] = @ + 1]
      /\ queues[(k[s] + s) % P][s] = <<>>
      /\ Phase(s) = "deliver"
  BY DEF NextQueue, queueVars, history
<1>2. Completed' = Completed
  BY <1>1, SameCompleted
<1>3. SeenMemory' = SeenMemory /\ Delivering' = Delivering
  BY <1>1, <1>2, SameDelivering DEF SeenMemory
<1>4. QueuesAreEmptied'
  <2> SUFFICES ASSUME NEW t \in Procs, crossed[t] = 3 * Completed + 2
               PROVE  /\ \A j \in 0 .. P-1 : j < k'[t] => queues[(j + t) % P][t] = <<>>
                      /\ entered[t] = 3 * Completed + 3 => k'[t] = P
    BY <1>1, <1>2 DEF QueuesAreEmptied
  <2>1. /\ \A j \in 0 .. P-1 : j < k[t] => queues[(j + t) % P][t] = <<>>
        /\ entered[t] = 3 * Completed + 3 => k[t] = P
    BY DEF Kept, QueuesAreEmptied
  <2>2. k \in [Procs -> 0 .. P] /\ P \in Nat
    BY TypesOfState, ConstantFacts DEF Kept
  <2>3. CASE t # s
    <3>1. k'[t] = k[t]
      BY <1>1, <2>2, <2>3
    <3> QED BY <2>1, <3>1
  <2>4. CASE t = s
    <3>1. k'[t] = k[t] + 1 /\ k[t] \in Nat
      BY <1>1, <2>2, <2>4
    <3>2. entered[t] = 3 * Completed + 2 /\ Completed \in Nat
      BY <1>1, <2>4, Phases, CompletedExists, ConstantFacts DEF Kept
    <3>3. ASSUME NEW j \in 0 .. P-1, j < k[t] + 1
          PROVE  queues[(j + t) % P][t] = <<>>
      <4>1. j < k[t] \/ j = k[t]
        BY <2>2, <3>1, <3>3
      <4> QED BY <1>1, <2>1, <2>4, <4>1
    <3> QED BY <3>1, <3>2, <3>3
  <2> QED BY <2>3, <2>4
<1>5. KeptMemory'
  BY <1>1, <1>2, <1>3 DEF Kept, KeptMemory
<1> QED BY <1>1, <1>2, <1>3, <1>4, <1>5, KeptQuietly

LEMMA KeptCross ==
  ASSUME Kept, [Next]_vars, NEW s \in Procs, Cross(s)
  PROVE  Kept'
<1>1. /\ UNCHANGED <<memory, queues, request_queues, hpdrma_queue, entered, issued, performed, before>>
      /\ k' = [k EXCEPT ![s] = 0] /\ crossed' = [crossed EXCEPT ![s] = @ + 1]
      /\ crossed[s] # entered[s] /\ \A t \in Procs : entered[t] >= entered[s]
  BY DEF Cross, Bar!Cross, Bar!Procs, Procs, queueVars, history
<1>2. Completed' = Completed
  BY <1>1, SameCompleted
<1>3. /\ Completed \in Nat
      /\ \A t \in Procs : /\ entered[t] \in Nat /\ crossed[t] \in Nat /\ crossed[t] <= 3 * Completed + 2
                          /\ crossed[t] = entered[t] \/ entered[t] = crossed[t] + 1
  BY Positions, CompletedExists, ConstantFacts DEF Kept
<1>4. crossed[s] # 3 * Completed + 2
  <2>1. PICK u \in Procs : entered[u] < 3 * (Completed + 1)
    BY CompletedExists DEF Kept
  <2> QED BY <1>1, <1>3, <2>1
<1>5. \A t \in Procs : crossed'[t] = IF t = s THEN crossed[s] + 1 ELSE crossed[t]
  BY <1>1, TypesOfState DEF Kept
<1>6. Delivering => Delivering'
  BY <1>2, <1>4, <1>5 DEF Delivering
<1>7. CASE crossed'[s] = 3 * Completed + 2
  <2>1. entered[s] = 3 * Completed + 2
    BY <1>1, <1>3, <1>5, <1>7
  <2>2. Delivering'
    BY <1>2, <1>7 DEF Delivering
  <2>3. ~ Delivering => before = memory
    <3>1. entered[s] > 3 * Completed + 1
      BY <1>3, <2>1
    <3> QED BY <3>1 DEF Kept, KeptMemory
  <2>4. SeenMemory' = SeenMemory
    BY <1>1, <2>2, <2>3 DEF SeenMemory
  <2>5. KeptMemory'
    BY <1>1, <2>2 DEF Kept, KeptMemory
  <2>6. QueuesAreEmptied'
    <3> SUFFICES ASSUME NEW t \in Procs, crossed'[t] = 3 * Completed + 2
                 PROVE  /\ \A j \in 0 .. P-1 : j < k'[t] => queues[(j + t) % P][t] = <<>>
                        /\ entered[t] = 3 * Completed + 3 => k'[t] = P
      BY <1>1, <1>2 DEF QueuesAreEmptied
    <3>1. CASE t = s
      <4>1. k'[t] = 0
        BY <1>1, <3>1, TypesOfState DEF Kept
      <4>2. \A j \in 0 .. P-1 : ~ (j < 0)
        BY ConstantFacts
      <4> QED BY <1>3, <2>1, <3>1, <4>1, <4>2
    <3>2. CASE t # s
      <4>1. k'[t] = k[t] /\ crossed[t] = 3 * Completed + 2
        BY <1>1, <1>5, <3>2, TypesOfState DEF Kept
      <4> QED BY <4>1 DEF Kept, QueuesAreEmptied
    <3> QED BY <3>1, <3>2
  <2>7. \A t \in Procs : /\ crossed[t] > 3 * Completed => crossed'[t] > 3 * Completed
                         /\ crossed[t] = 3 * Completed + 2 => crossed'[t] = 3 * Completed + 2
    BY <1>3, <1>4, <1>5
  <2> QED BY <1>1, <1>2, <2>4, <2>5, <2>6, <2>7, KeptQuietly
<1>8. CASE crossed'[s] # 3 * Completed + 2
  <2>1. Delivering' = Delivering
    BY <1>2, <1>4, <1>5, <1>8 DEF Delivering
  <2>2. SeenMemory' = SeenMemory
    BY <1>1, <2>1 DEF SeenMemory
  <2>3. KeptMemory'
    BY <1>1, <1>2, <2>1 DEF Kept, KeptMemory
  <2>4. QueuesAreEmptied'
    <3> SUFFICES ASSUME NEW t \in Procs, crossed'[t] = 3 * Completed + 2
                 PROVE  /\ \A j \in 0 .. P-1 : j < k'[t] => queues[(j + t) % P][t] = <<>>
                        /\ entered[t] = 3 * Completed + 3 => k'[t] = P
      BY <1>1, <1>2 DEF QueuesAreEmptied
    <3>1. k'[t] = k[t] /\ crossed[t] = 3 * Completed + 2
      BY <1>1, <1>5, <1>8, TypesOfState DEF Kept
    <3> QED BY <3>1 DEF Kept, QueuesAreEmptied
  <2>5. \A t \in Procs : /\ crossed[t] > 3 * Completed => crossed'[t] > 3 * Completed
                         /\ crossed[t] = 3 * Completed + 2 => crossed'[t] = 3 * Completed + 2
    BY <1>3, <1>4, <1>5
  <2> QED BY <1>1, <1>2, <2>2, <2>3, <2>4, <2>5, KeptQuietly
<1> QED BY <1>7, <1>8

LEMMA KeptArriveStart ==
  ASSUME Kept, [Next]_vars, NEW s \in Procs, ArriveStart(s)
  PROVE  Kept'
<1>1. /\ UNCHANGED <<memory, queues, request_queues, hpdrma_queue, k, crossed, issued, performed, before>>
      /\ Phase(s) = "drain" /\ hpdrma_queue[s] = <<>> /\ Arrives(s)
  BY DEF ArriveStart, Arrives, Bar!Arrive, queueVars, history
<1>2. Completed' = Completed
  BY <1>1, Arrivals DEF Kept
<1>3. SeenMemory' = SeenMemory
  BY <1>1, <1>2, SameDelivering DEF SeenMemory
<1>4. entered[s] = 3 * Completed /\ Completed \in Nat /\ \A t \in Procs : entered[t] <= 3 * Completed + 1 /\ entered[t] \in Nat
  BY <1>1, InUserCode
<1>5. \A t \in Procs : entered'[t] = IF t = s THEN 3 * Completed + 1 ELSE entered[t]
  BY <1>1, <1>4, TypesOfState DEF Arrives, Bar!Arrive, Kept
<1>6. \A t \in Procs : entered'[t] <= 3 * Completed + 1 /\ entered'[t] \in Nat
  BY <1>4, <1>5
<1>7. QueuesAreEmptied' /\ KeptMemory'
  BY <1>1, <1>2, <1>6, NothingDelivered DEF Kept
<1>8. \A t \in Procs :
        /\ entered'[t] > 3 * Completed => entered[t] > 3 * Completed \/ hpdrma_queue[t] = <<>>
        /\ ~ (entered'[t] > 3 * Completed + 1)
  BY <1>1, <1>4, <1>5, <1>6
<1> QED BY <1>1, <1>2, <1>3, <1>7, <1>8, KeptQuietly

LEMMA KeptArriveMid ==
  ASSUME Kept, [Next]_vars, NEW s \in Procs, ArriveMid(s)
  PROVE  Kept'
<1>1. /\ UNCHANGED <<memory, queues, request_queues, hpdrma_queue, k, crossed, issued, performed>>
      /\ Phase(s) = "get" /\ request_queues[s] = <<>> /\ Arrives(s) /\ before' = memory
  BY DEF ArriveMid, Arrives, Bar!Arrive, queueVars
<1>2. Completed' = Completed
  BY <1>1, Arrivals DEF Kept
<1>3. ~ Delivering /\ ~ Delivering'
  BY <1>1, <1>2, OthersWaitDuringGets, SameDelivering DEF Kept
<1>4. SeenMemory' = SeenMemory
  BY <1>1, <1>3 DEF SeenMemory
<1>5. entered[s] = 3 * Completed + 1 /\ Completed \in Nat
  BY <1>1, Phases, CompletedExists, ConstantFacts DEF Kept
<1>6. \A t \in Procs : entered'[t] = IF t = s THEN 3 * Completed + 2 ELSE entered[t]
  BY <1>1, <1>5, TypesOfState DEF Arrives, Bar!Arrive, Kept
<1>7. QueuesAreEmptied'
  BY <1>1, <1>2, <1>3 DEF QueuesAreEmptied, Delivering
<1>8. KeptMemory'
  BY <1>1, TypesOfState DEF Kept, KeptMemory
<1>9. \A t \in Procs :
        /\ entered'[t] > 3 * Completed => entered[t] > 3 * Completed
        /\ entered'[t] > 3 * Completed + 1 => entered[t] > 3 * Completed + 1 \/ request_queues[t] = <<>>
  BY <1>1, <1>5, <1>6
<1> QED BY <1>1, <1>2, <1>4, <1>7, <1>8, <1>9, KeptQuietly

(* The first arrivals at the last barrier. *)
LEMMA KeptArriveEnd ==
  ASSUME Kept, [Next]_vars, NEW s \in Procs, ArriveEnd(s), Completed' = Completed,
         \E t \in Procs \ {s} : ~ (entered[t] >= entered'[s])
  PROVE  Kept'
<1>1. /\ UNCHANGED <<memory, queues, request_queues, hpdrma_queue, k, crossed, issued, performed, before>>
      /\ Phase(s) = "deliver" /\ k[s] = P /\ Arrives(s)
  BY DEF ArriveEnd, Arrives, Bar!Arrive, queueVars
<1>2. SeenMemory' = SeenMemory
  BY <1>1, SameDelivering DEF SeenMemory
<1>3. /\ entered[s] = 3 * Completed + 2 /\ crossed[s] = 3 * Completed + 2 /\ Completed \in Nat
      /\ \A t \in Procs : entered[t] \in Nat
  BY <1>1, Phases, Positions, CompletedExists, ConstantFacts DEF Kept
<1>4. \A t \in Procs : entered'[t] = IF t = s THEN 3 * Completed + 3 ELSE entered[t]
  BY <1>1, <1>3, TypesOfState DEF Arrives, Bar!Arrive, Kept
<1>5. QueuesAreEmptied'
  <2>1. ASSUME NEW t \in Procs, crossed[t] = 3 * Completed + 2
        PROVE  /\ \A j \in 0 .. P-1 : j < k[t] => queues[(j + t) % P][t] = <<>>
               /\ entered'[t] = 3 * Completed + 3 => k[t] = P
    BY <1>1, <1>4, <2>1 DEF Kept, QueuesAreEmptied
  <2> QED BY <1>1, <2>1 DEF QueuesAreEmptied
<1>6. Delivering'
  BY <1>1, <1>3 DEF Delivering
<1>7. KeptMemory'
  BY <1>1, <1>6 DEF Kept, KeptMemory
<1>8. \A t \in Procs :
        /\ entered'[t] > 3 * Completed => entered[t] > 3 * Completed
        /\ entered'[t] > 3 * Completed + 1 => entered[t] > 3 * Completed + 1
  BY <1>3, <1>4
<1> QED BY <1>1, <1>2, <1>5, <1>7, <1>8, KeptQuietly

LEMMA KeptCall ==
  ASSUME Kept, [Next]_vars, NEW s \in Procs, Call(s)
  PROVE  Kept'
BY KeptStutter DEF Call, queueVars, history

(* The loop over the senders visits every one of them, oneself first. *)
LEMMA Senders ==
  ASSUME NEW s \in Procs
  PROVE  /\ (0 + s) % P = s
         /\ \A j \in 0 .. P-1 : (j + s) % P \in Procs /\ ((j + s) % P = s => j = 0)
         /\ \A u \in Procs : \E j \in 0 .. P-1 : (j + s) % P = u
<1>1. P \in Nat /\ P > 0 /\ s \in Nat /\ s < P
  BY ConstantFacts
<1>2. \A x \in Nat : x < P => x % P = x
  BY <1>1
<1>3. \A x \in Nat : x < P => (x + P) % P = x
  BY <1>1
<1>4. (0 + s) % P = s
  BY <1>1, <1>2
<1>5. ASSUME NEW j \in 0 .. P-1
      PROVE  (j + s) % P \in Procs /\ ((j + s) % P = s => j = 0)
  <2>1. CASE j + s < P
    <3>1. (j + s) % P = j + s
      BY <1>1, <1>2, <2>1
    <3> QED BY <1>1, <2>1, <3>1, ConstantFacts
  <2>2. CASE ~ (j + s < P)
    <3> DEFINE x == j + s - P
    <3>1. x \in Nat /\ x < P /\ x + P = j + s
      BY <1>1, <2>2
    <3>2. (x + P) % P = x
      BY <1>3, <3>1
    <3> HIDE DEF x
    <3>3. (j + s) % P = x
      BY <3>1, <3>2
    <3>4. x # s
      BY <1>1 DEF x
    <3> QED BY <3>1, <3>3, <3>4, ConstantFacts
  <2> QED BY <2>1, <2>2
<1>6. ASSUME NEW u \in Procs
      PROVE  \E j \in 0 .. P-1 : (j + s) % P = u
  <2>1. u \in Nat /\ u < P
    BY ConstantFacts
  <2>2. CASE s <= u
    <3>1. u - s \in 0 .. P-1 /\ (u - s) + s = u
      BY <1>1, <2>1, <2>2
    <3>2. ((u - s) + s) % P = u
      BY <1>2, <2>1, <3>1
    <3> QED BY <3>1, <3>2
  <2>3. CASE ~ (s <= u)
    <3>1. u - s + P \in 0 .. P-1 /\ (u - s + P) + s = u + P
      BY <1>1, <2>1, <2>3
    <3>2. ((u - s + P) + s) % P = u
      BY <1>3, <2>1, <3>1
    <3> QED BY <3>1, <3>2
  <2> QED BY <2>2, <2>3
<1> QED BY <1>4, <1>5, <1>6

(* When the last process arrives at the last barrier, everything has been
   delivered. *)
LEMMA AllDelivered ==
  ASSUME Kept, [Next]_vars, NEW s \in Procs, ArriveEnd(s),
         \A t \in Procs : /\ crossed[t] = 3 * Completed + 2
                          /\ t # s => entered[t] = 3 * Completed + 3
  PROVE  \A t, u \in Procs : queues[u][t] = <<>>
<1> SUFFICES ASSUME NEW t \in Procs, NEW u \in Procs
             PROVE  queues[u][t] = <<>>
  OBVIOUS
<1>1. k[t] = P
  <2>1. k[s] = P
    BY DEF ArriveEnd
  <2>2. t # s => k[t] = P
    BY DEF Kept, QueuesAreEmptied
  <2> QED BY <2>1, <2>2
<1>2. PICK j \in 0 .. P-1 : (j + t) % P = u
  BY Senders
<1>3. j < k[t]
  BY <1>1, <1>2, ConstantFacts
<1> QED BY <1>2, <1>3 DEF Kept, QueuesAreEmptied

LEMMA KeptLastArrival ==
  ASSUME Kept, [Next]_vars, NEW s \in Procs, ArriveEnd(s), Completed' = Completed + 1,
         \A t \in Procs \ {s} : entered[t] >= entered'[s],
         \A t \in Procs : /\ crossed[t] = 3 * Completed + 2
                          /\ entered'[t] = 3 * Completed + 3
                          /\ t # s => entered[t] = 3 * Completed + 3
  PROVE  Kept'
<1>1. /\ UNCHANGED <<memory, queues, request_queues, hpdrma_queue, k, crossed, before>>
      /\ issued' = [t \in Procs |-> {}] /\ performed' = [t \in Procs |-> {}]
      /\ Phase(s) = "deliver"
  BY DEF ArriveEnd, Bar!Arrive, queueVars
<1>2. TypeOK' /\ BarriersInStep'
  BY TypeStep, BarrierStep DEF Kept
<1>3. \A t, u \in Procs : queues[u][t] = <<>>
  BY AllDelivered
<1>4. Completed \in Nat
  BY CompletedExists, ConstantFacts DEF Kept
<1>5. /\ entered[s] = 3 * Completed + 2
      /\ \A t \in Procs : entered[t] > 3 * Completed + 1
  BY <1>1, <1>4, Phases DEF Kept
<1>6. \A t \in Procs : hpdrma_queue[t] = <<>> /\ request_queues[t] = <<>>
  <2> SUFFICES ASSUME NEW t \in Procs
               PROVE  hpdrma_queue[t] = <<>> /\ request_queues[t] = <<>>
    OBVIOUS
  <2>1. entered[t] \in Nat
    BY TypesOfState DEF Kept
  <2>2. entered[t] > 3 * Completed + 1 /\ entered[t] > 3 * Completed
    BY <1>4, <1>5, <2>1
  <2> QED BY <2>2 DEF Kept, RequestsAreKept
<1>7. DOMAIN <<>> = {}
  OBVIOUS
<1>8. \A t \in Procs : ~ (entered'[t] > 3 * Completed') /\ ~ (entered'[t] > 3 * Completed' + 1)
  BY <1>4
<1>9. RequestsAreKept'
  <2>1. HistoryTypes'
    BY <1>1 DEF HistoryTypes
  <2>2. \A t \in Procs : HpKeptOf(t)' /\ GetsKeptOf(t)'
    BY <1>1, <1>6, <1>7, <1>8 DEF HpKeptOf, GetsKeptOf
  <2> QED BY <2>1, <2>2, RequestsPerProcessNext
<1>10. PutsAreKept'
  BY <1>1, <1>3, <1>7 DEF PutsAreKept
<1>11. \A t \in Procs : crossed'[t] # 3 * Completed' + 2 /\ crossed'[t] <= 3 * Completed'
  BY <1>1, <1>4
<1>12. QueuesAreEmptied'
  BY <1>11 DEF QueuesAreEmptied
<1>13. EverythingIsQueued'
  BY <1>1, <1>3, <1>7 DEF EverythingIsQueued
<1>14. NobodyIsPastFirst'
  BY <1>11 DEF NobodyIsPastFirst
<1>15. DeliveryOnItsWay'
  BY <1>2, <1>13, <1>14, QueuedIsOnItsWayNext
<1>16. KeptMemory'
  BY <1>1, <1>8 DEF Kept, KeptMemory
<1> QED BY <1>2, <1>9, <1>10, <1>12, <1>15, <1>16 DEF Kept

----
(* User code. *)
LEMMA KeptWrite ==
  ASSUME Kept, [Next]_vars, NEW s \in Procs, Phase(s) = "compute",
         UNCHANGED <<queues, request_queues, hpdrma_queue, entered, crossed, issued, performed, before>>
  PROVE  Kept'
<1>1. Completed' = Completed
  BY SameCompleted
<1>2. /\ EverythingIsQueued /\ HistoryTypes /\ PutsAreKept
      /\ \A t \in Procs : HpKeptOf(t) /\ GetsKeptOf(t)
      /\ \A t \in Procs : entered[t] <= 3 * Completed + 1 /\ entered[t] \in Nat
  BY InUserCode
<1>3. HistoryTypes' /\ \A t \in Procs : HpKeptOf(t)' /\ GetsKeptOf(t)'
  <2>1. HistoryTypes'
    BY <1>2 DEF HistoryTypes, AbstractMemory!Requests
  <2> QED BY <1>1, <1>2, <2>1, HpLeftAlone, GetsLeftAlone
<1>4. PutsAreKept'
  BY <1>2 DEF PutsAreKept, PutRecord
<1>5. EverythingIsQueued'
  BY <1>2 DEF EverythingIsQueued, PutRecord, GetRecord
<1>6. RequestsAreKept'
  BY <1>3, RequestsPerProcessNext
<1> QED BY <1>1, <1>2, <1>4, <1>5, <1>6, KeptBeforeFirst

(* A request is recorded; every other request stays recorded. *)
LEMMA RecordsEffect ==
  ASSUME HistoryTypes, NEW s \in Procs, NEW r \in AbstractMemory!Requests, Records(s, r), performed' = performed
  PROVE  /\ HistoryTypes'
         /\ issued'[s] = issued[s] \cup {r}
         /\ \A t \in Procs : t # s => issued'[t] = issued[t]
         /\ \A t \in Procs : issued[t] \subseteq issued'[t]
<1>1. issued \in [Procs -> SUBSET AbstractMemory!Requests] /\ performed \in [Procs -> SUBSET AbstractMemory!Requests]
  BY DEF HistoryTypes
<1>2. issued' = [issued EXCEPT ![s] = issued[s] \cup {r}]
  BY DEF Records
<1>3. issued' \in [Procs -> SUBSET AbstractMemory!Requests]
  BY <1>1, <1>2
<1>4. HistoryTypes'
  BY <1>1, <1>3 DEF HistoryTypes, AbstractMemory!Requests
<1> QED BY <1>1, <1>2, <1>4

LEMMA KeptPut ==
  ASSUME Kept, [Next]_vars, NEW s \in Procs, NEW t \in Procs, NEW source \in Cells, NEW c \in Cells,
         Put(s, t, source, c)
  PROVE  Kept'
<1> DEFINE m == [cell |-> c, value |-> memory[s][source]]
           r == [kind |-> "put", to |-> t, cell |-> c, value |-> memory[s][source]]
<1>1. /\ queues' = [queues EXCEPT ![s][t] = Append(queues[s][t], m)]
      /\ Records(s, r)
      /\ UNCHANGED <<request_queues, hpdrma_queue, entered, crossed, performed, before>>
      /\ Phase(s) = "compute"
  BY DEF Put, Uses
<1>2. Completed' = Completed
  BY <1>1, SameCompleted
<1>3. /\ EverythingIsQueued /\ HistoryTypes /\ PutsAreKept
      /\ \A u \in Procs : HpKeptOf(u) /\ GetsKeptOf(u)
      /\ \A u \in Procs : entered[u] <= 3 * Completed + 1 /\ entered[u] \in Nat
  BY <1>1, InUserCode
<1>4. memory[s][source] \in Values /\ m \in Messages /\ queues \in [Procs -> [Procs -> Seq(Messages)]]
  BY TypesOfState, RequestsOfUserCode DEF Kept
<1>5. r \in AbstractMemory!Requests
  BY <1>4, RequestsOfKinds
<1>6. r = PutRecord(t, m) /\ r.kind = "put" /\ r.to = t
  BY DEF PutRecord
<1> HIDE DEF m, r
<1>7. /\ HistoryTypes'
      /\ issued'[s] = issued[s] \cup {r}
      /\ \A u \in Procs : u # s => issued'[u] = issued[u]
      /\ \A u \in Procs : issued[u] \subseteq issued'[u]
  BY <1>1, <1>3, <1>5, RecordsEffect
<1>8. \A u, w \in Procs : queues'[u][w] = IF u = s /\ w = t THEN Append(queues[s][t], m) ELSE queues[u][w]
  <2>1. queues[s][t] \in Seq(Messages)
    BY <1>4
  <2>2. Append(queues[s][t], m) \in Seq(Messages)
    BY <1>4, <2>1, PushOnStack
  <2> QED BY <1>1, <1>4, <2>2, UpdateOfQueue
<1>9. LET q == queues[s][t] IN
      /\ DOMAIN q = 1 .. Len(q) /\ Len(q) \in Nat
      /\ DOMAIN Append(q, m) = 1 .. Len(q) + 1
      /\ \A j \in 1 .. Len(q) : Append(q, m)[j] = q[j]
      /\ Append(q, m)[Len(q) + 1] = m
  <2>1. queues[s][t] \in Seq(Messages)
    BY <1>4
  <2> QED BY <1>4, <2>1, PushOnStack, LenProperties
<1>10. \A j \in DOMAIN Append(queues[s][t], m) :
         \/ j \in DOMAIN queues[s][t] /\ Append(queues[s][t], m)[j] = queues[s][t][j]
         \/ Append(queues[s][t], m)[j] = m
  BY <1>9
<1>11. /\ \A j \in DOMAIN queues[s][t] : j \in DOMAIN Append(queues[s][t], m) /\ Append(queues[s][t], m)[j] = queues[s][t][j]
       /\ \E j \in DOMAIN Append(queues[s][t], m) : Append(queues[s][t], m)[j] = m
  BY <1>9
<1>12. \A u, w \in Procs : \A j \in DOMAIN queues'[u][w] :
         \/ j \in DOMAIN queues[u][w] /\ queues'[u][w][j] = queues[u][w][j]
         \/ u = s /\ w = t /\ queues'[u][w][j] = m
  BY <1>8, <1>10
<1>13. \A u, w \in Procs : \A j \in DOMAIN queues[u][w] :
         j \in DOMAIN queues'[u][w] /\ queues'[u][w][j] = queues[u][w][j]
  BY <1>8, <1>11
<1>14. \E j \in DOMAIN queues'[s][t] : queues'[s][t][j] = m
  BY <1>8, <1>11
<1>15. PutsAreKept'
  BY <1>3, <1>6, <1>7, <1>12 DEF PutsAreKept, PutRecord
<1>16. EverythingIsQueued'
  <2>1. ASSUME NEW u \in Procs, NEW j \in DOMAIN queues'[u][u]
        PROVE  PutRecord(u, queues'[u][u][j]) \in issued'[u]
    <3>1. CASE j \in DOMAIN queues[u][u] /\ queues'[u][u][j] = queues[u][u][j]
      <4>1. PutRecord(u, queues[u][u][j]) \in issued[u]
        BY <1>3, <3>1 DEF EverythingIsQueued
      <4> QED BY <1>7, <3>1, <4>1
    <3>2. CASE u = s /\ u = t /\ queues'[u][u][j] = m
      BY <1>6, <1>7, <3>2
    <3> QED BY <1>12, <3>1, <3>2
  <2>2. ASSUME NEW u \in Procs, NEW w \in Procs, NEW x \in issued'[u], x.kind = "put", x.to = w
        PROVE  \E j \in DOMAIN queues'[u][w] : x = PutRecord(w, queues'[u][w][j])
    <3>1. CASE x \in issued[u]
      <4>1. PICK j \in DOMAIN queues[u][w] : x = PutRecord(w, queues[u][w][j])
        BY <1>3, <2>2, <3>1 DEF EverythingIsQueued
      <4> QED BY <1>13, <4>1
    <3>2. CASE x \notin issued[u]
      <4>1. u = s /\ x = r
        BY <1>7, <2>2, <3>2
      <4> QED BY <1>6, <1>14, <2>2, <4>1
    <3> QED BY <3>1, <3>2
  <2>3. ASSUME NEW u \in Procs, NEW x \in issued'[u], x.kind = "get"
        PROVE  \/ x.from = u /\ x.source = x.cell
               \/ \E j \in DOMAIN request_queues'[u] : x = GetRecord(request_queues'[u][j])
    <3>1. x \in issued[u]
      BY <1>6, <1>7, <2>3
    <3> QED BY <1>1, <1>3, <2>3, <3>1 DEF EverythingIsQueued
  <2> QED BY <2>1, <2>2, <2>3 DEF EverythingIsQueued, PutRecord, GetRecord
<1>17. \A u \in Procs : HpKeptOf(u)' /\ GetsKeptOf(u)'
  <2> SUFFICES ASSUME NEW u \in Procs
               PROVE  HpKeptOf(u)' /\ GetsKeptOf(u)'
    OBVIOUS
  <2>1. GetsKeptOf(u)'
    BY <1>1, <1>2, <1>3, <1>7, GetsLeftAlone
  <2>2. \A x \in issued'[u] : x.kind \in {"hpput", "hpget"} => x \in issued[u]
    BY <1>6, <1>7
  <2>3. HpKeptOf(u)'
    BY <1>1, <1>2, <1>3, <1>7, <2>2, HpLeftAlone
  <2> QED BY <2>1, <2>3
<1>18. RequestsAreKept'
  BY <1>7, <1>17, RequestsPerProcessNext
<1> QED BY <1>1, <1>2, <1>3, <1>15, <1>16, <1>18, KeptBeforeFirst

LEMMA KeptGet ==
  ASSUME Kept, [Next]_vars, NEW s \in Procs, NEW t \in Procs, NEW source \in Cells, NEW c \in Cells,
         Get(s, t, source, c)
  PROVE  Kept'
<1> DEFINE e == [from |-> t, source |-> source, cell |-> c]
           r == [kind |-> "get", from |-> t, source |-> source, cell |-> c]
           q == request_queues[s]
<1>1. /\ request_queues' = [request_queues EXCEPT ![s] = Append(q, e)]
      /\ Records(s, r)
      /\ UNCHANGED <<queues, hpdrma_queue, entered, crossed, performed, before>>
      /\ Phase(s) = "compute"
  BY DEF Get, Uses
<1>2. Completed' = Completed
  BY <1>1, SameCompleted
<1>3. /\ EverythingIsQueued /\ HistoryTypes /\ PutsAreKept
      /\ \A u \in Procs : HpKeptOf(u) /\ GetsKeptOf(u)
      /\ entered[s] = 3 * Completed /\ Completed \in Nat
      /\ \A u \in Procs : entered[u] <= 3 * Completed + 1 /\ entered[u] \in Nat
  BY <1>1, InUserCode
<1>4. r \in AbstractMemory!Requests
  BY DEF AbstractMemory!Requests, AbstractMemory!Procs, Procs
<1>5. r = GetRecord(e) /\ r.kind = "get"
  BY DEF GetRecord
<1>6. e \in GetEntries /\ request_queues \in [Procs -> Seq(GetEntries)]
  BY TypesOfState DEF Kept, GetEntries
<1> HIDE DEF e, r
<1>7. /\ HistoryTypes'
      /\ issued'[s] = issued[s] \cup {r}
      /\ \A u \in Procs : u # s => issued'[u] = issued[u]
      /\ \A u \in Procs : issued[u] \subseteq issued'[u]
  BY <1>1, <1>3, <1>4, RecordsEffect
<1>8. q \in Seq(GetEntries)
  BY <1>6
<1>9. /\ DOMAIN q = 1 .. Len(q) /\ Len(q) \in Nat
      /\ DOMAIN Append(q, e) = 1 .. Len(q) + 1
      /\ \A j \in 1 .. Len(q) : Append(q, e)[j] = q[j]
      /\ Append(q, e)[Len(q) + 1] = e
  BY <1>6, <1>8, PushOnStack, LenProperties
<1>10. request_queues'[s] = Append(q, e) /\ \A u \in Procs : u # s => request_queues'[u] = request_queues[u]
  BY <1>1, <1>6
<1> HIDE DEF q
<1>11. /\ \A j \in DOMAIN Append(q, e) : (j \in DOMAIN q /\ Append(q, e)[j] = q[j]) \/ Append(q, e)[j] = e
       /\ \A j \in DOMAIN q : j \in DOMAIN Append(q, e) /\ Append(q, e)[j] = q[j]
       /\ \E j \in DOMAIN Append(q, e) : Append(q, e)[j] = e
  BY <1>9
<1>12. \A u \in Procs : HpKeptOf(u)' /\ GetsKeptOf(u)'
  <2> SUFFICES ASSUME NEW u \in Procs
               PROVE  HpKeptOf(u)' /\ GetsKeptOf(u)'
    OBVIOUS
  <2>1. CASE u # s
    BY <1>1, <1>2, <1>3, <1>7, <1>10, <2>1, HpLeftAlone, GetsLeftAlone
  <2>2. CASE u = s
    <3>1. \A x \in issued'[s] : x.kind \in {"hpput", "hpget"} => x \in issued[s]
      BY <1>5, <1>7
    <3>2. HpKeptOf(s)'
      BY <1>1, <1>2, <1>3, <1>7, <3>1, HpLeftAlone
    <3>3. \A j \in DOMAIN Append(q, e) : GetRecord(Append(q, e)[j]) \in issued'[s]
      BY <1>3, <1>5, <1>7, <1>11 DEF GetsKeptOf, q
    <3>4. ~ (entered[s] > 3 * Completed + 1)
      BY <1>3
    <3>5. GetsKeptOf(s)'
      BY <1>1, <1>2, <1>10, <3>3, <3>4 DEF GetsKeptOf, GetRecord
    <3> QED BY <2>2, <3>2, <3>5
  <2> QED BY <2>1, <2>2
<1>13. RequestsAreKept'
  BY <1>7, <1>12, RequestsPerProcessNext
<1>14. PutsAreKept'
  BY <1>1, <1>3, <1>7 DEF PutsAreKept, PutRecord
<1>15. EverythingIsQueued'
  <2>1. \A u \in Procs : \A j \in DOMAIN queues'[u][u] : PutRecord(u, queues'[u][u][j]) \in issued'[u]
    BY <1>1, <1>3, <1>7 DEF EverythingIsQueued
  <2>2. ASSUME NEW u \in Procs, NEW w \in Procs, NEW x \in issued'[u], x.kind = "put", x.to = w
        PROVE  \E j \in DOMAIN queues'[u][w] : x = PutRecord(w, queues'[u][w][j])
    <3>1. x \in issued[u]
      BY <1>5, <1>7, <2>2
    <3> QED BY <1>1, <1>3, <2>2, <3>1 DEF EverythingIsQueued
  <2>3. ASSUME NEW u \in Procs, NEW x \in issued'[u], x.kind = "get"
        PROVE  \/ x.from = u /\ x.source = x.cell
               \/ \E j \in DOMAIN request_queues'[u] : x = GetRecord(request_queues'[u][j])
    <3>1. CASE u # s
      BY <1>3, <1>7, <1>10, <2>3, <3>1 DEF EverythingIsQueued
    <3>2. CASE u = s /\ x \in issued[s]
      <4>1. CASE x.from = u /\ x.source = x.cell
        BY <4>1
      <4>2. CASE \E j \in DOMAIN q : x = GetRecord(q[j])
        BY <1>10, <1>11, <3>2, <4>2
      <4> QED BY <1>3, <2>3, <3>2, <4>1, <4>2 DEF EverythingIsQueued, q
    <3>3. CASE u = s /\ x \notin issued[s]
      <4>1. x = r
        BY <1>7, <2>3, <3>3
      <4> QED BY <1>5, <1>10, <1>11, <3>3, <4>1
    <3> QED BY <3>1, <3>2, <3>3
  <2> QED BY <2>1, <2>2, <2>3 DEF EverythingIsQueued, PutRecord, GetRecord
<1> QED BY <1>1, <1>2, <1>3, <1>13, <1>14, <1>15, KeptBeforeFirst

LEMMA KeptHp ==
  ASSUME Kept, [Next]_vars, NEW s \in Procs, NEW e \in HpEntries, Phase(s) = "compute",
         hpdrma_queue' = [hpdrma_queue EXCEPT ![s] = Append(hpdrma_queue[s], e)],
         HpRecord(e) \in AbstractMemory!Requests, HpRecord(e).kind \in {"hpput", "hpget"},
         s = IF e.source_is_remote THEN e.destination[1] ELSE e.source[1],
         Records(s, HpRecord(e)),
         UNCHANGED <<queues, request_queues, entered, crossed, performed, before>>
  PROVE  Kept'
<1> DEFINE r == HpRecord(e)
           q == hpdrma_queue[s]
<1>1. Completed' = Completed
  BY SameCompleted
<1>2. /\ EverythingIsQueued /\ HistoryTypes /\ PutsAreKept
      /\ \A u \in Procs : HpKeptOf(u) /\ GetsKeptOf(u)
      /\ entered[s] = 3 * Completed /\ Completed \in Nat
      /\ \A u \in Procs : entered[u] <= 3 * Completed + 1 /\ entered[u] \in Nat
  BY InUserCode
<1>3. /\ HistoryTypes'
      /\ issued'[s] = issued[s] \cup {r}
      /\ \A u \in Procs : u # s => issued'[u] = issued[u]
      /\ \A u \in Procs : issued[u] \subseteq issued'[u]
  BY <1>2, RecordsEffect
<1>4. q \in Seq(HpEntries) /\ hpdrma_queue \in [Procs -> Seq(HpEntries)]
  BY TypesOfState DEF Kept
<1>5. /\ DOMAIN q = 1 .. Len(q) /\ Len(q) \in Nat
      /\ DOMAIN Append(q, e) = 1 .. Len(q) + 1
      /\ \A j \in 1 .. Len(q) : Append(q, e)[j] = q[j]
      /\ Append(q, e)[Len(q) + 1] = e
  BY <1>4, PushOnStack, LenProperties
<1>6. hpdrma_queue'[s] = Append(q, e) /\ \A u \in Procs : u # s => hpdrma_queue'[u] = hpdrma_queue[u]
  BY <1>4
<1> HIDE DEF q
<1>7. /\ \A j \in DOMAIN Append(q, e) : (j \in DOMAIN q /\ Append(q, e)[j] = q[j]) \/ Append(q, e)[j] = e
      /\ \A j \in DOMAIN q : j \in DOMAIN Append(q, e) /\ Append(q, e)[j] = q[j]
      /\ \E j \in DOMAIN Append(q, e) : Append(q, e)[j] = e
  BY <1>5
<1>8. \A u \in Procs : HpKeptOf(u)' /\ GetsKeptOf(u)'
  <2> SUFFICES ASSUME NEW u \in Procs
               PROVE  HpKeptOf(u)' /\ GetsKeptOf(u)'
    OBVIOUS
  <2>1. GetsKeptOf(u)'
    BY <1>1, <1>2, <1>3, GetsLeftAlone
  <2>2. CASE u # s
    <3>1. HpKeptOf(u)'
      BY <1>1, <1>2, <1>3, <1>6, <2>2, HpLeftAlone
    <3> QED BY <2>1, <3>1
  <2>3. CASE u = s
    <3>1. ASSUME NEW j \in DOMAIN Append(q, e)
          PROVE  /\ HpRecord(Append(q, e)[j]) \in issued'[s]
                 /\ s = IF Append(q, e)[j].source_is_remote
                          THEN Append(q, e)[j].destination[1] ELSE Append(q, e)[j].source[1]
      <4>1. CASE Append(q, e)[j] = e
        BY <1>3, <4>1
      <4>2. CASE j \in DOMAIN q /\ Append(q, e)[j] = q[j]
        BY <1>2, <1>3, <4>2 DEF HpKeptOf, q
      <4> QED BY <1>7, <4>1, <4>2
    <3>2. ASSUME NEW x \in issued'[s], x.kind \in {"hpput", "hpget"}
          PROVE  x \in performed'[s] \/ \E j \in DOMAIN Append(q, e) : x = HpRecord(Append(q, e)[j])
      <4>1. CASE x = r
        BY <1>7, <4>1
      <4>2. CASE x \in issued[s] /\ x \in performed[s]
        BY <4>2
      <4>3. CASE \E j \in DOMAIN q : x = HpRecord(q[j])
        BY <1>7, <4>3
      <4> QED BY <1>2, <1>3, <3>2, <4>1, <4>2, <4>3 DEF HpKeptOf, q
    <3>3. ~ (entered'[s] > 3 * Completed')
      BY <1>1, <1>2
    <3>4. HpKeptOf(s)'
      BY <1>6, <3>1, <3>2, <3>3 DEF HpKeptOf
    <3> QED BY <2>1, <2>3, <3>4
  <2> QED BY <2>2, <2>3
<1>9. RequestsAreKept'
  BY <1>3, <1>8, RequestsPerProcessNext
<1>10. PutsAreKept'
  BY <1>2, <1>3 DEF PutsAreKept, PutRecord
<1>11. \A u \in Procs : \A x \in issued'[u] : x.kind \in {"put", "get"} => x \in issued[u]
  BY <1>3
<1>12. EverythingIsQueued'
  <2>1. \A u \in Procs : \A j \in DOMAIN queues'[u][u] : PutRecord(u, queues'[u][u][j]) \in issued'[u]
    BY <1>2, <1>3 DEF EverythingIsQueued
  <2>2. ASSUME NEW u \in Procs, NEW w \in Procs, NEW x \in issued'[u], x.kind = "put", x.to = w
        PROVE  \E j \in DOMAIN queues'[u][w] : x = PutRecord(w, queues'[u][w][j])
    BY <1>2, <1>11, <2>2 DEF EverythingIsQueued
  <2>3. ASSUME NEW u \in Procs, NEW x \in issued'[u], x.kind = "get"
        PROVE  \/ x.from = u /\ x.source = x.cell
               \/ \E j \in DOMAIN request_queues'[u] : x = GetRecord(request_queues'[u][j])
    BY <1>2, <1>11, <2>3 DEF EverythingIsQueued
  <2> QED BY <2>1, <2>2, <2>3 DEF EverythingIsQueued, PutRecord, GetRecord
<1> QED BY <1>1, <1>2, <1>9, <1>10, <1>12, KeptBeforeFirst

LEMMA KeptHpPut ==
  ASSUME Kept, [Next]_vars, NEW s \in Procs, NEW t \in Procs, NEW source \in Cells, NEW c \in Cells,
         HpPut(s, t, source, c)
  PROVE  Kept'
<1> DEFINE e == [source |-> <<s, source>>, destination |-> <<t, c>>, source_is_remote |-> FALSE]
           r == [kind |-> "hpput", to |-> t, source |-> source, cell |-> c]
<1>1. /\ hpdrma_queue' = [hpdrma_queue EXCEPT ![s] = Append(hpdrma_queue[s], e)]
      /\ Records(s, r) /\ Phase(s) = "compute"
      /\ UNCHANGED <<queues, request_queues, entered, crossed, performed, before>>
  BY DEF HpPut, Uses
<1>2. e \in HpEntries
  BY RequestsOfUserCode DEF Kept
<1>3. HpRecord(e) = r /\ r.kind = "hpput" /\ s = IF e.source_is_remote THEN e.destination[1] ELSE e.source[1]
  BY DEF HpRecord
<1>4. r \in AbstractMemory!Requests
  BY DEF AbstractMemory!Requests, AbstractMemory!Procs, Procs
<1> HIDE DEF e, r
<1> QED BY <1>1, <1>2, <1>3, <1>4, KeptHp

LEMMA KeptHpGet ==
  ASSUME Kept, [Next]_vars, NEW s \in Procs, NEW t \in Procs, NEW source \in Cells, NEW c \in Cells,
         HpGet(s, t, source, c)
  PROVE  Kept'
<1> DEFINE e == [source |-> <<t, source>>, destination |-> <<s, c>>, source_is_remote |-> TRUE]
           r == [kind |-> "hpget", from |-> t, source |-> source, cell |-> c]
<1>1. /\ hpdrma_queue' = [hpdrma_queue EXCEPT ![s] = Append(hpdrma_queue[s], e)]
      /\ Records(s, r) /\ Phase(s) = "compute"
      /\ UNCHANGED <<queues, request_queues, entered, crossed, performed, before>>
  BY DEF HpGet, Uses
<1>2. e \in HpEntries
  BY RequestsOfUserCode DEF Kept
<1>3. HpRecord(e) = r /\ r.kind = "hpget" /\ s = IF e.source_is_remote THEN e.destination[1] ELSE e.source[1]
  BY DEF HpRecord
<1>4. r \in AbstractMemory!Requests
  BY DEF AbstractMemory!Requests, AbstractMemory!Procs, Procs
<1> HIDE DEF e, r
<1> QED BY <1>1, <1>2, <1>3, <1>4, KeptHp

(* The newest high-performance request is carried out and marked. *)
LEMMA KeptDrain ==
  ASSUME Kept, [Next]_vars, NEW s \in Procs, Drain(s)
  PROVE  Kept'
<1> DEFINE q == hpdrma_queue[s]
           r == HpRecord(Top(q))
<1>1. /\ UNCHANGED <<queues, request_queues, entered, crossed, issued, before>>
      /\ Phase(s) = "drain"
  BY DEF Drain
<1>2. /\ q \in Seq(HpEntries) /\ q # <<>>
      /\ hpdrma_queue' = [hpdrma_queue EXCEPT ![s] = Pop(q)]
      /\ performed' = [performed EXCEPT ![s] = @ \cup {r}]
  BY DrainEffect DEF Kept
<1>3. Completed' = Completed
  BY <1>1, SameCompleted
<1>4. /\ EverythingIsQueued /\ HistoryTypes /\ PutsAreKept
      /\ \A u \in Procs : HpKeptOf(u) /\ GetsKeptOf(u)
      /\ entered[s] = 3 * Completed /\ Completed \in Nat
      /\ \A u \in Procs : entered[u] <= 3 * Completed + 1 /\ entered[u] \in Nat
  BY <1>1, InUserCode
<1>5. /\ Len(q) \in Nat /\ Len(q) > 0 /\ DOMAIN q = 1 .. Len(q)
      /\ Top(q) = q[Len(q)]
      /\ DOMAIN Pop(q) = 1 .. Len(q) - 1
      /\ \A j \in 1 .. Len(q) - 1 : Pop(q)[j] = q[j]
  BY <1>2, PopFromStack
<1>6. hpdrma_queue \in [Procs -> Seq(HpEntries)]
  BY TypesOfState DEF Kept
<1>7. hpdrma_queue'[s] = Pop(q) /\ \A u \in Procs : u # s => hpdrma_queue'[u] = hpdrma_queue[u]
  BY <1>2, <1>6
<1>8. r \in issued[s]
  <2>1. Len(q) \in DOMAIN q
    BY <1>5
  <2>2. HpRecord(q[Len(q)]) \in issued[s]
    BY <1>4, <2>1 DEF HpKeptOf
  <2> QED BY <1>5, <2>2
<1>9. /\ \A j \in DOMAIN Pop(q) : j \in DOMAIN q /\ Pop(q)[j] = q[j]
      /\ \A j \in DOMAIN q : (j \in DOMAIN Pop(q) /\ Pop(q)[j] = q[j]) \/ q[j] = Top(q)
  BY <1>5
<1> HIDE DEF q, r
<1>10. /\ HistoryTypes'
       /\ performed'[s] = performed[s] \cup {r}
       /\ \A u \in Procs : u # s => performed'[u] = performed[u]
  <2>1. performed \in [Procs -> SUBSET AbstractMemory!Requests] /\ issued \in [Procs -> SUBSET AbstractMemory!Requests]
    BY <1>4 DEF HistoryTypes
  <2>2. r \in AbstractMemory!Requests
    BY <1>8, <2>1
  <2>3. performed' \in [Procs -> SUBSET AbstractMemory!Requests]
    BY <1>2, <2>1, <2>2
  <2>4. HistoryTypes'
    BY <1>1, <2>1, <2>3 DEF HistoryTypes, AbstractMemory!Requests
  <2> QED BY <1>2, <2>1, <2>4
<1>11. \A u \in Procs : HpKeptOf(u)' /\ GetsKeptOf(u)'
  <2> SUFFICES ASSUME NEW u \in Procs
               PROVE  HpKeptOf(u)' /\ GetsKeptOf(u)'
    OBVIOUS
  <2>1. GetsKeptOf(u)'
    BY <1>1, <1>3, <1>4, GetsLeftAlone
  <2>2. CASE u # s
    <3>1. HpKeptOf(u)'
      BY <1>1, <1>3, <1>4, <1>7, <1>10, <2>2, HpLeftAlone
    <3> QED BY <2>1, <3>1
  <2>3. CASE u = s
    <3>1. \A j \in DOMAIN Pop(q) :
            /\ HpRecord(Pop(q)[j]) \in issued[s]
            /\ s = IF Pop(q)[j].source_is_remote THEN Pop(q)[j].destination[1] ELSE Pop(q)[j].source[1]
      BY <1>4, <1>9 DEF HpKeptOf, q
    <3>2. ASSUME NEW x \in issued[s], x.kind \in {"hpput", "hpget"}
          PROVE  x \in performed'[s] \/ \E j \in DOMAIN Pop(q) : x = HpRecord(Pop(q)[j])
      <4>1. CASE x \in performed[s]
        BY <1>10, <4>1
      <4>2. CASE \E j \in DOMAIN q : x = HpRecord(q[j])
        BY <1>9, <1>10, <4>2 DEF r
      <4> QED BY <1>4, <3>2, <4>1, <4>2 DEF HpKeptOf, q
    <3>3. ~ (entered'[s] > 3 * Completed')
      BY <1>1, <1>3, <1>4
    <3>4. HpKeptOf(s)'
      BY <1>1, <1>7, <3>1, <3>2, <3>3 DEF HpKeptOf, HpRecord
    <3> QED BY <2>1, <2>3, <3>4
  <2> QED BY <2>2, <2>3
<1>12. RequestsAreKept'
  BY <1>10, <1>11, RequestsPerProcessNext
<1>13. PutsAreKept' /\ EverythingIsQueued'
  BY <1>1, <1>4 DEF PutsAreKept, EverythingIsQueued, PutRecord, GetRecord
<1> QED BY <1>1, <1>3, <1>4, <1>12, <1>13, KeptBeforeFirst

----
(* Gets are answered. *)
LEMMA KeptFetch ==
  ASSUME Kept, [Next]_vars, NEW s \in Procs, Fetch(s)
  PROVE  Kept'
<1>1. /\ UNCHANGED <<memory, hpdrma_queue, k, entered, crossed, issued, performed, before>>
      /\ Phase(s) = "get"
  BY DEF Fetch, history
<1>2. Completed' = Completed
  BY <1>1, SameCompleted
<1>3. /\ ~ Delivering /\ SeenMemory = memory /\ crossed[s] = 3 * Completed + 1
      /\ entered[s] = 3 * Completed + 1 /\ Completed \in Nat
  BY <1>1, OthersWaitDuringGets, Phases, CompletedExists, ConstantFacts DEF Kept
<1>4. ~ Delivering' /\ SeenMemory' = SeenMemory
  BY <1>1, <1>2, <1>3, SameDelivering DEF SeenMemory
<1> DEFINE q == request_queues[s]
<1>5. PICK r \in GetEntries :
        /\ q \in Seq(GetEntries) /\ q # <<>>
        /\ r = Top(q)
        /\ request_queues' = [request_queues EXCEPT ![s] = Pop(q)]
        /\ [cell |-> r.cell, value |-> memory[r.from][r.source]] \in Messages
        /\ queues' = IF r.from = s /\ r.source = r.cell THEN queues
                     ELSE [queues EXCEPT ![s][s] =
                             Append(queues[s][s], [cell |-> r.cell, value |-> memory[r.from][r.source]])]
  BY FetchEffect DEF Kept
<1> DEFINE m == [cell |-> r.cell, value |-> memory[r.from][r.source]]
           o == queues[s][s]
<1>6. /\ Len(q) \in Nat /\ Len(q) > 0 /\ DOMAIN q = 1 .. Len(q)
      /\ r = q[Len(q)]
      /\ DOMAIN Pop(q) = 1 .. Len(q) - 1
      /\ \A j \in 1 .. Len(q) - 1 : Pop(q)[j] = q[j]
  BY <1>5, PopFromStack
<1>7. request_queues'[s] = Pop(q) /\ \A u \in Procs : u # s => request_queues'[u] = request_queues[u]
  BY <1>5, TypesOfState DEF Kept
<1>8. m \in Messages /\ o \in Seq(Messages) /\ queues \in [Procs -> [Procs -> Seq(Messages)]]
  BY <1>5, TypesOfState DEF Kept
<1>9. /\ Append(o, m) \in Seq(Messages)
      /\ DOMAIN o = 1 .. Len(o) /\ Len(o) \in Nat /\ Len(Append(o, m)) = Len(o) + 1
      /\ DOMAIN Append(o, m) = 1 .. Len(o) + 1
      /\ \A j \in 1 .. Len(o) : Append(o, m)[j] = o[j]
      /\ Append(o, m)[Len(o) + 1] = m
  BY <1>8, PushOnStack, LenProperties
<1>10. \A u, w \in Procs : u # s \/ w # s => queues'[u][w] = queues[u][w]
  <2>1. queues' = queues \/ queues' = [queues EXCEPT ![s][s] = Append(o, m)]
    BY <1>5
  <2> QED BY <1>8, <2>1
<1>11. queues'[s][s] = IF r.from = s /\ r.source = r.cell THEN o ELSE Append(o, m)
  <2>1. queues' = IF r.from = s /\ r.source = r.cell THEN queues ELSE [queues EXCEPT ![s][s] = Append(o, m)]
    BY <1>5
  <2> QED BY <1>8, <2>1
<1>12. HistoryTypes /\ (\A u \in Procs : HpKeptOf(u) /\ GetsKeptOf(u)) /\ PutsAreKept /\ OnItsWayTo(s)
  BY RequestsPerProcess, DeliveryPerProcess DEF Kept
<1>13. GetRecord(r) \in issued[s]
  <2>1. Len(q) \in DOMAIN q
    BY <1>6
  <2> QED BY <1>6, <1>12, <2>1 DEF GetsKeptOf
<1>14. GetRecord(r).kind = "get" /\ GetRecord(r).from = r.from /\ GetRecord(r).source = r.source /\ GetRecord(r).cell = r.cell
  BY DEF GetRecord
<1>15. /\ \A j \in DOMAIN Pop(q) : j \in DOMAIN q /\ Pop(q)[j] = q[j]
       /\ \A j \in DOMAIN q : (j \in DOMAIN Pop(q) /\ Pop(q)[j] = q[j]) \/ q[j] = r
  BY <1>6
<1>16. TypeOK' /\ BarriersInStep'
  BY TypeStep, BarrierStep DEF Kept
<1>q. m = [cell |-> r.cell, value |-> SeenMemory[r.from][r.source]]
  BY <1>3
<1> HIDE DEF q, m, o
<1>17. RequestsAreKept'
  <2>1. HistoryTypes'
    BY <1>1, <1>12 DEF HistoryTypes, AbstractMemory!Requests
  <2>2. \A u \in Procs : HpKeptOf(u)'
    BY <1>1, <1>2, <1>12, HpLeftAlone
  <2>3. ASSUME NEW u \in Procs
        PROVE  GetsKeptOf(u)'
    <3>1. CASE u # s
      BY <1>1, <1>2, <1>7, <1>12, <3>1, GetsLeftAlone
    <3>2. CASE u = s
      <4>1. \A j \in DOMAIN Pop(q) : GetRecord(Pop(q)[j]) \in issued[s]
        BY <1>12, <1>15 DEF GetsKeptOf, q
      <4>2. ~ (entered'[s] > 3 * Completed' + 1)
        BY <1>1, <1>2, <1>3
      <4> QED BY <1>1, <1>7, <3>2, <4>1, <4>2 DEF GetsKeptOf
    <3> QED BY <3>1, <3>2
  <2> QED BY <2>1, <2>2, <2>3, RequestsPerProcessNext
<1>18. PutsAreKept'
  BY <1>1, <1>10, <1>12 DEF PutsAreKept
<1>19. QueuesAreEmptied'
  BY <1>4 DEF QueuesAreEmptied, Delivering
<1>20. KeptMemory'
  BY <1>1, <1>2, <1>3 DEF Kept, KeptMemory
<1>21. OnItsWayTo(s)'
  <2>1. PICK b \in 0 .. Len(o) :
          OwnQueueInOrder(s, b) /\ \A c \in Cells : CellOnItsWay(s, c, b)
    BY <1>12 DEF OnItsWayTo, o
  <2>2. b \in 0 .. Len(queues'[s][s])
    BY <1>9, <1>11, <2>1
  <2>3. \A j \in DOMAIN queues'[s][s] :
          \/ j \in DOMAIN o /\ queues'[s][s][j] = o[j]
          \/ b < j /\ queues'[s][s][j] = m
    BY <1>9, <1>11, <2>1
  <2>4. /\ \A j \in DOMAIN o : j \in DOMAIN queues'[s][s] /\ queues'[s][s][j] = o[j]
        /\ (r.from = s /\ r.source = r.cell) \/ \E j \in DOMAIN queues'[s][s] : b < j /\ queues'[s][s][j] = m
    BY <1>9, <1>11, <2>1
  <2>5. OwnQueueInOrder(s, b)'
    <3>1. ASSUME NEW j \in DOMAIN queues'[s][s]
          PROVE  IF j <= b THEN PutRecord(s, queues'[s][s][j]) \in issued[s]
                 ELSE \E x \in issued[s] :
                        x.kind = "get" /\ queues'[s][s][j] = [cell |-> x.cell, value |-> SeenMemory[x.from][x.source]]
      <4>1. CASE j \in DOMAIN o /\ queues'[s][s][j] = o[j]
        BY <2>1, <4>1 DEF OwnQueueInOrder, o
      <4>2. CASE b < j /\ queues'[s][s][j] = m
        <5>1. ~ (j <= b)
          <6>1. j \in Nat
            BY <1>9, <1>11
          <6> QED BY <2>1, <4>2, <6>1
        <5>2. GetRecord(r).kind = "get" /\ queues'[s][s][j] = [cell |-> GetRecord(r).cell, value |-> SeenMemory[GetRecord(r).from][GetRecord(r).source]]
          BY <1>14, <1>q, <4>2
        <5> QED BY <1>13, <5>1, <5>2
      <4> QED BY <2>3, <4>1, <4>2
    <3>2. crossed'[s] > 3 * Completed'
      BY <1>1, <1>2, <1>3
    <3> QED BY <1>1, <1>4, <3>1, <3>2 DEF OwnQueueInOrder
  <2>6. ASSUME NEW c \in Cells
        PROVE  CellOnItsWay(s, c, b)'
    <3>1. crossed[s] # 3 * Completed + 2
      BY <1>3
    <3>2. /\ \A u \in Procs : \A x \in issued[u] :
               x.kind = "put" /\ x.to = s /\ x.cell = c => StillQueued(u, s, x, b)
          /\ memory[s][c] = SeenMemory[s][c]
          /\ \A x \in issued[s] : x.kind = "get" /\ x.cell = c => StillWanted(s, x, b)
      BY <2>1, <3>1 DEF CellOnItsWay
    <3>3. ASSUME NEW u \in Procs, NEW x, StillQueued(u, s, x, b)
          PROVE  StillQueued(u, s, x, b)'
      <4>1. PICK j \in DOMAIN queues[u][s] : (u = s => j <= b) /\ x = PutRecord(s, queues[u][s][j])
        BY <3>3 DEF StillQueued
      <4>2. j \in DOMAIN queues'[u][s] /\ queues'[u][s][j] = queues[u][s][j]
        BY <1>10, <2>4, <4>1 DEF o
      <4> QED BY <4>1, <4>2 DEF StillQueued, PutRecord
    <3>4. ASSUME NEW x \in issued[s], x.kind = "get", StillWanted(s, x, b)
          PROVE  StillWanted(s, x, b)'
      <4>1. CASE x.from = s /\ x.source = x.cell
        BY <4>1 DEF StillWanted
      <4>2. CASE \E j \in DOMAIN q : x = GetRecord(q[j])
        <5>1. PICK j \in DOMAIN q : x = GetRecord(q[j])
          BY <4>2
        <5>2. CASE j \in DOMAIN Pop(q) /\ Pop(q)[j] = q[j]
          BY <1>7, <5>1, <5>2 DEF StillWanted, GetRecord
        <5>3. CASE q[j] = r
          <6>1. x = GetRecord(r)
            BY <5>1, <5>3
          <6>2. CASE r.from = s /\ r.source = r.cell
            BY <1>14, <6>1, <6>2 DEF StillWanted
          <6>3. CASE \E i \in DOMAIN queues'[s][s] : b < i /\ queues'[s][s][i] = m
            <7>1. m = [cell |-> x.cell, value |-> SeenMemory'[x.from][x.source]]
              BY <1>4, <1>14, <1>q, <6>1
            <7> QED BY <6>3, <7>1 DEF StillWanted
          <6> QED BY <2>4, <6>2, <6>3
        <5> QED BY <1>15, <5>1, <5>2, <5>3
      <4>3. CASE \E j \in DOMAIN o : b < j /\ o[j] = [cell |-> x.cell, value |-> SeenMemory[x.from][x.source]]
        BY <1>4, <2>4, <4>3 DEF StillWanted
      <4> QED BY <3>4, <4>1, <4>2, <4>3 DEF StillWanted, q, o
    <3> QED BY <1>1, <1>4, <3>2, <3>3, <3>4 DEF CellOnItsWay
  <2> QED BY <2>2, <2>5, <2>6 DEF OnItsWayTo
<1>22. ASSUME NEW t \in Procs, t # s
       PROVE  OnItsWayTo(t)'
  <2>1. OnItsWayTo(t) /\ \A u \in Procs : queues'[u][t] = queues[u][t]
    BY <1>10, <1>22, DeliveryPerProcess DEF Kept
  <2> QED BY <1>1, <1>2, <1>4, <1>7, <1>22, <2>1, LeftAlone
<1>23. DeliveryOnItsWay'
  BY <1>21, <1>22, DeliveryPerProcessNext
<1> QED BY <1>16, <1>17, <1>18, <1>19, <1>20, <1>23 DEF Kept

(* Messages are written, one's own first: what was fetched before what was
   put, so that a put prevails. *)
LEMMA KeptDeliver ==
  ASSUME Kept, [Next]_vars, NEW s \in Procs, Deliver(s)
  PROVE  Kept'
<1>1. /\ UNCHANGED <<request_queues, hpdrma_queue, k, entered, crossed, issued, performed, before>>
      /\ Phase(s) = "deliver" /\ k[s] < P
  BY DEF Deliver, history
<1>2. Completed' = Completed
  BY <1>1, SameCompleted
<1>3. crossed[s] = 3 * Completed + 2 /\ entered[s] = 3 * Completed + 2 /\ Completed \in Nat
  BY <1>1, Phases, CompletedExists, ConstantFacts DEF Kept
<1>4. Delivering /\ Delivering'
  BY <1>1, <1>2, <1>3 DEF Delivering
<1>5. SeenMemory' = SeenMemory
  BY <1>1, <1>4 DEF SeenMemory
<1>6. PICK from \in Procs, m \in Messages :
           /\ from = (k[s] + s) % P
           /\ queues[from][s] \in Seq(Messages) /\ queues[from][s] # <<>>
           /\ m = Top(queues[from][s])
           /\ m.cell \in Cells /\ m.value \in Values
           /\ memory' = [memory EXCEPT ![s][m.cell] = m.value]
           /\ queues' = [queues EXCEPT ![from][s] = Pop(queues[from][s])]
  BY DeliverEffect DEF Kept
<1> DEFINE q == queues[from][s]
           o == queues[s][s]
<1>7. /\ Len(q) \in Nat /\ Len(q) > 0 /\ DOMAIN q = 1 .. Len(q)
      /\ m = q[Len(q)]
      /\ Pop(q) \in Seq(Messages) /\ Len(Pop(q)) = Len(q) - 1
      /\ DOMAIN Pop(q) = 1 .. Len(q) - 1
      /\ \A j \in 1 .. Len(q) - 1 : Pop(q)[j] = q[j]
  BY <1>6, PopFromStack
<1>8. \A t, u \in Procs : queues'[t][u] = IF t = from /\ u = s THEN Pop(q) ELSE queues[t][u]
  <2>1. queues \in [Procs -> [Procs -> Seq(Messages)]]
    BY TypesOfState DEF Kept
  <2>2. queues' = [queues EXCEPT ![from][s] = Pop(q)]
    BY <1>6
  <2> HIDE DEF q
  <2> QED BY <2>1, <2>2
<1>9. \A t \in Procs : \A c \in Cells : memory'[t][c] = IF t = s /\ c = m.cell THEN m.value ELSE memory[t][c]
  <2>1. memory \in [Procs -> [Cells -> Values]]
    BY TypesOfState DEF Kept
  <2> QED BY <1>6, <2>1
<1>10. \A t \in Procs : t # s => memory'[t] = memory[t]
  BY <1>6, TypesOfState DEF Kept
<1>11. /\ \A j \in 0 .. P-1 : j < k[s] => queues[(j + s) % P][s] = <<>>
  BY <1>3 DEF Kept, QueuesAreEmptied
<1>12. from # s => o = <<>>
  <2>1. k[s] \in Nat /\ 0 \in 0 .. P-1
    BY ConstantFacts, TypesOfState DEF Kept
  <2>2. k[s] = 0 => from = s
    BY <1>6, Senders
  <2>3. 0 < k[s] => queues[(0 + s) % P][s] = <<>>
    BY <1>11, <2>1
  <2>4. (0 + s) % P = s
    BY Senders
  <2> QED BY <2>1, <2>2, <2>3, <2>4
<1>13. o \in Seq(Messages) /\ Len(o) \in Nat /\ DOMAIN o = 1 .. Len(o) /\ (o = <<>> => Len(o) = 0)
  <2>1. o \in Seq(Messages)
    BY TypesOfState DEF Kept
  <2> QED BY <2>1, LenProperties, EmptySeq
<1>14. TypeOK' /\ BarriersInStep'
  BY TypeStep, BarrierStep DEF Kept
<1>15. HistoryTypes /\ (\A u \in Procs : HpKeptOf(u) /\ GetsKeptOf(u)) /\ PutsAreKept /\ OnItsWayTo(s)
  BY RequestsPerProcess, DeliveryPerProcess DEF Kept
<1>16. /\ \A j \in DOMAIN Pop(q) : j \in DOMAIN q /\ Pop(q)[j] = q[j] /\ j < Len(q)
       /\ \A j \in DOMAIN q : (j \in DOMAIN Pop(q) /\ Pop(q)[j] = q[j]) \/ (j = Len(q) /\ q[j] = m)
       /\ Len(q) \in DOMAIN q
  BY <1>7
<1> HIDE DEF q, o
<1>17. RequestsAreKept'
  <2>1. HistoryTypes'
    BY <1>1, <1>15 DEF HistoryTypes, AbstractMemory!Requests
  <2>2. \A u \in Procs : HpKeptOf(u)' /\ GetsKeptOf(u)'
    BY <1>1, <1>2, <1>15, HpLeftAlone, GetsLeftAlone
  <2> QED BY <2>1, <2>2, RequestsPerProcessNext
<1>18. PutsAreKept'
  <2> SUFFICES ASSUME NEW u \in Procs, NEW t \in Procs, u # t, NEW j \in DOMAIN queues'[u][t]
               PROVE  PutRecord(t, queues'[u][t][j]) \in issued[u]
    BY <1>1 DEF PutsAreKept
  <2>1. j \in DOMAIN queues[u][t] /\ queues'[u][t][j] = queues[u][t][j]
    BY <1>8, <1>16 DEF q
  <2> QED BY <1>15, <2>1 DEF PutsAreKept
<1>19. QueuesAreEmptied'
  <2> SUFFICES ASSUME NEW t \in Procs, crossed[t] = 3 * Completed + 2
               PROVE  /\ \A j \in 0 .. P-1 : j < k[t] => queues'[(j + t) % P][t] = <<>>
                      /\ entered[t] = 3 * Completed + 3 => k[t] = P
    BY <1>1, <1>2 DEF QueuesAreEmptied
  <2>1. /\ \A j \in 0 .. P-1 : j < k[t] => queues[(j + t) % P][t] = <<>>
        /\ entered[t] = 3 * Completed + 3 => k[t] = P
    BY DEF Kept, QueuesAreEmptied
  <2>2. ASSUME NEW j \in 0 .. P-1, j < k[t]
        PROVE  queues'[(j + t) % P][t] = <<>>
    <3>1. (j + t) % P \in Procs
      BY Senders
    <3>2. queues[(j + t) % P][t] = <<>>
      BY <2>1, <2>2
    <3>3. ~ ((j + t) % P = from /\ t = s)
      BY <1>6, <3>2
    <3> QED BY <1>8, <3>1, <3>2, <3>3
  <2> QED BY <2>1, <2>2
<1>20. KeptMemory'
  BY <1>1, <1>4 DEF Kept, KeptMemory
<1>21. PICK b \in 0 .. Len(o) : OwnQueueInOrder(s, b) /\ \A c \in Cells : CellOnItsWay(s, c, b)
  BY <1>15 DEF OnItsWayTo, o
<1>22. b \in Nat /\ b <= Len(o)
  BY <1>13, <1>21
<1>23. \A c \in Cells : /\ AbstractMemory!PutInto(s, c)' = AbstractMemory!PutInto(s, c)
                        /\ AbstractMemory!GotInto(s, c)' = AbstractMemory!GotInto(s, c)
  BY <1>1, <1>5, SameInto
(* A put is written. *)
<1>24. ASSUME from # s \/ b = Len(o)
       PROVE  OnItsWayTo(s)'
  <2> DEFINE a == IF from = s THEN b - 1 ELSE b
  <2>0. b = Len(o)
    <3>1. CASE from # s
      <4>1. Len(o) = 0
        BY <1>12, <1>13, <3>1
      <4> QED BY <1>22, <4>1
    <3>2. CASE from = s
      BY <1>24, <3>2
    <3> QED BY <3>1, <3>2
  <2>1. /\ a \in Nat /\ a = Len(queues'[s][s]) /\ a <= b
        /\ \A j \in DOMAIN queues'[s][s] : j \in DOMAIN o /\ queues'[s][s][j] = o[j]
        /\ queues'[s][s] \in Seq(Messages)
    <3>1. CASE from = s
      <4>1. o = q /\ queues'[s][s] = Pop(q)
        BY <1>8, <3>1 DEF o, q
      <4>2. a = b - 1
        BY <3>1
      <4> HIDE DEF a
      <4>3. a = Len(q) - 1
        BY <2>0, <4>1, <4>2
      <4> QED BY <1>7, <1>16, <1>22, <4>1, <4>2, <4>3
    <3>2. CASE from # s
      <4>1. queues'[s][s] = o
        BY <1>8, <3>2 DEF o
      <4>2. a = b
        BY <3>2
      <4> HIDE DEF a
      <4> QED BY <1>13, <1>22, <2>0, <4>1, <4>2
    <3> QED BY <3>1, <3>2
  <2>2. PutRecord(s, m) \in issued[from]
    <3>1. CASE from = s
      <4>1. o = q
        BY <3>1 DEF o, q
      <4>2. Len(q) \in DOMAIN o /\ Len(q) <= b
        BY <1>7, <1>16, <2>0, <4>1
      <4>3. PutRecord(s, o[Len(q)]) \in issued[s]
        BY <1>21, <4>2 DEF OwnQueueInOrder, o
      <4> QED BY <1>7, <3>1, <4>1, <4>3
    <3>2. CASE from # s
      BY <1>7, <1>15, <1>16, <3>2 DEF PutsAreKept, q
    <3> QED BY <3>1, <3>2
  <2> HIDE DEF a
  <2>3. \A j \in DOMAIN queues'[s][s] : j \in DOMAIN o /\ queues'[s][s][j] = o[j] /\ j \in Nat /\ j <= a
    <3>1. DOMAIN queues'[s][s] = 1 .. a
      BY <2>1, LenProperties
    <3> QED BY <2>1, <3>1
  <2>4. ~ (a < Len(queues'[s][s])) /\ a \in 0 .. Len(queues'[s][s])
    BY <2>1
  <2>5. OwnQueueInOrder(s, a)'
    <3>1. ASSUME NEW j \in DOMAIN queues'[s][s]
          PROVE  j <= a /\ PutRecord(s, queues'[s][s][j]) \in issued[s]
      <4>1. j \in DOMAIN o /\ queues'[s][s][j] = o[j] /\ j <= a /\ j \in Nat
        BY <2>3
      <4>2. j <= b
        BY <1>22, <2>1, <4>1
      <4>3. PutRecord(s, o[j]) \in issued[s]
        BY <1>21, <4>1, <4>2 DEF OwnQueueInOrder, o
      <4> QED BY <4>1, <4>3
    <3> QED BY <1>1, <2>4, <3>1 DEF OwnQueueInOrder
  <2>6. ASSUME NEW c \in Cells
        PROVE  CellOnItsWay(s, c, a)'
    <3>1. crossed'[s] = 3 * Completed' + 2 /\ a = Len(queues'[s][s])
      BY <1>1, <1>2, <1>3, <2>1
    <3>2. CASE c = m.cell
      <4>1. memory'[s][c] = m.value
        BY <1>9, <3>2
      <4>2. PutRecord(s, m).kind = "put" /\ PutRecord(s, m).to = s /\ PutRecord(s, m).cell = m.cell /\ PutRecord(s, m).value = m.value
        BY DEF PutRecord
      <4>3. m.value \in AbstractMemory!PutInto(s, c)
        BY <2>2, <3>2, <4>2, PutIntoMembers
      <4> QED BY <1>23, <3>1, <4>1, <4>3 DEF CellOnItsWay
    <3>3. CASE c # m.cell
      <4>1. memory'[s][c] = memory[s][c]
        BY <1>9, <3>3
      <4>2. CASE memory[s][c] \in AbstractMemory!PutInto(s, c)
        BY <1>23, <3>1, <4>1, <4>2 DEF CellOnItsWay
      <4>3. CASE /\ \A u \in Procs : \A r \in issued[u] :
                      r.kind = "put" /\ r.to = s /\ r.cell = c => StillQueued(u, s, r, b)
                 /\ \/ memory[s][c] \in AbstractMemory!GotInto(s, c)
                    \/ /\ memory[s][c] = SeenMemory[s][c]
                       /\ \A r \in issued[s] : r.kind = "get" /\ r.cell = c => StillWanted(s, r, b)
        <5>1. ASSUME NEW u \in Procs, NEW r, r.cell = c, StillQueued(u, s, r, b)
              PROVE  StillQueued(u, s, r, a)'
          <6>1. PICK j \in DOMAIN queues[u][s] : (u = s => j <= b) /\ r = PutRecord(s, queues[u][s][j])
            BY <5>1 DEF StillQueued
          <6>2. queues[u][s][j] # m
            BY <3>3, <5>1, <6>1 DEF PutRecord
          <6>3. j \in DOMAIN queues'[u][s] /\ queues'[u][s][j] = queues[u][s][j]
            BY <1>8, <1>16, <6>2 DEF q
          <6>4. u = s => j <= a
            BY <2>3, <6>3
          <6> QED BY <6>1, <6>3, <6>4 DEF StillQueued, PutRecord
        <5>2. ASSUME NEW r, StillWanted(s, r, b)
              PROVE  StillWanted(s, r, a)'
          <6>1. ~ \E j \in DOMAIN o : b < j
            BY <1>13, <2>0
          <6>2. \/ r.from = s /\ r.source = r.cell
                \/ \E j \in DOMAIN request_queues[s] : r = GetRecord(request_queues[s][j])
            BY <5>2, <6>1 DEF StillWanted, o
          <6> QED BY <1>1, <6>2 DEF StillWanted, GetRecord
        <5> QED BY <1>1, <1>5, <1>23, <3>1, <4>1, <4>3, <5>1, <5>2 DEF CellOnItsWay
      <4> QED BY <1>21, <4>2, <4>3 DEF CellOnItsWay
    <3> QED BY <3>2, <3>3
  <2> QED BY <2>4, <2>5, <2>6 DEF OnItsWayTo
(* A value that was fetched is written. *)
<1>25. ASSUME from = s, b # Len(o)
       PROVE  OnItsWayTo(s)'
  <2>1. /\ b < Len(o) /\ o = q /\ queues'[s][s] = Pop(q)
        /\ b <= Len(queues'[s][s]) /\ Len(queues'[s][s]) \in Nat
    <3>1. o = q /\ queues'[s][s] = Pop(q)
      BY <1>8, <1>25 DEF o, q
    <3>2. Len(o) \in Nat /\ Len(Pop(q)) = Len(o) - 1 /\ b < Len(o)
      <4>1. Len(o) \in Nat /\ b \in Nat /\ b <= Len(o) /\ b # Len(o)
        BY <1>13, <1>22, <1>25
      <4>2. Len(Pop(q)) = Len(o) - 1
        BY <1>7, <3>1
      <4> QED BY <4>1, <4>2
    <3> QED BY <1>22, <3>1, <3>2
  <2>2. PICK r \in issued[s] :
          r.kind = "get" /\ m = [cell |-> r.cell, value |-> SeenMemory[r.from][r.source]]
    <3>1. Len(o) \in DOMAIN o /\ ~ (Len(o) <= b) /\ m = o[Len(o)]
      BY <1>7, <1>16, <1>22, <2>1
    <3> QED BY <1>21, <3>1 DEF OwnQueueInOrder, o
  <2>3. OwnQueueInOrder(s, b)'
    <3>1. ASSUME NEW j \in DOMAIN queues'[s][s]
          PROVE  IF j <= b THEN PutRecord(s, queues'[s][s][j]) \in issued[s]
                 ELSE \E x \in issued[s] :
                        x.kind = "get" /\ queues'[s][s][j] = [cell |-> x.cell, value |-> SeenMemory[x.from][x.source]]
      <4>1. j \in DOMAIN o /\ queues'[s][s][j] = o[j]
        BY <1>16, <2>1
      <4> QED BY <1>21, <4>1 DEF OwnQueueInOrder, o
    <3>2. crossed'[s] > 3 * Completed'
      BY <1>1, <1>2, <1>3
    <3> QED BY <1>1, <1>5, <3>1, <3>2 DEF OwnQueueInOrder
  <2>4. ASSUME NEW c \in Cells
        PROVE  CellOnItsWay(s, c, b)'
    <3>1. crossed'[s] = 3 * Completed' + 2
      BY <1>1, <1>2, <1>3
    <3>2. /\ \A u \in Procs : \A x \in issued[u] :
               x.kind = "put" /\ x.to = s /\ x.cell = c => StillQueued(u, s, x, b)
          /\ \/ memory[s][c] \in AbstractMemory!GotInto(s, c)
             \/ /\ memory[s][c] = SeenMemory[s][c]
                /\ \A x \in issued[s] : x.kind = "get" /\ x.cell = c => StillWanted(s, x, b)
      BY <1>21, <2>1 DEF CellOnItsWay, o
    <3>3. ASSUME NEW u \in Procs, NEW x, StillQueued(u, s, x, b)
          PROVE  StillQueued(u, s, x, b)'
      <4>1. PICK j \in DOMAIN queues[u][s] : (u = s => j <= b) /\ x = PutRecord(s, queues[u][s][j])
        BY <3>3 DEF StillQueued
      <4>2. j \in DOMAIN queues'[u][s] /\ queues'[u][s][j] = queues[u][s][j]
        <5>1. CASE u = s
          <6>1. j \in DOMAIN q /\ j <= b
            BY <2>1, <4>1, <5>1 DEF o
          <6>2. j # Len(q)
            BY <1>7, <1>22, <2>1, <6>1
          <6> QED BY <1>16, <2>1, <5>1, <6>1, <6>2 DEF o
        <5>2. CASE u # s
          BY <1>8, <1>25, <4>1, <5>2
        <5> QED BY <5>1, <5>2
      <4> QED BY <4>1, <4>2 DEF StillQueued, PutRecord
    <3>4. CASE c = m.cell
      <4>1. memory'[s][c] = m.value
        BY <1>9, <3>4
      <4>2. m.value \in AbstractMemory!GotInto(s, c)
        BY <2>2, <3>4, GotIntoMembers
      <4> QED BY <1>1, <1>23, <3>1, <3>2, <3>3, <4>1, <4>2 DEF CellOnItsWay
    <3>5. CASE c # m.cell
      <4>1. memory'[s][c] = memory[s][c]
        BY <1>9, <3>5
      <4>2. ASSUME NEW x, x.cell = c, StillWanted(s, x, b)
            PROVE  StillWanted(s, x, b)'
        <5>1. CASE \/ x.from = s /\ x.source = x.cell
                   \/ \E j \in DOMAIN request_queues[s] : x = GetRecord(request_queues[s][j])
          BY <1>1, <5>1 DEF StillWanted, GetRecord
        <5>2. CASE \E j \in DOMAIN o : b < j /\ o[j] = [cell |-> x.cell, value |-> SeenMemory[x.from][x.source]]
          <6>1. PICK j \in DOMAIN o : b < j /\ o[j] = [cell |-> x.cell, value |-> SeenMemory[x.from][x.source]]
            BY <5>2
          <6>2. o[j] # m
            BY <3>5, <4>2, <6>1
          <6>3. j \in DOMAIN queues'[s][s] /\ queues'[s][s][j] = o[j]
            BY <1>16, <2>1, <6>1, <6>2
          <6> QED BY <1>5, <6>1, <6>3 DEF StillWanted
        <5> QED BY <4>2, <5>1, <5>2 DEF StillWanted, o
      <4> QED BY <1>1, <1>5, <1>23, <3>1, <3>2, <3>3, <4>1, <4>2 DEF CellOnItsWay
    <3> QED BY <3>4, <3>5
  <2>5. b \in 0 .. Len(queues'[s][s])
    BY <1>22, <2>1
  <2> QED BY <2>3, <2>4, <2>5 DEF OnItsWayTo
<1>26. OnItsWayTo(s)'
  BY <1>24, <1>25
<1>27. ASSUME NEW t \in Procs, t # s
       PROVE  OnItsWayTo(t)'
  <2>1. OnItsWayTo(t) /\ \A u \in Procs : queues'[u][t] = queues[u][t]
    BY <1>8, <1>27, DeliveryPerProcess DEF Kept
  <2> QED BY <1>1, <1>2, <1>5, <1>10, <1>27, <2>1, LeftAlone
<1>28. DeliveryOnItsWay'
  BY <1>26, <1>27, DeliveryPerProcessNext
<1> QED BY <1>14, <1>17, <1>18, <1>19, <1>20, <1>28 DEF Kept

----
LEMMA InitCompleted ==
  ASSUME Init
  PROVE  /\ Completed = 0 /\ ~ Delivering /\ SeenMemory = Start
         /\ entered = [s \in Procs |-> 0] /\ crossed = [s \in Procs |-> 0] /\ calls = [s \in Procs |-> 0]
<1>1. /\ entered = [s \in Procs |-> 0] /\ crossed = [s \in Procs |-> 0] /\ calls = [s \in Procs |-> 0]
      /\ memory = Start
  BY DEF Init, Bar!Init, Bar!Procs, Procs
<1>2. (\A s \in Procs : entered[s] >= 3 * 0) /\ (\E s \in Procs : entered[s] < 3 * (0 + 1))
  BY <1>1, ConstantFacts
<1>3. Completed = 0
  BY <1>2, InitBarriers, CompletedUnique, ConstantFacts DEF NoOtherIsCompleted
<1>4. ~ Delivering
  BY <1>1, <1>3 DEF Delivering
<1> QED BY <1>1, <1>3, <1>4 DEF SeenMemory

LEMMA InitKept == Init => Kept
<1> SUFFICES ASSUME Init
             PROVE  Kept
  OBVIOUS
<1>1. TypeOK /\ BarriersInStep
  BY InitBarriers
<1>2. /\ Completed = 0 /\ entered = [s \in Procs |-> 0] /\ crossed = [s \in Procs |-> 0]
  BY InitCompleted
<1>3. DOMAIN <<>> = {}
  OBVIOUS
<1>4. RequestsAreKept
  <2>1. HistoryTypes
    BY DEF Init, HistoryTypes
  <2>2. \A s \in Procs : HpKeptOf(s) /\ GetsKeptOf(s)
    BY <1>3 DEF Init, HpKeptOf, GetsKeptOf
  <2> QED BY <2>1, <2>2, RequestsPerProcess
<1>5. PutsAreKept /\ EverythingIsQueued
  BY <1>3 DEF Init, PutsAreKept, EverythingIsQueued
<1>6. NobodyIsPastFirst /\ \A s \in Procs : crossed[s] # 3 * Completed + 2
  BY <1>2 DEF NobodyIsPastFirst
<1>7. QueuesAreEmptied
  BY <1>6 DEF QueuesAreEmptied
<1>8. DeliveryOnItsWay
  BY <1>1, <1>5, <1>6, QueuedIsOnItsWay
<1>9. KeptMemory
  BY <1>2, StartAssumption DEF Init, KeptMemory, Procs
<1> QED BY <1>1, <1>4, <1>5, <1>7, <1>8, <1>9 DEF Kept

LEMMA KeptStep == Kept /\ [Next]_vars => Kept'
<1> SUFFICES ASSUME Kept, [Next]_vars
             PROVE  Kept'
  OBVIOUS
<1>1. ASSUME NEW s \in Procs, Writing(s)
      PROVE  Kept'
  <2>1. /\ Phase(s) = "compute"
        /\ UNCHANGED <<queues, request_queues, hpdrma_queue, entered, crossed, issued, performed, before>>
    BY <1>1 DEF Writing, Write, Uses, queueVars, history
  <2> QED BY <2>1, KeptWrite
<1>2. ASSUME NEW s \in Procs, NEW t \in Procs, NEW source \in Cells, NEW c \in Cells,
             DirectGet(s, t, source, c)
      PROVE  Kept'
  <2>1. /\ Phase(s) = "compute"
        /\ UNCHANGED <<queues, request_queues, hpdrma_queue, entered, crossed, issued, performed, before>>
    BY <1>2 DEF DirectGet, Uses, queueVars, history
  <2> QED BY <2>1, KeptWrite
<1>3. ASSUME NEW s \in Procs, Requesting(s)
      PROVE  Kept'
  BY <1>2, <1>3, KeptPut, KeptGet, KeptHpPut, KeptHpGet DEF Requesting
<1>4. ASSUME NEW s \in Procs, ArriveEnd(s)
      PROVE  Kept'
  <2>1. Phase(s) = "deliver" /\ Arrives(s)
    BY <1>4 DEF ArriveEnd, Arrives, Bar!Arrive
  <2> QED BY <1>4, <2>1, Arrivals, KeptArriveEnd, KeptLastArrival DEF Kept
<1>5. ASSUME NEW s \in Procs, InSync(s)
      PROVE  Kept'
  BY <1>4, <1>5, KeptDrain, KeptArriveStart, KeptFetch, KeptArriveMid, KeptDeliver, KeptNextQueue, KeptCross
     DEF InSync
<1>6. CASE Finished \/ UNCHANGED vars
  BY <1>6, KeptStutter DEF Finished, vars
<1> QED BY <1>1, <1>3, <1>5, <1>6, KeptCall DEF Next

LEMMA KeptLeavesNothing == Kept => NothingIsLeftOver
<1> SUFFICES ASSUME Kept, NEW s \in Procs, NEW t \in Procs, Phase(s) = "compute"
             PROVE  /\ \A j \in DOMAIN queues[t][s] : PutRecord(s, queues[t][s][j]) \in issued[t]
                    /\ \A j \in DOMAIN request_queues[s] : GetRecord(request_queues[s][j]) \in issued[s]
  BY DEF NothingIsLeftOver
<1>1. EverythingIsQueued /\ PutsAreKept /\ GetsKeptOf(s)
  BY InUserCode
<1> QED BY <1>1 DEF EverythingIsQueued, PutsAreKept, GetsKeptOf

THEOREM KeptAlways == Spec => []Kept
BY InitKept, KeptStep, PTL DEF Spec

(* No request is lost, answered late or left over: at every moment each
   put and get is queued, on its way, or where it belongs. *)
THEOREM Invariant == Spec => []DrmaInv
<1>1. Kept => DrmaInv
  BY KeptLeavesNothing DEF Kept, DrmaInv
<1> QED BY <1>1, KeptAlways, PTL

----
(* The memory as user code may think of it. *)
LEMMA InitMemory == Init => AbstractMemory!Init
<1> SUFFICES ASSUME Init
             PROVE  AbstractMemory!Init
  OBVIOUS
<1> QED
  BY InitCompleted, StartAssumption DEF Init, AbstractMemory!Init, AbstractMemory!Procs, Procs

(* In user code, and in the part of bsp_sync before the first barrier, the
   memory is what it seems. *)
LEMMA SeenIsMemory ==
  ASSUME Kept, NEW s \in Procs, Phase(s) \in {"compute", "drain"}, UNCHANGED <<entered, crossed>>
  PROVE  /\ Completed' = Completed /\ SeenMemory = memory /\ SeenMemory' = memory'
         /\ Phase(s) = "compute" => calls[s] = Completed
         /\ memory \in [Procs -> [Cells -> Values]]
<1>1. Completed' = Completed
  BY SameCompleted
<1>2. ~ Delivering /\ SeenMemory = memory
  BY NobodyIsPast DEF Kept
<1>3. SeenMemory' = memory'
  BY <1>1, <1>2, SameDelivering DEF SeenMemory
<1>4. Phase(s) = "compute" => calls[s] = Completed
  BY Phases DEF Kept
<1>5. memory \in [Procs -> [Cells -> Values]]
  BY TypesOfState DEF Kept
<1> QED BY <1>1, <1>2, <1>3, <1>4, <1>5

LEMMA WriteWrites ==
  ASSUME Kept, NEW s \in Procs, Phase(s) = "compute", NEW c \in Cells, NEW v \in Values,
         memory' = [memory EXCEPT ![s][c] = v],
         UNCHANGED <<entered, crossed, issued, performed, calls>>
  PROVE  AbstractMemory!Next
<1>1. AbstractMemory!Write(s)
  BY SeenIsMemory DEF AbstractMemory!Write, AbstractMemory!Computing
<1> QED BY <1>1 DEF AbstractMemory!Next, AbstractMemory!Procs, Procs

LEMMA RequestIssues ==
  ASSUME Kept, NEW s \in Procs, Phase(s) = "compute", NEW r \in AbstractMemory!Requests, Records(s, r),
         r.kind = "put" => \E c \in Cells : r.value = memory[s][c],
         UNCHANGED <<memory, entered, crossed, performed, calls>>
  PROVE  AbstractMemory!Next
<1>1. AbstractMemory!Issue(s)
  BY SeenIsMemory DEF AbstractMemory!Issue, AbstractMemory!Computing, Records
<1> QED BY <1>1 DEF AbstractMemory!Next, AbstractMemory!Procs, Procs

LEMMA UserCodeIsAbstract ==
  ASSUME Kept, NEW s \in Procs, Writing(s) \/ Requesting(s) \/ Call(s)
  PROVE  AbstractMemory!Next
<1>t. \A u \in Procs : \A c \in Cells : memory[u][c] \in Values
  BY TypesOfState DEF Kept
<1>1. ASSUME Writing(s)
      PROVE  AbstractMemory!Next
  <2>1. PICK c \in Cells, v \in Written : Write(s, c, v)
    BY <1>1 DEF Writing
  <2>2. /\ Phase(s) = "compute" /\ memory' = [memory EXCEPT ![s][c] = v]
        /\ UNCHANGED <<entered, crossed, issued, performed, calls>>
    BY <2>1 DEF Write, Uses, history
  <2>3. v \in Values
    BY WrittenAssumption
  <2> QED BY <2>2, <2>3, WriteWrites
<1>2. ASSUME NEW t \in Procs, NEW source \in Cells, NEW c \in Cells, DirectGet(s, t, source, c)
      PROVE  AbstractMemory!Next
  <2>1. /\ Phase(s) = "compute" /\ memory' = [memory EXCEPT ![s][c] = memory[t][source]]
        /\ UNCHANGED <<entered, crossed, issued, performed, calls>>
    BY <1>2 DEF DirectGet, Uses, history
  <2> QED BY <1>t, <2>1, WriteWrites
<1>3. ASSUME NEW t \in Procs, NEW source \in Cells, NEW c \in Cells, Put(s, t, source, c)
      PROVE  AbstractMemory!Next
  <2> DEFINE r == [kind |-> "put", to |-> t, cell |-> c, value |-> memory[s][source]]
  <2>1. /\ Phase(s) = "compute" /\ Records(s, r)
        /\ UNCHANGED <<memory, entered, crossed, performed, calls>>
    BY <1>3 DEF Put, Uses
  <2>2. r \in AbstractMemory!Requests /\ r.value = memory[s][source]
    BY <1>t, RequestsOfKinds
  <2> HIDE DEF r
  <2> QED BY <2>1, <2>2, RequestIssues
<1>4. ASSUME NEW t \in Procs, NEW source \in Cells, NEW c \in Cells,
             Get(s, t, source, c) \/ HpPut(s, t, source, c) \/ HpGet(s, t, source, c)
      PROVE  AbstractMemory!Next
  <2>1. PICK r \in { [kind |-> "get", from |-> t, source |-> source, cell |-> c],
                     [kind |-> "hpput", to |-> t, source |-> source, cell |-> c],
                     [kind |-> "hpget", from |-> t, source |-> source, cell |-> c] } : Records(s, r)
    BY <1>4 DEF Get, HpPut, HpGet
  <2>2. Phase(s) = "compute" /\ UNCHANGED <<memory, entered, crossed, performed, calls>>
    BY <1>4 DEF Get, HpPut, HpGet, Uses
  <2>3. r \in AbstractMemory!Requests
    BY DEF AbstractMemory!Requests, AbstractMemory!Procs, Procs
  <2>4. r.kind # "put"
    OBVIOUS
  <2> QED BY <2>1, <2>2, <2>3, <2>4, RequestIssues
<1>5. ASSUME Call(s)
      PROVE  AbstractMemory!Next
  <2>1. /\ Phase(s) = "compute" /\ calls' = [calls EXCEPT ![s] = @ + 1]
        /\ UNCHANGED <<memory, entered, crossed, issued, performed>>
    BY <1>5 DEF Call, history
  <2>2. AbstractMemory!Call(s)
    BY <2>1, SeenIsMemory DEF AbstractMemory!Call, AbstractMemory!Computing
  <2> QED BY <2>2 DEF AbstractMemory!Next, AbstractMemory!Procs, Procs
<1> QED BY <1>1, <1>2, <1>3, <1>4, <1>5 DEF Requesting

LEMMA DrainCopies ==
  ASSUME Kept, NEW s \in Procs, Drain(s)
  PROVE  AbstractMemory!Next
<1> DEFINE e == Top(hpdrma_queue[s])
           r == HpRecord(e)
<1>1. /\ Phase(s) = "drain"
      /\ UNCHANGED <<entered, crossed, issued, calls>>
  BY DEF Drain
<1>2. /\ hpdrma_queue[s] \in Seq(HpEntries) /\ hpdrma_queue[s] # <<>>
      /\ performed' = [performed EXCEPT ![s] = @ \cup {r}]
  BY DrainEffect DEF Kept
<1>3. PICK u, v \in Procs, a, c \in Cells :
        /\ e.source = <<u, a>>
        /\ e.destination = <<v, c>>
        /\ memory' = [memory EXCEPT ![v][c] = memory[u][a]]
  BY DrainEffect DEF Kept
<1>4. /\ e = hpdrma_queue[s][Len(hpdrma_queue[s])]
      /\ Len(hpdrma_queue[s]) \in DOMAIN hpdrma_queue[s]
  <2> DEFINE q == hpdrma_queue[s]
  <2>1. Len(q) \in Nat /\ Len(q) > 0 /\ DOMAIN q = 1 .. Len(q) /\ Top(q) = q[Len(q)]
    BY <1>2, PopFromStack
  <2> HIDE DEF q
  <2>2. Len(q) \in DOMAIN q
    BY <2>1
  <2> QED BY <2>1, <2>2 DEF q
<1>5. r \in issued[s] /\ s = IF e.source_is_remote THEN e.destination[1] ELSE e.source[1]
  BY <1>4, RequestsPerProcess DEF Kept, HpKeptOf
<1>6. /\ SeenMemory = memory /\ SeenMemory' = memory' /\ Completed' = Completed
  BY <1>1, SeenIsMemory
<1> HIDE DEF e
<1>7. \/ /\ r.kind = "hpput"
         /\ memory' = [memory EXCEPT ![r.to][r.cell] = memory[s][r.source]]
      \/ /\ r.kind = "hpget"
         /\ memory' = [memory EXCEPT ![s][r.cell] = memory[r.from][r.source]]
  <2>1. CASE e.source_is_remote
    <3>1. r = [kind |-> "hpget", from |-> u, source |-> a, cell |-> c] /\ s = v
      BY <1>3, <1>5, <2>1 DEF HpRecord
    <3> QED BY <1>3, <3>1
  <2>2. CASE ~ e.source_is_remote
    <3>1. r = [kind |-> "hpput", to |-> v, source |-> a, cell |-> c] /\ s = u
      BY <1>3, <1>5, <2>2 DEF HpRecord
    <3> QED BY <1>3, <3>1
  <2> QED BY <2>1, <2>2
<1> HIDE DEF r
<1>8. AbstractMemory!HpCopy(s)
  BY <1>1, <1>2, <1>5, <1>6, <1>7 DEF AbstractMemory!HpCopy
<1> QED BY <1>8 DEF AbstractMemory!Next, AbstractMemory!Procs, Procs

(* The last arrival at the last barrier is the synchronisation. *)
LEMMA LastArrivalSyncs ==
  ASSUME Kept, [Next]_vars, NEW s \in Procs, ArriveEnd(s), Completed' = Completed + 1,
         \A t \in Procs \ {s} : entered[t] >= entered'[s],
         \A t \in Procs : /\ crossed[t] = 3 * Completed + 2 /\ calls[t] = Completed + 1
                          /\ t # s => entered[t] = 3 * Completed + 3
  PROVE  AbstractMemory!Next
<1>1. /\ UNCHANGED <<memory, queues, request_queues, calls, crossed>>
      /\ issued' = [t \in Procs |-> {}] /\ performed' = [t \in Procs |-> {}]
      /\ Phase(s) = "deliver"
  BY DEF ArriveEnd, Bar!Arrive, queueVars
<1>2. Completed \in Nat
  BY CompletedExists, ConstantFacts DEF Kept
<1>3. entered[s] = 3 * Completed + 2
  BY <1>1, Phases DEF Kept
<1>4. \A t \in Procs : entered[t] \in Nat /\ entered[t] > 3 * Completed /\ entered[t] > 3 * Completed + 1
  BY <1>2, <1>3
<1>5. \A t \in Procs : HpKeptOf(t) /\ GetsKeptOf(t)
  BY RequestsPerProcess DEF Kept
<1>6. \A t \in Procs : hpdrma_queue[t] = <<>> /\ request_queues[t] = <<>>
  BY <1>4, <1>5 DEF HpKeptOf, GetsKeptOf
<1>7. \A t, u \in Procs : queues[u][t] = <<>>
  BY AllDelivered
<1>8. DOMAIN <<>> = {} /\ Len(<<>>) = 0
  BY EmptySeq
<1>9. \A t \in Procs : \A r \in issued[t] : r.kind \in {"hpput", "hpget"} => r \in performed[t]
  BY <1>5, <1>6, <1>8 DEF HpKeptOf
<1>10. SeenMemory' = memory /\ memory \in [Procs -> [Cells -> Values]]
  <2>1. \A t \in Procs : crossed'[t] # 3 * Completed' + 2
    BY <1>1, <1>2
  <2>2. ~ Delivering'
    BY <2>1 DEF Delivering
  <2> QED BY <1>1, <2>2, TypesOfState DEF SeenMemory, Kept
<1>11. ASSUME NEW t \in Procs, NEW c \in Cells
       PROVE  memory[t][c] \in IF AbstractMemory!PutInto(t, c) # {} THEN AbstractMemory!PutInto(t, c)
                               ELSE IF AbstractMemory!GotInto(t, c) # {} THEN AbstractMemory!GotInto(t, c)
                               ELSE {SeenMemory[t][c]}
  <2>1. PICK b \in 0 .. Len(queues[t][t]) : CellOnItsWay(t, c, b)
    BY DeliveryPerProcess DEF Kept, OnItsWayTo
  <2>2. CASE memory[t][c] \in AbstractMemory!PutInto(t, c)
    BY <2>2
  <2>3. CASE /\ \A u \in Procs : \A r \in issued[u] :
                  r.kind = "put" /\ r.to = t /\ r.cell = c => StillQueued(u, t, r, b)
             /\ \/ memory[t][c] \in AbstractMemory!GotInto(t, c)
                \/ /\ memory[t][c] = SeenMemory[t][c]
                   /\ \A r \in issued[t] : r.kind = "get" /\ r.cell = c => StillWanted(t, r, b)
    <3>1. \A u \in Procs : \A r : ~ StillQueued(u, t, r, b)
      BY <1>7, <1>8 DEF StillQueued
    <3>2. AbstractMemory!PutInto(t, c) = {}
      BY <2>3, <3>1, PutIntoMembers
    <3>3. \A r : StillWanted(t, r, b) => r.from = t /\ r.source = r.cell
      BY <1>6, <1>7, <1>8 DEF StillWanted
    <3>4. CASE memory[t][c] \in AbstractMemory!GotInto(t, c)
      BY <3>2, <3>4
    <3>5. CASE /\ memory[t][c] = SeenMemory[t][c]
               /\ \A r \in issued[t] : r.kind = "get" /\ r.cell = c => StillWanted(t, r, b)
      <4>1. \A v \in AbstractMemory!GotInto(t, c) : v = SeenMemory[t][c]
        BY <3>3, <3>5, GotIntoMembers
      <4> QED BY <3>2, <3>5, <4>1
    <3> QED BY <2>3, <3>4, <3>5
  <2> QED BY <2>1, <2>2, <2>3 DEF CellOnItsWay
<1>12. \A t \in Procs : calls[t] > Completed
  BY <1>2
<1>13. AbstractMemory!Sync
  BY <1>1, <1>9, <1>10, <1>11, <1>12 DEF AbstractMemory!Sync, AbstractMemory!Procs, Procs
<1> QED BY <1>13 DEF AbstractMemory!Next

(* Everything else bsp_sync does goes unseen. *)
Unseen == UNCHANGED <<SeenMemory, issued, performed, calls, Completed>>

LEMMA SyncGoesUnseen ==
  ASSUME Kept, [Next]_vars, NEW s \in Procs,
         ArriveStart(s) \/ Fetch(s) \/ ArriveMid(s) \/ Deliver(s) \/ NextQueue(s) \/ Cross(s)
  PROVE  Unseen
<1>1. CASE ArriveStart(s)
  <2>1. Phase(s) = "drain" /\ Arrives(s) /\ UNCHANGED <<memory, crossed, issued, performed, before>>
    BY <1>1 DEF ArriveStart, Arrives, Bar!Arrive, history
  <2>2. Completed' = Completed
    BY <2>1, Arrivals DEF Kept
  <2> QED BY <2>1, <2>2, SameDelivering DEF Unseen, SeenMemory, Arrives
<1>2. CASE Fetch(s) \/ NextQueue(s)
  <2>1. UNCHANGED <<memory, entered, crossed, issued, performed, before, calls>>
    BY <1>2 DEF Fetch, NextQueue, history
  <2>2. Completed' = Completed
    BY <2>1, SameCompleted
  <2> QED BY <2>1, <2>2, SameDelivering DEF Unseen, SeenMemory
<1>3. CASE ArriveMid(s)
  <2>1. Phase(s) = "get" /\ Arrives(s) /\ UNCHANGED <<memory, crossed, issued, performed>>
    BY <1>3 DEF ArriveMid, Arrives, Bar!Arrive
  <2>2. Completed' = Completed
    BY <2>1, Arrivals DEF Kept
  <2>3. ~ Delivering /\ ~ Delivering'
    BY <2>1, <2>2, OthersWaitDuringGets, SameDelivering DEF Kept
  <2> QED BY <2>1, <2>2, <2>3 DEF Unseen, SeenMemory, Arrives
<1>4. CASE Deliver(s)
  <2>1. Phase(s) = "deliver" /\ UNCHANGED <<entered, crossed, issued, performed, before, calls>>
    BY <1>4 DEF Deliver, history
  <2>2. Completed' = Completed
    BY <2>1, SameCompleted
  <2>3. crossed[s] = 3 * Completed + 2
    BY <2>1, Phases DEF Kept
  <2>4. Delivering /\ Delivering'
    BY <2>1, <2>2, <2>3 DEF Delivering
  <2> QED BY <2>1, <2>2, <2>4 DEF Unseen, SeenMemory
<1>5. CASE Cross(s)
  <2>1. /\ UNCHANGED <<memory, entered, issued, performed, before, calls>>
        /\ crossed' = [crossed EXCEPT ![s] = @ + 1]
        /\ crossed[s] # entered[s] /\ \A t \in Procs : entered[t] >= entered[s]
    BY <1>5 DEF Cross, Bar!Cross, Bar!Procs, Procs, history
  <2>2. Completed' = Completed
    BY <2>1, SameCompleted
  <2>3. /\ Completed \in Nat
        /\ \A t \in Procs : /\ entered[t] \in Nat /\ crossed[t] \in Nat
                            /\ crossed[t] = entered[t] \/ entered[t] = crossed[t] + 1
    BY Positions, CompletedExists, ConstantFacts DEF Kept
  <2>4. \A t \in Procs : crossed'[t] = IF t = s THEN crossed[s] + 1 ELSE crossed[t]
    BY <2>1, TypesOfState DEF Kept
  <2>5. crossed[s] # 3 * Completed + 2
    <3>1. PICK u \in Procs : entered[u] < 3 * (Completed + 1)
      BY CompletedExists DEF Kept
    <3> QED BY <2>1, <2>3, <3>1
  <2>6. CASE crossed'[s] # 3 * Completed + 2
    <3>1. Delivering' = Delivering
      BY <2>2, <2>4, <2>5, <2>6 DEF Delivering
    <3> QED BY <2>1, <2>2, <3>1 DEF Unseen, SeenMemory
  <2>7. CASE crossed'[s] = 3 * Completed + 2
    <3>1. Delivering'
      BY <2>2, <2>7 DEF Delivering
    <3>2. entered[s] > 3 * Completed + 1
      BY <2>1, <2>3, <2>4, <2>7
    <3>3. ~ Delivering => before = memory
      BY <3>2 DEF Kept, KeptMemory
    <3> QED BY <2>1, <2>2, <3>1, <3>3 DEF Unseen, SeenMemory
  <2> QED BY <2>6, <2>7
<1> QED BY <1>1, <1>2, <1>3, <1>4, <1>5

LEMMA ArriveEndIsAbstract ==
  ASSUME Kept, [Next]_vars, NEW s \in Procs, ArriveEnd(s)
  PROVE  AbstractMemory!Next \/ Unseen
<1>1. Phase(s) = "deliver" /\ Arrives(s) /\ UNCHANGED <<memory, crossed, before, calls>>
  BY DEF ArriveEnd, Arrives, Bar!Arrive
<1>2. CASE /\ Completed' = Completed
           /\ \E t \in Procs \ {s} : ~ (entered[t] >= entered'[s])
  <2>1. UNCHANGED <<issued, performed>>
    BY <1>2 DEF ArriveEnd
  <2> QED BY <1>1, <1>2, <2>1, SameDelivering DEF Unseen, SeenMemory
<1>3. CASE /\ Completed' = Completed + 1
           /\ \A t \in Procs \ {s} : entered[t] >= entered'[s]
           /\ \A t \in Procs : /\ crossed[t] = 3 * Completed + 2 /\ calls[t] = Completed + 1
                               /\ t # s => entered[t] = 3 * Completed + 3
  BY <1>3, LastArrivalSyncs
<1> QED BY <1>1, <1>2, <1>3, Arrivals DEF Kept

LEMMA StepIsAbstract == Kept /\ [Next]_vars => [AbstractMemory!Next]_(AbstractMemory!vars)
<1> SUFFICES ASSUME Kept, [Next]_vars
             PROVE  AbstractMemory!Next \/ Unseen
  BY DEF AbstractMemory!vars, Unseen
<1>1. ASSUME NEW s \in Procs, InSync(s)
      PROVE  AbstractMemory!Next \/ Unseen
  BY <1>1, DrainCopies, SyncGoesUnseen, ArriveEndIsAbstract DEF InSync
<1>2. CASE Finished \/ UNCHANGED vars
  <2>1. UNCHANGED <<memory, entered, crossed, issued, performed, before, calls>>
    BY <1>2 DEF Finished, vars
  <2>2. Completed' = Completed
    BY <2>1, SameCompleted
  <2> QED BY <2>1, <2>2, SameDelivering DEF Unseen, SeenMemory
<1> QED BY <1>1, <1>2, UserCodeIsAbstract DEF Next

(* The superstep protocol implements what bsp.h promises. *)
THEOREM Refinement == Spec => ImplementsBspMemory
BY InitMemory, StepIsAbstract, KeptAlways, PTL DEF Spec, ImplementsBspMemory, AbstractMemory!Spec
====
